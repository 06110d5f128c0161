CONSTANTS
    c1 = c1
    c2 = c2
    c3 = c3
    NoConn = NoConn
    Listeners <- TwoListeners
    ClientFds <- TwoClientFds
    Conns = {c1, c2, c3}
    BufferLength = 2
    ByteBase = 2
    Backlog = 1
    MaxEpollItem = 2
    MaxBytes = 1
    MemoryPressure = TRUE
    BindMayFail = TRUE
CHECK_DEADLOCK FALSE
SPECIFICATION Spec
SYMMETRY ConnSymmetry
INVARIANTS
    TypeOK
    RegistrationAgrees
    BatchFresh
