CONSTANTS
    c1 = c1
    c2 = c2
    c3 = c3
    NoConn = NoConn
    Listeners <- OneListener
    ClientFds <- OneClientFd
    Conns = {c1, c2}
    BufferLength = 2
    ByteBase = 2
    Backlog = 2
    MaxEpollItem = 2
    MaxBytes = 3
    MemoryPressure = FALSE
    BindMayFail = FALSE
CHECK_DEADLOCK FALSE
SPECIFICATION FairSpec
INVARIANTS
    EchoExact
PROPERTIES
    ImplementsEcho
    QueuedIsAccepted
    WrittenIsEchoed
    EndedIsReleased
