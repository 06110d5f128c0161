CONSTANTS
    c1 = c1
    c2 = c2
    c3 = c3
    NoConn = NoConn
    Listener = 1
    ClientFds <- OneClientFd
    Conns = {c1, c2}
    TableSize = 5
    ScanCount = 2
    Timeout = 2
    Backlog = 2
    MaxMaps = 3
    PageExists = FALSE
    MemoryPressure = TRUE
    MaxChunks = 1
CHECK_DEADLOCK FALSE
SPECIFICATION FairSpec
PROPERTIES
    OpenIsReleased
