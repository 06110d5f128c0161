CONSTANTS
    c1 = c1
    c2 = c2
    NoConn = NoConn
    NoFd = 0
    EdgeTriggered = TRUE
    Listener = 4
    ClientFds <- TwoClientFds
    Conns = {c1, c2}
    Backlog = 2
    MaxEvents = 2
    ResponseLength = 3
    SendBuffer = 2
    LowWater = 0
    Pipeliners = {}
    MaxPieces = 1
    MaxRequests = 2
CHECK_DEADLOCK FALSE
SPECIFICATION FairSpec
PROPERTIES
    ImplementsHttp
    RequestIsAnswered
