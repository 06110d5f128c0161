CONSTANTS
    c1 = c1
    c2 = c2
    NoConn = NoConn
    NoFd = 0
    EdgeTriggered = FALSE
    Listener = 4
    ClientFds <- OneClientFd
    Conns = {c1}
    Backlog = 2
    MaxEvents = 2
    ResponseLength = 3
    SendBuffer = 2
    LowWater = 0
    Pipeliners = {c1}
    MaxPieces = 1
    MaxRequests = 2
CHECK_DEADLOCK FALSE
SPECIFICATION FairSpec
PROPERTIES
    EveryRequestIsAnswered
