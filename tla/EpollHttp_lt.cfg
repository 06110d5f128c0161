CONSTANTS
    c1 = c1
    c2 = c2
    NoConn = NoConn
    NoFd = 0
    EdgeTriggered = FALSE
    Listener = 4
    ClientFds <- TwoClientFds
    Conns = {c1, c2}
    Backlog = 2
    MaxEvents = 2
    ResponseLength = 3
    SendBuffer = 2
    LowWater = 0
    Pipeliners = {c1}
    MaxPieces = 2
    MaxRequests = 2
CHECK_DEADLOCK FALSE
SPECIFICATION FairSpec
INVARIANTS
    TypeOK
    WriteInterest
    ResponsesWhole
    NoEarlyResponse
PROPERTIES
    ImplementsHttp
    RequestIsAnswered
    BegunIsFinished
