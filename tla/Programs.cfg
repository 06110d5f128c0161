CONSTANTS
    c1 = c1
    c2 = c2
    c3 = c3
    c4 = c4
    h1 = h1
    h2 = h2
    Programs = {"block", "noblock", "poll"}
    Listener = 3
    ClientFds = {4, 5}
    NoFd = 0
    PollSize = 5
    Conns = {c1, c2, c3}
    Writers = {c1, c2, c3}
    Enders = {c1, c2, c3}
    NoConn = NoConn
    ListenQueue = 2
    MaxMessages = 1
    MaxDatagrams = 5
    QueueLength = 3
    Hosts = {h1, h2}
    Own = own
    Nobody = nobody
    RingSize = 2
CHECK_DEADLOCK FALSE
SPECIFICATION Spec
INVARIANTS
    ThreadsReadForward
    ScanNeverBlocks
    BehindByMerged
    AnswersAddressed
PROPERTIES
    LatestIsRead
    LowerIsRead
