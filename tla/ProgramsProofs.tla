--------------------------- MODULE ProgramsProofs ---------------------------
(***************************************************************************)
(* The small programs, for any number of clients, datagrams and machines   *)
(* and any length of their queues and rings: the servers that only         *)
(* receive, the SIGIO server and the ARP responder.                        *)
(***************************************************************************)
EXTENDS RecvServers, SigIo, ArpResponder, SequenceTheorems, WellFoundedInduction, TLAPS

-----------------------------------------------------------------------------
(***************************************************************************)
(* The servers that only receive.  In the thread servers nothing is ever   *)
(* closed, so accept() takes the numbers in turn and clientfd is the       *)
(* highest one open (Rising); a thread that reads it late reads forward.   *)
(* In the poll server an entry is used exactly while its descriptor is     *)
(* open and none is used beyond max_fd (Used), so that a scan meets what   *)
(* poll() reported; a number that was just accepted is free in the array   *)
(* that was polled.  That holds until accept() returns a number beyond the *)
(* array; no bound on the numbers is assumed.                              *)
(***************************************************************************)

\* The smallest number of a set of them.
LEMMA LowestHolds ==
    ASSUME NEW S \in SUBSET Nat, S # {}
    PROVE  Lowest(S) \in S /\ \A other \in S : Lowest(S) <= other
<1> DEFINE Below == {ss \in Nat \X Nat : ss[1] < ss[2]}
<1>1. IsWellFoundedOn(Below, Nat)
  BY NatLessThanWellFounded, Zenon DEF OpToRel
<1>2. PICK fd \in S : \A other \in S : ~ (<<other, fd>> \in Below)
  <2> HIDE DEF Below
  <2> QED BY <1>1, WFMin
<1>3. ASSUME NEW other \in S PROVE fd <= other
  <2>1. fd \in Nat /\ other \in Nat
    OBVIOUS
  <2>2. ~ (<<other, fd>> \in Below)
    BY <1>2
  <2> QED
    BY <2>1, <2>2
<1> QED
  BY <1>3 DEF Lowest

-----------------------------------------------------------------------------
(* The invariant.                                                          *)

RecvTypes ==
    /\ program \in Programs
    /\ sock \in [ClientFds -> Conns \cup {NoConn}]
    /\ state \in [Conns -> {"none", "queued", "open"}]
    /\ queue \in Seq(Conns)
    /\ peer \in [Conns -> {"up", "fin", "rst"}]
    /\ inbox \in [Conns -> Nat]
    /\ clientfd \in ClientFds \cup {NoFd}
    /\ thread \in [Conns -> {"none", "created", "running", "done"}]
    /\ threadFd \in [Conns -> ClientFds \cup {NoFd}]
    /\ entry \in [ClientFds -> BOOLEAN]
    /\ revents \in [ClientFds -> BOOLEAN]
    /\ maxFd \in Nat
    /\ pos \in ClientFds \cup {0}
    /\ health \in {"sound", "wild", "dead"}

\* A connection waits in the queue once, or is open under one number.
Held ==
    /\ \A i \in 1 .. Len(queue) : state[queue[i]] = "queued"
    /\ \A i, j \in 1 .. Len(queue) : queue[i] = queue[j] => i = j
    /\ \A fd \in ClientFds : sock[fd] # NoConn => state[sock[fd]] = "open"
    /\ \A f, g \in ClientFds : sock[f] # NoConn /\ sock[f] = sock[g] => f = g

\* The thread servers: the open numbers are the lowest ones, clientfd is the
\* highest of them, and a thread's connection is still open.
Rising ==
    Threaded =>
        /\ health = "sound" /\ pos = 0
        /\ \A f, g \in ClientFds : f < g /\ sock[g] # NoConn => sock[f] # NoConn
        /\ clientfd # NoFd => sock[clientfd] # NoConn
        /\ \A f \in ClientFds :
              clientfd # NoFd /\ sock[f] # NoConn => f <= clientfd
        /\ \A c \in Conns : thread[c] # "none" => \E f \in ClientFds : sock[f] = c

\* The poll server: no threads, and as long as it is sound the entries are
\* those of the open numbers, which are within the array.
Used ==
    ~Threaded =>
        /\ \A c \in Conns : thread[c] = "none"
        /\ health = "sound" =>
              \A f \in ClientFds :
                  /\ (entry[f] = TRUE) <=> sock[f] # NoConn
                  /\ sock[f] # NoConn => f <= maxFd /\ f < PollSize

\* What a scan still has to read has something to read.
Pending(f) ==
    /\ entry[f] = TRUE /\ sock[f] # NoConn
    /\ inbox[sock[f]] > 0 \/ peer[sock[f]] # "up"

ScanHolds ==
    (health = "sound" /\ pos # 0) =>
        /\ Pending(pos)
        /\ \A f \in ClientFds :
              pos <= f /\ f < maxFd /\ revents[f] = TRUE => Pending(f)

RecvInv == RecvTypes /\ Held /\ Rising /\ Used /\ ThreadsReadForward /\ ScanHolds

\* Descriptors are numbers above 0.
LEMMA FdsAreNumbers == \A fd \in ClientFds : fd \in Nat /\ fd # 0
BY RecvAssumption

\* The servers start with nothing open.
LEMMA RecvInitHolds == RecvInit => RecvInv
<1> SUFFICES ASSUME RecvInit PROVE RecvInv
  OBVIOUS
<1>1. queue = << >> /\ Len(queue) = 0 /\ queue \in Seq(Conns)
  BY EmptySeq DEF RecvInit
<1>2. \A f \in ClientFds : sock[f] = NoConn /\ entry[f] = FALSE
  BY DEF RecvInit
<1>3. revents \in [ClientFds -> BOOLEAN]
  BY DEF RecvInit
<1>4. RecvTypes
  BY <1>1, <1>3 DEF RecvInit, RecvTypes
<1>5. Held
  BY <1>1, <1>2 DEF Held
<1>6. health = "sound" /\ pos = 0 /\ clientfd = NoFd /\ \A c \in Conns : thread[c] = "none"
  BY DEF RecvInit
<1>7. Rising /\ Used /\ ThreadsReadForward /\ ScanHolds
  BY <1>2, <1>6 DEF Rising, Used, ThreadsReadForward, ScanHolds
<1> QED
  BY <1>4, <1>5, <1>7 DEF RecvInv

-----------------------------------------------------------------------------
(* accept().                                                               *)

\* The connection at the head of the queue gets the lowest free number.
LEMMA AcceptEffect ==
    ASSUME RecvInv, NEW fd \in ClientFds, Accepts(fd)
    PROVE  /\ Head(queue) \in Conns /\ sock[fd] = NoConn
           /\ \A f \in ClientFds : f < fd => sock[f] # NoConn
           /\ sock' \in [ClientFds -> Conns \cup {NoConn}]
           /\ sock'[fd] = Head(queue)
           /\ \A f \in ClientFds \ {fd} : sock'[f] = sock[f]
           /\ state' \in [Conns -> {"none", "queued", "open"}]
           /\ queue' \in Seq(Conns)
           /\ \A f \in ClientFds : sock[f] # Head(queue)
           /\ Held'
<1> DEFINE c == Head(queue)
<1>1. /\ queue \in Seq(Conns) /\ queue # << >> /\ queue' = Tail(queue)
      /\ fd = Lowest(FreeFds) /\ FreeFds # {}
      /\ sock' = [sock EXCEPT ![fd] = c]
      /\ state' = [state EXCEPT ![c] = "open"]
  BY DEF Accepts, RecvInv, RecvTypes
<1>2. FreeFds \in SUBSET Nat
  BY FdsAreNumbers DEF FreeFds
<1>3. sock[fd] = NoConn /\ \A f \in ClientFds : sock[f] = NoConn => fd <= f
  <2>1. fd \in FreeFds /\ \A f \in FreeFds : fd <= f
    BY <1>1, <1>2, LowestHolds
  <2> QED
    BY <2>1 DEF FreeFds
<1>4. \A f \in ClientFds : f < fd => sock[f] # NoConn
  BY <1>3, FdsAreNumbers
<1>5. /\ c \in Conns /\ c = queue[1] /\ 1 \in 1 .. Len(queue)
      /\ Tail(queue) \in Seq(Conns)
      /\ Len(queue) \in Nat /\ Len(Tail(queue)) = Len(queue) - 1
      /\ \A i \in 1 .. Len(Tail(queue)) : Tail(queue)[i] = queue[i + 1]
  BY <1>1, HeadTailProperties, LenProperties
<1> HIDE DEF c
<1>6. /\ sock' \in [ClientFds -> Conns \cup {NoConn}] /\ sock'[fd] = c
      /\ \A f \in ClientFds \ {fd} : sock'[f] = sock[f]
  BY <1>1, <1>5 DEF RecvInv, RecvTypes
<1>7. /\ state' \in [Conns -> {"none", "queued", "open"}]
      /\ state'[c] = "open" /\ \A d \in Conns \ {c} : state'[d] = state[d]
  BY <1>1, <1>5 DEF RecvInv, RecvTypes
<1>8. state[c] = "queued" /\ c # NoConn
  BY <1>5, RecvAssumption DEF RecvInv, Held
<1>9. \A f \in ClientFds : sock[f] # c
  BY <1>5, <1>8 DEF RecvInv, Held
<1>10. \A f \in ClientFds : sock[f] # NoConn => sock[f] \in Conns
  BY DEF RecvInv, RecvTypes
<1>11. ASSUME NEW i \in 1 .. Len(queue')
       PROVE  /\ i + 1 \in 1 .. Len(queue) /\ queue'[i] = queue[i + 1]
              /\ queue'[i] # c /\ queue'[i] \in Conns
  <2>1. i + 1 \in 1 .. Len(queue) /\ queue'[i] = queue[i + 1] /\ i + 1 # 1
    BY <1>1, <1>5
  <2>2. queue[i + 1] # queue[1]
    BY <1>5, <2>1 DEF RecvInv, Held
  <2>3. queue[i + 1] \in Conns
    BY <1>1, <2>1, ElementOfSeq
  <2> QED
    BY <1>5, <2>1, <2>2, <2>3
<1>12. Held'
  <2>1. \A i \in 1 .. Len(queue') : state'[queue'[i]] = "queued"
    BY <1>7, <1>11 DEF RecvInv, Held
  <2>2. ASSUME NEW i \in 1 .. Len(queue'), NEW j \in 1 .. Len(queue'),
               queue'[i] = queue'[j]
        PROVE  i = j
    <3>1. /\ i + 1 \in 1 .. Len(queue) /\ queue'[i] = queue[i + 1]
          /\ j + 1 \in 1 .. Len(queue) /\ queue'[j] = queue[j + 1]
      BY <1>11
    <3>2. i + 1 = j + 1
      BY <2>2, <3>1 DEF RecvInv, Held
    <3> QED
      BY <3>2
  <2>3. \A f \in ClientFds : sock'[f] # NoConn => state'[sock'[f]] = "open"
    BY <1>6, <1>7, <1>9, <1>10 DEF RecvInv, Held
  <2>4. \A f, g \in ClientFds :
           sock'[f] # NoConn /\ sock'[f] = sock'[g] => f = g
    BY <1>6, <1>9 DEF RecvInv, Held
  <2> QED
    BY <2>1, <2>2, <2>3, <2>4 DEF Held
<1> QED
  BY <1>1, <1>3, <1>4, <1>5, <1>6, <1>7, <1>9, <1>12 DEF c

\* recv() takes from one connection.
LEMMA ReceivesEffect ==
    ASSUME RecvInv, NEW c \in Conns, Receives(c)
    PROVE  /\ inbox' \in [Conns -> Nat]
           /\ \A d \in Conns \ {c} : inbox'[d] = inbox[d]
           /\ Held'
<1>1. PICK n \in 1 .. inbox[c] : inbox' = [inbox EXCEPT ![c] = @ - n]
  BY DEF Receives
<1>2. inbox[c] \in Nat /\ inbox[c] - n \in Nat
  BY <1>1 DEF RecvInv, RecvTypes
<1>3. Held'
  BY DEF Receives, RecvInv, Held
<1> QED
  BY <1>1, <1>2, <1>3 DEF RecvInv, RecvTypes

\* close() frees one number, and leaves the other connections.
LEMMA ClosesEffect ==
    ASSUME RecvInv, NEW fd \in ClientFds, Closes(fd)
    PROVE  /\ sock' \in [ClientFds -> Conns \cup {NoConn}] /\ sock'[fd] = NoConn
           /\ \A f \in ClientFds \ {fd} : sock'[f] = sock[f]
           /\ state' \in [Conns -> {"none", "queued", "open"}]
           /\ peer' \in [Conns -> {"up", "fin", "rst"}]
           /\ inbox' \in [Conns -> Nat]
           /\ \A d \in Conns \ {sock[fd]} : peer'[d] = peer[d] /\ inbox'[d] = inbox[d]
           /\ Held'
<1> DEFINE c == sock[fd]
<1>1. /\ c # NoConn /\ c \in Conns /\ UNCHANGED queue
      /\ sock' = [sock EXCEPT ![fd] = NoConn]
      /\ state' = [state EXCEPT ![c] = "none"]
      /\ peer' = [peer EXCEPT ![c] = "up"] /\ inbox' = [inbox EXCEPT ![c] = 0]
  BY DEF Closes, RecvInv, RecvTypes
<1>2. state[c] = "open" /\ \A f \in ClientFds : f # fd => sock[f] # c
  BY <1>1 DEF RecvInv, Held
<1> HIDE DEF c
<1>3. /\ sock' \in [ClientFds -> Conns \cup {NoConn}] /\ sock'[fd] = NoConn
      /\ \A f \in ClientFds \ {fd} : sock'[f] = sock[f]
  BY <1>1 DEF RecvInv, RecvTypes
<1>4. /\ state' \in [Conns -> {"none", "queued", "open"}]
      /\ \A d \in Conns \ {c} : state'[d] = state[d]
  BY <1>1 DEF RecvInv, RecvTypes
<1>5. /\ peer' \in [Conns -> {"up", "fin", "rst"}] /\ inbox' \in [Conns -> Nat]
      /\ \A d \in Conns \ {c} : peer'[d] = peer[d] /\ inbox'[d] = inbox[d]
  BY <1>1 DEF RecvInv, RecvTypes
<1>6. Held'
  <2>1. ASSUME NEW i \in 1 .. Len(queue)
        PROVE  state'[queue[i]] = "queued"
    <3>1. queue[i] \in Conns /\ state[queue[i]] = "queued"
      BY ElementOfSeq DEF RecvInv, RecvTypes, Held
    <3> QED
      BY <1>2, <1>4, <3>1
  <2>2. ASSUME NEW f \in ClientFds, sock'[f] # NoConn
        PROVE  state'[sock'[f]] = "open"
    <3>1. f # fd /\ sock'[f] = sock[f] /\ sock[f] \in Conns
      BY <1>3, <2>2 DEF RecvInv, RecvTypes
    <3>2. sock[f] # c
      BY <1>2, <3>1
    <3> QED
      BY <1>4, <2>2, <3>1, <3>2 DEF RecvInv, Held
  <2>3. \A f, g \in ClientFds :
           sock'[f] # NoConn /\ sock'[f] = sock'[g] => f = g
    BY <1>3 DEF RecvInv, Held
  <2> QED
    BY <1>1, <2>1, <2>2, <2>3 DEF RecvInv, Held
<1> QED
  BY <1>3, <1>4, <1>5, <1>6 DEF c

-----------------------------------------------------------------------------
(* The thread servers.                                                     *)

\* The accept loop takes the next number, which is above all that are open.
LEMMA MainAcceptsStep == RecvInv /\ MainAccepts => RecvInv'
<1> SUFFICES ASSUME RecvInv, MainAccepts PROVE RecvInv'
  OBVIOUS
<1>1. PICK fd \in ClientFds, made \in {"created", "none"} :
         /\ Accepts(fd) /\ clientfd' = fd
         /\ thread' = [thread EXCEPT ![Head(queue)] = made]
  BY DEF MainAccepts
<1>2. /\ Threaded /\ Threaded'
      /\ UNCHANGED <<program, peer, inbox, threadFd, pollVars, health>>
  BY <1>1 DEF MainAccepts, Accepts, Threaded
<1> DEFINE c == Head(queue)
<1>3. /\ c \in Conns /\ sock[fd] = NoConn /\ Held'
      /\ \A f \in ClientFds : f < fd => sock[f] # NoConn
      /\ sock' \in [ClientFds -> Conns \cup {NoConn}] /\ sock'[fd] = c
      /\ \A f \in ClientFds \ {fd} : sock'[f] = sock[f]
      /\ state' \in [Conns -> {"none", "queued", "open"}]
      /\ queue' \in Seq(Conns)
  BY <1>1, AcceptEffect
<1> HIDE DEF c
<1>4. /\ thread' \in [Conns -> {"none", "created", "running", "done"}]
      /\ thread'[c] \in {"created", "none"} /\ \A d \in Conns \ {c} : thread'[d] = thread[d]
  BY <1>1, <1>3 DEF RecvInv, RecvTypes, c
<1>5. RecvTypes'
  BY <1>1, <1>2, <1>3, <1>4 DEF RecvInv, RecvTypes, pollVars
<1>6. c # NoConn
  BY <1>3, RecvAssumption
<1>7. \A f \in ClientFds : sock[f] # NoConn => f < fd
  <2> SUFFICES ASSUME NEW f \in ClientFds, sock[f] # NoConn PROVE f < fd
    OBVIOUS
  <2>1. ~(fd < f) /\ f # fd
    BY <1>2, <1>3 DEF RecvInv, Rising
  <2> QED
    BY <2>1, FdsAreNumbers
<1>8. health' = "sound" /\ pos' = 0
  BY <1>2 DEF pollVars, RecvInv, Rising
<1>9. ASSUME NEW d \in Conns, thread'[d] # "none"
      PROVE  \E f \in ClientFds : sock'[f] = d
  <2>1. CASE d = c
    BY <1>3, <2>1
  <2>2. CASE d # c
    <3>1. PICK f \in ClientFds : sock[f] = d
      BY <1>2, <1>4, <1>9, <2>2 DEF RecvInv, Rising
    <3>2. f # fd
      BY <1>3, <3>1, RecvAssumption
    <3> QED
      BY <1>3, <3>1, <3>2
  <2> QED
    BY <2>1, <2>2
<1>10. Rising'
  <2>1. \A f, g \in ClientFds : f < g /\ sock'[g] # NoConn => sock'[f] # NoConn
    <3> SUFFICES ASSUME NEW f \in ClientFds, NEW g \in ClientFds,
                        f < g, sock'[g] # NoConn
                 PROVE  sock'[f] # NoConn
      OBVIOUS
    <3>1. g = fd \/ sock[g] # NoConn
      BY <1>3
    <3>2. f = fd \/ f < fd
      BY <1>7, <3>1, FdsAreNumbers
    <3> QED
      BY <1>3, <1>6, <3>2
  <2>2. \A f \in ClientFds : sock'[f] # NoConn => f <= fd
    BY <1>3, <1>7, FdsAreNumbers
  <2> QED
    BY <1>1, <1>3, <1>6, <1>8, <1>9, <2>1, <2>2 DEF Rising
<1>11. ThreadsReadForward'
  <2> SUFFICES ASSUME NEW d \in Conns, thread'[d] \in {"running", "done"},
                      threadFd'[d] # NoFd
               PROVE  \E f \in ClientFds :
                         /\ sock'[f] = d /\ f <= threadFd'[d]
                         /\ sock'[threadFd'[d]] # NoConn
    BY DEF ThreadsReadForward
  <2>1. thread[d] \in {"running", "done"} /\ threadFd[d] # NoFd
        /\ threadFd'[d] = threadFd[d] /\ threadFd[d] \in ClientFds
    BY <1>2, <1>3, <1>4 DEF RecvInv, RecvTypes
  <2>2. PICK f \in ClientFds : /\ sock[f] = d /\ f <= threadFd[d]
                               /\ sock[threadFd[d]] # NoConn
    BY <2>1 DEF RecvInv, ThreadsReadForward
  <2>3. f # fd /\ threadFd[d] # fd
    BY <1>3, <2>2, RecvAssumption
  <2> QED
    BY <1>3, <2>1, <2>2, <2>3
<1>12. Used' /\ ScanHolds'
  BY <1>2, <1>8 DEF Used, ScanHolds
<1> QED
  BY <1>3, <1>5, <1>10, <1>11, <1>12 DEF RecvInv

\* A failed accept() overwrites clientfd.
LEMMA MainFailsStep == RecvInv /\ MainFails => RecvInv'
<1> SUFFICES ASSUME RecvInv, MainFails PROVE RecvInv'
  OBVIOUS
<1>1. /\ Threaded /\ Threaded' /\ clientfd' = NoFd
      /\ UNCHANGED <<program, kernelVars, thread, threadFd, pollVars, health>>
  BY DEF MainFails, Threaded
<1>2. RecvTypes' /\ Held' /\ ThreadsReadForward'
  BY <1>1 DEF RecvInv, RecvTypes, Held, ThreadsReadForward, kernelVars, pollVars
<1>3. Rising' /\ Used' /\ ScanHolds'
  BY <1>1 DEF RecvInv, Rising, Used, ScanHolds, kernelVars, pollVars
<1> QED
  BY <1>2, <1>3 DEF RecvInv

\* A thread is started, read from and ended by the thread servers only.
LEMMA ThreadIsThreaded ==
    ASSUME RecvInv, NEW c \in Conns, thread[c] # "none"
    PROVE  Threaded
BY DEF RecvInv, Used

\* A thread reads clientfd, which is its own descriptor or a later one.
LEMMA ThreadStartsStep ==
    ASSUME RecvInv, NEW c \in Conns, ThreadStarts(c)
    PROVE  RecvInv'
<1>1. /\ thread[c] = "created" /\ Threaded /\ Threaded'
      /\ thread' = [thread EXCEPT ![c] = "running"]
      /\ threadFd' = [threadFd EXCEPT ![c] = clientfd]
      /\ UNCHANGED <<program, kernelVars, clientfd, pollVars, health>>
  BY ThreadIsThreaded DEF ThreadStarts, Threaded
<1>2. /\ thread'[c] = "running" /\ threadFd'[c] = clientfd
      /\ \A d \in Conns \ {c} : thread'[d] = thread[d] /\ threadFd'[d] = threadFd[d]
  BY <1>1 DEF RecvInv, RecvTypes
<1>3. RecvTypes' /\ Held'
  BY <1>1 DEF RecvInv, RecvTypes, Held, kernelVars, pollVars
<1>4. UNCHANGED <<sock, pos, clientfd, health>>
  BY <1>1 DEF kernelVars, pollVars
<1>5. \A d \in Conns : thread'[d] # "none" => thread[d] # "none"
  BY <1>1, <1>2
<1>6. Rising' /\ Used' /\ ScanHolds'
  BY <1>1, <1>4, <1>5 DEF RecvInv, Rising, Used, ScanHolds
<1>7. ASSUME clientfd # NoFd
      PROVE  \E f \in ClientFds : /\ sock[f] = c /\ f <= clientfd
                                  /\ sock[clientfd] # NoConn
  <2>1. PICK f \in ClientFds : sock[f] = c
    BY <1>1 DEF RecvInv, Rising
  <2>2. sock[f] # NoConn
    BY <2>1, RecvAssumption
  <2> QED
    BY <1>1, <1>7, <2>1, <2>2 DEF RecvInv, Rising
<1>8. ThreadsReadForward'
  BY <1>2, <1>4, <1>7 DEF RecvInv, ThreadsReadForward
<1> QED
  BY <1>3, <1>6, <1>8 DEF RecvInv

\* Reading from a socket changes none of the thread servers' numbers.
LEMMA ThreadReceivesStep ==
    ASSUME RecvInv, NEW c \in Conns, ThreadReceives(c)
    PROVE  RecvInv'
<1> DEFINE d == sock[threadFd[c]]
<1>1. /\ Threaded /\ Threaded' /\ threadFd[c] # NoFd
      /\ UNCHANGED <<program, sock, state, queue, peer, threadVars, pollVars, health>>
  BY ThreadIsThreaded DEF ThreadReceives, Receives, Threaded
<1>2. d \in Conns
  BY RecvAssumption DEF ThreadReceives, RecvInv, ThreadsReadForward, RecvTypes
<1>3. inbox' \in [Conns -> Nat]
  BY <1>2, ReceivesEffect DEF ThreadReceives
<1>4. RecvTypes' /\ Held' /\ ThreadsReadForward'
  BY <1>1, <1>3
  DEF RecvInv, RecvTypes, Held, ThreadsReadForward, threadVars, pollVars
<1>5. Rising' /\ Used' /\ ScanHolds'
  BY <1>1 DEF RecvInv, Rising, Used, ScanHolds, threadVars, pollVars
<1> QED
  BY <1>4, <1>5 DEF RecvInv

\* A thread that ends leaves its descriptor open.
LEMMA ThreadEndsStep ==
    ASSUME RecvInv, NEW c \in Conns, ThreadEnds(c)
    PROVE  RecvInv'
<1>1. /\ thread[c] = "running" /\ Threaded /\ Threaded'
      /\ thread' = [thread EXCEPT ![c] = "done"]
      /\ UNCHANGED <<program, kernelVars, clientfd, threadFd, pollVars, health>>
  BY ThreadIsThreaded DEF ThreadEnds, Threaded
<1>2. thread'[c] = "done" /\ \A d \in Conns \ {c} : thread'[d] = thread[d]
  BY <1>1 DEF RecvInv, RecvTypes
<1>3. RecvTypes' /\ Held'
  BY <1>1 DEF RecvInv, RecvTypes, Held, kernelVars, pollVars
<1>4. UNCHANGED <<sock, pos, clientfd, threadFd, health>>
  BY <1>1 DEF kernelVars, pollVars
<1>5. Rising' /\ Used' /\ ScanHolds'
  <2>1. \A d \in Conns : thread'[d] # "none" => thread[d] # "none"
    BY <1>1, <1>2
  <2> QED
    BY <1>1, <1>4, <2>1 DEF RecvInv, Rising, Used, ScanHolds
<1>6. ThreadsReadForward'
  <2>1. \A d \in Conns : thread'[d] \in {"running", "done"} =>
                            thread[d] \in {"running", "done"}
    BY <1>1, <1>2
  <2> QED
    BY <1>4, <2>1 DEF RecvInv, ThreadsReadForward
<1> QED
  BY <1>3, <1>5, <1>6 DEF RecvInv

-----------------------------------------------------------------------------
(* The poll server.                                                        *)

\* What the scan goes on with is the lowest of what is left, or the end.
LEMMA NextOfHolds ==
    ASSUME NEW S \in SUBSET ClientFds
    PROVE  /\ NextOf(S) \in ClientFds \cup {0}
           /\ NextOf(S) # 0 => NextOf(S) \in S
<1>1. CASE S = {}
  BY <1>1 DEF NextOf
<1>2. CASE S # {}
  BY <1>2, LowestHolds, FdsAreNumbers DEF NextOf
<1> QED
  BY <1>1, <1>2

\* A scan over what is pending keeps to what is pending.
LEMMA ScanStarts ==
    ASSUME NEW polled \in [ClientFds -> BOOLEAN], NEW first \in Nat, NEW last \in Nat,
           NEW Good,
           \A f \in ClientFds :
              first <= f /\ f < last /\ polled[f] = TRUE => f \in Good
    PROVE  LET next == NextOf(ToScan(polled, first, last))
           IN  /\ next \in ClientFds \cup {0}
               /\ next # 0 =>
                    /\ next \in Good
                    /\ \A f \in ClientFds :
                         next <= f /\ f < last /\ polled[f] = TRUE => f \in Good
<1> DEFINE S == ToScan(polled, first, last)
           next == NextOf(S)
<1>1. S \in SUBSET ClientFds
      /\ \A f \in S : first <= f /\ f < last /\ polled[f] = TRUE
  BY DEF ToScan
<1> HIDE DEF S
<1>2. next \in ClientFds \cup {0} /\ (next # 0 => next \in S)
  BY <1>1, NextOfHolds
<1> HIDE DEF next
<1>3. ASSUME next # 0
      PROVE  /\ next \in Good
             /\ \A f \in ClientFds :
                   next <= f /\ f < last /\ polled[f] = TRUE => f \in Good
  <2>1. next \in ClientFds /\ first <= next /\ next \in Good /\ next \in Nat
    BY <1>1, <1>2, <1>3, FdsAreNumbers
  <2> QED
    BY <2>1, FdsAreNumbers
<1> QED
  BY <1>2, <1>3 DEF next, S

\* What poll() reports up to max_fd is open and has something to read.
LEMMA PolledHolds ==
    ASSUME RecvInv, ~Threaded, health = "sound", NEW f \in ClientFds, f <= maxFd,
           Polled[f] = TRUE
    PROVE  Pending(f)
<1>1. entry[f] /\ (inbox[sock[f]] > 0 \/ peer[sock[f]] # "up")
  <2>1. ~(f > maxFd)
    BY FdsAreNumbers DEF RecvInv, RecvTypes
  <2> QED
    BY <2>1, Zenon DEF Polled
<1>2. entry[f] = TRUE
  BY <1>1 DEF RecvInv, RecvTypes
<1> QED
  BY <1>1, <1>2 DEF Pending, RecvInv, Used

\* What poll() leaves in the array.
LEMMA PolledType == RecvInv => Polled \in [ClientFds -> BOOLEAN]
<1> SUFFICES ASSUME RecvInv, NEW f \in ClientFds
             PROVE  (IF f > maxFd THEN revents[f]
                     ELSE entry[f] /\ (inbox[sock[f]] > 0 \/ peer[sock[f]] # "up"))
                    \in BOOLEAN
  BY DEF Polled
<1> QED
  BY DEF RecvInv, RecvTypes

\* The poll server has no threads that could read.
LEMMA NoThreads ==
    ASSUME RecvInv, ~Threaded, threadVars' = threadVars, program' = program
    PROVE  ThreadsReadForward' /\ Rising'
<1>1. ~Threaded' /\ \A c \in Conns : thread'[c] = "none"
  BY DEF threadVars, Threaded, RecvInv, Used
<1> QED
  BY <1>1 DEF ThreadsReadForward, Rising

\* An accept and the scan after it: the new number was not in the array that
\* was polled, and a number beyond max_fd is not scanned.
LEMMA PollAcceptsStep == RecvInv /\ PollAccepts => RecvInv'
<1> SUFFICES ASSUME RecvInv, PollAccepts PROVE RecvInv'
  OBVIOUS
<1>1. PICK fd \in ClientFds :
         /\ Accepts(fd) /\ fd < PollSize
         /\ entry' = [entry EXCEPT ![fd] = TRUE]
         /\ maxFd' = Grown(fd)
         /\ revents' = Polled
         /\ pos' = ScanFrom(Polled, maxFd')
  BY DEF PollAccepts
<1>2. /\ ~Threaded /\ ~Threaded' /\ health = "sound"
      /\ UNCHANGED <<program, peer, inbox, threadVars, health>>
  BY <1>1, RecvAssumption DEF PollAccepts, Polls, Accepts, Threaded
<1> DEFINE c == Head(queue)
<1>3. /\ c \in Conns /\ sock[fd] = NoConn /\ Held'
      /\ \A f \in ClientFds : f < fd => sock[f] # NoConn
      /\ sock' \in [ClientFds -> Conns \cup {NoConn}] /\ sock'[fd] = c
      /\ \A f \in ClientFds \ {fd} : sock'[f] = sock[f]
      /\ state' \in [Conns -> {"none", "queued", "open"}]
      /\ queue' \in Seq(Conns)
  BY <1>1, AcceptEffect
<1> HIDE DEF c
<1>4. /\ entry' \in [ClientFds -> BOOLEAN] /\ entry'[fd] = TRUE
      /\ \A f \in ClientFds \ {fd} : entry'[f] = entry[f]
  BY <1>1 DEF RecvInv, RecvTypes
<1>5. maxFd' \in Nat /\ fd <= maxFd' /\ maxFd <= maxFd' /\ maxFd' \in {fd, maxFd}
  BY <1>1, FdsAreNumbers DEF Grown, RecvInv, RecvTypes
<1>6. c # NoConn
  BY <1>3, RecvAssumption
<1>7. Used'
  <2>1. \A d \in Conns : thread'[d] = "none"
    BY <1>2 DEF threadVars, RecvInv, Used
  <2>2. \A f \in ClientFds : (entry'[f] = TRUE) <=> sock'[f] # NoConn
    BY <1>2, <1>3, <1>4, <1>6 DEF RecvInv, Used
  <2>3. ASSUME NEW f \in ClientFds, sock'[f] # NoConn
        PROVE  f <= maxFd' /\ f < PollSize
    <3>1. CASE f = fd
      BY <1>1, <1>5, <3>1
    <3>2. CASE f # fd
      <4>1. f <= maxFd /\ maxFd \in Nat /\ f < PollSize
        BY <1>2, <1>3, <2>3, <3>2 DEF RecvInv, Used, RecvTypes
      <4> QED
        BY <1>5, <4>1, FdsAreNumbers
    <3> QED
      BY <3>1, <3>2
  <2> QED
    BY <2>1, <2>2, <2>3 DEF Used
<1>8. \A f \in ClientFds : f < maxFd' /\ Polled[f] = TRUE => Pending(f)'
  <2> SUFFICES ASSUME NEW f \in ClientFds, f < maxFd', Polled[f] = TRUE
               PROVE  Pending(f)'
    OBVIOUS
  <2>1. f <= maxFd
    <3>1. CASE maxFd' = maxFd
      BY <3>1, FdsAreNumbers DEF RecvInv, RecvTypes
    <3>2. CASE maxFd' = fd
      BY <1>2, <1>3, <3>2 DEF RecvInv, Used
    <3> QED
      BY <1>5, <3>1, <3>2
  <2>2. Pending(f)
    BY <1>2, <2>1, PolledHolds
  <2>3. f # fd
    BY <1>3, <2>2 DEF Pending
  <2> QED
    BY <1>2, <1>3, <1>4, <2>2, <2>3 DEF Pending
<1>9. revents' \in [ClientFds -> BOOLEAN]
  BY <1>1, PolledType
<1>10. /\ pos' \in ClientFds \cup {0}
       /\ pos' # 0 => /\ Pending(pos)'
                      /\ \A f \in ClientFds : pos' <= f /\ f < maxFd'
                            /\ Polled[f] = TRUE => Pending(f)'
  <2>1. pos' = NextOf(ToScan(Polled, Listener + 1, maxFd')) /\ Listener + 1 \in Nat
    BY <1>1, RecvAssumption DEF ScanFrom
  <2> DEFINE good == {f \in ClientFds : Pending(f)'}
  <2>2. \A f \in ClientFds :
           Listener + 1 <= f /\ f < maxFd' /\ Polled[f] = TRUE => f \in good
    BY <1>8
  <2>3. Polled \in [ClientFds -> BOOLEAN]
    BY PolledType
  <2> HIDE DEF good
  <2>4. /\ pos' \in ClientFds \cup {0}
        /\ pos' # 0 =>
             /\ pos' \in good
             /\ \A f \in ClientFds :
                  pos' <= f /\ f < maxFd' /\ Polled[f] = TRUE => f \in good
    BY <1>5, <2>1, <2>2, <2>3, ScanStarts
  <2>5. \A f : f \in good => Pending(f)'
    BY DEF good
  <2>6. pos' \in good => Pending(pos)'
    BY <2>5 DEF Pending
  <2> QED
    BY <2>4, <2>5, <2>6
<1>11. ScanHolds'
  BY <1>1, <1>10 DEF ScanHolds
<1>12. RecvTypes'
  BY <1>2, <1>3, <1>4, <1>5, <1>9, <1>10 DEF RecvInv, RecvTypes, threadVars
<1>13. ThreadsReadForward' /\ Rising'
  BY <1>2, NoThreads
<1> QED
  BY <1>3, <1>7, <1>11, <1>12, <1>13 DEF RecvInv

\* Nothing is known of a server that is not sound but what the kernel keeps.
LEMMA NotSound ==
    ASSUME RecvInv, ~Threaded, UNCHANGED <<program, threadVars, pollVars>>,
           sock' \in [ClientFds -> Conns \cup {NoConn}],
           state' \in [Conns -> {"none", "queued", "open"}],
           queue' \in Seq(Conns), peer' \in [Conns -> {"up", "fin", "rst"}],
           inbox' \in [Conns -> Nat], Held', health' \in {"wild", "dead"}
    PROVE  RecvInv'
<1>1. RecvTypes'
  BY DEF RecvInv, RecvTypes, threadVars, pollVars
<1>2. Used' /\ ScanHolds'
  BY DEF RecvInv, Used, ScanHolds, threadVars, Threaded
<1>3. ThreadsReadForward' /\ Rising'
  BY NoThreads
<1> QED
  BY <1>1, <1>2, <1>3 DEF RecvInv

\* An accept of a number beyond the array.
LEMMA PollOverrunsStep == RecvInv /\ PollOverruns => RecvInv'
<1> SUFFICES ASSUME RecvInv, PollOverruns PROVE RecvInv'
  OBVIOUS
<1>1. PICK fd \in ClientFds : Accepts(fd)
  BY DEF PollOverruns
<1>2. /\ ~Threaded /\ health' = "wild"
      /\ UNCHANGED <<program, peer, inbox, threadVars, pollVars>>
  BY <1>1, RecvAssumption DEF PollOverruns, Polls, Threaded, Accepts
<1> QED
  BY <1>1, <1>2, AcceptEffect, NotSound DEF RecvInv, RecvTypes

\* Whatever a server does that has written beyond its array.
LEMMA WildStep == RecvInv /\ Wild => RecvInv'
<1> SUFFICES ASSUME RecvInv, Wild PROVE RecvInv'
  OBVIOUS
<1>1. ~Threaded /\ health' = "wild" /\ UNCHANGED <<threadVars, pollVars>>
  BY DEF Wild, RecvInv, Rising
<1>2. PICK fd \in ClientFds : \/ Accepts(fd)
                              \/ sock[fd] # NoConn /\ Receives(sock[fd])
                              \/ Closes(fd)
  BY DEF Wild
<1>3. CASE Accepts(fd)
  <2>1. UNCHANGED <<program, peer, inbox>>
    BY <1>3 DEF Accepts
  <2> QED
    BY <1>1, <1>3, <2>1, AcceptEffect, NotSound DEF RecvInv, RecvTypes
<1>4. CASE sock[fd] # NoConn /\ Receives(sock[fd])
  <2>1. sock[fd] \in Conns /\ UNCHANGED <<program, sock, state, queue, peer>>
    BY <1>4 DEF Receives, RecvInv, RecvTypes
  <2>2. inbox' \in [Conns -> Nat] /\ Held'
    BY <1>4, <2>1, ReceivesEffect
  <2> QED
    BY <1>1, <2>1, <2>2, NotSound DEF RecvInv, RecvTypes
<1>5. CASE Closes(fd)
  <2>1. UNCHANGED <<program, queue>>
    BY <1>5 DEF Closes
  <2> QED
    BY <1>1, <1>5, <2>1, ClosesEffect, NotSound DEF RecvInv, RecvTypes
<1> QED
  BY <1>2, <1>3, <1>4, <1>5

\* The end of such a server.
LEMMA DiesStep == RecvInv /\ Dies => RecvInv'
<1> SUFFICES ASSUME RecvInv, Dies PROVE RecvInv'
  OBVIOUS
<1>1. /\ ~Threaded /\ health' = "dead"
      /\ UNCHANGED <<program, peer, inbox, threadVars, pollVars>>
      /\ sock' = [fd \in ClientFds |-> NoConn] /\ queue' = << >>
      /\ state' = [c \in Conns |-> "none"]
  BY DEF Dies, RecvInv, Rising
<1>2. queue' \in Seq(Conns) /\ Len(queue') = 0
  BY <1>1, EmptySeq
<1>3. Held'
  BY <1>1, <1>2 DEF Held
<1> QED
  BY <1>1, <1>2, <1>3, NotSound DEF RecvInv, RecvTypes

\* A scan without an accept before it.
LEMMA PollReturnsStep == RecvInv /\ PollReturns => RecvInv'
<1> SUFFICES ASSUME RecvInv, PollReturns PROVE RecvInv'
  OBVIOUS
<1>1. /\ ~Threaded /\ ~Threaded' /\ revents' = Polled /\ health = "sound"
      /\ pos' = NextOf(ToScan(Polled, Listener + 1, maxFd))
      /\ UNCHANGED <<program, kernelVars, threadVars, entry, maxFd, health>>
  BY RecvAssumption DEF PollReturns, Polls, Threaded, ScanFrom
<1> DEFINE good == {f \in ClientFds : Pending(f)}
<1>2. \A f \in ClientFds :
         Listener + 1 <= f /\ f < maxFd /\ Polled[f] = TRUE => f \in good
  <2> SUFFICES ASSUME NEW f \in ClientFds, f < maxFd, Polled[f] = TRUE
               PROVE  Pending(f)
    OBVIOUS
  <2>1. f <= maxFd
    BY FdsAreNumbers DEF RecvInv, RecvTypes
  <2> QED
    BY <1>1, <2>1, PolledHolds
<1>3. Polled \in [ClientFds -> BOOLEAN] /\ maxFd \in Nat /\ Listener + 1 \in Nat
  BY PolledType, RecvAssumption DEF RecvInv, RecvTypes
<1> HIDE DEF good
<1>4. /\ pos' \in ClientFds \cup {0}
      /\ pos' # 0 =>
           /\ pos' \in good
           /\ \A f \in ClientFds :
                pos' <= f /\ f < maxFd /\ Polled[f] = TRUE => f \in good
  BY <1>1, <1>2, <1>3, ScanStarts
<1>5. \A f : f \in good => Pending(f)'
  BY <1>1 DEF good, Pending, kernelVars
<1>6. ScanHolds'
  <2>1. pos' \in good => Pending(pos)'
    BY <1>5 DEF Pending
  <2> QED
    BY <1>1, <1>4, <1>5, <2>1 DEF ScanHolds
<1>7. RecvTypes' /\ Held' /\ Used'
  BY <1>1, <1>3, <1>4
  DEF RecvInv, RecvTypes, Held, Used, kernelVars, threadVars
<1>8. ThreadsReadForward' /\ Rising'
  BY <1>1, NoThreads
<1> QED
  BY <1>6, <1>7, <1>8 DEF RecvInv

\* The scan goes on behind pos with what it had still to read.
LEMMA ScanGoesOn ==
    ASSUME RecvInv, health = "sound", pos # 0, pos' = ScanOn,
           UNCHANGED <<revents, maxFd>>,
           \A f \in ClientFds : Pending(f) /\ pos < f => Pending(f)'
    PROVE  pos' \in ClientFds \cup {0} /\ ScanHolds'
<1> DEFINE good == {f \in ClientFds : Pending(f)'}
<1>1. /\ pos \in ClientFds /\ pos \in Nat /\ maxFd \in Nat
      /\ revents \in [ClientFds -> BOOLEAN]
  BY FdsAreNumbers DEF RecvInv, RecvTypes
<1>2. \A f \in ClientFds :
         pos + 1 <= f /\ f < maxFd /\ revents[f] = TRUE => f \in good
  <2> SUFFICES ASSUME NEW f \in ClientFds,
                      pos + 1 <= f, f < maxFd, revents[f] = TRUE
               PROVE  Pending(f)'
    OBVIOUS
  <2>1. pos < f /\ pos <= f
    BY <1>1, FdsAreNumbers
  <2> QED
    BY <2>1 DEF RecvInv, ScanHolds
<1> HIDE DEF good
<1>3. /\ pos' \in ClientFds \cup {0}
      /\ pos' # 0 =>
           /\ pos' \in good
           /\ \A f \in ClientFds :
                pos' <= f /\ f < maxFd /\ revents[f] = TRUE => f \in good
  <2>1. pos' = NextOf(ToScan(revents, pos + 1, maxFd)) /\ pos + 1 \in Nat
    BY <1>1 DEF ScanOn
  <2> QED
    BY <1>1, <1>2, <2>1, ScanStarts
<1>4. \A f : f \in good => Pending(f)'
  BY DEF good
<1>5. pos' \in good => Pending(pos)'
  BY <1>4 DEF Pending
<1> QED
  BY <1>3, <1>4, <1>5 DEF ScanHolds

\* A scan is the poll server's, and its entry is open.
LEMMA ScanIsPolled ==
    ASSUME RecvInv, health = "sound", pos # 0
    PROVE  ~Threaded /\ pos \in ClientFds /\ pos \in Nat /\ sock[pos] \in Conns
<1>1. ~Threaded
  BY DEF RecvInv, Rising
<1>2. pos \in ClientFds
  BY DEF RecvInv, RecvTypes
<1>3. sock[pos] # NoConn
  BY DEF RecvInv, ScanHolds, Pending
<1> QED
  BY <1>1, <1>2, <1>3, FdsAreNumbers DEF RecvInv, RecvTypes

\* recv() on one entry leaves what the others have.
LEMMA ScanReceivesStep == RecvInv /\ ScanReceives => RecvInv'
<1> SUFFICES ASSUME RecvInv, ScanReceives PROVE RecvInv'
  OBVIOUS
<1> DEFINE c == sock[pos]
<1>1. /\ health = "sound" /\ pos # 0 /\ pos' = ScanOn
      /\ UNCHANGED <<program, sock, state, queue, peer, threadVars, entry,
                     revents, maxFd, health>>
  BY DEF ScanReceives, Scans, Receives
<1>2. ~Threaded /\ ~Threaded' /\ pos \in ClientFds /\ pos \in Nat /\ c \in Conns
  BY <1>1, ScanIsPolled DEF Threaded
<1>3. inbox' \in [Conns -> Nat] /\ \A d \in Conns \ {c} : inbox'[d] = inbox[d]
  BY <1>2, ReceivesEffect DEF ScanReceives
<1>4. ASSUME NEW f \in ClientFds, Pending(f), pos < f
      PROVE  Pending(f)'
  <2>1. f # pos /\ sock[f] # NoConn /\ sock[f] \in Conns
    BY <1>2, <1>4 DEF Pending, RecvInv, RecvTypes
  <2>2. sock[f] # c
    BY <1>2, <2>1 DEF RecvInv, Held
  <2> QED
    BY <1>1, <1>3, <1>4, <2>1, <2>2 DEF Pending
<1>5. pos' \in ClientFds \cup {0} /\ ScanHolds'
  BY <1>1, <1>4, ScanGoesOn
<1>6. RecvTypes' /\ Held' /\ Used'
  BY <1>1, <1>3, <1>5 DEF RecvInv, RecvTypes, Held, Used, Threaded, threadVars
<1>7. ThreadsReadForward' /\ Rising'
  BY <1>1, <1>2, NoThreads
<1> QED
  BY <1>5, <1>6, <1>7 DEF RecvInv

\* close() on one entry leaves the others.
LEMMA ScanEndsStep == RecvInv /\ ScanEnds => RecvInv'
<1> SUFFICES ASSUME RecvInv, ScanEnds PROVE RecvInv'
  OBVIOUS
<1>1. /\ health = "sound" /\ pos # 0 /\ pos' \in {0, ScanOn} /\ Closes(pos)
      /\ entry' = [entry EXCEPT ![pos] = FALSE]
      /\ UNCHANGED <<program, queue, threadVars, revents, maxFd, health>>
  BY DEF ScanEnds, Scans, Closes
<1>2. ~Threaded /\ ~Threaded' /\ pos \in ClientFds /\ pos \in Nat
  BY <1>1, ScanIsPolled DEF Threaded
<1>3. /\ sock' \in [ClientFds -> Conns \cup {NoConn}] /\ sock'[pos] = NoConn
      /\ \A f \in ClientFds \ {pos} : sock'[f] = sock[f]
      /\ state' \in [Conns -> {"none", "queued", "open"}]
      /\ peer' \in [Conns -> {"up", "fin", "rst"}] /\ inbox' \in [Conns -> Nat]
      /\ \A d \in Conns \ {sock[pos]} : peer'[d] = peer[d] /\ inbox'[d] = inbox[d]
      /\ Held'
  BY <1>1, <1>2, ClosesEffect
<1>4. /\ entry' \in [ClientFds -> BOOLEAN] /\ entry'[pos] = FALSE
      /\ \A f \in ClientFds \ {pos} : entry'[f] = entry[f]
  BY <1>1, <1>2 DEF RecvInv, RecvTypes
<1>5. \A f \in ClientFds : Pending(f) /\ pos < f => Pending(f)'
  <2> SUFFICES ASSUME NEW f \in ClientFds, Pending(f), pos < f
               PROVE  Pending(f)'
    OBVIOUS
  <2>1. f # pos /\ sock[f] # NoConn /\ sock[f] \in Conns
    BY <1>2 DEF Pending, RecvInv, RecvTypes
  <2>2. sock[f] # sock[pos]
    BY <1>2, <2>1 DEF RecvInv, Held
  <2> QED
    BY <1>3, <1>4, <2>1, <2>2 DEF Pending
<1>6. pos' \in ClientFds \cup {0} /\ ScanHolds'
  <2>1. CASE pos' = 0
    BY <2>1 DEF ScanHolds
  <2>2. CASE pos' = ScanOn
    BY <1>1, <1>5, <2>2, ScanGoesOn
  <2> QED
    BY <1>1, <2>1, <2>2
<1>7. RecvTypes'
  BY <1>1, <1>3, <1>4, <1>6 DEF RecvInv, RecvTypes, threadVars
<1>8. Used'
  <2>1. \A d \in Conns : thread'[d] = "none"
    BY <1>1, <1>2 DEF threadVars, RecvInv, Used
  <2>2. \A f \in ClientFds : (entry'[f] = TRUE) <=> sock'[f] # NoConn
    BY <1>1, <1>2, <1>3, <1>4 DEF RecvInv, Used
  <2>3. \A f \in ClientFds : sock'[f] # NoConn => f <= maxFd' /\ f < PollSize
    BY <1>1, <1>2, <1>3 DEF RecvInv, Used
  <2> QED
    BY <2>1, <2>2, <2>3 DEF Used
<1>9. ThreadsReadForward' /\ Rising'
  BY <1>1, <1>2, NoThreads
<1> QED
  BY <1>3, <1>6, <1>7, <1>8, <1>9 DEF RecvInv

-----------------------------------------------------------------------------
(* The clients, and the theorems.                                          *)

\* A connection joins the queue.
LEMMA ConnectStep ==
    ASSUME RecvInv, NEW c \in Conns, Connect(c)
    PROVE  RecvInv'
<1>1. /\ state[c] = "none" /\ queue' = Append(queue, c)
      /\ state' = [state EXCEPT ![c] = "queued"]
      /\ UNCHANGED <<program, sock, peer, inbox, threadVars, pollVars, health>>
  BY DEF Connect
<1>2. /\ Append(queue, c) \in Seq(Conns) /\ Len(queue) \in Nat
      /\ Len(Append(queue, c)) = Len(queue) + 1
      /\ \A i \in 1 .. Len(queue) : Append(queue, c)[i] = queue[i]
      /\ Append(queue, c)[Len(queue) + 1] = c
  BY AppendProperties, LenProperties DEF RecvInv, RecvTypes
<1>3. /\ state'[c] = "queued" /\ \A d \in Conns \ {c} : state'[d] = state[d]
      /\ state' \in [Conns -> {"none", "queued", "open"}]
  BY <1>1 DEF RecvInv, RecvTypes
<1>4. \A i \in 1 .. Len(queue) :
         queue[i] \in Conns /\ queue[i] # c /\ state[queue[i]] = "queued"
  BY <1>1, ElementOfSeq DEF RecvInv, RecvTypes, Held
<1>5. ASSUME NEW i \in 1 .. Len(queue')
      PROVE  \/ i \in 1 .. Len(queue) /\ queue'[i] = queue[i]
             \/ i = Len(queue) + 1 /\ queue'[i] = c
  BY <1>1, <1>2
<1>6. Held'
  <2>1. \A i \in 1 .. Len(queue') : state'[queue'[i]] = "queued"
    BY <1>3, <1>4, <1>5
  <2>2. \A i, j \in 1 .. Len(queue') : queue'[i] = queue'[j] => i = j
    BY <1>4, <1>5 DEF RecvInv, Held
  <2>3. \A f \in ClientFds : sock[f] # NoConn => state'[sock[f]] = "open"
    BY <1>1, <1>3 DEF RecvInv, RecvTypes, Held
  <2> QED
    BY <1>1, <2>1, <2>2, <2>3 DEF RecvInv, Held
<1>7. RecvTypes'
  BY <1>1, <1>2, <1>3 DEF RecvInv, RecvTypes, threadVars, pollVars
<1>8. Rising' /\ Used' /\ ScanHolds'
  BY <1>1 DEF RecvInv, Rising, Used, ScanHolds, Pending, Threaded, threadVars,
              pollVars
<1>9. ThreadsReadForward'
  BY <1>1 DEF RecvInv, ThreadsReadForward, threadVars
<1> QED
  BY <1>6, <1>7, <1>8, <1>9 DEF RecvInv

\* What a client writes, and its end, leave pending what is pending.
LEMMA ClientStep ==
    ASSUME RecvInv, NEW c \in Conns, ClientWrites(c) \/ ClientEnds(c)
    PROVE  RecvInv'
<1>1. UNCHANGED <<program, sock, state, queue, threadVars, pollVars, health>>
  BY DEF ClientWrites, ClientEnds
<1>2. /\ inbox' \in [Conns -> Nat] /\ peer' \in [Conns -> {"up", "fin", "rst"}]
      /\ \A d \in Conns : /\ inbox[d] > 0 => inbox'[d] > 0
                          /\ peer[d] # "up" => peer'[d] # "up"
  <2>1. CASE ClientWrites(c)
    BY <2>1 DEF ClientWrites, RecvInv, RecvTypes
  <2>2. CASE ClientEnds(c)
    BY <2>2 DEF ClientEnds, RecvInv, RecvTypes
  <2> QED
    BY <2>1, <2>2
<1>3. RecvTypes' /\ Held' /\ ThreadsReadForward'
  BY <1>1, <1>2 DEF RecvInv, RecvTypes, Held, ThreadsReadForward, threadVars,
                    pollVars
<1>4. Rising' /\ Used'
  BY <1>1 DEF RecvInv, Rising, Used, Threaded, threadVars, pollVars
<1>5. \A f \in ClientFds : Pending(f) => Pending(f)'
  BY <1>1, <1>2 DEF Pending, pollVars, RecvInv, RecvTypes
<1>6. ScanHolds'
  <2>1. UNCHANGED <<pos, revents, maxFd, health>>
    BY <1>1 DEF pollVars
  <2>2. health = "sound" /\ pos # 0 => Pending(pos)'
    BY <1>5, <2>1 DEF Pending, RecvInv, RecvTypes, ScanHolds
  <2> QED
    BY <1>5, <2>1, <2>2 DEF RecvInv, ScanHolds, Pending
<1> QED
  BY <1>3, <1>4, <1>6 DEF RecvInv

\* Every step of the three servers and their clients keeps the invariant.
LEMMA RecvNextStep == RecvInv /\ [RecvNext]_recvVars => RecvInv'
<1> SUFFICES ASSUME RecvInv, [RecvNext]_recvVars PROVE RecvInv'
  OBVIOUS
<1>1. CASE UNCHANGED recvVars
  BY <1>1 DEF recvVars, kernelVars, threadVars, pollVars, RecvInv, RecvTypes,
     Held, Rising, Used, ThreadsReadForward, ScanHolds, Pending, Threaded
<1>2. CASE MainAccepts \/ MainFails \/ PollServer \/ Wild \/ Dies
  BY <1>2, MainAcceptsStep, MainFailsStep, PollAcceptsStep, PollOverrunsStep,
     PollReturnsStep, ScanReceivesStep, ScanEndsStep, WildStep, DiesStep
     DEF PollServer
<1>3. CASE \E c \in Conns : \/ ThreadSteps(c)
                            \/ Connect(c) \/ ClientWrites(c) \/ ClientEnds(c)
  BY <1>3, ThreadStartsStep, ThreadReceivesStep, ThreadEndsStep, ConnectStep,
     ClientStep DEF ThreadSteps
<1> QED
  BY <1>1, <1>2, <1>3 DEF RecvNext

\* RecvInv is an invariant.
THEOREM RecvInvariance == RecvSpec => []RecvInv
BY RecvInitHolds, RecvNextStep, PTL DEF RecvSpec

\* A thread that reads the accept loop's variable late is never given the data
\* of a connection that came before its own, nor a number given out again.
THEOREM ForwardCorrect == RecvSpec => []ThreadsReadForward
<1>1. RecvInv => ThreadsReadForward
  BY DEF RecvInv
<1> QED
  BY <1>1, RecvInvariance, PTL

\* The poll server's scan never calls recv() on a descriptor that would block
\* it, whatever was left in the array by earlier rounds, as long as accept()
\* has returned no descriptor beyond the array.
THEOREM ScanCorrect == RecvSpec => []ScanNeverBlocks
<1>1. RecvInv => ScanNeverBlocks
  <2> SUFFICES ASSUME RecvInv, health = "sound", pos # 0,
                      NEW fd \in {pos} \cup ToScan(revents, pos, maxFd)
               PROVE  /\ entry[fd] /\ sock[fd] # NoConn
                      /\ inbox[sock[fd]] > 0 \/ peer[sock[fd]] # "up"
    BY DEF ScanNeverBlocks
  <2>1. fd \in ClientFds /\ Pending(fd)
    <3>1. CASE fd = pos
      BY <3>1 DEF RecvInv, ScanHolds, RecvTypes
    <3>2. CASE fd \in ToScan(revents, pos, maxFd)
      <4>1. fd \in ClientFds /\ pos <= fd /\ fd < maxFd /\ revents[fd] = TRUE
        BY <3>2 DEF ToScan, RecvInv, RecvTypes
      <4> QED
        BY <4>1 DEF RecvInv, ScanHolds
    <3> QED
      BY <3>1, <3>2
  <2> QED
    BY <2>1 DEF Pending
<1> QED
  BY <1>1, RecvInvariance, PTL

-----------------------------------------------------------------------------
(***************************************************************************)
(* How far the SIGIO server lags behind.  The count is inductive once the  *)
(* types are known and it is known that a handler that has received holds  *)
(* no claim on the queue any more.                                         *)
(***************************************************************************)

\* The types the count needs.
SigIoTypes ==
    /\ arrived \in Nat /\ merged \in Nat
    /\ waiting \in Seq(Nat)
    /\ pending \in BOOLEAN
    /\ handler \in {"idle", "entered", "received"}

SigIoInv == SigIoTypes /\ BehindByMerged

\* Nothing is there before the first datagram.
LEMMA SigIoInitHolds == SigIoInit => SigIoInv
<1> SUFFICES ASSUME SigIoInit PROVE SigIoInv
  OBVIOUS
<1>1. waiting \in Seq(Nat) /\ Len(waiting) = 0
  BY EmptySeq DEF SigIoInit
<1>2. ~pending /\ handler = "idle" /\ merged = 0
  BY DEF SigIoInit
<1>3. SigIoTypes
  BY <1>1 DEF SigIoInit, SigIoTypes
<1>4. BehindByMerged
  BY <1>1, <1>2 DEF BehindByMerged
<1> QED
  BY <1>3, <1>4 DEF SigIoInv

\* A datagram is queued with a signal, which is pending or merged, or neither.
LEMMA ArrivesStep == SigIoInv /\ Arrives => SigIoInv'
<1> SUFFICES ASSUME SigIoInv, Arrives PROVE SigIoInv'
  OBVIOUS
<1>1. arrived' \in Nat /\ waiting \in Seq(Nat) /\ Len(waiting) \in Nat
  BY LenProperties DEF Arrives, SigIoInv, SigIoTypes
<1>2. /\ Append(waiting, arrived') \in Seq(Nat)
      /\ Len(Append(waiting, arrived')) = Len(waiting) + 1
  BY <1>1, AppendProperties
<1>3. CASE Len(waiting) < QueueLength
  <2>1. /\ waiting' = Append(waiting, arrived') /\ pending' = TRUE
        /\ merged' = IF pending THEN merged + 1 ELSE merged
        /\ handler' = handler
    BY <1>3 DEF Arrives
  <2>2. CASE pending
    BY <1>1, <1>2, <2>1, <2>2 DEF SigIoInv, SigIoTypes, BehindByMerged
  <2>3. CASE ~pending
    BY <1>1, <1>2, <2>1, <2>3 DEF SigIoInv, SigIoTypes, BehindByMerged
  <2> QED
    BY <2>2, <2>3
<1>4. CASE ~(Len(waiting) < QueueLength)
  BY <1>1, <1>4 DEF Arrives, SigIoInv, SigIoTypes, BehindByMerged
<1> QED
  BY <1>3, <1>4

\* The pending signal becomes a handler that has yet to receive.
LEMMA InterruptsStep == SigIoInv /\ Interrupts => SigIoInv'
<1> SUFFICES ASSUME SigIoInv, Interrupts PROVE SigIoInv'
  OBVIOUS
<1>1. /\ pending /\ handler = "idle"
      /\ ~pending' /\ handler' = "entered"
      /\ UNCHANGED <<arrived, waiting, merged>>
  BY DEF Interrupts
<1>2. SigIoTypes'
  BY <1>1 DEF Interrupts, SigIoInv, SigIoTypes
<1>3. BehindByMerged'
  BY <1>1 DEF SigIoInv, SigIoTypes, BehindByMerged
<1> QED
  BY <1>2, <1>3 DEF SigIoInv

\* The handler takes one datagram: there is one, or none was merged.
LEMMA RecvFromStep == SigIoInv /\ RecvFrom => SigIoInv'
<1> SUFFICES ASSUME SigIoInv, RecvFrom PROVE SigIoInv'
  OBVIOUS
<1>1. waiting \in Seq(Nat) /\ Len(waiting) \in Nat /\ merged \in Nat
  BY LenProperties DEF SigIoInv, SigIoTypes
<1>2. Len(waiting) = merged + (IF pending THEN 1 ELSE 0) + 1
  BY DEF SigIoInv, BehindByMerged, RecvFrom
<1>3. waiting # << >>
  <2>1. Len(waiting) # 0
    BY <1>1, <1>2
  <2> QED
    BY <1>1, <2>1, EmptySeq
<1>4. waiting' = Tail(waiting) /\ handler' = "received"
      /\ UNCHANGED <<arrived, pending, merged>>
  BY <1>3 DEF RecvFrom
<1>5. Tail(waiting) \in Seq(Nat) /\ Len(Tail(waiting)) = Len(waiting) - 1
  BY <1>1, <1>3, HeadTailProperties
<1> QED
  BY <1>1, <1>2, <1>4, <1>5 DEF SigIoInv, SigIoTypes, BehindByMerged

\* The answer changes nothing the count is made of.
LEMMA SendToStep == SigIoInv /\ SendTo => SigIoInv'
BY DEF SendTo, SigIoInv, SigIoTypes, BehindByMerged

\* The server is behind by one datagram for every merged signal: whatever
\* the order of arrivals, signals and handlers, and whether the queue
\* overflows or not.
THEOREM LagIsMerged == SigIoSpec => []BehindByMerged
<1>1. SigIoInv /\ [SigIoNext]_sigVars => SigIoInv'
  <2>1. SigIoInv /\ UNCHANGED sigVars => SigIoInv'
    BY DEF sigVars, SigIoInv, SigIoTypes, BehindByMerged
  <2> QED
    BY <2>1, ArrivesStep, InterruptsStep, RecvFromStep, SendToStep
    DEF SigIoNext, Process
<1>2. SigIoInv => BehindByMerged
  BY DEF SigIoInv
<1> QED
  BY <1>1, <1>2, SigIoInitHolds, PTL DEF SigIoSpec

-----------------------------------------------------------------------------
(***************************************************************************)
(* The ARP responder answers whoever asked.  What is in the transmit ring  *)
(* was built from a frame of the receive ring, so the invariant says of    *)
(* those frames what the answer copies: that they name their sender as the *)
(* wire brought it, unless a stray store has hit them.  A frame that was   *)
(* hit stays marked as torn, and so does the answer that copies it.        *)
(***************************************************************************)

\* A frame as some host sends it.
FromHost(frame) ==
    ~frame.torn =>
    /\ frame.source \in Hosts
    /\ frame.smac = frame.source /\ frame.sip = frame.source

\* An answer to the host that asked.
Answer(frame) ==
    ~frame.torn =>
    /\ frame.proto = "arp" /\ frame.oper = 2
    /\ frame.sip = Own /\ frame.smac = Own /\ frame.source = Own
    /\ frame.dip \in Hosts
    /\ frame.dest = frame.dip /\ frame.dmac = frame.dip

ArpInv ==
    /\ rx \in Seq(Frame) /\ tx \in Seq(Frame)
    /\ \A i \in 1 .. Len(rx) : FromHost(rx[i])
    /\ \A i \in 1 .. Len(tx) : Answer(tx[i])

\* The copy with the two sides exchanged is an answer, although its fields are
\* assigned one after the other.
LEMMA EchoIsAnswer ==
    ASSUME NEW frame \in Frame, FromHost(frame), frame.proto = "arp", frame.dip = Own
    PROVE  EchoArp(frame) \in Frame /\ Answer(EchoArp(frame))
<1> DEFINE echo == EchoArp(frame)
<1>1. echo = [proto |-> frame.proto, dest |-> frame.source, source |-> Own,
              oper |-> 2, smac |-> Own, sip |-> frame.dip, dmac |-> frame.smac,
              dip |-> frame.sip, beyond |-> frame.beyond, torn |-> frame.torn]
  BY DEF EchoArp
<1>2. echo \in Frame
  <2>1. /\ frame.proto \in {"arp", "udp", "other"} /\ frame.source \in Named
        /\ frame.dip \in Named /\ frame.smac \in Named /\ frame.sip \in Named
    BY DEF Frame
  <2>2. frame.beyond \in BOOLEAN /\ frame.torn \in BOOLEAN
    BY Zenon DEF Frame
  <2>3. Own \in Named /\ 2 \in {0, 1, 2}
    BY DEF Named, Address
  <2> HIDE DEF echo
  <2>4. [proto |-> frame.proto, dest |-> frame.source, source |-> Own,
         oper |-> 2, smac |-> Own, sip |-> frame.dip, dmac |-> frame.smac,
         dip |-> frame.sip, beyond |-> frame.beyond, torn |-> frame.torn] \in Frame
    BY <2>1, <2>2, <2>3, Zenon DEF Frame
  <2> QED
    BY <1>1, <2>4
<1>3. Answer(echo)
  BY <1>1 DEF Answer, FromHost
<1> QED
  BY <1>2, <1>3

\* A ring that a stray store hits keeps its frames, but for one that is torn.
LEMMA TearsHolds ==
    ASSUME NEW ring \in Seq(Frame), NEW after, Tears(ring, after)
    PROVE  /\ after \in Seq(Frame) /\ Len(after) = Len(ring)
           /\ \A i \in 1 .. Len(ring) : after[i] = ring[i] \/ after[i].torn = TRUE
<1>1. PICK i \in 1 .. Len(ring) : \E frame \in Torn(ring[i]) :
                                      after = [ring EXCEPT ![i] = frame]
  BY DEF Tears
<1> PICK frame \in Torn(ring[i]) : after = [ring EXCEPT ![i] = frame]
  BY <1>1
<1>2. ring[i] \in Frame
  BY ElementOfSeq
<1>3. /\ frame.proto \in {"arp", "udp", "other"} /\ frame.dip \in Named
      /\ frame.torn = TRUE /\ frame.beyond \in BOOLEAN
      /\ frame = [proto |-> frame.proto, dest |-> Nobody, source |-> Nobody,
                  oper |-> 0, smac |-> Nobody, sip |-> Nobody, dmac |-> Nobody,
                  dip |-> frame.dip, beyond |-> frame.beyond, torn |-> TRUE]
  BY <1>2 DEF Torn, Frame, Named
<1>4. frame \in Frame
  <2>1. Nobody \in Named /\ 0 \in {0, 1, 2} /\ TRUE \in BOOLEAN
    BY DEF Named
  <2>2. [proto |-> frame.proto, dest |-> Nobody, source |-> Nobody,
         oper |-> 0, smac |-> Nobody, sip |-> Nobody, dmac |-> Nobody,
         dip |-> frame.dip, beyond |-> frame.beyond, torn |-> TRUE] \in Frame
    BY <1>3, <2>1, Zenon DEF Frame
  <2> QED
    BY <1>3, <2>2, Zenon
<1>5. after \in Seq(Frame) /\ Len(after) = Len(ring)
  BY <1>4, ExceptSeq
<1>6. \A k \in 1 .. Len(ring) : after[k] = IF k = i THEN frame ELSE ring[k]
  BY <1>4, ExceptSeq
<1> QED
  BY <1>3, <1>5, <1>6

\* What nm_inject() makes of the transmit ring.
LEMMA InjectedHolds ==
    ASSUME NEW frame \in Frame, Answer(frame), tx \in Seq(Frame),
           \A i \in 1 .. Len(tx) : Answer(tx[i])
    PROVE  /\ Injected(frame) \in Seq(Frame)
           /\ \A i \in 1 .. Len(Injected(frame)) : Answer(Injected(frame)[i])
<1>1. Len(tx) \in Nat
  BY LenProperties
<1>2. /\ Append(tx, frame) \in Seq(Frame)
      /\ Len(Append(tx, frame)) = Len(tx) + 1
      /\ \A i \in 1 .. Len(tx) : Append(tx, frame)[i] = tx[i]
      /\ Append(tx, frame)[Len(tx) + 1] = frame
  BY AppendProperties
<1>3. \A i \in 1 .. Len(Append(tx, frame)) : Answer(Append(tx, frame)[i])
  <2> SUFFICES ASSUME NEW i \in 1 .. Len(Append(tx, frame))
               PROVE  Answer(Append(tx, frame)[i])
    OBVIOUS
  <2>1. i \in 1 .. Len(tx) \/ i = Len(tx) + 1
    BY <1>1, <1>2
  <2> QED
    BY <1>2, <2>1
<1> QED
  BY <1>2, <1>3 DEF Injected

\* Both rings lose their first frame in the same way.
LEMMA TailHolds ==
    ASSUME NEW ring \in Seq(Frame), ring # << >>
    PROVE  /\ Head(ring) = ring[1] /\ 1 \in 1 .. Len(ring)
           /\ Tail(ring) \in Seq(Frame)
           /\ \A i \in 1 .. Len(Tail(ring)) :
                 i + 1 \in 1 .. Len(ring) /\ Tail(ring)[i] = ring[i + 1]
<1>1. /\ Head(ring) = ring[1] /\ Tail(ring) \in Seq(Frame)
      /\ Len(Tail(ring)) = Len(ring) - 1
      /\ \A i \in 1 .. Len(Tail(ring)) : Tail(ring)[i] = ring[i + 1]
  BY HeadTailProperties
<1>2. Len(ring) \in Nat /\ Len(ring) # 0
  BY LenProperties, EmptySeq
<1> QED
  BY <1>1, <1>2

\* One frame handled: answered, printed or only taken from the ring.
LEMMA HandleStep == ArpInv /\ Handle => ArpInv'
<1> SUFFICES ASSUME ArpInv, Handle PROVE ArpInv'
  OBVIOUS
<1>1. /\ rx \in Seq(Frame) /\ tx \in Seq(Frame) /\ rx # << >>
      /\ \A i \in 1 .. Len(tx) : Answer(tx[i])
  BY DEF ArpInv, Handle
<1>2. /\ Tail(rx) \in Seq(Frame) /\ Head(rx) \in Frame /\ FromHost(Head(rx))
      /\ \A i \in 1 .. Len(Tail(rx)) : FromHost(Tail(rx)[i])
  BY <1>1, TailHolds, ElementOfSeq DEF ArpInv
<1>3. CASE Answers
  <2>1. EchoArp(Head(rx)) \in Frame /\ Answer(EchoArp(Head(rx)))
    BY <1>2, <1>3, EchoIsAnswer DEF Answers
  <2>2. rx' = Tail(rx) /\ tx' = Injected(EchoArp(Head(rx)))
    BY <1>3 DEF Answers
  <2>3. tx' \in Seq(Frame) /\ \A i \in 1 .. Len(tx') : Answer(tx'[i])
    BY <1>1, <2>1, <2>2, InjectedHolds
  <2> QED
    BY <1>2, <2>2, <2>3 DEF ArpInv
<1>4. CASE Prints \/ Skips
  <2>1. rx' = Tail(rx) /\ tx' = tx
    BY <1>4 DEF Prints, Skips
  <2> QED
    BY <1>1, <1>2, <2>1 DEF ArpInv
<1>5. CASE Tears(Tail(rx), rx') /\ tx' = tx
  <2>1. /\ rx' \in Seq(Frame) /\ Len(rx') = Len(Tail(rx))
        /\ \A i \in 1 .. Len(Tail(rx)) : rx'[i] = Tail(rx)[i] \/ rx'[i].torn = TRUE
    BY <1>2, <1>5, TearsHolds
  <2>2. \A i \in 1 .. Len(rx') : FromHost(rx'[i])
    BY <1>2, <2>1 DEF FromHost
  <2> QED
    BY <1>1, <1>5, <2>1, <2>2 DEF ArpInv
<1>6. CASE Tears(tx, tx') /\ rx' = Tail(rx)
  <2>1. /\ tx' \in Seq(Frame) /\ Len(tx') = Len(tx)
        /\ \A i \in 1 .. Len(tx) : tx'[i] = tx[i] \/ tx'[i].torn = TRUE
    BY <1>1, <1>6, TearsHolds
  <2>2. \A i \in 1 .. Len(tx') : Answer(tx'[i])
    BY <1>1, <2>1 DEF Answer
  <2> QED
    BY <1>2, <1>6, <2>1, <2>2 DEF ArpInv
<1>7. CASE rx' = << >> /\ tx' = << >>
  <2>1. rx' \in Seq(Frame) /\ tx' \in Seq(Frame) /\ Len(rx') = 0 /\ Len(tx') = 0
    BY <1>7, EmptySeq
  <2> QED
    BY <2>1 DEF ArpInv
<1> QED
  BY <1>3, <1>4, <1>5, <1>6, <1>7 DEF Handle, StoresBeyond

\* The wire brings frames that name the host they come from.
LEMMA ReceiveStep ==
    ASSUME ArpInv, NEW h \in Hosts, NEW proto \in {"arp", "udp", "other"},
           NEW oper \in {1, 2}, NEW dmac \in {Own, Nobody}, NEW dip \in Address,
           NEW beyond \in BOOLEAN, Receive(h, proto, oper, dmac, dip, beyond)
    PROVE  ArpInv'
<1> DEFINE frame == [proto |-> proto, dest |-> dmac, source |-> h,
                     oper |-> oper, smac |-> h, sip |-> h,
                     dmac |-> dmac, dip |-> dip,
                     beyond |-> beyond, torn |-> FALSE]
<1>1. rx' = Append(rx, frame) /\ tx' = tx /\ rx \in Seq(Frame)
  BY DEF Receive, ArpInv
<1>2. FromHost(frame) /\ frame \in Frame
  BY DEF FromHost, Frame, Named, Address
<1> HIDE DEF frame
<1>3. /\ Append(rx, frame) \in Seq(Frame) /\ Len(rx) \in Nat
      /\ Len(Append(rx, frame)) = Len(rx) + 1
      /\ \A i \in 1 .. Len(rx) : Append(rx, frame)[i] = rx[i]
      /\ Append(rx, frame)[Len(rx) + 1] = frame
  BY <1>1, <1>2, AppendProperties, LenProperties
<1>4. ASSUME NEW i \in 1 .. Len(rx')
      PROVE  FromHost(rx'[i])
  <2>1. i \in 1 .. Len(rx) \/ i = Len(rx) + 1
    BY <1>1, <1>3
  <2> QED
    BY <1>1, <1>2, <1>3, <2>1 DEF ArpInv
<1> QED
  BY <1>1, <1>3, <1>4 DEF ArpInv

\* A transmitted frame leaves the ring.
LEMMA TransmitStep == ArpInv /\ Transmit => ArpInv'
<1> SUFFICES ASSUME ArpInv, Transmit PROVE ArpInv'
  OBVIOUS
<1>1. /\ tx \in Seq(Frame) /\ tx # << >> /\ tx' = Tail(tx) /\ rx' = rx
  BY DEF ArpInv, Transmit
<1> QED
  BY <1>1, TailHolds DEF ArpInv

\* Whatever hosts ask for and announce, and whatever is lost at a full ring:
\* each frame injected is an answer addressed to the host that asked, but for
\* those that a stray store has hit, or whose question it has hit.
THEOREM AnswersCorrect == ArpSpec => []AnswersAddressed
<1>1. ArpInit => ArpInv
  <2> SUFFICES ASSUME ArpInit PROVE ArpInv
    OBVIOUS
  <2>1. /\ rx \in Seq(Frame) /\ Len(rx) = 0
        /\ tx \in Seq(Frame) /\ Len(tx) = 0
    BY EmptySeq DEF ArpInit
  <2> QED
    BY <2>1 DEF ArpInv
<1>2. ArpInv /\ [ArpNext]_arpVars => ArpInv'
  <2> SUFFICES ASSUME ArpInv, [ArpNext]_arpVars PROVE ArpInv'
    OBVIOUS
  <2>1. CASE UNCHANGED arpVars
    BY <2>1 DEF arpVars, ArpInv
  <2>2. CASE \E h \in Hosts, oper \in {1, 2}, dip \in Address, dmac \in {Own, Nobody} :
                Receive(h, "arp", oper, dmac, dip, FALSE)
    BY <2>2, ReceiveStep
  <2>3. CASE \/ \E h \in Hosts, beyond \in BOOLEAN :
                   Receive(h, "udp", 1, Own, Own, beyond)
             \/ \E h \in Hosts : Receive(h, "other", 1, Own, Own, FALSE)
    BY <2>3, ReceiveStep DEF Address
  <2> QED
    BY <2>1, <2>2, <2>3, HandleStep, TransmitStep DEF ArpNext
<1>3. ArpInv => AnswersAddressed
  BY DEF ArpInv, Answer, AnswersAddressed
<1> QED
  BY <1>1, <1>2, <1>3, PTL DEF ArpSpec

=============================================================================
