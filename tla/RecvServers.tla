----------------------------- MODULE RecvServers -----------------------------
(***************************************************************************)
(* The three servers of src/src/select_poll_epoll that only receive and    *)
(* print: server_block.cxx and server_noblock.cxx, which start a thread    *)
(* for every connection, and server_poll.cxx, one loop over poll().        *)
(* program says which of them runs.                                        *)
(*                                                                         *)
(* The thread servers hand a new thread the address of the accept loop's   *)
(* variable clientfd: the thread reads it when it is scheduled, which may  *)
(* be after the next accept().  The poll server keeps an array of pollfds  *)
(* indexed by descriptor and scans it after every poll().  It does not     *)
(* compare a descriptor with the length of the array: with one beyond it   *)
(* nothing is known of what the server does.                               *)
(***************************************************************************)
EXTENDS Naturals, Sequences, FiniteSets

CONSTANTS
    Programs,     \* which of "block", "noblock" and "poll" are checked
    Listener,     \* listenfd
    ClientFds,    \* descriptors accept() may return
    NoFd,         \* what a failed accept() leaves in clientfd
    PollSize,     \* POLL_SIZE, the length of the poll server's array
    Conns, NoConn,
    Writers,      \* bound: the clients that write, and that end a connection
    Enders,
    ListenQueue,  \* second argument of listen()
    MaxMessages   \* bound: messages a socket's receive queue holds

ASSUME RecvAssumption ==
    /\ Programs \subseteq {"block", "noblock", "poll"}
    /\ Listener \in Nat
    /\ IsFiniteSet(ClientFds) /\ \A fd \in ClientFds : fd \in Nat /\ fd > Listener
    /\ NoFd \notin ClientFds /\ NoConn \notin Conns
    /\ PollSize \in Nat /\ ListenQueue \in Nat /\ MaxMessages \in Nat

VARIABLES
    program,   \* the server that runs
    sock,      \* sock[fd]: the connection fd refers to
    state,     \* state[c]: "none", "queued" or "open"
    queue,     \* the listener's queue of established connections
    peer,      \* peer[c]: "up", "fin" or "rst"
    inbox,     \* inbox[c]: messages in the socket's receive queue
    clientfd,  \* the accept loop's variable
    thread,    \* thread[c]: "none", "created", "running" or "done"
    threadFd,  \* threadFd[c]: the descriptor the thread started for c reads
    entry,     \* entry[fd]: pfds[fd].fd is fd, not -1
    revents,   \* revents[fd]: pfds[fd].revents has POLLIN or POLLERR
    maxFd,     \* max_fd
    pos,       \* where the scan goes on, 0 when poll() is called next
    health     \* "sound", "wild" after a store beyond the array, or "dead"

kernelVars == <<sock, state, queue, peer, inbox>>
threadVars == <<clientfd, thread, threadFd>>
pollVars   == <<entry, revents, maxFd, pos>>
recvVars   == <<program, kernelVars, threadVars, pollVars, health>>

\* The array of pollfds is on the stack and revents is not initialised.
RecvInit ==
    /\ program \in Programs
    /\ sock = [fd \in ClientFds |-> NoConn]
    /\ state = [c \in Conns |-> "none"]
    /\ queue = << >>
    /\ peer = [c \in Conns |-> "up"]
    /\ inbox = [c \in Conns |-> 0]
    /\ clientfd = NoFd
    /\ thread = [c \in Conns |-> "none"]
    /\ threadFd = [c \in Conns |-> NoFd]
    /\ entry = [fd \in ClientFds |-> FALSE]
    /\ \E garbage \in IF program = "poll" THEN BOOLEAN ELSE {FALSE} :
          revents = [fd \in ClientFds |-> garbage]
    /\ maxFd = 0
    /\ pos = 0
    /\ health = "sound"

FreeFds == {fd \in ClientFds : sock[fd] = NoConn}

Lowest(S) == CHOOSE fd \in S : \A other \in S : fd <= other

\* accept() with a descriptor to give.
Accepts(fd) ==
    /\ queue # << >> /\ FreeFds # {}
    /\ fd = Lowest(FreeFds)
    /\ sock' = [sock EXCEPT ![fd] = Head(queue)]
    /\ state' = [state EXCEPT ![Head(queue)] = "open"]
    /\ queue' = Tail(queue)
    /\ UNCHANGED <<program, peer, inbox>>

\* recv() takes some of the messages that are there.
Receives(c) ==
    \E n \in 1 .. inbox[c] :
        /\ inbox' = [inbox EXCEPT ![c] = @ - n]
        /\ UNCHANGED <<program, sock, state, queue, peer>>

Ended(c) == inbox[c] = 0 /\ peer[c] # "up"

\* close(): the client may come again, with a new connection.
Closes(fd) ==
    /\ sock[fd] # NoConn
    /\ sock' = [sock EXCEPT ![fd] = NoConn]
    /\ state' = [state EXCEPT ![sock[fd]] = "none"]
    /\ peer' = [peer EXCEPT ![sock[fd]] = "up"]
    /\ inbox' = [inbox EXCEPT ![sock[fd]] = 0]
    /\ UNCHANGED <<program, queue>>

-----------------------------------------------------------------------------
(* server_block and server_noblock.                                        *)

Threaded == program \in {"block", "noblock"}

\* accept(), and pthread_create() with the address of clientfd.  What
\* pthread_create() returns when it fails is above 0, and the server goes on
\* with a connection that has no thread.
MainAccepts ==
    /\ Threaded
    /\ \E fd \in ClientFds, made \in {"created", "none"} :
          /\ Accepts(fd)
          /\ clientfd' = fd
          /\ thread' = [thread EXCEPT ![Head(queue)] = made]
    /\ UNCHANGED <<threadFd, pollVars, health>>

\* accept() returns -1, into the same variable: no descriptor is left or, when
\* the listener is non-blocking, nobody is in the queue.
MainFails ==
    /\ Threaded
    /\ \/ queue # << >> /\ FreeFds = {}
       \/ queue = << >> /\ program = "noblock"
    /\ clientfd' = NoFd
    /\ UNCHANGED <<program, kernelVars, thread, threadFd, pollVars, health>>

\* int clientfd = *(int*)arg
ThreadStarts(c) ==
    /\ thread[c] = "created"
    /\ thread' = [thread EXCEPT ![c] = "running"]
    /\ threadFd' = [threadFd EXCEPT ![c] = clientfd]
    /\ UNCHANGED <<program, kernelVars, clientfd, pollVars, health>>

\* A thread that reads -1 goes round its loop for ever without a step.
ThreadReceivesUp(c) ==
    /\ thread[c] = "running" /\ threadFd[c] # NoFd
    /\ peer[sock[threadFd[c]]] = "up"
    /\ Receives(sock[threadFd[c]])
    /\ UNCHANGED <<threadVars, pollVars, health>>
ThreadReceives(c) ==
    /\ thread[c] = "running" /\ threadFd[c] # NoFd
    /\ Receives(sock[threadFd[c]])
    /\ UNCHANGED <<threadVars, pollVars, health>>

\* The blocking server's thread ignores the end of its connection and reads 0
\* for ever; the other one's ends.  Neither closes the descriptor.
ThreadEndsCloses(c) ==
    LET fd == threadFd[c] IN
    /\ program = "noblock"
    /\ thread[c] = "running" /\ fd # NoFd
    /\ sock[fd] # NoConn /\ Ended(sock[fd])
    /\ thread' = [thread EXCEPT ![c] = "done"]
    /\ Closes(fd)
    /\ UNCHANGED <<clientfd, threadFd, pollVars, health>>
ThreadEnds(c) ==
    /\ program = "noblock"
    /\ thread[c] = "running" /\ threadFd[c] # NoFd
    /\ Ended(sock[threadFd[c]])
    /\ thread' = [thread EXCEPT ![c] = "done"]
    /\ UNCHANGED <<program, kernelVars, clientfd, threadFd, pollVars, health>>

-----------------------------------------------------------------------------
(* server_poll.                                                            *)

\* poll() sets revents of the entries up to max_fd, to 0 where fd is -1.
Polled ==
    [fd \in ClientFds |->
        IF fd > maxFd THEN revents[fd]
        ELSE entry[fd] /\ (inbox[sock[fd]] > 0 \/ peer[sock[fd]] # "up")]

\* Descriptors a scan from first on reads: the last one is left out.
ToScan(polled, first, last) ==
    {fd \in ClientFds : first <= fd /\ fd < last /\ polled[fd]}

NextOf(todo) == IF todo = {} THEN 0 ELSE Lowest(todo)

ScanFromLate(polled, last) == NextOf(ToScan(polled, Listener + 2, last))
ScanFrom(polled, last) == NextOf(ToScan(polled, Listener + 1, last))

Grown(fd) == IF fd > maxFd THEN fd ELSE maxFd

Polls == program = "poll" /\ health = "sound" /\ pos = 0
Scans == program = "poll" /\ health = "sound" /\ pos # 0

\* poll() reports the listener: one connection is accepted before the scan.
PollAccepts ==
    /\ Polls
    /\ \E fd \in ClientFds :
          /\ Accepts(fd) /\ fd < PollSize
          /\ entry' = [entry EXCEPT ![fd] = TRUE]
          /\ maxFd' = Grown(fd)
          /\ revents' = Polled
          /\ pos' = ScanFrom(Polled, maxFd')
    /\ UNCHANGED <<threadVars, health>>

\* The descriptor has no entry: pfds[clientfd] is whatever lies behind the
\* array.
PollOverruns ==
    /\ Polls
    /\ \E fd \in ClientFds : Accepts(fd) /\ fd >= PollSize
    /\ health' = "wild"
    /\ UNCHANGED <<threadVars, pollVars>>

\* The listener is not ready.  If it is and accept() fails, the loop calls
\* poll() again without a scan.
PollReturns ==
    /\ Polls
    /\ queue = << >>
    /\ revents' = Polled
    /\ pos' = ScanFrom(Polled, maxFd)
    /\ pos' # 0
    /\ UNCHANGED <<program, kernelVars, threadVars, entry, maxFd, health>>

\* Every entry poll() reported is counted in nready, the scan ends with the
\* last of them.
ScanOn == NextOf(ToScan(revents, pos + 1, maxFd))

ScanReceivesAll ==
    /\ Scans
    /\ Receives(sock[pos])
    /\ UNCHANGED <<threadVars, pollVars, health>>
ScanReceives ==
    /\ Scans
    /\ Receives(sock[pos])
    /\ pos' = ScanOn
    /\ UNCHANGED <<threadVars, entry, revents, maxFd, health>>

\* A reset is an error and the scan goes on; at a length of 0 it breaks off.
ScanEnds ==
    /\ Scans
    /\ Ended(sock[pos]) /\ Closes(pos)
    /\ entry' = [entry EXCEPT ![pos] = FALSE]
    /\ pos' = IF peer[sock[pos]] = "fin" THEN 0 ELSE ScanOn
    /\ UNCHANGED <<threadVars, revents, maxFd, health>>

PollServer ==
    PollAccepts \/ PollOverruns \/ PollReturns \/ ScanReceives \/ ScanEnds

\* A server that has written beyond its array may call anything on any of its
\* descriptors, or die, or do nothing.  Nothing reads its variables any more.
Wild ==
    /\ health = "wild"
    /\ \E fd \in ClientFds :
          \/ Accepts(fd)
          \/ sock[fd] # NoConn /\ Receives(sock[fd])
          \/ Closes(fd)
    /\ UNCHANGED <<threadVars, pollVars, health>>

\* The system closes what a server that dies has open.
Dies ==
    /\ health = "wild"
    /\ health' = "dead"
    /\ sock' = [fd \in ClientFds |-> NoConn]
    /\ state' = [c \in Conns |-> "none"]
    /\ queue' = << >>
    /\ UNCHANGED <<program, peer, inbox, threadVars, pollVars>>

ThreadSteps(c) == ThreadStarts(c) \/ ThreadReceives(c) \/ ThreadEnds(c)

-----------------------------------------------------------------------------
(* The clients.                                                            *)

Connect(c) ==
    /\ health # "dead"
    /\ state[c] = "none" /\ Len(queue) < ListenQueue
    /\ state' = [state EXCEPT ![c] = "queued"]
    /\ queue' = Append(queue, c)
    /\ UNCHANGED <<program, sock, peer, inbox, threadVars, pollVars, health>>

ClientWrites(c) ==
    /\ c \in Writers
    /\ state[c] \in {"queued", "open"} /\ peer[c] = "up"
    /\ inbox[c] < MaxMessages
    /\ inbox' = [inbox EXCEPT ![c] = @ + 1]
    /\ UNCHANGED <<program, sock, state, queue, peer, threadVars, pollVars, health>>

ClientEnds(c) ==
    /\ c \in Enders
    /\ state[c] \in {"queued", "open"} /\ peer[c] = "up"
    /\ \E how \in {"fin", "rst"} : peer' = [peer EXCEPT ![c] = how]
    /\ UNCHANGED <<program, sock, state, queue, inbox, threadVars, pollVars, health>>

RecvNext ==
    \/ MainAccepts \/ MainFails \/ PollServer \/ Wild \/ Dies
    \/ \E c \in Conns : \/ ThreadSteps(c)
                        \/ Connect(c) \/ ClientWrites(c) \/ ClientEnds(c)

RecvSpec == RecvInit /\ [][RecvNext]_recvVars

\* The operating system schedules the poll server, and every thread.
RecvFairness == /\ WF_recvVars(PollServer)
                /\ \A c \in Conns : WF_recvVars(ThreadSteps(c))

RecvFairSpec == RecvSpec /\ RecvFairness

-----------------------------------------------------------------------------
(* Properties.                                                             *)

\* A thread that reads clientfd late finds the descriptor of a later
\* connection or of none, never one accepted before its own and never a
\* number that was closed and given out again: what it was started for is
\* skipped, but nobody's data is taken as somebody else's.
ThreadsReadForward ==
    \A c \in Conns :
        (thread[c] \in {"running", "done"} /\ threadFd[c] # NoFd) =>
            \E fd \in ClientFds :
                sock[fd] = c /\ fd <= threadFd[c] /\ sock[threadFd[c]] # NoConn

\* The scan reads exactly what poll() reported: an entry it still has to read
\* is open and has data or an end, so that recv(), on a blocking socket, does
\* not stop the server; also when the accept before the scan took a number
\* that an earlier scan had closed with its revents set.  It is said of a
\* server that has not written beyond its array.
ScanNeverBlocks ==
    (health = "sound" /\ pos # 0) =>
        \A fd \in {pos} \cup ToScan(revents, pos, maxFd) :
            /\ entry[fd] /\ sock[fd] # NoConn
            /\ inbox[sock[fd]] > 0 \/ peer[sock[fd]] # "up"

\* The blocking server's latest connection is read, if it got a thread and no
\* connection comes after it: threads that were late for their own are late
\* for that one too.
Latest(c) ==
    program = "block" /\ clientfd # NoFd /\ sock[clientfd] = c /\ thread[c] # "none"

LatestIsRead ==
    \A c \in Conns : (Latest(c) /\ inbox[c] > 0) ~> (inbox[c] = 0 \/ ~Latest(c))

\* With a connection waiting and no descriptor left, accept() fails and the
\* scan is skipped, and only a scan could free a descriptor.
Starved == program = "poll" /\ pos = 0 /\ queue # << >> /\ FreeFds = {}

\* The scan stops at a connection that ended, with others still to be read.
BrokenOff == ScanEnds /\ pos' = 0 /\ ScanOn # 0

\* A client of the poll server that has not the highest descriptor waits to be
\* read; it is read, or the server has come to a state in which it reads nobody
\* any more.
LowerWaits(c) ==
    inbox[c] > 0 /\ \E fd \in ClientFds : entry[fd] /\ sock[fd] = c /\ fd < maxFd
LowerServed(c) == inbox[c] = 0 \/ Starved \/ health # "sound"

=============================================================================
