------------------------------ MODULE LightHttp ------------------------------
(***************************************************************************)
(* src/src/lighthttp: the reactor of the echo server with one listener, a  *)
(* handler between recv and send, and a timeout scan.  The handler         *)
(* (http.c) answers every chunk it is given with the 404 page.             *)
(*                                                                         *)
(* One loop iteration is Scan, which closes the descriptors among the next *)
(* ScanCount entries of the table that were not active for Timeout         *)
(* seconds, then EpollWait, then one Dispatch per harvested event.  What   *)
(* the bytes say changes nothing, so a receive queue is a number of        *)
(* BUFFER_LENGTH chunks and a reply is what kind of reply it is.           *)
(***************************************************************************)
EXTENDS GEvent, Naturals, Sequences, FiniteSets

CONSTANTS
    Listener,      \* descriptor of the listening socket
    ClientFds,     \* descriptors accept() may return (RLIMIT_NOFILE)
    TableSize,     \* MAX_EPOLL_EVENTS, the size of greactor.events
    ScanCount,     \* entries one loop iteration scans: 100
    Timeout,       \* seconds without activity before the scan closes: 60
    Conns, NoConn,
    Backlog,       \* second argument of listen()
    MaxMaps,       \* mappings a process may have (vm.max_map_count)
    PageExists,    \* TRUE when www/404.html is found from the working directory
    MemoryPressure, \* TRUE when the kernel may run out of memory for sockets
    MaxChunks      \* bound: chunks a client writes

Fds == {Listener} \cup ClientFds

\* The descriptor limit (1024 by default) keeps the descriptors in the table.
ASSUME LightAssumption ==
    /\ TableSize \in Nat \ {0} /\ ScanCount \in Nat \ {0}
    /\ Fds \subseteq 0 .. TableSize - 1
    /\ Listener \notin ClientFds
    /\ Timeout \in Nat \ {0}
    /\ NoConn \notin Conns
    /\ Backlog \in Nat /\ MaxMaps \in Nat /\ MaxChunks \in Nat
    /\ PageExists \in BOOLEAN /\ MemoryPressure \in BOOLEAN

VARIABLES
    pc,       \* "start", "scan", "wait", or "dead" once a signal killed it
    slot,     \* slot[fd]: greactor.events[fd] with epoll's interest in fd
    age,      \* age[fd]: now - last_active of the entry, up to Timeout
    checkpos, \* where the next scan starts
    batch,    \* batch[fd]: harvested and not yet dispatched events of fd
    maps,     \* pages mapped by the handler: it never unmaps one
    sock,     \* sock[fd]: the connection a client descriptor refers to
    state,    \* state[c]: "new", "queued", "open" or "closed"
    backlog,  \* the listener's queue of established connections
    peer,     \* peer[c]: "up", "fin", "rst" or "finrst" (a reset after a FIN)
    inq,      \* inq[c]: chunks in the socket's receive queue
    full,     \* full[c]: the socket's send buffer has no room
    idle,     \* idle[fd]: history, time since a callback ran on fd
    reads,    \* reads[c]: history, how often recv() returned data
    replies   \* replies[c]: history, what send() was given and took

serverVars == <<pc, slot, age, checkpos, batch, maps>>
netVars    == <<state, backlog, peer, inq, full>>
history    == <<idle, reads, replies>>
vars       == <<serverVars, sock, netVars, history>>

FreshSlot == [callback |-> "none", events |-> {}, status |-> 0,
              interest |-> {}, reply |-> "none"]

Slot == [callback : Callback, events : SUBSET Event, status : {0, 1},
         interest : SUBSET Event, reply : {"none", "page", "stale"}]

Init ==
    /\ pc = "start"
    /\ slot = [fd \in Fds |-> FreshSlot]
    /\ age = [fd \in Fds |-> 0]
    /\ checkpos = 0
    /\ batch = [fd \in Fds |-> {}]
    /\ maps = 0
    /\ sock = [fd \in ClientFds |-> NoConn]
    /\ state = [c \in Conns |-> "new"]
    /\ backlog = << >>
    /\ peer = [c \in Conns |-> "up"]
    /\ inq = [c \in Conns |-> 0]
    /\ full = [c \in Conns |-> FALSE]
    /\ idle = [fd \in Fds |-> 0]
    /\ reads = [c \in Conns |-> 0]
    /\ replies = [c \in Conns |-> << >>]

-----------------------------------------------------------------------------
(* The kernel as the server sees it.                                       *)

Lowest(S) == CHOOSE fd \in S : \A other \in S : fd <= other

FreeFds == {fd \in ClientFds : sock[fd] = NoConn}

Readable(fd) ==
    IF fd = Listener
    THEN backlog # << >>
    ELSE /\ sock[fd] # NoConn
         /\ inq[sock[fd]] > 0 \/ peer[sock[fd]] # "up"

Writable(fd) ==
    /\ fd \in ClientFds /\ sock[fd] # NoConn
    /\ ~full[sock[fd]] \/ peer[sock[fd]] \in {"rst", "finrst"}

Ready(fd) == {e \in slot[fd].interest : IF e = "IN" THEN Readable(fd)
                                                    ELSE Writable(fd)}

\* A signal ends the process and the kernel closes every socket.
Die ==
    /\ pc' = "dead"
    /\ slot' = [fd \in Fds |-> FreshSlot]
    /\ batch' = [fd \in Fds |-> {}]
    /\ sock' = [fd \in ClientFds |-> NoConn]
    /\ state' = [c \in Conns |-> "closed"]
    /\ backlog' = << >>
    /\ UNCHANGED <<age, checkpos, maps, peer, inq, full, history>>

\* gevent_set records the time of each of fds in last_active.
ActiveNever(fds) == age' = age
Active(fds) == age' = [fd \in Fds |-> IF fd \in fds THEN 0 ELSE age[fd]]

\* The history of what callbacks ran when.
RanOn(fds) == idle' = [fd \in Fds |-> IF fd \in fds THEN 0 ELSE idle[fd]]

-----------------------------------------------------------------------------
(* Start-up.                                                               *)

Start ==
    /\ pc = "start"
    /\ pc' = "scan"
    /\ slot' = [slot EXCEPT
          ![Listener] = GeventAdd(GeventSet(@, "accept"), {"IN"})]
    /\ Active({Listener})
    /\ RanOn({Listener})
    /\ UNCHANGED <<checkpos, batch, maps, sock, netVars, reads, replies>>

\* The port is taken: init_sock returned -1 and greactor_setup goes on with
\* entry -1 of the table, outside it: the process crashes, or it loops on an
\* empty interest list.
StartFails ==
    /\ pc = "start"
    /\ pc' \in {"scan", "dead"}
    /\ UNCHANGED <<slot, age, checkpos, batch, maps, sock, netVars, history>>

-----------------------------------------------------------------------------
(* The event loop, greactor_run.                                           *)

Scanned == {(checkpos + i) % TableSize : i \in 0 .. ScanCount - 1}

NextCheckGrows == checkpos + ScanCount
NextCheckStops ==
    IF checkpos + ScanCount < TableSize THEN checkpos + ScanCount ELSE checkpos
NextCheck == (checkpos + ScanCount) % TableSize

Expired(fd) == slot[fd].status = 1 /\ age[fd] >= Timeout

LoopTopAnyTime == pc = "scan"
LoopTop == pc = "scan" /\ \A fd \in Fds : batch[fd] = {}

\* close() and gevent_del() for every expired entry among the scanned ones;
\* the listener's entry is one of them, and the kernel resets its queue.
Scan ==
    LET expired == {fd \in Fds \cap Scanned : Expired(fd)}
        lost == {sock[fd] : fd \in expired \cap ClientFds} \cup
                (IF Listener \in expired
                 THEN {backlog[i] : i \in 1 .. Len(backlog)} ELSE {})
    IN  /\ LoopTop
        /\ pc' = "wait"
        /\ checkpos' = NextCheck
        /\ slot' = [fd \in Fds |-> IF fd \in expired
                                   THEN GeventDel(CloseDescriptor(slot[fd]))
                                   ELSE slot[fd]]
        /\ sock' = [fd \in ClientFds |-> IF fd \in expired THEN NoConn
                                                           ELSE sock[fd]]
        /\ state' = [c \in Conns |-> IF c \in lost THEN "closed" ELSE state[c]]
        /\ backlog' = IF Listener \in expired THEN << >> ELSE backlog
        /\ UNCHANGED <<age, batch, maps, peer, inq, full, history>>

\* epoll_wait returns what is ready, or nothing after a second, or -1.
EpollWait ==
    /\ pc = "wait"
    /\ pc' = "scan"
    /\ batch' = [fd \in Fds |-> Ready(fd)]
    /\ UNCHANGED <<slot, age, checkpos, maps, sock, netVars, history>>

\* The search for a free entry always finds one, stdin's at the latest: the
\* "max connect limit" branch is never taken.
AcceptConnection(fd) ==
    /\ FreeFds # {}
    /\ backlog # << >>
    /\ LET clientfd == Lowest(FreeFds)
           c == Head(backlog)
       IN  /\ sock' = [sock EXCEPT ![clientfd] = c]
           /\ state' = [state EXCEPT ![c] = "open"]
           /\ slot' = [slot EXCEPT
                 ![clientfd] = GeventAdd(GeventSet(@, "recv"), {"IN"})]
           /\ Active({clientfd})
           /\ RanOn({fd, clientfd})
    /\ backlog' = Tail(backlog)
    /\ UNCHANGED <<pc, checkpos, maps, peer, inq, full, reads, replies>>

\* EMFILE: the error is printed and the connection stays in the queue.
AcceptFails(fd) ==
    /\ FreeFds = {}
    /\ UNCHANGED <<pc, slot, age, checkpos, maps, sock, netVars, history>>

\* The descriptor limit is reached; a listener that timed out freed a number.
NoDescriptor == FreeFds = {} /\ slot[Listener].interest # {}

\* bad_request: no page leaves slength at -1, and recv_callback does not look
\* at what the handler returned; a page that can be opened is mapped for good.
HandlerReplies(reply) ==
    \/ ~PageExists /\ reply = "stale" /\ maps' = maps
    \/ /\ PageExists /\ ~NoDescriptor /\ maps < MaxMaps
       /\ reply = "page" /\ maps' = maps + 1

\* open() or mmap() failed: strcpy() reads from MAP_FAILED.
HandlerCrashes == PageExists /\ (NoDescriptor \/ maps >= MaxMaps)

RecvData(fd) ==
    LET c == sock[fd]
    IN  /\ inq[c] > 0
        /\ inq' = [inq EXCEPT ![c] = @ - 1]
        /\ reads' = [reads EXCEPT ![c] = @ + 1]
        /\ \E reply \in {"page", "stale"} :
              /\ HandlerReplies(reply)
              /\ slot' = [slot EXCEPT ![fd] =
                    ReArm([@ EXCEPT !.reply = reply], "send", {"OUT"})]
        /\ Active({fd})
        /\ RanOn({fd})
        /\ UNCHANGED <<pc, checkpos, sock, state, backlog, peer, full, replies>>

RecvCrashes(fd) ==
    /\ inq[sock[fd]] > 0
    /\ HandlerCrashes
    /\ Die

\* recv returned 0 or -1: the two branches do the same.
RecvEnd(fd) ==
    /\ inq[sock[fd]] = 0
    /\ slot' = [slot EXCEPT ![fd] = CloseDescriptor(GeventDel(@))]
    /\ sock' = [sock EXCEPT ![fd] = NoConn]
    /\ state' = [state EXCEPT ![sock[fd]] = "closed"]
    /\ UNCHANGED <<pc, age, checkpos, maps, backlog, peer, inq, full, history>>

\* What the client gets of a reply: all of it, or a part of it when the kernel
\* is short of memory and send() returns a short count.
Taken(reply) == IF MemoryPressure THEN {reply, "part"} ELSE {reply}

SendData(fd) ==
    LET c == sock[fd]
    IN  /\ peer[c] \in {"up", "fin"}
        /\ \E taken \in Taken(slot[fd].reply) :
              replies' = [replies EXCEPT ![c] = Append(@, taken)]
        /\ \E noRoom \in BOOLEAN : full' = [full EXCEPT ![c] = noRoom]
        /\ slot' = [slot EXCEPT ![fd] = ReArm(@, "recv", {"IN"})]
        /\ Active({fd})
        /\ RanOn({fd})
        /\ UNCHANGED <<pc, checkpos, maps, sock, state, backlog, peer, inq, reads>>

\* ECONNRESET or EAGAIN: closed first, then taken out of epoll.
SendFails(fd) ==
    /\ \/ peer[sock[fd]] = "rst"
       \/ MemoryPressure /\ peer[sock[fd]] # "finrst"
    /\ slot' = [slot EXCEPT ![fd] = GeventDel(CloseDescriptor(@))]
    /\ sock' = [sock EXCEPT ![fd] = NoConn]
    /\ state' = [state EXCEPT ![sock[fd]] = "closed"]
    /\ UNCHANGED <<pc, age, checkpos, maps, backlog, peer, inq, full, history>>

\* EPIPE, and nothing ignores SIGPIPE.
SendKills(fd) == peer[sock[fd]] = "finrst" /\ Die

\* A callback the process survives.
CallbackOf(fd) ==
    \/ /\ slot[fd].callback = "accept"
       /\ AcceptConnection(fd) \/ AcceptFails(fd)
    \/ /\ slot[fd].callback = "recv"
       /\ RecvData(fd) \/ RecvEnd(fd)
    \/ /\ slot[fd].callback = "send"
       /\ SendData(fd) \/ SendFails(fd)

Dispatch(fd, e) ==
    /\ e \in batch[fd]
    /\ e = "OUT" => "IN" \notin batch[fd]
    /\ \/ /\ e \in slot[fd].events
          /\ CallbackOf(fd)
          /\ batch' = [batch EXCEPT ![fd] = @ \ {e}]
       \/ slot[fd].callback = "recv" /\ RecvCrashes(fd)
       \/ slot[fd].callback = "send" /\ SendKills(fd)

Server == \/ Start \/ StartFails \/ Scan \/ EpollWait
          \/ \E fd \in Fds, e \in Event : Dispatch(fd, e)

-----------------------------------------------------------------------------
(* Time, the clients and the network.                                      *)

\* Ages are counted up to Timeout only: the scan asks no more of them.
Older(ages) == [fd \in Fds |-> IF ages[fd] < Timeout THEN ages[fd] + 1
                                                     ELSE Timeout]

Tick ==
    /\ pc # "dead"
    /\ <<age, idle>> # <<Older(age), Older(idle)>>
    /\ age' = Older(age)
    /\ idle' = Older(idle)
    /\ UNCHANGED <<pc, slot, checkpos, batch, maps, sock, netVars, reads, replies>>

Connect(c) ==
    /\ state[c] = "new"
    /\ slot[Listener].interest # {}
    /\ Len(backlog) < Backlog
    /\ state' = [state EXCEPT ![c] = "queued"]
    /\ backlog' = Append(backlog, c)
    /\ UNCHANGED <<serverVars, sock, peer, inq, full, history>>

Established(c) == state[c] \in {"queued", "open"}

ClientWrite(c) ==
    /\ Established(c)
    /\ peer[c] = "up"
    /\ reads[c] + inq[c] < MaxChunks
    /\ inq' = [inq EXCEPT ![c] = @ + 1]
    /\ UNCHANGED <<serverVars, sock, state, backlog, peer, full, history>>

ClientFin(c) ==
    /\ Established(c)
    /\ peer[c] = "up"
    /\ peer' = [peer EXCEPT ![c] = "fin"]
    /\ UNCHANGED <<serverVars, sock, state, backlog, inq, full, history>>

ClientReset(c) ==
    /\ Established(c)
    /\ peer[c] \in {"up", "fin"}
    /\ peer' = [peer EXCEPT ![c] = IF @ = "up" THEN "rst" ELSE "finrst"]
    /\ UNCHANGED <<serverVars, sock, state, backlog, inq, full, history>>

ClientRead(c) ==
    /\ full[c]
    /\ state[c] = "open"
    /\ peer[c] \in {"up", "fin"}
    /\ full' = [full EXCEPT ![c] = FALSE]
    /\ UNCHANGED <<serverVars, sock, state, backlog, peer, inq, history>>

Environment ==
    \E c \in Conns : \/ Connect(c) \/ ClientWrite(c) \/ ClientFin(c)
                     \/ ClientReset(c) \/ ClientRead(c)

Next == Server \/ Tick \/ Environment

Spec == Init /\ [][Next]_vars

\* The server's one thread is scheduled and time passes; nothing is asked of
\* the clients.
FairSpec == Spec /\ WF_vars(Server) /\ WF_vars(Tick)

-----------------------------------------------------------------------------
(* Properties.                                                             *)

\* Every variable keeps its type.
TypeOK ==
    /\ pc \in {"start", "scan", "wait", "dead"}
    /\ slot \in [Fds -> Slot]
    /\ age \in [Fds -> 0 .. Timeout]
    /\ checkpos \in 0 .. TableSize - 1
    /\ batch \in [Fds -> SUBSET Event]
    /\ maps \in 0 .. MaxMaps
    /\ sock \in [ClientFds -> Conns \cup {NoConn}]
    /\ state \in [Conns -> {"new", "queued", "open", "closed"}]
    /\ backlog \in Seq(Conns)
    /\ peer \in [Conns -> {"up", "fin", "rst", "finrst"}]
    /\ inq \in [Conns -> Nat]
    /\ full \in [Conns -> BOOLEAN]
    /\ idle \in [Fds -> 0 .. Timeout]
    /\ reads \in [Conns -> Nat]
    /\ replies \in [Conns -> Seq({"page", "stale", "part"})]

\* Table and interest list: an entry the program believes to be registered is
\* registered for exactly the events it names, with the callback that goes
\* with them, and a client's entry is in the table while its socket is open.
DescriptorsRegistered ==
    /\ \A fd \in Fds :
          /\ slot[fd].interest # {} <=> slot[fd].status = 1
          /\ slot[fd].status = 1 =>
                /\ slot[fd].interest = slot[fd].events
                /\ slot[fd].events =
                      IF slot[fd].callback = "send" THEN {"OUT"} ELSE {"IN"}
                /\ slot[fd].callback = "accept" <=> fd = Listener
                /\ slot[fd].callback # "none"
    /\ \A fd \in ClientFds : sock[fd] # NoConn <=> slot[fd].status = 1

\* Descriptors and connections: an open connection has one descriptor.
ConnectionsHeld ==
    /\ \A fd, other \in ClientFds :
          sock[fd] # NoConn /\ sock[fd] = sock[other] => fd = other
    /\ \A c \in Conns : state[c] = "open" <=> \E fd \in ClientFds : sock[fd] = c

\* "status" says whether the descriptor is in the reactor (reactor.h:24): it
\* agrees with epoll's interest list and with the open descriptors through
\* callbacks, timeouts and the reuse of numbers.
RegistrationAgrees == DescriptorsRegistered /\ ConnectionsHeld

\* A harvested event still holds when its turn comes: the scan closes
\* descriptors only when no harvested event is waiting, and a callback closes
\* only its own.
BatchFresh ==
    \A fd \in Fds : batch[fd] # {} =>
        /\ batch[fd] = Ready(fd)
        /\ batch[fd] = slot[fd].events

\* Every chunk read is answered once, in turn: a connection owes one reply
\* while it waits for EPOLLOUT, and none otherwise.
OneReplyPerRead ==
    \A fd \in ClientFds : sock[fd] # NoConn =>
        reads[sock[fd]] = Len(replies[sock[fd]]) +
                          (IF slot[fd].callback = "send" THEN 1 ELSE 0)

ScanCloses(fd) == pc = "scan" /\ pc' = "wait" /\
                  slot[fd].status = 1 /\ slot'[fd].status = 0

\* The scan takes a connection away only when no callback ran on it for
\* Timeout seconds.
OnlyIdleClientsTimeOut ==
    [][\A fd \in ClientFds : ScanCloses(fd) => idle[fd] >= Timeout]_vars

\* The same of every descriptor: last_active is "the time the fd was last
\* active" (reactor.h:26), the listener's too.
OnlyIdleTimeOut ==
    [][\A fd \in Fds : ScanCloses(fd) => idle[fd] >= Timeout]_vars

\* What the safety properties need to be inductive: who waits in the queue
\* waits once and has been given nothing, an entry waiting for EPOLLOUT has a
\* reply, and a client's last_active is when its last callback ran.
QueueHeld ==
    /\ \A i \in 1 .. Len(backlog) : state[backlog[i]] = "queued"
    /\ \A i, j \in 1 .. Len(backlog) : backlog[i] = backlog[j] => i = j

QueuedUntouched ==
    \A c \in Conns : state[c] \in {"new", "queued"} =>
        reads[c] = 0 /\ replies[c] = << >>

RepliesHeld ==
    \A fd \in ClientFds : slot[fd].status = 1 /\ slot[fd].callback = "send" =>
        slot[fd].reply # "none"

AgesAgree == \A fd \in ClientFds : age[fd] = idle[fd]

IInv == /\ TypeOK
        /\ RegistrationAgrees
        /\ QueueHeld
        /\ BatchFresh
        /\ QueuedUntouched
        /\ OneReplyPerRead
        /\ RepliesHeld
        /\ AgesAgree

\* The server implements the reply service: a connection is read one chunk at a time,
\* each is answered whole before the next, and it is closed only when its client
\* ended it with nothing left to answer or reset it, or after Timeout of quiet; the
\* listening socket, after Timeout whatever happened.  Who waits in the queue is
\* still new to it.
ListenerState == CASE pc = "start" -> "new"
                   [] pc # "start" /\ slot[Listener].status = 1 -> "open"
                   [] OTHER -> "closed"

Accepting == [c \in Conns |-> IF state[c] = "queued" THEN "new" ELSE state[c]]

Written == [c \in Conns |-> reads[c] + inq[c]]

QuietTime == [c \in Conns |-> IF state[c] = "open"
                              THEN idle[CHOOSE fd \in ClientFds : sock[fd] = c] ELSE 0]

Service == INSTANCE ReplyService WITH
    listener <- ListenerState, listening <- age[Listener], pages <- maps,
    state <- Accepting, written <- Written, taken <- reads, quiet <- QuietTime,
    Descriptors <- Cardinality(ClientFds), Pages <- MaxMaps, Short <- MemoryPressure

ImplementsReply == Service!ReplySpec

\* What the step simulation needs besides: before the listener is registered nothing
\* is, and an entry holds no reply but the one that PageExists makes.
NothingBeforeStart == pc = "start" => \A fd \in Fds : slot[fd].status = 0

RepliesMade == \A fd \in Fds : slot[fd].reply \in {"none", Service!Reply}

ServiceInv == NothingBeforeStart /\ RepliesMade

\* A client that stops writing or reading, or leaves without a word, does not
\* keep its descriptor: the scan comes round to every entry of the table.
OpenIsReleased ==
    \A c \in Conns : state[c] = "open" ~> state[c] = "closed"

=============================================================================
