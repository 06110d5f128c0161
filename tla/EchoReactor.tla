----------------------------- MODULE EchoReactor -----------------------------
(***************************************************************************)
(* src/src/c1000k/reactor.c: a single-threaded echo server over one        *)
(* level-triggered epoll instance, one hundred listening ports and a table *)
(* of struct gevent indexed by descriptor.                                 *)
(*                                                                         *)
(* One loop iteration is EpollWait, which harvests every ready descriptor, *)
(* followed by one Dispatch per harvested event; clients, the network and  *)
(* the peers' kernels move between any two of these steps.  A callback is  *)
(* one step: it makes one system call whose result depends on the outside  *)
(* (accept, recv or send) and nothing else can change the server's state.  *)
(***************************************************************************)
EXTENDS GEvent, Naturals, Sequences, FiniteSets

CONSTANTS
    Listeners,     \* descriptors of the listening sockets (LISTEN_PORT_COUNT)
    ClientFds,     \* descriptors accept() may return (RLIMIT_NOFILE)
    Conns,         \* the connections clients make
    NoConn,        \* what a descriptor that is not open refers to
    BufferLength,  \* BUFFER_LENGTH
    ByteBase,      \* values of the low byte of an int: 256 in the build
    Backlog,       \* second argument of listen()
    MaxEpollItem,  \* MAX_EPOLL_ITEM, third argument of epoll_wait()
    MaxBytes,      \* bound: bytes a client writes
    MemoryPressure, \* TRUE when the kernel may run out of memory for sockets
    BindMayFail    \* TRUE when another process may own one of the ports

Fds == Listeners \cup ClientFds

\* BUFFER_LENGTH is 512: the terminator recv_callback stores behind a full
\* buffer falls on the low byte of gevent.length, which is zero already.
ASSUME ReactorAssumption ==
    /\ Listeners \subseteq Nat /\ IsFiniteSet(Listeners)
    /\ ClientFds \subseteq Nat
    /\ Listeners \cap ClientFds = {}
    /\ NoConn \notin Conns
    /\ BufferLength \in Nat \ {0} /\ ByteBase \in Nat \ {0}
    /\ BufferLength % ByteBase = 0
    /\ Backlog \in Nat /\ MaxEpollItem \in Nat \ {0} /\ MaxBytes \in Nat
    /\ MemoryPressure \in BOOLEAN /\ BindMayFail \in BOOLEAN

VARIABLES
    pc,      \* "setup", "run", or "dead" once a signal has ended the process
    slot,    \* slot[fd]: greactor.events[fd] with epoll's interest in fd
    batch,   \* batch[fd]: harvested and not yet dispatched events of fd
    bound,   \* bound[l]: l listens on its own port
    sock,    \* sock[fd]: the connection descriptor fd refers to
    state,   \* state[c]: "new", "queued", "open" or "closed"
    backlog, \* backlog[l]: l's queue of established connections
    peer,    \* peer[c]: "up", "fin", "rst" or "finrst" (a reset after a FIN)
    inq,     \* inq[c]: bytes in the socket's receive queue
    full,    \* full[c]: the socket's send buffer has no room
    got,     \* got[c]: history of the bytes recv() returned
    out      \* out[c]: history of the bytes send() accepted

serverVars == <<pc, slot, batch, bound>>
netVars    == <<state, backlog, peer, inq, full>>
history    == <<got, out>>
vars       == <<serverVars, sock, netVars, history>>

Byte == Conns \X (Nat \ {0})    \* the n-th byte client c writes is <<c, n>>

\* greactor_init: the table is malloc'ed, not cleared; at this size malloc
\* maps fresh pages, so every entry starts as zeros.
FreshSlot == [callback |-> "none", events |-> {}, status |-> 0,
              interest |-> {}, buffer |-> << >>, length |-> 0]

Slot == [callback : Callback, events : SUBSET Event, status : {0, 1},
         interest : SUBSET Event, buffer : Seq(Byte), length : Nat]

Init ==
    /\ pc = "setup"
    /\ slot = [fd \in Fds |-> FreshSlot]
    /\ batch = [fd \in Fds |-> {}]
    /\ bound = [l \in Listeners |-> FALSE]
    /\ sock = [fd \in ClientFds |-> NoConn]
    /\ state = [c \in Conns |-> "new"]
    /\ backlog = [l \in Listeners |-> << >>]
    /\ peer = [c \in Conns |-> "up"]
    /\ inq = [c \in Conns |-> << >>]
    /\ full = [c \in Conns |-> FALSE]
    /\ got = [c \in Conns |-> << >>]
    /\ out = [c \in Conns |-> << >>]

-----------------------------------------------------------------------------
(* The kernel as the server sees it.                                       *)

Lowest(S) == CHOOSE fd \in S : \A other \in S : fd <= other

FreeFds == {fd \in ClientFds : sock[fd] = NoConn}

Readable(fd) ==
    IF fd \in Listeners
    THEN backlog[fd] # << >>
    ELSE /\ sock[fd] # NoConn
         /\ inq[sock[fd]] # << >> \/ peer[sock[fd]] # "up"

\* A reset socket is writable: send() will not block, it will fail.
Writable(fd) ==
    /\ fd \in ClientFds /\ sock[fd] # NoConn
    /\ ~full[sock[fd]] \/ peer[sock[fd]] \in {"rst", "finrst"}

Ready(fd) == {e \in slot[fd].interest : IF e = "IN" THEN Readable(fd)
                                                    ELSE Writable(fd)}

-----------------------------------------------------------------------------
(* Start-up.                                                               *)

\* init_sock and greactor_addlistener for the next port.  bind() is not
\* checked: if it fails, listen() succeeds on a port the kernel picks and the
\* socket is registered all the same, with nobody knowing how to reach it.
AddListener ==
    LET pending == {l \in Listeners : slot[l].status = 0}
    IN  /\ pc = "setup"
        /\ pending # {}
        /\ LET l == Lowest(pending)
           IN  /\ slot' = [slot EXCEPT
                     ![l] = GeventAdd(GeventSet(@, "accept"), {"IN"})]
               /\ \E ok \in IF BindMayFail THEN BOOLEAN ELSE {TRUE} :
                     bound' = [bound EXCEPT ![l] = ok]
        /\ UNCHANGED <<pc, batch, sock, netVars, history>>

EnterLoop ==
    /\ pc = "setup"
    /\ \A l \in Listeners : slot[l].status = 1
    /\ pc' = "run"
    /\ UNCHANGED <<slot, batch, bound, sock, netVars, history>>

-----------------------------------------------------------------------------
(* The event loop, greactor_run.                                           *)

\* epoll_wait: a timeout, or a failure, leaves everything as it was and the
\* loop calls it again, so only the calls that return events are steps.  It
\* returns every ready descriptor, or some MaxEpollItem of them.
EpollWait ==
    LET ready == {fd \in Fds : Ready(fd) # {}} IN
    /\ pc = "run"
    /\ \A fd \in Fds : batch[fd] = {}
    /\ \E S \in SUBSET ready \ {{}} :
          /\ S = ready \/ Cardinality(S) = MaxEpollItem
          /\ Cardinality(S) <= MaxEpollItem
          /\ batch' = [fd \in Fds |-> IF fd \in S THEN Ready(fd) ELSE {}]
    /\ UNCHANGED <<pc, slot, bound, sock, netVars, history>>

AcceptConnection(fd) ==
    /\ FreeFds # {}
    /\ backlog[fd] # << >>
    /\ LET clientfd == Lowest(FreeFds)
           c == Head(backlog[fd])
       IN  /\ sock' = [sock EXCEPT ![clientfd] = c]
           /\ state' = [state EXCEPT ![c] = "open"]
           /\ slot' = [slot EXCEPT
                 ![clientfd] = GeventAdd(GeventSet(@, "recv"), {"IN"})]
    /\ backlog' = [backlog EXCEPT ![fd] = Tail(@)]
    /\ UNCHANGED <<pc, bound, peer, inq, full, history>>

\* EMFILE: the error is printed and the connection stays in the queue.
AcceptFailsUnregisters(fd) ==
    /\ FreeFds = {}
    /\ slot' = [slot EXCEPT ![fd] = GeventDel(@)]
    /\ UNCHANGED <<pc, bound, sock, netVars, history>>
AcceptFailsEvicts(fd) ==    \* closes another connection to make room
    /\ FreeFds = {}
    /\ \E other \in ClientFds :
          /\ slot' = [slot EXCEPT ![other] = CloseDescriptor(GeventDel(@))]
          /\ sock' = [sock EXCEPT ![other] = NoConn]
          /\ state' = [state EXCEPT ![sock[other]] = "closed"]
    /\ UNCHANGED <<pc, bound, backlog, peer, inq, full, history>>
AcceptFails(fd) ==
    /\ FreeFds = {}
    /\ UNCHANGED <<pc, slot, bound, sock, netVars, history>>

\* buffer[len] = '\0' for a full buffer writes the low byte of length.
TerminatedClears(len) == IF len = BufferLength THEN 0 ELSE len
TerminatedSpace(len) == len - BufferLength
Terminated(len) == IF len = BufferLength THEN len - (len % ByteBase) ELSE len

RecvData(fd) ==
    LET c == sock[fd]
        len == IF Len(inq[c]) < BufferLength THEN Len(inq[c]) ELSE BufferLength
        data == SubSeq(inq[c], 1, len)
        received == [slot[fd] EXCEPT !.buffer = data,
                                     !.length = Terminated(len)]
    IN  /\ inq[c] # << >>
        /\ inq' = [inq EXCEPT ![c] = SubSeq(@, len + 1, Len(@))]
        /\ got' = [got EXCEPT ![c] = @ \o data]
        /\ slot' = [slot EXCEPT ![fd] = ReArm(received, "send", {"OUT"})]
        /\ UNCHANGED <<pc, bound, sock, state, backlog, peer, full, out>>

\* recv returned 0 or -1: the two branches do the same.
RecvEndLeaks(fd) ==
    /\ inq[sock[fd]] = << >>
    /\ slot' = [slot EXCEPT ![fd] = GeventDel(@)]
    /\ UNCHANGED <<pc, bound, sock, netVars, history>>
RecvEnd(fd) ==
    /\ inq[sock[fd]] = << >>
    /\ slot' = [slot EXCEPT ![fd] = CloseDescriptor(GeventDel(@))]
    /\ sock' = [sock EXCEPT ![fd] = NoConn]
    /\ state' = [state EXCEPT ![sock[fd]] = "closed"]
    /\ UNCHANGED <<pc, bound, backlog, peer, inq, full, history>>

\* How many of len bytes send() accepts on a socket epoll found writable: a
\* third of its send buffer is free, so all of them, unless the kernel has no
\* memory to put them in.
Accepted(len) == IF MemoryPressure THEN 1 .. len ELSE {len}

SendData(fd) ==
    LET c == sock[fd]
    IN  /\ peer[c] \in {"up", "fin"}
        /\ \E len \in Accepted(slot[fd].length) :
              out' = [out EXCEPT ![c] = @ \o SubSeq(slot[fd].buffer, 1, len)]
        /\ \E noRoom \in BOOLEAN : full' = [full EXCEPT ![c] = noRoom]
        /\ slot' = [slot EXCEPT ![fd] = ReArm(@, "recv", {"IN"})]
        /\ UNCHANGED <<pc, bound, sock, state, backlog, peer, inq, got>>

\* ECONNRESET or EAGAIN: closed first, then taken out of epoll.
SendFails(fd) ==
    /\ \/ peer[sock[fd]] = "rst"
       \/ MemoryPressure /\ peer[sock[fd]] # "finrst"
    /\ slot' = [slot EXCEPT ![fd] = GeventDel(CloseDescriptor(@))]
    /\ sock' = [sock EXCEPT ![fd] = NoConn]
    /\ state' = [state EXCEPT ![sock[fd]] = "closed"]
    /\ UNCHANGED <<pc, bound, backlog, peer, inq, full, history>>

\* EPIPE, and the program never ignored SIGPIPE, whose default action ends
\* it: the kernel closes every socket and resets the queued connections.
SendKills(fd) ==
    /\ peer[sock[fd]] = "finrst"
    /\ pc' = "dead"
    /\ slot' = [f \in Fds |-> FreshSlot]
    /\ sock' = [f \in ClientFds |-> NoConn]
    /\ state' = [c \in Conns |-> "closed"]
    /\ backlog' = [l \in Listeners |-> << >>]
    /\ bound' = [l \in Listeners |-> FALSE]
    /\ UNCHANGED <<peer, inq, full, history>>

CallbackOf(fd) ==
    \/ /\ slot[fd].callback = "accept"
       /\ AcceptConnection(fd) \/ AcceptFails(fd)
    \/ /\ slot[fd].callback = "recv"
       /\ RecvData(fd) \/ RecvEnd(fd)
    \/ /\ slot[fd].callback = "send"
       /\ SendData(fd) \/ SendFails(fd) \/ SendKills(fd)

\* The two tests of the loop body, EPOLLIN before EPOLLOUT; an event the
\* entry no longer asks for is skipped.
Dispatch(fd, e) ==
    /\ pc = "run"
    /\ e \in batch[fd]
    /\ e = "OUT" => "IN" \notin batch[fd]
    /\ IF e \in slot[fd].events
       THEN CallbackOf(fd)
       ELSE UNCHANGED <<pc, slot, bound, sock, netVars, history>>
    /\ batch' = IF pc' = "dead" THEN [f \in Fds |-> {}]
                ELSE [batch EXCEPT ![fd] = @ \ {e}]

Server == \/ AddListener \/ EnterLoop \/ EpollWait
          \/ \E fd \in Fds, e \in Event : Dispatch(fd, e)

-----------------------------------------------------------------------------
(* The clients and the network.                                            *)

Connect(c, l) ==
    /\ state[c] = "new"
    /\ bound[l]
    /\ Len(backlog[l]) < Backlog
    /\ state' = [state EXCEPT ![c] = "queued"]
    /\ backlog' = [backlog EXCEPT ![l] = Append(@, c)]
    /\ UNCHANGED <<serverVars, sock, peer, inq, full, history>>

Established(c) == state[c] \in {"queued", "open"}

ClientWrite(c) ==
    LET written == Len(got[c]) + Len(inq[c]) IN
    /\ Established(c)
    /\ peer[c] = "up"
    /\ written < MaxBytes
    /\ inq' = [inq EXCEPT ![c] = Append(@, <<c, written + 1>>)]
    /\ UNCHANGED <<serverVars, sock, state, backlog, peer, full, history>>

ClientFin(c) ==
    /\ Established(c)
    /\ peer[c] = "up"
    /\ peer' = [peer EXCEPT ![c] = "fin"]
    /\ UNCHANGED <<serverVars, sock, state, backlog, inq, full, history>>

\* A client that is gone answers with a reset; after a FIN the socket's
\* pending error is EPIPE instead of ECONNRESET.
ClientReset(c) ==
    /\ Established(c)
    /\ peer[c] \in {"up", "fin"}
    /\ peer' = [peer EXCEPT ![c] = IF @ = "up" THEN "rst" ELSE "finrst"]
    /\ UNCHANGED <<serverVars, sock, state, backlog, inq, full, history>>

\* The client reads what it was sent and the send buffer has room again.
ClientRead(c) ==
    /\ full[c]
    /\ state[c] = "open"
    /\ peer[c] \in {"up", "fin"}
    /\ full' = [full EXCEPT ![c] = FALSE]
    /\ UNCHANGED <<serverVars, sock, state, backlog, peer, inq, history>>

Environment ==
    \E c \in Conns : \/ \E l \in Listeners : Connect(c, l)
                     \/ ClientWrite(c) \/ ClientFin(c)
                     \/ ClientReset(c) \/ ClientRead(c)

Next == Server \/ Environment

Spec == Init /\ [][Next]_vars

\* The server's one thread is scheduled; a client reads what it is sent.
Fairness == WF_vars(Server) /\ \A c \in Conns : WF_vars(ClientRead(c))

FairSpec == Spec /\ Fairness

-----------------------------------------------------------------------------
(* Properties.                                                             *)

\* Every variable keeps its type: the table, epoll's view of it, the sockets.
TypeOK ==
    /\ pc \in {"setup", "run", "dead"}
    /\ slot \in [Fds -> Slot]
    /\ batch \in [Fds -> SUBSET Event]
    /\ bound \in [Listeners -> BOOLEAN]
    /\ sock \in [ClientFds -> Conns \cup {NoConn}]
    /\ state \in [Conns -> {"new", "queued", "open", "closed"}]
    /\ backlog \in [Listeners -> Seq(Conns)]
    /\ peer \in [Conns -> {"up", "fin", "rst", "finrst"}]
    /\ inq \in [Conns -> Seq(Byte)]
    /\ full \in [Conns -> BOOLEAN]
    /\ got \in [Conns -> Seq(Byte)]
    /\ out \in [Conns -> Seq(Byte)]

DescriptorsRegistered ==
    /\ \A fd \in Fds :
          /\ slot[fd].interest # {} <=> slot[fd].status = 1
          /\ slot[fd].status = 1 =>
                /\ slot[fd].interest = slot[fd].events
                /\ slot[fd].events =
                      IF slot[fd].callback = "send" THEN {"OUT"} ELSE {"IN"}
                /\ slot[fd].callback = "accept" <=> fd \in Listeners
                /\ slot[fd].callback # "none"
    /\ \A fd \in ClientFds : sock[fd] # NoConn <=> slot[fd].status = 1

ConnectionsHeld ==
    /\ \A fd, other \in ClientFds :
          sock[fd] # NoConn /\ sock[fd] = sock[other] => fd = other
    /\ \A c \in Conns :
          state[c] = "open" <=> \E fd \in ClientFds : sock[fd] = c

\* What the program believes of a descriptor and what epoll knows of it are
\* the same after every callback, whichever order it called close() and
\* gevent_del() in, and across the reuse of the descriptor's number: a
\* descriptor is registered exactly while it is open, for the event its
\* callback handles, and a connection is open exactly while one registered
\* descriptor refers to it.  No epoll_ctl result is ever checked.
RegistrationAgrees == DescriptorsRegistered /\ ConnectionsHeld

\* A harvested event is still wanted and still true when its turn comes: the
\* callbacks that run before it in the batch close and reopen only their own
\* descriptors, so no event meets a descriptor number that meanwhile belongs
\* to another connection, no callback runs twice for one wake-up, and recv()
\* and send() never find nothing to do.
BatchFresh ==
    \A fd \in Fds : batch[fd] # {} =>
        /\ batch[fd] = Ready(fd)
        /\ batch[fd] = slot[fd].events

\* Nothing a client wrote is lost, repeated or reordered between recv() and
\* send(): an entry waiting for EPOLLIN owes nothing, an entry waiting for
\* EPOLLOUT holds exactly what has been received and not yet sent.
EchoExact ==
    \A fd \in ClientFds : sock[fd] # NoConn =>
        LET c == sock[fd]
        IN  got[c] = IF slot[fd].callback = "send"
                     THEN out[c] \o SubSeq(slot[fd].buffer, 1, slot[fd].length)
                     ELSE out[c]

\* What the proofs add to the invariants above: a connection waits in at most
\* one queue, once, and is untouched until it is accepted; an entry waiting
\* for EPOLLOUT has a buffer of the length it records.
QueuesHeld ==
    /\ \A l \in Listeners : \A i \in 1 .. Len(backlog[l]) :
          state[backlog[l][i]] = "queued"
    /\ \A l, m \in Listeners :
          \A i \in 1 .. Len(backlog[l]), j \in 1 .. Len(backlog[m]) :
             backlog[l][i] = backlog[m][j] => l = m /\ i = j

QueuedUntouched ==
    \A c \in Conns : state[c] \in {"new", "queued"} =>
        got[c] = << >> /\ out[c] = << >>

BuffersHeld ==
    \A fd \in ClientFds : slot[fd].callback = "send" =>
        slot[fd].buffer # << >> /\ slot[fd].length = Len(slot[fd].buffer)

IInv == /\ TypeOK
        /\ RegistrationAgrees
        /\ QueuesHeld
        /\ BatchFresh
        /\ BuffersHeld

EchoInv == QueuedUntouched /\ EchoExact

\* The reactor implements the echo service: an accepted connection is served
\* on its own, echoed byte for byte, and closed by the server only after a
\* reset or, after an orderly end, with everything echoed.
Accepting == [c \in Conns |-> IF state[c] = "queued" THEN "new" ELSE state[c]]

Sent == [c \in Conns |-> got[c] \o inq[c]]

Service == INSTANCE EchoService WITH state <- Accepting, sent <- Sent

ImplementsEcho == Service!EchoSpec

\* A queued connection is accepted if descriptors keep becoming free: EMFILE
\* leaves it in the queue and the level-triggered listener is tried again.
QueuedIsAccepted ==
    []<>(FreeFds # {}) =>
        \A c \in Conns : state[c] = "queued" ~> state[c] # "queued"

\* What a client has written is echoed, or the connection is closed.
WrittenIsEchoed ==
    \A c \in Conns, n \in 1 .. MaxBytes :
        (state[c] = "open" /\ Len(got[c]) + Len(inq[c]) >= n)
            ~> (Len(out[c]) >= n \/ state[c] = "closed")

\* A client that ends its connection, in either way, gives its descriptor back.
EndedIsReleased ==
    \A c \in Conns :
        (state[c] = "open" /\ peer[c] # "up") ~> state[c] = "closed"

=============================================================================
