------------------------------ MODULE EpollHttp ------------------------------
(***************************************************************************)
(* src/src/select_poll_epoll/server_epoll_lt.cxx and server_epoll_et.cxx:  *)
(* a keep-alive HTTP server that answers every request with one long       *)
(* response, over level-triggered epoll, which registers EPOLLOUT only     *)
(* while a response is pending, or over edge-triggered epoll, which        *)
(* registers both events once.  The two programs share all but             *)
(* registration, send_res and what epoll reports, so EdgeTriggered says    *)
(* which of them is meant.                                                 *)
(*                                                                         *)
(* A request is one or more pieces, whatever the network delivers          *)
(* together, and its last piece ends with the empty line.  handle_read     *)
(* loops over read(): each read() is a step, with the send_res it leads    *)
(* to, because more of a request may arrive before the next one.           *)
(***************************************************************************)
EXTENDS Naturals, Sequences, FiniteSets

CONSTANTS
    EdgeTriggered,  \* TRUE for server_epoll_et, FALSE for server_epoll_lt
    Listener,       \* listenfd
    ClientFds,      \* descriptors accept() may return
    NoFd,           \* no descriptor
    Conns, NoConn,
    Backlog,        \* second argument of listen()
    MaxEvents,      \* k_max_events
    ResponseLength, \* http_res.length(), in units of any size
    SendBuffer,     \* units a socket's send buffer holds
    LowWater,       \* epoll reports EPOLLOUT with at most so many in it
    Pipeliners,     \* the clients that ask again before they have a response
    MaxPieces,      \* bound: pieces of a request
    MaxRequests     \* bound: requests of a client

Fds == {Listener} \cup ClientFds

ASSUME EpollAssumption ==
    /\ EdgeTriggered \in BOOLEAN /\ Pipeliners \subseteq Conns
    /\ ClientFds \subseteq Nat /\ IsFiniteSet(ClientFds)
    /\ Listener \in Nat \ ClientFds
    /\ NoFd \notin Fds /\ NoConn \notin Conns
    /\ Backlog \in Nat /\ MaxEvents \in Nat \ {0}
    /\ ResponseLength \in Nat \ {0} /\ SendBuffer \in Nat \ {0}
    /\ LowWater \in 0 .. SendBuffer - 1
    /\ MaxPieces \in Nat \ {0} /\ MaxRequests \in Nat

VARIABLES
    pc,       \* "run", or "dead" once exit_if ended the process
    cons,     \* cons[fd]: the entry of the map, NewCon where it has none
    interest, \* interest[fd]: events epoll has registered, {} for none
    edge,     \* edge[fd]: on epoll's ready list, when edge-triggered
    batch,    \* batch[fd]: harvested and not yet handled events of fd
    reading,  \* the descriptor handle_read is in the middle of, or NoFd
    sock,     \* sock[fd]: the connection a client descriptor refers to
    state,    \* state[c]: "new", "queued", "open" or "closed"
    backlog,  \* the listener's queue of established connections
    peer,     \* peer[c]: "up", "fin" or "rst"
    inq,      \* inq[c]: pieces in the socket's receive queue
    unread,   \* unread[c]: units in the send buffer
    noSpace,  \* noSpace[c]: write() failed for want of room in it
    pieces,   \* pieces[c]: pieces written of the request being written
    asked,    \* asked[c]: history, complete requests written
    taken,    \* taken[c]: history, complete requests read
    sent      \* sent[c]: history, units of responses written

serverVars == <<pc, cons, interest, batch, reading>>
netVars    == <<state, backlog, peer, inq, unread, noSpace>>
history    == <<pieces, asked, taken, sent>>
vars       == <<serverVars, edge, sock, netVars, history>>

Piece == {"part", "end"}

\* readed is what the test of handle_read asks of the string: whether it is
\* empty and, if not, whether it ends with an empty line.
Con == [readed : {"none"} \cup Piece, written : 0 .. ResponseLength - 1,
        writeEnabled : BOOLEAN]

NewCon == [readed |-> "none", written |-> 0, writeEnabled |-> FALSE]

Init ==
    /\ pc = "run"
    /\ cons = [fd \in ClientFds |-> NewCon]
    /\ interest = [fd \in Fds |-> IF fd = Listener THEN {"IN"} ELSE {}]
    /\ edge = [fd \in ClientFds |-> FALSE]
    /\ batch = [fd \in Fds |-> {}]
    /\ reading = NoFd
    /\ sock = [fd \in ClientFds |-> NoConn]
    /\ state = [c \in Conns |-> "new"]
    /\ backlog = << >>
    /\ peer = [c \in Conns |-> "up"]
    /\ inq = [c \in Conns |-> << >>]
    /\ unread = [c \in Conns |-> 0]
    /\ noSpace = [c \in Conns |-> FALSE]
    /\ pieces = [c \in Conns |-> 0]
    /\ asked = [c \in Conns |-> 0]
    /\ taken = [c \in Conns |-> 0]
    /\ sent = [c \in Conns |-> 0]

-----------------------------------------------------------------------------
(* The kernel as the server sees it.                                       *)

Lowest(S) == CHOOSE fd \in S : \A other \in S : fd <= other

FreeFds == {fd \in ClientFds : sock[fd] = NoConn}

Readable(fd) ==
    IF fd = Listener
    THEN backlog # << >>
    ELSE inq[sock[fd]] # << >> \/ peer[sock[fd]] # "up"

Writable(fd) ==
    fd # Listener /\ (unread[sock[fd]] <= LowWater \/ peer[sock[fd]] = "rst")

Ready(fd) == {e \in interest[fd] : IF e = "IN" THEN Readable(fd)
                                                ELSE Writable(fd)}

\* Edge-triggered, a descriptor is reported only after something happened to
\* it, and then with all that holds of it; the listener is level-triggered.
Reported(fd) ==
    IF EdgeTriggered /\ fd # Listener /\ ~edge[fd] THEN {} ELSE Ready(fd)

\* Something happened to connection c.
Wakes(c) ==
    edge' = [fd \in ClientFds |->
                edge[fd] \/ (EdgeTriggered /\ sock[fd] = c)]

-----------------------------------------------------------------------------
(* The program.                                                            *)

\* Asking a socket without room whether it is writable leaves a mark on it, as
\* a failed write() does: EPOLLOUT will be reported when there is room again.
EpollWait ==
    LET ready == {fd \in Fds : Reported(fd) # {}} IN
    /\ pc = "run" /\ reading = NoFd
    /\ \A fd \in Fds : batch[fd] = {}
    /\ \E S \in SUBSET ready :
          /\ S = ready \/ Cardinality(S) = MaxEvents
          /\ Cardinality(S) <= MaxEvents
          /\ batch' = [fd \in Fds |-> IF fd \in S THEN Ready(fd) ELSE {}]
          /\ edge' = [fd \in ClientFds |-> edge[fd] /\ fd \in ready \ S]
          /\ noSpace' = [c \in Conns |->
                noSpace[c] \/ \E fd \in ClientFds :
                   edge[fd] /\ ~edge'[fd] /\ sock[fd] = c /\ ~Writable(fd)]
    /\ <<batch', edge'>> # <<batch, edge>>
    /\ UNCHANGED <<pc, cons, interest, reading, sock, state, backlog, peer, inq,
                   unread, history>>

Handled(fd) == batch' = [batch EXCEPT ![fd] = {}]

RegisteredRead == {"IN"}
Registered == IF EdgeTriggered THEN {"IN", "OUT"} ELSE {"IN"}

HandleAccept ==
    LET cfd == Lowest(FreeFds)
        c == Head(backlog)
    IN  /\ "IN" \in batch[Listener] /\ reading = NoFd
        /\ FreeFds # {} /\ peer[c] # "rst"
        /\ sock' = [sock EXCEPT ![cfd] = c]
        /\ state' = [state EXCEPT ![c] = "open"]
        /\ backlog' = Tail(backlog)
        /\ interest' = [interest EXCEPT ![cfd] = Registered]
        /\ edge' = [edge EXCEPT ![cfd] = EdgeTriggered]
        /\ Handled(Listener)
        /\ UNCHANGED <<pc, cons, reading, peer, inq, unread, noSpace, history>>

\* exit_if: accept() fails with EMFILE, or getpeername() with ENOTCONN because
\* the client has reset the connection.
AcceptExits ==
    /\ "IN" \in batch[Listener] /\ reading = NoFd
    /\ FreeFds = {} \/ peer[Head(backlog)] = "rst"
    /\ pc' = "dead"
    /\ cons' = [fd \in ClientFds |-> NewCon]
    /\ interest' = [fd \in Fds |-> {}]
    /\ edge' = [fd \in ClientFds |-> FALSE]
    /\ batch' = [fd \in Fds |-> {}]
    /\ sock' = [fd \in ClientFds |-> NoConn]
    /\ state' = [c \in Conns |-> "closed"]
    /\ backlog' = << >>
    /\ UNCHANGED <<reading, peer, inq, unread, noSpace, history>>

\* close(fd), which takes it out of epoll, and cons.erase(fd).
CloseKeepsCon(fd) ==
    /\ sock' = [sock EXCEPT ![fd] = NoConn]
    /\ state' = [state EXCEPT ![sock[fd]] = "closed"]
    /\ interest' = [interest EXCEPT ![fd] = {}]
    /\ edge' = [edge EXCEPT ![fd] = FALSE]
    /\ UNCHANGED cons
Close(fd) ==
    /\ sock' = [sock EXCEPT ![fd] = NoConn]
    /\ state' = [state EXCEPT ![sock[fd]] = "closed"]
    /\ interest' = [interest EXCEPT ![fd] = {}]
    /\ edge' = [edge EXCEPT ![fd] = FALSE]
    /\ cons' = [cons EXCEPT ![fd] = NewCon]

\* The loop over write(): n units go into the send buffer.
Writes(fd, n) ==
    /\ peer[sock[fd]] # "rst"
    /\ sent' = [sent EXCEPT ![sock[fd]] = @ + n]
    /\ unread' = [unread EXCEPT ![sock[fd]] = @ + n]
    /\ UNCHANGED <<edge, sock, state>>

\* All that was left fits: EPOLLOUT is not needed any more.
SendsAllStillArmed(fd, con) ==
    LET left == ResponseLength - con.written
    IN  /\ left <= SendBuffer - unread[sock[fd]]
        /\ Writes(fd, left)
        /\ cons' = [cons EXCEPT ![fd] = NewCon]
        /\ UNCHANGED <<interest, noSpace>>
SendsAllKeepsCon(fd, con) ==
    LET left == ResponseLength - con.written
    IN  /\ left <= SendBuffer - unread[sock[fd]]
        /\ Writes(fd, left)
        /\ cons' = [cons EXCEPT ![fd].written = ResponseLength]
        /\ interest' = [interest EXCEPT ![fd] =
                           IF con.writeEnabled THEN {"IN"} ELSE @]
        /\ UNCHANGED noSpace
SendsAll(fd, con) ==
    LET left == ResponseLength - con.written
    IN  /\ left <= SendBuffer - unread[sock[fd]]
        /\ Writes(fd, left)
        /\ cons' = [cons EXCEPT ![fd] = NewCon]
        /\ interest' = [interest EXCEPT ![fd] =
                           IF con.writeEnabled THEN {"IN"} ELSE @]
        /\ UNCHANGED noSpace

\* EAGAIN: the rest waits for EPOLLOUT.
SendsSomeUnarmed(fd, con) ==
    LET room == SendBuffer - unread[sock[fd]]
    IN  /\ room < ResponseLength - con.written
        /\ Writes(fd, room)
        /\ cons' = [cons EXCEPT ![fd] = [con EXCEPT !.written = @ + room]]
        /\ noSpace' = [noSpace EXCEPT ![sock[fd]] = EdgeTriggered]
        /\ UNCHANGED interest
SendsSome(fd, con) ==
    LET room == SendBuffer - unread[sock[fd]]
    IN  /\ room < ResponseLength - con.written
        /\ Writes(fd, room)
        /\ cons' = [cons EXCEPT ![fd] =
              [con EXCEPT !.written = @ + room,
                          !.writeEnabled = ~EdgeTriggered]]
        /\ interest' = [interest EXCEPT ![fd] =
                           IF EdgeTriggered THEN @ ELSE {"IN", "OUT"}]
        /\ noSpace' = [noSpace EXCEPT ![sock[fd]] = EdgeTriggered]

SendFails(fd) ==
    /\ peer[sock[fd]] = "rst"
    /\ Close(fd)
    /\ UNCHANGED <<sent, unread, noSpace>>

SendRes(fd, con) == SendsAll(fd, con) \/ SendsSome(fd, con) \/ SendFails(fd)

\* handle_read comes back to read() after a step that got something.
InHandleRead(fd) ==
    \/ reading = fd
    \/ reading = NoFd /\ "IN" \in batch[fd]

\* The test of handle_read: a complete request has been read.
CompleteAnything(readed) == readed # "none"
Complete(readed) == readed = "end"

\* read() returns what is there or, when that is longer than its buffer, a part
\* of it; a client's pieces are long enough for the test of the length.
ReadData(fd) ==
    LET c == sock[fd] IN
    /\ InHandleRead(fd)
    /\ c # NoConn /\ inq[c] # << >>
    /\ reading' = fd
    /\ Handled(fd)
    /\ \E n \in 1 .. Len(inq[c]) :
          LET con == [cons[fd] EXCEPT !.readed = inq[c][n]]
          IN  /\ inq' = [inq EXCEPT ![c] = SubSeq(@, n + 1, Len(@))]
              /\ taken' = [taken EXCEPT ![c] =
                    @ + Cardinality({i \in 1 .. n : inq[c][i] = "end"})]
              /\ IF Complete(con.readed)
                 THEN SendRes(fd, con)
                 ELSE /\ cons' = [cons EXCEPT ![fd] = con]
                      /\ UNCHANGED <<interest, edge, sock, state, unread,
                                     noSpace, sent>>
    /\ UNCHANGED <<pc, backlog, peer, pieces, asked>>

\* EAGAIN: all has been read.
ReadAgain(fd) ==
    LET c == sock[fd] IN
    /\ InHandleRead(fd)
    /\ c # NoConn /\ inq[c] = << >> /\ peer[c] = "up"
    /\ reading' = NoFd
    /\ Handled(fd)
    /\ UNCHANGED <<pc, cons, interest, edge, sock, netVars, history>>

\* 0 or an error: closed, whatever is left of a response.
ReadEnd(fd) ==
    LET c == sock[fd] IN
    /\ InHandleRead(fd)
    /\ c # NoConn /\ inq[c] = << >> /\ peer[c] # "up"
    /\ Close(fd)
    /\ reading' = NoFd
    /\ Handled(fd)
    /\ UNCHANGED <<pc, backlog, peer, inq, unread, noSpace, history>>

\* send_res closed the descriptor: read() says EBADF and it is closed again.
ReadClosed(fd) ==
    /\ reading = fd /\ sock[fd] = NoConn
    /\ reading' = NoFd
    /\ cons' = [cons EXCEPT ![fd] = NewCon]
    /\ UNCHANGED <<pc, interest, batch, edge, sock, netVars, history>>

\* EPOLLOUT is handled only when EPOLLIN is not reported with it.
HandleWriteAlways(fd) ==
    /\ batch[fd] = {"OUT"} /\ reading = NoFd
    /\ Handled(fd)
    /\ SendRes(fd, cons[fd])
    /\ UNCHANGED <<pc, reading, backlog, peer, inq, pieces, asked, taken>>
HandleWrite(fd) ==
    /\ batch[fd] = {"OUT"} /\ reading = NoFd
    /\ Handled(fd)
    /\ ~EdgeTriggered \/ cons[fd].readed # "none"
    /\ SendRes(fd, cons[fd])
    /\ UNCHANGED <<pc, reading, backlog, peer, inq, pieces, asked, taken>>

\* Edge-triggered, nothing has been read and send_res returns.
NothingToWrite(fd) ==
    /\ batch[fd] = {"OUT"} /\ reading = NoFd
    /\ Handled(fd)
    /\ EdgeTriggered /\ cons[fd].readed = "none"
    /\ UNCHANGED <<pc, cons, interest, reading, edge, sock, netVars, history>>

Server == \/ EpollWait \/ HandleAccept \/ AcceptExits
          \/ \E fd \in ClientFds :
                \/ ReadData(fd) \/ ReadAgain(fd) \/ ReadEnd(fd) \/ ReadClosed(fd)
                \/ HandleWrite(fd) \/ NothingToWrite(fd)

-----------------------------------------------------------------------------
(* The clients and the network.                                            *)

Connect(c) ==
    /\ pc = "run"
    /\ state[c] = "new"
    /\ Len(backlog) < Backlog
    /\ state' = [state EXCEPT ![c] = "queued"]
    /\ backlog' = Append(backlog, c)
    /\ UNCHANGED <<serverVars, edge, sock, peer, inq, unread, noSpace, history>>

Established(c) == state[c] \in {"queued", "open"}

MayAsk(c) ==
    \/ c \in Pipeliners
    \/ sent[c] - unread[c] >= ResponseLength * asked[c]

ClientWrite(c, piece) ==
    /\ Established(c)
    /\ peer[c] = "up"
    /\ asked[c] < MaxRequests
    /\ pieces[c] = 0 => MayAsk(c)
    /\ piece = "part" => pieces[c] + 1 < MaxPieces
    /\ inq' = [inq EXCEPT ![c] = Append(@, piece)]
    /\ pieces' = [pieces EXCEPT ![c] = IF piece = "end" THEN 0 ELSE @ + 1]
    /\ asked' = [asked EXCEPT ![c] = IF piece = "end" THEN @ + 1 ELSE @]
    /\ Wakes(c)
    /\ UNCHANGED <<serverVars, sock, state, backlog, peer, unread, noSpace,
                   taken, sent>>

ClientEnds(c, how) ==
    /\ Established(c)
    /\ peer[c] \in {"up", "fin"} \ {how}
    /\ peer' = [peer EXCEPT ![c] = how]
    /\ Wakes(c)
    /\ UNCHANGED <<serverVars, sock, state, backlog, inq, unread, noSpace, history>>

\* The client reads some of what it was sent; a socket that was out of room
\* becomes writable.
ClientRead(c) ==
    /\ state[c] = "open" /\ peer[c] # "rst"
    /\ \E n \in 0 .. unread[c] - 1 :
          /\ unread' = [unread EXCEPT ![c] = n]
          /\ IF noSpace[c] /\ n <= LowWater
             THEN noSpace' = [noSpace EXCEPT ![c] = FALSE] /\ Wakes(c)
             ELSE UNCHANGED <<noSpace, edge>>
    /\ UNCHANGED <<serverVars, sock, state, backlog, peer, inq, history>>

Environment ==
    \E c \in Conns : \/ Connect(c)
                     \/ \E piece \in Piece : ClientWrite(c, piece)
                     \/ \E how \in {"fin", "rst"} : ClientEnds(c, how)
                     \/ ClientRead(c)

Next == Server \/ Environment

Spec == Init /\ [][Next]_vars

\* The server's one thread is scheduled; a client reads what it is sent.
FairSpec == Spec /\ WF_vars(Server) /\ \A c \in Conns : WF_vars(ClientRead(c))

-----------------------------------------------------------------------------
(* Properties.                                                             *)

\* Every variable keeps its type.
TypeOK ==
    /\ pc \in {"run", "dead"}
    /\ cons \in [ClientFds -> Con]
    /\ interest \in [Fds -> SUBSET {"IN", "OUT"}]
    /\ edge \in [ClientFds -> BOOLEAN]
    /\ batch \in [Fds -> SUBSET {"IN", "OUT"}]
    /\ reading \in ClientFds \cup {NoFd}
    /\ sock \in [ClientFds -> Conns \cup {NoConn}]
    /\ state \in [Conns -> {"new", "queued", "open", "closed"}]
    /\ backlog \in Seq(Conns)
    /\ peer \in [Conns -> {"up", "fin", "rst"}]
    /\ inq \in [Conns -> Seq(Piece)]
    /\ unread \in [Conns -> 0 .. SendBuffer]
    /\ noSpace \in [Conns -> BOOLEAN]
    /\ pieces \in [Conns -> 0 .. MaxPieces]
    /\ asked \in [Conns -> 0 .. MaxRequests]
    /\ taken \in [Conns -> 0 .. MaxRequests]
    /\ sent \in [Conns -> Nat]

\* Level-triggered, EPOLLOUT is registered exactly while writeEnabled says so,
\* and writeEnabled exactly while a part of a response waits for room: the
\* loop neither spins on a writable socket nor forgets a pending response.
WriteInterest ==
    \A fd \in ClientFds : sock[fd] # NoConn =>
        /\ "OUT" \in interest[fd] <=> cons[fd].writeEnabled
        /\ cons[fd].writeEnabled => cons[fd].written < ResponseLength
        /\ sent[sock[fd]] % ResponseLength # 0 => cons[fd].writeEnabled

\* written counts what was sent of the current response to this connection:
\* no response starts in the middle or over again, although a connection's
\* entry in cons is found by a descriptor number others have used.
ResponsesWhole ==
    \A fd \in ClientFds :
        IF sock[fd] = NoConn THEN cons[fd] = NewCon
        ELSE sent[sock[fd]] % ResponseLength = cons[fd].written

\* A response is sent when a complete request has been read, not before: a
\* client is never sent more responses than the server read requests.
NoEarlyResponse == \A c \in Conns : sent[c] <= ResponseLength * taken[c]

\* A response that was begun is finished while its client reads, whatever the
\* client writes meanwhile.
BegunIsFinished ==
    \A c \in Conns : sent[c] % ResponseLength # 0
                        ~> sent[c] % ResponseLength = 0 \/ state[c] = "closed"

\* A complete request is answered, or the connection is closed: of every
\* client, and of the clients that wait for their response.
Answered(c) ==
    \A n \in 1 .. MaxRequests :
        asked[c] >= n
            ~> sent[c] >= ResponseLength * n \/ state[c] = "closed"

EveryRequestIsAnswered == \A c \in Conns : Answered(c)

RequestIsAnswered == \A c \in Conns \ Pipeliners : Answered(c)

\* The server implements the HTTP service.
Accepting == [c \in Conns |-> IF state[c] = "queued" THEN "new" ELSE state[c]]

Service == INSTANCE HttpService WITH state <- Accepting,
                                     MaxOpen <- Cardinality(ClientFds)

ImplementsHttp == Service!HttpSpec

=============================================================================
