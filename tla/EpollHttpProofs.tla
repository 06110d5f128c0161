--------------------------- MODULE EpollHttpProofs ---------------------------
(***************************************************************************)
(* The safety of the keep-alive HTTP servers, for any descriptors, clients *)
(* and requests, any length of the response and any send buffer.  What     *)
(* holds of both servers: the types, and that responses are whole.  What   *)
(* holds of the level-triggered one: EPOLLOUT is registered exactly while  *)
(* a response is pending.  What holds of it too, and of the edge-triggered *)
(* one while each request arrives in one piece: no response comes early,   *)
(* and the server implements the HTTP service.                             *)
(***************************************************************************)
EXTENDS EpollHttp, SequenceTheorems, FiniteSetTheorems, FunctionTheorems,
        WellFoundedInduction, TLAPS

-----------------------------------------------------------------------------
(* The inductive invariant.                                                *)

\* The complete requests in a receive queue.
Ends(s) == Cardinality({i \in 1 .. Len(s) : s[i] = "end"})

\* A connection waits in the queue once and has been given nothing.
QueueHeld ==
    /\ \A i \in 1 .. Len(backlog) : state[backlog[i]] = "queued"
    /\ \A i, j \in 1 .. Len(backlog) : backlog[i] = backlog[j] => i = j
    /\ \A c \in Conns : state[c] \in {"new", "queued"} =>
                           taken[c] = 0 /\ sent[c] = 0

\* The open connections are those of the descriptors, one each.
SocketsHeld ==
    /\ \A fd \in ClientFds : sock[fd] # NoConn => state[sock[fd]] = "open"
    /\ \A f, g \in ClientFds : sock[f] # NoConn /\ sock[f] = sock[g] => f = g
    /\ \A c \in Conns : state[c] = "open" => \E fd \in ClientFds : sock[fd] = c

\* Of a closed descriptor nothing is left.
ClosedHeld ==
    \A fd \in ClientFds : sock[fd] = NoConn =>
        cons[fd] = NewCon /\ interest[fd] = {} /\ batch[fd] = {}

\* A harvested event is still wanted, and one of the listener still holds.
BatchHeld ==
    /\ \A fd \in ClientFds : batch[fd] \subseteq interest[fd]
    /\ batch[Listener] # {} => backlog # << >>
    /\ reading # NoFd => batch[reading] = {}

\* No response may come early: the edge-triggered server answers the first piece
\* of a request when EPOLLOUT comes with it, unless it is the only one.
InTime == ~EdgeTriggered \/ MaxPieces = 1

\* A part of a response waits for room, says the level-triggered server.
Pending(con) == con.writeEnabled = TRUE

\* EPOLLOUT would make send_res write.
Owed(con) == IF EdgeTriggered THEN con.readed # "none" ELSE Pending(con)

\* q responses were sent in full, and of the next one what written says; a
\* request has been read for each, and for the one that is owed.
Progress(fd, con, requests, units) ==
    \E q \in Nat :
        /\ units = ResponseLength * q + con.written
        /\ InTime => /\ Owed(con) => q < requests
                     /\ ~Owed(con) => q <= requests /\ con.written = 0

Armed(fd) ==
    ~EdgeTriggered => ("OUT" \in interest[fd] <=> Pending(cons[fd]))

EntriesHeld ==
    \A fd \in ClientFds : sock[fd] # NoConn =>
        /\ Armed(fd)
        /\ Progress(fd, cons[fd], taken[sock[fd]], sent[sock[fd]])

NeverEarly == InTime => NoEarlyResponse

\* A request that was written has been read or is in the receive queue, and no
\* part of one is there when requests are one piece each.
RequestsHeld ==
    \A c \in Conns :
        /\ asked[c] = taken[c] + Ends(inq[c])
        /\ MaxPieces = 1 => \A i \in 1 .. Len(inq[c]) : inq[c][i] = "end"

IInv == /\ TypeOK
        /\ QueueHeld
        /\ SocketsHeld
        /\ ClosedHeld
        /\ BatchHeld
        /\ EntriesHeld
        /\ NeverEarly
        /\ RequestsHeld

-----------------------------------------------------------------------------
(* Numbers and sequences.                                                  *)

\* accept() takes the smallest number that is free.
LEMMA LowestIsMember ==
    ASSUME NEW S \in SUBSET Nat, S # {}
    PROVE  Lowest(S) \in S
<1> DEFINE Less == {ss \in Nat \X Nat : ss[1] < ss[2]}
<1>1. IsWellFoundedOn(Less, Nat)
  BY NatLessThanWellFounded, Zenon DEF OpToRel
<1>2. PICK fd \in S : \A other \in S : ~ (<<other, fd>> \in Less)
  <2> HIDE DEF Less
  <2> QED BY <1>1, WFMin
<1>3. ASSUME NEW other \in S PROVE fd <= other
  <2>1. fd \in Nat /\ other \in Nat
    OBVIOUS
  <2>2. ~ (<<other, fd>> \in Less)
    BY <1>2
  <2> QED
    BY <2>1, <2>2
<1> QED
  BY <1>3 DEF Lowest

\* More requests allow for more units.
LEMMA TimesGrows ==
    ASSUME NEW L \in Nat, NEW a \in Nat, NEW b \in Nat, a <= b
    PROVE  L * a \in Nat /\ L * b \in Nat /\ L * a <= L * b
<1>1. PICK d \in Nat : b = a + d
  <2>1. b - a \in Nat /\ b = a + (b - a)
    OBVIOUS
  <2> QED
    BY <2>1
<1>2. L * b = L * a + L * d
  BY <1>1
<1>3. L * d \in Nat /\ L * a \in Nat /\ L * b \in Nat
  OBVIOUS
<1> QED
  BY <1>2, <1>3

\* A response that is complete is one more.
LEMMA TimesNext ==
    ASSUME NEW L \in Nat, NEW q \in Nat
    PROVE  L * (q + 1) = L * q + L /\ L * q \in Nat
OBVIOUS

\* What is left of whole responses is what was written of the next one.
LEMMA Remainder ==
    ASSUME NEW L \in Nat \ {0}, NEW q \in Nat, NEW w \in 0 .. L - 1
    PROVE  (L * q + w) % L = w
<1> DEFINE r == (L * q + w) % L
           d == (L * q + w) \div L
<1>1. /\ r \in 0 .. L - 1 /\ d \in Int
      /\ L * q + w = L * d + r
  OBVIOUS
<1> QED
  BY <1>1

\* The positions of complete requests are finitely many.
LEMMA EndsType ==
    ASSUME NEW s \in Seq(Piece), NEW n \in Nat
    PROVE  /\ IsFiniteSet({i \in 1 .. n : s[i] = "end"})
           /\ Cardinality({i \in 1 .. n : s[i] = "end"}) \in Nat
<1>1. IsFiniteSet(1 .. n)
  BY FS_Interval
<1>2. {i \in 1 .. n : s[i] = "end"} \in SUBSET (1 .. n)
  OBVIOUS
<1>3. IsFiniteSet({i \in 1 .. n : s[i] = "end"})
  BY <1>1, <1>2, FS_Subset
<1> QED
  BY <1>3, FS_CardinalityType

\* Nothing waits in an empty queue.
LEMMA EndsOfNothing == Ends(<< >>) = 0
<1>1. {i \in 1 .. Len(<< >>) : << >>[i] = "end"} = {}
  OBVIOUS
<1> QED
  BY <1>1, FS_EmptySet DEF Ends

\* A piece that arrives ends a request or does not.
LEMMA EndsOfAppend ==
    ASSUME NEW s \in Seq(Piece), NEW piece \in Piece
    PROVE  Ends(Append(s, piece)) =
             Ends(s) + (IF piece = "end" THEN 1 ELSE 0)
<1> DEFINE t == Append(s, piece)
           old == {i \in 1 .. Len(s) : s[i] = "end"}
           new == {i \in 1 .. Len(t) : t[i] = "end"}
<1>1. /\ Len(s) \in Nat /\ Len(t) = Len(s) + 1
      /\ \A i \in 1 .. Len(s) : t[i] = s[i]
      /\ t[Len(s) + 1] = piece
  BY AppendProperties, LenProperties
<1>2. IsFiniteSet(old) /\ Cardinality(old) \in Nat
  BY <1>1, EndsType
<1>3. Len(s) + 1 \notin old
  BY <1>1
<1>4. CASE piece = "end"
  <2>1. new = old \cup {Len(s) + 1}
    <3> HIDE DEF t
    <3> QED
      BY <1>1, <1>4
  <2> HIDE DEF old, new
  <2>2. Cardinality(new) = Cardinality(old) + 1
    BY <1>2, <1>3, <2>1, FS_AddElement
  <2> QED
    BY <1>4, <2>2 DEF Ends, old, new
<1>5. CASE piece # "end"
  <2>1. new = old
    <3> HIDE DEF t
    <3> QED
      BY <1>1, <1>5
  <2> HIDE DEF old, new
  <2>2. Cardinality(new) = Cardinality(old) + 0
    BY <1>2, <2>1
  <2> QED
    BY <1>5, <2>2 DEF Ends, old, new
<1> QED
  BY <1>4, <1>5

\* What read() takes and what it leaves are together what was there.
LEMMA EndsOfRest ==
    ASSUME NEW s \in Seq(Piece), NEW n \in 1 .. Len(s)
    PROVE  LET rest == SubSeq(s, n + 1, Len(s))
               read == {i \in 1 .. n : s[i] = "end"}
           IN  /\ rest \in Seq(Piece)
               /\ Cardinality(read) \in Nat /\ Ends(rest) \in Nat
               /\ Ends(s) = Cardinality(read) + Ends(rest)
               /\ s[n] = "end" => Cardinality(read) >= 1
<1> DEFINE rest == SubSeq(s, n + 1, Len(s))
           read == {i \in 1 .. n : s[i] = "end"}
           left == {i \in n + 1 .. Len(s) : s[i] = "end"}
           after == {i \in 1 .. Len(rest) : rest[i] = "end"}
           all == {i \in 1 .. Len(s) : s[i] = "end"}
<1>1. Len(s) \in Nat /\ \A i \in 1 .. Len(s) : s[i] \in Piece
  BY LenProperties, ElementOfSeq
<1>2. /\ rest \in Seq(Piece) /\ Len(rest) = Len(s) - n
      /\ \A i \in 1 .. Len(s) - n : rest[i] = s[n + i]
  <2>1. \A i \in n + 1 .. Len(s) : s[i] \in Piece
    BY <1>1
  <2>2. /\ rest \in Seq(Piece)
        /\ Len(rest) = IF n + 1 <= Len(s) THEN Len(s) - (n + 1) + 1 ELSE 0
        /\ \A i \in 1 .. Len(s) - (n + 1) + 1 : rest[i] = s[n + 1 + i - 1]
    BY <1>1, <2>1, SubSeqProperties
  <2> HIDE DEF rest
  <2>3. /\ Len(rest) = Len(s) - n
        /\ Len(s) - (n + 1) + 1 = Len(s) - n
        /\ \A i \in 1 .. Len(s) - n : n + 1 + i - 1 = n + i
    BY <1>1, <2>2
  <2> QED
    BY <2>2, <2>3
<1>3. /\ IsFiniteSet(read) /\ Cardinality(read) \in Nat
      /\ IsFiniteSet(after) /\ Cardinality(after) \in Nat
      /\ IsFiniteSet(all)
  <2>1. n \in Nat /\ Len(rest) \in Nat
    BY <1>1, <1>2
  <2> HIDE DEF rest
  <2> QED
    BY <1>1, <1>2, <2>1, EndsType
<1> HIDE DEF rest
<1>4. Cardinality(left) = Cardinality(after)
  <2> DEFINE f == [i \in after |-> n + i]
  <2>1. f \in Bijection(after, left)
    <3>1. \A i \in after : f[i] \in left
      BY <1>1, <1>2
    <3>2. \A i, j \in after : f[i] = f[j] => i = j
      OBVIOUS
    <3>3. \A k \in left : \E i \in after : f[i] = k
      <4>1. SUFFICES ASSUME NEW k \in left PROVE \E i \in after : f[i] = k
        OBVIOUS
      <4>2. k - n \in after
        BY <1>1, <1>2
      <4>3. f[k - n] = k
        BY <4>2
      <4> QED
        BY <4>2, <4>3
    <3> QED
      BY <3>1, <3>2, <3>3, Fun_IsBij
  <2>2. ExistsBijection(after, left)
    BY <2>1 DEF ExistsBijection
  <2> QED
    BY <1>3, <2>2, FS_Bijection
<1>5. Cardinality(all) = Cardinality(read) + Cardinality(left)
  <2>1. all = read \cup left /\ read \cap left = {}
    BY <1>1
  <2>2. IsFiniteSet(left)
    BY <1>3, <2>1, FS_Subset
  <2>3. Cardinality({}) = 0 /\ Cardinality(left) \in Nat
    BY <2>2, FS_EmptySet, FS_CardinalityType
  <2> HIDE DEF all, read, left
  <2>4. Cardinality(read \cup left)
          = Cardinality(read) + Cardinality(left) - Cardinality(read \cap left)
    BY <1>3, <2>2, FS_Union
  <2>5. Cardinality(read) \in Nat /\ Cardinality(read \cap left) = 0
    BY <1>3, <2>1, <2>3
  <2> QED
    BY <2>1, <2>3, <2>4, <2>5
<1>6. ASSUME s[n] = "end" PROVE Cardinality(read) >= 1
  <2>1. n \in read
    BY <1>6
  <2>2. Cardinality(read) # 0
    BY <1>3, <2>1, FS_EmptySet
  <2> QED
    BY <1>3, <2>2
<1> QED
  BY <1>2, <1>3, <1>4, <1>5, <1>6 DEF Ends, rest

-----------------------------------------------------------------------------
(* The program.                                                            *)

\* Client descriptors are numbers and not the listener's or NoFd.
LEMMA FdFacts ==
    /\ ClientFds \subseteq Fds /\ Listener \in Fds /\ Listener \notin ClientFds
    /\ \A fd \in Fds : fd \in Nat /\ (fd = Listener \/ fd \in ClientFds)
    /\ \A fd \in ClientFds : fd # NoFd /\ fd # Listener
    /\ \A c \in Conns : c # NoConn
BY EpollAssumption DEF Fds

\* An entry that operator[] makes has nothing read and nothing written.
LEMMA NewConType ==
    /\ NewCon \in Con
    /\ NewCon.written = 0 /\ ~Pending(NewCon) /\ ~Owed(NewCon)
BY EpollAssumption DEF NewCon, Con, Pending, Owed

\* Nothing has happened when the server enters its loop.
LEMMA InitHolds == Init => IInv
<1> SUFFICES ASSUME Init PROVE IInv
  OBVIOUS
<1>1. TypeOK
  <2>1. ResponseLength \in Nat \ {0} /\ MaxPieces \in Nat
        /\ MaxRequests \in Nat /\ SendBuffer \in Nat
    BY EpollAssumption
  <2>2. << >> \in Seq(Conns) /\ << >> \in Seq(Piece)
    BY EmptySeq
  <2> QED
    BY <2>1, <2>2, NewConType DEF Init, TypeOK
<1>2. QueueHeld
  <2>1. Len(<< >>) = 0
    BY EmptySeq
  <2> QED
    BY <2>1 DEF Init, QueueHeld
<1>3. SocketsHeld /\ ClosedHeld
  BY FdFacts DEF Init, SocketsHeld, ClosedHeld, Fds
<1>4. BatchHeld
  BY FdFacts DEF Init, BatchHeld
<1>5. EntriesHeld
  BY DEF Init, EntriesHeld
<1>6. NeverEarly
  <2>1. \A c \in Conns : sent[c] = 0 /\ taken[c] = 0
    BY DEF Init
  <2>2. ResponseLength * 0 = 0
    BY EpollAssumption
  <2> QED
    BY <2>1, <2>2 DEF NeverEarly, NoEarlyResponse
<1>7. RequestsHeld
  <2>1. Len(<< >>) = 0
    BY EmptySeq
  <2> QED
    BY <2>1, EndsOfNothing DEF Init, RequestsHeld
<1> QED
  BY <1>1, <1>2, <1>3, <1>4, <1>5, <1>6, <1>7 DEF IInv

\* epoll_wait() harvests what is registered and, of the listener, what holds.
LEMMA EpollWaitStep == IInv /\ EpollWait => IInv'
<1> SUFFICES ASSUME IInv, EpollWait PROVE IInv'
  OBVIOUS
<1>1. /\ UNCHANGED <<pc, cons, interest, reading, sock, state, backlog, peer,
                     inq, unread, history>>
      /\ reading = NoFd
  BY DEF EpollWait
<1>2. PICK S \in SUBSET Fds :
         /\ batch' = [fd \in Fds |-> IF fd \in S THEN Ready(fd) ELSE {}]
         /\ edge' \in [ClientFds -> BOOLEAN]
         /\ noSpace' \in [Conns -> BOOLEAN]
  <2> DEFINE ready == {fd \in Fds : Reported(fd) # {}}
  <2>1. PICK S \in SUBSET ready :
         /\ batch' = [fd \in Fds |-> IF fd \in S THEN Ready(fd) ELSE {}]
         /\ edge' = [fd \in ClientFds |-> edge[fd] /\ fd \in ready \ S]
         /\ noSpace' = [c \in Conns |->
                noSpace[c] \/ \E fd \in ClientFds :
                   edge[fd] /\ ~edge'[fd] /\ sock[fd] = c /\ ~Writable(fd)]
    BY DEF EpollWait
  <2>2. S \in SUBSET Fds
    OBVIOUS
  <2>3. edge' \in [ClientFds -> BOOLEAN]
    <3> HIDE DEF ready
    <3> QED
      BY <2>1, Zenon
  <2>4. noSpace' \in [Conns -> BOOLEAN]
    BY <2>1, Zenon
  <2> QED
    BY <2>1, <2>2, <2>3, <2>4
<1>3. \A fd \in Fds : Ready(fd) \subseteq interest[fd]
  BY DEF Ready
<1>4. batch' \in [Fds -> SUBSET {"IN", "OUT"}]
  <2>1. \A fd \in Fds : interest[fd] \in SUBSET {"IN", "OUT"}
    BY DEF IInv, TypeOK
  <2>2. \A fd \in Fds : (IF fd \in S THEN Ready(fd) ELSE {})
                            \in SUBSET {"IN", "OUT"}
    BY <1>3, <2>1
  <2> QED
    BY <1>2, <2>2
<1>5. TypeOK'
  BY <1>1, <1>2, <1>4 DEF IInv, TypeOK, history
<1>6. QueueHeld' /\ SocketsHeld'
  BY <1>1 DEF IInv, QueueHeld, SocketsHeld, history
<1>7. ClosedHeld'
  <2>1. \A fd \in ClientFds : batch'[fd] \subseteq interest[fd]
    BY <1>2, <1>3, FdFacts
  <2> QED
    BY <1>1, <2>1 DEF IInv, ClosedHeld
<1>8. BatchHeld'
  <2>1. \A fd \in ClientFds : batch'[fd] \subseteq interest'[fd]
    BY <1>1, <1>2, <1>3, FdFacts
  <2>2. Ready(Listener) # {} => backlog # << >>
    BY DEF Ready, Readable, Writable
  <2>3. batch'[Listener] # {} => backlog' # << >>
    BY <1>1, <1>2, <2>2, FdFacts
  <2> QED
    BY <1>1, <2>1, <2>3 DEF BatchHeld
<1>9. EntriesHeld' /\ NeverEarly' /\ RequestsHeld'
  <2>1. UNCHANGED <<sock, interest, cons, taken, sent, asked, inq>>
    BY <1>1 DEF history
  <2> QED
    BY <2>1 DEF IInv, EntriesHeld, Armed, NeverEarly, NoEarlyResponse,
                RequestsHeld
<1> QED
  BY <1>5, <1>6, <1>7, <1>8, <1>9 DEF IInv

\* handle_accept: the next connection gets the smallest free number, of which
\* nothing is left from whoever had it before.
LEMMA HandleAcceptStep == IInv /\ HandleAccept => IInv'
<1> SUFFICES ASSUME IInv, HandleAccept PROVE IInv'
  OBVIOUS
<1> DEFINE cfd == Lowest(FreeFds)
           c == Head(backlog)
<1>1. /\ sock' = [sock EXCEPT ![cfd] = c]
      /\ state' = [state EXCEPT ![c] = "open"]
      /\ backlog' = Tail(backlog)
      /\ interest' = [interest EXCEPT ![cfd] = Registered]
      /\ edge' = [edge EXCEPT ![cfd] = EdgeTriggered]
      /\ batch' = [batch EXCEPT ![Listener] = {}]
      /\ reading = NoFd
      /\ UNCHANGED <<pc, cons, reading, peer, inq, unread, noSpace, history>>
  BY DEF HandleAccept, Handled
<1>2. cfd \in ClientFds /\ sock[cfd] = NoConn
  <2>1. FreeFds # {} /\ FreeFds \in SUBSET Nat
    BY EpollAssumption DEF HandleAccept, FreeFds
  <2> QED
    BY <2>1, LowestIsMember DEF FreeFds
<1>3. /\ backlog \in Seq(Conns) /\ backlog # << >>
      /\ c \in Conns /\ c = backlog[1] /\ Tail(backlog) \in Seq(Conns)
      /\ Len(backlog) \in Nat /\ Len(Tail(backlog)) = Len(backlog) - 1
      /\ 1 \in 1 .. Len(backlog)
      /\ \A i \in 1 .. Len(Tail(backlog)) : Tail(backlog)[i] = backlog[i + 1]
  <2>1. backlog \in Seq(Conns) /\ backlog # << >>
    BY DEF IInv, TypeOK, BatchHeld, HandleAccept
  <2>2. Len(backlog) \in Nat \ {0}
    BY <2>1, EmptySeq
  <2> QED
    BY <2>1, <2>2, HeadTailProperties
<1> HIDE DEF cfd, c
<1>4. state[c] = "queued" /\ taken[c] = 0 /\ sent[c] = 0
  BY <1>3 DEF IInv, QueueHeld
<1>5. cons[cfd] = NewCon /\ batch[cfd] = {}
  BY <1>2 DEF IInv, ClosedHeld
<1>6. /\ sock' \in [ClientFds -> Conns \cup {NoConn}]
      /\ sock'[cfd] = c /\ \A fd \in ClientFds \ {cfd} : sock'[fd] = sock[fd]
  BY <1>1, <1>2, <1>3 DEF IInv, TypeOK
<1>7. /\ state' \in [Conns -> {"new", "queued", "open", "closed"}]
      /\ state'[c] = "open" /\ \A d \in Conns \ {c} : state'[d] = state[d]
  BY <1>1, <1>3 DEF IInv, TypeOK
<1>8. /\ interest' \in [Fds -> SUBSET {"IN", "OUT"}]
      /\ interest'[cfd] = Registered
      /\ \A fd \in Fds \ {cfd} : interest'[fd] = interest[fd]
  <2>1. Registered \in SUBSET {"IN", "OUT"}
    BY DEF Registered
  <2> QED
    BY <1>1, <1>2, <2>1, FdFacts DEF IInv, TypeOK
<1>9. /\ batch' \in [Fds -> SUBSET {"IN", "OUT"}]
      /\ batch'[Listener] = {}
      /\ \A fd \in ClientFds : batch'[fd] = batch[fd]
  BY <1>1, FdFacts DEF IInv, TypeOK
<1>10. \A fd \in ClientFds : sock[fd] # c
  BY <1>3, <1>4, FdFacts DEF IInv, SocketsHeld
<1>11. TypeOK'
  <2>1. edge' \in [ClientFds -> BOOLEAN]
    BY <1>1, EpollAssumption, Zenon DEF IInv, TypeOK
  <2> QED
    BY <1>1, <1>3, <1>6, <1>7, <1>8, <1>9, <2>1 DEF IInv, TypeOK, history
<1>12. QueueHeld'
  <2>1. ASSUME NEW i \in 1 .. Len(Tail(backlog))
        PROVE  /\ i + 1 \in 1 .. Len(backlog)
               /\ backlog'[i] = backlog[i + 1]
               /\ backlog[i + 1] \in Conns /\ backlog[i + 1] # c
    <3>1. i + 1 \in 1 .. Len(backlog) /\ i + 1 # 1
      BY <1>3
    <3>2. backlog[i + 1] # backlog[1]
      BY <1>3, <3>1 DEF IInv, QueueHeld
    <3> QED
      BY <1>1, <1>3, <3>1, <3>2, ElementOfSeq
  <2>2. \A i \in 1 .. Len(backlog') : state'[backlog'[i]] = "queued"
    BY <1>1, <1>7, <2>1 DEF IInv, QueueHeld
  <2>3. ASSUME NEW i \in 1 .. Len(backlog'), NEW j \in 1 .. Len(backlog'),
               backlog'[i] = backlog'[j]
        PROVE  i = j
    <3>1. i + 1 = j + 1
      BY <1>1, <2>1, <2>3 DEF IInv, QueueHeld
    <3> QED
      BY <1>1, <1>3, <3>1
  <2>4. \A d \in Conns : state'[d] \in {"new", "queued"} =>
                            taken'[d] = 0 /\ sent'[d] = 0
    BY <1>1, <1>7 DEF IInv, QueueHeld, history
  <2> QED
    BY <2>2, <2>3, <2>4 DEF QueueHeld
<1>13. SocketsHeld'
  <2>1. ASSUME NEW fd \in ClientFds, sock'[fd] # NoConn
        PROVE  state'[sock'[fd]] = "open"
    <3>1. CASE fd = cfd
      BY <1>6, <1>7, <3>1
    <3>2. CASE fd # cfd
      <4>1. sock'[fd] = sock[fd] /\ sock[fd] \in Conns \ {c}
        BY <1>6, <1>10, <2>1, <3>2 DEF IInv, TypeOK
      <4>2. state[sock[fd]] = "open"
        BY <2>1, <4>1 DEF IInv, SocketsHeld
      <4> QED
        BY <1>7, <4>1, <4>2
    <3> QED
      BY <3>1, <3>2
  <2>2. \A f, g \in ClientFds : sock'[f] # NoConn /\ sock'[f] = sock'[g] => f = g
    BY <1>6, <1>10 DEF IInv, SocketsHeld
  <2>3. ASSUME NEW d \in Conns, state'[d] = "open"
        PROVE  \E fd \in ClientFds : sock'[fd] = d
    <3>1. CASE d = c
      BY <1>2, <1>6, <3>1
    <3>2. CASE d # c
      <4>1. PICK fd \in ClientFds : sock[fd] = d
        BY <1>7, <2>3, <3>2 DEF IInv, SocketsHeld
      <4>2. fd # cfd
        BY <1>2, <4>1, FdFacts
      <4> QED
        BY <1>6, <4>1, <4>2
    <3> QED
      BY <3>1, <3>2
  <2> QED
    BY <2>1, <2>2, <2>3 DEF SocketsHeld
<1>14. ClosedHeld'
  BY <1>1, <1>3, <1>6, <1>8, <1>9, FdFacts DEF IInv, ClosedHeld
<1>15. BatchHeld'
  <2>1. \A fd \in ClientFds : batch'[fd] \subseteq interest'[fd]
    BY <1>5, <1>8, <1>9, FdFacts DEF IInv, BatchHeld
  <2> QED
    BY <1>1, <1>9, <2>1 DEF BatchHeld
<1>16. EntriesHeld'
  <2>1. ~EdgeTriggered => "OUT" \notin interest'[cfd]
    BY <1>8 DEF Registered
  <2>2. Progress(cfd, NewCon, 0, 0)
    <3>1. 0 = ResponseLength * 0 + NewCon.written
      BY EpollAssumption, NewConType
    <3> QED
      BY <3>1, NewConType DEF Progress
  <2>3. ASSUME NEW fd \in ClientFds, sock'[fd] # NoConn
        PROVE  /\ Armed(fd)'
               /\ Progress(fd, cons'[fd], taken'[sock'[fd]], sent'[sock'[fd]])
    <3>1. CASE fd = cfd
      <4>1. /\ cons'[fd] = NewCon /\ sock'[fd] = c
            /\ taken'[c] = 0 /\ sent'[c] = 0
        BY <1>1, <1>4, <1>5, <1>6, <3>1 DEF history
      <4>2. Armed(fd)'
        BY <2>1, <3>1, <4>1, NewConType DEF Armed
      <4> QED
        BY <2>2, <4>1, <4>2 DEF Progress
    <3>2. CASE fd # cfd
      BY <1>1, <1>6, <1>8, <2>3, <3>2, FdFacts
      DEF IInv, EntriesHeld, Armed, history
    <3> QED
      BY <3>1, <3>2
  <2> QED
    BY <2>3 DEF EntriesHeld, Progress
<1>17. NeverEarly' /\ RequestsHeld'
  BY <1>1 DEF IInv, NeverEarly, NoEarlyResponse, RequestsHeld, history
<1> QED
  BY <1>11, <1>12, <1>13, <1>14, <1>15, <1>16, <1>17 DEF IInv

\* exit_if: nothing is open any more.
LEMMA AcceptExitsStep == IInv /\ AcceptExits => IInv'
<1> SUFFICES ASSUME IInv, AcceptExits PROVE IInv'
  OBVIOUS
<1>1. /\ pc' = "dead"
      /\ cons' = [fd \in ClientFds |-> NewCon]
      /\ interest' = [fd \in Fds |-> {}]
      /\ edge' = [fd \in ClientFds |-> FALSE]
      /\ batch' = [fd \in Fds |-> {}]
      /\ sock' = [fd \in ClientFds |-> NoConn]
      /\ state' = [c \in Conns |-> "closed"]
      /\ backlog' = << >>
      /\ reading = NoFd
      /\ UNCHANGED <<reading, peer, inq, unread, noSpace, history>>
  BY DEF AcceptExits
<1>2. TypeOK'
  <2>1. << >> \in Seq(Conns)
    BY EmptySeq
  <2> QED
    BY <1>1, <2>1, NewConType DEF IInv, TypeOK, history
<1>3. QueueHeld'
  <2>1. Len(<< >>) = 0
    BY EmptySeq
  <2> QED
    BY <1>1, <2>1 DEF QueueHeld
<1>4. SocketsHeld' /\ EntriesHeld'
  BY <1>1 DEF SocketsHeld, EntriesHeld
<1>5. ClosedHeld' /\ BatchHeld'
  BY <1>1, FdFacts DEF ClosedHeld, BatchHeld
<1>6. NeverEarly' /\ RequestsHeld'
  BY <1>1 DEF IInv, NeverEarly, NoEarlyResponse, RequestsHeld, history
<1> QED
  BY <1>2, <1>3, <1>4, <1>5, <1>6 DEF IInv

-----------------------------------------------------------------------------
(* handle_read and handle_write.                                           *)

\* What they may do besides changing the entry: the event is handled, a part of
\* the receive queue is read.
Reads(fd) ==
    /\ sock[fd] # NoConn
    /\ Handled(fd)
    /\ reading' \in ClientFds \cup {NoFd}
    /\ reading' # NoFd => reading' = fd
    /\ inq' \in [Conns -> Seq(Piece)]
    /\ taken' \in [Conns -> 0 .. MaxRequests]
    /\ \A d \in Conns : taken[d] <= taken'[d]
    /\ \A d \in Conns \ {sock[fd]} : taken'[d] = taken[d]
    /\ RequestsHeld'
    /\ UNCHANGED <<pc, backlog, peer, pieces, asked>>

\* The connection of an open descriptor, and what Handled makes of the batch.
LEMMA ReadsEffect ==
    ASSUME IInv, NEW fd \in ClientFds, Reads(fd)
    PROVE  /\ sock[fd] \in Conns /\ state[sock[fd]] = "open"
           /\ batch' \in [Fds -> SUBSET {"IN", "OUT"}]
           /\ batch'[fd] = {} /\ \A f \in Fds \ {fd} : batch'[f] = batch[f]
           /\ \A f \in ClientFds \ {fd} : sock[f] # sock[fd]
           /\ \A d \in Conns : taken[d] \in Nat /\ taken'[d] \in Nat
<1>1. sock[fd] \in Conns /\ state[sock[fd]] = "open"
  BY DEF Reads, IInv, TypeOK, SocketsHeld
<1>2. /\ batch' \in [Fds -> SUBSET {"IN", "OUT"}]
      /\ batch'[fd] = {} /\ \A f \in Fds \ {fd} : batch'[f] = batch[f]
  BY FdFacts DEF Reads, Handled, IInv, TypeOK
<1>3. \A f \in ClientFds \ {fd} : sock[f] # sock[fd]
  BY DEF Reads, IInv, SocketsHeld
<1>4. \A d \in Conns : taken[d] \in Nat /\ taken'[d] \in Nat
  <2>1. taken \in [Conns -> 0 .. MaxRequests] /\ taken' \in [Conns -> 0 .. MaxRequests]
    BY DEF Reads, IInv, TypeOK
  <2>2. MaxRequests \in Nat
    BY EpollAssumption
  <2> QED
    BY <2>1, <2>2
<1> QED
  BY <1>1, <1>2, <1>3, <1>4

\* Reading makes nobody's responses early.
LEMMA ReadsNeverEarly ==
    ASSUME IInv, NEW fd \in ClientFds, Reads(fd), InTime,
           NEW d \in Conns
    PROVE  sent[d] \in Nat /\ sent[d] <= ResponseLength * taken'[d]
<1>1. sent[d] \in Nat /\ sent[d] <= ResponseLength * taken[d]
  BY DEF IInv, TypeOK, NeverEarly, NoEarlyResponse
<1>2. taken[d] \in Nat /\ taken'[d] \in Nat /\ taken[d] <= taken'[d]
  BY ReadsEffect DEF Reads
<1>3. /\ ResponseLength * taken[d] \in Nat /\ ResponseLength * taken'[d] \in Nat
      /\ ResponseLength * taken[d] <= ResponseLength * taken'[d]
  BY <1>2, TimesGrows, EpollAssumption
<1> QED
  BY <1>1, <1>3

\* A descriptor is closed and its entry erased.
LEMMA ClosedKeeps ==
    ASSUME IInv, NEW fd \in ClientFds, Reads(fd), Close(fd),
           UNCHANGED <<sent, unread, noSpace>>
    PROVE  IInv'
<1> DEFINE c == sock[fd]
<1>1. /\ c \in Conns /\ state[c] = "open"
      /\ batch' \in [Fds -> SUBSET {"IN", "OUT"}]
      /\ batch'[fd] = {} /\ \A f \in Fds \ {fd} : batch'[f] = batch[f]
      /\ \A f \in ClientFds \ {fd} : sock[f] # c
  BY ReadsEffect
<1>2. /\ sock' \in [ClientFds -> Conns \cup {NoConn}] /\ sock'[fd] = NoConn
      /\ \A f \in ClientFds \ {fd} : sock'[f] = sock[f]
  BY DEF Close, IInv, TypeOK
<1>3. /\ state' \in [Conns -> {"new", "queued", "open", "closed"}]
      /\ state'[c] = "closed" /\ \A d \in Conns \ {c} : state'[d] = state[d]
  BY <1>1 DEF Close, IInv, TypeOK
<1>4. /\ interest' \in [Fds -> SUBSET {"IN", "OUT"}] /\ interest'[fd] = {}
      /\ \A f \in Fds \ {fd} : interest'[f] = interest[f]
  BY FdFacts DEF Close, IInv, TypeOK
<1>5. /\ cons' \in [ClientFds -> Con] /\ cons'[fd] = NewCon
      /\ \A f \in ClientFds \ {fd} : cons'[f] = cons[f]
  BY NewConType DEF Close, IInv, TypeOK
<1>6. edge' \in [ClientFds -> BOOLEAN]
  BY Zenon DEF Close, IInv, TypeOK
<1>7. /\ UNCHANGED <<pc, backlog, peer, pieces, asked, sent, unread, noSpace>>
      /\ \A d \in Conns \ {c} : taken'[d] = taken[d]
  BY DEF Reads
<1> HIDE DEF c
<1>8. TypeOK'
  BY <1>1, <1>2, <1>3, <1>4, <1>5, <1>6, <1>7 DEF IInv, TypeOK, Reads
<1>9. QueueHeld'
  <2>1. ASSUME NEW i \in 1 .. Len(backlog)
        PROVE  state'[backlog[i]] = "queued"
    <3>1. backlog[i] \in Conns /\ state[backlog[i]] = "queued"
      BY ElementOfSeq DEF IInv, TypeOK, QueueHeld
    <3> QED
      BY <1>1, <1>3, <3>1
  <2>2. \A d \in Conns : state'[d] \in {"new", "queued"} =>
                            taken'[d] = 0 /\ sent'[d] = 0
    BY <1>1, <1>3, <1>7 DEF IInv, QueueHeld
  <2> QED
    BY <1>7, <2>1, <2>2 DEF IInv, QueueHeld
<1>10. SocketsHeld'
  <2>1. \A f \in ClientFds : sock'[f] # NoConn =>
           f # fd /\ sock'[f] = sock[f] /\ sock[f] \in Conns \ {c}
    BY <1>1, <1>2 DEF IInv, TypeOK
  <2>2. \A f \in ClientFds : sock'[f] # NoConn => state'[sock'[f]] = "open"
    BY <1>3, <2>1 DEF IInv, SocketsHeld
  <2>3. \A f, g \in ClientFds : sock'[f] # NoConn /\ sock'[f] = sock'[g] => f = g
    BY <2>1 DEF IInv, SocketsHeld
  <2>4. ASSUME NEW d \in Conns, state'[d] = "open"
        PROVE  \E f \in ClientFds : sock'[f] = d
    <3>1. d # c /\ state[d] = "open"
      BY <1>3, <2>4
    <3>2. PICK f \in ClientFds : sock[f] = d
      BY <3>1 DEF IInv, SocketsHeld
    <3>3. f # fd
      BY <3>1, <3>2 DEF c
    <3> QED
      BY <1>2, <3>2, <3>3
  <2> QED
    BY <2>2, <2>3, <2>4 DEF SocketsHeld
<1>11. ClosedHeld'
  BY <1>1, <1>2, <1>4, <1>5, FdFacts DEF IInv, ClosedHeld
<1>12. BatchHeld'
  <2>1. \A f \in ClientFds : batch'[f] \subseteq interest'[f]
    BY <1>1, <1>4, FdFacts DEF IInv, BatchHeld
  <2>2. batch'[Listener] = batch[Listener]
    BY <1>1, FdFacts
  <2> QED
    BY <1>1, <1>7, <2>1, <2>2 DEF IInv, BatchHeld, Reads
<1>13. EntriesHeld'
  <2>1. ASSUME NEW f \in ClientFds, sock'[f] # NoConn
        PROVE  /\ Armed(f)'
               /\ Progress(f, cons'[f], taken'[sock'[f]], sent'[sock'[f]])
    <3>1. /\ f # fd /\ sock'[f] = sock[f] /\ sock[f] \in Conns \ {c}
          /\ sock[f] # NoConn
      BY <1>1, <1>2, <2>1 DEF IInv, TypeOK
    <3>2. Armed(f) /\ Progress(f, cons[f], taken[sock[f]], sent[sock[f]])
      BY <3>1 DEF IInv, EntriesHeld
    <3>3. /\ cons'[f] = cons[f] /\ interest'[f] = interest[f]
          /\ taken'[sock[f]] = taken[sock[f]] /\ sent' = sent
      BY <1>4, <1>5, <1>7, <3>1, FdFacts
    <3> QED
      BY <3>1, <3>2, <3>3 DEF Armed
  <2> QED
    BY <2>1 DEF EntriesHeld, Progress
<1>14. NeverEarly'
  BY <1>7, ReadsNeverEarly DEF NeverEarly, NoEarlyResponse
<1>15. RequestsHeld'
  BY DEF Reads
<1> QED
  BY <1>8, <1>9, <1>10, <1>11, <1>12, <1>13, <1>14, <1>15 DEF IInv

\* Whole responses and a part of the pending one are never early.
LEMMA ProgressNeverEarly ==
    ASSUME NEW fd, NEW con \in Con, NEW requests \in Nat, NEW units \in Nat,
           Progress(fd, con, requests, units), InTime
    PROVE  units <= ResponseLength * requests
<1>1. PICK q \in Nat :
         /\ units = ResponseLength * q + con.written
         /\ Owed(con) => q < requests
         /\ ~Owed(con) => q <= requests /\ con.written = 0
  BY DEF Progress
<1>2. /\ con.written \in Nat /\ con.written <= ResponseLength
      /\ ResponseLength \in Nat
  BY EpollAssumption DEF Con
<1>3. CASE Owed(con)
  <2>1. q + 1 \in Nat /\ q + 1 <= requests
    BY <1>1, <1>3
  <2>2. /\ ResponseLength * (q + 1) \in Nat /\ ResponseLength * requests \in Nat
        /\ ResponseLength * (q + 1) <= ResponseLength * requests
    BY <1>2, <2>1, TimesGrows
  <2>3. /\ ResponseLength * (q + 1) = ResponseLength * q + ResponseLength
        /\ ResponseLength * q \in Nat
    BY <1>2, TimesNext
  <2> QED
    BY <1>1, <1>2, <2>2, <2>3
<1>4. CASE ~Owed(con)
  <2>1. /\ ResponseLength * q \in Nat /\ ResponseLength * requests \in Nat
        /\ ResponseLength * q <= ResponseLength * requests
    BY <1>1, <1>2, <1>4, TimesGrows
  <2> QED
    BY <1>1, <1>4, <2>1
<1> QED
  BY <1>3, <1>4

\* An entry moves on: units units were sent in all, and con is what the entry
\* says of it.
LEMMA EntryKeeps ==
    ASSUME IInv, NEW fd \in ClientFds, Reads(fd),
           NEW con \in Con, NEW events \in SUBSET {"IN", "OUT"},
           NEW units \in Nat,
           cons' = [cons EXCEPT ![fd] = con],
           interest' = [interest EXCEPT ![fd] = events],
           sent' = [sent EXCEPT ![sock[fd]] = units],
           unread' \in [Conns -> 0 .. SendBuffer],
           noSpace' \in [Conns -> BOOLEAN],
           UNCHANGED <<edge, sock, state>>,
           ~EdgeTriggered => ("OUT" \in events <=> Pending(con)),
           Progress(fd, con, taken'[sock[fd]], units)
    PROVE  IInv'
<1> DEFINE c == sock[fd]
<1>1. /\ c \in Conns /\ state[c] = "open"
      /\ batch' \in [Fds -> SUBSET {"IN", "OUT"}]
      /\ batch'[fd] = {} /\ \A f \in Fds \ {fd} : batch'[f] = batch[f]
      /\ \A f \in ClientFds \ {fd} : sock[f] # c
      /\ \A d \in Conns : taken'[d] \in Nat
  BY ReadsEffect
<1>2. /\ sent' \in [Conns -> Nat] /\ sent'[c] = units
      /\ \A d \in Conns \ {c} : sent'[d] = sent[d]
  BY <1>1 DEF IInv, TypeOK
<1>3. /\ interest' \in [Fds -> SUBSET {"IN", "OUT"}] /\ interest'[fd] = events
      /\ \A f \in Fds \ {fd} : interest'[f] = interest[f]
  BY FdFacts DEF IInv, TypeOK
<1>4. /\ cons' \in [ClientFds -> Con] /\ cons'[fd] = con
      /\ \A f \in ClientFds \ {fd} : cons'[f] = cons[f]
  BY DEF IInv, TypeOK
<1>5. /\ UNCHANGED <<pc, backlog, peer, pieces, asked, edge, sock, state>>
      /\ \A d \in Conns \ {c} : taken'[d] = taken[d]
  BY DEF Reads
<1> HIDE DEF c
<1>6. TypeOK'
  <2>1. /\ reading' \in ClientFds \cup {NoFd}
        /\ inq' \in [Conns -> Seq(Piece)]
        /\ taken' \in [Conns -> 0 .. MaxRequests]
    BY DEF Reads
  <2>2. /\ pc' \in {"run", "dead"} /\ edge' \in [ClientFds -> BOOLEAN]
        /\ sock' \in [ClientFds -> Conns \cup {NoConn}]
        /\ state' \in [Conns -> {"new", "queued", "open", "closed"}]
        /\ backlog' \in Seq(Conns) /\ peer' \in [Conns -> {"up", "fin", "rst"}]
        /\ pieces' \in [Conns -> 0 .. MaxPieces]
        /\ asked' \in [Conns -> 0 .. MaxRequests]
    BY <1>5 DEF IInv, TypeOK
  <2> QED
    BY <1>1, <1>2, <1>3, <1>4, <2>1, <2>2 DEF TypeOK
<1>7. QueueHeld'
  <2>1. \A d \in Conns : state'[d] \in {"new", "queued"} =>
                            taken'[d] = 0 /\ sent'[d] = 0
    BY <1>1, <1>2, <1>5 DEF IInv, QueueHeld
  <2> QED
    BY <1>5, <2>1 DEF IInv, QueueHeld
<1>8. SocketsHeld'
  BY <1>5 DEF IInv, SocketsHeld
<1>9. ClosedHeld'
  <2>1. \A f \in ClientFds : sock'[f] = NoConn => f # fd /\ sock[f] = NoConn
    BY <1>5 DEF Reads
  <2> QED
    BY <1>1, <1>3, <1>4, <2>1, FdFacts DEF IInv, ClosedHeld
<1>10. BatchHeld'
  <2>1. \A f \in ClientFds : batch'[f] \subseteq interest'[f]
    BY <1>1, <1>3, FdFacts DEF IInv, BatchHeld
  <2>2. batch'[Listener] = batch[Listener]
    BY <1>1, FdFacts
  <2> QED
    BY <1>1, <1>5, <2>1, <2>2 DEF IInv, BatchHeld, Reads
<1>11. EntriesHeld'
  <2>1. ASSUME NEW f \in ClientFds, sock'[f] # NoConn
        PROVE  /\ Armed(f)'
               /\ Progress(f, cons'[f], taken'[sock'[f]], sent'[sock'[f]])
    <3>1. CASE f = fd
      <4>1. Armed(f)'
        BY <1>3, <1>4, <3>1 DEF Armed
      <4> QED
        BY <1>2, <1>4, <1>5, <3>1, <4>1 DEF c
    <3>2. CASE f # fd
      <4>1. sock'[f] = sock[f] /\ sock[f] \in Conns \ {c} /\ sock[f] # NoConn
        BY <1>1, <1>5, <2>1, <3>2 DEF IInv, TypeOK
      <4>2. Armed(f) /\ Progress(f, cons[f], taken[sock[f]], sent[sock[f]])
        BY <4>1 DEF IInv, EntriesHeld
      <4>3. /\ cons'[f] = cons[f] /\ interest'[f] = interest[f]
            /\ taken'[sock[f]] = taken[sock[f]] /\ sent'[sock[f]] = sent[sock[f]]
        BY <1>2, <1>3, <1>4, <1>5, <3>2, <4>1, FdFacts
      <4> QED
        BY <4>1, <4>2, <4>3 DEF Armed
    <3> QED
      BY <3>1, <3>2
  <2> QED
    BY <2>1 DEF EntriesHeld, Progress
<1>12. NeverEarly'
  <2>1. ASSUME InTime, NEW d \in Conns
        PROVE  sent'[d] <= ResponseLength * taken'[d]
    <3>1. CASE d = c
      <4>1. units <= ResponseLength * taken'[c]
        BY <1>1, <2>1, ProgressNeverEarly DEF c
      <4> QED
        BY <1>2, <3>1, <4>1
    <3>2. CASE d # c
      BY <1>2, <2>1, <3>2, ReadsNeverEarly
    <3> QED
      BY <3>1, <3>2
  <2> QED
    BY <2>1 DEF NeverEarly, NoEarlyResponse
<1>13. RequestsHeld'
  BY DEF Reads
<1> QED
  BY <1>6, <1>7, <1>8, <1>9, <1>10, <1>11, <1>12, <1>13 DEF IInv

\* q responses were sent, and a request was read for the one that is due.
Due(con, requests, units) ==
    \E q \in Nat : /\ units = ResponseLength * q + con.written
                   /\ InTime => q < requests

\* What a pending response has, and what reading another request gives.
LEMMA DueOfProgress ==
    ASSUME NEW fd, NEW con \in Con, NEW other \in Con,
           other.written = con.written,
           NEW before \in Nat, NEW after \in Nat, NEW units \in Nat,
           Progress(fd, con, before, units), before <= after,
           ~InTime \/ Owed(con) \/ before < after
    PROVE  Due(other, after, units)
<1>1. PICK q \in Nat :
         /\ units = ResponseLength * q + con.written
         /\ InTime =>
              /\ Owed(con) => q < before
              /\ ~Owed(con) => q <= before /\ con.written = 0
  BY DEF Progress
<1>2. InTime => q < after
  BY <1>1
<1> QED
  BY <1>1, <1>2 DEF Due

\* send_res, when a response is due.
LEMMA SendKeeps ==
    ASSUME IInv, NEW fd \in ClientFds, Reads(fd), NEW con \in Con,
           Pending(con) <=> Pending(cons[fd]),
           EdgeTriggered => con.readed # "none",
           Due(con, taken'[sock[fd]], sent[sock[fd]]),
           SendRes(fd, con)
    PROVE  IInv'
<1> DEFINE c == sock[fd]
           room == SendBuffer - unread[c]
           left == ResponseLength - con.written
<1>1. /\ c \in Conns /\ taken'[c] \in Nat /\ c # NoConn
  BY ReadsEffect DEF Reads
<1>2. PICK q \in Nat : /\ sent[c] = ResponseLength * q + con.written
                       /\ InTime => q < taken'[c]
  BY DEF Due
<1>3. /\ ResponseLength \in Nat \ {0} /\ SendBuffer \in Nat
      /\ con.written \in 0 .. ResponseLength - 1
      /\ unread[c] \in 0 .. SendBuffer /\ sent[c] \in Nat
      /\ interest[fd] \in SUBSET {"IN", "OUT"}
      /\ unread \in [Conns -> 0 .. SendBuffer]
      /\ noSpace \in [Conns -> BOOLEAN]
  BY <1>1, EpollAssumption, FdFacts DEF IInv, TypeOK, Con
<1>4. ~EdgeTriggered => ("OUT" \in interest[fd] <=> Pending(con))
  BY <1>1 DEF IInv, EntriesHeld, Armed
<1>5. ASSUME SendsAll(fd, con) PROVE IInv'
  <2> DEFINE events == IF con.writeEnabled THEN {"IN"} ELSE interest[fd]
  <2>1. /\ left <= room
        /\ sent' = [sent EXCEPT ![c] = sent[c] + left]
        /\ unread' = [unread EXCEPT ![c] = unread[c] + left]
        /\ UNCHANGED <<edge, sock, state, noSpace>>
        /\ cons' = [cons EXCEPT ![fd] = NewCon]
        /\ interest' = [interest EXCEPT ![fd] = events]
    BY <1>5, Zenon DEF SendsAll, Writes
  <2>2. unread' \in [Conns -> 0 .. SendBuffer]
    <3>1. unread[c] + left \in 0 .. SendBuffer
      BY <1>3, <2>1
    <3> HIDE DEF c, left, room, events
    <3> QED
      BY <1>3, <2>1, <3>1
  <2>3. events \in SUBSET {"IN", "OUT"}
    BY <1>3
  <2>4. ~EdgeTriggered => ("OUT" \in events <=> Pending(NewCon))
    <3>1. ASSUME ~EdgeTriggered PROVE "OUT" \notin events
      <4>1. CASE Pending(con)
        BY <4>1 DEF Pending
      <4>2. CASE ~Pending(con)
        <5>1. con.writeEnabled = FALSE
          BY <4>2, Zenon DEF Pending, Con
        <5> QED
          BY <1>4, <3>1, <4>2, <5>1
      <4> QED
        BY <4>1, <4>2
    <3> QED
      BY <3>1, NewConType
  <2>5. Progress(fd, NewCon, taken'[c], sent[c] + left)
    <3>1. sent[c] + left = ResponseLength * (q + 1) + 0
      BY <1>2, <1>3, TimesNext
    <3>2. InTime => q + 1 <= taken'[c]
      BY <1>1, <1>2
    <3>3. q + 1 \in Nat
      OBVIOUS
    <3> HIDE DEF c, left
    <3> QED
      BY <3>1, <3>2, <3>3, NewConType DEF Progress
  <2>6. sent[c] + left \in Nat
    BY <1>3
  <2> HIDE DEF events, left, room
  <2> QED
    BY <1>3, <2>1, <2>2, <2>3, <2>4, <2>5, <2>6, NewConType, EntryKeeps
<1>6. ASSUME SendsSome(fd, con) PROVE IInv'
  <2> DEFINE rest == [con EXCEPT !.written = @ + room,
                                 !.writeEnabled = ~EdgeTriggered]
             events == IF EdgeTriggered THEN interest[fd] ELSE {"IN", "OUT"}
  <2>1. /\ room < left
        /\ sent' = [sent EXCEPT ![c] = sent[c] + room]
        /\ unread' = [unread EXCEPT ![c] = unread[c] + room]
        /\ UNCHANGED <<edge, sock, state>>
        /\ cons' = [cons EXCEPT ![fd] = rest]
        /\ interest' = [interest EXCEPT ![fd] = events]
        /\ noSpace' = [noSpace EXCEPT ![c] = EdgeTriggered]
    BY <1>6, Zenon DEF SendsSome, Writes
  <2>2. unread' \in [Conns -> 0 .. SendBuffer]
    <3>1. unread[c] + room \in 0 .. SendBuffer
      BY <1>3
    <3> HIDE DEF c, left, room, events
    <3> QED
      BY <1>3, <2>1, <3>1
  <2>3. noSpace' \in [Conns -> BOOLEAN]
    BY <1>3, <2>1, EpollAssumption, Zenon
  <2>4. /\ rest \in Con /\ rest.written = con.written + room
        /\ ~EdgeTriggered => Pending(rest)
        /\ Owed(rest)
    <3>1. con.written + room \in 0 .. ResponseLength - 1
      BY <1>3, <2>1
    <3>2. (~EdgeTriggered) \in BOOLEAN
      OBVIOUS
    <3> HIDE DEF room
    <3>3. rest \in Con /\ rest.written = con.written + room
      BY <3>1, <3>2 DEF Con
    <3>4. rest.writeEnabled = ~EdgeTriggered /\ rest.readed = con.readed
      BY DEF Con
    <3>5. ~EdgeTriggered => Pending(rest)
      BY <3>4, Zenon DEF Pending
    <3>6. Owed(rest)
      BY <3>4, <3>5 DEF Owed
    <3> QED
      BY <3>3, <3>5, <3>6
  <2>5. events \in SUBSET {"IN", "OUT"}
    BY <1>3
  <2>6. ~EdgeTriggered => ("OUT" \in events <=> Pending(rest))
    BY <2>4
  <2> HIDE DEF rest
  <2>7. Progress(fd, rest, taken'[c], sent[c] + room)
    <3>1. sent[c] + room = ResponseLength * q + rest.written
      <4>1. ResponseLength * q \in Nat
        BY <1>3, TimesNext
      <4> QED
        BY <1>2, <1>3, <2>4, <4>1
    <3> HIDE DEF c, left, room
    <3> QED
      BY <1>2, <2>4, <3>1 DEF Progress
  <2>8. sent[c] + room \in Nat
    BY <1>3
  <2> HIDE DEF events, left, room
  <2> QED
    BY <2>1, <2>2, <2>3, <2>4, <2>5, <2>6, <2>7, <2>8, EntryKeeps
<1>7. ASSUME SendFails(fd) PROVE IInv'
  BY <1>7, ClosedKeeps DEF SendFails
<1> QED
  BY <1>5, <1>6, <1>7 DEF SendRes

\* Reading more requests takes nothing from what an entry says.
LEMMA ProgressGrows ==
    ASSUME NEW fd, NEW con \in Con, NEW other \in Con,
           other.written = con.written, InTime => (Owed(other) <=> Owed(con)),
           NEW before \in Nat, NEW after \in Nat, before <= after,
           NEW units, Progress(fd, con, before, units)
    PROVE  Progress(fd, other, after, units)
<1>1. PICK q \in Nat :
         /\ units = ResponseLength * q + con.written
         /\ InTime =>
              /\ Owed(con) => q < before
              /\ ~Owed(con) => q <= before /\ con.written = 0
  BY DEF Progress
<1>2. InTime => /\ Owed(other) => q < after
                /\ ~Owed(other) => q <= after /\ other.written = 0
  BY <1>1
<1> QED
  BY <1>1, <1>2 DEF Progress

\* What the invariant says of an open descriptor.
LEMMA OpenEntry ==
    ASSUME IInv, NEW fd \in ClientFds, sock[fd] # NoConn
    PROVE  /\ sock[fd] \in Conns
           /\ cons \in [ClientFds -> Con] /\ cons[fd] \in Con
           /\ interest \in [Fds -> SUBSET {"IN", "OUT"}]
           /\ interest[fd] \in SUBSET {"IN", "OUT"}
           /\ taken \in [Conns -> 0 .. MaxRequests] /\ taken[sock[fd]] \in Nat
           /\ sent \in [Conns -> Nat] /\ sent[sock[fd]] \in Nat
           /\ ~EdgeTriggered => ("OUT" \in interest[fd] <=> Pending(cons[fd]))
           /\ Progress(fd, cons[fd], taken[sock[fd]], sent[sock[fd]])
<1>1. /\ sock[fd] \in Conns
      /\ cons \in [ClientFds -> Con] /\ interest \in [Fds -> SUBSET {"IN", "OUT"}]
      /\ taken \in [Conns -> 0 .. MaxRequests] /\ sent \in [Conns -> Nat]
  BY DEF IInv, TypeOK
<1>2. MaxRequests \in Nat /\ fd \in Fds
  BY EpollAssumption, FdFacts
<1>3. Armed(fd) /\ Progress(fd, cons[fd], taken[sock[fd]], sent[sock[fd]])
  BY DEF IInv, EntriesHeld
<1> QED
  BY <1>1, <1>2, <1>3 DEF Armed

\* A step that only takes the event out of the batch.
LEMMA HandledKeeps ==
    ASSUME IInv, NEW fd \in ClientFds, sock[fd] # NoConn, Handled(fd),
           reading' = NoFd,
           UNCHANGED <<pc, cons, interest, edge, sock, netVars, history>>
    PROVE  IInv'
<1>1. UNCHANGED <<pc, cons, interest, edge, sock, state, backlog, peer, inq,
                  unread, noSpace, pieces, asked, taken, sent>>
  BY DEF netVars, history
<1>2. Reads(fd)
  <2>1. /\ inq \in [Conns -> Seq(Piece)] /\ taken \in [Conns -> 0 .. MaxRequests]
        /\ \A d \in Conns : taken[d] \in Nat
    <3>1. MaxRequests \in Nat
      BY EpollAssumption
    <3> QED
      BY <3>1 DEF IInv, TypeOK
  <2>2. RequestsHeld'
    BY <1>1 DEF IInv, RequestsHeld
  <2> QED
    BY <1>1, <2>1, <2>2 DEF Reads
<1> DEFINE con == cons[fd]
           events == interest[fd]
           units == sent[sock[fd]]
<1>3. /\ con \in Con /\ events \in SUBSET {"IN", "OUT"} /\ units \in Nat
      /\ ~EdgeTriggered => ("OUT" \in events <=> Pending(con))
      /\ Progress(fd, con, taken'[sock[fd]], units)
  BY <1>1, OpenEntry
<1>4. /\ cons' = [cons EXCEPT ![fd] = con]
      /\ interest' = [interest EXCEPT ![fd] = events]
      /\ sent' = [sent EXCEPT ![sock[fd]] = units]
  BY <1>1, OpenEntry, FdFacts
<1>5. unread' \in [Conns -> 0 .. SendBuffer] /\ noSpace' \in [Conns -> BOOLEAN]
  BY <1>1 DEF IInv, TypeOK
<1>6. UNCHANGED <<edge, sock, state>>
  BY <1>1
<1> HIDE DEF con, events, units
<1> QED
  BY <1>2, <1>3, <1>4, <1>5, <1>6, EntryKeeps

\* One read() that gets something, and send_res if that completes a request.
LEMMA ReadDataStep ==
    ASSUME IInv, NEW fd \in ClientFds, ReadData(fd)
    PROVE  IInv'
<1> DEFINE c == sock[fd]
           k(n) == Cardinality({i \in 1 .. n : inq[c][i] = "end"})
           con(n) == [cons[fd] EXCEPT !.readed = inq[c][n]]
<1>1. /\ c # NoConn /\ inq[c] # << >> /\ reading' = fd /\ Handled(fd)
      /\ UNCHANGED <<pc, backlog, peer, pieces, asked>>
  BY DEF ReadData
<1>2. PICK n \in 1 .. Len(inq[c]) :
         /\ inq' = [inq EXCEPT ![c] = SubSeq(inq[c], n + 1, Len(inq[c]))]
         /\ taken' = [taken EXCEPT ![c] = taken[c] + k(n)]
         /\ IF Complete(con(n).readed)
            THEN SendRes(fd, con(n))
            ELSE /\ cons' = [cons EXCEPT ![fd] = con(n)]
                 /\ UNCHANGED <<interest, edge, sock, state, unread, noSpace,
                                sent>>
  BY Zenon DEF ReadData
<1>3. /\ c \in Conns /\ inq \in [Conns -> Seq(Piece)]
      /\ inq[c] \in Seq(Piece) /\ inq[c][n] \in Piece
  <2>1. c \in Conns /\ inq \in [Conns -> Seq(Piece)]
    BY <1>1 DEF IInv, TypeOK
  <2>2. inq[c] \in Seq(Piece)
    BY <2>1
  <2> QED
    BY <2>1, <2>2, ElementOfSeq
<1>4. /\ inq'[c] \in Seq(Piece)
      /\ k(n) \in Nat /\ Ends(inq'[c]) \in Nat
      /\ Ends(inq[c]) = k(n) + Ends(inq'[c])
      /\ inq[c][n] = "end" => k(n) >= 1
  <2>1. inq'[c] = SubSeq(inq[c], n + 1, Len(inq[c]))
    BY <1>2, <1>3
  <2> QED
    BY <1>3, <2>1, EndsOfRest
<1>5. /\ cons[fd] \in Con /\ taken[c] \in Nat /\ sent[c] \in Nat
      /\ Progress(fd, cons[fd], taken[c], sent[c])
  BY <1>1, OpenEntry
<1>6. /\ con(n) \in Con /\ con(n).readed = inq[c][n]
      /\ con(n).written = cons[fd].written
      /\ Pending(con(n)) <=> Pending(cons[fd])
  BY <1>3, <1>5 DEF Con, Pending
<1>7. taken'[c] = taken[c] + k(n) /\ \A d \in Conns \ {c} : taken'[d] = taken[d]
  BY <1>1, <1>2, <1>3, OpenEntry
<1> HIDE DEF k
<1>8. Reads(fd)
  <2>1. asked[c] = taken'[c] + Ends(inq'[c])
    <3>1. asked[c] = taken[c] + Ends(inq[c])
      BY <1>3 DEF IInv, RequestsHeld
    <3> QED
      BY <1>4, <1>5, <1>7, <3>1
  <2>2. taken'[c] \in 0 .. MaxRequests
    <3>1. asked[c] \in 0 .. MaxRequests /\ MaxRequests \in Nat
      BY <1>3, EpollAssumption DEF IInv, TypeOK
    <3> QED
      BY <1>4, <1>5, <1>7, <2>1, <3>1, SMTT(30)
  <2>3. /\ taken' \in [Conns -> 0 .. MaxRequests]
        /\ \A d \in Conns : taken[d] <= taken'[d]
    <3>1. taken \in [Conns -> 0 .. MaxRequests] /\ MaxRequests \in Nat
      BY EpollAssumption DEF IInv, TypeOK
    <3>2. \A d \in Conns : taken[d] \in Nat
      BY <3>1
    <3> QED
      BY <1>2, <1>3, <1>4, <1>5, <1>7, <2>2, <3>1, <3>2
  <2>4. inq' \in [Conns -> Seq(Piece)]
    BY <1>2, <1>3, <1>4
  <2>5. RequestsHeld'
    <3>1. \A d \in Conns \ {c} : inq'[d] = inq[d]
      BY <1>2, <1>3
    <3>2. ASSUME MaxPieces = 1, NEW i \in 1 .. Len(inq'[c])
          PROVE  inq'[c][i] = "end"
      <4>1. \A m \in 1 .. Len(inq[c]) : inq[c][m] = "end"
        BY <1>3, <3>2 DEF IInv, RequestsHeld
      <4>2. Len(inq[c]) \in Nat /\ n \in Nat
        BY <1>3, LenProperties
      <4>3. inq'[c] = SubSeq(inq[c], n + 1, Len(inq[c]))
        BY <1>2, <1>3
      <4>4. /\ Len(inq'[c]) = Len(inq[c]) - n
            /\ inq'[c][i] = inq[c][n + i]
        BY <1>3, <3>2, <4>2, <4>3
      <4> QED
        BY <3>2, <4>1, <4>2, <4>4
    <3> QED
      BY <1>1, <1>7, <2>1, <3>1, <3>2 DEF IInv, RequestsHeld
  <2> QED
    BY <1>1, <1>7, <2>3, <2>4, <2>5 DEF Reads
<1>9. taken'[c] \in Nat /\ taken[c] <= taken'[c]
  BY <1>4, <1>5, <1>7
<1> HIDE DEF con
<1>10. CASE Complete(con(n).readed)
  <2>1. taken[c] < taken'[c]
    BY <1>4, <1>5, <1>6, <1>7, <1>10 DEF Complete
  <2>2. Due(con(n), taken'[c], sent[c])
    BY <1>5, <1>6, <1>9, <2>1, DueOfProgress
  <2>3. con(n).readed # "none"
    BY <1>10 DEF Complete
  <2> QED
    BY <1>2, <1>6, <1>8, <1>10, <2>2, <2>3, SendKeeps
<1>11. CASE ~Complete(con(n).readed)
  <2>1. /\ cons' = [cons EXCEPT ![fd] = con(n)]
        /\ UNCHANGED <<interest, edge, sock, state, unread, noSpace, sent>>
    BY <1>2, <1>11
  <2>2. Progress(fd, con(n), taken'[c], sent[c])
    <3>1. MaxPieces # 1
      BY <1>3, <1>6, <1>11 DEF Complete, IInv, RequestsHeld
    <3>2. InTime => (Owed(con(n)) <=> Owed(cons[fd]))
      BY <1>6, <3>1 DEF InTime, Owed
    <3> QED
      BY <1>5, <1>6, <1>9, <3>2, ProgressGrows
  <2>3. /\ interest[fd] \in SUBSET {"IN", "OUT"}
        /\ ~EdgeTriggered => ("OUT" \in interest[fd] <=> Pending(con(n)))
        /\ interest' = [interest EXCEPT ![fd] = interest[fd]]
        /\ sent' = [sent EXCEPT ![c] = sent[c]]
    BY <1>1, <1>6, <2>1, OpenEntry, FdFacts
  <2>4. unread' \in [Conns -> 0 .. SendBuffer] /\ noSpace' \in [Conns -> BOOLEAN]
    BY <2>1 DEF IInv, TypeOK
  <2> QED
    BY <1>5, <1>6, <1>8, <2>1, <2>2, <2>3, <2>4, EntryKeeps
<1> QED
  BY <1>10, <1>11

\* EAGAIN, and an edge-triggered EPOLLOUT with nothing to write.
LEMMA ReadAgainStep ==
    ASSUME IInv, NEW fd \in ClientFds, ReadAgain(fd)
    PROVE  IInv'
BY HandledKeeps DEF ReadAgain

LEMMA NothingToWriteStep ==
    ASSUME IInv, NEW fd \in ClientFds, NothingToWrite(fd)
    PROVE  IInv'
<1>1. sock[fd] # NoConn
  BY DEF NothingToWrite, IInv, ClosedHeld
<1>2. reading' = NoFd
  BY DEF NothingToWrite
<1> QED
  BY <1>1, <1>2, HandledKeeps DEF NothingToWrite

\* The end of the client closes its descriptor.
LEMMA ReadEndStep ==
    ASSUME IInv, NEW fd \in ClientFds, ReadEnd(fd)
    PROVE  IInv'
<1>1. /\ sock[fd] # NoConn /\ Close(fd) /\ reading' = NoFd /\ Handled(fd)
      /\ UNCHANGED <<pc, backlog, peer, inq, unread, noSpace>>
      /\ UNCHANGED <<pieces, asked, taken, sent>>
  BY DEF ReadEnd, history
<1>2. Reads(fd)
  <2>1. /\ inq \in [Conns -> Seq(Piece)] /\ taken \in [Conns -> 0 .. MaxRequests]
        /\ \A d \in Conns : taken[d] \in Nat
    <3>1. MaxRequests \in Nat
      BY EpollAssumption
    <3> QED
      BY <3>1 DEF IInv, TypeOK
  <2>2. RequestsHeld'
    BY <1>1 DEF IInv, RequestsHeld
  <2> QED
    BY <1>1, <2>1, <2>2 DEF Reads
<1> QED
  BY <1>1, <1>2, ClosedKeeps

\* read() on what send_res has closed: the entry is gone already.
LEMMA ReadClosedStep ==
    ASSUME IInv, NEW fd \in ClientFds, ReadClosed(fd)
    PROVE  IInv'
<1>1. /\ reading' = NoFd /\ sock[fd] = NoConn
      /\ cons' = [cons EXCEPT ![fd] = NewCon]
      /\ UNCHANGED <<pc, interest, batch, edge, sock, state, backlog, peer, inq,
                     unread, noSpace, pieces, asked, taken, sent>>
  BY DEF ReadClosed, netVars, history
<1>2. cons' = cons
  <2>1. cons[fd] = NewCon /\ cons \in [ClientFds -> Con]
    BY <1>1 DEF IInv, ClosedHeld, TypeOK
  <2> QED
    BY <1>1, <2>1
<1>3. TypeOK'
  BY <1>1, <1>2 DEF IInv, TypeOK
<1>4. QueueHeld' /\ SocketsHeld' /\ ClosedHeld'
  BY <1>1, <1>2 DEF IInv, QueueHeld, SocketsHeld, ClosedHeld
<1>5. BatchHeld'
  BY <1>1 DEF IInv, BatchHeld
<1>6. EntriesHeld' /\ NeverEarly' /\ RequestsHeld'
  BY <1>1, <1>2 DEF IInv, EntriesHeld, Armed, Progress, NeverEarly,
                    NoEarlyResponse, RequestsHeld
<1> QED
  BY <1>3, <1>4, <1>5, <1>6 DEF IInv

\* EPOLLOUT: level-triggered it is only registered while a response is pending,
\* edge-triggered it does nothing when nothing has been read.
LEMMA HandleWriteStep ==
    ASSUME IInv, NEW fd \in ClientFds, HandleWrite(fd)
    PROVE  IInv'
<1>1. /\ batch[fd] = {"OUT"} /\ reading = NoFd /\ Handled(fd)
      /\ EdgeTriggered => cons[fd].readed # "none"
      /\ SendRes(fd, cons[fd])
      /\ UNCHANGED <<pc, reading, backlog, peer, inq, pieces, asked, taken>>
  BY DEF HandleWrite
<1>2. sock[fd] # NoConn /\ "OUT" \in interest[fd]
  BY <1>1 DEF IInv, ClosedHeld, BatchHeld
<1>3. Reads(fd)
  <2>1. /\ inq \in [Conns -> Seq(Piece)] /\ taken \in [Conns -> 0 .. MaxRequests]
        /\ \A d \in Conns : taken[d] \in Nat
    <3>1. MaxRequests \in Nat
      BY EpollAssumption
    <3> QED
      BY <3>1 DEF IInv, TypeOK
  <2>2. RequestsHeld'
    BY <1>1 DEF IInv, RequestsHeld
  <2> QED
    BY <1>1, <1>2, <2>1, <2>2 DEF Reads
<1>4. Due(cons[fd], taken'[sock[fd]], sent[sock[fd]])
  <2>1. Owed(cons[fd])
    BY <1>1, <1>2, OpenEntry DEF Owed
  <2> QED
    BY <1>1, <1>2, <2>1, OpenEntry, DueOfProgress
<1> QED
  BY <1>1, <1>2, <1>3, <1>4, OpenEntry, SendKeeps

-----------------------------------------------------------------------------
(* The clients.                                                            *)

\* A step of a client that leaves the queue, the sockets and the counts.
LEMMA ClientKeeps ==
    ASSUME IInv,
           edge' \in [ClientFds -> BOOLEAN], peer' \in [Conns -> {"up", "fin", "rst"}],
           unread' \in [Conns -> 0 .. SendBuffer], noSpace' \in [Conns -> BOOLEAN],
           inq' \in [Conns -> Seq(Piece)],
           pieces' \in [Conns -> 0 .. MaxPieces],
           asked' \in [Conns -> 0 .. MaxRequests], RequestsHeld',
           UNCHANGED <<serverVars, sock, state, backlog, taken, sent>>
    PROVE  IInv'
<1>1. UNCHANGED <<pc, cons, interest, batch, reading, sock, state, backlog,
                  taken, sent>>
  BY DEF serverVars
<1>2. TypeOK'
  BY <1>1 DEF IInv, TypeOK
<1>3. QueueHeld' /\ SocketsHeld' /\ ClosedHeld' /\ BatchHeld'
  BY <1>1 DEF IInv, QueueHeld, SocketsHeld, ClosedHeld, BatchHeld
<1>4. EntriesHeld' /\ NeverEarly'
  BY <1>1 DEF IInv, EntriesHeld, Armed, Progress, NeverEarly, NoEarlyResponse
<1> QED
  BY <1>2, <1>3, <1>4 DEF IInv

\* What happens to a connection wakes its descriptor at most.
LEMMA WakesType ==
    ASSUME IInv, NEW c \in Conns, Wakes(c)
    PROVE  edge' \in [ClientFds -> BOOLEAN]
BY Zenon DEF Wakes

LEMMA ClientWriteStep ==
    ASSUME IInv, NEW c \in Conns, NEW piece \in Piece, ClientWrite(c, piece)
    PROVE  IInv'
<1>1. /\ inq' = [inq EXCEPT ![c] = Append(inq[c], piece)]
      /\ pieces' = [pieces EXCEPT ![c] = IF piece = "end" THEN 0 ELSE pieces[c] + 1]
      /\ asked' = [asked EXCEPT ![c] = IF piece = "end" THEN asked[c] + 1
                                                        ELSE asked[c]]
      /\ asked[c] < MaxRequests
      /\ piece = "part" => pieces[c] + 1 < MaxPieces
      /\ UNCHANGED <<serverVars, sock, state, backlog, peer, unread, noSpace,
                     taken, sent>>
  BY DEF ClientWrite
<1>2. /\ MaxPieces \in Nat /\ MaxRequests \in Nat
      /\ inq \in [Conns -> Seq(Piece)] /\ inq[c] \in Seq(Piece)
      /\ pieces \in [Conns -> 0 .. MaxPieces] /\ pieces[c] \in 0 .. MaxPieces
      /\ asked \in [Conns -> 0 .. MaxRequests] /\ asked[c] \in 0 .. MaxRequests
      /\ taken[c] \in 0 .. MaxRequests
  BY EpollAssumption DEF IInv, TypeOK
<1>3. edge' \in [ClientFds -> BOOLEAN]
  BY WakesType DEF ClientWrite
<1>4. inq' \in [Conns -> Seq(Piece)]
  <2>1. Append(inq[c], piece) \in Seq(Piece)
    BY <1>2, AppendProperties
  <2> QED
    BY <1>1, <1>2, <2>1
<1>5. pieces' \in [Conns -> 0 .. MaxPieces]
  <2>1. (IF piece = "end" THEN 0 ELSE pieces[c] + 1) \in 0 .. MaxPieces
    BY <1>1, <1>2 DEF Piece
  <2> QED
    BY <1>1, <1>2, <2>1
<1>6. asked' \in [Conns -> 0 .. MaxRequests]
  <2>1. (IF piece = "end" THEN asked[c] + 1 ELSE asked[c]) \in 0 .. MaxRequests
    BY <1>1, <1>2
  <2> QED
    BY <1>1, <1>2, <2>1
<1>7. RequestsHeld'
  <2>1. asked'[c] = taken'[c] + Ends(inq'[c])
    <3>1. asked[c] = taken[c] + Ends(inq[c])
      BY DEF IInv, RequestsHeld
    <3>2. Ends(inq[c]) \in Nat
      <4>1. Len(inq[c]) \in Nat
        BY <1>2, LenProperties
      <4> QED
        BY <1>2, <4>1, EndsType DEF Ends
    <3>3. Ends(inq'[c]) = Ends(inq[c]) + (IF piece = "end" THEN 1 ELSE 0)
      <4>1. inq'[c] = Append(inq[c], piece)
        BY <1>1, <1>2
      <4> QED
        BY <1>2, <4>1, EndsOfAppend
    <3>4. asked'[c] = asked[c] + (IF piece = "end" THEN 1 ELSE 0)
      BY <1>1, <1>2
    <3> QED
      BY <1>1, <1>2, <3>1, <3>2, <3>3, <3>4, SMTT(30)
  <2>2. \A d \in Conns \ {c} : asked'[d] = asked[d] /\ inq'[d] = inq[d]
    BY <1>1, <1>2
  <2>3. ASSUME MaxPieces = 1, NEW i \in 1 .. Len(inq'[c])
        PROVE  inq'[c][i] = "end"
    <3>1. piece = "end"
      BY <1>1, <1>2, <2>3 DEF Piece
    <3>2. \A m \in 1 .. Len(inq[c]) : inq[c][m] = "end"
      BY <2>3 DEF IInv, RequestsHeld
    <3>3. inq'[c] = Append(inq[c], piece)
      BY <1>1, <1>2
    <3> QED
      BY <1>2, <3>1, <3>2, <3>3
  <2> QED
    BY <1>1, <2>1, <2>2, <2>3 DEF IInv, RequestsHeld
<1> QED
  BY <1>1, <1>3, <1>4, <1>5, <1>6, <1>7, ClientKeeps DEF IInv, TypeOK

LEMMA ClientEndsStep ==
    ASSUME IInv, NEW c \in Conns, NEW how \in {"fin", "rst"}, ClientEnds(c, how)
    PROVE  IInv'
<1>1. /\ peer' = [peer EXCEPT ![c] = how]
      /\ UNCHANGED <<serverVars, sock, state, backlog, inq, unread, noSpace,
                     pieces, asked, taken, sent>>
  BY DEF ClientEnds, history
<1>2. edge' \in [ClientFds -> BOOLEAN]
  BY WakesType DEF ClientEnds
<1>3. peer' \in [Conns -> {"up", "fin", "rst"}]
  BY <1>1 DEF IInv, TypeOK
<1>4. RequestsHeld'
  BY <1>1 DEF IInv, RequestsHeld
<1> QED
  BY <1>1, <1>2, <1>3, <1>4, ClientKeeps DEF IInv, TypeOK

LEMMA ClientReadStep ==
    ASSUME IInv, NEW c \in Conns, ClientRead(c)
    PROVE  IInv'
<1>1. UNCHANGED <<serverVars, sock, state, backlog, peer, inq, pieces, asked,
                  taken, sent>>
  BY DEF ClientRead, history
<1>2. PICK n \in 0 .. unread[c] - 1 :
         /\ unread' = [unread EXCEPT ![c] = n]
         /\ IF noSpace[c] /\ n <= LowWater
            THEN noSpace' = [noSpace EXCEPT ![c] = FALSE] /\ Wakes(c)
            ELSE UNCHANGED <<noSpace, edge>>
  BY DEF ClientRead
<1>3. unread' \in [Conns -> 0 .. SendBuffer]
  <2>1. unread \in [Conns -> 0 .. SendBuffer] /\ SendBuffer \in Nat
    BY EpollAssumption DEF IInv, TypeOK
  <2>2. unread[c] \in 0 .. SendBuffer
    BY <2>1
  <2>3. n \in 0 .. SendBuffer
    BY <2>1, <2>2
  <2> QED
    BY <1>2, <2>1, <2>3
<1>4. noSpace' \in [Conns -> BOOLEAN] /\ edge' \in [ClientFds -> BOOLEAN]
  <2>1. noSpace \in [Conns -> BOOLEAN] /\ edge \in [ClientFds -> BOOLEAN]
    BY DEF IInv, TypeOK
  <2>2. CASE noSpace[c] /\ n <= LowWater
    <3>1. noSpace' = [noSpace EXCEPT ![c] = FALSE] /\ Wakes(c)
      BY <1>2, <2>2
    <3>2. noSpace' \in [Conns -> BOOLEAN]
      BY <2>1, <3>1
    <3> QED
      BY <3>1, <3>2, WakesType
  <2>3. CASE ~(noSpace[c] /\ n <= LowWater)
    BY <1>2, <2>1, <2>3
  <2> QED
    BY <2>2, <2>3
<1>5. RequestsHeld'
  BY <1>1 DEF IInv, RequestsHeld
<1> QED
  BY <1>1, <1>3, <1>4, <1>5, ClientKeeps DEF IInv, TypeOK

\* A connection joins the end of the queue; no descriptor has it.
LEMMA ConnectStep ==
    ASSUME IInv, NEW c \in Conns, Connect(c)
    PROVE  IInv'
<1>1. /\ state[c] = "new"
      /\ state' = [state EXCEPT ![c] = "queued"]
      /\ backlog' = Append(backlog, c)
      /\ UNCHANGED <<pc, cons, interest, batch, reading, edge, sock, peer, inq,
                     unread, noSpace, pieces, asked, taken, sent>>
  BY DEF Connect, serverVars, history
<1>2. /\ Len(backlog) \in Nat
      /\ Append(backlog, c) \in Seq(Conns)
      /\ Append(backlog, c) # << >>
      /\ Len(Append(backlog, c)) = Len(backlog) + 1
      /\ \A i \in 1 .. Len(backlog) : Append(backlog, c)[i] = backlog[i]
      /\ Append(backlog, c)[Len(backlog) + 1] = c
  <2>1. backlog \in Seq(Conns)
    BY DEF IInv, TypeOK
  <2> QED
    BY <2>1, AppendProperties, LenProperties
<1>3. /\ state' \in [Conns -> {"new", "queued", "open", "closed"}]
      /\ state'[c] = "queued" /\ \A d \in Conns \ {c} : state'[d] = state[d]
  BY <1>1 DEF IInv, TypeOK
<1>4. TypeOK'
  BY <1>1, <1>2, <1>3 DEF IInv, TypeOK
<1>5. \A i \in 1 .. Len(backlog) :
         backlog[i] \in Conns /\ backlog[i] # c /\ state[backlog[i]] = "queued"
  BY <1>1, ElementOfSeq DEF IInv, TypeOK, QueueHeld
<1>6. QueueHeld'
  <2>1. ASSUME NEW i \in 1 .. Len(backlog')
        PROVE  \/ i \in 1 .. Len(backlog) /\ backlog'[i] = backlog[i]
               \/ i = Len(backlog) + 1 /\ backlog'[i] = c
    BY <1>1, <1>2
  <2>2. \A i \in 1 .. Len(backlog') : state'[backlog'[i]] = "queued"
    BY <1>3, <1>5, <2>1
  <2>3. \A i, j \in 1 .. Len(backlog') : backlog'[i] = backlog'[j] => i = j
    BY <1>5, <2>1 DEF IInv, QueueHeld
  <2>4. \A d \in Conns : state'[d] \in {"new", "queued"} =>
                            taken'[d] = 0 /\ sent'[d] = 0
    BY <1>1, <1>3 DEF IInv, QueueHeld
  <2> QED
    BY <2>2, <2>3, <2>4 DEF QueueHeld
<1>7. SocketsHeld'
  <2>1. \A fd \in ClientFds : sock[fd] # NoConn =>
           sock[fd] \in Conns \ {c} /\ state[sock[fd]] = "open"
    BY <1>1 DEF IInv, TypeOK, SocketsHeld
  <2> QED
    BY <1>1, <1>3, <2>1 DEF IInv, SocketsHeld
<1>8. ClosedHeld' /\ BatchHeld'
  BY <1>1, <1>2 DEF IInv, ClosedHeld, BatchHeld
<1>9. EntriesHeld' /\ NeverEarly' /\ RequestsHeld'
  BY <1>1 DEF IInv, EntriesHeld, Armed, Progress, NeverEarly, NoEarlyResponse,
              RequestsHeld
<1> QED
  BY <1>4, <1>6, <1>7, <1>8, <1>9 DEF IInv

-----------------------------------------------------------------------------
(* The theorems.                                                           *)

LEMMA NextStep == IInv /\ [Next]_vars => IInv'
<1> SUFFICES ASSUME IInv, [Next]_vars PROVE IInv'
  OBVIOUS
<1>1. CASE EpollWait
  BY <1>1, EpollWaitStep
<1>2. CASE HandleAccept
  BY <1>2, HandleAcceptStep
<1>3. CASE AcceptExits
  BY <1>3, AcceptExitsStep
<1>4. ASSUME NEW fd \in ClientFds, ReadData(fd) \/ ReadAgain(fd) \/ ReadEnd(fd)
      PROVE  IInv'
  BY <1>4, ReadDataStep, ReadAgainStep, ReadEndStep
<1>5. ASSUME NEW fd \in ClientFds,
             ReadClosed(fd) \/ HandleWrite(fd) \/ NothingToWrite(fd)
      PROVE  IInv'
  BY <1>5, ReadClosedStep, HandleWriteStep, NothingToWriteStep
<1>6. ASSUME NEW c \in Conns, Connect(c) \/ ClientRead(c)
      PROVE  IInv'
  BY <1>6, ConnectStep, ClientReadStep
<1>7. ASSUME NEW c \in Conns, NEW piece \in Piece, ClientWrite(c, piece)
      PROVE  IInv'
  BY <1>7, ClientWriteStep
<1>8. ASSUME NEW c \in Conns, NEW how \in {"fin", "rst"}, ClientEnds(c, how)
      PROVE  IInv'
  BY <1>8, ClientEndsStep
<1>9. CASE UNCHANGED vars
  <2>1. UNCHANGED <<pc, cons, interest, batch, reading, edge, sock, state,
                    backlog, peer, inq, unread, noSpace, pieces, asked, taken,
                    sent>>
    BY <1>9 DEF vars, serverVars, netVars, history
  <2> QED
    <3>1. TypeOK'
      BY <2>1 DEF IInv, TypeOK
    <3>2. QueueHeld' /\ SocketsHeld'
      BY <2>1 DEF IInv, QueueHeld, SocketsHeld
    <3>3. ClosedHeld' /\ BatchHeld'
      BY <2>1 DEF IInv, ClosedHeld, BatchHeld
    <3>4. EntriesHeld'
      BY <2>1 DEF IInv, EntriesHeld, Armed, Progress
    <3>5. NeverEarly' /\ RequestsHeld'
      BY <2>1 DEF IInv, NeverEarly, NoEarlyResponse, RequestsHeld
    <3> QED
      BY <3>1, <3>2, <3>3, <3>4, <3>5 DEF IInv
<1> QED
  BY <1>1, <1>2, <1>3, <1>4, <1>5, <1>6, <1>7, <1>8, <1>9
  DEF Next, Server, Environment

\* The inductive invariant of both servers.
THEOREM Invariance == Spec => []IInv
<1> QED
  BY InitHolds, NextStep, PTL DEF Spec

\* Every variable of either server keeps its type, so that no response is
\* written past its end and no send buffer is overrun.
THEOREM TypeCorrect == Spec => []TypeOK
<1>1. IInv => TypeOK
  BY DEF IInv
<1> QED
  BY <1>1, Invariance, PTL

\* No response of either server starts in the middle or over again, although
\* cons is indexed by numbers that connections share.
THEOREM WholeCorrect == Spec => []ResponsesWhole
<1>1. IInv => ResponsesWhole
  <2> SUFFICES ASSUME IInv, NEW fd \in ClientFds
               PROVE  IF sock[fd] = NoConn THEN cons[fd] = NewCon
                      ELSE sent[sock[fd]] % ResponseLength = cons[fd].written
    BY DEF ResponsesWhole
  <2>1. CASE sock[fd] = NoConn
    BY <2>1 DEF IInv, ClosedHeld
  <2>2. CASE sock[fd] # NoConn
    <3>1. /\ cons[fd] \in Con
          /\ Progress(fd, cons[fd], taken[sock[fd]], sent[sock[fd]])
      BY <2>2, OpenEntry
    <3>2. PICK q \in Nat :
             sent[sock[fd]] = ResponseLength * q + cons[fd].written
      BY <3>1 DEF Progress
    <3>3. cons[fd].written \in 0 .. ResponseLength - 1
      BY <3>1 DEF Con
    <3>4. ResponseLength \in Nat \ {0}
      BY EpollAssumption
    <3> QED
      BY <2>2, <3>2, <3>3, <3>4, Remainder
  <2> QED
    BY <2>1, <2>2
<1> QED
  BY <1>1, Invariance, PTL

\* The level-triggered server registers EPOLLOUT exactly while a part of a
\* response waits for room: it neither spins nor forgets a response.
THEOREM InterestCorrect ==
    ASSUME ~EdgeTriggered
    PROVE  Spec => []WriteInterest
<1>1. IInv => WriteInterest
  <2> SUFFICES ASSUME IInv, NEW fd \in ClientFds,
                      sock[fd] # NoConn
               PROVE  /\ "OUT" \in interest[fd] <=> cons[fd].writeEnabled
                      /\ cons[fd].writeEnabled =>
                            cons[fd].written < ResponseLength
                      /\ sent[sock[fd]] % ResponseLength # 0 =>
                            cons[fd].writeEnabled
    BY Zenon DEF WriteInterest
  <2>1. /\ cons[fd] \in Con
        /\ "OUT" \in interest[fd] <=> Pending(cons[fd])
        /\ Progress(fd, cons[fd], taken[sock[fd]], sent[sock[fd]])
    BY OpenEntry
  <2>2. /\ cons[fd].writeEnabled \in BOOLEAN
        /\ cons[fd].written \in 0 .. ResponseLength - 1
    BY <2>1 DEF Con
  <2>3. ResponseLength \in Nat \ {0}
    BY EpollAssumption
  <2>4. cons[fd].writeEnabled <=> Pending(cons[fd])
    BY <2>2, Zenon DEF Pending
  <2>5. ASSUME ~Pending(cons[fd])
        PROVE  sent[sock[fd]] % ResponseLength = 0
    <3>1. PICK q \in Nat : /\ sent[sock[fd]] = ResponseLength * q + cons[fd].written
                           /\ cons[fd].written = 0
      BY <2>1, <2>5 DEF Progress, InTime, Owed
    <3>2. 0 \in 0 .. ResponseLength - 1
      BY <2>3
    <3> QED
      BY <2>3, <3>1, <3>2, Remainder
  <2>6. cons[fd].written < ResponseLength
    BY <2>2, <2>3
  <2> QED
    BY <2>1, <2>4, <2>5, <2>6, Zenon
<1> QED
  BY <1>1, Invariance, PTL

\* No client is sent more responses than the server has read requests: the
\* level-triggered server in whatever pieces they arrive, the edge-triggered
\* one when each arrives in one piece, pipelined or not.
THEOREM EarlyCorrect ==
    ASSUME InTime
    PROVE  Spec => []NoEarlyResponse
<1>1. IInv => NoEarlyResponse
  BY DEF IInv, NeverEarly
<1> QED
  BY <1>1, Invariance, PTL

-----------------------------------------------------------------------------
(***************************************************************************)
(* The servers implement the abstract HTTP service, the edge-triggered one *)
(* when each request arrives in one piece: every step of the program or of *)
(* a client is a step of the service or a stutter.                         *)
(***************************************************************************)

Simulates == [Service!HttpNext]_(Service!httpVars)

-----------------------------------------------------------------------------
(* What the service sees of a step.                                        *)

\* A step that neither moves a connection nor serves it is a stutter.
LEMMA Stutters ==
    ASSUME UNCHANGED <<state, peer, asked, sent>>
    PROVE  Simulates
BY DEF Simulates, Service!httpVars, Accepting

\* Accepting is state to which being in the listener's queue is nothing.
LEMMA AcceptingMoves ==
    ASSUME IInv, NEW c \in Conns, NEW s \in {"open", "closed"},
           state' = [state EXCEPT ![c] = s]
    PROVE  Accepting' = [Accepting EXCEPT ![c] = s]
BY DEF Accepting, IInv, TypeOK

\* What is written to a connection is part of a response it asked for.
LEMMA Responds ==
    ASSUME InTime, IInv, IInv',
           NEW c \in Conns, state[c] = "open", NEW n \in Nat,
           sent' = [sent EXCEPT ![c] = sent[c] + n],
           UNCHANGED <<state, peer, asked>>
    PROVE  Simulates
<1>1. sent \in [Conns -> Nat] /\ sent[c] \in Nat
  BY DEF IInv, TypeOK
<1>2. sent'[c] = sent[c] + n
  BY <1>1
<1>3. CASE n = 0
  <2>1. sent' = sent
    BY <1>1, <1>3
  <2> QED
    BY <2>1, Stutters
<1>4. CASE n # 0
  <2>1. ResponseLength \in Nat
    BY EpollAssumption
  <2>2. /\ taken'[c] \in Nat /\ asked[c] \in Nat
        /\ asked[c] = taken'[c] + Ends(inq'[c]) /\ Ends(inq'[c]) \in Nat
    <3>1. inq'[c] \in Seq(Piece) /\ taken'[c] \in 0 .. MaxRequests
          /\ asked[c] \in 0 .. MaxRequests
      BY DEF IInv, TypeOK
    <3>2. asked[c] = taken'[c] + Ends(inq'[c])
      BY DEF IInv, RequestsHeld
    <3>3. Len(inq'[c]) \in Nat
      BY <3>1, LenProperties
    <3>4. Ends(inq'[c]) \in Nat
      BY <3>1, <3>3, EndsType DEF Ends
    <3> QED
      BY <3>1, <3>2, <3>4, EpollAssumption
  <2>3. /\ ResponseLength * taken'[c] \in Nat /\ ResponseLength * asked[c] \in Nat
        /\ ResponseLength * taken'[c] <= ResponseLength * asked[c]
    <3>1. taken'[c] <= asked[c]
      BY <2>2
    <3> QED
      BY <2>1, <2>2, <3>1, TimesGrows
  <2>4. sent'[c] <= ResponseLength * taken'[c]
    BY DEF IInv, NeverEarly, NoEarlyResponse
  <2>5. sent[c] + n \in sent[c] + 1 .. ResponseLength * asked[c]
    BY <1>1, <1>2, <1>4, <2>3, <2>4
  <2>6. Accepting[c] = "open" /\ UNCHANGED Accepting
    BY DEF Accepting
  <2>7. Service!Respond(c)
    BY <2>5, <2>6 DEF Service!Respond
  <2> QED
    BY <2>7 DEF Simulates, Service!HttpNext
<1> QED
  BY <1>3, <1>4

\* A connection is closed after its client ended it.
LEMMA Closes ==
    ASSUME IInv, NEW fd \in ClientFds, sock[fd] # NoConn,
           peer[sock[fd]] # "up", Close(fd),
           UNCHANGED <<peer, asked, sent>>
    PROVE  Simulates
<1> DEFINE c == sock[fd]
<1>1. c \in Conns /\ state[c] = "open"
  BY DEF IInv, TypeOK, SocketsHeld
<1>2. state' = [state EXCEPT ![c] = "closed"]
  BY DEF Close
<1>3. Accepting[c] = "open"
  BY <1>1 DEF Accepting
<1> HIDE DEF c
<1>4. Accepting' = [Accepting EXCEPT ![c] = "closed"]
  BY <1>1, <1>2, AcceptingMoves
<1>5. Service!Close(c)
  BY <1>3, <1>4 DEF Service!Close, c
<1> QED
  BY <1>1, <1>5 DEF Simulates, Service!HttpNext

\* send_res answers, in full or in part, or closes what the client has reset.
LEMMA SendSimulates ==
    ASSUME InTime, IInv, IInv', NEW fd \in ClientFds,
           sock[fd] # NoConn, NEW con \in Con, SendRes(fd, con),
           UNCHANGED <<peer, asked>>
    PROVE  Simulates
<1> DEFINE c == sock[fd]
           left == ResponseLength - con.written
           room == SendBuffer - unread[c]
<1>1. c \in Conns /\ state[c] = "open"
  BY DEF IInv, TypeOK, SocketsHeld
<1>2. left \in Nat /\ room \in Nat
  <2>1. /\ ResponseLength \in Nat /\ SendBuffer \in Nat
        /\ con.written \in 0 .. ResponseLength - 1
        /\ unread[c] \in 0 .. SendBuffer
    BY <1>1, EpollAssumption DEF IInv, TypeOK, Con
  <2> QED
    BY <2>1
<1>3. CASE SendsAll(fd, con)
  <2>1. /\ sent' = [sent EXCEPT ![c] = sent[c] + left]
        /\ UNCHANGED state
    BY <1>3 DEF SendsAll, Writes
  <2> HIDE DEF c, left, room
  <2> QED
    BY <1>1, <1>2, <2>1, Responds
<1>4. CASE SendsSome(fd, con)
  <2>1. /\ sent' = [sent EXCEPT ![c] = sent[c] + room]
        /\ UNCHANGED state
    BY <1>4 DEF SendsSome, Writes
  <2> HIDE DEF c, left, room
  <2> QED
    BY <1>1, <1>2, <2>1, Responds
<1>5. CASE SendFails(fd)
  BY <1>5, Closes DEF SendFails
<1> QED
  BY <1>3, <1>4, <1>5 DEF SendRes

-----------------------------------------------------------------------------
(* The listener.                                                           *)

\* The connection accept() is about to return is one the service can open.
LEMMA QueueHead ==
    ASSUME IInv, batch[Listener] # {}
    PROVE  /\ Head(backlog) \in Conns
           /\ state[Head(backlog)] = "queued"
           /\ Accepting[Head(backlog)] = "new"
<1>1. backlog \in Seq(Conns) /\ backlog # << >>
  BY DEF IInv, TypeOK, BatchHeld
<1>2. /\ Head(backlog) \in Conns /\ Head(backlog) = backlog[1]
      /\ 1 \in 1 .. Len(backlog)
  <2>1. Len(backlog) \in Nat \ {0}
    BY <1>1, EmptySeq
  <2> QED
    BY <1>1, <2>1, HeadTailProperties
<1>3. state[Head(backlog)] = "queued"
  BY <1>2 DEF IInv, QueueHeld
<1> QED
  BY <1>2, <1>3 DEF Accepting

\* With no number free, as many connections are open as there are numbers.
LEMMA AllOpen ==
    ASSUME IInv, FreeFds = {}
    PROVE  Cardinality({c \in Conns : Accepting[c] = "open"})
              = Cardinality(ClientFds)
<1> DEFINE open == {c \in Conns : Accepting[c] = "open"}
<1>1. open = {c \in Conns : state[c] = "open"}
  BY DEF Accepting
<1>2. \A fd \in ClientFds : sock[fd] # NoConn
  BY DEF FreeFds
<1>3. sock \in [ClientFds -> open]
  BY <1>1, <1>2 DEF IInv, TypeOK, SocketsHeld
<1>4. \A f, g \in ClientFds : sock[f] = sock[g] => f = g
  BY <1>2 DEF IInv, SocketsHeld
<1>5. \A c \in open : \E fd \in ClientFds : sock[fd] = c
  BY <1>1 DEF IInv, SocketsHeld
<1> HIDE DEF open
<1>6. sock \in Bijection(ClientFds, open)
  BY <1>3, <1>4, <1>5, Fun_IsBij
<1>7. ExistsBijection(ClientFds, open)
  BY <1>6 DEF ExistsBijection
<1>8. Cardinality(open) = Cardinality(ClientFds)
  BY <1>7, EpollAssumption, FS_Bijection
<1> QED
  BY <1>8 DEF open

LEMMA AcceptSimulates ==
    ASSUME IInv, HandleAccept
    PROVE  Simulates
<1> DEFINE c == Head(backlog)
<1>1. /\ state' = [state EXCEPT ![c] = "open"]
      /\ UNCHANGED <<peer, asked, sent>>
  BY DEF HandleAccept, history
<1>2. c \in Conns /\ Accepting[c] = "new"
  BY QueueHead DEF HandleAccept
<1> HIDE DEF c
<1>3. Accepting' = [Accepting EXCEPT ![c] = "open"]
  BY <1>1, <1>2, AcceptingMoves
<1>4. Service!Open(c)
  BY <1>1, <1>2, <1>3 DEF Service!Open
<1> QED
  BY <1>2, <1>4 DEF Simulates, Service!HttpNext

\* The service counts as the server does.
LEMMA SameCardinality ==
    ASSUME NEW S
    PROVE  Service!Cardinality(S) = Cardinality(S)
BY Zenon DEF Service!Cardinality, Cardinality

LEMMA ExitSimulates ==
    ASSUME IInv, AcceptExits
    PROVE  Simulates
<1>1. /\ state' = [c \in Conns |-> "closed"]
      /\ UNCHANGED <<peer, asked, sent>>
      /\ batch[Listener] # {}
      /\ FreeFds = {} \/ peer[Head(backlog)] = "rst"
  BY DEF AcceptExits, history
<1>2. Accepting' = [c \in Conns |-> "closed"]
  BY <1>1 DEF Accepting
<1>3. \/ \E c \in Conns : Accepting[c] = "new" /\ peer[c] = "rst"
      \/ Cardinality({c \in Conns : Accepting[c] = "open"})
            = Cardinality(ClientFds)
  <2>1. CASE FreeFds = {}
    BY <2>1, AllOpen
  <2>2. CASE peer[Head(backlog)] = "rst"
    BY <1>1, <2>2, QueueHead, Zenon
  <2> QED
    BY <1>1, <2>1, <2>2, Zenon
<1>4. Service!Stop
  BY <1>1, <1>2, <1>3, SameCardinality, Zenon DEF Service!Stop
<1> QED
  BY <1>4 DEF Simulates, Service!HttpNext

-----------------------------------------------------------------------------
(* Connections and clients.                                                *)

LEMMA ReadDataSimulates ==
    ASSUME InTime, IInv, IInv', NEW fd \in ClientFds, ReadData(fd)
    PROVE  Simulates
<1> DEFINE c == sock[fd]
           con(n) == [cons[fd] EXCEPT !.readed = inq[c][n]]
<1>1. c # NoConn /\ UNCHANGED <<peer, asked>>
  BY DEF ReadData
<1>2. PICK n \in 1 .. Len(inq[c]) :
         IF Complete(con(n).readed)
         THEN SendRes(fd, con(n))
         ELSE UNCHANGED <<interest, edge, sock, state, unread, noSpace, sent>>
  BY Zenon DEF ReadData
<1>3. con(n) \in Con
  <2>1. c \in Conns /\ inq[c] \in Seq(Piece)
    BY <1>1 DEF IInv, TypeOK
  <2>2. inq[c][n] \in Piece /\ cons[fd] \in Con
    BY <1>1, <2>1, ElementOfSeq, OpenEntry
  <2> QED
    BY <2>2 DEF Con
<1> HIDE DEF con
<1>4. CASE SendRes(fd, con(n))
  BY <1>1, <1>3, <1>4, SendSimulates
<1>5. CASE UNCHANGED <<interest, edge, sock, state, unread, noSpace, sent>>
  BY <1>1, <1>5, Stutters
<1> QED
  BY <1>2, <1>4, <1>5

LEMMA HandleWriteSimulates ==
    ASSUME InTime, IInv, IInv', NEW fd \in ClientFds, HandleWrite(fd)
    PROVE  Simulates
<1>1. /\ batch[fd] = {"OUT"} /\ SendRes(fd, cons[fd])
      /\ UNCHANGED <<peer, asked>>
  BY DEF HandleWrite
<1>2. sock[fd] # NoConn
  BY <1>1 DEF IInv, ClosedHeld
<1>3. cons[fd] \in Con
  BY <1>2, OpenEntry
<1> QED
  BY <1>1, <1>2, <1>3, SendSimulates

LEMMA ReadEndSimulates ==
    ASSUME IInv, NEW fd \in ClientFds, ReadEnd(fd)
    PROVE  Simulates
<1>1. /\ sock[fd] # NoConn /\ peer[sock[fd]] # "up" /\ Close(fd)
      /\ UNCHANGED <<peer, asked, sent>>
  BY DEF ReadEnd, history
<1> QED
  BY <1>1, Closes

LEMMA ClientWriteSimulates ==
    ASSUME IInv, NEW c \in Conns, NEW piece \in Piece, ClientWrite(c, piece)
    PROVE  Simulates
<1>1. /\ peer[c] = "up" /\ UNCHANGED <<state, peer, sent>>
      /\ asked' = [asked EXCEPT ![c] = IF piece = "end" THEN @ + 1 ELSE @]
  BY DEF ClientWrite
<1>2. UNCHANGED Accepting
  BY <1>1 DEF Accepting
<1>3. CASE piece = "end"
  <2>1. Service!Ask(c)
    BY <1>1, <1>2, <1>3 DEF Service!Ask
  <2> QED
    BY <2>1 DEF Simulates, Service!HttpNext
<1>4. CASE piece # "end"
  <2>1. UNCHANGED asked
    BY <1>1, <1>4 DEF IInv, TypeOK
  <2> QED
    BY <1>1, <2>1, Stutters
<1> QED
  BY <1>3, <1>4

LEMMA ClientEndsSimulates ==
    ASSUME NEW c \in Conns, NEW how \in {"fin", "rst"}, ClientEnds(c, how)
    PROVE  Simulates
<1>1. /\ peer[c] \in {"up", "fin"} \ {how}
      /\ peer' = [peer EXCEPT ![c] = how]
      /\ UNCHANGED <<state, asked, sent>>
  BY DEF ClientEnds, history
<1>2. UNCHANGED Accepting
  BY <1>1 DEF Accepting
<1>3. peer[c] # "rst" /\ how \in {"fin", "rst"} \ {peer[c]}
  BY <1>1
<1>4. Service!End(c)
  BY <1>1, <1>2, <1>3 DEF Service!End
<1> QED
  BY <1>4 DEF Simulates, Service!HttpNext

LEMMA ConnectSimulates ==
    ASSUME IInv, NEW c \in Conns, Connect(c)
    PROVE  Simulates
<1>1. /\ state[c] = "new" /\ state' = [state EXCEPT ![c] = "queued"]
      /\ UNCHANGED <<peer, asked, sent>>
  BY DEF Connect, history
<1>2. UNCHANGED Accepting
  BY <1>1 DEF Accepting, IInv, TypeOK
<1> QED
  BY <1>1, <1>2 DEF Simulates, Service!httpVars

-----------------------------------------------------------------------------
(* The theorem.                                                            *)

LEMMA SimulatesNext ==
    ASSUME InTime, IInv, IInv', [Next]_vars
    PROVE  Simulates
<1>1. CASE EpollWait
  <2>1. UNCHANGED <<state, peer, asked, sent>>
    BY <1>1 DEF EpollWait, history
  <2> QED
    BY <2>1, Stutters
<1>2. CASE HandleAccept \/ AcceptExits
  BY <1>2, AcceptSimulates, ExitSimulates
<1>3. ASSUME NEW fd \in ClientFds, ReadData(fd) \/ ReadEnd(fd) \/ HandleWrite(fd)
      PROVE  Simulates
  BY <1>3, ReadDataSimulates, ReadEndSimulates, HandleWriteSimulates
<1>4. ASSUME NEW fd \in ClientFds,
             ReadAgain(fd) \/ ReadClosed(fd) \/ NothingToWrite(fd)
      PROVE  Simulates
  <2>1. UNCHANGED <<state, peer, asked, sent>>
    BY <1>4 DEF ReadAgain, ReadClosed, NothingToWrite, netVars, history
  <2> QED
    BY <2>1, Stutters
<1>5. ASSUME NEW c \in Conns, Connect(c) \/ ClientRead(c)
      PROVE  Simulates
  <2>1. CASE Connect(c)
    BY <2>1, ConnectSimulates
  <2>2. CASE ClientRead(c)
    <3>1. UNCHANGED <<state, peer, asked, sent>>
      BY <2>2 DEF ClientRead, history
    <3> QED
      BY <3>1, Stutters
  <2> QED
    BY <1>5, <2>1, <2>2
<1>6. ASSUME NEW c \in Conns, NEW piece \in Piece, ClientWrite(c, piece)
      PROVE  Simulates
  BY <1>6, ClientWriteSimulates
<1>7. ASSUME NEW c \in Conns, NEW how \in {"fin", "rst"}, ClientEnds(c, how)
      PROVE  Simulates
  BY <1>7, ClientEndsSimulates
<1>8. CASE UNCHANGED vars
  <2>1. UNCHANGED <<state, peer, asked, sent>>
    BY <1>8 DEF vars, netVars, history
  <2> QED
    BY <2>1, Stutters
<1> QED
  BY <1>1, <1>2, <1>3, <1>4, <1>5, <1>6, <1>7, <1>8
  DEF Next, Server, Environment

\* The servers implement the HTTP service, the edge-triggered one when each
\* request arrives in one piece: they send no more than was asked for and close
\* only what its client ended, until accept() finds no number or a connection
\* that was reset and exit_if stops them.
THEOREM Implements ==
    ASSUME InTime
    PROVE  Spec => ImplementsHttp
<1>1. Init => Service!HttpInit
  BY DEF Init, Service!HttpInit, Accepting
<1>2. IInv /\ IInv' /\ [Next]_vars => [Service!HttpNext]_(Service!httpVars)
  BY SimulatesNext DEF Simulates
<1> QED
  BY <1>1, <1>2, Invariance, PTL DEF Spec, ImplementsHttp, Service!HttpSpec

=============================================================================
