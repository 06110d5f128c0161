--------------------------- MODULE LightHttpProofs ---------------------------
(***************************************************************************)
(* The safety of the HTTP reactor, for any table, scan, timeout,           *)
(* descriptors, clients and chunks, with or without the page.  As in the   *)
(* echo reactor a callback meets a registered, open descriptor because a   *)
(* harvested event still holds; the timeout scan cannot disturb that, for  *)
(* it runs when no harvested event is left.  It takes nobody who was       *)
(* served lately, because a client's last_active and its last callback go  *)
(* together (AgesAgree), which is false of the listener.                   *)
(***************************************************************************)
EXTENDS LightHttp, SequenceTheorems, FiniteSetTheorems, FunctionTheorems,
        WellFoundedInduction, TLAPS

\* accept() takes the smallest number that is free.
LEMMA LowestIsMember ==
    ASSUME NEW S \in SUBSET Nat, S # {}
    PROVE  Lowest(S) \in S
<1> DEFINE Below == {ss \in Nat \X Nat : ss[1] < ss[2]}
<1>1. IsWellFoundedOn(Below, Nat)
  BY NatLessThanWellFounded, Zenon DEF OpToRel
<1>2. PICK fd \in S : \A other \in S : ~ (<<other, fd>> \in Below)
  <2> HIDE DEF Below
  <2> QED BY <1>1, WFMin
<1>3. ASSUME NEW other \in S PROVE fd <= other
  <2>1. fd \in Nat /\ other \in Nat
    OBVIOUS
  <2>2. ~ (<<other, fd>> \in Below)
    BY <1>2
  <2> QED
    BY <2>1, <2>2
<1> QED
  BY <1>3 DEF Lowest

\* Client descriptors are entries of the table and not the listener's.
LEMMA FdsInTable ==
    /\ ClientFds \subseteq Fds /\ Listener \in Fds /\ Listener \notin ClientFds
    /\ \A fd \in Fds : fd \in Nat /\ (fd = Listener \/ fd \in ClientFds)
    /\ \A c \in Conns : c # NoConn
BY LightAssumption DEF Fds

-----------------------------------------------------------------------------
(* The registration calls.                                                 *)

\* An entry registered for events, and an entry that is free.
Armed(s, callback, events) ==
    [s EXCEPT !.callback = callback, !.events = events,
              !.status = 1, !.interest = events]

Freed(s) == [s EXCEPT !.status = 0, !.interest = {}]

\* gevent_set and gevent_add, when the table and epoll agree.
LEMMA ArmAny ==
    ASSUME NEW s \in Slot, s.interest # {} <=> s.status = 1,
           NEW callback \in Callback, NEW events \in SUBSET Event
    PROVE  GeventAdd(GeventSet(s, callback), events) =
             Armed(s, callback, events)
<1> DEFINE set == [s EXCEPT !.callback = callback, !.events = {}]
<1>1. /\ GeventSet(s, callback) = set /\ set \in Slot
      /\ set.interest # {} <=> set.status = 1
  BY DEF Slot, GeventSet
<1>2. GeventAdd(set, events) =
        [set EXCEPT !.events = events, !.status = 1, !.interest = events]
  <2> HIDE DEF set
  <2> QED
    BY <1>1 DEF Slot, GeventAdd, EpollCtlAdd, EpollCtlMod
<1>3. [set EXCEPT !.events = events, !.status = 1, !.interest = events] =
        Armed(s, callback, events)
  BY DEF Slot, Armed
<1> QED
  BY <1>1, <1>2, <1>3

\* Registering again an entry that is in epoll.
LEMMA ArmAgain ==
    ASSUME NEW s \in Slot, s.status = 1,
           NEW callback \in Callback, NEW events \in SUBSET Event
    PROVE  ReArm(s, callback, events) = Armed(s, callback, events)
<1>1. /\ GeventDel(s) = Freed(s)
      /\ Freed(s) \in Slot /\ Freed(s).status = 0 /\ Freed(s).interest = {}
  BY DEF Slot, GeventDel, Freed
<1>2. ReArm(s, callback, events) = Armed(Freed(s), callback, events)
  BY <1>1, ArmAny DEF ReArm
<1>3. Armed(Freed(s), callback, events) = Armed(s, callback, events)
  BY DEF Slot, Armed, Freed
<1> QED
  BY <1>2, <1>3

\* close() before gevent_del() or after it: the entry is free either way.
LEMMA Released ==
    ASSUME NEW s \in Slot, s.status = 1
    PROVE  /\ CloseDescriptor(GeventDel(s)) = Freed(s)
           /\ GeventDel(CloseDescriptor(s)) = Freed(s)
BY DEF Slot, GeventDel, CloseDescriptor, Freed

\* What registering an entry leaves in each of its fields.
LEMMA ArmedFields ==
    ASSUME NEW s \in Slot, NEW callback \in Callback, NEW events \in SUBSET Event
    PROVE  LET t == Armed(s, callback, events)
           IN  /\ t \in Slot
               /\ t.callback = callback /\ t.events = events
               /\ t.status = 1 /\ t.interest = events /\ t.reply = s.reply
BY DEF Slot, Armed

\* What freeing an entry leaves in each of its fields.
LEMMA FreedFields ==
    ASSUME NEW s \in Slot
    PROVE  /\ Freed(s) \in Slot
           /\ Freed(s).status = 0 /\ Freed(s).interest = {}
BY DEF Slot, Freed

\* The fields of an entry greactor_init left at zero.
LEMMA FreshFields ==
    /\ FreshSlot \in Slot
    /\ FreshSlot.status = 0 /\ FreshSlot.interest = {}
BY DEF FreshSlot, Slot, Callback, Event

-----------------------------------------------------------------------------
(* What a harvested event says when its turn comes.                        *)

\* The dispatcher's test passes, and the callback of the entry is the one the
\* harvested event is for.
LEMMA Dispatched ==
    ASSUME IInv, NEW fd \in Fds, NEW e \in batch[fd]
    PROVE  /\ slot[fd] \in Slot /\ slot[fd].status = 1
           /\ batch[fd] = {e} /\ e \in slot[fd].events
           /\ \/ /\ fd = Listener /\ fd \notin ClientFds
                 /\ slot[fd].callback = "accept" /\ slot[fd].events = {"IN"}
                 /\ backlog # << >>
              \/ /\ fd \in ClientFds /\ fd # Listener
                 /\ slot[fd].callback = "recv"
                 /\ sock[fd] \in Conns
              \/ /\ fd \in ClientFds /\ fd # Listener
                 /\ slot[fd].callback = "send"
                 /\ sock[fd] \in Conns
<1>1. /\ TypeOK /\ DescriptorsRegistered
      /\ batch[fd] = Ready(fd) /\ batch[fd] = slot[fd].events
  BY DEF IInv, RegistrationAgrees, BatchFresh
<1>2. slot[fd] \in Slot
  BY <1>1 DEF TypeOK
<1>3. slot[fd].interest # {}
  BY <1>1 DEF Ready
<1>4. slot[fd].status = 1
  BY <1>1, <1>3 DEF DescriptorsRegistered
<1>5. batch[fd] = {e}
  BY <1>1, <1>4 DEF DescriptorsRegistered
<1>6. CASE fd = Listener
  <2>1. slot[fd].callback = "accept" /\ e = "IN" /\ slot[fd].events = {"IN"}
    BY <1>1, <1>4, <1>5, <1>6 DEF DescriptorsRegistered
  <2>2. backlog # << >>
    BY <1>1, <1>5, <1>6, <2>1 DEF Ready, Readable
  <2> QED
    BY <1>1, <1>2, <1>4, <1>5, <1>6, <2>1, <2>2, FdsInTable
<1>7. CASE fd \in ClientFds
  <2>1. slot[fd].callback \in {"recv", "send"}
    BY <1>1, <1>2, <1>4, <1>7, FdsInTable
    DEF DescriptorsRegistered, Slot, Callback
  <2>2. sock[fd] \in Conns
    BY <1>1, <1>4, <1>7 DEF DescriptorsRegistered, TypeOK
  <2> QED
    BY <1>1, <1>2, <1>4, <1>5, <1>7, <2>1, <2>2, FdsInTable
<1> QED
  BY <1>6, <1>7, FdsInTable

\* A callback that leaves the other harvested descriptors as ready as they
\* were leaves the batch fresh.
LEMMA BatchConsumed ==
    ASSUME IInv, NEW fd \in Fds, NEW e \in batch[fd],
           batch' = [batch EXCEPT ![fd] = @ \ {e}],
           \A f \in Fds \ {fd} : batch[f] # {} =>
              slot'[f] = slot[f] /\ Ready(f)' = Ready(f)
    PROVE  BatchFresh' /\ batch' \in [Fds -> SUBSET Event]
<1>1. batch \in [Fds -> SUBSET Event] /\ batch'[fd] = {}
  BY Dispatched DEF IInv, TypeOK
<1>2. \A f \in Fds \ {fd} : batch'[f] = batch[f]
  BY <1>1
<1>3. batch' \in [Fds -> SUBSET Event]
  BY <1>1
<1>4. ASSUME NEW f \in Fds, batch'[f] # {}
      PROVE  batch'[f] = Ready(f)' /\ batch'[f] = slot'[f].events
  <2>1. f \in Fds \ {fd} /\ batch'[f] = batch[f] /\ batch[f] # {}
    BY <1>1, <1>2, <1>4
  <2>2. batch[f] = Ready(f) /\ batch[f] = slot[f].events
    BY <2>1 DEF IInv, BatchFresh
  <2> QED
    BY <2>1, <2>2
<1> QED
  BY <1>3, <1>4 DEF BatchFresh

\* Time, the clients and the network only make descriptors ready.
LEMMA BatchKept ==
    ASSUME IInv, UNCHANGED <<slot, batch>>,
           \A f \in Fds : /\ Readable(f) => Readable(f)'
                          /\ Writable(f) => Writable(f)'
    PROVE  BatchFresh'
<1> SUFFICES ASSUME NEW f \in Fds, batch'[f] # {}
             PROVE  batch'[f] = Ready(f)' /\ batch'[f] = slot'[f].events
  BY DEF BatchFresh
<1>1. batch[f] = Ready(f) /\ batch[f] = slot[f].events
  BY DEF IInv, BatchFresh
<1>2. slot[f].interest = slot[f].events
  BY <1>1 DEF Ready, IInv, RegistrationAgrees, DescriptorsRegistered
<1>3. Ready(f)' = Ready(f)
  BY <1>1, <1>2 DEF Ready
<1> QED
  BY <1>1, <1>3

-----------------------------------------------------------------------------
(* Start-up, the scan and epoll_wait.                                      *)

\* The invariant holds when main() starts.
LEMMA InitHolds == Init => IInv
<1> SUFFICES ASSUME Init PROVE IInv
  OBVIOUS
<1>1. backlog = << >> /\ Len(backlog) = 0 /\ backlog \in Seq(Conns)
  BY EmptySeq DEF Init
<1>2. \A c \in Conns : replies[c] = << >> /\ << >> \in Seq({"page", "stale", "part"})
  BY EmptySeq DEF Init
<1>3. 0 \in 0 .. Timeout /\ 0 \in 0 .. TableSize - 1 /\ 0 \in 0 .. MaxMaps
  BY LightAssumption
<1>4. TypeOK
  BY <1>1, <1>2, <1>3, FreshFields DEF Init, TypeOK
<1>5. RegistrationAgrees
  BY FreshFields, FdsInTable
  DEF Init, RegistrationAgrees, DescriptorsRegistered, ConnectionsHeld
<1>6. QueueHeld /\ QueuedUntouched
  BY <1>1 DEF Init, QueueHeld, QueuedUntouched
<1>7. BatchFresh
  BY DEF Init, BatchFresh
<1>8. OneReplyPerRead /\ RepliesHeld /\ AgesAgree
  BY FreshFields, FdsInTable DEF Init, OneReplyPerRead, RepliesHeld, AgesAgree
<1> QED
  BY <1>4, <1>5, <1>6, <1>7, <1>8 DEF IInv

\* gevent_set sets the time for the entries a callback ran on.
LEMMA AgesReset ==
    ASSUME IInv, NEW fds, NEW others, Active(fds), RanOn(others),
           \A f \in ClientFds : f \in fds <=> f \in others
    PROVE  /\ age' \in [Fds -> 0 .. Timeout] /\ idle' \in [Fds -> 0 .. Timeout]
           /\ AgesAgree'
<1>1. 0 \in 0 .. Timeout
  BY LightAssumption
<1> QED
  BY <1>1, FdsInTable DEF IInv, TypeOK, AgesAgree, Active, RanOn

\* greactor_addlistener registers the listener.
LEMMA StartStep == IInv /\ Start => IInv'
<1> SUFFICES ASSUME IInv, Start PROVE IInv'
  OBVIOUS
<1> DEFINE s == slot[Listener]
           t == Armed(s, "accept", {"IN"})
<1>1. s \in Slot /\ (s.interest # {} <=> s.status = 1)
  BY FdsInTable DEF IInv, TypeOK, RegistrationAgrees, DescriptorsRegistered
<1>2. /\ slot' = [slot EXCEPT ![Listener] = t]
      /\ pc' = "scan"
      /\ UNCHANGED <<checkpos, batch, maps, sock, netVars, reads, replies>>
  <2>1. GeventAdd(GeventSet(s, "accept"), {"IN"}) = t
    BY <1>1, ArmAny DEF Callback, Event
  <2> QED
    BY <2>1 DEF Start
<1>3. /\ t \in Slot /\ t.callback = "accept" /\ t.events = {"IN"}
      /\ t.status = 1 /\ t.interest = {"IN"}
  BY <1>1, ArmedFields DEF Callback, Event
<1> HIDE DEF t
<1>4. /\ slot' \in [Fds -> Slot] /\ slot'[Listener] = t
      /\ \A f \in Fds \ {Listener} : slot'[f] = slot[f]
  BY <1>2, <1>3, FdsInTable DEF IInv, TypeOK
<1>5. /\ age' \in [Fds -> 0 .. Timeout] /\ idle' \in [Fds -> 0 .. Timeout]
      /\ AgesAgree'
  BY AgesReset DEF Start
<1>6. TypeOK'
  BY <1>2, <1>4, <1>5 DEF IInv, TypeOK, netVars
<1>7. \A f \in ClientFds : slot'[f] = slot[f]
  BY <1>4, FdsInTable
<1>8. RegistrationAgrees'
  <2>1. DescriptorsRegistered'
    BY <1>2, <1>3, <1>4, <1>7, FdsInTable
    DEF IInv, RegistrationAgrees, DescriptorsRegistered
  <2>2. ConnectionsHeld'
    BY <1>2 DEF IInv, RegistrationAgrees, ConnectionsHeld, netVars
  <2> QED
    BY <2>1, <2>2 DEF RegistrationAgrees
<1>9. BatchFresh'
  <2> SUFFICES ASSUME NEW f \in Fds, batch'[f] # {}
               PROVE  batch'[f] = Ready(f)' /\ batch'[f] = slot'[f].events
    BY DEF BatchFresh
  <2>1. batch[f] = Ready(f) /\ batch[f] = slot[f].events /\ batch'[f] = batch[f]
    BY <1>2 DEF IInv, BatchFresh
  <2>2. slot'[f].events = slot[f].events /\ slot'[f].interest = slot[f].interest
    <3>1. CASE f = Listener
      <4>1. slot[f].events = {"IN"} /\ slot[f].interest = {"IN"}
        BY <1>2, <3>1, FdsInTable, Dispatched
        DEF IInv, RegistrationAgrees, DescriptorsRegistered
      <4> QED
        BY <1>3, <1>4, <3>1, <4>1
    <3>2. CASE f # Listener
      BY <1>4, <3>2
    <3> QED
      BY <3>1, <3>2
  <2>3. Ready(f)' = Ready(f)
    BY <1>2, <2>2 DEF Ready, Readable, Writable, netVars
  <2> QED
    BY <2>1, <2>2, <2>3
<1>10. QueueHeld' /\ QueuedUntouched'
  BY <1>2 DEF IInv, QueueHeld, QueuedUntouched, netVars
<1>11. OneReplyPerRead' /\ RepliesHeld'
  BY <1>2, <1>7 DEF IInv, OneReplyPerRead, RepliesHeld
<1> QED
  BY <1>5, <1>6, <1>8, <1>9, <1>10, <1>11 DEF IInv

\* Whatever becomes of the process, an empty table and no sockets are safe.
LEMMA DeadHolds ==
    ASSUME IInv, Die
    PROVE  IInv'
<1>1. /\ pc' = "dead"
      /\ slot' = [fd \in Fds |-> FreshSlot]
      /\ batch' = [fd \in Fds |-> {}]
      /\ sock' = [fd \in ClientFds |-> NoConn]
      /\ state' = [c \in Conns |-> "closed"]
      /\ backlog' = << >>
      /\ UNCHANGED <<age, checkpos, maps, peer, inq, full, history>>
  BY DEF Die
<1>2. backlog' \in Seq(Conns) /\ Len(backlog') = 0
  BY <1>1, EmptySeq
<1>3. TypeOK'
  BY <1>1, <1>2, FreshFields DEF IInv, TypeOK, history
<1>4. RegistrationAgrees'
  BY <1>1, FreshFields, FdsInTable
  DEF RegistrationAgrees, DescriptorsRegistered, ConnectionsHeld
<1>5. QueueHeld' /\ QueuedUntouched' /\ BatchFresh'
  BY <1>1, <1>2 DEF QueueHeld, QueuedUntouched, BatchFresh
<1>6. OneReplyPerRead' /\ RepliesHeld'
  BY <1>1, FreshFields, FdsInTable DEF OneReplyPerRead, RepliesHeld
<1>7. AgesAgree'
  BY <1>1 DEF IInv, AgesAgree, history
<1> QED
  BY <1>3, <1>4, <1>5, <1>6, <1>7 DEF IInv

\* What table, sockets, queue and replies leave as it is.
LEMMA RestKept ==
    ASSUME IInv, UNCHANGED <<slot, sock, state, backlog, reads, replies>>
    PROVE  /\ RegistrationAgrees' /\ QueueHeld' /\ QueuedUntouched'
           /\ OneReplyPerRead' /\ RepliesHeld'
<1>1. RegistrationAgrees'
  BY DEF IInv, RegistrationAgrees, DescriptorsRegistered, ConnectionsHeld
<1>2. QueueHeld' /\ QueuedUntouched'
  BY DEF IInv, QueueHeld, QueuedUntouched
<1>3. OneReplyPerRead' /\ RepliesHeld'
  BY DEF IInv, OneReplyPerRead, RepliesHeld
<1> QED
  BY <1>1, <1>2, <1>3

\* A start-up that fails changes nothing of the table, or ends the process.
LEMMA StartFailsStep == IInv /\ StartFails => IInv'
<1> SUFFICES ASSUME IInv, StartFails PROVE IInv'
  OBVIOUS
<1>1. /\ pc' \in {"scan", "dead"}
      /\ UNCHANGED <<slot, age, checkpos, batch, maps, sock, netVars, history>>
  BY DEF StartFails
<1>2. BatchFresh'
  BY <1>1, BatchKept DEF Readable, Writable, netVars
<1>3. TypeOK' /\ AgesAgree'
  BY <1>1 DEF IInv, TypeOK, AgesAgree, netVars, history
<1>4. UNCHANGED <<slot, sock, state, backlog, reads, replies>>
  BY <1>1 DEF netVars, history
<1> QED
  BY <1>2, <1>3, <1>4, RestKept DEF IInv

\* epoll_wait harvests events that hold.
LEMMA EpollWaitStep == IInv /\ EpollWait => IInv'
<1> SUFFICES ASSUME IInv, EpollWait PROVE IInv'
  OBVIOUS
<1>1. /\ pc' = "scan" /\ batch' = [fd \in Fds |-> Ready(fd)]
      /\ UNCHANGED <<slot, age, checkpos, maps, sock, netVars, history>>
  BY DEF EpollWait
<1>2. \A f \in Fds : Ready(f) \in SUBSET Event
  BY DEF IInv, TypeOK, Slot, Ready
<1>3. TypeOK'
  BY <1>1, <1>2 DEF IInv, TypeOK, netVars, history
<1>4. BatchFresh'
  <2> SUFFICES ASSUME NEW f \in Fds, batch'[f] # {}
               PROVE  batch'[f] = Ready(f)' /\ batch'[f] = slot'[f].events
    BY DEF BatchFresh
  <2>1. batch'[f] = Ready(f)
    BY <1>1
  <2>2. Ready(f) = slot[f].events
    BY <2>1 DEF Ready, IInv, RegistrationAgrees, DescriptorsRegistered
  <2>3. Ready(f)' = Ready(f)
    BY <1>1 DEF Ready, Readable, Writable, netVars
  <2> QED
    BY <1>1, <2>1, <2>2, <2>3
<1>5. UNCHANGED <<slot, sock, state, backlog, reads, replies>>
  BY <1>1 DEF netVars, history
<1>6. AgesAgree'
  BY <1>1 DEF IInv, AgesAgree, history
<1> QED
  BY <1>3, <1>4, <1>5, <1>6, RestKept DEF IInv

\* What the scan closes are registered entries; the rest keeps its place.
LEMMA ScanEffect ==
    ASSUME IInv, Scan
    PROVE  \E expired \in SUBSET Fds :
             /\ \A f \in expired : slot[f].status = 1 /\ age[f] >= Timeout
             /\ \A f \in Fds : batch[f] = {}
             /\ \A f \in expired : slot'[f] = Freed(slot[f])
             /\ \A f \in Fds \ expired : slot'[f] = slot[f]
             /\ slot' \in [Fds -> Slot]
             /\ \A f \in ClientFds : sock'[f] = IF f \in expired THEN NoConn
                                                                 ELSE sock[f]
             /\ sock' \in [ClientFds -> Conns \cup {NoConn}]
             /\ \A c \in Conns :
                   IF \/ \E f \in expired \cap ClientFds : sock[f] = c
                      \/ Listener \in expired
                            /\ \E i \in 1 .. Len(backlog) : backlog[i] = c
                   THEN state'[c] = "closed" ELSE state'[c] = state[c]
             /\ state' \in [Conns -> {"new", "queued", "open", "closed"}]
             /\ backlog' = IF Listener \in expired THEN << >> ELSE backlog
             /\ pc' = "wait" /\ checkpos' \in 0 .. TableSize - 1
             /\ UNCHANGED <<age, batch, maps, peer, inq, full, history>>
<1> DEFINE expired == {fd \in Fds \cap Scanned : Expired(fd)}
           lost == {sock[fd] : fd \in expired \cap ClientFds} \cup
                   (IF Listener \in expired
                    THEN {backlog[i] : i \in 1 .. Len(backlog)} ELSE {})
<1>1. /\ \A fd \in Fds : batch[fd] = {}
      /\ pc' = "wait"
      /\ checkpos' = NextCheck
      /\ slot' = [fd \in Fds |-> IF fd \in expired
                                 THEN GeventDel(CloseDescriptor(slot[fd]))
                                 ELSE slot[fd]]
      /\ sock' = [fd \in ClientFds |-> IF fd \in expired THEN NoConn
                                                         ELSE sock[fd]]
      /\ state' = [c \in Conns |-> IF c \in lost THEN "closed" ELSE state[c]]
      /\ backlog' = IF Listener \in expired THEN << >> ELSE backlog
      /\ UNCHANGED <<age, batch, maps, peer, inq, full, history>>
  BY Zenon DEF Scan, LoopTop
<1>2. expired \in SUBSET Fds
      /\ \A f \in expired : slot[f].status = 1 /\ age[f] >= Timeout
  BY DEF Expired
<1>3. \A c : c \in lost <=>
         \/ \E f \in expired \cap ClientFds : sock[f] = c
         \/ Listener \in expired /\ \E i \in 1 .. Len(backlog) : backlog[i] = c
  OBVIOUS
<1> HIDE DEF expired, lost
<1>4. \A f \in expired : Freed(slot[f]) \in Slot /\ slot'[f] = Freed(slot[f])
  <2> SUFFICES ASSUME NEW f \in expired
               PROVE  Freed(slot[f]) \in Slot /\ slot'[f] = Freed(slot[f])
    OBVIOUS
  <2>1. f \in Fds /\ slot[f] \in Slot /\ slot[f].status = 1
    BY <1>2 DEF IInv, TypeOK
  <2> QED
    BY <1>1, <2>1, Released, FreedFields
<1>5. slot' \in [Fds -> Slot] /\ \A f \in Fds \ expired : slot'[f] = slot[f]
  <2>1. \A f \in Fds \ expired : slot'[f] = slot[f] /\ slot[f] \in Slot
    BY <1>1 DEF IInv, TypeOK
  <2>2. \A f \in Fds : slot'[f] \in Slot
    BY <1>4, <2>1
  <2> QED
    BY <1>1, <2>1, <2>2
<1>6. sock' \in [ClientFds -> Conns \cup {NoConn}]
      /\ state' \in [Conns -> {"new", "queued", "open", "closed"}]
  BY <1>1 DEF IInv, TypeOK
<1>7. checkpos' \in 0 .. TableSize - 1
  <2>1. \A m \in Nat : \A n \in Nat \ {0} : m % n \in 0 .. n - 1
    OBVIOUS
  <2>2. checkpos + ScanCount \in Nat
    BY LightAssumption DEF IInv, TypeOK
  <2> QED
    BY <1>1, <2>1, <2>2, LightAssumption DEF NextCheck
<1>8. \A f \in ClientFds :
         sock'[f] = IF f \in expired THEN NoConn ELSE sock[f]
  BY <1>1
<1>9. ASSUME NEW c \in Conns
      PROVE  IF \/ \E f \in expired \cap ClientFds : sock[f] = c
                \/ Listener \in expired
                     /\ \E i \in 1 .. Len(backlog) : backlog[i] = c
             THEN state'[c] = "closed" ELSE state'[c] = state[c]
  BY <1>1, <1>3
<1> QED
  BY <1>1, <1>2, <1>4, <1>5, <1>6, <1>7, <1>8, <1>9

\* The scan closes whole connections, between two batches.
LEMMA ScanStep == IInv /\ Scan => IInv'
<1> SUFFICES ASSUME IInv, Scan PROVE IInv'
  OBVIOUS
<1>1. PICK expired \in SUBSET Fds :
         /\ \A f \in expired : slot[f].status = 1 /\ age[f] >= Timeout
         /\ \A f \in Fds : batch[f] = {}
         /\ \A f \in expired : slot'[f] = Freed(slot[f])
         /\ \A f \in Fds \ expired : slot'[f] = slot[f]
         /\ slot' \in [Fds -> Slot]
         /\ \A f \in ClientFds : sock'[f] = IF f \in expired THEN NoConn
                                                             ELSE sock[f]
         /\ sock' \in [ClientFds -> Conns \cup {NoConn}]
         /\ \A c \in Conns :
               IF \/ \E f \in expired \cap ClientFds : sock[f] = c
                  \/ Listener \in expired
                        /\ \E i \in 1 .. Len(backlog) : backlog[i] = c
               THEN state'[c] = "closed" ELSE state'[c] = state[c]
         /\ state' \in [Conns -> {"new", "queued", "open", "closed"}]
         /\ backlog' = IF Listener \in expired THEN << >> ELSE backlog
         /\ pc' = "wait" /\ checkpos' \in 0 .. TableSize - 1
         /\ UNCHANGED <<age, batch, maps, peer, inq, full, history>>
  BY ScanEffect
<1>2. /\ backlog' \in Seq(Conns)
      /\ Listener \in expired => Len(backlog') = 0
      /\ Listener \notin expired => backlog' = backlog
  BY <1>1, EmptySeq DEF IInv, TypeOK
<1>3. TypeOK'
  BY <1>1, <1>2 DEF IInv, TypeOK, history
<1>4. \A f \in expired : slot'[f].status = 0 /\ slot'[f].interest = {}
  BY <1>1, FreedFields DEF IInv, TypeOK
<1>5. DescriptorsRegistered'
  <2>1. DescriptorsRegistered
    BY DEF IInv, RegistrationAgrees
  <2>2. ASSUME NEW f \in Fds
        PROVE  /\ slot'[f].interest # {} <=> slot'[f].status = 1
               /\ slot'[f].status = 1 =>
                    /\ slot'[f].interest = slot'[f].events
                    /\ slot'[f].events =
                         IF slot'[f].callback = "send" THEN {"OUT"} ELSE {"IN"}
                    /\ slot'[f].callback = "accept" <=> f = Listener
                    /\ slot'[f].callback # "none"
    <3>1. CASE f \in expired
      BY <1>4, <3>1
    <3>2. CASE f \notin expired
      BY <1>1, <2>1, <3>2 DEF DescriptorsRegistered
    <3> QED
      BY <3>1, <3>2
  <2>3. ASSUME NEW f \in ClientFds
        PROVE  sock'[f] # NoConn <=> slot'[f].status = 1
    <3>1. CASE f \in expired
      BY <1>1, <1>4, <3>1
    <3>2. CASE f \notin expired
      BY <1>1, <2>1, <3>2, FdsInTable DEF DescriptorsRegistered
    <3> QED
      BY <3>1, <3>2
  <2> QED
    BY <2>2, <2>3 DEF DescriptorsRegistered
<1>6. ASSUME NEW c \in Conns, NEW i \in 1 .. Len(backlog), backlog[i] = c
      PROVE  state[c] = "queued" /\ \A f \in ClientFds : sock[f] # c
  BY <1>6 DEF IInv, QueueHeld, RegistrationAgrees, ConnectionsHeld
<1>7. ConnectionsHeld'
  <2>1. ConnectionsHeld
    BY DEF IInv, RegistrationAgrees
  <2>2. \A f, other \in ClientFds :
           sock'[f] # NoConn /\ sock'[f] = sock'[other] => f = other
    BY <1>1, <2>1 DEF ConnectionsHeld
  <2>3. ASSUME NEW c \in Conns
        PROVE  state'[c] = "open" <=> \E f \in ClientFds : sock'[f] = c
    <3>1. CASE \E f \in expired \cap ClientFds : sock[f] = c
      <4>1. state'[c] = "closed"
        BY <1>1, <3>1
      <4>2. \A f \in ClientFds : sock'[f] # c
        BY <1>1, <2>1, <3>1, FdsInTable DEF ConnectionsHeld
      <4> QED
        BY <4>1, <4>2
    <3>2. CASE ~\E f \in expired \cap ClientFds : sock[f] = c
      <4>1. \A f \in ClientFds : sock'[f] = c <=> sock[f] = c
        BY <1>1, <3>2, FdsInTable
      <4>2. state'[c] = "open" <=> state[c] = "open"
        BY <1>1, <1>6, <3>2
      <4> QED
        BY <2>1, <4>1, <4>2 DEF ConnectionsHeld
    <3> QED
      BY <3>1, <3>2
  <2> QED
    BY <2>2, <2>3 DEF ConnectionsHeld
<1>8. QueueHeld'
  <2>1. CASE Listener \in expired
    BY <1>2, <2>1 DEF QueueHeld
  <2>2. CASE Listener \notin expired
    <3>1. ASSUME NEW i \in 1 .. Len(backlog)
          PROVE  state'[backlog[i]] = "queued"
      <4>1. backlog[i] \in Conns
        BY ElementOfSeq DEF IInv, TypeOK
      <4> QED
        BY <1>1, <1>6, <2>2, <4>1
    <3> QED
      BY <1>2, <2>2, <3>1 DEF IInv, QueueHeld
  <2> QED
    BY <2>1, <2>2
<1>9. BatchFresh'
  BY <1>1 DEF BatchFresh
<1>10. QueuedUntouched'
  <2>1. \A c \in Conns : state'[c] \in {"new", "queued"} => state'[c] = state[c]
    BY <1>1
  <2> QED
    BY <1>1, <2>1 DEF IInv, QueuedUntouched, history
<1>11. \A f \in ClientFds : sock'[f] # NoConn =>
          sock'[f] = sock[f] /\ slot'[f] = slot[f]
  BY <1>1, FdsInTable
<1>12. OneReplyPerRead' /\ RepliesHeld'
  <2>1. OneReplyPerRead'
    <3>1. UNCHANGED <<reads, replies>>
      BY <1>1 DEF history
    <3> QED
      BY <1>11, <3>1 DEF IInv, OneReplyPerRead
  <2>2. RepliesHeld'
    BY <1>5, <1>11 DEF IInv, RepliesHeld, DescriptorsRegistered
  <2> QED
    BY <2>1, <2>2
<1>13. AgesAgree'
  BY <1>1 DEF IInv, AgesAgree, history
<1> QED
  BY <1>3, <1>5, <1>7, <1>8, <1>9, <1>10, <1>12, <1>13 DEF IInv, RegistrationAgrees

-----------------------------------------------------------------------------
(* The callbacks, each as one dispatched step.                             *)

\* How a surviving callback consumes its event.
Consumes(fd, e) == batch' = [batch EXCEPT ![fd] = @ \ {e}]

\* accpet_callback: the number accept() returns has a free entry and no
\* harvested event, and its connection has been given nothing yet.
LEMMA AcceptConnectionStep ==
    ASSUME IInv, NEW fd \in Fds, NEW e \in batch[fd],
           slot[fd].callback = "accept",
           AcceptConnection(fd), Consumes(fd, e)
    PROVE  IInv'
<1> DEFINE cfd == Lowest(FreeFds)
           c == Head(backlog)
<1>1. /\ fd = Listener /\ fd \notin ClientFds /\ backlog # << >>
      /\ backlog \in Seq(Conns)
  BY Dispatched DEF IInv, TypeOK
<1>2. cfd \in ClientFds /\ sock[cfd] = NoConn
  <2>1. FreeFds # {} /\ FreeFds \in SUBSET Nat
    BY FdsInTable DEF AcceptConnection, FreeFds
  <2>2. cfd \in FreeFds
    BY <2>1, LowestIsMember
  <2> QED
    BY <2>2 DEF FreeFds
<1>3. /\ c \in Conns /\ c = backlog[1] /\ 1 \in 1 .. Len(backlog)
      /\ Tail(backlog) \in Seq(Conns)
      /\ Len(backlog) \in Nat /\ Len(Tail(backlog)) = Len(backlog) - 1
      /\ \A i \in 1 .. Len(Tail(backlog)) : Tail(backlog)[i] = backlog[i + 1]
  BY <1>1, HeadTailProperties, LenProperties
<1> HIDE DEF cfd, c
<1>4. /\ cfd \in Fds /\ cfd # Listener
      /\ slot[cfd] \in Slot /\ slot[cfd].status # 1 /\ slot[cfd].interest = {}
  <2>1. cfd \in Fds /\ cfd # Listener
    BY <1>2, FdsInTable
  <2> QED
    BY <1>2, <2>1
    DEF IInv, TypeOK, RegistrationAgrees, DescriptorsRegistered
<1>5. /\ slot' = [slot EXCEPT ![cfd] = Armed(@, "recv", {"IN"})]
      /\ sock' = [sock EXCEPT ![cfd] = c]
      /\ state' = [state EXCEPT ![c] = "open"]
      /\ backlog' = Tail(backlog)
      /\ Active({cfd}) /\ RanOn({fd, cfd})
      /\ UNCHANGED <<pc, checkpos, maps, peer, inq, full, reads, replies>>
  BY <1>4, ArmAny DEF AcceptConnection, Callback, Event, cfd, c
<1> DEFINE t == Armed(slot[cfd], "recv", {"IN"})
<1>6. /\ t \in Slot /\ t.callback = "recv" /\ t.events = {"IN"}
      /\ t.status = 1 /\ t.interest = {"IN"}
  BY <1>4, ArmedFields DEF Callback, Event
<1> HIDE DEF t
<1>7. /\ slot' \in [Fds -> Slot] /\ slot'[cfd] = t
      /\ \A f \in Fds \ {cfd} : slot'[f] = slot[f]
  BY <1>4, <1>5, <1>6 DEF IInv, TypeOK, t
<1>8. /\ sock' \in [ClientFds -> Conns \cup {NoConn}] /\ sock'[cfd] = c
      /\ \A f \in ClientFds \ {cfd} : sock'[f] = sock[f]
  BY <1>2, <1>3, <1>5 DEF IInv, TypeOK
<1>9. /\ state' \in [Conns -> {"new", "queued", "open", "closed"}]
      /\ state'[c] = "open" /\ \A d \in Conns \ {c} : state'[d] = state[d]
  BY <1>3, <1>5 DEF IInv, TypeOK
<1>10. state[c] = "queued" /\ c # NoConn /\ \A f \in ClientFds : sock[f] # c
  <2>1. state[c] = "queued"
    BY <1>3 DEF IInv, QueueHeld
  <2> QED
    BY <1>3, <2>1, FdsInTable DEF IInv, RegistrationAgrees, ConnectionsHeld
<1>11. BatchFresh' /\ batch' \in [Fds -> SUBSET Event]
  <2> SUFFICES ASSUME NEW f \in Fds \ {fd}, batch[f] # {}
               PROVE  slot'[f] = slot[f] /\ Ready(f)' = Ready(f)
    BY BatchConsumed DEF Consumes
  <2>1. f # cfd /\ f \in ClientFds
    BY <1>1, <1>4, FdsInTable, Dispatched
  <2>2. slot'[f] = slot[f] /\ sock'[f] = sock[f] /\ f # Listener
    BY <1>7, <1>8, <2>1, FdsInTable
  <2> QED
    BY <1>5, <2>1, <2>2 DEF Ready, Readable, Writable
<1>12. /\ age' \in [Fds -> 0 .. Timeout] /\ idle' \in [Fds -> 0 .. Timeout]
       /\ AgesAgree'
  BY <1>1, <1>5, AgesReset
<1>13. TypeOK'
  BY <1>3, <1>5, <1>7, <1>8, <1>9, <1>11, <1>12 DEF IInv, TypeOK
<1>14. DescriptorsRegistered'
  <2>1. DescriptorsRegistered
    BY DEF IInv, RegistrationAgrees
  <2>2. ASSUME NEW f \in Fds
        PROVE  /\ slot'[f].interest # {} <=> slot'[f].status = 1
               /\ slot'[f].status = 1 =>
                    /\ slot'[f].interest = slot'[f].events
                    /\ slot'[f].events =
                         IF slot'[f].callback = "send" THEN {"OUT"} ELSE {"IN"}
                    /\ slot'[f].callback = "accept" <=> f = Listener
                    /\ slot'[f].callback # "none"
    <3>1. CASE f = cfd
      BY <1>4, <1>6, <1>7, <3>1
    <3>2. CASE f # cfd
      BY <1>7, <2>1, <3>2 DEF DescriptorsRegistered
    <3> QED
      BY <3>1, <3>2
  <2>3. ASSUME NEW f \in ClientFds
        PROVE  sock'[f] # NoConn <=> slot'[f].status = 1
    <3>1. CASE f = cfd
      BY <1>6, <1>7, <1>8, <1>10, <3>1
    <3>2. CASE f # cfd
      BY <1>7, <1>8, <2>1, <3>2, FdsInTable DEF DescriptorsRegistered
    <3> QED
      BY <3>1, <3>2
  <2> QED
    BY <2>2, <2>3 DEF DescriptorsRegistered
<1>15. ConnectionsHeld'
  <2>1. ConnectionsHeld
    BY DEF IInv, RegistrationAgrees
  <2>2. \A f, other \in ClientFds :
           sock'[f] # NoConn /\ sock'[f] = sock'[other] => f = other
    BY <1>8, <1>10, <2>1 DEF ConnectionsHeld
  <2>3. ASSUME NEW d \in Conns
        PROVE  state'[d] = "open" <=> \E f \in ClientFds : sock'[f] = d
    <3>1. CASE d = c
      BY <1>2, <1>8, <1>9, <3>1
    <3>2. CASE d # c
      BY <1>2, <1>8, <1>9, <2>1, <3>2, FdsInTable DEF ConnectionsHeld
    <3> QED
      BY <3>1, <3>2
  <2> QED
    BY <2>2, <2>3 DEF ConnectionsHeld
<1>16. QueueHeld'
  <2>1. ASSUME NEW i \in 1 .. Len(backlog')
        PROVE  /\ i + 1 \in 1 .. Len(backlog) /\ backlog'[i] = backlog[i + 1]
               /\ backlog'[i] # c /\ backlog'[i] \in Conns
    <3>1. i + 1 \in 1 .. Len(backlog) /\ backlog'[i] = backlog[i + 1] /\ i + 1 # 1
      BY <1>3, <1>5
    <3>2. backlog[i + 1] # backlog[1] /\ backlog[i + 1] \in Conns
      BY <1>1, <1>3, <3>1, ElementOfSeq DEF IInv, QueueHeld
    <3> QED
      BY <1>3, <3>1, <3>2
  <2>2. \A i \in 1 .. Len(backlog') : state'[backlog'[i]] = "queued"
    BY <1>9, <2>1 DEF IInv, QueueHeld
  <2>3. ASSUME NEW i \in 1 .. Len(backlog'), NEW j \in 1 .. Len(backlog'),
               backlog'[i] = backlog'[j]
        PROVE  i = j
    <3>1. i + 1 = j + 1
      BY <2>1, <2>3 DEF IInv, QueueHeld
    <3> QED
      BY <3>1
  <2> QED
    BY <2>2, <2>3 DEF QueueHeld
<1>17. QueuedUntouched'
  BY <1>5, <1>9 DEF IInv, QueuedUntouched
<1>18. OneReplyPerRead'
  <2> SUFFICES ASSUME NEW f \in ClientFds, sock'[f] # NoConn
               PROVE  reads[sock'[f]] = Len(replies[sock'[f]]) +
                        (IF slot'[f].callback = "send" THEN 1 ELSE 0)
    BY <1>5 DEF OneReplyPerRead
  <2>1. CASE f = cfd
    <3>1. reads[c] = 0 /\ replies[c] = << >>
      BY <1>3, <1>10 DEF IInv, QueuedUntouched
    <3>2. reads[c] = Len(replies[c]) + 0
      BY <3>1
    <3> QED
      BY <1>6, <1>7, <1>8, <2>1, <3>2
  <2>2. CASE f # cfd
    <3>1. sock'[f] = sock[f] /\ slot'[f] = slot[f]
      BY <1>7, <1>8, <2>2, FdsInTable
    <3> QED
      BY <3>1 DEF IInv, OneReplyPerRead
  <2> QED
    BY <2>1, <2>2
<1>19. RepliesHeld'
  BY <1>6, <1>7, FdsInTable DEF IInv, RepliesHeld
<1> QED
  BY <1>11, <1>12, <1>13, <1>14, <1>15, <1>16, <1>17, <1>18, <1>19
  DEF IInv, RegistrationAgrees

\* accpet_callback without a free descriptor.
LEMMA AcceptFailsStep ==
    ASSUME IInv, NEW fd \in Fds, NEW e \in batch[fd],
           AcceptFails(fd), Consumes(fd, e)
    PROVE  IInv'
<1>1. UNCHANGED <<pc, slot, age, checkpos, maps, sock, netVars, history>>
  BY DEF AcceptFails
<1>2. BatchFresh' /\ batch' \in [Fds -> SUBSET Event]
  <2>1. \A f \in Fds \ {fd} : slot'[f] = slot[f] /\ Ready(f)' = Ready(f)
    BY <1>1 DEF Ready, Readable, Writable, netVars
  <2> QED
    BY <2>1, BatchConsumed DEF Consumes
<1>3. TypeOK' /\ AgesAgree'
  BY <1>1, <1>2 DEF IInv, TypeOK, AgesAgree, netVars, history
<1>4. UNCHANGED <<slot, sock, state, backlog, reads, replies>>
  BY <1>1 DEF netVars, history
<1> QED
  BY <1>2, <1>3, <1>4, RestKept DEF IInv

\* recv_callback and send_callback keep the connection: the descriptor's
\* entry is registered for the other event and its time is set.
LEMMA EntryTurned ==
    ASSUME IInv, NEW fd \in ClientFds, NEW e \in batch[fd], Consumes(fd, e),
           NEW t \in Slot, t.status = 1, t.interest = t.events,
           t.callback \in {"recv", "send"},
           t.events = IF t.callback = "send" THEN {"OUT"} ELSE {"IN"},
           t.callback = "send" => t.reply # "none",
           slot' = [slot EXCEPT ![fd] = t],
           Active({fd}), RanOn({fd}),
           UNCHANGED <<sock, state, backlog>>,
           reads' \in [Conns -> Nat],
           reads'[sock[fd]] = Len(replies'[sock[fd]]) +
                                (IF t.callback = "send" THEN 1 ELSE 0),
           \A d \in Conns \ {sock[fd]} :
              /\ inq'[d] = inq[d] /\ peer'[d] = peer[d] /\ full'[d] = full[d]
              /\ reads'[d] = reads[d] /\ replies'[d] = replies[d]
    PROVE  /\ slot' \in [Fds -> Slot] /\ batch' \in [Fds -> SUBSET Event]
           /\ age' \in [Fds -> 0 .. Timeout] /\ idle' \in [Fds -> 0 .. Timeout]
           /\ RegistrationAgrees' /\ QueueHeld' /\ QueuedUntouched'
           /\ BatchFresh' /\ OneReplyPerRead' /\ RepliesHeld' /\ AgesAgree'
<1>1. fd \in Fds /\ fd # Listener
  BY FdsInTable
<1>2. /\ slot' \in [Fds -> Slot] /\ slot'[fd] = t
      /\ \A f \in Fds \ {fd} : slot'[f] = slot[f]
  BY <1>1 DEF IInv, TypeOK
<1>3. slot[fd].status = 1 /\ sock[fd] \in Conns
  BY <1>1, Dispatched
<1>4. \A f \in ClientFds \ {fd} : sock[f] # NoConn =>
         sock[f] \in Conns /\ sock[f] # sock[fd]
  BY <1>3 DEF IInv, TypeOK, RegistrationAgrees, ConnectionsHeld
<1>5. DescriptorsRegistered'
  <2>1. DescriptorsRegistered
    BY DEF IInv, RegistrationAgrees
  <2>2. ASSUME NEW f \in Fds
        PROVE  /\ slot'[f].interest # {} <=> slot'[f].status = 1
               /\ slot'[f].status = 1 =>
                    /\ slot'[f].interest = slot'[f].events
                    /\ slot'[f].events =
                         IF slot'[f].callback = "send" THEN {"OUT"} ELSE {"IN"}
                    /\ slot'[f].callback = "accept" <=> f = Listener
                    /\ slot'[f].callback # "none"
    <3>1. CASE f = fd
      BY <1>1, <1>2, <3>1
    <3>2. CASE f # fd
      BY <1>2, <2>1, <3>2 DEF DescriptorsRegistered
    <3> QED
      BY <3>1, <3>2
  <2>3. ASSUME NEW f \in ClientFds
        PROVE  sock'[f] # NoConn <=> slot'[f].status = 1
    BY <1>2, <1>3, <2>1, FdsInTable DEF DescriptorsRegistered
  <2> QED
    BY <2>2, <2>3 DEF DescriptorsRegistered
<1>6. ConnectionsHeld' /\ QueueHeld'
  BY DEF IInv, RegistrationAgrees, ConnectionsHeld, QueueHeld
<1>7. BatchFresh' /\ batch' \in [Fds -> SUBSET Event]
  <2> SUFFICES ASSUME NEW f \in Fds \ {fd}, batch[f] # {}
               PROVE  slot'[f] = slot[f] /\ Ready(f)' = Ready(f)
    BY <1>1, BatchConsumed DEF Consumes
  <2>1. CASE f = Listener
    BY <1>2, <2>1, FdsInTable DEF Ready, Readable, Writable
  <2>2. CASE f \in ClientFds
    <3>1. sock[f] \in Conns
      BY <2>2, FdsInTable, Dispatched
    <3>2. sock[f] # sock[fd] /\ sock[f] # NoConn
      BY <1>4, <2>2, <3>1, FdsInTable
    <3> QED
      BY <1>2, <2>2, <3>1, <3>2, FdsInTable DEF Ready, Readable, Writable
  <2> QED
    BY <2>1, <2>2, FdsInTable
<1>8. QueuedUntouched'
  <2>1. state[sock[fd]] = "open"
    BY <1>3 DEF IInv, RegistrationAgrees, ConnectionsHeld
  <2> QED
    BY <2>1 DEF IInv, QueuedUntouched
<1>9. OneReplyPerRead'
  <2> SUFFICES ASSUME NEW f \in ClientFds, sock[f] # NoConn
               PROVE  reads'[sock[f]] = Len(replies'[sock[f]]) +
                        (IF slot'[f].callback = "send" THEN 1 ELSE 0)
    BY DEF OneReplyPerRead
  <2>1. CASE f = fd
    BY <1>2, <2>1, ZenonT(60)
  <2>2. CASE f # fd
    <3>1. slot'[f] = slot[f]
      BY <1>2, <2>2, FdsInTable
    <3>2. reads[sock[f]] = Len(replies[sock[f]]) +
             (IF slot[f].callback = "send" THEN 1 ELSE 0)
      BY DEF IInv, OneReplyPerRead
    <3>3. reads'[sock[f]] = reads[sock[f]] /\ replies'[sock[f]] = replies[sock[f]]
      BY <1>4, <2>2
    <3> QED
      BY <3>1, <3>2, <3>3
  <2> QED
    BY <2>1, <2>2
<1>10. RepliesHeld'
  BY <1>2, FdsInTable DEF IInv, RepliesHeld
<1>11. /\ age' \in [Fds -> 0 .. Timeout] /\ idle' \in [Fds -> 0 .. Timeout]
       /\ AgesAgree'
  BY AgesReset
<1> QED
  BY <1>2, <1>5, <1>6, <1>7, <1>8, <1>9, <1>10, <1>11 DEF RegistrationAgrees

\* Every way of closing a descriptor in a callback.
LEMMA EntryReleased ==
    ASSUME IInv, NEW fd \in ClientFds, NEW e \in batch[fd], Consumes(fd, e),
           slot' = [slot EXCEPT ![fd] = Freed(@)],
           sock' = [sock EXCEPT ![fd] = NoConn],
           state' = [state EXCEPT ![sock[fd]] = "closed"],
           UNCHANGED <<pc, age, checkpos, maps, backlog, peer, inq, full, history>>
    PROVE  IInv'
<1>1. fd \in Fds /\ fd # Listener
  BY FdsInTable
<1>2. slot[fd] \in Slot /\ slot[fd].status = 1 /\ sock[fd] \in Conns
  BY <1>1, Dispatched
<1> DEFINE c == sock[fd]
           t == Freed(slot[fd])
<1>3. t \in Slot /\ t.status = 0 /\ t.interest = {}
  BY <1>2, FreedFields
<1> HIDE DEF t
<1>4. /\ slot' \in [Fds -> Slot] /\ slot'[fd] = t
      /\ \A f \in Fds \ {fd} : slot'[f] = slot[f]
  BY <1>1, <1>3 DEF IInv, TypeOK, t
<1>5. /\ sock' \in [ClientFds -> Conns \cup {NoConn}] /\ sock'[fd] = NoConn
      /\ \A f \in ClientFds \ {fd} : sock'[f] = sock[f]
  BY DEF IInv, TypeOK
<1>6. /\ state' \in [Conns -> {"new", "queued", "open", "closed"}]
      /\ state'[c] = "closed" /\ state[c] = "open"
      /\ \A d \in Conns \ {c} : state'[d] = state[d]
  BY <1>2 DEF IInv, TypeOK, RegistrationAgrees, ConnectionsHeld
<1>7. c # NoConn /\ \A f \in ClientFds \ {fd} : sock[f] # c
  BY <1>2, FdsInTable DEF IInv, RegistrationAgrees, ConnectionsHeld
<1>8. BatchFresh' /\ batch' \in [Fds -> SUBSET Event]
  <2> SUFFICES ASSUME NEW f \in Fds \ {fd}, batch[f] # {}
               PROVE  slot'[f] = slot[f] /\ Ready(f)' = Ready(f)
    BY <1>1, BatchConsumed DEF Consumes
  <2>1. f # Listener => sock'[f] = sock[f]
    BY <1>5, FdsInTable
  <2> QED
    BY <1>4, <2>1, FdsInTable DEF Ready, Readable, Writable
<1>9. TypeOK'
  BY <1>4, <1>5, <1>6, <1>8 DEF IInv, TypeOK, history
<1>10. DescriptorsRegistered'
  <2>1. DescriptorsRegistered
    BY DEF IInv, RegistrationAgrees
  <2> QED
    BY <1>3, <1>4, <1>5, <2>1, FdsInTable DEF DescriptorsRegistered
<1>11. ConnectionsHeld'
  <2>1. ConnectionsHeld
    BY DEF IInv, RegistrationAgrees
  <2>2. \A f, other \in ClientFds :
           sock'[f] # NoConn /\ sock'[f] = sock'[other] => f = other
    BY <1>5, <2>1 DEF ConnectionsHeld
  <2>3. ASSUME NEW d \in Conns
        PROVE  state'[d] = "open" <=> \E f \in ClientFds : sock'[f] = d
    <3>1. CASE d = c
      BY <1>5, <1>6, <1>7, <3>1
    <3>2. CASE d # c
      BY <1>5, <1>6, <2>1, <3>2, FdsInTable DEF ConnectionsHeld
    <3> QED
      BY <3>1, <3>2
  <2> QED
    BY <2>2, <2>3 DEF ConnectionsHeld
<1>12. QueueHeld'
  <2>1. ASSUME NEW i \in 1 .. Len(backlog)
        PROVE  state'[backlog[i]] = "queued"
    <3>1. backlog[i] \in Conns /\ state[backlog[i]] = "queued"
      BY ElementOfSeq DEF IInv, TypeOK, QueueHeld
    <3> QED
      BY <1>6, <3>1
  <2> QED
    BY <2>1 DEF IInv, QueueHeld
<1>13. QueuedUntouched' /\ AgesAgree'
  BY <1>6 DEF IInv, QueuedUntouched, AgesAgree, history
<1>14. OneReplyPerRead'
  <2>1. \A f \in ClientFds : sock'[f] # NoConn =>
           sock'[f] = sock[f] /\ slot'[f] = slot[f]
    BY <1>4, <1>5, FdsInTable
  <2>2. reads' = reads /\ replies' = replies
    BY DEF history
  <2>3. \A f \in ClientFds : sock[f] # NoConn =>
           reads[sock[f]] = Len(replies[sock[f]])
                            + (IF slot[f].callback = "send" THEN 1 ELSE 0)
    BY DEF IInv, OneReplyPerRead
  <2>4. SUFFICES ASSUME NEW f \in ClientFds, sock'[f] # NoConn
                 PROVE  reads'[sock'[f]] = Len(replies'[sock'[f]])
                          + (IF slot'[f].callback = "send" THEN 1 ELSE 0)
    BY DEF OneReplyPerRead
  <2>5. sock'[f] = sock[f] /\ slot'[f] = slot[f]
    BY <2>1, <2>4
  <2> HIDE DEF c
  <2> QED
    BY <2>2, <2>3, <2>4, <2>5
<1>15. RepliesHeld'
  BY <1>3, <1>4, FdsInTable DEF IInv, RepliesHeld
<1> QED
  BY <1>8, <1>9, <1>10, <1>11, <1>12, <1>13, <1>14, <1>15
  DEF IInv, RegistrationAgrees

\* recv_callback and http_handler: the reply is owed.
LEMMA RecvDataStep ==
    ASSUME IInv, NEW fd \in Fds, NEW e \in batch[fd],
           slot[fd].callback = "recv", RecvData(fd), Consumes(fd, e)
    PROVE  IInv'
<1> DEFINE c == sock[fd]
<1>1. fd \in ClientFds /\ c \in Conns /\ slot[fd] \in Slot /\ slot[fd].status = 1
  BY Dispatched
<1>2. PICK reply \in {"page", "stale"} :
         /\ HandlerReplies(reply)
         /\ slot' = [slot EXCEPT ![fd] =
               ReArm([@ EXCEPT !.reply = reply], "send", {"OUT"})]
  BY DEF RecvData
<1> DEFINE s == [slot[fd] EXCEPT !.reply = reply]
           t == Armed(s, "send", {"OUT"})
<1>3. s \in Slot /\ s.status = 1 /\ s.reply = reply
  BY <1>1 DEF Slot
<1>4. ReArm(s, "send", {"OUT"}) = t
  BY <1>3, ArmAgain DEF Callback, Event
<1>5. /\ t \in Slot /\ t.callback = "send" /\ t.events = {"OUT"}
      /\ t.status = 1 /\ t.interest = {"OUT"} /\ t.reply # "none"
  <2> HIDE DEF s
  <2> QED
    BY <1>3, ArmedFields DEF Callback, Event
<1>6. slot' = [slot EXCEPT ![fd] = t]
  BY <1>2, <1>4
<1> HIDE DEF t, s
<1>7. /\ inq[c] > 0
      /\ inq' = [inq EXCEPT ![c] = @ - 1]
      /\ reads' = [reads EXCEPT ![c] = @ + 1]
      /\ Active({fd}) /\ RanOn({fd})
      /\ UNCHANGED <<pc, checkpos, sock, state, backlog, peer, full, replies>>
  BY DEF RecvData
<1>8. /\ inq' \in [Conns -> Nat] /\ reads' \in [Conns -> Nat]
      /\ reads'[c] = reads[c] + 1
      /\ \A d \in Conns \ {c} : inq'[d] = inq[d] /\ reads'[d] = reads[d]
  <2>1. inq[c] \in Nat /\ reads[c] \in Nat /\ inq[c] - 1 \in Nat
    BY <1>1, <1>7 DEF IInv, TypeOK
  <2> QED
    BY <1>1, <1>7, <2>1 DEF IInv, TypeOK
<1>9. maps' \in 0 .. MaxMaps
  BY <1>2, LightAssumption DEF HandlerReplies, IInv, TypeOK
<1>10. reads'[c] = Len(replies'[c]) + 1
  <2>1. reads[c] = Len(replies[c]) + 0
    BY <1>1, FdsInTable DEF IInv, OneReplyPerRead
  <2>2. reads[c] = Len(replies[c])
    <3>1. reads[c] \in Nat /\ Len(replies[c]) \in Nat
      BY <1>1, LenProperties DEF IInv, TypeOK
    <3> QED
      BY <2>1, <3>1
  <2> QED
    BY <1>7, <1>8, <2>2
<1>11. /\ slot' \in [Fds -> Slot] /\ batch' \in [Fds -> SUBSET Event]
       /\ age' \in [Fds -> 0 .. Timeout] /\ idle' \in [Fds -> 0 .. Timeout]
       /\ RegistrationAgrees' /\ QueueHeld' /\ QueuedUntouched'
       /\ BatchFresh' /\ OneReplyPerRead' /\ RepliesHeld' /\ AgesAgree'
  <2>1. reads'[sock[fd]] = Len(replies'[sock[fd]]) +
                             (IF t.callback = "send" THEN 1 ELSE 0)
    BY <1>5, <1>10
  <2> QED
    BY <1>1, <1>5, <1>6, <1>7, <1>8, <2>1, EntryTurned
<1>12. TypeOK'
  BY <1>7, <1>8, <1>9, <1>11 DEF IInv, TypeOK
<1> QED
  BY <1>11, <1>12 DEF IInv

\* recv_callback when the peer has ended.
LEMMA RecvEndStep ==
    ASSUME IInv, NEW fd \in Fds, NEW e \in batch[fd],
           slot[fd].callback = "recv", RecvEnd(fd), Consumes(fd, e)
    PROVE  IInv'
<1>1. fd \in ClientFds /\ slot[fd] \in Slot /\ slot[fd].status = 1
  BY Dispatched
<1>2. CloseDescriptor(GeventDel(slot[fd])) = Freed(slot[fd])
  BY <1>1, Released
<1>3. slot' = [slot EXCEPT ![fd] = Freed(@)]
  BY <1>2 DEF RecvEnd
<1> QED
  BY <1>1, <1>3, EntryReleased DEF RecvEnd

\* send_callback when send() took something: the reply is paid.
LEMMA SendDataStep ==
    ASSUME IInv, NEW fd \in Fds, NEW e \in batch[fd],
           slot[fd].callback = "send", SendData(fd), Consumes(fd, e)
    PROVE  IInv'
<1> DEFINE c == sock[fd]
           t == Armed(slot[fd], "recv", {"IN"})
<1>1. fd \in ClientFds /\ c \in Conns /\ slot[fd] \in Slot /\ slot[fd].status = 1
  BY Dispatched
<1>2. ReArm(slot[fd], "recv", {"IN"}) = t
  BY <1>1, ArmAgain DEF Callback, Event
<1>3. /\ t \in Slot /\ t.callback = "recv" /\ t.events = {"IN"}
      /\ t.status = 1 /\ t.interest = {"IN"}
  BY <1>1, ArmedFields DEF Callback, Event
<1>4. PICK taken \in Taken(slot[fd].reply) :
        replies' = [replies EXCEPT ![c] = Append(@, taken)]
  BY DEF SendData
<1>5. PICK noRoom \in BOOLEAN : full' = [full EXCEPT ![c] = noRoom]
  BY DEF SendData
<1>6. /\ slot' = [slot EXCEPT ![fd] = t] /\ Active({fd}) /\ RanOn({fd})
      /\ UNCHANGED <<pc, checkpos, maps, sock, state, backlog, peer, inq, reads>>
  BY <1>2 DEF SendData
<1> HIDE DEF t
<1>7. taken \in {"page", "stale", "part"}
  <2>1. slot[fd].reply \in {"page", "stale"}
    BY <1>1 DEF IInv, RepliesHeld, Slot
  <2> QED
    BY <2>1 DEF Taken
<1>8. /\ Append(replies[c], taken) \in Seq({"page", "stale", "part"})
      /\ Len(Append(replies[c], taken)) = Len(replies[c]) + 1
  BY <1>1, <1>7, AppendProperties DEF IInv, TypeOK
<1>9. /\ replies' \in [Conns -> Seq({"page", "stale", "part"})]
      /\ Len(replies'[c]) = Len(replies[c]) + 1
      /\ \A d \in Conns \ {c} : replies'[d] = replies[d] /\ full'[d] = full[d]
      /\ full' \in [Conns -> BOOLEAN]
  BY <1>1, <1>4, <1>5, <1>8 DEF IInv, TypeOK
<1>10. reads'[c] = Len(replies'[c]) + (IF t.callback = "send" THEN 1 ELSE 0)
  <2>1. reads[c] = Len(replies[c]) + 1 /\ Len(replies[c]) \in Nat
    BY <1>1, FdsInTable, LenProperties DEF IInv, OneReplyPerRead, TypeOK
  <2>2. reads'[c] = reads[c]
    BY <1>6
  <2>3. Len(replies'[c]) = reads[c] /\ Len(replies'[c]) \in Nat
    BY <1>9, <2>1
  <2> QED
    BY <1>3, <2>2, <2>3
<1>11. /\ slot' \in [Fds -> Slot] /\ batch' \in [Fds -> SUBSET Event]
       /\ age' \in [Fds -> 0 .. Timeout] /\ idle' \in [Fds -> 0 .. Timeout]
       /\ RegistrationAgrees' /\ QueueHeld' /\ QueuedUntouched'
       /\ BatchFresh' /\ OneReplyPerRead' /\ RepliesHeld' /\ AgesAgree'
  <2>1. reads' \in [Conns -> Nat]
    BY <1>6 DEF IInv, TypeOK
  <2> QED
    BY <1>1, <1>3, <1>6, <1>9, <1>10, <2>1, EntryTurned
<1>12. TypeOK'
  BY <1>6, <1>9, <1>11 DEF IInv, TypeOK
<1> QED
  BY <1>11, <1>12 DEF IInv

\* send_callback when send() failed.
LEMMA SendFailsStep ==
    ASSUME IInv, NEW fd \in Fds, NEW e \in batch[fd],
           slot[fd].callback = "send", SendFails(fd), Consumes(fd, e)
    PROVE  IInv'
<1>1. fd \in ClientFds /\ slot[fd] \in Slot /\ slot[fd].status = 1
  BY Dispatched
<1>2. GeventDel(CloseDescriptor(slot[fd])) = Freed(slot[fd])
  BY <1>1, Released
<1>3. slot' = [slot EXCEPT ![fd] = Freed(@)]
  BY <1>2 DEF SendFails
<1> QED
  BY <1>1, <1>3, EntryReleased DEF SendFails

\* One iteration of the dispatch loop.
LEMMA DispatchStep ==
    ASSUME IInv, NEW fd \in Fds, NEW e \in Event, Dispatch(fd, e)
    PROVE  IInv'
<1>1. e \in batch[fd]
  BY DEF Dispatch
<1>2. CASE slot[fd].callback = "recv" /\ RecvCrashes(fd)
  BY <1>2, DeadHolds DEF RecvCrashes
<1>3. CASE slot[fd].callback = "send" /\ SendKills(fd)
  BY <1>3, DeadHolds DEF SendKills
<1>4. CASE CallbackOf(fd) /\ batch' = [batch EXCEPT ![fd] = @ \ {e}]
  <2>1. Consumes(fd, e)
    BY <1>4 DEF Consumes
  <2> QED
    BY <1>1, <1>4, <2>1, AcceptConnectionStep, AcceptFailsStep, RecvDataStep,
       RecvEndStep, SendDataStep, SendFailsStep DEF CallbackOf
<1> QED
  BY <1>2, <1>3, <1>4 DEF Dispatch

-----------------------------------------------------------------------------
(* Time, the clients and the network.                                      *)

\* A second passes for every entry alike.
LEMMA TickStep == IInv /\ Tick => IInv'
<1> SUFFICES ASSUME IInv, Tick PROVE IInv'
  OBVIOUS
<1>1. /\ age' = Older(age) /\ idle' = Older(idle)
      /\ UNCHANGED <<pc, slot, checkpos, batch, maps, sock, netVars, reads, replies>>
  BY DEF Tick
<1>2. \A ages \in [Fds -> 0 .. Timeout] : Older(ages) \in [Fds -> 0 .. Timeout]
  <2> SUFFICES ASSUME NEW ages \in [Fds -> 0 .. Timeout], NEW f \in Fds
               PROVE  (IF ages[f] < Timeout THEN ages[f] + 1 ELSE Timeout)
                        \in 0 .. Timeout
    BY DEF Older
  <2>1. ages[f] \in 0 .. Timeout
    OBVIOUS
  <2> QED
    BY <2>1, LightAssumption
<1>3. TypeOK'
  BY <1>1, <1>2 DEF IInv, TypeOK, netVars
<1>4. AgesAgree'
  BY <1>1, FdsInTable DEF IInv, AgesAgree, Older
<1>5. BatchFresh'
  BY <1>1, BatchKept DEF Readable, Writable, netVars
<1>6. UNCHANGED <<slot, sock, state, backlog, reads, replies>>
  BY <1>1 DEF netVars
<1> QED
  BY <1>3, <1>4, <1>5, <1>6, RestKept DEF IInv

\* A connection joins the listener's queue.
LEMMA ConnectStep ==
    ASSUME IInv, NEW c \in Conns, Connect(c)
    PROVE  IInv'
<1>1. /\ state[c] = "new"
      /\ state' = [state EXCEPT ![c] = "queued"]
      /\ backlog' = Append(backlog, c)
      /\ UNCHANGED <<serverVars, sock, peer, inq, full, history>>
  BY DEF Connect
<1>2. /\ Len(backlog) \in Nat
      /\ Append(backlog, c) \in Seq(Conns)
      /\ Append(backlog, c) # << >>
      /\ Len(Append(backlog, c)) = Len(backlog) + 1
      /\ \A i \in 1 .. Len(backlog) : Append(backlog, c)[i] = backlog[i]
      /\ Append(backlog, c)[Len(backlog) + 1] = c
  <2>1. backlog \in Seq(Conns)
    BY DEF IInv, TypeOK
  <2> QED
    BY <2>1, AppendProperties, LenProperties
<1>3. /\ state' \in [Conns -> {"new", "queued", "open", "closed"}]
      /\ state'[c] = "queued" /\ \A d \in Conns \ {c} : state'[d] = state[d]
  BY <1>1 DEF IInv, TypeOK
<1>4. TypeOK'
  BY <1>1, <1>2, <1>3 DEF IInv, TypeOK, serverVars, history
<1>5. RegistrationAgrees'
  <2>1. DescriptorsRegistered'
    BY <1>1 DEF IInv, RegistrationAgrees, DescriptorsRegistered, serverVars
  <2>2. ConnectionsHeld'
    BY <1>1, <1>3 DEF IInv, RegistrationAgrees, ConnectionsHeld
  <2> QED
    BY <2>1, <2>2 DEF RegistrationAgrees
<1>6. BatchFresh'
  BY <1>1, <1>2, BatchKept DEF Readable, Writable, serverVars
<1>7. \A i \in 1 .. Len(backlog) :
         backlog[i] \in Conns /\ backlog[i] # c /\ state[backlog[i]] = "queued"
  BY <1>1, ElementOfSeq DEF IInv, TypeOK, QueueHeld
<1>8. ASSUME NEW i \in 1 .. Len(backlog')
      PROVE  \/ i \in 1 .. Len(backlog) /\ backlog'[i] = backlog[i]
             \/ i = Len(backlog) + 1 /\ backlog'[i] = c
  BY <1>1, <1>2
<1>9. QueueHeld'
  <2>1. \A i \in 1 .. Len(backlog') : state'[backlog'[i]] = "queued"
    BY <1>3, <1>7, <1>8
  <2>2. \A i, j \in 1 .. Len(backlog') : backlog'[i] = backlog'[j] => i = j
    BY <1>7, <1>8 DEF IInv, QueueHeld
  <2> QED
    BY <2>1, <2>2 DEF QueueHeld
<1>10. QueuedUntouched' /\ AgesAgree'
  BY <1>1, <1>3 DEF IInv, QueuedUntouched, AgesAgree, serverVars, history
<1>11. OneReplyPerRead' /\ RepliesHeld'
  <2>1. UNCHANGED <<slot, sock, reads, replies>>
    BY <1>1 DEF serverVars, history
  <2> QED
    BY <2>1 DEF IInv, OneReplyPerRead, RepliesHeld
<1> QED
  BY <1>4, <1>5, <1>6, <1>9, <1>10, <1>11 DEF IInv

\* What clients write, read, end and reset.
LEMMA ClientStep ==
    ASSUME IInv, NEW c \in Conns,
           ClientWrite(c) \/ ClientFin(c) \/ ClientReset(c) \/ ClientRead(c)
    PROVE  IInv'
<1>1. UNCHANGED <<serverVars, sock, state, backlog, history>>
  BY DEF ClientWrite, ClientFin, ClientReset, ClientRead
<1>2. /\ inq' \in [Conns -> Nat]
      /\ peer' \in [Conns -> {"up", "fin", "rst", "finrst"}]
      /\ full' \in [Conns -> BOOLEAN]
      /\ \A d \in Conns : /\ inq[d] > 0 => inq'[d] > 0
                          /\ peer[d] # "up" => peer'[d] # "up"
                          /\ peer[d] \in {"rst", "finrst"} =>
                               peer'[d] \in {"rst", "finrst"}
                          /\ ~full[d] => ~full'[d]
  <2>1. CASE ClientWrite(c)
    BY <2>1 DEF ClientWrite, IInv, TypeOK
  <2>2. CASE ClientFin(c) \/ ClientReset(c) \/ ClientRead(c)
    BY <2>2 DEF ClientFin, ClientReset, ClientRead, IInv, TypeOK
  <2> QED
    BY <2>1, <2>2
<1>3. TypeOK'
  BY <1>1, <1>2 DEF IInv, TypeOK, serverVars, history
<1>4. BatchFresh'
  <2>1. \A f \in ClientFds : sock[f] # NoConn => sock[f] \in Conns
    BY DEF IInv, TypeOK
  <2>2. \A f \in Fds : Readable(f) => Readable(f)'
    BY <1>1, <1>2, <2>1, FdsInTable DEF Readable
  <2>3. \A f \in Fds : Writable(f) => Writable(f)'
    BY <1>1, <1>2, <2>1 DEF Writable
  <2> QED
    BY <1>1, <2>2, <2>3, BatchKept DEF serverVars
<1>5. UNCHANGED <<slot, sock, state, backlog, reads, replies>> /\ AgesAgree'
  BY <1>1 DEF serverVars, history, IInv, AgesAgree
<1> QED
  BY <1>3, <1>4, <1>5, RestKept DEF IInv

\* Every step keeps the invariant.
LEMMA NextStep == IInv /\ [Next]_vars => IInv'
<1> SUFFICES ASSUME IInv, [Next]_vars PROVE IInv'
  OBVIOUS
<1>1. CASE UNCHANGED vars
  <2>1. UNCHANGED <<serverVars, sock, netVars, history>>
    BY <1>1 DEF vars
  <2>2. TypeOK' /\ AgesAgree'
    BY <2>1 DEF IInv, TypeOK, AgesAgree, serverVars, netVars, history
  <2>3. BatchFresh'
    BY <2>1, BatchKept DEF serverVars, netVars, Readable, Writable
  <2>4. UNCHANGED <<slot, sock, state, backlog, reads, replies>>
    BY <2>1 DEF serverVars, netVars, history
  <2> QED
    BY <2>2, <2>3, <2>4, RestKept DEF IInv
<1>2. CASE Server
  BY <1>2, StartStep, StartFailsStep, ScanStep, EpollWaitStep, DispatchStep
  DEF Server
<1>3. CASE Tick
  BY <1>3, TickStep
<1>4. CASE Environment
  BY <1>4, ConnectStep, ClientStep DEF Environment
<1> QED
  BY <1>1, <1>2, <1>3, <1>4 DEF Next

-----------------------------------------------------------------------------
(* The theorems.                                                           *)

\* IInv is an invariant: see the properties it is made of in LightHttp.
THEOREM Invariance == Spec => []IInv
BY InitHolds, NextStep, PTL DEF Spec

\* Type correctness of the table, the sockets and the histories, whatever the
\* page, the mappings and the kernel's memory.
THEOREM TypeCorrect == Spec => []TypeOK
<1>1. IInv => TypeOK
  BY DEF IInv
<1> QED
  BY <1>1, Invariance, PTL

\* Table, interest list and sockets agree through callbacks, timeouts, the
\* scan and every reuse of a number.
THEOREM RegistrationCorrect == Spec => []RegistrationAgrees
<1>1. IInv => RegistrationAgrees
  BY DEF IInv
<1> QED
  BY <1>1, Invariance, PTL

\* No harvested event is stale when the loop dispatches it, although the scan
\* closes descriptors behind the callbacks' back.
THEOREM BatchCorrect == Spec => []BatchFresh
<1>1. IInv => BatchFresh
  BY DEF IInv
<1> QED
  BY <1>1, Invariance, PTL

\* Every chunk read is answered once and in turn.
THEOREM RepliesCorrect == Spec => []OneReplyPerRead
<1>1. IInv => OneReplyPerRead
  BY DEF IInv
<1> QED
  BY <1>1, Invariance, PTL

\* The scan takes a client's connection only when no callback ran on it for
\* Timeout seconds.
THEOREM TimeoutCorrect == Spec => OnlyIdleClientsTimeOut
<1>1. IInv /\ [Next]_vars =>
        [\A fd \in ClientFds : ScanCloses(fd) => idle[fd] >= Timeout]_vars
  <2> SUFFICES ASSUME IInv, Next, NEW fd \in ClientFds, ScanCloses(fd)
               PROVE  idle[fd] >= Timeout
    OBVIOUS
  <2>1. Scan
    <3>1. pc = "scan" /\ pc' = "wait"
      BY DEF ScanCloses
    <3>2. ~Tick /\ ~Environment
      BY <3>1 DEF Tick, Environment, Connect, ClientWrite, ClientFin,
                  ClientReset, ClientRead, serverVars
    <3>3. ~Start /\ ~StartFails /\ ~EpollWait
      BY <3>1 DEF Start, StartFails, EpollWait
    <3>4. ASSUME NEW f \in Fds, NEW e \in Event, Dispatch(f, e)
          PROVE  FALSE
      <4>1. pc' \in {pc, "dead"}
        BY <3>4 DEF Dispatch, CallbackOf, AcceptConnection, AcceptFails,
           RecvData, RecvEnd, SendData, SendFails, RecvCrashes, SendKills, Die
      <4> QED
        BY <3>1, <4>1
    <3> QED
      BY <3>2, <3>3, <3>4 DEF Next, Server
  <2>2. fd \in Fds /\ slot[fd].status = 1 /\ slot'[fd].status = 0
    BY FdsInTable DEF ScanCloses
  <2>3. age[fd] >= Timeout
    <3>1. PICK expired \in SUBSET Fds :
             /\ \A f \in expired : slot[f].status = 1 /\ age[f] >= Timeout
             /\ \A f \in Fds \ expired : slot'[f] = slot[f]
      BY <2>1, ScanEffect
    <3> QED
      BY <2>2, <3>1
  <2> QED
    BY <2>3 DEF IInv, AgesAgree
<1> QED
  BY <1>1, Invariance, PTL DEF Spec, OnlyIdleClientsTimeOut

-----------------------------------------------------------------------------
(* The reply service.                                                      *)

Simulates == [Service!ReplyNext]_(Service!replyVars)

LEMMA ServiceInvInit == Init => ServiceInv
BY DEF Init, ServiceInv, NothingBeforeStart, RepliesMade, FreshSlot

\* While something is harvested the server has started.
LEMMA HasStarted ==
    ASSUME IInv, ServiceInv, NEW fd \in Fds, NEW e \in batch[fd]
    PROVE  pc # "start"
BY Dispatched DEF ServiceInv, NothingBeforeStart

LEMMA ServiceInvTurned ==
    ASSUME IInv, ServiceInv, pc' = pc, pc # "start", NEW fd \in Fds, NEW t,
           slot' = [slot EXCEPT ![fd] = t], t.reply \in {"none", Service!Reply}
    PROVE  ServiceInv'
<1>1. \A f \in Fds : slot'[f] = IF f = fd THEN t ELSE slot[f]
  BY DEF IInv, TypeOK
<1>2. Service!Reply' = Service!Reply
  BY DEF Service!Reply
<1> QED
  BY <1>1, <1>2 DEF ServiceInv, NothingBeforeStart, RepliesMade

LEMMA ServiceInvKept ==
    ASSUME ServiceInv, UNCHANGED slot, pc' = "start" => pc = "start"
    PROVE  ServiceInv'
BY DEF ServiceInv, NothingBeforeStart, RepliesMade, Service!Reply

\* What the service sees of the listener.
LEMMA ListenerKept ==
    ASSUME pc' = "start" <=> pc = "start", slot'[Listener].status = slot[Listener].status
    PROVE  ListenerState' = ListenerState
BY DEF ListenerState

LEMMA ListenerOpen ==
    ASSUME IInv, ServiceInv, slot[Listener].status = 1
    PROVE  pc # "start" /\ ListenerState = "open"
BY FdsInTable DEF ServiceInv, NothingBeforeStart, ListenerState

\* How long a connection has been quiet is in the entry of its descriptor.
LEMMA QuietOfOpen ==
    ASSUME IInv, NEW fd \in ClientFds, sock[fd] # NoConn
    PROVE  /\ sock[fd] \in Conns /\ state[sock[fd]] = "open" /\ Accepting[sock[fd]] = "open"
           /\ QuietTime[sock[fd]] = idle[fd]
<1>1. sock[fd] \in Conns /\ state[sock[fd]] = "open"
  BY DEF IInv, TypeOK, RegistrationAgrees, ConnectionsHeld
<1>2. \A g \in ClientFds : sock[g] = sock[fd] => g = fd
  BY DEF IInv, RegistrationAgrees, ConnectionsHeld
<1>3. (CHOOSE g \in ClientFds : sock[g] = sock[fd]) = fd
  BY <1>2
<1> QED
  BY <1>1, <1>3 DEF QuietTime, Accepting

LEMMA QuietOfOpenNext ==
    ASSUME IInv', NEW fd \in ClientFds, sock'[fd] # NoConn
    PROVE  QuietTime'[sock'[fd]] = idle'[fd]
<1>1. sock'[fd] \in Conns /\ state'[sock'[fd]] = "open"
  BY DEF IInv, TypeOK, RegistrationAgrees, ConnectionsHeld
<1>2. \A g \in ClientFds : sock'[g] = sock'[fd] => g = fd
  BY DEF IInv, RegistrationAgrees, ConnectionsHeld
<1>3. (CHOOSE g \in ClientFds : sock'[g] = sock'[fd]) = fd
  BY <1>2
<1> QED
  BY <1>1, <1>3 DEF QuietTime

LEMMA QuietOfOthers ==
    ASSUME NEW c \in Conns
    PROVE  /\ state[c] # "open" => QuietTime[c] = 0
           /\ state'[c] # "open" => QuietTime'[c] = 0
BY DEF QuietTime

LEMMA QuietKept ==
    ASSUME IInv, IInv', NEW c \in Conns, state'[c] = "open" <=> state[c] = "open",
           \A f \in ClientFds : sock[f] = c => sock'[f] = c /\ idle'[f] = idle[f]
    PROVE  QuietTime'[c] = QuietTime[c]
<1>1. CASE state[c] = "open"
  <2>1. PICK f \in ClientFds : sock[f] = c
    BY <1>1 DEF IInv, RegistrationAgrees, ConnectionsHeld
  <2>2. sock[f] # NoConn /\ sock'[f] # NoConn /\ sock'[f] = c /\ idle'[f] = idle[f]
    BY <2>1, FdsInTable
  <2> QED
    BY <2>1, <2>2, QuietOfOpen, QuietOfOpenNext
<1>2. CASE state[c] # "open"
  BY <1>2, QuietOfOthers
<1> QED
  BY <1>1, <1>2

\* Callbacks, clients and seconds that nobody outside sees.
LEMMA Stutters ==
    ASSUME pc' = "start" <=> pc = "start",
           UNCHANGED <<slot, age, maps, sock, state, peer, inq, reads, replies, idle>>
    PROVE  Simulates
<1>1. UNCHANGED <<ListenerState, Accepting, Written, QuietTime>>
  BY DEF ListenerState, Accepting, Written, QuietTime
<1> QED
  BY <1>1 DEF Simulates, Service!replyVars

\* As many connections are open as descriptors are in use.
LEMMA OpenCount ==
    ASSUME IInv
    PROVE  /\ Service!Cardinality(Service!Open) \in Nat /\ Cardinality(ClientFds) \in Nat
           /\ Service!Cardinality(Service!Open) <= Cardinality(ClientFds)
           /\ FreeFds = {} <=> Service!Cardinality(Service!Open) = Cardinality(ClientFds)
<1> DEFINE open == Service!Open
           used == {fd \in ClientFds : sock[fd] # NoConn}
           conn == [fd \in used |-> sock[fd]]
<1>1. open = {c \in Conns : state[c] = "open"}
  BY DEF Service!Open, Accepting
<1>2. conn \in [used -> open] /\ \A c \in open : \E fd \in used : conn[fd] = c
  <2>1. \A fd \in used : sock[fd] \in open
    BY <1>1, QuietOfOpen
  <2>2. ASSUME NEW c \in open PROVE \E fd \in used : conn[fd] = c
    <3>1. PICK fd \in ClientFds : sock[fd] = c
      BY <1>1 DEF IInv, RegistrationAgrees, ConnectionsHeld
    <3>2. fd \in used
      BY <1>1, <3>1, FdsInTable
    <3> QED
      BY <3>1, <3>2
  <2> HIDE DEF open
  <2> QED
    BY <2>1, <2>2
<1>3. \A f, g \in used : conn[f] = conn[g] => f = g
  BY DEF IInv, RegistrationAgrees, ConnectionsHeld
<1>4. FreeFds = {} <=> used = ClientFds
  BY DEF FreeFds
<1>5. IsFiniteSet(ClientFds)
  <2>1. TableSize - 1 \in Int /\ IsFiniteSet(0 .. TableSize - 1)
    BY LightAssumption, FS_Interval
  <2>2. ClientFds \subseteq 0 .. TableSize - 1
    BY LightAssumption DEF Fds
  <2> QED
    BY <2>1, <2>2, FS_Subset
<1>6. \A S : Service!Cardinality(S) = Cardinality(S)
  BY Zenon DEF Service!Cardinality, Cardinality
<1>7. used \in SUBSET ClientFds
  OBVIOUS
<1> HIDE DEF open, used, conn
<1>8. conn \in Bijection(used, open)
  BY <1>2, <1>3, Fun_IsBij
<1>9. ExistsBijection(used, open)
  BY <1>8 DEF ExistsBijection
<1>10. /\ IsFiniteSet(used) /\ Cardinality(used) <= Cardinality(ClientFds)
       /\ Cardinality(ClientFds) = Cardinality(used) => ClientFds = used
  BY <1>5, <1>7, FS_Subset
<1>11. Cardinality(open) = Cardinality(used)
  BY <1>9, <1>10, FS_Bijection
<1>12. Cardinality(used) \in Nat /\ Cardinality(ClientFds) \in Nat
  BY <1>5, <1>10, FS_CardinalityType
<1> QED
  BY <1>4, <1>6, <1>10, <1>11, <1>12 DEF open

-----------------------------------------------------------------------------
(* Each step simulates one of the service.                                 *)

\* The listener is registered, or its port was taken.
LEMMA StartSimulates ==
    ASSUME IInv, IInv', ServiceInv, Start
    PROVE  Simulates /\ ServiceInv'
<1> DEFINE s == slot[Listener]
           t == Armed(s, "accept", {"IN"})
<1>1. s \in Slot /\ (s.interest # {} <=> s.status = 1) /\ Listener \in Fds
  BY FdsInTable DEF IInv, TypeOK, RegistrationAgrees, DescriptorsRegistered
<1>2. t \in Slot /\ t.status = 1 /\ t.reply = s.reply
  BY <1>1, ArmedFields DEF Callback, Event
<1>3. /\ pc = "start" /\ pc' = "scan" /\ slot' = [slot EXCEPT ![Listener] = t]
      /\ Active({Listener}) /\ RanOn({Listener})
      /\ UNCHANGED <<checkpos, batch, maps, sock, netVars, reads, replies>>
  BY <1>1, ArmAny DEF Start, Callback, Event
<1> HIDE DEF t
<1>4. slot'[Listener] = t /\ \A f \in Fds \ {Listener} : slot'[f] = slot[f]
  BY <1>1, <1>3 DEF IInv, TypeOK
<1>5. ServiceInv'
  <2>1. t.reply \in {"none", Service!Reply}
    BY <1>1, <1>2 DEF ServiceInv, RepliesMade
  <2>2. \A f \in Fds : slot'[f].reply \in {"none", Service!Reply}
    BY <1>4, <2>1 DEF ServiceInv, RepliesMade
  <2> QED
    BY <1>3, <2>2 DEF ServiceInv, NothingBeforeStart, RepliesMade, Service!Reply
<1>6. ListenerState = "new" /\ ListenerState' = "open"
  BY <1>2, <1>3, <1>4 DEF ListenerState
<1>7. age'[Listener] = 0 /\ \A f \in ClientFds : idle'[f] = idle[f]
  BY <1>1, <1>3, FdsInTable DEF Active, RanOn
<1>8. QuietTime' = QuietTime
  <2>1. \A c \in Conns : QuietTime'[c] = QuietTime[c]
    BY <1>3, <1>7, QuietKept DEF netVars
  <2> QED
    BY <2>1 DEF QuietTime
<1>9. UNCHANGED <<maps, Accepting, peer, Written, reads, replies>>
  BY <1>3 DEF Accepting, Written, netVars
<1>10. Service!Listen
  BY <1>6, <1>7, <1>8, <1>9 DEF Service!Listen
<1> QED
  BY <1>5, <1>10 DEF Simulates, Service!ReplyNext

LEMMA StartFailsSimulates ==
    ASSUME IInv, ServiceInv, StartFails
    PROVE  Simulates /\ ServiceInv'
<1>1. /\ pc = "start" /\ pc' \in {"scan", "dead"}
      /\ UNCHANGED <<slot, age, checkpos, batch, maps, sock, netVars, history>>
  BY DEF StartFails
<1>2. slot[Listener].status = 0
  BY <1>1, FdsInTable DEF ServiceInv, NothingBeforeStart
<1>3. ListenerState = "new" /\ ListenerState' = "closed"
  BY <1>1, <1>2 DEF ListenerState
<1>4. UNCHANGED <<age, maps, Accepting, peer, Written, reads, replies, QuietTime>>
  BY <1>1 DEF Accepting, Written, QuietTime, netVars, history
<1>5. Service!Listen
  BY <1>3, <1>4 DEF Service!Listen
<1> QED
  BY <1>1, <1>5, ServiceInvKept DEF Simulates, Service!ReplyNext

\* The scan takes those that were quiet for Timeout, and the listener after as long.
LEMMA ScanSimulates ==
    ASSUME IInv, IInv', ServiceInv, Scan
    PROVE  Simulates /\ ServiceInv'
<1>1. PICK expired \in SUBSET Fds :
         /\ \A f \in expired : slot[f].status = 1 /\ age[f] >= Timeout
         /\ \A f \in expired : slot'[f] = Freed(slot[f])
         /\ \A f \in Fds \ expired : slot'[f] = slot[f]
         /\ \A f \in ClientFds : sock'[f] = IF f \in expired THEN NoConn
                                                             ELSE sock[f]
         /\ \A c \in Conns :
               IF \/ \E f \in expired \cap ClientFds : sock[f] = c
                  \/ Listener \in expired
                        /\ \E i \in 1 .. Len(backlog) : backlog[i] = c
               THEN state'[c] = "closed" ELSE state'[c] = state[c]
         /\ pc' = "wait"
         /\ UNCHANGED <<age, batch, maps, peer, inq, full, history>>
  BY ScanEffect
<1>2. /\ pc = "scan" /\ Listener \in Fds /\ Timeout \in Nat
      /\ \A f \in expired : age[f] = Timeout /\ slot'[f].status = 0
      /\ \A f \in Fds : slot'[f].reply = slot[f].reply
  <2>1. \A f \in Fds : age[f] \in 0 .. Timeout /\ slot[f] \in Slot
    BY DEF IInv, TypeOK
  <2>2. \A f \in expired : Freed(slot[f]).status = 0 /\ Freed(slot[f]).reply = slot[f].reply
    BY <2>1 DEF Freed, Slot
  <2>3. pc = "scan" /\ Listener \in Fds /\ Timeout \in Nat
    BY FdsInTable, LightAssumption DEF Scan, LoopTop
  <2>4. \A f \in expired : age[f] = Timeout /\ slot'[f].status = 0
    BY <1>1, <2>1, <2>2, <2>3
  <2>5. \A f \in Fds : slot'[f].reply = slot[f].reply
    BY <1>1, <2>2
  <2> QED
    BY <2>3, <2>4, <2>5
<1>3. ServiceInv'
  BY <1>1, <1>2 DEF ServiceInv, NothingBeforeStart, RepliesMade, Service!Reply
<1> DEFINE quiet == {c \in Conns : \E f \in expired \cap ClientFds : sock[f] = c}
           waiting == {c \in Conns : Listener \in expired
                                       /\ \E i \in 1 .. Len(backlog) : backlog[i] = c}
<1>4. \A c \in quiet : Accepting[c] = "open" /\ QuietTime[c] = Timeout
  <2> SUFFICES ASSUME NEW c \in quiet
               PROVE  Accepting[c] = "open" /\ QuietTime[c] = Timeout
    OBVIOUS
  <2>1. PICK f \in expired \cap ClientFds : sock[f] = c
    OBVIOUS
  <2>2. sock[f] # NoConn /\ age[f] = Timeout
    BY <1>2, <2>1, FdsInTable
  <2> QED
    BY <2>1, <2>2, QuietOfOpen DEF IInv, AgesAgree
<1>5. \A c \in waiting : state[c] = "queued" /\ Accepting[c] = "new" /\ Listener \in expired
  BY DEF IInv, QueueHeld, Accepting
<1>6. \A c \in Conns : state'[c] = IF c \in quiet \cup waiting THEN "closed" ELSE state[c]
  BY <1>1
<1>7. quiet \in SUBSET Service!Open
      /\ waiting \in SUBSET {c \in Conns : Accepting[c] = "new"}
  BY <1>4, <1>5 DEF Service!Open
<1>8. \A c \in Conns \ quiet : \A f \in ClientFds : sock[f] = c => sock'[f] = c
  BY <1>1
<1> HIDE DEF quiet, waiting
<1>9. Accepting' = [c \in Conns |-> IF c \in quiet \cup waiting THEN "closed" ELSE Accepting[c]]
  BY <1>6 DEF Accepting
<1>10. QuietTime' = [c \in Conns |-> IF c \in quiet THEN 0 ELSE QuietTime[c]]
  <2>1. ASSUME NEW c \in Conns
        PROVE  QuietTime'[c] = IF c \in quiet THEN 0 ELSE QuietTime[c]
    <3>1. CASE c \in quiet
      BY <1>6, <3>1, QuietOfOthers
    <3>2. CASE c \notin quiet
      <4>1. state'[c] = "open" <=> state[c] = "open"
        BY <1>5, <1>6, <3>2
      <4> QED
        BY <1>1, <1>8, <3>2, <4>1, QuietKept DEF history
    <3> QED
      BY <3>1, <3>2
  <2> QED
    BY <2>1 DEF QuietTime
<1>11. \/ waiting = {} /\ ListenerState' = ListenerState
       \/ ListenerState = "open" /\ age[Listener] = Timeout /\ ListenerState' = "closed"
  <2>1. CASE Listener \in expired
    <3>1. slot[Listener].status = 1 /\ slot'[Listener].status = 0
      BY <1>1, <1>2, <2>1
    <3> QED
      BY <1>1, <1>2, <2>1, <3>1, ListenerOpen DEF ListenerState
  <2>2. CASE Listener \notin expired
    <3>1. waiting = {}
      BY <1>5, <2>2
    <3> QED
      BY <1>1, <1>2, <2>2, <3>1 DEF ListenerState
  <2> QED
    BY <2>1, <2>2
<1>12. UNCHANGED <<age, maps, peer, Written, reads, replies>>
  BY <1>1 DEF Written, history
<1>13. Service!Expire
  BY <1>4, <1>7, <1>9, <1>10, <1>11, <1>12 DEF Service!Expire
<1> QED
  BY <1>3, <1>13 DEF Simulates, Service!ReplyNext

\* accpet_callback opens one that waited, on a number that was free.
LEMMA AcceptSimulates ==
    ASSUME IInv, IInv', ServiceInv, NEW fd \in Fds, NEW e \in batch[fd],
           slot[fd].callback = "accept", AcceptConnection(fd)
    PROVE  Simulates /\ ServiceInv'
<1> DEFINE cfd == Lowest(FreeFds)
           c == Head(backlog)
           t == Armed(slot[cfd], "recv", {"IN"})
<1>1. /\ fd = Listener /\ fd \notin ClientFds /\ backlog # << >>
      /\ slot[Listener].status = 1 /\ backlog \in Seq(Conns) /\ pc # "start"
  BY Dispatched, HasStarted DEF IInv, TypeOK
<1>2. FreeFds # {} /\ cfd \in ClientFds /\ sock[cfd] = NoConn
  <2>1. FreeFds # {} /\ FreeFds \in SUBSET Nat
    BY FdsInTable DEF AcceptConnection, FreeFds
  <2>2. cfd \in FreeFds
    BY <2>1, LowestIsMember
  <2> QED
    BY <2>1, <2>2 DEF FreeFds
<1>3. c \in Conns /\ state[c] = "queued"
  BY <1>1, HeadTailProperties, LenProperties DEF IInv, QueueHeld
<1> HIDE DEF cfd, c
<1>4. /\ cfd \in Fds /\ cfd # Listener
      /\ slot[cfd] \in Slot /\ slot[cfd].status # 1 /\ slot[cfd].interest = {}
  BY <1>2, FdsInTable DEF IInv, TypeOK, RegistrationAgrees, DescriptorsRegistered
<1>5. /\ slot' = [slot EXCEPT ![cfd] = t]
      /\ sock' = [sock EXCEPT ![cfd] = c]
      /\ state' = [state EXCEPT ![c] = "open"]
      /\ Active({cfd}) /\ RanOn({fd, cfd})
      /\ UNCHANGED <<pc, checkpos, maps, peer, inq, full, reads, replies>>
  BY <1>4, ArmAny DEF AcceptConnection, Callback, Event, cfd, c
<1>6. t.reply = slot[cfd].reply
  BY <1>4, ArmedFields DEF Callback, Event
<1> HIDE DEF t
<1>7. ServiceInv'
  <2>1. t.reply \in {"none", Service!Reply}
    BY <1>4, <1>6 DEF ServiceInv, RepliesMade
  <2> QED
    BY <1>1, <1>4, <1>5, <2>1, ServiceInvTurned
<1>8. ListenerState = "open" /\ ListenerState' = ListenerState /\ age'[Listener] = age[Listener]
  <2>1. slot'[Listener] = slot[Listener] /\ age'[Listener] = age[Listener]
    BY <1>1, <1>4, <1>5, FdsInTable DEF Active
  <2> QED
    BY <1>1, <1>5, <2>1, ListenerOpen, ListenerKept
<1>9. /\ sock'[cfd] = c /\ \A f \in ClientFds \ {cfd} : sock'[f] = sock[f] /\ idle'[f] = idle[f]
      /\ idle'[cfd] = 0 /\ \A d \in Conns \ {c} : state'[d] = state[d]
  BY <1>1, <1>2, <1>3, <1>4, <1>5, FdsInTable DEF RanOn, IInv, TypeOK
<1>10. QuietTime' = QuietTime
  <2>1. ASSUME NEW d \in Conns PROVE QuietTime'[d] = QuietTime[d]
    <3>1. CASE d = c
      <4>1. QuietTime[d] = 0
        BY <1>3, <3>1, QuietOfOthers
      <4>2. QuietTime'[d] = 0
        BY <1>2, <1>3, <1>9, <3>1, FdsInTable, QuietOfOpenNext
      <4> QED
        BY <4>1, <4>2
    <3>2. CASE d # c
      BY <1>2, <1>9, <3>2, FdsInTable, QuietKept
    <3> QED
      BY <3>1, <3>2
  <2> QED
    BY <2>1 DEF QuietTime
<1>11. Accepting[c] = "new" /\ Accepting' = [Accepting EXCEPT ![c] = "open"]
  BY <1>3, <1>5 DEF Accepting, IInv, TypeOK
<1>12. Service!Cardinality(Service!Open) < Cardinality(ClientFds)
  BY <1>2, OpenCount
<1>13. UNCHANGED <<maps, peer, Written, reads, replies>>
  BY <1>5 DEF Written
<1>14. Service!Accept(c)
  BY <1>8, <1>10, <1>11, <1>12, <1>13, Zenon DEF Service!Accept
<1> QED
  BY <1>3, <1>7, <1>14 DEF Simulates, Service!ReplyNext

\* A callback that runs on a client's descriptor ends its quiet.
LEMMA QuietEnds ==
    ASSUME IInv, IInv', NEW fd \in ClientFds, sock[fd] # NoConn, RanOn({fd}),
           UNCHANGED <<sock, state>>
    PROVE  QuietTime' = [QuietTime EXCEPT ![sock[fd]] = 0]
<1> DEFINE c == sock[fd]
<1>1. c \in Conns /\ idle'[fd] = 0 /\ \A f \in ClientFds \ {fd} : idle'[f] = idle[f]
  BY FdsInTable, QuietOfOpen DEF RanOn
<1>2. ASSUME NEW d \in Conns PROVE QuietTime'[d] = IF d = c THEN 0 ELSE QuietTime[d]
  <2>1. CASE d = c
    BY <1>1, <2>1, QuietOfOpenNext
  <2>2. CASE d # c
    BY <1>1, <2>2, QuietKept
  <2> QED
    BY <2>1, <2>2
<1> HIDE DEF c
<1>3. QuietTime' = [d \in Conns |-> IF d = c THEN 0 ELSE QuietTime[d]]
  BY <1>2 DEF QuietTime
<1>4. DOMAIN QuietTime = Conns
  BY DEF QuietTime
<1> QED
  BY <1>1, <1>3, <1>4 DEF c

\* What a callback on a client's entry does not touch.
LEMMA ClientTurned ==
    ASSUME IInv, ServiceInv, NEW fd \in ClientFds, NEW e \in batch[fd], NEW t,
           slot' = [slot EXCEPT ![fd] = t], t.reply \in {"none", Service!Reply},
           Active({fd}) \/ UNCHANGED age, pc' = pc
    PROVE  ServiceInv' /\ ListenerState' = ListenerState /\ age'[Listener] = age[Listener]
<1>1. fd \in Fds /\ fd # Listener /\ Listener \in Fds
  BY FdsInTable
<1>2. pc # "start"
  BY <1>1, HasStarted
<1>3. slot'[Listener] = slot[Listener] /\ age'[Listener] = age[Listener]
  BY <1>1 DEF Active
<1> QED
  BY <1>1, <1>2, <1>3, ServiceInvTurned, ListenerKept

\* What is owed when a callback runs.
LEMMA OwedWhen ==
    ASSUME IInv, NEW fd \in ClientFds, sock[fd] # NoConn
    PROVE  LET c == sock[fd]
           IN  /\ c \in Conns /\ reads[c] \in Nat /\ inq[c] \in Nat /\ Len(replies[c]) \in Nat
               /\ Written[c] = reads[c] + inq[c]
               /\ slot[fd].callback = "send" <=> Service!Owing(c)
               /\ c \in Service!Open
<1> DEFINE c == sock[fd]
<1>1. c \in Conns /\ c \in Service!Open
  BY QuietOfOpen DEF Service!Open
<1>2. reads[c] \in Nat /\ inq[c] \in Nat /\ Len(replies[c]) \in Nat
  BY <1>1, LenProperties DEF IInv, TypeOK
<1>3. reads[c] = Len(replies[c]) + (IF slot[fd].callback = "send" THEN 1 ELSE 0)
  BY DEF IInv, OneReplyPerRead
<1>4. slot[fd].callback = "send" <=> Service!Owing(c)
  <2>1. CASE slot[fd].callback = "send"
    <3>1. reads[c] = Len(replies[c]) + 1
      BY <1>3, <2>1
    <3> QED
      BY <1>2, <2>1, <3>1 DEF Service!Owing
  <2>2. CASE slot[fd].callback # "send"
    <3>1. reads[c] = Len(replies[c])
      BY <1>2, <1>3, <2>2
    <3> QED
      BY <1>2, <2>2, <3>1 DEF Service!Owing
  <2> QED
    BY <2>1, <2>2
<1>5. Written[c] = reads[c] + inq[c]
  BY <1>1 DEF Written
<1> QED
  BY <1>1, <1>2, <1>4, <1>5

\* The handler has no page when the service has none.
LEMMA PageIsThere ==
    ASSUME IInv, ServiceInv
    PROVE  Service!NoPage <=> NoDescriptor \/ maps >= MaxMaps
<1>1. maps \in 0 .. MaxMaps /\ MaxMaps \in Nat
  BY LightAssumption DEF IInv, TypeOK
<1>2. slot[Listener].interest # {} <=> slot[Listener].status = 1
  BY FdsInTable DEF IInv, RegistrationAgrees, DescriptorsRegistered
<1>3. slot[Listener].status = 1 <=> ListenerState = "open"
  BY ListenerOpen DEF ListenerState
<1>4. NoDescriptor <=> ListenerState = "open"
        /\ Service!Cardinality(Service!Open) = Cardinality(ClientFds)
  BY <1>2, <1>3, OpenCount DEF NoDescriptor
<1>5. maps = MaxMaps <=> maps >= MaxMaps
  BY <1>1
<1> QED
  BY <1>4, <1>5, Zenon DEF Service!NoPage

LEMMA RecvDataSimulates ==
    ASSUME IInv, IInv', ServiceInv, NEW fd \in ClientFds, NEW e \in batch[fd],
           sock[fd] \in Conns, slot[fd].callback = "recv", RecvData(fd)
    PROVE  Simulates /\ ServiceInv'
<1> DEFINE c == sock[fd]
<1>1. fd \in Fds /\ slot[fd] \in Slot /\ slot[fd].status = 1 /\ c # NoConn
  BY FdsInTable, Dispatched
<1>2. PICK reply \in {"page", "stale"} :
        /\ HandlerReplies(reply)
        /\ slot' = [slot EXCEPT ![fd] = ReArm([@ EXCEPT !.reply = reply], "send", {"OUT"})]
  BY DEF RecvData
<1>3. /\ inq[c] > 0 /\ inq' = [inq EXCEPT ![c] = @ - 1] /\ reads' = [reads EXCEPT ![c] = @ + 1]
      /\ Active({fd}) /\ RanOn({fd})
      /\ UNCHANGED <<pc, checkpos, sock, state, backlog, peer, full, replies>>
  BY DEF RecvData
<1> DEFINE s == [slot[fd] EXCEPT !.reply = reply]
           t == ReArm(s, "send", {"OUT"})
<1>4. t.reply = reply
  <2>1. s \in Slot /\ s.status = 1 /\ s.reply = reply
    BY <1>1 DEF Slot
  <2> HIDE DEF s
  <2>2. t = Armed(s, "send", {"OUT"})
    BY <2>1, ArmAgain DEF Callback, Event
  <2> QED
    BY <2>1, <2>2, ArmedFields DEF Callback, Event
<1>5. reply = Service!Reply /\ maps' = (IF PageExists THEN maps + 1 ELSE maps)
      /\ (PageExists => ~Service!NoPage)
  <2>1. maps \in Nat /\ MaxMaps \in Nat
    BY LightAssumption DEF IInv, TypeOK
  <2> QED
    BY <1>2, <2>1, PageIsThere DEF HandlerReplies, Service!Reply
<1>6. slot' = [slot EXCEPT ![fd] = t]
  BY <1>2
<1> HIDE DEF t
<1>7. ServiceInv' /\ ListenerState' = ListenerState /\ age'[Listener] = age[Listener]
  BY <1>3, <1>4, <1>5, <1>6, ClientTurned
<1>8. QuietTime' = [QuietTime EXCEPT ![c] = 0]
  BY <1>1, <1>3, QuietEnds
<1>9. /\ c \in Service!Open /\ ~Service!Owing(c) /\ reads[c] < Written[c]
      /\ reads[c] \in Nat /\ inq[c] \in Nat /\ c \in Conns
  BY <1>1, <1>3, OwedWhen
<1> HIDE DEF c
<1>10. Written' = Written
  <2>1. \A d \in Conns : reads'[d] + inq'[d] = reads[d] + inq[d]
    BY <1>3, <1>9 DEF IInv, TypeOK
  <2> QED
    BY <2>1 DEF Written
<1>11. Accepting' = Accepting
  BY <1>3 DEF Accepting
<1>12. Service!Take(c)
  BY <1>3, <1>5, <1>7, <1>8, <1>9, <1>10, <1>11, Zenon DEF Service!Take
<1> QED
  BY <1>7, <1>9, <1>12 DEF Simulates, Service!ReplyNext

LEMMA SendDataSimulates ==
    ASSUME IInv, IInv', ServiceInv, NEW fd \in ClientFds, NEW e \in batch[fd],
           sock[fd] \in Conns, slot[fd].callback = "send", SendData(fd)
    PROVE  Simulates /\ ServiceInv'
<1> DEFINE c == sock[fd]
           t == ReArm(slot[fd], "recv", {"IN"})
<1>1. fd \in Fds /\ slot[fd] \in Slot /\ slot[fd].status = 1 /\ c # NoConn
  BY FdsInTable, Dispatched
<1>2. /\ peer[c] \in {"up", "fin"} /\ slot' = [slot EXCEPT ![fd] = t]
      /\ Active({fd}) /\ RanOn({fd})
      /\ UNCHANGED <<pc, checkpos, maps, sock, state, backlog, peer, inq, reads>>
  BY DEF SendData
<1>3. PICK taken \in Taken(slot[fd].reply) : replies' = [replies EXCEPT ![c] = Append(@, taken)]
  BY DEF SendData
<1>4. slot[fd].reply = Service!Reply
  BY <1>1 DEF IInv, RepliesHeld, ServiceInv, RepliesMade
<1>5. t.reply = Service!Reply
  BY <1>1, <1>4, ArmAgain, ArmedFields DEF Callback, Event
<1>6. taken \in {Service!Reply} \cup (IF MemoryPressure THEN {"part"} ELSE {})
  BY <1>3, <1>4 DEF Taken
<1> HIDE DEF t
<1>7. ServiceInv' /\ ListenerState' = ListenerState /\ age'[Listener] = age[Listener]
  BY <1>2, <1>5, ClientTurned
<1>8. QuietTime' = [QuietTime EXCEPT ![c] = 0]
  BY <1>1, <1>2, QuietEnds
<1>9. c \in Service!Open /\ Service!Owing(c) /\ c \in Conns
  BY <1>1, OwedWhen
<1> HIDE DEF c
<1>10. UNCHANGED <<maps, Accepting, peer, Written, reads>>
  BY <1>2 DEF Accepting, Written
<1>11. Service!Answer(c)
  BY <1>2, <1>3, <1>6, <1>7, <1>8, <1>9, <1>10, Zenon DEF Service!Answer
<1> QED
  BY <1>7, <1>9, <1>11 DEF Simulates, Service!ReplyNext

\* recv_callback and send_callback close when the client gave a reason.
LEMMA ClosesSimulates ==
    ASSUME IInv, IInv', ServiceInv, NEW fd \in ClientFds, NEW e \in batch[fd],
           sock[fd] \in Conns,
           \/ slot[fd].callback = "recv" /\ RecvEnd(fd)
           \/ slot[fd].callback = "send" /\ SendFails(fd)
    PROVE  Simulates /\ ServiceInv'
<1> DEFINE c == sock[fd]
           t == Freed(slot[fd])
<1>1. fd \in Fds /\ fd # Listener /\ slot[fd] \in Slot /\ slot[fd].status = 1 /\ c # NoConn
  BY FdsInTable, Dispatched
<1>2. /\ slot' = [slot EXCEPT ![fd] = t] /\ sock' = [sock EXCEPT ![fd] = NoConn]
      /\ state' = [state EXCEPT ![c] = "closed"]
      /\ UNCHANGED <<pc, age, checkpos, maps, backlog, peer, inq, full, history>>
  BY <1>1, Released DEF RecvEnd, SendFails
<1>3. t.reply \in {"none", Service!Reply}
  BY <1>1 DEF Freed, Slot, ServiceInv, RepliesMade
<1> HIDE DEF t
<1>4. ServiceInv' /\ ListenerState' = ListenerState /\ age'[Listener] = age[Listener]
  BY <1>2, <1>3, ClientTurned
<1>5. /\ c \in Service!Open /\ c \in Conns /\ reads[c] \in Nat /\ inq[c] \in Nat
      /\ Written[c] = reads[c] + inq[c] /\ (slot[fd].callback = "send" <=> Service!Owing(c))
      /\ peer[c] \in {"up", "fin", "rst", "finrst"}
  BY <1>1, OwedWhen DEF IInv, TypeOK
<1>6. \/ peer[c] = "fin" /\ ~Service!Owing(c) /\ reads[c] = Written[c]
      \/ peer[c] \in {"rst", "finrst"}
      \/ MemoryPressure /\ Service!Owing(c)
  <2>1. CASE slot[fd].callback = "recv" /\ RecvEnd(fd)
    <3>1. inq[c] = 0 /\ ~Service!Owing(c)
      BY <1>5, <2>1 DEF RecvEnd
    <3>2. peer[c] # "up"
      <4>1. batch[fd] = Ready(fd) /\ batch[fd] = slot[fd].events /\ slot[fd].events = {"IN"}
        BY <1>1, <2>1 DEF IInv, BatchFresh, RegistrationAgrees, DescriptorsRegistered
      <4>2. Readable(fd)
        BY <4>1 DEF Ready
      <4> QED
        BY <1>1, <3>1, <4>2 DEF Readable
    <3>3. reads[c] = Written[c]
      BY <1>5, <3>1
    <3> QED
      BY <1>5, <3>1, <3>2, <3>3
  <2>2. CASE slot[fd].callback = "send" /\ SendFails(fd)
    BY <1>5, <2>2 DEF SendFails
  <2> QED
    BY <2>1, <2>2
<1>7. /\ state[c] = "open" /\ \A d \in Conns \ {c} : state'[d] = state[d]
      /\ state'[c] = "closed" /\ \A f \in ClientFds \ {fd} : sock'[f] = sock[f]
  <2>1. state[c] = "open"
    BY <1>1, QuietOfOpen
  <2> HIDE DEF c
  <2>2. state'[c] = "closed" /\ \A d \in Conns \ {c} : state'[d] = state[d]
    BY <1>2, <1>5 DEF IInv, TypeOK
  <2>3. \A f \in ClientFds \ {fd} : sock'[f] = sock[f]
    BY <1>2 DEF IInv, TypeOK
  <2> QED
    BY <2>1, <2>2, <2>3
<1>8. QuietTime' = [QuietTime EXCEPT ![c] = 0]
  <2>1. ASSUME NEW d \in Conns PROVE QuietTime'[d] = IF d = c THEN 0 ELSE QuietTime[d]
    <3>1. CASE d = c
      BY <1>7, <3>1, QuietOfOthers
    <3>2. CASE d # c
      BY <1>2, <1>7, <3>2, QuietKept DEF history
    <3> QED
      BY <3>1, <3>2
  <2> HIDE DEF c
  <2>2. QuietTime' = [d \in Conns |-> IF d = c THEN 0 ELSE QuietTime[d]]
    BY <2>1 DEF QuietTime
  <2>3. DOMAIN QuietTime = Conns
    BY DEF QuietTime
  <2> QED
    BY <1>5, <2>2, <2>3
<1> HIDE DEF c
<1>9. Accepting' = [Accepting EXCEPT ![c] = "closed"]
  BY <1>2, <1>5, <1>7 DEF Accepting, IInv, TypeOK
<1>10. UNCHANGED <<maps, peer, Written, reads, replies>>
  BY <1>2 DEF Written, history
<1>11. Service!Close(c)
  BY <1>4, <1>5, <1>6, <1>8, <1>9, <1>10, Zenon DEF Service!Close
<1> QED
  BY <1>4, <1>5, <1>11 DEF Simulates, Service!ReplyNext

\* A reply that meets a reset after an end, and a page that cannot be mapped.
LEMMA DieSimulates ==
    ASSUME IInv, ServiceInv, NEW fd \in ClientFds, sock[fd] \in Conns,
           \/ slot[fd].callback = "recv" /\ RecvCrashes(fd)
           \/ slot[fd].callback = "send" /\ SendKills(fd)
    PROVE  Simulates /\ ServiceInv'
<1> DEFINE c == sock[fd]
<1>1. c # NoConn /\ Die
  BY FdsInTable DEF RecvCrashes, SendKills
<1>2. /\ c \in Service!Open /\ reads[c] \in Nat /\ inq[c] \in Nat
      /\ Written[c] = reads[c] + inq[c] /\ (slot[fd].callback = "send" <=> Service!Owing(c))
  BY <1>1, OwedWhen
<1>3. \/ Service!Owing(c) /\ peer[c] = "finrst"
      \/ PageExists /\ Service!NoPage /\ ~Service!Owing(c) /\ reads[c] < Written[c]
  <2>1. CASE slot[fd].callback = "recv" /\ RecvCrashes(fd)
    BY <1>2, <2>1, PageIsThere DEF RecvCrashes, HandlerCrashes
  <2>2. CASE slot[fd].callback = "send" /\ SendKills(fd)
    BY <1>2, <2>2 DEF SendKills
  <2> QED
    BY <2>1, <2>2
<1> HIDE DEF c
<1>4. /\ pc' = "dead" /\ slot' = [f \in Fds |-> FreshSlot]
      /\ state' = [d \in Conns |-> "closed"]
      /\ UNCHANGED <<age, checkpos, maps, peer, inq, full, history>>
  BY <1>1 DEF Die
<1>5. ListenerState' = "closed"
  BY <1>4, FdsInTable DEF ListenerState, FreshSlot
<1>6. Accepting' = [d \in Conns |-> "closed"] /\ QuietTime' = [d \in Conns |-> 0]
  BY <1>4 DEF Accepting, QuietTime
<1>7. UNCHANGED <<age, maps, peer, Written, reads, replies>>
  BY <1>4 DEF Written, history
<1>8. Service!Die
  BY <1>2, <1>3, <1>5, <1>6, <1>7, Zenon DEF Service!Die
<1>9. ServiceInv'
  BY <1>4 DEF ServiceInv, NothingBeforeStart, RepliesMade, FreshSlot
<1> QED
  BY <1>8, <1>9 DEF Simulates, Service!ReplyNext

LEMMA DispatchSimulates ==
    ASSUME IInv, IInv', ServiceInv, NEW fd \in Fds, NEW e \in Event, Dispatch(fd, e)
    PROVE  Simulates /\ ServiceInv'
<1>1. e \in batch[fd]
  BY DEF Dispatch
<1>2. /\ \/ fd = Listener /\ slot[fd].callback = "accept"
         \/ fd \in ClientFds /\ slot[fd].callback \in {"recv", "send"} /\ sock[fd] \in Conns
  BY <1>1, Dispatched
<1>3. CASE slot[fd].callback = "accept" /\ AcceptConnection(fd)
  BY <1>1, <1>3, AcceptSimulates
<1>4. CASE slot[fd].callback = "accept" /\ AcceptFails(fd)
  <2>1. UNCHANGED <<pc, slot, age, checkpos, maps, sock, netVars, history>>
    BY <1>4 DEF AcceptFails
  <2> QED
    BY <2>1, ServiceInvKept, Stutters DEF netVars, history
<1>5. CASE slot[fd].callback = "recv" /\ RecvData(fd)
  BY <1>1, <1>2, <1>5, RecvDataSimulates
<1>6. CASE slot[fd].callback = "send" /\ SendData(fd)
  BY <1>1, <1>2, <1>6, SendDataSimulates
<1>7. CASE \/ slot[fd].callback = "recv" /\ RecvEnd(fd)
           \/ slot[fd].callback = "send" /\ SendFails(fd)
  BY <1>1, <1>2, <1>7, ClosesSimulates
<1>8. CASE \/ slot[fd].callback = "recv" /\ RecvCrashes(fd)
           \/ slot[fd].callback = "send" /\ SendKills(fd)
  BY <1>2, <1>8, DieSimulates
<1> QED
  BY <1>3, <1>4, <1>5, <1>6, <1>7, <1>8 DEF Dispatch, CallbackOf

\* A second passes for the connections and for the listener.
LEMMA TickSimulates ==
    ASSUME IInv, IInv', ServiceInv, Tick
    PROVE  Simulates /\ ServiceInv'
<1>1. /\ age' = Older(age) /\ idle' = Older(idle)
      /\ UNCHANGED <<pc, slot, checkpos, batch, maps, sock, netVars, reads, replies>>
  BY DEF Tick
<1>2. age'[Listener] = Service!Later(age[Listener])
      /\ \A f \in ClientFds : idle'[f] = Service!Later(idle[f])
  BY <1>1, FdsInTable DEF Older, Service!Later
<1>3. ASSUME NEW c \in Conns
      PROVE  QuietTime'[c] = IF c \in Service!Open THEN Service!Later(QuietTime[c]) ELSE QuietTime[c]
  <2>1. c \in Service!Open <=> state[c] = "open"
    BY DEF Service!Open, Accepting
  <2>2. CASE state[c] = "open"
    <3>1. PICK f \in ClientFds : sock[f] = c
      BY <2>2 DEF IInv, RegistrationAgrees, ConnectionsHeld
    <3>2. sock[f] # NoConn /\ sock'[f] # NoConn /\ sock'[f] = c
      BY <1>1, <3>1, FdsInTable
    <3> QED
      BY <1>2, <2>1, <2>2, <3>1, <3>2, QuietOfOpen, QuietOfOpenNext
  <2>3. CASE state[c] # "open"
    <3>1. state'[c] # "open"
      BY <1>1, <2>3 DEF netVars
    <3> QED
      BY <2>1, <2>3, <3>1, QuietOfOthers
  <2> QED
    BY <2>2, <2>3
<1>4. QuietTime' = [c \in Conns |-> IF c \in Service!Open THEN Service!Later(QuietTime[c])
                                                          ELSE QuietTime[c]]
  BY <1>3 DEF QuietTime
<1>5. UNCHANGED <<ListenerState, maps, Accepting, peer, Written, reads, replies>>
  BY <1>1 DEF ListenerState, Accepting, Written, netVars
<1>6. Service!Pass
  BY <1>2, <1>4, <1>5, Zenon DEF Service!Pass
<1> QED
  BY <1>1, <1>6, ServiceInvKept DEF Simulates, Service!ReplyNext

LEMMA EnvironmentSimulates ==
    ASSUME IInv, IInv', ServiceInv, NEW c \in Conns,
           \/ Connect(c) \/ ClientWrite(c) \/ ClientFin(c) \/ ClientReset(c) \/ ClientRead(c)
    PROVE  Simulates /\ ServiceInv'
<1>1. UNCHANGED <<serverVars, sock, history>>
  BY DEF Connect, ClientWrite, ClientFin, ClientReset, ClientRead
<1>2. ServiceInv' /\ UNCHANGED <<ListenerState, age, maps, reads, replies, idle, slot, pc>>
  BY <1>1, ServiceInvKept DEF ListenerState, serverVars, history
<1>3. CASE Connect(c)
  <2>1. state[c] = "new" /\ state' = [state EXCEPT ![c] = "queued"] /\ UNCHANGED <<peer, inq>>
    BY <1>3 DEF Connect
  <2>2. UNCHANGED Accepting
    BY <2>1 DEF Accepting, IInv, TypeOK
  <2>3. UNCHANGED QuietTime
    <3>1. \A d \in Conns : state'[d] = "open" <=> state[d] = "open"
      BY <2>1 DEF IInv, TypeOK
    <3>2. \A d \in Conns : QuietTime'[d] = QuietTime[d]
      BY <1>1, <3>1, QuietKept DEF history
    <3> QED
      BY <3>2 DEF QuietTime
  <2>4. UNCHANGED Written
    BY <1>2, <2>1 DEF Written
  <2> QED
    BY <1>2, <2>1, <2>2, <2>3, <2>4 DEF Simulates, Service!replyVars
<1>4. CASE ClientWrite(c)
  <2>1. peer[c] = "up" /\ inq' = [inq EXCEPT ![c] = @ + 1] /\ UNCHANGED <<state, peer>>
    BY <1>4 DEF ClientWrite
  <2>2. UNCHANGED <<Accepting, QuietTime>>
    BY <1>1, <1>2, <2>1 DEF Accepting, QuietTime
  <2>3. Written' = [Written EXCEPT ![c] = @ + 1]
    <3>1. \A d \in Conns : reads[d] \in Nat /\ inq[d] \in Nat
      BY DEF IInv, TypeOK
    <3>2. \A d \in Conns : reads'[d] + inq'[d] = IF d = c THEN reads[d] + inq[d] + 1
                                                           ELSE reads[d] + inq[d]
      BY <1>2, <2>1, <3>1 DEF IInv, TypeOK
    <3> QED
      BY <3>2 DEF Written
  <2>4. Service!Write(c)
    BY <1>2, <2>1, <2>2, <2>3 DEF Service!Write
  <2> QED
    BY <1>2, <2>4 DEF Simulates, Service!ReplyNext
<1>5. CASE ClientFin(c) \/ ClientReset(c)
  <2>1. UNCHANGED <<state, inq>>
    BY <1>5 DEF ClientFin, ClientReset
  <2>2. UNCHANGED <<Accepting, Written, QuietTime>>
    BY <1>1, <1>2, <2>1 DEF Accepting, Written, QuietTime
  <2>3. \E how \in CASE peer[c] = "up"  -> {"fin", "rst"}
                     [] peer[c] = "fin" -> {"finrst"}
                     [] OTHER           -> {} :
           peer' = [peer EXCEPT ![c] = how]
    BY <1>5 DEF ClientFin, ClientReset
  <2>4. Service!End(c)
    BY <1>2, <2>2, <2>3 DEF Service!End
  <2> QED
    BY <1>2, <2>4 DEF Simulates, Service!ReplyNext
<1>6. CASE ClientRead(c)
  <2>1. UNCHANGED <<state, peer, inq>>
    BY <1>6 DEF ClientRead
  <2> QED
    BY <1>1, <1>2, <2>1, Stutters DEF serverVars
<1> QED
  BY <1>3, <1>4, <1>5, <1>6

\* Every step of the server, of its clients and of time.
LEMMA SimulatesNext ==
    ASSUME IInv, IInv', ServiceInv, [Next]_vars
    PROVE  Simulates /\ ServiceInv'
<1>1. CASE Start \/ StartFails \/ Scan
  BY <1>1, StartSimulates, StartFailsSimulates, ScanSimulates
<1>2. CASE EpollWait
  <2>1. /\ pc = "wait" /\ pc' = "scan"
        /\ UNCHANGED <<slot, age, checkpos, maps, sock, netVars, history>>
    BY <1>2 DEF EpollWait
  <2> QED
    BY <2>1, ServiceInvKept, Stutters DEF netVars, history
<1>3. CASE \E fd \in Fds, e \in Event : Dispatch(fd, e)
  BY <1>3, DispatchSimulates
<1>4. CASE Tick
  BY <1>4, TickSimulates
<1>5. CASE Environment
  BY <1>5, EnvironmentSimulates DEF Environment
<1>6. CASE UNCHANGED vars
  <2>1. UNCHANGED <<serverVars, sock, netVars, history>>
    BY <1>6 DEF vars
  <2> QED
    BY <2>1, ServiceInvKept, Stutters DEF serverVars, netVars, history
<1> QED
  BY <1>1, <1>2, <1>3, <1>4, <1>5, <1>6 DEF Next, Server

\* The server implements the reply service: each chunk is answered whole and before
\* the next is read, a connection is closed only for what its client did or for
\* Timeout of quiet, and the listener after Timeout, for any clients, descriptors,
\* table and page, and whether the kernel is short of memory or not.
THEOREM Implements == Spec => ImplementsReply
<1>1. Init => Service!ReplyInit
  <2> SUFFICES ASSUME Init PROVE Service!ReplyInit
    OBVIOUS
  <2>1. age[Listener] = 0
    BY FdsInTable DEF Init
  <2>2. Accepting = [c \in Conns |-> "new"] /\ QuietTime = [c \in Conns |-> 0]
        /\ Written = [c \in Conns |-> 0]
    BY DEF Init, Accepting, QuietTime, Written
  <2> QED
    BY <2>1, <2>2 DEF Init, Service!ReplyInit, ListenerState
<1>2. IInv /\ IInv' /\ ServiceInv /\ [Next]_vars => ServiceInv'
  BY SimulatesNext
<1>3. IInv /\ IInv' /\ ServiceInv /\ [Next]_vars => [Service!ReplyNext]_(Service!replyVars)
  BY SimulatesNext DEF Simulates
<1> QED
  BY <1>1, <1>2, <1>3, ServiceInvInit, Invariance, PTL
  DEF Spec, ImplementsReply, Service!ReplySpec

=============================================================================
