-------------------------- MODULE EchoReactorProofs --------------------------
(***************************************************************************)
(* IInv is an inductive invariant of the echo reactor, for any number of   *)
(* ports, descriptors, clients and bytes, whatever send() accepts.  The    *)
(* argument: a harvested event still holds when its turn comes             *)
(* (BatchFresh), so a callback meets a registered, open descriptor         *)
(* (Dispatched); it then turns that one entry (EntryTurned), frees it      *)
(* (EntryReleased) or takes a free one, and leaves every other descriptor  *)
(* as ready as it was (BatchConsumed).                                     *)
(***************************************************************************)
EXTENDS EchoReactor, SequenceTheorems, WellFoundedInduction, TLAPS

\* accept() and the start-up loop take the smallest number of a set of them.
LEMMA LowestIsMember ==
    ASSUME NEW S \in SUBSET Nat, S # {}
    PROVE  Lowest(S) \in S
<1> DEFINE Less == {ss \in Nat \X Nat : ss[1] < ss[2]}
<1>1. IsWellFoundedOn(Less, Nat)
  BY NatLessThanWellFounded, Zenon DEF OpToRel
<1>2. PICK fd \in S : \A other \in S : ~ (<<other, fd>> \in Less)
  <2> HIDE DEF Less
  <2> QED BY <1>1, WFMin
<1>3. ASSUME NEW other \in S PROVE fd <= other
  <2>1. fd \in Nat /\ other \in Nat
    OBVIOUS
  <2>2. ~ (<<other, fd>> \in Less)
    BY <1>2
  <2> QED
    BY <2>1, <2>2
<1> QED
  BY <1>3 DEF Lowest

-----------------------------------------------------------------------------
(* The registration calls.                                                 *)

\* An entry registered for events, and an entry that is free.
Armed(s, callback, events) ==
    [s EXCEPT !.callback = callback, !.events = events,
              !.status = 1, !.interest = events]

Freed(s) == [s EXCEPT !.status = 0, !.interest = {}]

\* Registering an entry that is free and not in epoll.
LEMMA ArmFree ==
    ASSUME NEW s \in Slot, s.status = 0, s.interest = {},
           NEW callback \in Callback, NEW events \in SUBSET Event
    PROVE  GeventAdd(GeventSet(s, callback), events) =
             Armed(s, callback, events)
<1> DEFINE set == [s EXCEPT !.callback = callback, !.events = {}]
<1>1. /\ GeventSet(s, callback) = set
      /\ set \in Slot /\ set.status = 0 /\ set.interest = {}
  BY DEF Slot, GeventSet
<1>2. GeventAdd(set, events) =
        [set EXCEPT !.events = events, !.status = 1, !.interest = events]
  <2> HIDE DEF set
  <2> QED
    BY <1>1 DEF Slot, GeventAdd, EpollCtlAdd, EpollCtlMod
<1>3. [set EXCEPT !.events = events, !.status = 1, !.interest = events] =
        Armed(s, callback, events)
  BY DEF Slot, Armed
<1> QED
  BY <1>1, <1>2, <1>3

\* Registering again an entry that is in epoll.
LEMMA ArmAgain ==
    ASSUME NEW s \in Slot, s.status = 1,
           NEW callback \in Callback, NEW events \in SUBSET Event
    PROVE  ReArm(s, callback, events) = Armed(s, callback, events)
<1>1. /\ GeventDel(s) = Freed(s)
      /\ Freed(s) \in Slot /\ Freed(s).status = 0 /\ Freed(s).interest = {}
  BY DEF Slot, GeventDel, Freed
<1>2. ReArm(s, callback, events) = Armed(Freed(s), callback, events)
  BY <1>1, ArmFree DEF ReArm
<1>3. Armed(Freed(s), callback, events) = Armed(s, callback, events)
  BY DEF Slot, Armed, Freed
<1> QED
  BY <1>2, <1>3

\* close() before gevent_del() or after it: the entry is free either way.
LEMMA Released ==
    ASSUME NEW s \in Slot, s.status = 1
    PROVE  /\ CloseDescriptor(GeventDel(s)) = Freed(s)
           /\ GeventDel(CloseDescriptor(s)) = Freed(s)
BY DEF Slot, GeventDel, CloseDescriptor, Freed

\* The terminator behind a full buffer leaves the length as it is.
LEMMA TerminatedKeeps ==
    ASSUME NEW len \in Nat
    PROVE  Terminated(len) = len
BY ReactorAssumption DEF Terminated

-----------------------------------------------------------------------------
(* What a harvested event says when its turn comes.                        *)

\* The dispatcher's two tests pass, and the callback of the entry is the one
\* the harvested event is for.
LEMMA Dispatched ==
    ASSUME IInv, NEW fd \in Fds, NEW e \in batch[fd]
    PROVE  /\ slot[fd] \in Slot /\ slot[fd].status = 1
           /\ batch[fd] = {e} /\ e \in slot[fd].events
           /\ \/ /\ fd \in Listeners /\ fd \notin ClientFds
                 /\ slot[fd].callback = "accept"
                 /\ backlog[fd] # << >>
              \/ /\ fd \in ClientFds /\ fd \notin Listeners
                 /\ slot[fd].callback = "recv"
                 /\ sock[fd] \in Conns
                 /\ inq[sock[fd]] # << >> \/ peer[sock[fd]] # "up"
              \/ /\ fd \in ClientFds /\ fd \notin Listeners
                 /\ slot[fd].callback = "send"
                 /\ sock[fd] \in Conns
<1>1. /\ TypeOK /\ DescriptorsRegistered
      /\ batch[fd] = Ready(fd) /\ batch[fd] = slot[fd].events
  BY DEF IInv, RegistrationAgrees, BatchFresh
<1>2. slot[fd] \in Slot
  BY <1>1 DEF TypeOK
<1>3. slot[fd].interest # {}
  BY <1>1 DEF Ready
<1>4. slot[fd].status = 1
  BY <1>1, <1>3 DEF DescriptorsRegistered
<1>5. batch[fd] = {e}
  BY <1>1, <1>4 DEF DescriptorsRegistered
<1>6. fd \in Listeners \/ fd \in ClientFds
  BY DEF Fds
<1>7. ~ (fd \in Listeners /\ fd \in ClientFds)
  BY ReactorAssumption
<1>8. CASE fd \in Listeners
  <2>1. slot[fd].callback = "accept" /\ e = "IN"
    BY <1>1, <1>4, <1>5, <1>8 DEF DescriptorsRegistered
  <2>2. backlog[fd] # << >>
    BY <1>1, <1>8, <2>1 DEF Ready, Readable
  <2> QED
    BY <1>1, <1>2, <1>4, <1>5, <1>7, <1>8, <2>1, <2>2
<1>9. CASE fd \in ClientFds
  <2>1. slot[fd].callback \in {"recv", "send"}
    BY <1>1, <1>2, <1>4, <1>7, <1>9 DEF DescriptorsRegistered, Slot, Callback
  <2>2. sock[fd] \in Conns
    BY <1>1, <1>4, <1>9 DEF DescriptorsRegistered, TypeOK
  <2>3. slot[fd].callback = "recv" =>
          inq[sock[fd]] # << >> \/ peer[sock[fd]] # "up"
    BY <1>1, <1>4, <1>5, <1>7, <1>9
    DEF DescriptorsRegistered, Ready, Readable
  <2> QED
    BY <1>1, <1>2, <1>4, <1>5, <1>7, <1>9, <2>1, <2>2, <2>3
<1> QED
  BY <1>6, <1>8, <1>9

\* A callback that leaves the other harvested descriptors as ready as they
\* were leaves the batch fresh.
LEMMA BatchConsumed ==
    ASSUME IInv, NEW fd \in Fds, NEW e \in batch[fd],
           batch' = [batch EXCEPT ![fd] = @ \ {e}],
           \A f \in Fds \ {fd} : batch[f] # {} =>
              slot'[f] = slot[f] /\ Ready(f)' = Ready(f)
    PROVE  BatchFresh' /\ batch' \in [Fds -> SUBSET Event]
<1>1. batch \in [Fds -> SUBSET Event] /\ batch'[fd] = {}
  BY Dispatched DEF IInv, TypeOK
<1>2. \A f \in Fds \ {fd} : batch'[f] = batch[f]
  BY <1>1
<1>3. batch' \in [Fds -> SUBSET Event]
  BY <1>1
<1>4. ASSUME NEW f \in Fds, batch'[f] # {}
      PROVE  batch'[f] = Ready(f)' /\ batch'[f] = slot'[f].events
  <2>1. f \in Fds \ {fd} /\ batch'[f] = batch[f] /\ batch[f] # {}
    BY <1>1, <1>2, <1>4
  <2>2. batch[f] = Ready(f) /\ batch[f] = slot[f].events
    BY <2>1 DEF IInv, BatchFresh
  <2> QED
    BY <2>1, <2>2
<1> QED
  BY <1>3, <1>4 DEF BatchFresh

\* The clients and the network only make descriptors ready.
LEMMA BatchKept ==
    ASSUME IInv, UNCHANGED <<slot, batch>>,
           \A f \in Fds : /\ Readable(f) => Readable(f)'
                          /\ Writable(f) => Writable(f)'
    PROVE  BatchFresh'
<1> SUFFICES ASSUME NEW f \in Fds, batch'[f] # {}
             PROVE  batch'[f] = Ready(f)' /\ batch'[f] = slot'[f].events
  BY DEF BatchFresh
<1>1. batch[f] = Ready(f) /\ batch[f] = slot[f].events
  BY DEF IInv, BatchFresh
<1>2. slot[f].interest = slot[f].events
  BY <1>1 DEF Ready, IInv, RegistrationAgrees, DescriptorsRegistered
<1>3. Ready(f)' = Ready(f)
  BY <1>1, <1>2 DEF Ready
<1> QED
  BY <1>1, <1>3

-----------------------------------------------------------------------------
(* Fields of registered and freed entries.                                 *)

\* What registering an entry leaves in each of its fields.
LEMMA ArmedFields ==
    ASSUME NEW s \in Slot, NEW callback \in Callback, NEW events \in SUBSET Event
    PROVE  LET t == Armed(s, callback, events)
           IN  /\ t \in Slot
               /\ t.callback = callback /\ t.events = events
               /\ t.status = 1 /\ t.interest = events
               /\ t.buffer = s.buffer /\ t.length = s.length
BY DEF Slot, Armed

\* What freeing an entry leaves in each of its fields.
LEMMA FreedFields ==
    ASSUME NEW s \in Slot
    PROVE  /\ Freed(s) \in Slot
           /\ Freed(s).status = 0 /\ Freed(s).interest = {}
           /\ Freed(s).callback = s.callback
           /\ Freed(s).buffer = s.buffer /\ Freed(s).length = s.length
BY DEF Slot, Freed

\* The fields of an entry greactor_init left at zero.
LEMMA FreshFields ==
    /\ FreshSlot \in Slot
    /\ FreshSlot.status = 0 /\ FreshSlot.interest = {}
    /\ FreshSlot.callback = "none"
BY EmptySeq DEF FreshSlot, Slot, Callback, Event

-----------------------------------------------------------------------------
(* The invariant holds initially and every step keeps it.                  *)

\* The invariant holds when main() starts.
LEMMA InitHolds == Init => IInv
<1> SUFFICES ASSUME Init PROVE IInv
  OBVIOUS
<1>1. TypeOK
  BY FreshFields, EmptySeq DEF Init, TypeOK
<1>2. RegistrationAgrees
  BY FreshFields, ReactorAssumption
  DEF Init, RegistrationAgrees, DescriptorsRegistered, ConnectionsHeld, Fds
<1>3. QueuesHeld
  BY DEF Init, QueuesHeld
<1>4. BatchFresh
  BY DEF Init, BatchFresh
<1>5. BuffersHeld
  BY FreshFields DEF Init, BuffersHeld, Fds
<1> QED
  BY <1>1, <1>2, <1>3, <1>4, <1>5 DEF IInv

\* greactor_addlistener keeps the invariant, whether bind() succeeded or not.
LEMMA AddListenerStep == IInv /\ AddListener => IInv'
<1> SUFFICES ASSUME IInv, AddListener PROVE IInv'
  OBVIOUS
<1> DEFINE pending == {l \in Listeners : slot[l].status = 0}
           l == Lowest(pending)
<1>1. l \in Listeners /\ slot[l].status = 0
  <2>1. pending # {} /\ pending \in SUBSET Nat
    BY ReactorAssumption DEF AddListener
  <2> QED
    BY <2>1, LowestIsMember
<1> HIDE DEF l
<1>2. slot[l] \in Slot /\ slot[l].interest = {} /\ l \in Fds
  <2>1. l \in Fds
    BY <1>1 DEF Fds
  <2>2. slot[l] \in Slot
    BY <2>1 DEF IInv, TypeOK
  <2>3. slot[l].interest = {}
    BY <1>1, <2>1 DEF IInv, RegistrationAgrees, DescriptorsRegistered
  <2> QED
    BY <2>1, <2>2, <2>3
<1>3. /\ slot' = [slot EXCEPT ![l] = Armed(@, "accept", {"IN"})]
      /\ \E ok \in BOOLEAN : bound' = [bound EXCEPT ![l] = ok]
      /\ UNCHANGED <<pc, batch, sock, netVars, history>>
  BY <1>1, <1>2, ArmFree DEF AddListener, Callback, Event, l
<1> DEFINE t == Armed(slot[l], "accept", {"IN"})
<1>4. /\ t \in Slot /\ t.callback = "accept" /\ t.events = {"IN"}
      /\ t.status = 1 /\ t.interest = {"IN"}
  BY <1>2, ArmedFields DEF Callback, Event
<1> HIDE DEF t
<1>5. TypeOK'
  BY <1>1, <1>3, <1>4 DEF IInv, TypeOK, netVars, history, t
<1>6. RegistrationAgrees'
  <2>1. slot \in [Fds -> Slot] /\ slot'[l] = t
        /\ \A f \in Fds \ {l} : slot'[f] = slot[f]
    BY <1>2, <1>3 DEF IInv, TypeOK, t
  <2>2. l \notin ClientFds
    BY <1>1, ReactorAssumption
  <2>3. DescriptorsRegistered'
    BY <1>1, <1>3, <1>4, <2>1, <2>2
    DEF IInv, RegistrationAgrees, DescriptorsRegistered, Fds
  <2>4. ConnectionsHeld'
    BY <1>3 DEF IInv, RegistrationAgrees, ConnectionsHeld, netVars
  <2> QED
    BY <2>3, <2>4 DEF RegistrationAgrees
<1>7. QueuesHeld'
  BY <1>3 DEF IInv, QueuesHeld, netVars
<1>8. BatchFresh'
  <2> SUFFICES ASSUME NEW f \in Fds, batch'[f] # {}
               PROVE  batch'[f] = Ready(f)' /\ batch'[f] = slot'[f].events
    BY DEF BatchFresh
  <2>1. batch[f] # {} /\ batch'[f] = batch[f]
    BY <1>3
  <2>2. slot[f].status = 1
    BY <2>1, Dispatched
  <2>3. slot'[f] = slot[f]
    BY <1>1, <1>3, <2>2 DEF IInv, TypeOK
  <2>4. Ready(f)' = Ready(f)
    BY <1>3, <2>3 DEF Ready, Readable, Writable, netVars
  <2> QED
    BY <2>1, <2>3, <2>4 DEF IInv, BatchFresh
<1>9. BuffersHeld'
  BY <1>1, <1>3, ReactorAssumption DEF IInv, TypeOK, BuffersHeld, Fds
<1> QED
  BY <1>5, <1>6, <1>7, <1>8, <1>9 DEF IInv

\* Entering greactor_run keeps the invariant.
LEMMA EnterLoopStep == IInv /\ EnterLoop => IInv'
<1> SUFFICES ASSUME IInv, EnterLoop PROVE IInv'
  OBVIOUS
<1>1. TypeOK' /\ RegistrationAgrees' /\ QueuesHeld' /\ BuffersHeld'
  BY DEF IInv, EnterLoop, TypeOK, RegistrationAgrees, DescriptorsRegistered,
         ConnectionsHeld, QueuesHeld, BuffersHeld, netVars, history
<1>2. BatchFresh'
  BY BatchKept DEF EnterLoop, Readable, Writable, netVars
<1> QED
  BY <1>1, <1>2 DEF IInv

\* epoll_wait harvests events that hold.
LEMMA EpollWaitStep == IInv /\ EpollWait => IInv'
<1> SUFFICES ASSUME IInv, EpollWait PROVE IInv'
  OBVIOUS
<1>1. PICK S \in SUBSET Fds :
         batch' = [fd \in Fds |-> IF fd \in S THEN Ready(fd) ELSE {}]
  BY DEF EpollWait
<1>2. UNCHANGED <<pc, slot, bound, sock, netVars, history>>
  BY DEF EpollWait
<1>3. ASSUME NEW f \in Fds
      PROVE  Ready(f) \in SUBSET Event
  BY DEF IInv, TypeOK, Slot, Ready
<1>4. TypeOK'
  BY <1>1, <1>2, <1>3 DEF IInv, TypeOK, netVars, history
<1>5. RegistrationAgrees' /\ QueuesHeld' /\ BuffersHeld'
  BY <1>2 DEF IInv, RegistrationAgrees, DescriptorsRegistered,
              ConnectionsHeld, QueuesHeld, BuffersHeld, netVars
<1>6. BatchFresh'
  <2> SUFFICES ASSUME NEW f \in Fds, batch'[f] # {}
               PROVE  batch'[f] = Ready(f)' /\ batch'[f] = slot'[f].events
    BY DEF BatchFresh
  <2>1. batch'[f] = Ready(f)
    BY <1>1
  <2>2. Ready(f) = slot[f].events
    BY <2>1 DEF Ready, IInv, RegistrationAgrees, DescriptorsRegistered
  <2>3. Ready(f)' = Ready(f)
    BY <1>2 DEF Ready, Readable, Writable, netVars
  <2> QED
    BY <1>2, <2>1, <2>2, <2>3
<1> QED
  BY <1>4, <1>5, <1>6 DEF IInv

-----------------------------------------------------------------------------
(* The callbacks, each as one dispatched step.                             *)

\* How a surviving callback consumes its event.
Consumes(fd, e) == batch' = [batch EXCEPT ![fd] = @ \ {e}]

\* accept_callback keeps the invariant: the number accept() returns has a free
\* entry and no harvested event.
LEMMA AcceptConnectionStep ==
    ASSUME IInv, NEW fd \in Fds, NEW e \in batch[fd],
           slot[fd].callback = "accept",
           AcceptConnection(fd), Consumes(fd, e)
    PROVE  IInv'
<1> DEFINE cfd == Lowest(FreeFds)
           c == Head(backlog[fd])
<1>1. /\ fd \in Listeners /\ backlog[fd] # << >>
      /\ backlog[fd] \in Seq(Conns)
  BY Dispatched DEF IInv, TypeOK
<1>2. cfd \in ClientFds /\ sock[cfd] = NoConn
  <2>1. FreeFds # {} /\ FreeFds \in SUBSET Nat
    BY ReactorAssumption DEF AcceptConnection, FreeFds
  <2>2. cfd \in FreeFds
    BY <2>1, LowestIsMember
  <2> QED
    BY <2>2 DEF FreeFds
<1>3. /\ c \in Conns /\ c = backlog[fd][1] /\ 1 \in 1 .. Len(backlog[fd])
      /\ Tail(backlog[fd]) \in Seq(Conns)
      /\ Len(Tail(backlog[fd])) = Len(backlog[fd]) - 1
      /\ \A i \in 1 .. Len(Tail(backlog[fd])) :
            Tail(backlog[fd])[i] = backlog[fd][i + 1]
  BY <1>1, HeadTailProperties, LenProperties
<1> HIDE DEF cfd, c
<1>4. /\ cfd \in Fds /\ cfd # fd /\ cfd \notin Listeners
      /\ slot[cfd] \in Slot /\ slot[cfd].status = 0 /\ slot[cfd].interest = {}
  <2>1. cfd \in Fds /\ cfd \notin Listeners
    BY <1>2, ReactorAssumption DEF Fds
  <2>2. slot[cfd] \in Slot /\ slot[cfd].status # 1
    BY <1>2, <2>1 DEF IInv, TypeOK, RegistrationAgrees, DescriptorsRegistered
  <2>3. slot[cfd].status = 0
    BY <2>2 DEF Slot
  <2>4. slot[cfd].interest = {}
    BY <2>1, <2>2 DEF IInv, RegistrationAgrees, DescriptorsRegistered
  <2> QED
    BY <1>1, <2>1, <2>2, <2>3, <2>4
<1>5. /\ slot' = [slot EXCEPT ![cfd] = Armed(@, "recv", {"IN"})]
      /\ sock' = [sock EXCEPT ![cfd] = c]
      /\ state' = [state EXCEPT ![c] = "open"]
      /\ backlog' = [backlog EXCEPT ![fd] = Tail(@)]
      /\ UNCHANGED <<pc, bound, peer, inq, full, history>>
  BY <1>4, ArmFree DEF AcceptConnection, Callback, Event, cfd, c
<1> DEFINE t == Armed(slot[cfd], "recv", {"IN"})
<1>6. /\ t \in Slot /\ t.callback = "recv" /\ t.events = {"IN"}
      /\ t.status = 1 /\ t.interest = {"IN"}
  BY <1>4, ArmedFields DEF Callback, Event
<1> HIDE DEF t
<1>7. /\ slot \in [Fds -> Slot] /\ slot'[cfd] = t
      /\ \A f \in Fds \ {cfd} : slot'[f] = slot[f]
  BY <1>4, <1>5 DEF IInv, TypeOK, t
<1>8. /\ sock \in [ClientFds -> Conns \cup {NoConn}] /\ sock'[cfd] = c
      /\ \A f \in ClientFds \ {cfd} : sock'[f] = sock[f]
  BY <1>2, <1>5 DEF IInv, TypeOK
<1>9. state[c] = "queued"
  BY <1>1, <1>3 DEF IInv, QueuesHeld
<1>10. c # NoConn /\ \A f \in ClientFds : sock[f] # c
  BY <1>3, <1>9, ReactorAssumption
  DEF IInv, RegistrationAgrees, ConnectionsHeld
<1>11. BatchFresh' /\ batch' \in [Fds -> SUBSET Event]
  <2> SUFFICES ASSUME NEW f \in Fds \ {fd}, batch[f] # {}
               PROVE  slot'[f] = slot[f] /\ Ready(f)' = Ready(f)
    BY BatchConsumed DEF Consumes
  <2>1. f # cfd
    BY <1>4, Dispatched
  <2>2. slot'[f] = slot[f]
    BY <1>7, <2>1
  <2>3. f \in Listeners => backlog'[f] = backlog[f]
    BY <1>5 DEF IInv, TypeOK
  <2>4. f \notin Listeners => sock'[f] = sock[f]
    BY <1>8, <2>1 DEF Fds
  <2> QED
    BY <1>5, <2>2, <2>3, <2>4, ReactorAssumption DEF Ready, Readable, Writable
<1>12. TypeOK'
  BY <1>1, <1>2, <1>3, <1>4, <1>5, <1>6, <1>11 DEF IInv, TypeOK, history, t
<1>13. DescriptorsRegistered'
  <2>1. DescriptorsRegistered /\ ClientFds \subseteq Fds
    BY DEF IInv, RegistrationAgrees, Fds
  <2>2. ASSUME NEW f \in Fds
        PROVE  /\ slot'[f].interest # {} <=> slot'[f].status = 1
               /\ slot'[f].status = 1 =>
                    /\ slot'[f].interest = slot'[f].events
                    /\ slot'[f].events =
                         IF slot'[f].callback = "send" THEN {"OUT"} ELSE {"IN"}
                    /\ slot'[f].callback = "accept" <=> f \in Listeners
                    /\ slot'[f].callback # "none"
    <3>1. CASE f = cfd
      BY <1>4, <1>6, <1>7, <3>1
    <3>2. CASE f # cfd
      BY <1>7, <2>1, <3>2 DEF DescriptorsRegistered
    <3> QED
      BY <3>1, <3>2
  <2>3. ASSUME NEW f \in ClientFds
        PROVE  sock'[f] # NoConn <=> slot'[f].status = 1
    <3>1. CASE f = cfd
      BY <1>6, <1>7, <1>8, <1>10, <3>1
    <3>2. CASE f # cfd
      BY <1>7, <1>8, <2>1, <3>2 DEF DescriptorsRegistered
    <3> QED
      BY <3>1, <3>2
  <2> QED
    BY <2>2, <2>3 DEF DescriptorsRegistered
<1>14. ConnectionsHeld'
  <2>1. /\ state'[c] = "open"
        /\ \A d \in Conns \ {c} : state'[d] = state[d]
    BY <1>3, <1>5 DEF IInv, TypeOK
  <2>2. \A f, other \in ClientFds :
           sock'[f] # NoConn /\ sock'[f] = sock'[other] => f = other
    BY <1>8, <1>10 DEF IInv, RegistrationAgrees, ConnectionsHeld
  <2>3. ASSUME NEW d \in Conns
        PROVE  state'[d] = "open" <=> \E f \in ClientFds : sock'[f] = d
    <3>1. CASE d = c
      BY <1>2, <1>8, <2>1, <3>1
    <3>2. CASE d # c
      BY <1>2, <1>8, <1>10, <2>1, <3>2, ReactorAssumption
      DEF IInv, RegistrationAgrees, ConnectionsHeld
    <3> QED
      BY <3>1, <3>2
  <2> QED
    BY <2>2, <2>3 DEF ConnectionsHeld
<1>15. QueuesHeld'
  <2>1. ASSUME NEW l \in Listeners, NEW i \in 1 .. Len(backlog'[l])
        PROVE  \E j \in 1 .. Len(backlog[l]) :
                  /\ backlog'[l][i] = backlog[l][j]
                  /\ j = IF l = fd THEN i + 1 ELSE i
    <3>1. CASE l = fd
      <4>1. backlog'[l] = Tail(backlog[fd]) /\ Len(backlog[fd]) \in Nat
        BY <1>1, <1>5, <3>1, LenProperties DEF IInv, TypeOK
      <4> QED
        BY <1>3, <3>1, <4>1
    <3>2. CASE l # fd
      BY <1>5, <3>2 DEF IInv, TypeOK
    <3> QED
      BY <3>1, <3>2
  <2>2. ASSUME NEW l \in Listeners, NEW i \in 1 .. Len(backlog'[l])
        PROVE  state'[backlog'[l][i]] = "queued"
    <3>1. PICK j \in 1 .. Len(backlog[l]) :
                  /\ backlog'[l][i] = backlog[l][j]
                  /\ j = IF l = fd THEN i + 1 ELSE i
      BY <2>1
    <3>2. backlog[l][j] # c
      <4>1. l = fd => j # 1
        BY <3>1
      <4> QED
        BY <1>1, <1>3, <4>1 DEF IInv, QueuesHeld
    <3>3. state[backlog[l][j]] = "queued" /\ backlog[l][j] \in Conns
      BY ElementOfSeq DEF IInv, QueuesHeld, TypeOK
    <3> QED
      BY <1>5, <3>1, <3>2, <3>3 DEF IInv, TypeOK
  <2>3. ASSUME NEW l \in Listeners, NEW m \in Listeners,
               NEW i \in 1 .. Len(backlog'[l]), NEW j \in 1 .. Len(backlog'[m]),
               backlog'[l][i] = backlog'[m][j]
        PROVE  l = m /\ i = j
    <3>1. PICK p \in 1 .. Len(backlog[l]) :
                  /\ backlog'[l][i] = backlog[l][p]
                  /\ p = IF l = fd THEN i + 1 ELSE i
      BY <2>1
    <3>2. PICK q \in 1 .. Len(backlog[m]) :
                  /\ backlog'[m][j] = backlog[m][q]
                  /\ q = IF m = fd THEN j + 1 ELSE j
      BY <2>1
    <3>3. backlog[l][p] = backlog[m][q]
      BY <2>3, <3>1, <3>2
    <3>4. QueuesHeld
      BY DEF IInv
    <3>5. l = m /\ p = q
      BY <3>3, <3>4 DEF QueuesHeld
    <3>6. i \in Int /\ j \in Int
      OBVIOUS
    <3> QED
      BY <3>1, <3>2, <3>5, <3>6
  <2> QED
    BY <2>2, <2>3 DEF QueuesHeld
<1>16. BuffersHeld'
  BY <1>6, <1>7 DEF IInv, BuffersHeld, Fds
<1> QED
  BY <1>11, <1>12, <1>13, <1>14, <1>15, <1>16 DEF IInv, RegistrationAgrees

\* accept_callback without a free descriptor keeps the invariant.
LEMMA AcceptFailsStep ==
    ASSUME IInv, NEW fd \in Fds, NEW e \in batch[fd],
           AcceptFails(fd), Consumes(fd, e)
    PROVE  IInv'
<1>1. BatchFresh' /\ batch' \in [Fds -> SUBSET Event]
  <2>1. \A f \in Fds \ {fd} : slot'[f] = slot[f] /\ Ready(f)' = Ready(f)
    BY DEF AcceptFails, Ready, Readable, Writable, netVars
  <2> QED
    BY <2>1, BatchConsumed DEF Consumes
<1> QED
  BY <1>1 DEF AcceptFails, IInv, TypeOK, RegistrationAgrees,
     DescriptorsRegistered, ConnectionsHeld, QueuesHeld, BuffersHeld,
     netVars, history

\* recv_callback and send_callback keep the connection: the descriptor's
\* entry is registered for the other event.
LEMMA EntryTurned ==
    ASSUME IInv, NEW fd \in ClientFds, NEW e \in batch[fd], Consumes(fd, e),
           NEW t \in Slot, t.status = 1, t.interest = t.events,
           t.callback \in {"recv", "send"},
           t.events = IF t.callback = "send" THEN {"OUT"} ELSE {"IN"},
           t.callback = "send" => t.buffer # << >> /\ t.length = Len(t.buffer),
           slot' = [slot EXCEPT ![fd] = t],
           UNCHANGED <<sock, state, backlog>>,
           \A d \in Conns \ {sock[fd]} :
              inq'[d] = inq[d] /\ peer'[d] = peer[d] /\ full'[d] = full[d]
    PROVE  /\ slot' \in [Fds -> Slot] /\ batch' \in [Fds -> SUBSET Event]
           /\ RegistrationAgrees' /\ QueuesHeld'
           /\ BatchFresh' /\ BuffersHeld'
<1>1. fd \in Fds /\ fd \notin Listeners
  BY ReactorAssumption DEF Fds
<1>2. /\ slot' \in [Fds -> Slot] /\ slot'[fd] = t
      /\ \A f \in Fds \ {fd} : slot'[f] = slot[f]
  BY <1>1 DEF IInv, TypeOK
<1>3. slot[fd].status = 1 /\ sock[fd] \in Conns
  BY <1>1, Dispatched
<1>4. DescriptorsRegistered'
  <2>1. DescriptorsRegistered /\ ClientFds \subseteq Fds
    BY DEF IInv, RegistrationAgrees, Fds
  <2>2. ASSUME NEW f \in Fds
        PROVE  /\ slot'[f].interest # {} <=> slot'[f].status = 1
               /\ slot'[f].status = 1 =>
                    /\ slot'[f].interest = slot'[f].events
                    /\ slot'[f].events =
                         IF slot'[f].callback = "send" THEN {"OUT"} ELSE {"IN"}
                    /\ slot'[f].callback = "accept" <=> f \in Listeners
                    /\ slot'[f].callback # "none"
    <3>1. CASE f = fd
      BY <1>1, <1>2, <3>1
    <3>2. CASE f # fd
      BY <1>2, <2>1, <3>2 DEF DescriptorsRegistered
    <3> QED
      BY <3>1, <3>2
  <2>3. ASSUME NEW f \in ClientFds
        PROVE  sock'[f] # NoConn <=> slot'[f].status = 1
    BY <1>2, <1>3, <2>1 DEF DescriptorsRegistered
  <2> QED
    BY <2>2, <2>3 DEF DescriptorsRegistered
<1>5. ConnectionsHeld' /\ QueuesHeld'
  BY DEF IInv, RegistrationAgrees, ConnectionsHeld, QueuesHeld
<1>6. BatchFresh' /\ batch' \in [Fds -> SUBSET Event]
  <2> SUFFICES ASSUME NEW f \in Fds \ {fd}, batch[f] # {}
               PROVE  slot'[f] = slot[f] /\ Ready(f)' = Ready(f)
    BY <1>1, BatchConsumed DEF Consumes
  <2>1. f \in Listeners \/ (f \in ClientFds /\ f \notin Listeners)
    BY ReactorAssumption DEF Fds
  <2>2. CASE f \in Listeners
    BY <1>2, <2>2, ReactorAssumption DEF Ready, Readable, Writable
  <2>3. CASE f \in ClientFds /\ f \notin Listeners
    <3>1. sock[f] \in Conns
      BY <2>3, Dispatched
    <3>2. sock[f] # sock[fd] /\ sock[f] # NoConn
      BY <1>3, <2>3, <3>1, ReactorAssumption
      DEF IInv, RegistrationAgrees, ConnectionsHeld
    <3> QED
      BY <1>2, <2>3, <3>1, <3>2 DEF Ready, Readable, Writable
  <2> QED
    BY <2>1, <2>2, <2>3
<1>7. BuffersHeld'
  BY <1>2 DEF IInv, BuffersHeld, Fds
<1> QED
  BY <1>2, <1>4, <1>5, <1>6, <1>7 DEF RegistrationAgrees

\* recv_callback and send_callback close the descriptor.
LEMMA EntryReleased ==
    ASSUME IInv, NEW fd \in ClientFds, NEW e \in batch[fd], Consumes(fd, e),
           slot' = [slot EXCEPT ![fd] = Freed(@)],
           sock' = [sock EXCEPT ![fd] = NoConn],
           state' = [state EXCEPT ![sock[fd]] = "closed"],
           UNCHANGED <<pc, bound, backlog, peer, inq, full, history>>
    PROVE  IInv'
<1>1. fd \in Fds /\ fd \notin Listeners
  BY ReactorAssumption DEF Fds
<1>2. slot[fd] \in Slot /\ slot[fd].status = 1 /\ sock[fd] \in Conns
  BY <1>1, Dispatched
<1> DEFINE c == sock[fd]
           t == Freed(slot[fd])
<1>3. t \in Slot /\ t.status = 0 /\ t.interest = {}
  BY <1>2, FreedFields
<1> HIDE DEF t
<1>4. /\ slot' \in [Fds -> Slot] /\ slot'[fd] = t
      /\ \A f \in Fds \ {fd} : slot'[f] = slot[f]
  BY <1>1, <1>3 DEF IInv, TypeOK, t
<1>5. /\ sock' \in [ClientFds -> Conns \cup {NoConn}] /\ sock'[fd] = NoConn
      /\ \A f \in ClientFds \ {fd} : sock'[f] = sock[f]
  BY DEF IInv, TypeOK
<1>6. /\ state' \in [Conns -> {"new", "queued", "open", "closed"}]
      /\ state'[c] = "closed" /\ state[c] = "open"
      /\ \A d \in Conns \ {c} : state'[d] = state[d]
  BY <1>2 DEF IInv, TypeOK, RegistrationAgrees, ConnectionsHeld
<1>7. \A f \in ClientFds \ {fd} : sock[f] # c
  BY <1>2, ReactorAssumption DEF IInv, RegistrationAgrees, ConnectionsHeld
<1>8. BatchFresh' /\ batch' \in [Fds -> SUBSET Event]
  <2> SUFFICES ASSUME NEW f \in Fds \ {fd}, batch[f] # {}
               PROVE  slot'[f] = slot[f] /\ Ready(f)' = Ready(f)
    BY <1>1, BatchConsumed DEF Consumes
  <2>1. f \notin Listeners => sock'[f] = sock[f]
    BY <1>5 DEF Fds
  <2> QED
    BY <1>4, <2>1, ReactorAssumption DEF Ready, Readable, Writable
<1>9. TypeOK'
  BY <1>4, <1>5, <1>6, <1>8 DEF IInv, TypeOK, history
<1>10. DescriptorsRegistered'
  <2>1. DescriptorsRegistered /\ ClientFds \subseteq Fds
    BY DEF IInv, RegistrationAgrees, Fds
  <2> QED
    BY <1>3, <1>4, <1>5, <2>1 DEF DescriptorsRegistered
<1>11. ConnectionsHeld'
  <2>1. \A f, other \in ClientFds :
           sock'[f] # NoConn /\ sock'[f] = sock'[other] => f = other
    BY <1>5 DEF IInv, RegistrationAgrees, ConnectionsHeld
  <2>2. ASSUME NEW d \in Conns
        PROVE  state'[d] = "open" <=> \E f \in ClientFds : sock'[f] = d
    <3>1. CASE d = c
      BY <1>2, <1>5, <1>6, <1>7, <3>1, ReactorAssumption
    <3>2. CASE d # c
      BY <1>5, <1>6, <3>2, ReactorAssumption
      DEF IInv, RegistrationAgrees, ConnectionsHeld
    <3> QED
      BY <3>1, <3>2
  <2> QED
    BY <2>1, <2>2 DEF ConnectionsHeld
<1>12. QueuesHeld'
  <2>1. ASSUME NEW l \in Listeners, NEW i \in 1 .. Len(backlog[l])
        PROVE  state'[backlog[l][i]] = "queued"
    <3>1. backlog[l][i] \in Conns /\ state[backlog[l][i]] = "queued"
      BY ElementOfSeq DEF IInv, TypeOK, QueuesHeld
    <3> QED
      BY <1>6, <3>1
  <2> QED
    BY <2>1 DEF IInv, QueuesHeld
<1>13. BuffersHeld'
  BY <1>2, <1>4, FreedFields DEF IInv, BuffersHeld, Fds, t
<1> QED
  BY <1>8, <1>9, <1>10, <1>11, <1>12, <1>13 DEF IInv, RegistrationAgrees

\* What recv_callback does with the bytes recv() returned.
Receives(fd, data, rest, t) ==
    /\ fd \in ClientFds /\ sock[fd] \in Conns
    /\ data # << >> /\ inq[sock[fd]] = data \o rest
    /\ inq' = [inq EXCEPT ![sock[fd]] = rest]
    /\ got' = [got EXCEPT ![sock[fd]] = @ \o data]
    /\ t.callback = "send" /\ t.events = {"OUT"}
    /\ t.status = 1 /\ t.interest = {"OUT"}
    /\ t.buffer = data /\ t.length = Len(data)
    /\ slot' = [slot EXCEPT ![fd] = t]
    /\ UNCHANGED <<pc, bound, sock, state, backlog, peer, full, out>>

\* What recv_callback does to the entry when data has arrived.
LEMMA RecvDataEffect ==
    ASSUME IInv, NEW fd \in Fds, NEW e \in batch[fd],
           slot[fd].callback = "recv", RecvData(fd)
    PROVE  \E data, rest \in Seq(Byte), t \in Slot :
              Receives(fd, data, rest, t)
<1> DEFINE c == sock[fd]
           len == IF Len(inq[c]) < BufferLength THEN Len(inq[c])
                                                ELSE BufferLength
           data == SubSeq(inq[c], 1, len)
           rest == SubSeq(inq[c], len + 1, Len(inq[c]))
           received == [slot[fd] EXCEPT !.buffer = data,
                                        !.length = Terminated(len)]
           t == Armed(received, "send", {"OUT"})
<1>1. fd \in ClientFds /\ c \in Conns /\ slot[fd] \in Slot /\ slot[fd].status = 1
  BY Dispatched
<1>2. inq[c] \in Seq(Byte) /\ inq[c] # << >>
  BY <1>1 DEF RecvData, IInv, TypeOK
<1>3. Len(inq[c]) \in Nat \ {0}
  BY <1>2, EmptySeq
<1>4. len \in 1 .. Len(inq[c])
  BY <1>3, ReactorAssumption
<1>5. /\ data \in Seq(Byte) /\ Len(data) = len
      /\ rest \in Seq(Byte)
  <2>1. \A i \in 1 .. Len(inq[c]) : inq[c][i] \in Byte
    BY <1>2, ElementOfSeq
  <2> HIDE DEF len
  <2>2. data \in Seq(Byte) /\ Len(data) = len
    BY <1>3, <1>4, <2>1, SubSeqProperties
  <2>3. rest \in Seq(Byte)
    <3>1. len + 1 \in Int /\ Len(inq[c]) \in Int
          /\ \A i \in len + 1 .. Len(inq[c]) : inq[c][i] \in Byte
      BY <1>3, <1>4, <2>1
    <3> QED
      BY <3>1, SubSeqProperties
  <2> QED
    BY <2>2, <2>3
<1>6. data # << >>
  BY <1>4, <1>5, EmptySeq
<1>7. inq[c] = data \o rest
  <2> HIDE DEF len
  <2>1. data \o rest = SubSeq(inq[c], 1, Len(inq[c]))
    BY <1>2, <1>3, <1>4, ConcatAdjacentSubSeq
  <2> QED
    BY <1>2, <2>1, SubSeqFull
<1>8. Terminated(len) = Len(data) /\ Len(data) \in Nat
  BY <1>4, <1>5, TerminatedKeeps
<1>9. received \in Slot /\ received.status = 1 /\ received.buffer = data
      /\ received.length = Len(data)
  <2> HIDE DEF data, len
  <2> QED
    BY <1>1, <1>5, <1>8 DEF Slot
<1>10. /\ slot' = [slot EXCEPT ![fd] = ReArm(received, "send", {"OUT"})]
       /\ inq' = [inq EXCEPT ![c] = rest]
       /\ got' = [got EXCEPT ![c] = @ \o data]
       /\ UNCHANGED <<pc, bound, sock, state, backlog, peer, full, out>>
  BY DEF RecvData
<1> HIDE DEF received, data, rest, len
<1>11. ReArm(received, "send", {"OUT"}) = t
  BY <1>9, ArmAgain DEF Callback, Event
<1>12. /\ t \in Slot /\ t.callback = "send" /\ t.events = {"OUT"}
       /\ t.status = 1 /\ t.interest = {"OUT"}
       /\ t.buffer = data /\ t.length = Len(data)
  BY <1>9, ArmedFields DEF Callback, Event
<1> HIDE DEF t
<1>13. Receives(fd, data, rest, t)
  BY <1>1, <1>6, <1>7, <1>10, <1>11, <1>12 DEF Receives
<1> QED
  BY <1>5, <1>12, <1>13

\* recv_callback keeps the invariant when data has arrived.
LEMMA RecvDataStep ==
    ASSUME IInv, NEW fd \in Fds, NEW e \in batch[fd],
           slot[fd].callback = "recv", RecvData(fd), Consumes(fd, e)
    PROVE  IInv'
<1> DEFINE c == sock[fd]
<1>0. PICK data \in Seq(Byte), rest \in Seq(Byte), t \in Slot :
         Receives(fd, data, rest, t)
  BY RecvDataEffect
<1>1. /\ fd \in ClientFds /\ c \in Conns
      /\ inq' = [inq EXCEPT ![c] = rest]
      /\ got' = [got EXCEPT ![c] = @ \o data]
      /\ t.callback = "send" /\ t.events = {"OUT"}
      /\ t.status = 1 /\ t.interest = {"OUT"}
      /\ t.buffer # << >> /\ t.length = Len(t.buffer)
      /\ slot' = [slot EXCEPT ![fd] = t]
      /\ UNCHANGED <<pc, bound, sock, state, backlog, peer, full, out>>
  BY <1>0 DEF Receives
<1>2. /\ slot' \in [Fds -> Slot] /\ batch' \in [Fds -> SUBSET Event]
      /\ RegistrationAgrees' /\ QueuesHeld' /\ BatchFresh' /\ BuffersHeld'
  <2>1. \A d \in Conns \ {c} :
              inq'[d] = inq[d] /\ peer'[d] = peer[d] /\ full'[d] = full[d]
    BY <1>1 DEF IInv, TypeOK
  <2> QED
    BY <1>1, <2>1, EntryTurned
<1>3. got[c] \o data \in Seq(Byte)
  BY <1>1, ConcatProperties DEF IInv, TypeOK
<1>4. TypeOK'
  BY <1>1, <1>2, <1>3 DEF IInv, TypeOK
<1> QED
  BY <1>2, <1>4 DEF IInv

\* recv_callback keeps the invariant when the peer has ended.
LEMMA RecvEndStep ==
    ASSUME IInv, NEW fd \in Fds, NEW e \in batch[fd],
           slot[fd].callback = "recv", RecvEnd(fd), Consumes(fd, e)
    PROVE  IInv'
<1>1. fd \in ClientFds /\ slot[fd] \in Slot /\ slot[fd].status = 1
  BY Dispatched
<1>2. CloseDescriptor(GeventDel(slot[fd])) = Freed(slot[fd])
  BY <1>1, Released
<1>3. slot' = [slot EXCEPT ![fd] = Freed(@)]
  BY <1>2 DEF RecvEnd
<1> QED
  BY <1>1, <1>3, EntryReleased DEF RecvEnd

\* What send_callback does when send() accepted len bytes.
Sends(fd, len, noRoom, t) ==
    /\ fd \in ClientFds /\ sock[fd] \in Conns
    /\ peer[sock[fd]] \in {"up", "fin"}
    /\ out' = [out EXCEPT ![sock[fd]] =
                 @ \o SubSeq(slot[fd].buffer, 1, len)]
    /\ full' = [full EXCEPT ![sock[fd]] = noRoom]
    /\ t.callback = "recv" /\ t.events = {"IN"}
    /\ t.status = 1 /\ t.interest = {"IN"}
    /\ slot' = [slot EXCEPT ![fd] = t]
    /\ UNCHANGED <<pc, bound, sock, state, backlog, peer, inq, got>>

\* What send_callback does to the entry when send() took something.
LEMMA SendDataEffect ==
    ASSUME IInv, NEW fd \in Fds, NEW e \in batch[fd],
           slot[fd].callback = "send", SendData(fd)
    PROVE  \E len \in Accepted(slot[fd].length), noRoom \in BOOLEAN, t \in Slot :
              Sends(fd, len, noRoom, t)
<1> DEFINE c == sock[fd]
           t == Armed(slot[fd], "recv", {"IN"})
<1>1. fd \in ClientFds /\ c \in Conns /\ slot[fd] \in Slot /\ slot[fd].status = 1
  BY Dispatched
<1>2. ReArm(slot[fd], "recv", {"IN"}) = t
  BY <1>1, ArmAgain DEF Callback, Event
<1>3. /\ t \in Slot /\ t.callback = "recv" /\ t.events = {"IN"}
      /\ t.status = 1 /\ t.interest = {"IN"}
  BY <1>1, ArmedFields DEF Callback, Event
<1>4. PICK len \in Accepted(slot[fd].length) :
        out' = [out EXCEPT ![c] = @ \o SubSeq(slot[fd].buffer, 1, len)]
  BY DEF SendData
<1>5. PICK noRoom \in BOOLEAN : full' = [full EXCEPT ![c] = noRoom]
  BY DEF SendData
<1>6. /\ slot' = [slot EXCEPT ![fd] = t] /\ peer[c] \in {"up", "fin"}
      /\ UNCHANGED <<pc, bound, sock, state, backlog, peer, inq, got>>
  BY <1>2 DEF SendData
<1> HIDE DEF t
<1>7. Sends(fd, len, noRoom, t)
  BY <1>1, <1>3, <1>4, <1>5, <1>6 DEF Sends
<1> QED
  BY <1>3, <1>7

\* send_callback keeps the invariant when send() took something.
LEMMA SendDataStep ==
    ASSUME IInv, NEW fd \in Fds, NEW e \in batch[fd],
           slot[fd].callback = "send", SendData(fd), Consumes(fd, e)
    PROVE  IInv'
<1> DEFINE c == sock[fd]
<1>1. PICK len \in Accepted(slot[fd].length), noRoom \in BOOLEAN, t \in Slot :
         Sends(fd, len, noRoom, t)
  BY SendDataEffect
<1>2. /\ fd \in ClientFds /\ c \in Conns
      /\ out' = [out EXCEPT ![c] = @ \o SubSeq(slot[fd].buffer, 1, len)]
      /\ full' = [full EXCEPT ![c] = noRoom]
      /\ t.callback = "recv" /\ t.events = {"IN"}
      /\ t.status = 1 /\ t.interest = {"IN"}
      /\ slot' = [slot EXCEPT ![fd] = t]
      /\ UNCHANGED <<pc, bound, sock, state, backlog, peer, inq, got>>
  BY <1>1 DEF Sends
<1>3. /\ slot' \in [Fds -> Slot] /\ batch' \in [Fds -> SUBSET Event]
      /\ RegistrationAgrees' /\ QueuesHeld' /\ BatchFresh' /\ BuffersHeld'
  <2>1. \A d \in Conns \ {c} :
              inq'[d] = inq[d] /\ peer'[d] = peer[d] /\ full'[d] = full[d]
    BY <1>2 DEF IInv, TypeOK
  <2> QED
    BY <1>2, <2>1, EntryTurned
<1>4. out[c] \o SubSeq(slot[fd].buffer, 1, len) \in Seq(Byte)
  <2>1. slot[fd].buffer \in Seq(Byte) /\ out[c] \in Seq(Byte)
        /\ slot[fd].length = Len(slot[fd].buffer)
    BY <1>2 DEF IInv, TypeOK, Slot, BuffersHeld, Fds
  <2>2. Len(slot[fd].buffer) \in Nat
    BY <2>1, LenProperties
  <2>3. len \in 0 .. Len(slot[fd].buffer)
    BY <2>1, <2>2 DEF Accepted
  <2>4. \A i \in 1 .. len : slot[fd].buffer[i] \in Byte
    BY <2>1, <2>2, <2>3, ElementOfSeq
  <2>5. SubSeq(slot[fd].buffer, 1, len) \in Seq(Byte)
    BY <2>3, <2>4, SubSeqProperties
  <2> QED
    BY <2>1, <2>5, ConcatProperties
<1>5. TypeOK'
  BY <1>2, <1>3, <1>4 DEF IInv, TypeOK
<1> QED
  BY <1>3, <1>5 DEF IInv

\* send_callback keeps the invariant when send() failed.
LEMMA SendFailsStep ==
    ASSUME IInv, NEW fd \in Fds, NEW e \in batch[fd],
           slot[fd].callback = "send", SendFails(fd), Consumes(fd, e)
    PROVE  IInv'
<1>1. fd \in ClientFds /\ slot[fd] \in Slot /\ slot[fd].status = 1
  BY Dispatched
<1>2. GeventDel(CloseDescriptor(slot[fd])) = Freed(slot[fd])
  BY <1>1, Released
<1>3. slot' = [slot EXCEPT ![fd] = Freed(@)]
  BY <1>2 DEF SendFails
<1> QED
  BY <1>1, <1>3, EntryReleased DEF SendFails

\* The state SIGPIPE leaves behind satisfies the invariant.
LEMMA SendKillsStep ==
    ASSUME IInv, NEW fd \in Fds, SendKills(fd), batch' = [f \in Fds |-> {}]
    PROVE  IInv'
<1>1. /\ pc' = "dead"
      /\ slot' = [f \in Fds |-> FreshSlot]
      /\ sock' = [f \in ClientFds |-> NoConn]
      /\ state' = [c \in Conns |-> "closed"]
      /\ backlog' = [l \in Listeners |-> << >>]
      /\ bound' = [l \in Listeners |-> FALSE]
      /\ UNCHANGED <<peer, inq, full, history>>
  BY DEF SendKills
<1>2. TypeOK'
  BY <1>1, FreshFields, EmptySeq DEF IInv, TypeOK, history
<1>3. RegistrationAgrees'
  BY <1>1, FreshFields, ReactorAssumption
  DEF RegistrationAgrees, DescriptorsRegistered, ConnectionsHeld, Fds
<1>4. QueuesHeld' /\ BatchFresh' /\ BuffersHeld'
  BY <1>1, FreshFields DEF QueuesHeld, BatchFresh, BuffersHeld, Fds
<1> QED
  BY <1>2, <1>3, <1>4 DEF IInv

\* One iteration of the dispatch loop keeps the invariant.
LEMMA DispatchStep ==
    ASSUME IInv, NEW fd \in Fds, NEW e \in Event, Dispatch(fd, e)
    PROVE  IInv'
<1>1. e \in batch[fd] /\ CallbackOf(fd) /\ pc = "run"
  BY Dispatched DEF Dispatch
<1>2. batch' = IF pc' = "dead" THEN [f \in Fds |-> {}]
                               ELSE [batch EXCEPT ![fd] = @ \ {e}]
  BY DEF Dispatch
<1>3. pc' = pc => Consumes(fd, e)
  BY <1>1, <1>2 DEF Consumes
<1>4. CASE slot[fd].callback = "accept" /\ AcceptConnection(fd)
  BY <1>1, <1>3, <1>4, AcceptConnectionStep DEF AcceptConnection
<1>5. CASE slot[fd].callback = "accept" /\ AcceptFails(fd)
  BY <1>1, <1>3, <1>5, AcceptFailsStep DEF AcceptFails
<1>6. CASE slot[fd].callback = "recv" /\ RecvData(fd)
  BY <1>1, <1>3, <1>6, RecvDataStep DEF RecvData
<1>7. CASE slot[fd].callback = "recv" /\ RecvEnd(fd)
  BY <1>1, <1>3, <1>7, RecvEndStep DEF RecvEnd
<1>8. CASE slot[fd].callback = "send" /\ SendData(fd)
  BY <1>1, <1>3, <1>8, SendDataStep DEF SendData
<1>9. CASE slot[fd].callback = "send" /\ SendFails(fd)
  BY <1>1, <1>3, <1>9, SendFailsStep DEF SendFails
<1>10. CASE slot[fd].callback = "send" /\ SendKills(fd)
  BY <1>2, <1>10, SendKillsStep DEF SendKills
<1> QED
  BY <1>1, <1>4, <1>5, <1>6, <1>7, <1>8, <1>9, <1>10 DEF CallbackOf

-----------------------------------------------------------------------------
(* The clients and the network.                                            *)

\* A connection that joins a listener's queue keeps the invariant.
LEMMA ConnectStep ==
    ASSUME IInv, NEW c \in Conns, NEW l \in Listeners, Connect(c, l)
    PROVE  IInv'
<1>1. /\ state[c] = "new"
      /\ state' = [state EXCEPT ![c] = "queued"]
      /\ backlog' = [backlog EXCEPT ![l] = Append(@, c)]
      /\ UNCHANGED <<serverVars, sock, peer, inq, full, history>>
  BY DEF Connect
<1>2. /\ Len(backlog[l]) \in Nat
      /\ Append(backlog[l], c) \in Seq(Conns)
      /\ Append(backlog[l], c) # << >>
      /\ Len(Append(backlog[l], c)) = Len(backlog[l]) + 1
      /\ \A i \in 1 .. Len(backlog[l]) :
            Append(backlog[l], c)[i] = backlog[l][i]
      /\ Append(backlog[l], c)[Len(backlog[l]) + 1] = c
  <2>1. backlog[l] \in Seq(Conns)
    BY DEF IInv, TypeOK
  <2> QED
    BY <2>1, AppendProperties, LenProperties
<1>3. TypeOK'
  BY <1>1, <1>2 DEF IInv, TypeOK, serverVars, history
<1>4. RegistrationAgrees' /\ BuffersHeld'
  BY <1>1 DEF IInv, TypeOK, RegistrationAgrees, DescriptorsRegistered,
              ConnectionsHeld, BuffersHeld, serverVars
<1>5. BatchFresh'
  <2>1. \A f \in Listeners : backlog[f] # << >> => backlog'[f] # << >>
    BY <1>1, <1>2 DEF IInv, TypeOK
  <2> QED
    BY <1>1, <2>1, BatchKept DEF Readable, Writable, serverVars
<1>6. \A m \in Listeners : \A i \in 1 .. Len(backlog[m]) :
         backlog[m][i] \in Conns /\ backlog[m][i] # c
         /\ state[backlog[m][i]] = "queued"
  BY <1>1, ElementOfSeq DEF IInv, TypeOK, QueuesHeld
<1>7. ASSUME NEW m \in Listeners, NEW i \in 1 .. Len(backlog'[m])
      PROVE  \/ i \in 1 .. Len(backlog[m]) /\ backlog'[m][i] = backlog[m][i]
             \/ m = l /\ i = Len(backlog[l]) + 1 /\ backlog'[m][i] = c
  BY <1>1, <1>2, SMTT(30) DEF IInv, TypeOK
<1>8. QueuesHeld'
  <2>1. ASSUME NEW m \in Listeners, NEW i \in 1 .. Len(backlog'[m])
        PROVE  state'[backlog'[m][i]] = "queued"
    BY <1>1, <1>6, <1>7, SMTT(30) DEF IInv, TypeOK
  <2>2. ASSUME NEW m \in Listeners, NEW k \in Listeners,
               NEW i \in 1 .. Len(backlog'[m]), NEW j \in 1 .. Len(backlog'[k]),
               backlog'[m][i] = backlog'[k][j]
        PROVE  m = k /\ i = j
    <3>1. CASE i \in 1 .. Len(backlog[m]) /\ backlog'[m][i] = backlog[m][i]
               /\ j \in 1 .. Len(backlog[k]) /\ backlog'[k][j] = backlog[k][j]
      <4>1. backlog[m][i] = backlog[k][j] /\ QueuesHeld
        BY <2>2, <3>1 DEF IInv
      <4> QED
        BY <3>1, <4>1 DEF QueuesHeld
    <3>2. CASE m = l /\ i = Len(backlog[l]) + 1 /\ backlog'[m][i] = c
      BY <1>6, <1>7, <2>2, <3>2
    <3>3. CASE k = l /\ j = Len(backlog[l]) + 1 /\ backlog'[k][j] = c
      BY <1>6, <1>7, <2>2, <3>3
    <3> QED
      BY <1>7, <3>1, <3>2, <3>3
  <2> QED
    BY <2>1, <2>2 DEF QueuesHeld
<1> QED
  BY <1>3, <1>4, <1>5, <1>8 DEF IInv

\* What clients write, read, end and reset keeps the invariant.
LEMMA ClientStep ==
    ASSUME IInv, NEW c \in Conns,
           ClientWrite(c) \/ ClientFin(c) \/ ClientReset(c) \/ ClientRead(c)
    PROVE  IInv'
<1>1. UNCHANGED <<serverVars, sock, state, backlog, history>>
  BY DEF ClientWrite, ClientFin, ClientReset, ClientRead
<1>2. RegistrationAgrees' /\ QueuesHeld' /\ BuffersHeld'
  BY <1>1 DEF IInv, RegistrationAgrees, DescriptorsRegistered,
              ConnectionsHeld, QueuesHeld, BuffersHeld, serverVars
<1>3. CASE ClientWrite(c)
  <2> DEFINE byte == <<c, Len(got[c]) + Len(inq[c]) + 1>>
  <2>1. /\ inq' = [inq EXCEPT ![c] = Append(@, byte)]
        /\ UNCHANGED <<peer, full>>
    BY <1>3 DEF ClientWrite
  <2>2. inq[c] \in Seq(Byte) /\ got[c] \in Seq(Byte)
    BY DEF IInv, TypeOK
  <2>3. byte \in Byte
    <3>1. Len(inq[c]) \in Nat /\ Len(got[c]) \in Nat
      BY <2>2, LenProperties
    <3>2. \A m, n \in Nat : m + n + 1 \in Nat \ {0}
      OBVIOUS
    <3>3. Len(got[c]) + Len(inq[c]) + 1 \in Nat \ {0}
      BY <3>1, <3>2
    <3> QED
      BY <3>3 DEF Byte
  <2> HIDE DEF byte
  <2>4. Append(inq[c], byte) \in Seq(Byte) /\ Append(inq[c], byte) # << >>
    BY <2>2, <2>3, AppendProperties
  <2>5. TypeOK'
    BY <1>1, <2>1, <2>4 DEF IInv, TypeOK, serverVars, history
  <2>6. \A d \in Conns : inq[d] # << >> => inq'[d] # << >>
    BY <2>1, <2>4 DEF IInv, TypeOK
  <2>7. BatchFresh'
    <3>1. \A f \in ClientFds : sock[f] # NoConn => sock[f] \in Conns
      BY DEF IInv, TypeOK
    <3>2. \A f \in Fds : Readable(f) => Readable(f)'
      BY <1>1, <2>1, <2>6, <3>1 DEF Readable, Fds
    <3>3. \A f \in Fds : Writable(f) => Writable(f)'
      BY <1>1, <2>1 DEF Writable
    <3> QED
      BY <1>1, <3>2, <3>3, BatchKept DEF serverVars
  <2> QED
    BY <1>2, <2>5, <2>7 DEF IInv
<1>4. CASE ClientFin(c) \/ ClientReset(c) \/ ClientRead(c)
  <2>1. /\ UNCHANGED inq
        /\ peer' \in [Conns -> {"up", "fin", "rst", "finrst"}]
        /\ full' \in [Conns -> BOOLEAN]
        /\ \A d \in Conns : /\ peer[d] # "up" => peer'[d] # "up"
                            /\ peer[d] \in {"rst", "finrst"} =>
                                 peer'[d] \in {"rst", "finrst"}
                            /\ ~full[d] => ~full'[d]
    BY <1>4 DEF ClientFin, ClientReset, ClientRead, IInv, TypeOK
  <2>2. TypeOK'
    BY <1>1, <2>1 DEF IInv, TypeOK, serverVars, history
  <2>3. BatchFresh'
    <3>1. \A f \in ClientFds : sock[f] # NoConn => sock[f] \in Conns
      BY DEF IInv, TypeOK
    <3>2. \A f \in Fds : Readable(f) => Readable(f)'
      BY <1>1, <2>1, <3>1 DEF Readable, Fds
    <3>3. \A f \in Fds : Writable(f) => Writable(f)'
      BY <1>1, <2>1, <3>1 DEF Writable
    <3> QED
      BY <1>1, <3>2, <3>3, BatchKept DEF serverVars
  <2> QED
    BY <1>2, <2>2, <2>3 DEF IInv
<1> QED
  BY <1>3, <1>4

\* Every step keeps the invariant.
LEMMA NextStep == IInv /\ [Next]_vars => IInv'
<1> SUFFICES ASSUME IInv, [Next]_vars PROVE IInv'
  OBVIOUS
<1>1. CASE UNCHANGED vars
  BY <1>1 DEF vars, serverVars, netVars, history, IInv, TypeOK,
     RegistrationAgrees, DescriptorsRegistered, ConnectionsHeld, QueuesHeld,
     BatchFresh, BuffersHeld, Ready, Readable, Writable
<1>2. CASE Server
  BY <1>2, AddListenerStep, EnterLoopStep, EpollWaitStep, DispatchStep
  DEF Server
<1>3. CASE Environment
  BY <1>3, ConnectStep, ClientStep DEF Environment
<1> QED
  BY <1>1, <1>2, <1>3 DEF Next

\* IInv is an invariant: see the properties it is made of in EchoReactor.
THEOREM Invariance == Spec => []IInv
BY InitHolds, NextStep, PTL DEF Spec

\* Type correctness of the table, epoll's view of it and the sockets, for
\* any number of ports, descriptors and clients.
THEOREM TypeCorrect == Spec => []TypeOK
<1>1. IInv => TypeOK
  BY DEF IInv
<1> QED
  BY <1>1, Invariance, PTL

\* The program's table, epoll's interest list and the open sockets agree after
\* every callback and across every reuse of a descriptor's number.
THEOREM RegistrationCorrect == Spec => []RegistrationAgrees
<1>1. IInv => RegistrationAgrees
  BY DEF IInv
<1> QED
  BY <1>1, Invariance, PTL

\* No harvested event is stale when the loop dispatches it.
THEOREM BatchCorrect == Spec => []BatchFresh
<1>1. IInv => BatchFresh
  BY DEF IInv
<1> QED
  BY <1>1, Invariance, PTL

-----------------------------------------------------------------------------
(***************************************************************************)
(* What the reactor does for its clients, on a machine whose kernel does   *)
(* not run out of socket memory: no byte is lost, repeated or reordered,   *)
(* and the reactor implements the abstract echo service step by step.      *)
(***************************************************************************)

(* EchoInv is inductive relative to IInv.                                  *)

\* EchoInv holds when main() starts: nothing was received or sent.
LEMMA EchoInvInit == Init => EchoInv
<1> SUFFICES ASSUME Init PROVE EchoInv
  OBVIOUS
<1> QED
  BY DEF Init, EchoInv, QueuedUntouched, EchoExact

\* Steps that touch no connection's entry, socket or history.
LEMMA EchoInvKept ==
    ASSUME IInv, EchoInv, UNCHANGED <<sock, got, out>>,
           \A fd \in ClientFds : slot'[fd] = slot[fd],
           \A c \in Conns : state'[c] \in {"new", "queued"} =>
                               state[c] \in {"new", "queued"}
    PROVE  EchoInv'
BY DEF EchoInv, QueuedUntouched, EchoExact

\* A connection is untouched until accept() returns it.
LEMMA EchoInvAccept ==
    ASSUME IInv, EchoInv, NEW fd \in Fds, NEW e \in batch[fd],
           slot[fd].callback = "accept", AcceptConnection(fd)
    PROVE  /\ EchoInv'
           /\ \E c \in Conns : /\ state[c] = "queued"
                               /\ state' = [state EXCEPT ![c] = "open"]
<1> DEFINE cfd == Lowest(FreeFds)
           c == Head(backlog[fd])
<1>1. fd \in Listeners /\ backlog[fd] # << >> /\ backlog[fd] \in Seq(Conns)
  BY Dispatched DEF IInv, TypeOK
<1>2. c \in Conns /\ c = backlog[fd][1] /\ 1 \in 1 .. Len(backlog[fd])
  BY <1>1, HeadTailProperties, LenProperties
<1>3. state[c] = "queued"
  BY <1>1, <1>2 DEF IInv, QueuesHeld
<1>4. cfd \in ClientFds
  <2>1. FreeFds # {} /\ FreeFds \in SUBSET Nat
    BY ReactorAssumption DEF AcceptConnection, FreeFds
  <2> QED
    BY <2>1, LowestIsMember DEF FreeFds
<1> HIDE DEF cfd, c
<1>5. /\ slot' = [slot EXCEPT ![cfd] =
                   GeventAdd(GeventSet(@, "recv"), {"IN"})]
      /\ sock' = [sock EXCEPT ![cfd] = c]
      /\ state' = [state EXCEPT ![c] = "open"]
      /\ UNCHANGED <<got, out>>
  BY DEF AcceptConnection, history, cfd, c
<1>6. /\ slot'[cfd].callback = "recv" /\ sock'[cfd] = c
      /\ \A f \in ClientFds \ {cfd} : slot'[f] = slot[f] /\ sock'[f] = sock[f]
  <2>1. cfd \in Fds /\ slot[cfd] \in Slot
    BY <1>4 DEF Fds, IInv, TypeOK
  <2>2. GeventAdd(GeventSet(slot[cfd], "recv"), {"IN"}).callback = "recv"
    BY <2>1 DEF GeventAdd, GeventSet, Slot
  <2> QED
    BY <1>4, <1>5, <2>1, <2>2 DEF IInv, TypeOK
<1>7. QueuedUntouched'
  BY <1>2, <1>5 DEF EchoInv, QueuedUntouched, IInv, TypeOK
<1>8. EchoExact'
  <2>1. got[c] = out[c]
    BY <1>2, <1>3 DEF EchoInv, QueuedUntouched
  <2> QED
    BY <1>5, <1>6, <2>1 DEF EchoInv, EchoExact
<1> QED
  BY <1>2, <1>3, <1>5, <1>7, <1>8 DEF EchoInv

\* Concatenation is associative, stated for three sequences of bytes.
LEMMA Regroup ==
    ASSUME NEW s \in Seq(Byte), NEW t \in Seq(Byte), NEW u \in Seq(Byte)
    PROVE  (s \o t) \o u = s \o (t \o u)
BY ConcatAssociative

\* A byte that arrives joins the end of everything the client sent.
LEMMA AppendToConcat ==
    ASSUME NEW s \in Seq(Byte), NEW t \in Seq(Byte), NEW b \in Byte
    PROVE  s \o Append(t, b) = Append(s \o t, b)
<1>1. Append(t, b) = t \o <<b>> /\ s \o t \in Seq(Byte)
  BY AppendIsConcat, ConcatProperties
<1>2. Append(s \o t, b) = (s \o t) \o <<b>>
  BY <1>1, AppendIsConcat
<1>3. <<b>> \in Seq(Byte)
  OBVIOUS
<1> QED
  BY <1>1, <1>2, <1>3, Regroup

\* What recv() takes from the queue is the next part of what was sent.
LEMMA PrefixOfConcat ==
    ASSUME NEW s \in Seq(Byte), NEW t \in Seq(Byte), s # << >>
    PROVE  /\ SubSeq(s \o t, 1, Len(s)) = s
           /\ Len(s \o t) \in Nat /\ Len(s) <= Len(s \o t)
<1>1. Len(s) \in Nat \ {0} /\ Len(t) \in Nat
  BY EmptySeq, LenProperties
<1>2. SubSeq(s \o t, 1, Len(s)) = SubSeq(s, 1, Len(s))
  <2>1. 1 \in 1 .. Len(s) /\ Len(s) \in 1 .. Len(s)
    BY <1>1
  <2> QED
    BY <2>1, SubSeqOfConcat1
<1>3. SubSeq(s, 1, Len(s)) = s
  BY SubSeqFull
<1>4. Len(s \o t) = Len(s) + Len(t)
  BY ConcatProperties
<1> QED
  BY <1>1, <1>2, <1>3, <1>4

\* recv_callback owes exactly what it received.
LEMMA EchoInvRecvData ==
    ASSUME IInv, EchoInv, NEW fd \in Fds, NEW e \in batch[fd],
           slot[fd].callback = "recv", RecvData(fd)
    PROVE  EchoInv' /\ Sent' = Sent
<1> DEFINE c == sock[fd]
<1>1. PICK data \in Seq(Byte), rest \in Seq(Byte), t \in Slot :
         Receives(fd, data, rest, t)
  BY RecvDataEffect
<1>2. /\ fd \in ClientFds /\ c \in Conns /\ fd \in Fds
      /\ inq[c] = data \o rest
      /\ inq' = [inq EXCEPT ![c] = rest]
      /\ got' = [got EXCEPT ![c] = @ \o data]
      /\ t.callback = "send" /\ t.buffer = data /\ t.length = Len(data)
      /\ slot' = [slot EXCEPT ![fd] = t]
      /\ UNCHANGED <<sock, state, out>>
  BY <1>1 DEF Receives
<1>3. /\ got \in [Conns -> Seq(Byte)] /\ inq \in [Conns -> Seq(Byte)]
      /\ sock[fd] # NoConn
  BY <1>2, ReactorAssumption DEF IInv, TypeOK
<1>4. /\ slot'[fd] = t
      /\ \A f \in ClientFds \ {fd} : slot'[f] = slot[f]
  BY <1>2 DEF IInv, TypeOK, Fds
<1>5. \A f \in ClientFds \ {fd} : sock[f] # c
  BY <1>2, <1>3 DEF IInv, RegistrationAgrees, ConnectionsHeld
<1>6. got'[c] = out'[c] \o SubSeq(t.buffer, 1, t.length)
  <2>1. got[c] = out[c]
    BY <1>2, <1>3 DEF EchoInv, EchoExact
  <2>2. SubSeq(t.buffer, 1, t.length) = data
    BY <1>2, SubSeqFull
  <2> QED
    BY <1>2, <1>3, <2>1, <2>2
<1>7. EchoExact'
  <2> SUFFICES ASSUME NEW f \in ClientFds, sock'[f] # NoConn
               PROVE  got'[sock'[f]] =
                        IF slot'[f].callback = "send"
                        THEN out'[sock'[f]] \o
                               SubSeq(slot'[f].buffer, 1, slot'[f].length)
                        ELSE out'[sock'[f]]
    BY DEF EchoExact
  <2>1. CASE f = fd
    BY <1>2, <1>4, <1>6, <2>1
  <2>2. CASE f # fd
    <3>1. sock[f] # c /\ sock'[f] = sock[f] /\ slot'[f] = slot[f]
          /\ sock[f] # NoConn /\ sock[f] \in Conns
      BY <1>2, <1>4, <1>5, <2>2 DEF IInv, TypeOK
    <3>2. got'[sock[f]] = got[sock[f]] /\ out' = out
      BY <1>2, <1>3, <3>1
    <3> QED
      BY <3>1, <3>2 DEF EchoInv, EchoExact
  <2> QED
    BY <2>1, <2>2
<1>8. QueuedUntouched'
  <2>1. state[c] = "open"
    BY <1>2 DEF IInv, RegistrationAgrees, ConnectionsHeld
  <2> QED
    BY <1>2, <1>3, <2>1 DEF EchoInv, QueuedUntouched
<1>9. Sent' = Sent
  <2>1. (got[c] \o data) \o rest = got[c] \o inq[c]
    <3>1. got[c] \in Seq(Byte)
      BY <1>2, <1>3
    <3>2. (got[c] \o data) \o rest = got[c] \o (data \o rest)
      BY <3>1, Regroup
    <3> QED
      BY <1>2, <3>2
  <2>2. got'[c] \o inq'[c] = got[c] \o inq[c]
    BY <1>2, <1>3, <2>1
  <2>3. \A d \in Conns \ {c} : got'[d] = got[d] /\ inq'[d] = inq[d]
    BY <1>2, <1>3
  <2> QED
    BY <2>2, <2>3 DEF Sent
<1> QED
  BY <1>7, <1>8, <1>9 DEF EchoInv

\* recv_callback and send_callback close the connection of fd.
Closes(fd) ==
    /\ fd \in ClientFds /\ sock[fd] \in Conns /\ state[sock[fd]] = "open"
    /\ sock' = [sock EXCEPT ![fd] = NoConn]
    /\ state' = [state EXCEPT ![sock[fd]] = "closed"]
    /\ \A f \in ClientFds \ {fd} : slot'[f] = slot[f]
    /\ UNCHANGED <<pc, bound, backlog, peer, inq, full, history>>

\* A closed connection owes nothing any more.
LEMMA EchoInvCloses ==
    ASSUME IInv, EchoInv, NEW fd \in Fds, Closes(fd)
    PROVE  EchoInv'
<1>1. /\ fd \in ClientFds /\ sock' = [sock EXCEPT ![fd] = NoConn]
      /\ state' = [state EXCEPT ![sock[fd]] = "closed"]
      /\ \A f \in ClientFds \ {fd} : slot'[f] = slot[f]
      /\ UNCHANGED <<got, out>>
  BY DEF Closes, history
<1>2. /\ sock'[fd] = NoConn
      /\ \A f \in ClientFds \ {fd} : sock'[f] = sock[f]
  BY <1>1 DEF IInv, TypeOK
<1>3. EchoExact'
  BY <1>1, <1>2 DEF EchoInv, EchoExact
<1>4. QueuedUntouched'
  BY <1>1 DEF EchoInv, QueuedUntouched, IInv, TypeOK
<1> QED
  BY <1>3, <1>4 DEF EchoInv

\* recv_callback and send_callback close only the descriptor they run on.
LEMMA CallbackCloses ==
    ASSUME IInv, NEW fd \in Fds, NEW e \in batch[fd],
           \/ slot[fd].callback = "recv" /\ RecvEnd(fd)
           \/ slot[fd].callback = "send" /\ SendFails(fd)
    PROVE  Closes(fd)
<1>1. fd \in ClientFds /\ sock[fd] \in Conns
  BY Dispatched
<1>2. state[sock[fd]] = "open"
  BY <1>1 DEF IInv, RegistrationAgrees, ConnectionsHeld
<1>3. \A f \in ClientFds \ {fd} : slot'[f] = slot[f]
  BY DEF RecvEnd, SendFails, IInv, TypeOK, Fds
<1> QED
  BY <1>1, <1>2, <1>3 DEF Closes, RecvEnd, SendFails

\* Without memory pressure send() takes the whole buffer.
LEMMA EchoInvSendData ==
    ASSUME ~MemoryPressure,
           IInv, EchoInv, NEW fd \in Fds, NEW e \in batch[fd],
           slot[fd].callback = "send", SendData(fd)
    PROVE  /\ EchoInv'
           /\ sock[fd] \in Conns /\ state[sock[fd]] = "open"
           /\ Len(out[sock[fd]]) + 1 \in Nat
           /\ Len(got[sock[fd]]) \in Nat
           /\ Len(out[sock[fd]]) + 1 <= Len(got[sock[fd]])
           /\ out' = [out EXCEPT ![sock[fd]] = got[sock[fd]]]
           /\ UNCHANGED <<state, peer, inq, got>>
<1> DEFINE c == sock[fd]
<1>1. PICK len \in Accepted(slot[fd].length), noRoom \in BOOLEAN, t \in Slot :
         Sends(fd, len, noRoom, t)
  BY SendDataEffect
<1>2. /\ fd \in ClientFds /\ c \in Conns
      /\ out' = [out EXCEPT ![c] = @ \o SubSeq(slot[fd].buffer, 1, len)]
      /\ t.callback = "recv"
      /\ slot' = [slot EXCEPT ![fd] = t]
      /\ UNCHANGED <<sock, state, peer, inq, got>>
  BY <1>1 DEF Sends
<1>3. len = slot[fd].length
  BY <1>1 DEF Accepted
<1>4. /\ slot[fd].buffer \in Seq(Byte) /\ slot[fd].buffer # << >>
      /\ slot[fd].length = Len(slot[fd].buffer)
      /\ out[c] \in Seq(Byte) /\ got[c] \in Seq(Byte)
      /\ c # NoConn
  BY <1>2, ReactorAssumption DEF IInv, TypeOK, Slot, BuffersHeld, Fds
<1>5. got[c] = out[c] \o slot[fd].buffer
  <2>1. SubSeq(slot[fd].buffer, 1, slot[fd].length) = slot[fd].buffer
    BY <1>4, SubSeqFull
  <2> QED
    BY <1>2, <1>4, <2>1 DEF EchoInv, EchoExact
<1>6. out' = [out EXCEPT ![c] = got[c]]
  <2>1. SubSeq(slot[fd].buffer, 1, len) = slot[fd].buffer
    BY <1>3, <1>4, SubSeqFull
  <2> QED
    BY <1>2, <1>5, <2>1
<1>7. /\ Len(out[c]) + 1 \in Nat /\ Len(got[c]) \in Nat
      /\ Len(out[c]) + 1 <= Len(got[c])
  <2>1. Len(got[c]) = Len(out[c]) + Len(slot[fd].buffer)
    BY <1>4, <1>5, ConcatProperties
  <2>2. Len(out[c]) \in Nat /\ Len(slot[fd].buffer) \in Nat \ {0}
    BY <1>4, LenProperties, EmptySeq
  <2>3. \A m \in Nat : \A n \in Nat \ {0} :
           m + 1 \in Nat /\ m + n \in Nat /\ m + 1 <= m + n
    OBVIOUS
  <2> QED
    BY <2>1, <2>2, <2>3
<1>8. state[c] = "open"
  BY <1>2 DEF IInv, RegistrationAgrees, ConnectionsHeld
<1>9. /\ slot'[fd] = t /\ out'[c] = got[c]
      /\ \A f \in ClientFds \ {fd} : slot'[f] = slot[f]
      /\ \A d \in Conns \ {c} : out'[d] = out[d]
  BY <1>2, <1>6 DEF IInv, TypeOK, Fds
<1>10. EchoExact'
  <2> SUFFICES ASSUME NEW f \in ClientFds, sock'[f] # NoConn
               PROVE  got'[sock'[f]] =
                        IF slot'[f].callback = "send"
                        THEN out'[sock'[f]] \o
                               SubSeq(slot'[f].buffer, 1, slot'[f].length)
                        ELSE out'[sock'[f]]
    BY DEF EchoExact
  <2>1. CASE f = fd
    BY <1>2, <1>9, <2>1
  <2>2. CASE f # fd
    <3>1. sock[f] # c /\ sock'[f] = sock[f] /\ slot'[f] = slot[f]
          /\ sock[f] # NoConn /\ sock[f] \in Conns
      BY <1>2, <1>9, <2>2
      DEF IInv, TypeOK, RegistrationAgrees, ConnectionsHeld
    <3>2. got' = got /\ out'[sock[f]] = out[sock[f]]
      BY <1>2, <1>9, <3>1
    <3> QED
      BY <3>1, <3>2 DEF EchoInv, EchoExact
  <2> QED
    BY <2>1, <2>2
<1>11. QueuedUntouched'
  BY <1>2, <1>8, <1>9 DEF EchoInv, QueuedUntouched
<1> QED
  BY <1>2, <1>6, <1>7, <1>8, <1>10, <1>11 DEF EchoInv

\* SIGPIPE closes every connection at once.
LEMMA EchoInvKills ==
    ASSUME EchoInv, NEW fd \in Fds, SendKills(fd)
    PROVE  EchoInv'
BY DEF SendKills, history, EchoInv, QueuedUntouched, EchoExact

-----------------------------------------------------------------------------
(* Every step of the reactor is a step of the service or a stutter.        *)

Simulates == EchoInv' /\ [Service!EchoNext]_(Service!echoVars)

\* A step that changes no connection is a stutter of the echo service.
LEMMA Stutters ==
    ASSUME EchoInv', UNCHANGED <<state, peer, inq, got, out>>
    PROVE  Simulates
BY DEF Simulates, Service!echoVars, Accepting, Sent

\* A callback is a step of the echo service or a stutter.
LEMMA SimulatesCallback ==
    ASSUME ~MemoryPressure, IInv, EchoInv,
           NEW fd \in Fds, NEW e \in batch[fd], CallbackOf(fd)
    PROVE  Simulates
<1>1. CASE slot[fd].callback = "accept" /\ AcceptConnection(fd)
  <2>1. EchoInv'
    BY <1>1, EchoInvAccept
  <2>2. PICK c \in Conns : /\ state[c] = "queued"
                           /\ state' = [state EXCEPT ![c] = "open"]
    BY <1>1, EchoInvAccept
  <2>3. UNCHANGED <<peer, inq, got, out>>
    BY <1>1 DEF AcceptConnection, history
  <2>4. Accepting[c] = "new" /\ Accepting' = [Accepting EXCEPT ![c] = "open"]
    BY <2>2 DEF Accepting, IInv, TypeOK
  <2>5. UNCHANGED Sent
    BY <2>3 DEF Sent
  <2>6. Service!Open(c)
    BY <2>3, <2>4, <2>5 DEF Service!Open
  <2> QED
    BY <2>1, <2>6 DEF Simulates, Service!EchoNext
<1>2. CASE slot[fd].callback = "accept" /\ AcceptFails(fd)
  <2>1. UNCHANGED <<slot, sock, state, peer, inq, got, out>>
    BY <1>2 DEF AcceptFails, netVars, history
  <2>2. EchoInv'
    BY <2>1, EchoInvKept
  <2> QED
    BY <2>1, <2>2, Stutters
<1>3. CASE slot[fd].callback = "recv" /\ RecvData(fd)
  <2>1. EchoInv' /\ UNCHANGED Sent
    BY <1>3, EchoInvRecvData
  <2>2. UNCHANGED <<state, peer, out>>
    BY <1>3 DEF RecvData
  <2> QED
    BY <2>1, <2>2 DEF Simulates, Service!echoVars, Accepting
<1>4. CASE \/ slot[fd].callback = "recv" /\ RecvEnd(fd)
           \/ slot[fd].callback = "send" /\ SendFails(fd)
  <2> DEFINE c == sock[fd]
  <2>1. Closes(fd)
    BY <1>4, CallbackCloses
  <2>2. EchoInv'
    BY <2>1, EchoInvCloses
  <2>3. /\ c \in Conns /\ state[c] = "open"
        /\ state' = [state EXCEPT ![c] = "closed"]
        /\ UNCHANGED <<peer, inq, got, out>>
    BY <2>1 DEF Closes, history
  <2>4. /\ Accepting[c] = "open"
        /\ Accepting' = [Accepting EXCEPT ![c] = "closed"]
    BY <2>3 DEF Accepting, IInv, TypeOK
  <2>5. UNCHANGED Sent
    BY <2>3 DEF Sent
  <2>6. peer[c] \in {"rst", "finrst"} \/ (peer[c] = "fin" /\ out[c] = Sent[c])
    <3>1. CASE slot[fd].callback = "recv" /\ RecvEnd(fd)
      <4>1. inq[c] = << >> /\ peer[c] # "up"
        BY <3>1, Dispatched DEF RecvEnd
      <4>2. got[c] = out[c] /\ got[c] \in Seq(Byte)
        BY <2>1, <2>3, <3>1, ReactorAssumption
        DEF Closes, EchoInv, EchoExact, IInv, TypeOK
      <4>3. Sent[c] = out[c]
        BY <2>3, <4>1, <4>2, ConcatEmptySeq DEF Sent
      <4> QED
        BY <2>3, <4>1, <4>3 DEF IInv, TypeOK
    <3>2. CASE slot[fd].callback = "send" /\ SendFails(fd)
      BY <3>2 DEF SendFails
    <3> QED
      BY <1>4, <3>1, <3>2
  <2> HIDE DEF c
  <2>7. Service!Close(c)
    BY <2>3, <2>4, <2>5, <2>6 DEF Service!Close
  <2> QED
    BY <2>2, <2>3, <2>7 DEF Simulates, Service!EchoNext
<1>5. CASE slot[fd].callback = "send" /\ SendData(fd)
  <2> DEFINE c == sock[fd]
             n == Len(got[c])
  <2>1. /\ EchoInv'
        /\ c \in Conns /\ state[c] = "open"
        /\ Len(out[c]) + 1 \in Nat /\ n \in Nat /\ Len(out[c]) + 1 <= n
        /\ out' = [out EXCEPT ![c] = got[c]]
        /\ UNCHANGED <<state, peer, inq, got>>
    BY <1>5, EchoInvSendData
  <2>2. UNCHANGED <<Accepting, Sent>> /\ Accepting[c] = "open"
    BY <2>1 DEF Accepting, Sent, IInv, TypeOK
  <2>3. got[c] \in Seq(Byte) /\ inq[c] \in Seq(Byte)
    BY <2>1 DEF IInv, TypeOK
  <2>4. Sent[c] = got[c] \o inq[c]
    BY <2>1 DEF Sent
  <2>5. SubSeq(Sent[c], 1, n) = got[c] /\ n <= Len(Sent[c])
        /\ Len(Sent[c]) \in Nat
    <3>1. got[c] # << >>
      <4>1. Len(out[c]) \in Nat
        BY <2>1, LenProperties DEF IInv, TypeOK
      <4>2. n # 0
        BY <2>1, <4>1
      <4> QED
        BY <4>2, EmptySeq
    <3> QED
      BY <2>3, <2>4, <3>1, PrefixOfConcat
  <2>6. n \in Len(out[c]) + 1 .. Len(Sent[c])
    BY <2>1, <2>5
  <2> HIDE DEF c, n
  <2>7. Service!Echo(c)
    BY <2>1, <2>2, <2>5, <2>6 DEF Service!Echo
  <2> QED
    BY <2>1, <2>7 DEF Simulates, Service!EchoNext
<1>6. CASE slot[fd].callback = "send" /\ SendKills(fd)
  <2> DEFINE c == sock[fd]
  <2>1. EchoInv'
    BY <1>6, EchoInvKills
  <2>2. c \in Conns /\ state[c] = "open" /\ peer[c] = "finrst"
    BY <1>6, Dispatched
    DEF SendKills, IInv, RegistrationAgrees, ConnectionsHeld
  <2>3. state' = [d \in Conns |-> "closed"] /\ UNCHANGED <<peer, inq, got, out>>
    BY <1>6 DEF SendKills, history
  <2>4. Accepting[c] = "open" /\ Accepting' = [d \in Conns |-> "closed"]
    BY <2>2, <2>3 DEF Accepting
  <2>5. UNCHANGED Sent
    BY <2>3 DEF Sent
  <2> HIDE DEF c
  <2>6. Service!Terminate(c)
    BY <2>2, <2>3, <2>4, <2>5 DEF Service!Terminate
  <2> QED
    BY <2>1, <2>2, <2>6 DEF Simulates, Service!EchoNext
<1> QED
  BY <1>1, <1>2, <1>3, <1>4, <1>5, <1>6 DEF CallbackOf

\* A server step is a step of the echo service or a stutter.
LEMMA SimulatesServer ==
    ASSUME ~MemoryPressure, IInv, EchoInv, Server
    PROVE  Simulates
<1>1. CASE AddListener
  <2>1. \A f \in ClientFds : slot'[f] = slot[f]
    <3>1. LET l == Lowest({l \in Listeners : slot[l].status = 0})
          IN  l \in Listeners
      <4>1. {l \in Listeners : slot[l].status = 0} \in SUBSET Nat
            /\ {l \in Listeners : slot[l].status = 0} # {}
        BY <1>1, ReactorAssumption DEF AddListener
      <4> QED
        BY <4>1, LowestIsMember
    <3> QED
      BY <1>1, <3>1, ReactorAssumption DEF AddListener, IInv, TypeOK, Fds
  <2>2. UNCHANGED <<sock, state, peer, inq, got, out>>
    BY <1>1 DEF AddListener, netVars, history
  <2>3. EchoInv'
    BY <2>1, <2>2, EchoInvKept
  <2> QED
    BY <2>2, <2>3, Stutters
<1>2. CASE EnterLoop \/ EpollWait
  <2>1. UNCHANGED <<slot, sock, state, peer, inq, got, out>>
    BY <1>2 DEF EnterLoop, EpollWait, netVars, history
  <2>2. EchoInv'
    BY <2>1, EchoInvKept
  <2> QED
    BY <2>1, <2>2, Stutters
<1>3. ASSUME NEW fd \in Fds, NEW e \in Event, Dispatch(fd, e)
      PROVE  Simulates
  <2>1. e \in batch[fd] /\ CallbackOf(fd)
    BY <1>3, Dispatched DEF Dispatch
  <2> QED
    BY <2>1, SimulatesCallback
<1> QED
  BY <1>1, <1>2, <1>3 DEF Server

\* A step of a client is a step of the echo service or a stutter.
LEMMA SimulatesEnvironment ==
    ASSUME IInv, EchoInv, Environment
    PROVE  Simulates
<1>1. ASSUME NEW c \in Conns, NEW l \in Listeners, Connect(c, l)
      PROVE  Simulates
  <2>1. /\ UNCHANGED <<slot, sock, peer, inq, got, out>>
        /\ state[c] = "new" /\ state' = [state EXCEPT ![c] = "queued"]
    BY <1>1 DEF Connect, serverVars, history
  <2>2. EchoInv'
    BY <2>1, EchoInvKept DEF IInv, TypeOK
  <2>3. UNCHANGED <<Accepting, Sent>>
    BY <2>1 DEF Accepting, Sent, IInv, TypeOK
  <2> QED
    BY <2>1, <2>2, <2>3 DEF Simulates, Service!echoVars
<1>2. ASSUME NEW c \in Conns, ClientWrite(c)
      PROVE  Simulates
  <2> DEFINE byte == <<c, Len(got[c]) + Len(inq[c]) + 1>>
  <2>1. /\ UNCHANGED <<slot, sock, state, peer, got, out>>
        /\ peer[c] = "up" /\ inq' = [inq EXCEPT ![c] = Append(@, byte)]
    BY <1>2 DEF ClientWrite, serverVars, history
  <2>2. EchoInv' /\ UNCHANGED Accepting
    BY <2>1, EchoInvKept DEF Accepting
  <2>3. /\ got[c] \in Seq(Byte) /\ inq[c] \in Seq(Byte)
        /\ Len(got[c]) \in Nat /\ Len(inq[c]) \in Nat
    BY LenProperties DEF IInv, TypeOK
  <2>4. byte \in Byte
    <3>1. \A m, n \in Nat : m + n + 1 \in Nat \ {0}
      OBVIOUS
    <3>2. Len(got[c]) + Len(inq[c]) + 1 \in Nat \ {0}
      BY <2>3, <3>1
    <3> QED
      BY <3>2 DEF Byte
  <2>5. Sent[c] = got[c] \o inq[c]
        /\ Len(Sent[c]) = Len(got[c]) + Len(inq[c])
        /\ Sent[c] \in Seq(Byte)
    BY <2>3, ConcatProperties DEF Sent
  <2>6. byte = <<c, Len(Sent[c]) + 1>>
    BY <2>5
  <2> HIDE DEF byte
  <2>7. got[c] \o Append(inq[c], byte) = Append(got[c] \o inq[c], byte)
    BY <2>3, <2>4, AppendToConcat
  <2>8. Sent' = [Sent EXCEPT ![c] = Append(@, <<c, Len(@) + 1>>)]
    <3>1. Sent' = [Sent EXCEPT ![c] = Append(@, byte)]
      BY <2>1, <2>5, <2>7 DEF Sent, IInv, TypeOK
    <3> QED
      BY <2>6, <3>1
  <2>9. Service!Write(c)
    BY <2>1, <2>2, <2>8 DEF Service!Write
  <2> QED
    BY <2>2, <2>9 DEF Simulates, Service!EchoNext
<1>3. ASSUME NEW c \in Conns, ClientFin(c) \/ ClientReset(c)
      PROVE  Simulates
  <2>1. UNCHANGED <<slot, sock, state, inq, got, out>>
    BY <1>3 DEF ClientFin, ClientReset, serverVars, history
  <2>2. EchoInv' /\ UNCHANGED <<Accepting, Sent>>
    BY <2>1, EchoInvKept DEF Accepting, Sent
  <2>3. \E how \in CASE peer[c] = "up"  -> {"fin", "rst"}
                     [] peer[c] = "fin" -> {"finrst"}
                     [] OTHER           -> {} :
           peer' = [peer EXCEPT ![c] = how]
    BY <1>3 DEF ClientFin, ClientReset
  <2>4. Service!End(c)
    BY <2>1, <2>2, <2>3 DEF Service!End
  <2> QED
    BY <2>2, <2>4 DEF Simulates, Service!EchoNext
<1>4. ASSUME NEW c \in Conns, ClientRead(c)
      PROVE  Simulates
  <2>1. UNCHANGED <<slot, sock, state, peer, inq, got, out>>
    BY <1>4 DEF ClientRead, serverVars, history
  <2>2. EchoInv'
    BY <2>1, EchoInvKept
  <2> QED
    BY <2>1, <2>2, Stutters
<1> QED
  BY <1>1, <1>2, <1>3, <1>4 DEF Environment

\* Every step of the reactor is a step of the echo service or a stutter.
LEMMA SimulatesNext ==
    ASSUME ~MemoryPressure, IInv, EchoInv, [Next]_vars
    PROVE  Simulates
<1>1. CASE UNCHANGED vars
  <2>1. UNCHANGED <<slot, sock, state, peer, inq, got, out>>
    BY <1>1 DEF vars, serverVars, netVars, history
  <2>2. EchoInv'
    BY <2>1, EchoInvKept
  <2> QED
    BY <2>1, <2>2, Stutters
<1> QED
  BY <1>1, SimulatesServer, SimulatesEnvironment DEF Next

\* No byte is lost, repeated or reordered between recv_callback's recv() and
\* send_callback's send().
THEOREM EchoCorrect ==
    ASSUME ~MemoryPressure
    PROVE  Spec => []EchoExact
<1>1. IInv /\ EchoInv /\ [Next]_vars => EchoInv'
  BY SimulatesNext DEF Simulates
<1>2. EchoInv => EchoExact
  BY DEF EchoInv
<1> QED
  BY <1>1, <1>2, EchoInvInit, Invariance, PTL DEF Spec

\* The reactor implements the echo service.
THEOREM Implements ==
    ASSUME ~MemoryPressure
    PROVE  Spec => ImplementsEcho
<1>1. Init => Service!EchoInit
  <2> SUFFICES ASSUME Init PROVE Service!EchoInit
    OBVIOUS
  <2>1. \A c \in Conns : got[c] \o inq[c] = << >>
    BY EmptySeq, ConcatEmptySeq DEF Init
  <2> QED
    BY <2>1 DEF Init, Service!EchoInit, Accepting, Sent
<1>2. IInv /\ EchoInv /\ [Next]_vars => EchoInv'
  BY SimulatesNext DEF Simulates
<1>3. IInv /\ EchoInv /\ [Next]_vars => [Service!EchoNext]_(Service!echoVars)
  BY SimulatesNext DEF Simulates
<1> QED
  BY <1>1, <1>2, <1>3, EchoInvInit, Invariance, PTL
  DEF Spec, ImplementsEcho, Service!EchoSpec

=============================================================================
