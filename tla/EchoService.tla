----------------------------- MODULE EchoService -----------------------------
(***************************************************************************)
(* What an echo server promises its clients, with no descriptors, no       *)
(* epoll and no buffers: every connection is served on its own, what a     *)
(* client has been sent is always a prefix of what it wrote, and the       *)
(* server closes a connection only after a reset or, when the client ended *)
(* it in an orderly way, once everything the client wrote has been echoed. *)
(***************************************************************************)
EXTENDS Naturals, Sequences

CONSTANT Conns      \* the connections

VARIABLES state,    \* state[c]: "new", "open" or "closed"
          peer,     \* peer[c]: "up", "fin", "rst", or "finrst" for both
          sent,     \* sent[c]: what the client wrote and the network delivered
          out       \* out[c]: what the server wrote back

echoVars == <<state, peer, sent, out>>

EchoInit ==
    /\ state = [c \in Conns |-> "new"]
    /\ peer = [c \in Conns |-> "up"]
    /\ sent = [c \in Conns |-> << >>]
    /\ out = [c \in Conns |-> << >>]

\* The n-th byte client c writes is <<c, n>>.
Write(c) ==
    /\ peer[c] = "up"
    /\ sent' = [sent EXCEPT ![c] = Append(@, <<c, Len(@) + 1>>)]
    /\ UNCHANGED <<state, peer, out>>

End(c) ==
    /\ \E how \in CASE peer[c] = "up"  -> {"fin", "rst"}
                    [] peer[c] = "fin" -> {"finrst"}
                    [] OTHER           -> {} :
          peer' = [peer EXCEPT ![c] = how]
    /\ UNCHANGED <<state, sent, out>>

Open(c) ==
    /\ state[c] = "new"
    /\ state' = [state EXCEPT ![c] = "open"]
    /\ UNCHANGED <<peer, sent, out>>

Echo(c) ==
    /\ state[c] = "open"
    /\ \E n \in Len(out[c]) + 1 .. Len(sent[c]) :
          out' = [out EXCEPT ![c] = SubSeq(sent[c], 1, n)]
    /\ UNCHANGED <<state, peer, sent>>

Close(c) ==
    /\ state[c] = "open"
    /\ \/ peer[c] = "fin" /\ out[c] = sent[c]
       \/ peer[c] \in {"rst", "finrst"}
    /\ state' = [state EXCEPT ![c] = "closed"]
    /\ UNCHANGED <<peer, sent, out>>

\* Writing to a client that reset the connection after ending it kills the
\* process (SIGPIPE), and every connection with it.
Terminate(c) ==
    /\ state[c] = "open"
    /\ peer[c] = "finrst"
    /\ state' = [d \in Conns |-> "closed"]
    /\ UNCHANGED <<peer, sent, out>>

EchoNext ==
    \E c \in Conns : \/ Write(c) \/ End(c)
                     \/ Open(c) \/ Echo(c) \/ Close(c) \/ Terminate(c)

EchoSpec == EchoInit /\ [][EchoNext]_echoVars

=============================================================================
