----------------------------- MODULE HttpService -----------------------------
(***************************************************************************)
(* What the keep-alive HTTP servers promise their clients: a connection is *)
(* sent no part of a response it has not asked for with a complete         *)
(* request, and it is closed only after the client ended it.  The server   *)
(* as a whole may stop when a client resets a connection nobody accepted   *)
(* yet, or when it has as many connections as it can have.                 *)
(***************************************************************************)
EXTENDS Naturals, FiniteSets

CONSTANTS Conns,           \* the connections
          ResponseLength,  \* length of the response, in units of any size
          MaxOpen          \* connections the server can have

VARIABLES state,  \* state[c]: "new", "open" or "closed"
          peer,   \* peer[c]: "up", "fin" or "rst"
          asked,  \* asked[c]: complete requests the client wrote
          sent    \* sent[c]: units of responses the server wrote

httpVars == <<state, peer, asked, sent>>

HttpInit ==
    /\ state = [c \in Conns |-> "new"]
    /\ peer = [c \in Conns |-> "up"]
    /\ asked = [c \in Conns |-> 0]
    /\ sent = [c \in Conns |-> 0]

Ask(c) ==
    /\ peer[c] = "up"
    /\ asked' = [asked EXCEPT ![c] = @ + 1]
    /\ UNCHANGED <<state, peer, sent>>

End(c) ==
    /\ peer[c] # "rst"
    /\ \E how \in {"fin", "rst"} \ {peer[c]} : peer' = [peer EXCEPT ![c] = how]
    /\ UNCHANGED <<state, asked, sent>>

Open(c) ==
    /\ state[c] = "new"
    /\ state' = [state EXCEPT ![c] = "open"]
    /\ UNCHANGED <<peer, asked, sent>>

Respond(c) ==
    /\ state[c] = "open"
    /\ \E total \in sent[c] + 1 .. ResponseLength * asked[c] :
          sent' = [sent EXCEPT ![c] = total]
    /\ UNCHANGED <<state, peer, asked>>

Close(c) ==
    /\ state[c] = "open"
    /\ peer[c] # "up"
    /\ state' = [state EXCEPT ![c] = "closed"]
    /\ UNCHANGED <<peer, asked, sent>>

Stop ==
    /\ \/ \E c \in Conns : state[c] = "new" /\ peer[c] = "rst"
       \/ Cardinality({c \in Conns : state[c] = "open"}) = MaxOpen
    /\ state' = [c \in Conns |-> "closed"]
    /\ UNCHANGED <<peer, asked, sent>>

HttpNext ==
    \/ \E c \in Conns : Ask(c) \/ End(c) \/ Open(c) \/ Respond(c) \/ Close(c)
    \/ Stop

HttpSpec == HttpInit /\ [][HttpNext]_httpVars

=============================================================================
