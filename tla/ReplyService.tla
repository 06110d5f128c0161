----------------------------- MODULE ReplyService -----------------------------
(***************************************************************************)
(* What an HTTP server with a timeout promises its clients, with no        *)
(* descriptors, no table and no epoll: of each connection it reads chunks  *)
(* one at a time and answers each before it reads the next; it closes one  *)
(* only for a reason the client or the clock gave.  It listens for as long *)
(* as its own listening socket is not taken for an idle one.               *)
(***************************************************************************)
EXTENDS Naturals, Sequences, FiniteSets

CONSTANTS Conns,        \* the connections
          Timeout,      \* how long a connection may be quiet
          Descriptors,  \* connections there can be at once
          Pages,        \* replies that can be made from a page in all
          PageExists,   \* replies are made from a page
          Short         \* the kernel may be out of memory for sockets

VARIABLES listener,     \* "new", "open" or "closed", as a connection
          listening,    \* for how long, up to Timeout
          pages,        \* replies made from a page
          state,        \* state[c]: "new", "open" or "closed"
          peer,         \* peer[c]: "up", "fin", "rst", or "finrst" for both
          written,      \* written[c]: chunks the client wrote
          taken,        \* taken[c]: chunks the server read
          replies,      \* replies[c]: what the server answered
          quiet         \* quiet[c]: how long it is since it did either

replyVars == <<listener, listening, pages, state, peer, written, taken, replies, quiet>>

ReplyInit ==
    /\ listener = "new" /\ listening = 0 /\ pages = 0
    /\ state = [c \in Conns |-> "new"]
    /\ peer = [c \in Conns |-> "up"]
    /\ written = [c \in Conns |-> 0]
    /\ taken = [c \in Conns |-> 0]
    /\ replies = [c \in Conns |-> << >>]
    /\ quiet = [c \in Conns |-> 0]

Open == {c \in Conns : state[c] = "open"}
Owing(c) == taken[c] > Len(replies[c])
Reply == IF PageExists THEN "page" ELSE "stale"

\* What the clients do.
Write(c) ==
    /\ peer[c] = "up"
    /\ written' = [written EXCEPT ![c] = @ + 1]
    /\ UNCHANGED <<listener, listening, pages, state, peer, taken, replies, quiet>>

End(c) ==
    /\ \E how \in CASE peer[c] = "up"  -> {"fin", "rst"}
                    [] peer[c] = "fin" -> {"finrst"}
                    [] OTHER           -> {} :
          peer' = [peer EXCEPT ![c] = how]
    /\ UNCHANGED <<listener, listening, pages, state, written, taken, replies, quiet>>

\* The port may be taken.
Listen ==
    /\ listener = "new"
    /\ \/ listener' = "open" /\ listening' = 0
       \/ listener' = "closed" /\ UNCHANGED listening
    /\ UNCHANGED <<pages, state, peer, written, taken, replies, quiet>>

Accept(c) ==
    /\ listener = "open" /\ state[c] = "new" /\ Cardinality(Open) < Descriptors
    /\ state' = [state EXCEPT ![c] = "open"]
    /\ UNCHANGED <<listener, listening, pages, peer, written, taken, replies, quiet>>

\* To read the page takes one more descriptor.
NoPage == pages = Pages \/ (listener = "open" /\ Cardinality(Open) = Descriptors)

Take(c) ==
    /\ c \in Open /\ ~Owing(c) /\ taken[c] < written[c]
    /\ taken' = [taken EXCEPT ![c] = @ + 1]
    /\ quiet' = [quiet EXCEPT ![c] = 0]
    /\ pages' = IF PageExists THEN pages + 1 ELSE pages
    /\ PageExists => ~NoPage
    /\ UNCHANGED <<listener, listening, state, peer, written, replies>>

Answer(c) ==
    /\ c \in Open /\ Owing(c) /\ peer[c] \in {"up", "fin"}
    /\ \E reply \in {Reply} \cup (IF Short THEN {"part"} ELSE {}) :
          replies' = [replies EXCEPT ![c] = Append(@, reply)]
    /\ quiet' = [quiet EXCEPT ![c] = 0]
    /\ UNCHANGED <<listener, listening, pages, state, peer, written, taken>>

\* An orderly end is answered with one only when nothing is left to read.
Close(c) ==
    /\ c \in Open
    /\ \/ peer[c] = "fin" /\ ~Owing(c) /\ taken[c] = written[c]
       \/ peer[c] \in {"rst", "finrst"}
       \/ Short /\ Owing(c)
    /\ state' = [state EXCEPT ![c] = "closed"]
    /\ quiet' = [quiet EXCEPT ![c] = 0]
    /\ UNCHANGED <<listener, listening, pages, peer, written, taken, replies>>

\* Any number of quiet connections are closed at once, and the listening socket, with
\* the connections that wait for it, once it has been there as long.
Expire ==
    \E idle \in SUBSET Open, waiting \in SUBSET {c \in Conns : state[c] = "new"} :
       /\ \A c \in idle : quiet[c] = Timeout
       /\ \/ waiting = {} /\ UNCHANGED listener
          \/ listener = "open" /\ listening = Timeout /\ listener' = "closed"
       /\ state' = [c \in Conns |-> IF c \in idle \cup waiting THEN "closed" ELSE state[c]]
       /\ quiet' = [c \in Conns |-> IF c \in idle THEN 0 ELSE quiet[c]]
       /\ UNCHANGED <<listening, pages, peer, written, taken, replies>>

\* Answering a client that reset the connection after ending it, or a page that cannot
\* be had, ends the server.
Die ==
    /\ \E c \in Open :
          \/ Owing(c) /\ peer[c] = "finrst"
          \/ PageExists /\ NoPage /\ ~Owing(c) /\ taken[c] < written[c]
    /\ listener' = "closed"
    /\ state' = [c \in Conns |-> "closed"]
    /\ quiet' = [c \in Conns |-> 0]
    /\ UNCHANGED <<listening, pages, peer, written, taken, replies>>

Later(time) == IF time < Timeout THEN time + 1 ELSE Timeout

Pass ==
    /\ listening' = Later(listening)
    /\ quiet' = [c \in Conns |-> IF c \in Open THEN Later(quiet[c]) ELSE quiet[c]]
    /\ UNCHANGED <<listener, pages, state, peer, written, taken, replies>>

ReplyNext ==
    \/ Listen \/ Expire \/ Die \/ Pass
    \/ \E c \in Conns : \/ Write(c) \/ End(c)
                        \/ Accept(c) \/ Take(c) \/ Answer(c) \/ Close(c)

ReplySpec == ReplyInit /\ [][ReplyNext]_replyVars

=============================================================================
