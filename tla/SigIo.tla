-------------------------------- MODULE SigIo --------------------------------
(***************************************************************************)
(* src/src/select_poll_epoll/server_sig_io.cxx: a UDP echo server that     *)
(* does everything in the handler of SIGIO.  A signal that is raised while *)
(* the same one is pending is merged with it, one that is raised while the *)
(* handler runs waits for its end, and the handler takes one datagram.     *)
(***************************************************************************)
EXTENDS Naturals, Sequences

CONSTANTS MaxDatagrams,  \* bound: datagrams the clients send
          QueueLength    \* datagrams the socket's receive queue holds

ASSUME SigIoAssumption == MaxDatagrams \in Nat /\ QueueLength \in Nat \ {0}

VARIABLES
    arrived,  \* datagrams that have reached the host, numbered from 1
    waiting,  \* the socket's receive queue
    pending,  \* SIGIO is pending
    handler,  \* "idle" in sleep(), "entered" or "received"
    current,  \* what the handler received, 0 when recvfrom() failed
    echoed,   \* history: datagrams sent back, in order
    merged    \* history: signals that met a pending one

sigVars == <<arrived, waiting, pending, handler, current, echoed, merged>>

\* The handler is installed and O_ASYNC set before bind(): nothing arrives
\* without its signal.
SigIoInit ==
    /\ arrived = 0
    /\ waiting = << >>
    /\ pending = FALSE
    /\ handler = "idle"
    /\ current = 0
    /\ echoed = << >>
    /\ merged = 0

\* The kernel queues a datagram and raises SIGIO; a full queue drops it
\* without a signal.
Arrives ==
    /\ arrived < MaxDatagrams
    /\ arrived' = arrived + 1
    /\ IF Len(waiting) < QueueLength
       THEN /\ waiting' = Append(waiting, arrived')
            /\ pending' = TRUE
            /\ merged' = IF pending THEN merged + 1 ELSE merged
       ELSE UNCHANGED <<waiting, pending, merged>>
    /\ UNCHANGED <<handler, current, echoed>>

\* sleep() is interrupted and do_sigio called, with SIGIO blocked.
Interrupts ==
    /\ pending /\ handler = "idle"
    /\ pending' = FALSE
    /\ handler' = "entered"
    /\ UNCHANGED <<arrived, waiting, current, echoed, merged>>

\* recvfrom() on the non-blocking socket.
RecvFromDrains ==
    /\ handler = "entered"
    /\ current' = IF waiting = << >> THEN 0 ELSE waiting[Len(waiting)]
    /\ waiting' = << >>
    /\ handler' = "received"
    /\ UNCHANGED <<arrived, pending, echoed, merged>>
RecvFrom ==
    /\ handler = "entered"
    /\ IF waiting = << >>
       THEN current' = 0 /\ UNCHANGED waiting
       ELSE current' = Head(waiting) /\ waiting' = Tail(waiting)
    /\ handler' = "received"
    /\ UNCHANGED <<arrived, pending, echoed, merged>>

\* sendto() and the return of the handler; the kernel may drop the answer.
SendTo ==
    /\ handler = "received"
    /\ \/ echoed' = Append(echoed, current)
       \/ UNCHANGED echoed
    /\ handler' = "idle"
    /\ current' = 0
    /\ UNCHANGED <<arrived, waiting, pending, merged>>

Process == Interrupts \/ RecvFrom \/ SendTo

SigIoNext == Arrives \/ Process

SigIoSpec == SigIoInit /\ [][SigIoNext]_sigVars

-----------------------------------------------------------------------------
(* Properties.                                                             *)

\* The server falls behind by exactly one datagram for every merged signal,
\* and never catches up: what is in the queue is what pending and running
\* handlers will take and what merged signals left behind.
BehindByMerged ==
    Len(waiting) = merged + (IF pending THEN 1 ELSE 0)
                          + (IF handler = "entered" THEN 1 ELSE 0)

=============================================================================
