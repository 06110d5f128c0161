----------------------------- MODULE MCPrograms -----------------------------
(***************************************************************************)
(* Instances of the small network programs.  They have nothing to do with  *)
(* each other: a behaviour is one of a single one of them, and the others  *)
(* stay in their initial states.                                           *)
(*                                                                         *)
(* Of the servers that only receive there are two instances.  In one,      *)
(* descriptors run out and go beyond the poll server's array; the other is *)
(* the poll server alone with three descriptors below the highest.         *)
(***************************************************************************)
EXTENDS RecvServers, SigIo, ArpResponder

CONSTANTS c1, c2, c3, c4, h1, h2

WideConns == {c1, c2, c3, c4}

Wide == INSTANCE RecvServers
          WITH Programs <- {"poll"}, ClientFds <- 4 .. 7, PollSize <- 8,
               Conns <- WideConns, Writers <- {c1, c2}, Enders <- {c2, c3},
               ListenQueue <- 1

VARIABLE running    \* which of the programs this behaviour is about

programsVars == <<running, recvVars, sigVars, arpVars>>

Init == /\ running \in {"recv", "wide", "sigio", "arp"}
        /\ IF running = "wide" THEN Wide!RecvInit ELSE RecvInit
        /\ running \notin {"recv", "wide"} =>
              /\ program = CHOOSE p \in Programs : TRUE
              /\ \A fd \in ClientFds : ~revents[fd]
        /\ SigIoInit /\ ArpInit

Only(component, Next, others) ==
    running = component /\ Next /\ UNCHANGED <<running, others>>

Next == \/ Only("recv", RecvNext, <<sigVars, arpVars>>)
        \/ Only("wide", Wide!RecvNext, <<sigVars, arpVars>>)
        \/ Only("sigio", SigIoNext, <<recvVars, arpVars>>)
        \/ Only("arp", ArpNext, <<recvVars, sigVars>>)

\* RecvFairness of the instance that runs.
Fairness == /\ WF_recvVars(running = "recv" /\ PollServer)
            /\ \A c \in Conns : WF_recvVars(running = "recv" /\ ThreadSteps(c))
            /\ WF_recvVars(running = "wide" /\ Wide!PollServer)

Spec == Init /\ [][Next]_programsVars /\ Fairness

\* With three descriptors below the highest and clients that come again on
\* reused numbers: whoever has not the highest descriptor is read, if the
\* server does not for ever break off its scans, and unless it has run out of
\* descriptors with a client in the queue and reads nobody any more.
LowerIsRead ==
    <>[][running = "wide" => ~Wide!BrokenOff]_recvVars =>
        \A c \in WideConns :
            (running = "wide" /\ Wide!LowerWaits(c))
                ~> (running = "wide" => Wide!LowerServed(c))

=============================================================================
