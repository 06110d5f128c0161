---------------------------- MODULE MCEchoReactor ----------------------------
(***************************************************************************)
(* Instances of EchoReactor for TLC: descriptors 3, 4, ... as the kernel   *)
(* would number them after stdin, stdout and stderr, the epoll instance    *)
(* left out, the listeners before the clients.                             *)
(***************************************************************************)
EXTENDS EchoReactor, TLC

CONSTANTS c1, c2, c3

OneListener == {3}
TwoListeners == {3, 4}
OneClientFd == {5}
TwoClientFds == {5, 6}

ConnSymmetry == Permutations(Conns)

=============================================================================
