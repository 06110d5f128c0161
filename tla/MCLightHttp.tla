----------------------------- MODULE MCLightHttp -----------------------------
(***************************************************************************)
(* Instances of LightHttp for TLC.  The table has five entries: stdin's,   *)
(* never used, the listener's, the epoll instance's, never used either,    *)
(* and the clients'.                                                       *)
(***************************************************************************)
EXTENDS LightHttp, TLC

CONSTANTS c1, c2, c3

OneClientFd == {3}
TwoClientFds == {3, 4}

ConnSymmetry == Permutations(Conns)

=============================================================================
