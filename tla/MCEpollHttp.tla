----------------------------- MODULE MCEpollHttp -----------------------------
(***************************************************************************)
(* Instances of EpollHttp for TLC: a response of three units over a send   *)
(* buffer of two, so that no response fits at once, and one unit more than *)
(* epoll asks for before it reports EPOLLOUT.                              *)
(***************************************************************************)
EXTENDS EpollHttp, TLC

CONSTANTS c1, c2

OneClientFd == {5}
TwoClientFds == {5, 6}

ConnSymmetry == Permutations(Conns)

=============================================================================
