------------------------------ MODULE StlNodes ------------------------------
(***************************************************************************)
(* What the node containers share: nodes of one element, each a block of   *)
(* its own at the address of that element, with links beside it.           *)
(***************************************************************************)
EXTENDS StlUninitialized

\* get_node() and construct(); a node whose element was not made is put back.
CreateNode(o, x) ==
    LET at == NextBlock(o, 1)
        room == Allocate(o, 1)
        made == Construct(room, at, x)
    IN  IF room.thrown THEN room ELSE Catch(made, Deallocate(made, at, 1))

DestroyNode(o, p) == Deallocate(Destroy(o, {p}), p, 1)

\* The nodes from p on, by their links, up to but without end (and no more than
\* there can be, if the links are wrong).
RECURSIVE PathUpTo(_, _, _, _)
PathUpTo(o, p, end, n) ==
    IF p \in {end, Null} \/ n = 0 THEN << >> ELSE <<p>> \o PathUpTo(o, o.next[p], end, n - 1)
Path(o, p, end) == PathUpTo(o, p, end, Store)

\* Several nodes gone one after the other.
DestroyNodes(o, nodes) == FoldLeft(LAMBDA m, p : DestroyNode(m, p), o, nodes)

=============================================================================
