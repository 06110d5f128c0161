------------------------------- MODULE StlTree -------------------------------
(***************************************************************************)
(* rb_tree of stl_tree.h, on which set, map, multiset and multimap are     *)
(* built.  The header is the parent of the root and the root its; its      *)
(* children are the leftmost and the rightmost node.  What the code writes *)
(* once for either side is written once here: a side is Left or Right, and *)
(* 1 - side the other one.                                                 *)
(***************************************************************************)
EXTENDS StlNodes

CONSTANT Before(_, _)      \* key_compare() of the keys of two values

Left == 0
Right == 1
Red == FALSE
Black == TRUE

\* init()
NewTree(o) ==
    LET h == NextBlock(o, 1)
    IN  Then(Allocate(o, 1),
             [Allocate(o, 1) EXCEPT !.header = h, !.color[h] = Red, !.parent[h] = Null,
                                    !.child = [@ EXCEPT ![Left][h] = h, ![Right][h] = h],
                                    !.count = 0])

Root(o) == o.parent[o.header]
Leftmost(o) == o.child[Left][o.header]
Rightmost(o) == o.child[Right][o.header]
IsBlack(o, x) == x = Null \/ o.color[x] = Black

\* minimum() and maximum(): the outermost below x.
RECURSIVE Outermost(_, _, _)
Outermost(o, x, d) == IF o.child[d][x] = Null THEN x ELSE Outermost(o, o.child[d][x], d)

\* The first node up from x that x is not on side d of.
RECURSIVE UpFrom(_, _, _)
UpFrom(o, x, d) ==
    LET y == o.parent[x] IN IF o.child[d][y] = x THEN UpFrom(o, y, d) ELSE <<x, y>>

\* operator++ and operator-- of an iterator; end() is the header.
Increment(o, x) ==
    LET up == UpFrom(o, x, Right)
    IN  CASE o.child[Right][x] # Null -> Outermost(o, o.child[Right][x], Left)
          [] OTHER -> IF o.child[Right][up[1]] # up[2] THEN up[2] ELSE up[1]

Decrement(o, x) ==
    CASE o.color[x] = Red /\ o.parent[o.parent[x]] = x -> o.child[Right][x]
      [] ~(o.color[x] = Red /\ o.parent[o.parent[x]] = x) /\ o.child[Left][x] # Null ->
            Outermost(o, o.child[Left][x], Right)
      [] OTHER -> UpFrom(o, x, Left)[2]

-----------------------------------------------------------------------------
(* Keeping the tree balanced.                                              *)

\* y in the place of x below x's parent.
InPlaceOf(o, x, y) ==
    LET p == o.parent[x]
    IN  IF Root(o) = x THEN [o EXCEPT !.parent[o.header] = y]
        ELSE [o EXCEPT !.child[IF o.child[Left][p] = x THEN Left ELSE Right][p] = y]

\* __rb_tree_rotate_left() and _right(): x sinks to side d.
Rotate(o, x, d) ==
    LET y == o.child[1 - d][x]
        between == o.child[d][y]
    IN  [InPlaceOf(o, x, y)
         EXCEPT !.child = [@ EXCEPT ![1 - d][x] = between, ![d][y] = x],
                !.parent = [@ EXCEPT ![between] = IF between = Null THEN @ ELSE x,
                                     ![y] = o.parent[x], ![x] = y]]

\* __rb_tree_rebalance(): while x, which is red, has a red parent.
RECURSIVE NoTwoReds(_, _)
NoTwoReds(o, x) ==
    LET p == o.parent[x]
        g == o.parent[p]
        d == IF p = o.child[Left][g] THEN Left ELSE Right
        uncle == o.child[1 - d][g]
        inner == x = o.child[1 - d][p]
        outer == IF inner THEN Rotate(o, p, d) ELSE o
        top == IF inner THEN x ELSE p
    IN  CASE x = Root(o) \/ o.color[p] = Black -> o
          [] x # Root(o) /\ o.color[p] = Red /\ ~IsBlack(o, uncle) ->
                NoTwoReds([o EXCEPT !.color = [@ EXCEPT ![p] = Black, ![uncle] = Black,
                                                        ![g] = Red]], g)
          [] OTHER -> Rotate([outer EXCEPT !.color = [@ EXCEPT ![top] = Black, ![g] = Red]],
                             g, 1 - d)

Rebalance(o, x) ==
    LET done == NoTwoReds([o EXCEPT !.color[x] = Red], x)
    IN  [done EXCEPT !.color[Root(done)] = Black]

\* The loop of __rb_tree_rebalance_for_erase(): x, on side d of p, has one black node too
\* few above it.  Its sibling is made black, then the far child of that red.
BlackSibling(o, p, d) ==
    LET w == o.child[1 - d][p]
    IN  IF IsBlack(o, w) THEN o
        ELSE Rotate([o EXCEPT !.color = [@ EXCEPT ![w] = Black, ![p] = Red]], p, d)

RedFar(o, p, d) ==
    LET w == o.child[1 - d][p]
        near == o.child[d][w]
    IN  IF ~IsBlack(o, o.child[1 - d][w]) THEN o
        ELSE Rotate([o EXCEPT !.color = [@ EXCEPT ![near] = Black, ![w] = Red]], w, 1 - d)

Lowered(o, x, p, d) ==
    LET w == o.child[1 - d][p]
        far == o.child[1 - d][w]
        done == Rotate([o EXCEPT !.color = [@ EXCEPT ![w] = o.color[p], ![p] = Black,
                                                     ![far] = Black]], p, d)
    IN  [done EXCEPT !.color[x] = Black]

RECURSIVE OneBlackMore(_, _, _)
OneBlackBelow(o, x, p, d) ==
    LET w == o.child[1 - d][p]
    IN  IF IsBlack(o, o.child[Left][w]) /\ IsBlack(o, o.child[Right][w])
        THEN OneBlackMore([o EXCEPT !.color[w] = Red], p, o.parent[p])
        ELSE Lowered(RedFar(o, p, d), x, p, d)

OneBlackMore(o, x, p) ==
    LET d == IF x = o.child[Left][p] THEN Left ELSE Right
    IN  IF x = Root(o) \/ ~IsBlack(o, x) THEN [o EXCEPT !.color[x] = Black]
        ELSE OneBlackBelow(BlackSibling(o, p, d), x, p, d)

\* What comes before it: z, or its successor y in its place, leaves the tree.
Unlinked(o, z) ==
    LET l == o.child[Left][z]
        r == o.child[Right][z]
        x == IF l = Null THEN r ELSE l
        up == [InPlaceOf(o, z, x) EXCEPT !.parent[x] = IF x = Null THEN @ ELSE o.parent[z]]
        y == Outermost(o, r, Left)
        below == o.child[Right][y]
        side == IF y = r THEN o
                ELSE [o EXCEPT !.child = [@ EXCEPT ![Left][o.parent[y]] = below, ![Right][y] = r],
                               !.parent = [@ EXCEPT ![below] = IF below = Null THEN @
                                                               ELSE o.parent[y], ![r] = y]]
        swapped == InPlaceOf([side EXCEPT !.parent[l] = y, !.child[Left][y] = l], z, y)
    IN  IF l = Null \/ r = Null
        THEN [o |-> [up EXCEPT
                       !.child[Left][o.header] = IF @ # z THEN @ ELSE IF r = Null THEN o.parent[z]
                                                 ELSE Outermost(up, x, Left),
                       !.child[Right][o.header] = IF @ # z THEN @ ELSE IF l = Null THEN o.parent[z]
                                                  ELSE Outermost(up, x, Right)],
              x |-> x, above |-> o.parent[z], color |-> o.color[z]]
        ELSE [o |-> [swapped EXCEPT !.parent[y] = o.parent[z], !.color[y] = o.color[z]],
              x |-> below, above |-> IF y = r THEN y ELSE o.parent[y], color |-> o.color[y]]

RebalanceForErase(o, z) ==
    LET s == Unlinked(o, z) IN IF s.color = Red THEN s.o ELSE OneBlackMore(s.o, s.x, s.above)

-----------------------------------------------------------------------------
(* Insertion.                                                              *)

\* __insert() below y, on its left if x is not null.
InsertBelow(o, x, y, v) ==
    LET z == NextBlock(o, 1)
        made == CreateNode(o, v)
        onLeft == y = o.header \/ x # Null \/ Before(o.mem[v], o.mem[y])
        d == IF onLeft THEN Left ELSE Right
        linked == [made EXCEPT !.child[d][y] = z]
        outer == IF y = o.header
                 THEN [linked EXCEPT !.parent[y] = z, !.child[Right][y] = z]
                 ELSE [linked EXCEPT !.child[d][o.header] = IF @ = y THEN z ELSE @]
    IN  IF made.thrown THEN made
        ELSE Rebalance([outer EXCEPT !.parent[z] = y, !.count = @ + 1,
                                     !.child = [@ EXCEPT ![Left][z] = Null, ![Right][z] = Null]], z)

\* Where the descent for v ends, and whether it last went left.
RECURSIVE DescendFrom(_, _, _, _, _)
DescendFrom(o, v, x, y, wentLeft) ==
    IF x = Null THEN [at |-> y, wentLeft |-> wentLeft]
    ELSE LET less == Before(o.mem[v], o.mem[x])
         IN  DescendFrom(o, v, o.child[IF less THEN Left ELSE Right][x], x, less)
Descend(o, v) == DescendFrom(o, v, Root(o), o.header, TRUE)

InsertEqual(o, v) == InsertBelow(o, Null, Descend(o, v).at, v)

\* An equal one would be the last before the new one.
InsertUnique(o, v) ==
    LET d == Descend(o, v)
        j == IF d.wentLeft /\ d.at # Leftmost(o) THEN Decrement(o, d.at) ELSE d.at
    IN  IF (d.wentLeft /\ d.at = Leftmost(o)) \/ Before(o.mem[j], o.mem[v])
        THEN InsertBelow(o, Null, d.at, v) ELSE o

\* insert_unique() and insert_equal() with a position to insert before: what they call
\* __insert() with if the value fits there.
Hinted(o, position, v, unique) ==
    LET Fits(a, b) == IF unique THEN Before(o.mem[a], o.mem[b]) ELSE ~Before(o.mem[b], o.mem[a])
        before == Decrement(o, position)
    IN  CASE position = Leftmost(o) ->
                IF o.count > 0 /\ Before(o.mem[v], o.mem[position]) THEN <<position, position>>
                ELSE << >>
          [] position # Leftmost(o) /\ position = o.header ->
                IF Fits(Rightmost(o), v) THEN <<Null, Rightmost(o)>> ELSE << >>
          [] OTHER -> IF ~(Fits(before, v) /\ Fits(v, position)) THEN << >>
                      ELSE IF o.child[Right][before] = Null THEN <<Null, before>>
                      ELSE <<position, position>>

InsertHinted(o, position, v, unique) ==
    LET place == Hinted(o, position, v, unique)
    IN  CASE place # << >> -> InsertBelow(o, place[1], place[2], v)
          [] place = << >> /\ unique -> InsertUnique(o, v)
          [] OTHER -> InsertEqual(o, v)

-----------------------------------------------------------------------------
(* Erasing, copying and finding.                                           *)

TreeErase(o, z) == [DestroyNode(RebalanceForErase(o, z), z) EXCEPT !.count = @ - 1]

\* __erase(): a subtree without rebalancing.
RECURSIVE Subtree(_, _)
Subtree(o, x) ==
    IF x = Null THEN << >>
    ELSE Subtree(o, o.child[Right][x]) \o <<x>> \o Subtree(o, o.child[Left][x])
EraseSubtree(o, x) == DestroyNodes(o, Subtree(o, x))

TreeClear(o) ==
    IF o.count = 0 THEN o
    ELSE [EraseSubtree(o, Root(o)) EXCEPT
            !.parent[o.header] = Null, !.count = 0,
            !.child = [@ EXCEPT ![Left][o.header] = o.header, ![Right][o.header] = o.header]]

DestroyTree(o) == Deallocate(TreeClear(o), o.header, 1)

RECURSIVE EraseUpTo(_, _, _)
EraseUpTo(o, first, last) ==
    IF first = last THEN o ELSE EraseUpTo(TreeErase(o, first), Increment(o, first), last)
TreeEraseRange(o, first, last) ==
    IF first = Leftmost(o) /\ last = o.header THEN TreeClear(o) ELSE EraseUpTo(o, first, last)

\* lower_bound(): the first not less than the value at k; upper_bound(): the first greater.
RECURSIVE BoundFrom(_, _, _, _, _)
BoundFrom(o, k, upper, x, y) ==
    IF x = Null THEN y
    ELSE IF (IF upper THEN Before(o.mem[k], o.mem[x]) ELSE ~Before(o.mem[x], o.mem[k]))
    THEN BoundFrom(o, k, upper, o.child[Left][x], x)
    ELSE BoundFrom(o, k, upper, o.child[Right][x], y)
LowerBound(o, k) == BoundFrom(o, k, FALSE, Root(o), o.header)
UpperBound(o, k) == BoundFrom(o, k, TRUE, Root(o), o.header)

FindKey(o, k) ==
    LET j == LowerBound(o, k)
    IN  IF j = o.header \/ Before(o.mem[k], o.mem[j]) THEN o.header ELSE j

EraseKey(o, k) == TreeEraseRange(o, LowerBound(o, k), UpperBound(o, k))

\* The nodes of [first, last), going forward.
RECURSIVE Forward(_, _, _)
Forward(o, first, last) ==
    IF first = last THEN << >> ELSE <<first>> \o Forward(o, Increment(o, first), last)
CountKey(o, k) == Len(Forward(o, LowerBound(o, k), UpperBound(o, k)))

\* clone_node() of from, below above.
Cloned(o, from, above) ==
    LET made == CreateNode(o, from)
        y == NextBlock(o, 1)
    IN  Then(made, [made EXCEPT !.color[y] = o.color[from], !.parent[y] = above,
                     !.child = [@ EXCEPT ![Left][y] = Null, ![Right][y] = Null]])

\* __copy(): x, then what is right of it, then the same down its left side; what has
\* been copied is erased if an element throws.  y is the copy of x.
RECURSIVE CopySubtree(_, _, _)
RECURSIVE CopyBelow(_, _, _)
CopyRight(o, x, y) ==
    LET r == o.child[Right][x]
        copied == CopySubtree(o, r, y)
    IN  IF r = Null THEN o ELSE Then(copied, [copied EXCEPT !.child[Right][y] = NextBlock(o, 1)])

CopyLeft(o, x, y) ==
    LET l == o.child[Left][x]
        next == NextBlock(o, 1)
        left == Cloned(o, l, y)
    IN  IF o.thrown \/ l = Null THEN o
        ELSE Then(left, CopyBelow([left EXCEPT !.child[Left][y] = next], l, next))

CopyBelow(o, x, y) == CopyLeft(CopyRight(o, x, y), x, y)

EraseCopy(o, top) == Catch(o, EraseSubtree(o, top))

CopySubtree(o, x, p) ==
    LET top == NextBlock(o, 1)
        first == Cloned(o, x, p)
    IN  Then(first, EraseCopy(CopyBelow(first, x, top), top))

\* The header's root from a copy of the tree below x, which is not empty.
WithRoot(o, root, count) ==
    Then(o, [o EXCEPT
        !.parent[o.header] = root, !.count = count,
        !.child = [@ EXCEPT ![Left][o.header] = Outermost(o, root, Left),
                           ![Right][o.header] = Outermost(o, root, Right)]])
Copied(o, x, count) == WithRoot(CopySubtree(o, x, o.header), NextBlock(o, 1), count)

\* The copy of the tree below x: a constructor, which puts the header back, and operator=.
PutHeader(o, old) ==
    Catch(o, [Deallocate(o, o.header, 1) EXCEPT !.header = old.header, !.count = old.count])
TreeOf(o, x, count) ==
    LET tree == NewTree(o)
    IN  IF x = Null THEN tree ELSE Then(tree, PutHeader(Copied(tree, x, count), o))
AssignTree(o, x, count) ==
    LET empty == TreeClear(o) IN IF x = Null THEN empty ELSE Copied(empty, x, count)

-----------------------------------------------------------------------------
\* __rb_verify(), which walks the whole tree.
RECURSIVE BlackCount(_, _)
BlackCount(o, x) ==
    (IF o.color[x] = Black THEN 1 ELSE 0) + IF x = Root(o) THEN 0 ELSE BlackCount(o, o.parent[x])

RbVerify(o) ==
    LET nodes == ToSet(Forward(o, Leftmost(o), o.header))
        Kids(x) == {o.child[d][x] : d \in {Left, Right}} \ {Null}
    IN  IF o.count = 0 \/ Leftmost(o) = o.header
        THEN o.count = 0 /\ Leftmost(o) = o.header /\ Rightmost(o) = o.header
        ELSE /\ \A x \in nodes :
                  /\ o.color[x] = Red => \A k \in Kids(x) : o.color[k] = Black
                  /\ o.child[Left][x] # Null => ~Before(o.mem[x], o.mem[o.child[Left][x]])
                  /\ o.child[Right][x] # Null => ~Before(o.mem[o.child[Right][x]], o.mem[x])
                  /\ Kids(x) = {} => BlackCount(o, x) = BlackCount(o, Leftmost(o))
             /\ Leftmost(o) = Outermost(o, Root(o), Left)
             /\ Rightmost(o) = Outermost(o, Root(o), Right)

=============================================================================
