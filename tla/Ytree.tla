------------------------------- MODULE Ytree -------------------------------
(***************************************************************************)
(* The AVL tree under every map of the data block (src/ydb/ytree.c).       *)
(* A node is named by its key: the code relinks nodes and never copies one *)
(* into another, so a node keeps its key for as long as it lives.  The two *)
(* mirrored halves of the code are one definition here, with the side as a *)
(* parameter.                                                              *)
(***************************************************************************)
EXTENDS Integers, FiniteSets, SequencesExt

CONSTANTS Keys,   \* naturals: the order of the keys is that of t->comp
          Widths, \* what ranges are asked for: how far the ends are apart
          Null    \* no node

VARIABLE tree

Left == -1
Right == 1
Sides == {Left, Right}

Empty == [root |-> Null,
          kid |-> [s \in Sides |-> [k \in Keys |-> Null]],
          up |-> [k \in Keys |-> Null],
          balance |-> [k \in Keys |-> 0],
          size |-> 0]
----------------------------------------------------------------------------
(* Links: child c hangs at side s of p, or at the root if p is Null. *)

Link(t, p, s, c) ==
    [t EXCEPT !.root = IF p = Null THEN c ELSE @,
              !.kid = IF p = Null THEN @ ELSE [@ EXCEPT ![s][p] = c],
              !.up = IF c = Null THEN @ ELSE [@ EXCEPT ![c] = p]]

SideOf(t, n) == IF t.up[n] # Null /\ t.kid[Left][t.up[n]] = n THEN Left ELSE Right

\* Puts c (which may be Null) where n hangs.
Replace(t, n, c) == Link(t, t.up[n], SideOf(t, n), c)

\* Mutant: the balance of n is taken from c before c has risen.
RotateStale(t, n, s) ==
    LET c == t.kid[-s][n]
        turned == Link(Link(Replace(t, n, c), n, -s, t.kid[s][c]), c, s, n)
    IN [turned EXCEPT !.balance[c] = @ + s, !.balance[n] = -t.balance[c]]

\* The child opposite to s rises and n sinks towards s.
Rotate(t, n, s) ==
    LET c == t.kid[-s][n]
        turned == Link(Link(Replace(t, n, c), n, -s, t.kid[s][c]), c, s, n)
    IN [turned EXCEPT !.balance[c] = @ + s,
                      !.balance[n] = -(t.balance[c] + s)]

\* The inner grandchild on side s rises above n and its child c.
RotateTwice(t, n, s) ==
    LET c == t.kid[s][n]
        g == t.kid[-s][c]
        outer == Link(Link(t, c, -s, t.kid[s][g]), n, s, t.kid[-s][g])
        risen == Link(Link(Replace(outer, n, g), g, s, c), g, -s, n)
    IN [risen EXCEPT !.balance[g] = 0,
                     !.balance[n] = IF t.balance[g] = s THEN -s ELSE 0,
                     !.balance[c] = IF t.balance[g] = -s THEN s ELSE 0]
----------------------------------------------------------------------------
(* Rebalancing after the subtree of n grew or shrank by b. *)

RECURSIVE Grown(_, _, _)
Grown(t, n, b) ==
    IF n = Null THEN t
    ELSE LET u == [t EXCEPT !.balance[n] = @ + b]
             side == IF u.balance[n] < 0 THEN Left ELSE Right
         IN CASE u.balance[n] = 0 -> u
              [] u.balance[n] \in {-1, 1} ->
                    Grown(u, u.up[n], SideOf(u, n))
              [] OTHER ->
                    IF u.balance[u.kid[side][n]] = side
                    THEN Rotate(u, n, -side) ELSE RotateTwice(u, n, side)

RECURSIVE Shrunk(_, _, _)
Shrunk(t, n, b) ==
    IF n = Null THEN t
    ELSE LET u == [t EXCEPT !.balance[n] = @ + b]
             side == IF u.balance[n] < 0 THEN Left ELSE Right
             heavy == u.kid[side][n]
             once == u.balance[heavy] # -side
             v == IF once THEN Rotate(u, n, -side) ELSE RotateTwice(u, n, side)
             top == v.up[n]
         IN CASE u.balance[n] = 0 -> Shrunk(u, u.up[n], -SideOf(u, n))
              [] u.balance[n] \in {-1, 1} -> u
              [] OTHER ->
                    IF once /\ v.balance[top] = -side THEN v
                    ELSE Shrunk(v, v.up[top], -SideOf(v, top))
----------------------------------------------------------------------------
(* Walking the tree. *)

RECURSIVE Outermost(_, _, _)
Outermost(t, n, s) ==
    IF n = Null \/ t.kid[s][n] = Null THEN n ELSE Outermost(t, t.kid[s][n], s)

Smallest(t) == Outermost(t, t.root, Left)
Largest(t) == Outermost(t, t.root, Right)

RECURSIVE Climb(_, _, _)
Climb(t, n, s) ==
    IF t.up[n] = Null \/ t.kid[s][t.up[n]] # n THEN t.up[n] ELSE Climb(t, t.up[n], s)

\* Tree_NextNode for the right side, Tree_PrevNode for the left.
Beside(t, n, s) ==
    IF t.kid[s][n] # Null THEN Outermost(t, t.kid[s][n], -s) ELSE Climb(t, n, s)

NextIter(t, n) == IF n = Null THEN Smallest(t) ELSE Beside(t, n, Right)
PrevIter(t, n) == IF n = Null THEN Largest(t) ELSE Beside(t, n, Left)

\* The node with the key, or the last one met on the way to where it would be.
RECURSIVE Nearest(_, _, _)
Nearest(t, n, k) ==
    LET s == IF k < n THEN Left ELSE Right
    IN IF n = Null \/ n = k \/ t.kid[s][n] = Null THEN n ELSE Nearest(t, t.kid[s][n], k)

Found(t, k) == t.root # Null /\ Nearest(t, t.root, k) = k

\* n and all that follow it towards side s.
RECURSIVE Walk(_, _, _)
Walk(t, n, s) == IF n = Null THEN <<>> ELSE <<n>> \o Walk(t, Beside(t, n, s), s)

Traverse(t) == Walk(t, Smallest(t), Right)
TraverseReverse(t) == Walk(t, Largest(t), Left)

\* Mutant: the upper boundary is left out.
InRangeOpen(t, low, high) ==
    LET base == Nearest(t, t.root, low)
    IN IF base = Null THEN <<>>
       ELSE SelectSeq(Walk(t, base, Left), LAMBDA n : n >= low)
            \o SelectSeq(Walk(t, Beside(t, base, Right), Right), LAMBDA n : n < high)

\* From the node nearest to low down to low, and then on up to high: the upper
\* boundary is not compared with the nodes of the way down, so that a range without
\* keys may be visited with one above it.
InRange(t, low, high) ==
    LET base == Nearest(t, t.root, low)
    IN IF base = Null THEN <<>>
       ELSE SelectSeq(Walk(t, base, Left), LAMBDA n : n >= low)
            \o SelectSeq(Walk(t, Beside(t, base, Right), Right), LAMBDA n : n <= high)

\* Both directions walk to lower keys.
Nearby(t, k, lower) ==
    LET near == Nearest(t, t.root, k)
        met == SelectSeq(Walk(t, near, Left), LAMBDA n : IF lower THEN n < k ELSE n > k)
    IN IF near = k \/ met = <<>> THEN near ELSE met[1]
----------------------------------------------------------------------------
(* Insertion and deletion. *)

Inserted(t, k) ==
    LET p == Nearest(t, t.root, k)
        s == IF k < p THEN Left ELSE Right
        fresh == [t EXCEPT !.kid[Left][k] = Null, !.kid[Right][k] = Null,
                           !.up[k] = Null, !.balance[k] = 0, !.size = @ + 1]
    IN IF p = Null THEN Link(fresh, Null, Right, k)
       ELSE IF p = k THEN t
       ELSE Grown(Link(fresh, p, s, k), p, s)

\* One child, or none, takes the place of n.
Unlinked(t, n) ==
    LET c == IF t.kid[Left][n] = Null THEN t.kid[Right][n] ELSE t.kid[Left][n]
        u == Replace(t, n, c)
    IN IF c = Null THEN Shrunk(u, t.up[n], -SideOf(t, n)) ELSE Shrunk(u, c, 0)

\* Mutant: the right child of the successor is forgotten where it hung.
SucceededAlone(t, n) ==
    LET right == t.kid[Right][n]
        next == Outermost(t, right, Left)
        placed(u) == [Link(Replace(u, n, next), next, Left, t.kid[Left][n])
                        EXCEPT !.balance[next] = t.balance[n]]
    IN IF next = right
       THEN Shrunk(placed(t), next, Left)
       ELSE Shrunk(Link(placed(Replace(t, next, Null)), next, Right, right), t.up[next], Right)

\* Mutant: the left child of n is not told of its new parent.
SucceededUntold(t, n) ==
    LET right == t.kid[Right][n]
        next == Outermost(t, right, Left)
        placed(u) == [Replace(u, n, next) EXCEPT !.kid[Left][next] = t.kid[Left][n],
                                                 !.balance[next] = t.balance[n]]
    IN IF next = right
       THEN Shrunk(placed(t), next, Left)
       ELSE Shrunk(Link(placed(Replace(t, next, t.kid[Right][next])),
                        next, Right, right), t.up[next], Right)

\* The successor is taken out of its place and put into that of n.
Succeeded(t, n) ==
    LET right == t.kid[Right][n]
        next == Outermost(t, right, Left)
        placed(u) == [Link(Replace(u, n, next), next, Left, t.kid[Left][n])
                        EXCEPT !.balance[next] = t.balance[n]]
    IN IF next = right
       THEN Shrunk(placed(t), next, Left)
       ELSE Shrunk(Link(placed(Replace(t, next, t.kid[Right][next])),
                        next, Right, right), t.up[next], Right)

Freed(t, n) ==
    [t EXCEPT !.kid[Left][n] = Null, !.kid[Right][n] = Null,
              !.up[n] = Null, !.balance[n] = 0, !.size = @ - 1]

Deleted(t, n) ==
    IF t.kid[Left][n] # Null /\ t.kid[Right][n] # Null
    THEN Freed(Succeeded(t, n), n) ELSE Freed(Unlinked(t, n), n)

RECURSIVE Destroyed(_)
Destroyed(t) == IF t.root = Null THEN t ELSE Destroyed(Deleted(t, t.root))
----------------------------------------------------------------------------
Init == tree = Empty

Insert(k) == tree' = Inserted(tree, k)

Delete(k) ==
    /\ Found(tree, k)
    /\ tree' = Deleted(tree, k)

\* A destroyed tree is not used again: its next life begins with an empty one.
Destroy == tree' = Destroyed(tree)

Next == Destroy \/ \E k \in Keys : Insert(k) \/ Delete(k)

Spec == Init /\ [][Next]_tree
----------------------------------------------------------------------------
RECURSIVE Below(_, _)
Below(t, n) ==
    IF n = Null THEN {} ELSE {n} \union Below(t, t.kid[Left][n]) \union Below(t, t.kid[Right][n])

Members == Below(tree, tree.root)

RECURSIVE Height(_, _)
Height(t, n) ==
    LET l == Height(t, t.kid[Left][n])
        r == Height(t, t.kid[Right][n])
    IN IF n = Null THEN 0 ELSE 1 + (IF l > r THEN l ELSE r)

Promised == INSTANCE OrderedSet WITH members <- Members

InOrder(seq, S) ==
    /\ ToSet(seq) = S
    /\ \A i \in 1..(Len(seq) - 1) : seq[i] < seq[i + 1]

\* Every insertion, deletion and destruction of the linked tree does to its
\* keys what the same operation of a set does, whatever rotations it takes:
\* no node is lost with its subtree and none comes back (Tree_Insert,
\* Tree_DeleteNode, ytree_destroy_custom).
ImplementsSet ==
    /\ Promised!Spec
    /\ [] LET all == Members
          IN \A k \in Keys :
               LET t == IF k \in all THEN Deleted(tree, k) ELSE Inserted(tree, k)
               IN Below(t, t.root) = IF k \in all THEN all \ {k} ELSE all \union {k}

\* The balance fields, which the rotations set case by case and never from
\* the subtrees, are the differences of the heights, and never exceed one; the
\* parent links, which every walk relies on, mirror the child links; the size
\* is the number of nodes (Tree_InsertBalance, Tree_DeleteBalance, Tree_Rotate*).
Balanced ==
    /\ tree.size = Cardinality(Members)
    /\ tree.root # Null => tree.up[tree.root] = Null
    /\ \A n \in Members :
         /\ tree.balance[n] \in -1..1
         /\ tree.balance[n] = Height(tree, tree.kid[Right][n]) - Height(tree, tree.kid[Left][n])
         /\ \A s \in Sides : tree.kid[s][n] # Null => tree.up[tree.kid[s][n]] = n

\* The walks and searches say of the tree what is true of the set of its keys: a
\* walk meets all of them in order, a range that has keys is visited with these and
\* each once, and a search for a key that is missing ends at one of its neighbours,
\* at the lower one if that is asked for and there is one (ytree_traverse,
\* ytree_traverse_in_range, ytree_find_nearby).  Nothing is claimed of a range
\* without keys: it should be visited with none.
SearchesAgree ==
    LET all == Members
        walk == Traverse(tree)
    IN /\ InOrder(walk, all)
       /\ TraverseReverse(tree) = Reverse(walk)
       /\ \A k \in Keys :
            LET below == {m \in all : m < k}
                above == {m \in all : m > k}
                closest == (IF below = {} THEN {} ELSE {Max(below)})
                           \union (IF above = {} THEN {} ELSE {Min(above)})
            IN /\ Found(tree, k) <=> k \in all
               /\ \A lower \in BOOLEAN :
                    CASE k \in all -> Nearby(tree, k, lower) = k
                      [] all = {} -> Nearby(tree, k, lower) = Null
                      [] OTHER -> Nearby(tree, k, lower) \in closest
               /\ k \notin all /\ below # {} => Nearby(tree, k, TRUE) = Max(below)
               /\ \A high \in {k + w : w \in Widths} :
                    LET range == InRange(tree, k, high)
                        seen == ToSet(range)
                        asked == {m \in all : m \in k..high}
                    IN asked # {} => seen = asked /\ Len(range) = Cardinality(asked)

\* A loop over the tree that removes nodes on its way (yhook_post_run) goes on
\* where it was: from the node that ytree_remove gives back, the next one is
\* the one that followed the removed node, and the same the other way round.
RemovalKeepsPlace ==
    \A n \in Members :
        LET t == Deleted(tree, n)
        IN /\ NextIter(t, Beside(tree, n, Left)) = Beside(tree, n, Right)
           /\ PrevIter(t, Beside(tree, n, Right)) = Beside(tree, n, Left)
============================================================================
