---------------------------- MODULE OrderedSet ----------------------------
(***************************************************************************)
(* What a ytree promises to the code that uses it: a set of keys in order. *)
(***************************************************************************)
EXTENDS Naturals, FiniteSets

CONSTANT Keys

VARIABLE members

Init == members = {}

Insert(k) == members' = members \union {k}
Delete(k) == members' = members \ {k}
Destroy == members' = {}

Next == Destroy \/ \E k \in Keys : Insert(k) \/ Delete(k)

Spec == Init /\ [][Next]_members
============================================================================
