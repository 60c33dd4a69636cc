---------------------------- MODULE MCUtilities ----------------------------
(***************************************************************************)
(* A bench for the library's own utilities: each behaviour drives the      *)
(* timers (Ytimer) or one of the containers, alone, with every sequence of *)
(* its operations.                                                         *)
(***************************************************************************)
EXTENDS Ytimer

CONSTANTS TreeKeys, Widths, Keys, Data, Iters, Sentinel, FSize, MaxSize, Null

VARIABLES bench, tree, map, array

T == INSTANCE Ytree WITH Keys <- TreeKeys
M == INSTANCE Ymap
A == INSTANCE Yarray

BenchInit ==
    /\ bench \in {"ytimer", "ytree", "tall", "ymap", "yarray"}
    /\ Init /\ T!Init /\ M!Init /\ A!Init

\* A tree with as few nodes for its height as there can be, 1 to 12 below 8, is built
\* and some nodes are deleted: the deletion of 12 rotates at 11 and at 8.
LevelOrder == <<8, 5, 11, 3, 7, 10, 12, 2, 4, 6, 9, 1>>
BuildAndDelete ==
    \/ \E n \in DOMAIN LevelOrder :
          /\ T!Members = {LevelOrder[i] : i \in 1..(n - 1)}
          /\ T!Insert(LevelOrder[n])
    \/ tree.size > 9 /\ \E k \in TreeKeys : T!Delete(k)

BenchNext ==
    \/ bench = "ytimer" /\ Next /\ UNCHANGED <<bench, tree, map, array>>
    \/ bench = "ytree" /\ T!Next /\ ~T!Found(tree', 12)
       /\ UNCHANGED <<bench, vars, map, array>>
    \/ bench = "tall" /\ BuildAndDelete /\ UNCHANGED <<bench, vars, map, array>>
    \/ bench = "ymap" /\ M!Next /\ UNCHANGED <<bench, vars, tree, array>>
    \/ bench = "yarray" /\ A!Next /\ UNCHANGED <<bench, vars, tree, map>>

\* The fairness of the timers asks nothing of their initial state.
BenchSpec ==
    /\ BenchInit /\ [][BenchNext]_<<bench, vars, tree, map, array>>
    /\ Fairness
----------------------------------------------------------------------------
\* The heights, the parent links and the size of the tree (Tree_InsertBalance,
\* Tree_DeleteBalance and the rotations).
Balanced == T!Balanced

\* The walks and searches of the tree agree with the set of its keys
\* (ytree_traverse, ytree_traverse_in_range, ytree_find_nearby).
SearchesAgree == T!SearchesAgree

\* A loop that removes nodes of the tree, or entries of the map, goes on where it
\* was (ytree_remove, ymap_remove).
RemovalKeepsPlace == T!RemovalKeepsPlace /\ M!MapRemovalKeepsPlace

\* The tree implements a set of keys (ytree_insert, ytree_delete).
ImplementsSet == T!ImplementsSet

\* Both halves of an ordered map hold the same entries (ymap_insert_back).
TreeAndListAgree == M!TreeAndListAgree

\* The ordered map implements a sequence of keys with data (ymap_insert_back).
ImplementsMap == M!ImplementsMap

\* The fragments of the array and its indices agree, and a search of it finds
\* what is there (yfragment_get, yarray_search_around).
ArrayAgrees == A!IndicesAgree /\ A!SearchFinds

\* The array implements a sequence (yarray_insert, yarray_delete).
ImplementsSequence == A!ImplementsSequence
=============================================================================
