-------------------------------- MODULE Ymap --------------------------------
(***************************************************************************)
(* The ordered map of src/ydb/ymap.c: every entry is in a ytree under its  *)
(* key and in a ylist in the order of insertion.  The tree is the function *)
(* that the module Ytree shows a ytree to be; the list is the linked list  *)
(* of the module Ylist.  An entry (ymap_iter) and its list iterator are    *)
(* allocated and freed together, and have one name here.                   *)
(***************************************************************************)
EXTENDS Naturals, SequencesExt

CONSTANTS Keys, Data, Iters, Sentinel, Null

L == INSTANCE Ylist

VARIABLE map    \* [tree : keys to entries, list, entry : what each entry holds,
                \*  crashed : a null pointer has been read]

NoEntry == <<Null, Null>>

Init == map = [tree |-> [k \in Keys |-> Null],
               list |-> L!EmptyList,
               entry |-> [i \in Iters |-> NoEntry],
               crashed |-> FALSE]

KeyOf(m, i) == m.entry[i][1]
Free(m) == {i \in Iters : m.entry[i] = NoEntry}
----------------------------------------------------------------------------
\* Mutant: the old entry stays in the list.
EnteredTwice(m, i, k, d, list) ==
    [m EXCEPT !.tree[k] = i, !.list = list, !.entry[i] = <<k, d>>]

\* ytree_insert gives back the entry it found under the key, whose list
\* iterator is erased and whose memory is freed.
Entered(m, i, k, d, list) ==
    LET old == m.tree[k]
        in == [m EXCEPT !.tree[k] = i, !.list = list, !.entry[i] = <<k, d>>]
    IN IF old = Null THEN in
       ELSE [in EXCEPT !.list = L!Erase(@, old), !.entry[old] = NoEntry]

Removed(m, i) ==
    [m EXCEPT !.tree[KeyOf(m, i)] = Null,
              !.list = L!Erase(@, i),
              !.entry[i] = NoEntry]

\* ymap_remove gives back the entry before the removed one.
AfterRemoval(m, i) == L!Prev(m.list, i)

\* ymap_next: the first entry for no entry.
NextEntry(m, i) == IF i = Null THEN L!First(m.list) ELSE L!Next(m.list, i)
----------------------------------------------------------------------------
\* malloc gives any free piece of memory; the lowest one here.
InsertBack(k, d) ==
    /\ Free(map) # {}
    /\ LET i == Min(Free(map))
       IN map' = Entered(map, i, k, d, L!PushBack(map.list, i))

InsertFront(k, d) ==
    /\ Free(map) # {}
    /\ LET i == Min(Free(map))
       IN map' = Entered(map, i, k, d, L!PushFront(map.list, i))

\* Mutant: a key that is there already is not refused.
InsertAfterAny(at, k, d) ==
    /\ map.entry[at] # NoEntry
    /\ Free(map) # {}
    /\ LET i == Min(Free(map))
       IN map' = Entered(map, i, k, d, L!Insert(map.list, at, i))

\* ymap_insert, which refuses a key that is there.
InsertAfter(at, k, d) ==
    /\ map.entry[at] # NoEntry
    /\ map.tree[k] = Null
    /\ Free(map) # {}
    /\ LET i == Min(Free(map))
       IN map' = Entered(map, i, k, d, L!Insert(map.list, at, i))

\* ymap_insert behind no entry: the entry is read all the same.
InsertAfterNone(k) ==
    /\ map.tree[k] = Null
    /\ map' = [map EXCEPT !.crashed = TRUE]

Delete(k) ==
    /\ map.tree[k] # Null
    /\ map' = Removed(map, map.tree[k])

PopFront ==
    /\ ~L!IsEmpty(map.list)
    /\ map' = Removed(map, L!First(map.list))

PopTail ==
    /\ ~L!IsEmpty(map.list)
    /\ map' = Removed(map, L!Last(map.list))

RemoveEntry(i) ==
    /\ map.entry[i] # NoEntry
    /\ map' = Removed(map, i)

Next ==
    /\ ~map.crashed
    /\ \/ PopFront \/ PopTail
       \/ \E i \in Iters : RemoveEntry(i)
       \/ \E k \in Keys :
            \/ Delete(k) \/ InsertAfterNone(k)
            \/ \E d \in Data : \/ InsertBack(k, d) \/ InsertFront(k, d)
                               \/ \E i \in Iters : InsertAfter(i, k, d)

Spec == Init /\ [][Next]_map
----------------------------------------------------------------------------
Walked == L!From(map.list, L!First(map.list))

Promised == INSTANCE OrderedMap
    WITH order <- [n \in DOMAIN Walked |-> map.entry[Walked[n]]]

\* In the order of the list, the map is one sequence of keys with their data:
\* an insertion at either end moves a key that is there, one behind an entry is
\* refused for such a key, and each removal takes out one key (ymap_insert_back,
\* ymap_insert_front, ymap_insert, ymap_pop_*, ymap_delete, ymap_remove).  This
\* holds as long as the process runs: an insertion behind no entry, which should go
\* to the end of the list, stops it.
ImplementsMap ==
    /\ Promised!Spec
    /\ [][\A k \in Keys :
            /\ Delete(k) => Promised!Delete(k)
            /\ \A d \in Data :
                 /\ InsertBack(k, d) => Promised!InsertBack(k, d)
                 /\ InsertFront(k, d) => Promised!InsertFront(k, d)
                 /\ \A n \in DOMAIN Walked :
                      InsertAfter(Walked[n], k, d) => Promised!InsertAfter(n, k, d)]_map

\* Tree and list hold the same entries: a key found in the tree leads to an
\* entry of the list under that key, every entry of the list is found by its
\* key, the backward links mirror the forward ones, and the size counts them.
TreeAndListAgree ==
    /\ \A k \in Keys : map.tree[k] # Null => KeyOf(map, map.tree[k]) = k
    /\ {map.tree[k] : k \in Keys} \ {Null} = ToSet(Walked)
    /\ map.list.size = Len(Walked)
    /\ \A n \in DOMAIN Walked :
         /\ L!Index(map.list, L!First(map.list), n - 1) = Walked[n]
         /\ L!Prev(map.list, Walked[n]) = IF n = 1 THEN Null ELSE Walked[n - 1]
    /\ L!Last(map.list) = IF Walked = <<>> THEN Null ELSE Walked[Len(Walked)]

\* A loop that removes entries on its way goes on where it was.
MapRemovalKeepsPlace ==
    \A i \in ToSet(Walked) :
        NextEntry(Removed(map, i), AfterRemoval(map, i)) = NextEntry(map, i)
=============================================================================
