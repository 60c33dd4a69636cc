----------------------------- MODULE OrderedMap -----------------------------
(***************************************************************************)
(* What a ymap promises: keys with their data, in the order of insertion,  *)
(* where inserting a key again at an end moves it.                         *)
(***************************************************************************)
EXTENDS Naturals, SequencesExt

CONSTANTS Keys, Data

VARIABLE order      \* a sequence of <<key, data>>, no key twice

Init == order = <<>>

Has(k) == \E i \in DOMAIN order : order[i][1] = k
Without(k) == SelectSeq(order, LAMBDA e : e[1] # k)

InsertBack(k, d) == order' = Append(Without(k), <<k, d>>)
InsertFront(k, d) == order' = <<<<k, d>>>> \o Without(k)
InsertAfter(i, k, d) == ~Has(k) /\ order' = InsertAt(order, i + 1, <<k, d>>)
Delete(k) == order' = Without(k)

Next ==
    \E k \in Keys :
        \/ Delete(k)
        \/ \E d \in Data : \/ InsertBack(k, d) \/ InsertFront(k, d)
                           \/ \E i \in DOMAIN order : InsertAfter(i, k, d)

Spec == Init /\ [][Next]_order
=============================================================================
