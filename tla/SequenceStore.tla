--------------------------- MODULE SequenceStore ---------------------------
(***************************************************************************)
(* What a yarray promises: one sequence.  Indices count from zero, as they *)
(* do in the code.                                                         *)
(***************************************************************************)
EXTENDS Naturals, SequencesExt

CONSTANTS Data

VARIABLE items

Init == items = <<>>

PushBack(d) == items' = Append(items, d)
PushFront(d) == items' = <<d>> \o items
PopBack == items # <<>> /\ items' = Front(items)
PopFront == items # <<>> /\ items' = Tail(items)
Insert(i, d) == items' = InsertAt(items, i + 1, d)
Delete(i) == items' = RemoveAt(items, i + 1)

Next ==
    \/ PopBack \/ PopFront
    \/ \E d \in Data : PushBack(d) \/ PushFront(d)
    \/ \E i \in 0..(Len(items) - 1) : Delete(i) \/ \E d \in Data : Insert(i, d)

Spec == Init /\ [][Next]_items
============================================================================
