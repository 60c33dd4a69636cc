-------------------------------- MODULE Ylist --------------------------------
(***************************************************************************)
(* The doubly linked list of src/ydb/ylist.c: a ring of iterators around a *)
(* head that holds no data.                                                *)
(***************************************************************************)
EXTENDS Naturals, Sequences

CONSTANTS Iters,   \* what malloc may give to an iterator
          Sentinel,    \* list->head
          Null

EmptyList ==
    LET alone == [i \in Iters \union {Sentinel} |-> IF i = Sentinel THEN Sentinel ELSE Null]
    IN [next |-> alone, prev |-> alone, size |-> 0]

IsEmpty(l) == l.next[Sentinel] = Sentinel \/ l.prev[Sentinel] = Sentinel

\* iter goes behind at, which is an iterator or the head.
Insert(l, at, iter) ==
    LET after == l.next[at]
    IN [next |-> [l.next EXCEPT ![iter] = after, ![at] = iter],
        prev |-> [l.prev EXCEPT ![iter] = at, ![after] = iter],
        size |-> l.size + 1]

PushFront(l, iter) == Insert(l, Sentinel, iter)
PushBack(l, iter) == Insert(l, l.prev[Sentinel], iter)

\* iter is freed: its links are as good as Null from here on.
Erase(l, iter) ==
    LET before == l.prev[iter]
        after == l.next[iter]
    IN [next |-> [l.next EXCEPT ![before] = after, ![iter] = Null],
        prev |-> [l.prev EXCEPT ![after] = before, ![iter] = Null],
        size |-> l.size - 1]

OrNull(i) == IF i = Sentinel THEN Null ELSE i
First(l) == OrNull(l.next[Sentinel])
Last(l) == OrNull(l.prev[Sentinel])
Next(l, i) == IF i = Null THEN Null ELSE OrNull(l.next[i])
Prev(l, i) == IF i = Null THEN Null ELSE OrNull(l.prev[i])

RECURSIVE Index(_, _, _)
Index(l, i, n) == IF i = Null \/ n = 0 THEN i ELSE Index(l, Next(l, i), n - 1)

\* ylist_traverse with a callback that goes on
RECURSIVE From(_, _)
From(l, i) == IF i = Null THEN <<>> ELSE <<i>> \o From(l, Next(l, i))
==============================================================================
