------------------------------- MODULE Yarray -------------------------------
(***************************************************************************)
(* The array of src/ydb/yarray.c: a list of fragments, each a ring buffer  *)
(* of FSize cells.  Insertions split a full fragment between its           *)
(* neighbours, deletions merge fragments again.                            *)
(***************************************************************************)
EXTENDS Integers, SequencesExt

CONSTANTS Data,
          FSize,    \* cells of a fragment, at least 4 (yarray_create)
          MaxSize,  \* bound: the elements of the array
          Null

VARIABLE array      \* [fragments : a sequence of rings, n : the elements]

NewFragment == [front |-> 0, n |-> 0, cells |-> [c \in 0..(FSize - 1) |-> Null]]

Pos(f, i) == (FSize + f.front + i) % FSize
At(f, i) == f.cells[Pos(f, i)]

\* The elements of a ring, and a ring with others in their place from local
\* index i on.
Held(f) == [i \in 1..f.n |-> At(f, i - 1)]
Put(f, i, seq) ==
    [f EXCEPT !.cells = [c \in DOMAIN @ |->
        IF \E j \in 1..Len(seq) : Pos(f, i + j - 1) = c
        THEN seq[CHOOSE j \in 1..Len(seq) : Pos(f, i + j - 1) = c] ELSE @[c]]]
Cleared(f, i, max) == Put(f, i, [j \in 1..max |-> Null])
Turned(f, by) == [f EXCEPT !.front = (FSize + @ + by) % FSize]
----------------------------------------------------------------------------
RECURSIVE Before(_, _)
Before(fs, k) == IF k <= 1 THEN 0 ELSE fs[k - 1].n + Before(fs, k - 1)

\* Mutant: off by one when it counts from the back.
FragmentBehind(a, index) ==
    LET fs == a.fragments
        fromFront == {k \in 1..Len(fs) : index < Before(fs, k) + fs[k].n}
        fromBack == {k \in 1..Len(fs) : index > a.n - (Before(fs, Len(fs) + 1) - Before(fs, k))}
    IN IF index < 0 \/ index >= a.n THEN 0
       ELSE IF index < a.n \div 2
            THEN IF fromFront = {} THEN 0 ELSE Min(fromFront)
            ELSE IF fromBack = {} THEN 0 ELSE Max(fromBack)

\* The fragment of an index, searched from the nearer end; 0 for none.
Fragment(a, index) ==
    LET fs == a.fragments
        fromFront == {k \in 1..Len(fs) : index < Before(fs, k) + fs[k].n}
        fromBack == {k \in 1..Len(fs) : index >= a.n - (Before(fs, Len(fs) + 1) - Before(fs, k))}
    IN IF index < 0 \/ index >= a.n THEN 0
       ELSE IF index < a.n \div 2
            THEN IF fromFront = {} THEN 0 ELSE Min(fromFront)
            ELSE IF fromBack = {} THEN 0 ELSE Max(fromBack)

LocalIndex(a, index) ==
    LET k == Fragment(a, index)
    IN IF index < a.n \div 2 THEN index - Before(a.fragments, k)
       ELSE index - (a.n - (Before(a.fragments, Len(a.fragments) + 1) - Before(a.fragments, k)))

DataAt(a, index) ==
    IF Fragment(a, index) = 0 THEN Null
    ELSE At(a.fragments[Fragment(a, index)], LocalIndex(a, index))
----------------------------------------------------------------------------
\* The elements of fragment k from local index i on go to the next fragment,
\* or to a new one if that has no room.  The result also says where the insertion
\* goes on.
ShiftNext(fs, k, i) ==
    LET f == fs[k]
        max == f.n - i
        fits == k < Len(fs) /\ FSize - fs[k + 1].n >= max
        target == IF fits THEN fs[k + 1] ELSE NewFragment
        moved == [Put(Turned(target, -max), 0, SubSeq(Held(f), i + 1, f.n)) EXCEPT !.n = @ + max]
        left == [Cleared(f, i, max) EXCEPT !.n = @ - max]
    IN [fragments |-> SubSeq(fs, 1, k - 1) \o <<left, moved>>
                      \o SubSeq(fs, IF fits THEN k + 2 ELSE k + 1, Len(fs)),
        at |-> k, local |-> i]

\* Mutant: the new element goes before those that were moved.
ShiftPrevBefore(fs, k, i) ==
    LET f == fs[k]
        fits == k > 1 /\ FSize - fs[k - 1].n >= i + 1
        target == IF fits THEN fs[k - 1] ELSE NewFragment
        moved == [Put(target, target.n, SubSeq(Held(f), 1, i)) EXCEPT !.n = @ + i]
        left == [Turned(Cleared(f, 0, i), i) EXCEPT !.n = @ - i]
    IN [fragments |-> SubSeq(fs, 1, IF fits THEN k - 2 ELSE k - 1) \o <<moved, left>>
                      \o SubSeq(fs, k + 1, Len(fs)),
        at |-> IF fits THEN k - 1 ELSE k, local |-> target.n]

\* The elements before local index i go to the previous fragment, and so will
\* the new one.
ShiftPrev(fs, k, i) ==
    LET f == fs[k]
        fits == k > 1 /\ FSize - fs[k - 1].n >= i + 1
        target == IF fits THEN fs[k - 1] ELSE NewFragment
        moved == [Put(target, target.n, SubSeq(Held(f), 1, i)) EXCEPT !.n = @ + i]
        left == [Turned(Cleared(f, 0, i), i) EXCEPT !.n = @ - i]
    IN [fragments |-> SubSeq(fs, 1, IF fits THEN k - 2 ELSE k - 1) \o <<moved, left>>
                      \o SubSeq(fs, k + 1, Len(fs)),
        at |-> IF fits THEN k - 1 ELSE k, local |-> moved.n]

\* Fragment k and the next one, merged into the one that holds more if it has room.
Mergeable(fs, k) == k \in 1..(Len(fs) - 1) /\ FSize >= fs[k].n + fs[k + 1].n

Merged(fs, k) ==
    LET f == fs[k]
        g == fs[k + 1]
        one == IF f.n >= g.n
               THEN [Put(f, f.n, Held(g)) EXCEPT !.n = @ + g.n]
               ELSE [Put(Turned(g, -f.n), 0, Held(f)) EXCEPT !.n = @ + f.n]
    IN SubSeq(fs, 1, k - 1) \o <<one>> \o SubSeq(fs, k + 2, Len(fs))

InsertLocal(f, i, d) ==
    LET g == IF i <= f.n \div 2
             THEN Put(Turned(f, -1), 0, SubSeq(Held(f), 1, i))
             ELSE Put(f, i + 1, SubSeq(Held(f), i + 1, f.n))
    IN [Put(g, i, <<d>>) EXCEPT !.n = @ + 1]

DeleteLocal(f, i) ==
    LET g == IF i <= f.n \div 2
             THEN Turned(Cleared(Put(f, 1, SubSeq(Held(f), 1, i)), 0, 1), 1)
             ELSE Cleared(Put(f, i, SubSeq(Held(f), i + 2, f.n)), f.n - 1, 1)
    IN [g EXCEPT !.n = @ - 1]
InsertedAt(a, index, d) ==
    LET fs == a.fragments
        k == Fragment(a, index)
        i == LocalIndex(a, index)
        place == IF fs[k].n < FSize THEN [fragments |-> fs, at |-> k, local |-> i]
                 ELSE IF i > fs[k].n \div 2 THEN ShiftNext(fs, k, i) ELSE ShiftPrev(fs, k, i)
    IN [place.fragments EXCEPT ![place.at] = InsertLocal(@, place.local, d)]

DeletedAt(a, index) ==
    LET k == Fragment(a, index)
        fs == [a.fragments EXCEPT ![k] = DeleteLocal(@, LocalIndex(a, index))]
    IN CASE Mergeable(fs, k) -> Merged(fs, k)
         [] ~Mergeable(fs, k) /\ Mergeable(fs, k - 1) -> Merged(fs, k - 1)
         [] OTHER -> fs
----------------------------------------------------------------------------
Init == array = [fragments |-> <<>>, n |-> 0]

Room == array.n < MaxSize

\* fs becomes the list of fragments, with the count changed by one.
Counted(fs, by) == array' = [fragments |-> fs, n |-> array.n + by]

PushBack(d) ==
    LET fs == array.fragments
        last == Len(fs)
    IN /\ Room
       /\ IF last > 0 /\ fs[last].n < FSize
          THEN Counted([fs EXCEPT ![last] = [Put(@, @.n, <<d>>) EXCEPT !.n = @ + 1]], 1)
          ELSE Counted(Append(fs, [Put(NewFragment, 0, <<d>>) EXCEPT !.n = 1]), 1)

PushFront(d) ==
    LET fs == array.fragments
    IN /\ Room
       /\ IF fs # <<>> /\ fs[1].n < FSize
          THEN Counted([fs EXCEPT ![1] = [Put(Turned(@, -1), 0, <<d>>) EXCEPT !.n = @ + 1]], 1)
          ELSE Counted(<<[Put(NewFragment, 0, <<d>>) EXCEPT !.n = 1]>> \o fs, 1)

\* Taking one from a fragment that the deletion of its last element has left
\* behind reads outside of the ring, or counts the array below zero: callers are
\* assumed not to.
PopBack ==
    LET fs == array.fragments
        last == Len(fs)
        f == [Cleared(fs[last], fs[last].n - 1, 1) EXCEPT !.n = @ - 1]
    IN /\ fs # <<>> /\ fs[last].n > 0
       /\ Counted(IF f.n <= 0 THEN Front(fs) ELSE [fs EXCEPT ![last] = f], -1)

PopFront ==
    LET fs == array.fragments
        f == [Turned(Cleared(fs[1], 0, 1), 1) EXCEPT !.n = @ - 1]
    IN /\ fs # <<>> /\ fs[1].n > 0
       /\ Counted(IF f.n <= 0 THEN Tail(fs) ELSE [fs EXCEPT ![1] = f], -1)

Insert(index, d) ==
    /\ Room /\ Fragment(array, index) # 0
    /\ Counted(InsertedAt(array, index, d), 1)

Delete(index) ==
    /\ Fragment(array, index) # 0
    /\ Counted(DeletedAt(array, index), -1)

Indices == 0..MaxSize

Next ==
    \/ PopBack \/ PopFront
    \/ \E index \in Indices : Delete(index)
    \/ \E d \in Data : PushBack(d) \/ PushFront(d) \/ \E index \in Indices : Insert(index, d)

Spec == Init /\ [][Next]_array
----------------------------------------------------------------------------
(* Searching a datum from the fragment of an index outwards. *)

Local(f, d) == IF \E i \in 1..f.n : Held(f)[i] = d
               THEN (CHOOSE i \in 1..f.n : Held(f)[i] = d /\ \A j \in 1..(i - 1) : Held(f)[j] # d) - 1
               ELSE -1

\* Next fragments come before previous ones at the same distance; in those the
\* local index 0 counts as not found.
RECURSIVE Outwards(_, _, _, _)
Outwards(fs, next, prev, d) ==
    CASE next <= Len(fs) /\ Local(fs[next], d) >= 0 -> Before(fs, next) + Local(fs[next], d)
      [] prev >= 1 /\ ~(next <= Len(fs) /\ Local(fs[next], d) >= 0) /\ Local(fs[prev], d) > 0
            -> Before(fs, prev) + Local(fs[prev], d)
      [] next > Len(fs) /\ prev < 1 -> -1
      [] OTHER -> Outwards(fs, next + 1, prev - 1, d)

\* Mutant: the fragment of the index itself is passed over.
SearchBeyond(a, around, d) ==
    LET k == Fragment(a, around)
    IN IF k = 0 THEN Outwards(a.fragments, 1, 0, d) ELSE Outwards(a.fragments, k + 1, k - 1, d)

SearchAround(a, around, d) ==
    LET k == Fragment(a, around)
    IN IF k = 0 THEN Outwards(a.fragments, 1, 0, d) ELSE Outwards(a.fragments, k, k - 1, d)

\* yarray_traverse
ItemsOf(fs) == FlattenSeq([k \in DOMAIN fs |-> Held(fs[k])])
Items == ItemsOf(array.fragments)

Promised == INSTANCE SequenceStore WITH items <- Items

\* Whatever splits, merges and turns of the rings they take, insertions and
\* deletions at any index do to the elements what they do to one sequence
\* (yarray_insert, yarray_delete, yfragment_shift_*, yfragment_merge_*).
ImplementsSequence ==
    /\ Promised!Spec
    /\ [] \A i \in 0..(Len(Items) - 1) :
            /\ ItemsOf(DeletedAt(array, i)) = RemoveAt(Items, i + 1)
            /\ \A d \in Data : ItemsOf(InsertedAt(array, i, d)) = InsertAt(Items, i + 1, d)

\* An index names the same element when it is counted from the front and from
\* the back, whichever is nearer; the fragments hold as many elements as the
\* array counts, none is overfull, and only a lonely one is empty
\* (yfragment_get, yarray_data).
IndicesAgree ==
    /\ array.n = Len(Items)
    /\ \A i \in Indices : DataAt(array, i) = IF i < Len(Items) THEN Items[i + 1] ELSE Null
    /\ \A k \in DOMAIN array.fragments :
         /\ array.fragments[k].n <= FSize
         /\ array.fragments[k].n = 0 => Len(array.fragments) = 1

\* A search around an index finds the datum at the index it gives, and misses
\* one only where it also stands first in its fragment, before that index
\* (yarray_search_around).
SearchFinds ==
    \A d \in Data, around \in Indices :
        LET found == SearchAround(array, around, d)
            fs == array.fragments
        IN IF found >= 0 THEN Items[found + 1] = d
           ELSE \A k \in DOMAIN fs : Contains(Held(fs[k]), d) =>
                    Held(fs[k])[1] = d /\ k < Fragment(array, around)
============================================================================
