------------------------------ MODULE YdbPaths ------------------------------
(***************************************************************************)
(* A data block that is written, deleted and read by paths (ydb_path_write, *)
(* ydb_path_delete, ydb_path_read), and the read hooks that bring it up to  *)
(* date before it is read (ydb_update).  What changes is published to a     *)
(* subscriber; messages arrive at once and in order here.                   *)
(*                                                                         *)
(* A path is a sequence of keys.  Hooks are found by the text of their     *)
(* paths in a radix tree (ytrie), so that the names of keys matter here.   *)
(***************************************************************************)
EXTENDS Yscan

CONSTANTS
    Named,      \* what ydb_write is called with
    Writes,     \* paths with the value that is written there, Null for none
    Deletions,  \* paths that are deleted
    HookPaths,  \* paths of read hooks; the one at h tells the value of h/Leaf
    Leaf,
    Queries,    \* what is read: the paths of the leaves of a source
    Name,       \* the names of the keys, as sequences of characters
    Values,
    MaxEntries  \* bound on the entries of a list

VARIABLES
    own,        \* datablock->top
    copy,       \* datablock->top of the subscriber
    updater,    \* datablock->updater: the paths of the read hooks
    world,      \* what each hook would tell now
    untold      \* history: lists with an entry that has not been published

vars == <<own, copy, updater, world, untold>>

Peer == 1
Fresh == Node("map", Empty, Empty, <<>>)

Init ==
    /\ own = Fresh /\ copy = Fresh
    /\ updater = {}
    /\ world = [h \in HookPaths |-> CHOOSE v \in Values : TRUE]
    /\ untold = {}
----------------------------------------------------------------------------
\* ynode_create_path: the source for a value at a path.  On its way it takes the
\* types of the nodes that are there, except that a value gives way to a map.
CreatePath(t, path, val) ==
    LET found(i) == At(t, SubSeq(path, 1, i))
        type(i) == IF i < Len(path) /\ found(i) # Null /\ found(i).type # "val"
                   THEN found(i).type ELSE "map"
        node(i) == IF i = Len(path) /\ val # Null THEN Node("val", Empty, val, <<>>)
                   ELSE Node(type(i), Empty, Empty, <<>>)
    IN FoldRight(LAMBDA i, below : Attach(node(i - 1), path[i], below),
                 [i \in DOMAIN path |-> i], node(Len(path)))

\* It is found again where it has been written (ynode_search), unless the entry of
\* a list has got another index.
Found(t, path) == At(t, path) # Null

\* What a subscriber makes of a log.
Publish(lines) == copy' = Merged(copy, lines, Peer, FALSE)

Bounded(t, path) ==
    \A i \in 0..(Len(path) - 1) :
        LET n == At(t, SubSeq(path, 1, i))
        IN n # Null /\ n.type = "list" => Len(n.kids) <= MaxEntries

\* The lists on the way of a path, and those of them that still have an entry.
Lists(t, paths) ==
    {p \in paths : At(t, p) # Null /\ At(t, p).type = "list" /\ At(t, p).kids # <<>>}
OnTheWay(path) == {SubSeq(path, 1, i) : i \in 0..(Len(path) - 1)}

\* ydb_write.
Write(src) ==
    LET r == Merge(own, src, FALSE)
    IN /\ r.top # own
       /\ Bounded(r.top, <<3, 0>>)
       /\ own' = r.top
       /\ Publish(r.st.lines)
       /\ untold' = Lists(own', untold)
       /\ UNCHANGED <<updater, world>>

\* ydb_path_write: what is not found afterwards is not published.
PathWrite(path, val) ==
    LET r == Merge(own, CreatePath(own, path, val), FALSE)
    IN /\ Bounded(r.top, path)
       /\ own' = r.top
       /\ IF Found(r.top, path) THEN Publish(r.st.lines) /\ untold' = Lists(own', untold)
          ELSE untold' = Lists(own', untold \cup OnTheWay(path)) /\ UNCHANGED copy
       /\ UNCHANGED <<updater, world>>

\* Only the first entry of a list may be deleted.
DeniedNever(t, path) == FALSE                 \* faulty
Denied(t, path) == path # <<>> /\ At(t, Front(path)).type = "list" /\ Last(path) > 0

\* The children of the top are deleted one after the other, always the first.
DeleteAll(t) ==
    FoldLeft(LAMBDA r, c : DeleteAt(r, <<Head(r.top.kids).key>>),
             [st |-> Start(FALSE), top |-> t], t.kids)

\* ydb_path_delete.
PathDelete(path) ==
    /\ Found(own, path) /\ ~Denied(own, path)
    /\ LET r == IF path = <<>> THEN DeleteAll(own)
                ELSE DeleteAt([st |-> Start(FALSE), top |-> own], path)
       IN /\ own' = r.top
          /\ copy' = Erased(copy, r.st.lines)
    /\ untold' = Lists(own', untold)
    /\ UNCHANGED <<updater, world>>
----------------------------------------------------------------------------
\* ynode_path: the text of a path.
Text(path) ==
    IF path = <<>> THEN <<"/">>
    ELSE FlattenSeq([i \in DOMAIN path |-> <<"/">> \o Name[path[i]]])

\* ytrie_search_range: the hooks whose texts begin with this one.
SearchRange(path) == {h \in updater : IsPrefix(Text(path), Text(h))}

\* How far into the text of a path the radix tree still branches.
Branch(path) ==
    LET text == Text(path)
        next(h, i) == IF i < Len(Text(h)) THEN Text(h)[i + 1] ELSE ""
        passes(h, i) == i <= Len(Text(h)) /\ SubSeq(Text(h), 1, i) = SubSeq(text, 1, i)
    IN Max({0} \cup {i \in 1..Len(text) : \E g, h \in updater :
                        passes(g, i) /\ passes(h, i) /\ next(g, i) # next(h, i)})

\* ytrie_best_match: the longest text that this one begins with, but none from
\* before the last branch.
NoHook == <<-1>>
BestMatch(path) ==
    LET matched == {h \in updater : IsPrefix(Text(h), Text(path)) /\ Len(Text(h)) >= Branch(path)}
    IN IF matched = {} THEN NoHook
       ELSE CHOOSE h \in matched : \A g \in matched : Len(Text(g)) <= Len(Text(h))

\* ydb_update_sub for one leaf, where run are the hooks called so far and last the
\* one that is put off while leaves below it follow (params->rhook).  Everything,
\* the path "/", has no length there and calls none.
UpdateSub(acc, path) ==
    LET best == BestMatch(path)
    IN IF path = <<>> THEN acc
       ELSE IF SearchRange(path) # {}
            THEN [acc EXCEPT !.run = @ \o SetToSeq(SearchRange(path))]
            ELSE IF best = acc.last THEN acc
                 ELSE [run |-> acc.run \o (IF acc.last = NoHook THEN <<>> ELSE <<acc.last>>),
                       last |-> best]

\* ydb_update: the hooks that are called for a query, in order.
CalledUntilLast(query) ==                     \* faulty: the last one is left out
    FoldLeft(UpdateSub, [run |-> <<>>, last |-> NoHook], query).run
Called(query) ==
    LET end == FoldLeft(UpdateSub, [run |-> <<>>, last |-> NoHook], query)
    IN end.run \o (IF end.last = NoHook THEN <<>> ELSE <<end.last>>)

\* ydb_update_rhook_exec: what a hook tells is merged and published.
Exec(acc, h) ==
    LET r == Merge(acc.own, CreatePath(Fresh, Append(h, Leaf), world[h]), FALSE)
    IN [own |-> r.top, copy |-> Merged(acc.copy, r.st.lines, Peer, FALSE)]

Updated(query) == FoldLeft(Exec, [own |-> own, copy |-> copy], Called(query))

\* ydb_path_read, ydb_read, or a SYNC of the query, before it is looked up.
Read(query) ==
    LET new == Updated(query)
    IN /\ new.own # own
       /\ own' = new.own
       /\ copy' = new.copy
       /\ untold' = Lists(own', untold)
       /\ UNCHANGED <<updater, world>>

\* ydb_read_hook_add.
HookAdd(h) ==
    /\ updater' = updater \cup {h}
    /\ UNCHANGED <<own, copy, world, untold>>

\* ydb_read_hook_delete: it goes to the top of the path and deletes the hook of "/",
\* whatever the path was.
HookDelete ==
    /\ updater' = updater \ {<<>>}
    /\ UNCHANGED <<own, copy, world, untold>>

\* What a hook would tell changes.
Change(h, v) ==
    /\ h \in updater
    /\ world' = [world EXCEPT ![h] = v]
    /\ UNCHANGED <<own, copy, updater, untold>>

Next ==
    \/ \E src \in Named : Write(src)
    \/ \E w \in Writes : PathWrite(w[1], w[2])
    \/ \E path \in Deletions : PathDelete(path)
    \/ \E query \in Queries : Read(query)
    \/ \E h \in HookPaths : HookAdd(h) \/ \E v \in Values : Change(h, v)
    \/ HookDelete

Spec == Init /\ [][Next]_vars
----------------------------------------------------------------------------
\* A tree with nothing in the lists of which something has not been published.
Published(t) ==
    FoldSet(LAMBDA p, s : PutAt(s, p, Node("list", Empty, Empty, <<>>)), t, untold)

\* The entries s are those of t without some.
IsSubsequence(s, t) ==
    \E I \in SUBSET DOMAIN t :
        s = [i \in 1..Cardinality(I) |-> t[CHOOSE j \in I : Cardinality({k \in I : k < j}) = i - 1]]
Items(list) == [i \in DOMAIN list.kids |-> Seen(list.kids[i].node)]

\* The subscriber sees what is written and deleted by paths and what read hooks
\* tell, and a value that a path write says it has written is the one that is read
\* there (ydb_path_write, ydb_path_delete, ydb_update_rhook_exec).  Of a list to which
\* a path write has pushed an entry under another index than its path says, which
\* is not published, the subscriber sees no more than there is, until it is empty.
PathsReplicated ==
    /\ Seen(Published(copy)) = Seen(Published(own))
    /\ \A p \in untold : IsSubsequence(Items(At(copy, p)), Items(At(own, p)))
    /\ \A w \in Writes :
         LET new == Merge(own, CreatePath(own, w[1], w[2]), FALSE).top
         IN ~InList(own, w[1]) => At(new, w[1]).val = (IF w[2] = Null THEN Empty ELSE w[2])

HasTold(t, h) == LET told == At(t, Append(h, Leaf)) IN told # Null /\ told.val = world[h]

\* The hook with the longest text that the path's begins with, where no hook is at or
\* below the path.
LongestMatch(path) ==
    LET matched == {h \in updater : IsPrefix(Text(h), Text(path))}
    IN IF SearchRange(path) # {} THEN {}
       ELSE {h \in matched : \A g \in matched : Len(Text(g)) <= Len(Text(h))}

\* What is read is what the hooks would tell, of every hook at or below a path that
\* is read and else of the longest match, whatever hooks have been called in between
\* (ydb_update); of the latter only where the radix tree does not branch behind it,
\* and of the path "/", which calls no hook, nothing is claimed.
ReadsAreFresh ==
    \A query \in Queries :
        LET new == Updated(query).own
        IN \A path \in ToSet(query) \ {<<>>} :
             /\ \A h \in updater : IsPrefix(path, h) => HasTold(new, h)
             /\ \A h \in LongestMatch(path) : Branch(path) <= Len(Text(h)) => HasTold(new, h)

\* The hook with the longest text that the path's begins with is called before the
\* path is read, whatever other hooks there are (art_best_match).
LongestMatchTells ==
    \A query \in Queries :
        \A path \in ToSet(query) \ {<<>>} : \A h \in LongestMatch(path) :
            HasTold(Updated(query).own, h)
============================================================================
