------------------------------ MODULE YdbTree ------------------------------
(***************************************************************************)
(* A data block and a copy of it in another process, kept the same by the  *)
(* text that ydb_write and ydb_delete publish and by the dump that a new   *)
(* subscriber asks for (src/ydb/ydb.c over src/ydb/ynode.c).  Messages     *)
(* arrive at once and in order here; YdbIpc is about their way.            *)
(***************************************************************************)
EXTENDS Yscan

CONSTANTS
    Sources,    \* what ydb_write is called with
    Erasures,   \* what ydb_delete is called with
    Hooks,      \* the hooks that are registered: paths with the kinds of hooks
                \* there, which are "all", "values" and "suppressed"
    MaxEntries, \* bound on the entries of a list
    Reuse       \* whether malloc gives out the memory that was freed last

VARIABLES
    top,        \* datablock->top of the writer
    replica     \* datablock->top of the subscriber

vars == <<top, replica>>

RECURSIVE Paths(_)
Paths(n) == {<<>>} \union UNION {{<<c.key>> \o p : p \in Paths(c.node)} : c \in ToSet(n.kids)}

Hooked(t) == {p \in Paths(t) : At(t, p).hook # Null}

Bounded(t) == \A p \in Paths(t) : At(t, p).type = "list" => Len(At(t, p).kids) <= MaxEntries

\* Every list and omap has entries: no traversal of the tree is cut off.
Dumpable(t) ==
    \A p \in Paths(t) : At(t, p).type \in {"list", "omap"} => At(t, p).kids # <<>>

\* The origin of what the writer sends: the descriptor of its connection.
Peer == 1

Fresh == Node("map", Empty, Empty, <<>>)

\* ydb_open at both ends.
Init ==
    /\ top = Fresh
    /\ replica = Fresh

\* ydb_write, and yconn_merge at the other end.  A hook that is called after its
\* node has been freed is left out.
Write(src) ==
    LET r == Merge(top, src, Reuse)
    IN /\ ~r.st.lost
       /\ Bounded(r.top)
       /\ top' = r.top
       /\ replica' = Merged(replica, r.st.lines, Peer, Reuse)

\* ydb_delete, and yconn_delete at the other end.
DeleteData(src) ==
    LET r == Erase(top, src)
    IN /\ top' = r.top
       /\ replica' = Erased(replica, r.st.lines)

\* A subscriber opens its data block and is sent the dump.
Join ==
    /\ Dumpable(top)
    /\ replica' = Merged(Fresh, Dump(top), Peer, Reuse)
    /\ UNCHANGED top

SetHook(path, hook) == PutAt(top, path, [At(top, path) EXCEPT !.hook = hook])

\* yhook_register.
Register(path, hook) ==
    /\ At(top, path) # Null
    /\ top' = SetHook(path, hook)
    /\ UNCHANGED replica

\* yhook_unregister.
Unregister(path) ==
    /\ At(top, path) # Null
    /\ top' = SetHook(path, Null)
    /\ UNCHANGED replica

Next ==
    \/ \E src \in Sources : Write(src)
    \/ \E src \in Erasures : DeleteData(src)
    \/ Join
    \/ \E path \in DOMAIN Hooks : \E hook \in Hooks[path] : Register(path, hook)
    \/ \E path \in DOMAIN Hooks : Unregister(path)

Spec == Init /\ [][Next]_vars
----------------------------------------------------------------------------
(* Reference definitions. *)

\* What reading tells of a node, its children aside.
Shape(t, p) ==
    LET n == At(t, p) IN IF n = Null THEN Null ELSE [type |-> n.type, tag |-> n.tag, val |-> n.val]

\* The path is at or below a node of t for which P holds.
Below(t, p, P(_)) == \E i \in 0..Len(p) : LET q == SubSeq(p, 1, i) IN At(t, q) # Null /\ P(q)

Joined(a, b) == a.type = b.type \/ {a.type, b.type} \subseteq MapTypes
----------------------------------------------------------------------------
(* Properties. *)

\* Both trees are trees of ynode.c: a value has no children, the keys of a map or
\* set are in order, those of an omap are different, and a list counts its own.
TypeOK ==
    \A t \in {top, replica} : \A p \in Paths(t) :
        LET n == At(t, p)
            key(i) == n.kids[i].key
        IN CASE n.type = "val" -> n.kids = <<>>
             [] n.type = "list" -> \A i \in DOMAIN n.kids : key(i) = i - 1
             [] OTHER -> /\ n.val = Empty
                         /\ \A i, j \in DOMAIN n.kids :
                               i < j => key(i) # key(j) /\ (n.type # "omap" => key(i) < key(j))

\* The subscriber sees what the writer sees, whenever it has joined and whatever
\* has been written, deleted or replaced since: the log of every change, printed
\* node by node while the tree changes under it, is read back as that change
\* (ynode_log_print, ynode_scan).
Replicated == Seen(replica) = Seen(top)

\* A write lays the source over the tree: what is there and tagged for deletion is
\* gone with all below it, what the source names has its values, what it replaces by
\* another type has lost the old children, and everything else is untouched; entries
\* of lists are added behind those that are there (ynode_control).  Nothing is claimed
\* of a tagged node that is not there: it is to be deleted, and ynode_op_get has it
\* created, with its tag.
MergeOverlays ==
    \A src \in Sources :
        LET new == Merge(top, src, Reuse).top
            gone(q) == At(src, q) # Null /\ At(src, q).tag = Delete
            replaced(q) == At(src, q) # Null /\ ~Joined(At(top, q), At(src, q))
            kept(q) == IF At(top, q) # Null /\ ~Below(top, q, replaced)
                       THEN At(top, q).kids ELSE <<>>
            bare(kids) == [i \in DOMAIN kids |-> Seen(kids[i].node)]
        IN \A p \in Paths(top) \union Paths(src) \union Paths(new) :
             ~(InList(top, p) \/ InList(src, p) \/ InList(new, p)) =>
               CASE Below(top, p, gone) -> At(new, p) = Null
                 [] ~Below(top, p, gone) /\ Below(src, p, gone) -> TRUE
                 [] ~Below(src, p, gone) /\ At(src, p) # Null ->
                      LET s == At(src, p) IN
                      /\ At(new, p) # Null
                      /\ Joined(At(new, p), s) /\ At(new, p).val = s.val
                      /\ s.type = "list" =>
                            bare(At(new, p).kids) = bare(kept(p)) \o bare(s.kids)
                 [] OTHER -> IF Below(top, p, replaced) THEN At(new, p) = Null
                             ELSE Shape(new, p) = Shape(top, p)

\* A write prints something exactly if it has changed something: what two processes
\* tell each other dies down, and no change is kept from the subscribers.
SilentIffUnchanged ==
    \A src \in Sources :
        LET r == Merge(top, src, Reuse) IN r.st.lines = <<>> <=> r.top = top

\* Whether the run r of a merge has called the hooks as it should.
Told(r) ==
    LET nearest(t, p, q) == /\ At(t, q) # Null /\ IsPrefix(p, q)
                            /\ \A h \in Hooked(t) : IsPrefix(h, q) => IsPrefix(h, p)
        value(q) == \E t \in {top, r.top} : At(t, q) # Null /\ At(t, q).type = "val"
        hears(p, q) ==
            /\ Shape(top, q) # Shape(r.top, q)
            /\ \E t \in {top, r.top} : nearest(t, p, q)
            /\ At(top, p).hook = "values" => value(q)
        calls(p) == Cardinality({i \in DOMAIN r.st.calls : r.st.calls[i].at = p})
        changed(p) == \E q \in Paths(top) \union Paths(r.top) : hears(p, q)
    IN Dumpable(top) /\ ~r.st.lost => \A p \in Hooked(top) \intersect Hooked(r.top) :
         /\ calls(p) > 0 <=> changed(p)
         /\ At(top, p).hook = "suppressed" => calls(p) <= 1

\* The hooks of nodes that outlive a write are called for exactly the changes
\* below them that no nearer hook hears of, a suppressed one once for all of
\* them (yhook_pre_run, yhook_pre_run_for_delete, yhook_post_run).  As for dumps, an
\* empty list or omap cuts off the report of a deletion.
HooksTold == \A src \in Sources : Told(Merge(top, src, Reuse))

\* A deletion takes away the nodes that the leaves of its source name, with all
\* below them, and nothing else; as many entries from the head of a list as the
\* source has (ydb_delete_sub, ynode_lookup, ynode_traverse).
ErasesLeaves ==
    \A src \in Erasures :
        LET new == Erase(top, src).top
            leaves == Leaves(src, <<>>)
            heads(p) == Cardinality({i \in DOMAIN leaves : leaves[i] = Append(p, 0)})
        IN \A p \in Paths(top) :
             ~InList(top, p) =>
               /\ At(new, p) = Null <=> \E l \in ToSet(leaves) : IsPrefix(l, p)
               /\ At(new, p) # Null => Shape(new, p) = Shape(top, p)
               /\ At(new, p) # Null /\ At(top, p).type = "list" =>
                    LET old == At(top, p).kids
                    IN [i \in DOMAIN At(new, p).kids |-> At(new, p).kids[i].node]
                       = [i \in 1..Max({0, Len(old) - heads(p)}) |-> old[i + heads(p)].node]
============================================================================
