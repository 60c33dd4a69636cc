------------------------------- MODULE Ynode -------------------------------
(***************************************************************************)
(* The tree of a data block (src/ydb/ynode.c): what a merge or a deletion  *)
(* does to it, what it writes to the log that is published, and which      *)
(* hooks it calls.                                                         *)
(*                                                                         *)
(* A node is a record of its type, tag, value, hook and origin (0 for the  *)
(* data of this process, another number for a peer's), with the sequence   *)
(* of its children: in the order of the keys in a map or set, in the order *)
(* of insertion in an omap or list.  Keys are naturals, and the values of  *)
(* other nodes than values are Empty.                                      *)
(***************************************************************************)
EXTENDS Naturals, SequencesExt

CONSTANT Null

Empty == ""
Delete == "!ydb!delete"

MapTypes == {"map", "set", "omap"}

Node(type, tag, val, kids) ==
    [type |-> type, tag |-> tag, val |-> val, hook |-> Null, origin |-> 0, kids |-> kids]

Child(n, k) ==
    IF n = Null \/ ~\E i \in DOMAIN n.kids : n.kids[i].key = k THEN Null
    ELSE n.kids[CHOOSE i \in DOMAIN n.kids : n.kids[i].key = k].node

Without(kids, k) == SelectSeq(kids, LAMBDA c : c.key # k)

\* A faulty ynode_attach that puts the entries of a list in front.
AttachInFront(p, k, n) ==
    LET kid == [key |-> k, node |-> n]
        rest == Without(p.kids, k)
    IN [p EXCEPT !.kids =
          CASE p.type = "list" -> [i \in DOMAIN (<<kid>> \o @) |->
                                      [(<<kid>> \o @)[i] EXCEPT !.key = i - 1]]
            [] p.type = "omap" -> Append(rest, kid)
            [] OTHER -> SelectSeq(rest, LAMBDA c : c.key < k) \o <<kid>>
                        \o SelectSeq(rest, LAMBDA c : c.key > k)]

\* ynode_attach: a map keeps the place of a key, an omap moves it to its end.
Attach(p, k, n) ==
    LET kid == [key |-> k, node |-> n]
        rest == Without(p.kids, k)
    IN [p EXCEPT !.kids =
          CASE p.type = "list" -> Append(@, [kid EXCEPT !.key = Len(p.kids)])
            [] p.type = "omap" -> Append(rest, kid)
            [] OTHER -> SelectSeq(rest, LAMBDA c : c.key < k) \o <<kid>>
                        \o SelectSeq(rest, LAMBDA c : c.key > k)]

\* A faulty ynode_detach after which the entries of a list keep their numbers.
DetachOnly(p, k) == [p EXCEPT !.kids = Without(@, k)]

\* ynode_detach; the entries of a list are named by their index.
Detach(p, k) ==
    [p EXCEPT !.kids =
        IF p.type = "list"
        THEN [i \in DOMAIN Without(@, k) |-> [Without(@, k)[i] EXCEPT !.key = i - 1]]
        ELSE Without(@, k)]

\* A faulty ynode_op_get that replaces a value by the same one.
OpRepeats(cur, src) ==
    CASE cur = Null -> "create"
      [] cur # Null /\ (src = Null \/ src.tag = Delete) -> "delete"
      [] OTHER -> IF {cur.type, src.type} \in SUBSET MapTypes \union {{"list"}}
                  THEN "none" ELSE "replace"

\* ynode_op_get: the nodes of maps of any kind are not replaced by each other.
Op(cur, src) ==
    CASE cur = Null -> "create"
      [] src = Null -> "delete"
      [] OTHER ->
           CASE src.tag = Delete -> "delete"
             [] src.tag # Delete /\ cur.type = src.type ->
                    IF cur.type = "val" /\ cur.val # src.val THEN "replace" ELSE "none"
             [] OTHER ->
                    IF {cur.type, src.type} \subseteq MapTypes THEN "none" ELSE "replace"
----------------------------------------------------------------------------
(* A run of ynode_control keeps in st what it leaves behind:                *)
(*   lines  the text of the log                                            *)
(*   chain  the nodes whose lines were printed last, outermost first       *)
(*          (log->printed_nodes), by their paths                           *)
(*   calls  the calls of hooks, in order                                   *)
(*   pool   the suppressed hooks that wait for the end of their node       *)
(*   reuse  whether malloc gives out the memory that was freed last        *)
(*   lost   whether a hook waits in the pool whose node has been freed     *)
(* The way from the top down to a node is a sequence of entries.           *)

Start(reuse) == [lines |-> <<>>, chain |-> <<>>, calls |-> <<>>, pool |-> {},
                 reuse |-> reuse, lost |-> FALSE]

Entry(n, k, in) ==
    [key |-> k, in |-> in, type |-> n.type, tag |-> n.tag, val |-> n.val, hook |-> n.hook]

Path(way) == [i \in 1..(Len(way) - 1) |-> way[i + 1].key]

\* The memory of a node in the chain: freed, and given to the next node, or not.
Freed == <<-1>>
Gone == <<-2>>
Free(st, path) ==
    [st EXCEPT !.chain = [i \in DOMAIN @ |-> IF @[i] = path THEN Freed ELSE @[i]],
               !.lost = @ \/ \E at \in st.pool : IsPrefix(path, at)]
Allocate(st, path) ==
    [st EXCEPT !.chain = [i \in DOMAIN @ |->
        IF @[i] # Freed THEN @[i] ELSE IF st.reuse THEN path ELSE Gone]]

\* What is printed of one node: a container says its type only if it is no plain
\* map or list.
Line(e, indent, gone) ==
    [indent |-> indent, key |-> e.key, in |-> e.in,
     tag |-> CASE gone -> Delete
               [] ~gone /\ e.tag = Empty /\ e.type \in {"omap", "set"} -> e.type
               [] OTHER -> e.tag,
     val |-> IF gone THEN Empty ELSE e.val]

\* A faulty ynode_log_print that goes by the depth of the last lines alone.
LogPrintByDepth(st, way, gone) ==
    LET size == Len(way) - 1
        shown == IF Len(st.chain) < size THEN Len(st.chain) ELSE Max({0, size - 1})
    IN [st EXCEPT
          !.lines = @ \o [j \in 1..(size - shown) |->
                Line(way[shown + j + 1], shown + j - 1, gone /\ shown + j = size)],
          !.chain = [i \in 1..size |-> Path(SubSeq(way, 1, i + 1))]]

\* ynode_log_print: the part of the way that the last lines do not show yet.
LogPrint(st, way, gone) ==
    LET top(i) == Path(SubSeq(way, 1, i + 1))
        size == Len(way) - 1
        shown == Max({0} \union {i \in 1..size : i <= Len(st.chain) /\ st.chain[i] = top(i)})
        from == IF shown < size THEN shown + 1 ELSE 1
    IN [st EXCEPT
          !.lines = @ \o [j \in 1..(size + 1 - from) |->
                LET i == from + j - 1
                IN Line(way[i + 1], shown + j - 1, gone /\ i = size)],
          !.chain = [i \in 1..size |-> top(i)]]
----------------------------------------------------------------------------
(* Hooks. *)

\* A faulty search that begins at the parent.
HearerAbove(way) == Max({0} \union {i \in DOMAIN Front(way) : way[i].hook # Null})

\* The hook that hears of a change at the end of the way: its own or the nearest
\* one above; 0 for none.
Hearer(way) == Max({0} \union {i \in DOMAIN way : way[i].hook # Null})

Call(st, op, at, path) == [st EXCEPT !.calls = Append(@, [op |-> op, at |-> at, path |-> path])]

\* A suppressed hook waits in the pool; one for values only hears of values.
Report(st, op, way, value) ==
    LET i == Hearer(way)
        at == Path(SubSeq(way, 1, i))
    IN IF i = 0 THEN st
       ELSE IF way[i].hook = "suppressed" THEN [st EXCEPT !.pool = @ \union {at}]
       ELSE IF way[i].hook = "values" /\ ~value THEN st
       ELSE Call(st, op, at, Path(way))

\* yhook_pre_run_for_delete, leaves first.  The traversal of an empty list returns
\* -1, which stops the traversals it is part of.
RECURSIVE ReportDeleted(_, _, _)
ReportDeleted(st, n, way) ==
    LET step(acc, c) ==
            IF acc.stop THEN acc
            ELSE ReportDeleted(acc.st, c.node, Append(way, Entry(c.node, c.key, n.type)))
        below == FoldLeft(step, [st |-> st, stop |-> n.type \in {"list", "omap"}
                                                     /\ n.kids = <<>>], n.kids)
    IN [below EXCEPT !.st = Report(@, "delete", way, n.type = "val")]

\* yhook_post_run: the hook of the node itself, or all that wait at the end.
Release(st, op, path, last) ==
    LET ready == IF last THEN st.pool ELSE IF op = "delete" THEN {} ELSE st.pool \intersect {path}
        called == FoldLeft(LAMBDA s, at : Call(s, op, at, at), st, SetToSeq(ready))
    IN [called EXCEPT !.pool = @ \ ready]
----------------------------------------------------------------------------
\* The node that takes the place of the current one, still without its children.
NewNode(cur, op, src) ==
    IF op = "none"
    THEN IF src.type = "val" /\ cur.origin # 0 THEN [cur EXCEPT !.origin = src.origin] ELSE cur
    ELSE [src EXCEPT !.kids = <<>>, !.hook = IF cur = Null THEN Null ELSE cur.hook]

\* What is told of the node at the end of the way before its children are seen to.
Announce(st, cur, op, way, value) ==
    CASE op = "delete" -> LogPrint(ReportDeleted(st, cur, way).st, way, TRUE)
      [] op \in {"create", "replace"} ->
             LogPrint(Report(Allocate(st, Path(way)), op, way, value), way, FALSE)
      [] OTHER -> st

\* The node goes to its place in the parent, or is freed.
Place(st, parent, key, op, node, path) ==
    CASE op = "delete" -> [st |-> Free(st, path), node |-> Detach(parent, key)]
      [] op = "none" -> [st |-> st,
                         node |-> [parent EXCEPT !.kids = [i \in DOMAIN @ |->
                             IF @[i].key = key THEN [@[i] EXCEPT !.node = node] ELSE @[i]]]]
      [] OTHER -> [st |-> st, node |-> Attach(parent, key, node)]

RECURSIVE Control(_, _, _, _, _, _)

\* The node at the end of the way takes the children of the source.
ControlBelow(st, op, node, src, way) ==
    IF op = "delete" THEN [st |-> st, node |-> Null]
    ELSE FoldLeft(LAMBDA acc, c : Control(acc.st, acc.node, c.key, c.node, way, FALSE),
                  [st |-> st, node |-> node], src.kids)

\* ynode_control on the node with key k below the end of the way: what becomes of
\* its parent.  The children of a list are always new ones.
Control(st, parent, k, src, way, last) ==
    LET key == IF parent.type = "list" /\ src # Null THEN Len(parent.kids) ELSE k
        cur == Child(parent, key)
        op == Op(cur, src)
        node == NewNode(cur, op, src)
        here == Append(way, Entry(IF op = "delete" THEN cur ELSE node, key, parent.type))
        value == node.type = "val" \/ (cur # Null /\ cur.type = "val")
        after == ControlBelow(Announce(st, cur, op, here, value), op, node, src, here)
        done == Release(after.st, IF op = "delete" THEN op ELSE "merge", Path(here), last)
    IN Place(done, parent, key, op, after.node, Path(here))

\* The top is a child of the node of the data block's name.
Above(top) == [Node("map", Empty, Empty, <<>>) EXCEPT !.kids = <<[key |-> 0, node |-> top]>>]
Result(r) == [st |-> r.st, top |-> Child(r.node, 0)]

\* ynode_merge, ydb_write.
Merge(top, src, reuse) == Result(Control(Start(reuse), Above(top), 0, src, <<>>, TRUE))
----------------------------------------------------------------------------
(* Deletion by a source (ydb_delete): each of its leaves deletes the node  *)
(* it finds at its path, where the entries of a list stand for the first.  *)

RECURSIVE Leaves(_, _)
Leaves(n, path) ==
    IF n.kids = <<>> THEN <<path>>
    ELSE FlattenSeq([i \in DOMAIN n.kids |->
            Leaves(n.kids[i].node,
                   Append(path, IF n.type = "list" THEN 0 ELSE n.kids[i].key))])

\* ynode_lookup.
RECURSIVE At(_, _)
At(n, path) == IF n = Null \/ path = <<>> THEN n ELSE At(Child(n, Head(path)), Tail(path))

RECURSIVE PutAt(_, _, _)
PutAt(n, path, new) ==
    IF path = <<>> THEN new
    ELSE [n EXCEPT !.kids = [i \in DOMAIN @ |->
            IF @[i].key = Head(path) THEN [@[i] EXCEPT !.node = PutAt(@, Tail(path), new)]
            ELSE @[i]]]

\* The way from the top to the node at the path.
Way(top, path) ==
    [i \in 1..(Len(path) + 1) |->
        LET at(j) == At(top, SubSeq(path, 1, j))
        IN IF i = 1 THEN Entry(top, 0, "map") ELSE Entry(at(i - 1), path[i - 1], at(i - 2).type)]

\* ynode_delete.
DeleteAt(r, path) ==
    LET parent == Front(path)
        done == Control(r.st, At(r.top, parent), Last(path), Null, Way(r.top, parent), TRUE)
    IN [st |-> done.st, top |-> PutAt(r.top, parent, done.node)]

\* A faulty ydb_delete that spares nodes with children.
EraseBare(top, src) ==
    FoldLeft(LAMBDA r, path : IF At(r.top, path) = Null \/ At(r.top, path).kids # <<>> THEN r
                              ELSE DeleteAt(r, path),
             [st |-> Start(FALSE), top |-> top],
             SelectSeq(Leaves(src, <<>>), LAMBDA path : path # <<>>))

\* ydb_delete, yconn_delete.  The top itself is not deleted.
Erase(top, src) ==
    FoldLeft(LAMBDA r, path : IF At(r.top, path) = Null THEN r ELSE DeleteAt(r, path),
             [st |-> Start(FALSE), top |-> top],
             SelectSeq(Leaves(src, <<>>), LAMBDA path : path # <<>>))
============================================================================
