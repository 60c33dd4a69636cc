----------------------------- MODULE YdbAnswers -----------------------------
(***************************************************************************)
(* A server and a client that ask each other for their data (ydb_sync,     *)
(* ydb_path_sync): what yconn_sync_local answers to a query, which is a    *)
(* source tree, and what the answer does to the tree of the one who asked. *)
(* The client is writable but does not subscribe: its changes are told to  *)
(* the server, those of the server only by answers.  Messages arrive at    *)
(* once and in order here; YdbIpc is about their way.                      *)
(***************************************************************************)
EXTENDS Yscan

CONSTANTS
    Sources,    \* of each end: what it calls ydb_write with
    Queries     \* what a sync asks for

VARIABLE tree   \* of each end: datablock->top

Ends == {"server", "client"}
Other(e) == CHOOSE f \in Ends : f # e

\* The descriptor of the connection, which is no different at both ends here.
Peer == 1

Init == tree = [e \in Ends |-> Node("map", Empty, Empty, <<>>)]
----------------------------------------------------------------------------
\* A faulty ynode_get_with_origin that also says what came from the peer.
RECURSIVE GetAnyOrigin(_, _, _)
GetAnyOrigin(acc, n, way) ==
    FoldLeft(LAMBDA a, c : GetAnyOrigin(a, c.node, Append(way, Entry(c.node, c.key, n.type))),
             [st |-> LogPrint(acc.st, way, FALSE),
              count |-> acc.count + (IF n.type = "val" THEN 1 ELSE 0)],
             n.kids)

\* ynode_get_with_origin: the values of this process, counted, and the containers,
\* counted or not.
RECURSIVE GetWithOrigin(_, _, _)
GetWithOrigin(acc, n, way) ==
    IF n.type = "val" /\ n.origin # 0 THEN acc
    ELSE FoldLeft(LAMBDA a, c : GetWithOrigin(a, c.node, Append(way, Entry(c.node, c.key, n.type))),
                  [st |-> LogPrint(acc.st, way, FALSE),
                   count |-> acc.count + (IF n.type = "val" THEN 1 ELSE 0)],
                  n.kids)

\* A faulty yconn_sync_local that ends with the first leaf.
AnswerToFirst(t, query) ==
    LET path == Head(Leaves(query, <<>>))
        r == GetWithOrigin([st |-> Start(FALSE), count |-> 0], At(t, path), Way(t, path))
    IN IF At(t, path) = Null \/ r.count = 0 THEN <<>> ELSE r.st.lines

\* yconn_sync_local: the log of what the leaves of the query name; without a value
\* it is not sent.
Answer(t, query) ==
    LET find(acc, path) ==
            IF At(t, path) = Null THEN acc ELSE GetWithOrigin(acc, At(t, path), Way(t, path))
        r == FoldLeft(find, [st |-> Start(FALSE), count |-> 0], Leaves(query, <<>>))
    IN IF r.count = 0 THEN <<>> ELSE r.st.lines

Answered(e, query) == Merged(tree[e], Answer(tree[Other(e)], query), Peer, FALSE)

\* ydb_write; the writes of the client are published to the server.
Write(e, src) ==
    LET r == Merge(tree[e], src, FALSE)
    IN tree' = [f \in Ends |->
                  CASE f = e -> r.top
                    [] f # e /\ e = "client" -> Merged(tree[f], r.st.lines, Peer, FALSE)
                    [] OTHER -> tree[f]]

\* ydb_sync, when it is answered.
Sync(e, query) == tree' = [tree EXCEPT ![e] = Answered(e, query)]

Next ==
    \E e \in Ends :
        \/ \E src \in Sources[e] : Write(e, src)
        \/ \E query \in Queries : Sync(e, query)

Spec == Init /\ [][Next]_tree
----------------------------------------------------------------------------
RECURSIVE Values(_)
Values(n) ==
    IF n.type = "val" THEN {<<>>}
    ELSE UNION {{<<c.key>> \o p : p \in Values(c.node)} : c \in ToSet(n.kids)}

\* The values that an end has written itself.
Own(t) == {p \in Values(t) : At(t, p).origin = 0}

Apart(p, q) == ~IsPrefix(p, q) /\ ~IsPrefix(q, p)

\* Whoever asks has from then on the values of the other that it has asked for
\* (yconn_sync_local, yconn_merge).
AnswersFresh ==
    \A e \in Ends : \A query \in Queries : \A p \in Own(tree[Other(e)]) :
        (\E l \in ToSet(Leaves(query, <<>>)) : IsPrefix(l, p)) =>
            LET got == At(Answered(e, query), p)
            IN got # Null /\ got.val = At(tree[Other(e)], p).val

\* Nobody loses by asking: the own values of the one who asks are still there if
\* the other has none of its own in their way (yconn_sync_local answers with its
\* own values only: "getting mine").
SyncKeepsOwn ==
    \A e \in Ends : \A query \in Queries : \A p \in Own(tree[e]) :
        (\A q \in Own(tree[Other(e)]) : Apart(p, q)) =>
            At(Answered(e, query), p) = At(tree[e], p)
============================================================================
