------------------------------ MODULE MCSources ------------------------------
(***************************************************************************)
(* What the benches of MCYdbTree write, delete, ask for and read: a value   *)
(* or a map at key 1, with a set at key 7 in it, and an omap at 3 with a    *)
(* list at key 5.                                                          *)
(***************************************************************************)
EXTENDS Ynode, TLC

Kid(k, n) == [key |-> k, node |-> n]
Val(v) == Node("val", Empty, v, <<>>)
Gone1 == Node("val", Delete, Empty, <<>>)
Kids(type, kids) == Node(type, Empty, Empty, kids)
Entries(nodes) == Kids("list", [i \in DOMAIN nodes |-> Kid(i - 1, nodes[i])])
Map1(k, n) == Kids("map", <<Kid(k, n)>>)
Map2(k, n, l, o) == Kids("map", <<Kid(k, n), Kid(l, o)>>)

TreeSources == {
    Map1(1, Val("x")),
    Map1(1, Map2(5, Val("y"), 6, Map1(5, Val("x")))),
    Map2(1, Map2(5, Gone1, 6, Val("x")), 3, Gone1),
    Map1(1, Map2(6, Gone1, 7, Kids("set", <<Kid(5, Val(Empty)), Kid(6, Val(Empty))>>))),
    Map2(1, Gone1, 3, Kids("omap", <<Kid(6, Val("x")), Kid(5, Entries(<<Val("y")>>))>>)),
    Map1(3, Kids("omap", <<Kid(5, Entries(<<Map1(5, Val("y"))>>)), Kid(4, Val("x"))>>)),
    Map1(3, Map2(4, Gone1, 6, Val("y")))}

TreeErasures == {
    Map1(1, Map1(5, Val(Empty))),
    Map1(1, Map1(7, Kids("set", <<Kid(5, Val(Empty))>>))),
    Map2(1, Val(Empty), 3, Kids("omap", <<Kid(5, Entries(<<Val(Empty), Val(Empty)>>))>>)),
    Map1(3, Kids("omap", <<Kid(4, Val(Empty)), Kid(5, Entries(<<Val(Empty)>>))>>))}

TreeHooks == (<<>> :> {"values", "suppressed"}) @@ (<<1, 6>> :> {"all"})
NoHooks == <<>>

\* A node is deleted, and another one created after it in the same write.
ReuseSources == {Map1(1, Val("x")), Map2(1, Gone1, 2, Val("y"))}
----------------------------------------------------------------------------
\* Each end has values of its own, in maps that both have and in others, and the
\* client may take over a value of the server.
AnswerSources ==
    [server |-> {Map2(1, Map1(5, Val("x")), 2, Val("x")), Map1(1, Map1(5, Val("y"))), Map1(1, Gone1)},
     client |-> {Map2(1, Map1(6, Val("x")), 3, Val("y")), Map1(2, Val("z")),
                 Map1(4, Kids("omap", <<Kid(6, Val("x")), Kid(5, Map1(5, Val("y")))>>))}]

\* Paths of values, and everything.
ValueQueries ==
    {Map2(1, Map1(5, Val(Empty)), 2, Val(Empty)), Map2(1, Map1(6, Val(Empty)), 3, Val(Empty)),
     Map1(2, Val(Empty)), Map1(4, Map1(5, Map1(5, Val(Empty))))}
TopQuery == {Kids("map", <<>>)}
----------------------------------------------------------------------------
\* A list at 3 for path writes, and hooks whose texts begin with each other though
\* their paths need not: "/", "/1/5" and "/1/56".
Texts == (1 :> <<"1">>) @@ (5 :> <<"5">>) @@ (6 :> <<"5", "6">>)
             @@ (7 :> <<"7">>) @@ (8 :> <<"8">>)
ListSources == {Map1(3, Entries(<<Val("x")>>)), Map1(1, Val("y"))}
PathWrites ==
    {<<<<1>>, "x">>, <<<<1, 6>>, Null>>, <<<<3, 1>>, "y">>}
PathDeletions == {<<>>, <<1, 5>>, <<3, 0>>, <<3, 1>>}
RootedHooks == {<<>>, <<1, 5>>, <<1, 6>>}
LeafQueries ==
    {<<<<>>>>, <<<<1>>>>, <<<<1, 5, 7>>>>, <<<<1, 5, 8>>, <<1, 6, 7>>>>,
     <<<<1, 6, 7>>, <<1, 6, 8>>, <<7>>>>}

\* Hooks at "/1", "/1/5" and "/1/8", and a path between the two below.
NestedHooks == {<<1>>, <<1, 5>>, <<1, 8>>}
BetweenThem == {<<<<1, 7>>>>}
============================================================================
