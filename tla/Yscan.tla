------------------------------- MODULE Yscan -------------------------------
(***************************************************************************)
(* The way back from text to a tree: the tokens that libyaml finds in the  *)
(* lines of a log or a dump, and ynode_scan, which builds a tree of them   *)
(* token by token.  Only block style is modelled, which is all that        *)
(* ynode.c prints.                                                         *)
(***************************************************************************)
EXTENDS Ynode

\* _ynode_record_dump_childen: an empty list or omap ends the dump with it.
RECURSIVE DumpBelow(_, _, _)
DumpBelow(acc, n, indent) ==
    LET step(a, c) ==
            LET line == Line(Entry(c.node, c.key, n.type), indent, FALSE)
            IN IF a.stop THEN a
               ELSE DumpBelow([a EXCEPT !.lines = Append(@, line)], c.node, indent + 1)
        below == FoldLeft(step, acc, n.kids)
    IN [below EXCEPT !.stop = @ \/ (n.type \in {"list", "omap"} /\ n.kids = <<>>)]

\* ydb_dumps: everything below the top.
Dump(top) == DumpBelow([lines |-> <<>>, stop |-> FALSE], top, 0).lines
----------------------------------------------------------------------------
(* libyaml.  The open blocks are known by their columns: a block that is   *)
(* indented deeper than the next line ends there, and a line that is       *)
(* indented deeper than the last open block begins one.                    *)

Mark(t) == <<[t |-> t]>>
Say(t, v) == IF v = Empty THEN <<>> ELSE <<[t |-> t, v |-> v]>>
Scalar(k) == <<[t |-> "SCALAR", v |-> k]>>

\* What a line says at its column once deeper blocks are closed.
LineTokens(line) ==
    CASE line.in = "set" -> Mark("KEY") \o Say("TAG", line.tag) \o Scalar(line.key)
      [] line.in = "list" -> Mark("BE") \o Say("TAG", line.tag) \o Say("SCALAR", line.val)
      [] line.in = "omap" -> Mark("BE") \o Mark("BMS") \o Mark("KEY") \o Scalar(line.key)
                             \o Mark("VALUE") \o Say("TAG", line.tag) \o Say("SCALAR", line.val)
      [] OTHER -> Mark("KEY") \o Scalar(line.key) \o Mark("VALUE")
                  \o Say("TAG", line.tag) \o Say("SCALAR", line.val)

NextLine(s, line) ==
    LET open == SelectSeq(s.open, LAMBDA c : c <= line.indent)
        start == IF line.in \in {"list", "omap"} THEN "BSS" ELSE "BMS"
        new == open = <<>> \/ Last(open) < line.indent
        \* the block of an entry of an omap begins behind its dash
        entry == IF line.in = "omap" THEN <<line.indent + 2>> ELSE <<>>
    IN [open |-> (IF new THEN Append(open, line.indent) ELSE open) \o entry,
        tokens |-> Append(s.tokens,
                     [i \in 1..(Len(s.open) - Len(open)) |-> [t |-> "BEND"]]
                     \o (IF new THEN Mark(start) ELSE <<>>) \o LineTokens(line))]

\* The tokens of a text, those of each line by themselves.
Tokens(lines) ==
    LET s == FoldLeft(NextLine, [open |-> <<>>, tokens |-> <<>>], lines)
    IN Append(s.tokens, [i \in DOMAIN s.open |-> [t |-> "BEND"]])
----------------------------------------------------------------------------
(* ynode_scan.  The nodes under construction are a stack from the root to  *)
(* top, each with its key in the one below it.  The text "" is key 0.      *)

NoKey == 0

Scanner ==
    [nodes |-> <<>>, key |-> NoKey, tag |-> Empty, next |-> FALSE, stored |-> "NO",
     ignore |-> FALSE]

\* ynode_tag_ctrl: some tags are types.
Typed(type, tag) == IF tag \in {"omap", "set"} THEN [type |-> tag, tag |-> Empty]
                    ELSE [type |-> type, tag |-> tag]

Top(s) == Last(s.nodes).node
Taken(s) == [s EXCEPT !.key = NoKey, !.tag = Empty]

\* ynode_new_and_attach of a value.
AddValue(s, key, val) ==
    LET is == Typed("val", s.tag)
        new == Node(is.type, is.tag, IF is.type = "val" THEN val ELSE Empty, <<>>)
    IN Taken([s EXCEPT !.nodes[Len(s.nodes)].node = Attach(@, key, new)])

\* ynode_new_and_attach of a container, which becomes top; one that is there
\* already is gone on with.
OpenNode(s, type) ==
    LET is == Typed(type, s.tag)
        old == IF s.nodes = <<>> \/ s.key = NoKey THEN Null ELSE Child(Top(s), s.key)
        goOn == /\ old # Null
                /\ old.type = is.type
                /\ old.tag = is.tag \/ Empty \in {old.tag, is.tag}
        new == IF goOn THEN old ELSE Node(is.type, is.tag, Empty, <<>>)
    IN Taken([s EXCEPT !.nodes = Append(@, [key |-> s.key, node |-> new])])

\* top = top->parent.
Up(s) ==
    LET size == Len(s.nodes)
        done == s.nodes[size]
    IN IF size = 1 THEN s
       ELSE [s EXCEPT !.nodes = [Front(s.nodes) EXCEPT ![size - 1].node =
                                    Attach(@, done.key, done.node)]]

Stored(s, token) == [s EXCEPT !.stored = token.t]

\* A key without a value before it.
ScanKey(s) == IF s.key = NoKey THEN s ELSE AddValue(s, s.key, Empty)

\* The map of an entry of an omap is no node of its own, and neither is its end.
ScanStart(s, t) ==
    IF s.nodes # <<>> /\ Top(s).type = "omap" /\ s.stored = "BE" /\ t = "BMS"
    THEN [s EXCEPT !.ignore = TRUE]
    ELSE OpenNode(s, IF t = "BMS" THEN "map" ELSE "list")

ScanEntry(s) == [(IF s.next THEN AddValue(s, s.key, Empty) ELSE s) EXCEPT !.next = TRUE]

\* scalar_next is left as it is.
ScanEnd(s) ==
    IF s.ignore THEN [s EXCEPT !.ignore = FALSE]
    ELSE Up(IF s.key # NoKey \/ s.next THEN AddValue(s, s.key, Empty) ELSE s)

ScanScalar(s, v) ==
    LET t == [s EXCEPT !.next = FALSE]
    IN CASE s.stored = "KEY" -> [t EXCEPT !.key = v]
         [] s.stored \in {"VALUE", "BE"} -> AddValue(t, s.key, v)
         [] OTHER -> t

Scan1(s, token) ==
    CASE token.t = "KEY" -> Stored(ScanKey(s), token)
      [] token.t \in {"BMS", "BSS"} -> Stored(ScanStart(s, token.t), token)
      [] token.t = "BE" -> Stored(ScanEntry(s), token)
      [] token.t = "BEND" -> Stored(ScanEnd(s), token)
      [] token.t = "SCALAR" -> ScanScalar(s, token.v)
      [] token.t = "TAG" -> [s EXCEPT !.tag = token.v]
      [] OTHER -> Stored(s, token)

\* Null for a text without lines.
Scan(lines) ==
    LET scan(s, tokens) == FoldLeft(Scan1, s, tokens)
    IN IF lines = <<>> THEN Null ELSE Top(FoldLeft(scan, Scanner, Tokens(lines)))

\* Every node that is scanned has the origin that ynode_scan is called with.
RECURSIVE From(_, _)
From(n, origin) ==
    [n EXCEPT !.origin = origin,
              !.kids = [i \in DOMAIN @ |-> [@[i] EXCEPT !.node = From(@, origin)]]]

\* yconn_merge: what the receiver of the text of a log or dump makes of it.
Merged(t, lines, origin, reuse) ==
    LET src == Scan(lines)
    IN IF src = Null THEN t ELSE Merge(t, From(src, origin), reuse).top

\* yconn_delete at the receiver.
Erased(t, lines) == LET src == Scan(lines) IN IF src = Null THEN t ELSE Erase(t, src).top
----------------------------------------------------------------------------
\* An empty map or list prints as nothing and is read as an empty value.
RECURSIVE Seen(_)
Seen(n) ==
    LET kids == [i \in DOMAIN n.kids |-> [n.kids[i] EXCEPT !.node = Seen(@)]]
    IN IF n.type \in {"map", "list"} /\ n.kids = <<>> THEN Node("val", n.tag, Empty, <<>>)
       ELSE Node(n.type, n.tag, n.val, kids)

\* Below a list.
InList(t, p) == \E i \in 0..(Len(p) - 1) : LET n == At(t, SubSeq(p, 1, i))
                                           IN n # Null /\ n.type = "list"
=============================================================================
