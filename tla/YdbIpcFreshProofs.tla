-------------------------- MODULE YdbIpcFreshProofs --------------------------
(***************************************************************************)
(* A ydb_sync that succeeds is fresh: SyncsAreFresh of YdbIpc, for any      *)
(* number of clients, keys, messages, timers and broken connections, as     *)
(* long as the instances keep to Usage and nothing has been deleted.        *)
(*                                                                         *)
(* The argument: the event of a call or of a relayed request ends by the    *)
(* last answer that it counts.  For each value that a call asks for, the    *)
(* event bears it until the caller has it: it still counts an answer that   *)
(* comes with the value, or it counts one that can no longer come, and then *)
(* it does not end by an answer at all.                                     *)
(***************************************************************************)
EXTENDS YdbIpcConvergeProofs, FiniteSetTheorems

(***************************************************************************)
(* The tables of events.                                                   *)
(***************************************************************************)
KidsOf(ev, p)   == {x \in DOMAIN ev : ev[x].pid = p}
IsParent(ev, p) == p \in DOMAIN ev /\ ev[p].pid = NoId

\* An event counts each of its children,
Tally(ev) ==
  /\ IsFiniteSet(DOMAIN ev) /\ NoId \notin DOMAIN ev
  /\ \A p \in DOMAIN ev : /\ ev[p] \in [pid : Int \X Nat, cevents : Nat]
                         /\ Cardinality(KidsOf(ev, p)) <= ev[p].cevents

\* and more than it has if the timer of one has run.
Lost(ev, p) == Cardinality(KidsOf(ev, p)) < ev[p].cevents

\* Event p does not end by an answer before one of the children in G is answered.
Bears(ev, p, G) == IsParent(ev, p) => Lost(ev, p) \/ KidsOf(ev, p) \cap G # {}

\* Parents are of P and have no parent themselves; those that are gone are of D.
Family(ev, P, D) ==
  \A x \in DOMAIN ev :
    /\ ev[x].pid = NoId => x \in P
    /\ ev[x].pid # NoId => /\ ev[x].pid \in P
                           /\ ev[x].pid \in DOMAIN ev => ev[ev[x].pid].pid = NoId
                           /\ ev[x].pid \in DOMAIN ev \cup D

\* The children of an event, of which there are finitely many.
LEMMA Children ==
  ASSUME NEW ev, IsFiniteSet(DOMAIN ev), NEW p
  PROVE  /\ IsFiniteSet(KidsOf(ev, p)) /\ Cardinality(KidsOf(ev, p)) \in Nat
         /\ \A S \in SUBSET KidsOf(ev, p) : /\ IsFiniteSet(S) /\ Cardinality(S) \in Nat
                                            /\ Cardinality(S) <= Cardinality(KidsOf(ev, p))
         /\ \A x : /\ x \in KidsOf(ev, p) => Cardinality(KidsOf(ev, p) \ {x}) = Cardinality(KidsOf(ev, p)) - 1
                   /\ x \in KidsOf(ev, p) /\ Cardinality(KidsOf(ev, p)) <= 1 => KidsOf(ev, p) = {x}
<1> DEFINE K == KidsOf(ev, p)
<1>1. IsFiniteSet(K)
  <2>1. K \subseteq DOMAIN ev
    BY DEF KidsOf
  <2> QED BY <2>1, FS_Subset
<1> HIDE DEF K
<1>2. Cardinality(K) \in Nat
  BY <1>1, FS_CardinalityType
<1>3. ASSUME NEW S \in SUBSET K
      PROVE  IsFiniteSet(S) /\ Cardinality(S) \in Nat /\ Cardinality(S) <= Cardinality(K)
  BY <1>1, FS_Subset, FS_CardinalityType
<1>4. ASSUME NEW x, x \in K
      PROVE  /\ Cardinality(K \ {x}) = Cardinality(K) - 1
             /\ Cardinality(K) <= 1 => K = {x}
  <2>1. IsFiniteSet(K \ {x}) /\ Cardinality(K \ {x}) = Cardinality(K) - 1
    BY <1>1, <1>4, FS_RemoveElement
  <2>2. Cardinality(K \ {x}) \in Nat
    BY <2>1, FS_CardinalityType
  <2>3. Cardinality(K) <= 1 => Cardinality(K \ {x}) = 0
    BY <1>2, <2>1, <2>2
  <2>4. Cardinality(K) <= 1 => K \ {x} = {}
    BY <2>1, <2>3, FS_EmptySet
  <2> QED BY <1>4, <2>1, <2>4
<1> QED BY <1>1, <1>2, <1>3, <1>4 DEF K

\* A call or a relayed request adds an event and its children, which are all new.
Grown(ev, new, q, kids) ==
  /\ \A p : p # q /\ p # NoId => KidsOf(new, p) \subseteq KidsOf(ev, p)
  /\ \A p, G : p # q /\ Bears(ev, p, G) => Bears(new, p, G)
  /\ \A G : kids \cap G # {} => Bears(new, q, G)

\* A call or a relayed request adds an event and its children.
LEMMA TableGrows ==
  ASSUME NEW ev, NEW P, NEW D, NEW R, Family(ev, P, D), Tally(ev), NEW q, NEW kids,
         ~Collides(ev, q, kids), q \notin kids, q \in Int \X Nat, q # NoId, NoId \notin kids, q \in R, P \subseteq R,
         IsFiniteSet(kids), KidsOf(ev, q) = {}, \A y \in kids : y \notin D
  PROVE  /\ Family(AddEvents(ev, q, kids), R, D) /\ Tally(AddEvents(ev, q, kids))
         /\ Grown(ev, AddEvents(ev, q, kids), q, kids)
<1> DEFINE new == AddEvents(ev, q, kids)
<1>1. /\ DOMAIN new = DOMAIN ev \cup {q} \cup kids
      /\ q \notin DOMAIN ev /\ \A y \in kids : y \notin DOMAIN ev
      /\ new[q].pid = NoId /\ new[q].cevents = Cardinality(kids)
      /\ \A y \in kids : new[y].pid = q /\ new[y].cevents = 0
      /\ \A x \in DOMAIN ev : new[x] = ev[x]
  BY DEF AddEvents, Collides, Record
<1> HIDE DEF new
<1>2. NoId \notin DOMAIN ev /\ IsFiniteSet(DOMAIN ev)
  BY DEF Tally
<1>3. \A y \in kids : KidsOf(ev, y) = {}
  <2> SUFFICES ASSUME NEW y \in kids, NEW x \in DOMAIN ev, ev[x].pid = y PROVE FALSE
    BY DEF KidsOf
  <2> QED BY <1>1 DEF Family
<1>4. KidsOf(new, q) = kids
  BY <1>1 DEF KidsOf
<1>5. ASSUME NEW y \in kids PROVE KidsOf(new, y) = {}
  BY <1>1, <1>3 DEF KidsOf
<1>6. ASSUME NEW p, p \notin {q} \cup kids \cup {NoId} PROVE KidsOf(new, p) = KidsOf(ev, p)
  BY <1>1, <1>6 DEF KidsOf
<1>7. Family(new, R, D)
  <2> SUFFICES ASSUME NEW x \in DOMAIN new
               PROVE  /\ new[x].pid = NoId => x \in R
                      /\ new[x].pid # NoId => /\ new[x].pid \in R
                                              /\ new[x].pid \in DOMAIN new => new[new[x].pid].pid = NoId
                                              /\ new[x].pid \in DOMAIN new \cup D
    BY DEF Family
  <2>1. CASE x \in DOMAIN ev
    <3>1. ev[x].pid \notin kids
      BY <1>3, <2>1 DEF KidsOf
    <3>2. new[x] = ev[x]
      BY <1>1, <2>1
    <3> QED BY <1>1, <2>1, <3>1, <3>2 DEF Family
  <2>2. CASE x = q
    BY <1>1, <2>2
  <2>3. CASE x \in kids
    BY <1>1, <2>3
  <2> QED BY <1>1, <2>1, <2>2, <2>3
<1>8. Tally(new)
  <2>1. IsFiniteSet(DOMAIN new)
    <3>1. IsFiniteSet(DOMAIN ev \cup {q})
      BY <1>2, FS_AddElement
    <3> QED BY <1>1, <3>1, FS_Union
  <2>2. NoId \notin DOMAIN new
    BY <1>1, <1>2
  <2>4. new[q] \in [pid : Int \X Nat, cevents : Nat] /\ \A y \in kids : new[y] \in [pid : Int \X Nat, cevents : Nat]
    <3>1. new[q] = Record(NoId, Cardinality(kids)) /\ \A y \in kids : new[y] = Record(q, 0)
      BY DEF AddEvents, new
    <3>2. Cardinality(kids) \in Nat /\ NoId \in Int \X Nat
      BY FS_CardinalityType DEF NoId
    <3> QED BY <3>1, <3>2 DEF Record
  <2>3. ASSUME NEW p \in DOMAIN new
        PROVE  /\ new[p] \in [pid : Int \X Nat, cevents : Nat]
               /\ Cardinality(KidsOf(new, p)) <= new[p].cevents
    <3>1. CASE p \in DOMAIN ev
      <4>1. KidsOf(new, p) = KidsOf(ev, p) /\ new[p] = ev[p]
        BY <1>1, <1>2, <1>6, <3>1
      <4> QED BY <3>1, <4>1 DEF Tally
    <3>2. CASE p = q
      <4>1. Cardinality(kids) \in Nat
        BY FS_CardinalityType
      <4> QED BY <1>1, <1>4, <2>4, <3>2, <4>1
    <3>3. CASE p \in kids
      <4>1. Cardinality(KidsOf(new, p)) = 0
        BY <1>5, <3>3, FS_EmptySet
      <4> QED BY <1>1, <2>4, <3>3, <4>1
    <3> QED BY <1>1, <3>1, <3>2, <3>3
  <2> QED BY <2>1, <2>2, <2>3 DEF Tally
<1>9. ASSUME NEW p, NEW G, p # q, Bears(ev, p, G) PROVE Bears(new, p, G)
  <2>1. CASE p \in DOMAIN ev
    <3>1. KidsOf(new, p) = KidsOf(ev, p) /\ new[p] = ev[p]
      BY <1>1, <1>2, <1>6, <2>1
    <3> QED BY <1>9, <2>1, <3>1 DEF Bears, IsParent, Lost
  <2>2. CASE p \notin DOMAIN ev
    BY <1>1, <1>9, <2>2 DEF Bears, IsParent
  <2> QED BY <2>1, <2>2
<1>10. ASSUME NEW G, kids \cap G # {} PROVE Bears(new, q, G)
  BY <1>4, <1>10 DEF Bears
<1>11. ASSUME NEW p, p # q, p # NoId PROVE KidsOf(new, p) \subseteq KidsOf(ev, p)
  <2>1. CASE p \in kids
    BY <1>5, <2>1
  <2>2. CASE p \notin kids
    BY <1>6, <1>11, <2>2
  <2> QED BY <2>1, <2>2
<1>12. Grown(ev, new, q, kids)
  BY <1>9, <1>10, <1>11 DEF Grown
<1> QED BY <1>7, <1>8, <1>12 DEF new

\* An event that goes is missed by its parent, so that no event ends by that.
LEMMA TableShrinks ==
  ASSUME NEW ev, NEW P, NEW D, Family(ev, P, D), Tally(ev), NEW id,
         KidsOf(ev, id) = {} \/ id \in D
  PROVE  /\ Family(RemoveEvents(ev, {id}), P, D) /\ Tally(RemoveEvents(ev, {id}))
         /\ \A p : KidsOf(RemoveEvents(ev, {id}), p) = KidsOf(ev, p) \ {id}
         /\ \A p, G : Bears(ev, p, G) => Bears(RemoveEvents(ev, {id}), p, G)
<1> DEFINE new == RemoveEvents(ev, {id})
<1>1. DOMAIN new = DOMAIN ev \ {id} /\ \A x \in DOMAIN new : new[x] = ev[x]
  BY DEF RemoveEvents
<1> HIDE DEF new
<1>2. IsFiniteSet(DOMAIN ev) /\ NoId \notin DOMAIN ev
  BY DEF Tally
<1>3. ASSUME NEW p PROVE KidsOf(new, p) = KidsOf(ev, p) \ {id}
  BY <1>1 DEF KidsOf
<1>4. Family(new, P, D)
  <2> SUFFICES ASSUME NEW x \in DOMAIN ev, x # id
               PROVE  /\ ev[x].pid = NoId => x \in P
                      /\ ev[x].pid # NoId => /\ ev[x].pid \in P
                                             /\ ev[x].pid \in DOMAIN new => new[ev[x].pid].pid = NoId
                                             /\ ev[x].pid \in DOMAIN new \cup D
    BY <1>1 DEF Family
  <2>1. ev[x].pid = id => id \in D
    BY DEF KidsOf
  <2> QED BY <1>1, <2>1 DEF Family
<1>5. Tally(new)
  <2>1. IsFiniteSet(DOMAIN new)
    BY <1>1, <1>2, FS_RemoveElement
  <2>2. ASSUME NEW p \in DOMAIN new
        PROVE  /\ new[p] \in [pid : Int \X Nat, cevents : Nat]
               /\ Cardinality(KidsOf(new, p)) <= new[p].cevents
    <3>1. new[p] = ev[p] /\ p \in DOMAIN ev
      BY <1>1
    <3>2. ev[p] \in [pid : Int \X Nat, cevents : Nat] /\ ev[p].cevents \in Nat
          /\ Cardinality(KidsOf(ev, p)) <= ev[p].cevents
      BY <3>1 DEF Tally
    <3>3. /\ Cardinality(KidsOf(new, p)) <= Cardinality(KidsOf(ev, p))
          /\ Cardinality(KidsOf(ev, p)) \in Nat /\ Cardinality(KidsOf(new, p)) \in Nat
      BY <1>2, <1>3, Children
    <3> QED BY <3>1, <3>2, <3>3
  <2> QED BY <1>1, <1>2, <2>1, <2>2 DEF Tally
<1>6. ASSUME NEW p, NEW G, Bears(ev, p, G), IsParent(new, p)
      PROVE  Lost(new, p) \/ KidsOf(new, p) \cap G # {}
  <2>1. IsParent(ev, p) /\ new[p] = ev[p] /\ p \in DOMAIN ev
    BY <1>1, <1>6 DEF IsParent
  <2>2. Lost(ev, p) \/ KidsOf(ev, p) \cap G # {}
    BY <1>6, <2>1 DEF Bears
  <2>3. ev[p].cevents \in Nat /\ Cardinality(KidsOf(ev, p)) <= ev[p].cevents
        /\ Cardinality(KidsOf(ev, p)) \in Nat
    BY <1>2, <2>1, Children DEF Tally
  <2>4. CASE id \in KidsOf(ev, p)
    <3>1. Cardinality(KidsOf(new, p)) = Cardinality(KidsOf(ev, p)) - 1
      BY <1>2, <1>3, <2>4, Children
    <3> QED BY <2>1, <2>3, <3>1 DEF Lost
  <2>5. CASE id \notin KidsOf(ev, p)
    <3>1. KidsOf(new, p) = KidsOf(ev, p)
      BY <1>3, <2>5
    <3> QED BY <2>1, <2>2, <3>1 DEF Lost
  <2> QED BY <2>4, <2>5
<1>7. \A p, G : Bears(ev, p, G) => Bears(new, p, G)
  BY <1>6 DEF Bears
<1> QED BY <1>3, <1>4, <1>5, <1>7 DEF new

\* What waitevent_reset makes of an answer to a child of p, where rest is the table
\* without the child.
Counted(ev, id, p, rest, r) ==
  /\ p \notin DOMAIN rest => r.table = rest /\ r.ret = NoId
  /\ p \in DOMAIN rest /\ LastAnswer(ev, p) => r.table = RemoveEvents(rest, {p}) /\ r.ret = p
  /\ p \in DOMAIN rest /\ ~LastAnswer(ev, p) =>
       r.table = [rest EXCEPT ![p].cevents = @ - 1] /\ r.ret = id

\* The answer to a child.
LEMMA ChildAnswered ==
  ASSUME NEW ev, NEW id \in DOMAIN ev, ev[id].pid # NoId
  PROVE  Counted(ev, id, ev[id].pid, RemoveEvents(ev, {id}), Reset(ev, id, FALSE))
<1> DEFINE p    == ev[id].pid
           rest == RemoveEvents(ev, {id})
           less == [rest EXCEPT ![p].cevents = @ - 1]
           last == RemoveEvents(rest, {p})
           r    == Reset(ev, id, FALSE)
<1>1. r = IF p \notin DOMAIN rest THEN [table |-> rest, ret |-> NoId]
          ELSE IF LastAnswer(ev, p) THEN [table |-> last, ret |-> p]
          ELSE [table |-> less, ret |-> id]
  BY DEF Reset, CountAnswer
<1> SUFFICES Counted(ev, id, p, rest, r)
  OBVIOUS
<1>2. Counted(ev, id, p, rest, r) <=>
        /\ p \notin DOMAIN rest => r.table = rest /\ r.ret = NoId
        /\ p \in DOMAIN rest /\ LastAnswer(ev, p) => r.table = last /\ r.ret = p
        /\ p \in DOMAIN rest /\ ~LastAnswer(ev, p) => r.table = less /\ r.ret = id
  BY DEF Counted
<1> HIDE DEF p, rest, less, last, r
<1>3. CASE p \notin DOMAIN rest
  <2>1. r = [table |-> rest, ret |-> NoId]
    BY <1>1, <1>3
  <2> QED BY <1>2, <1>3, <2>1
<1>4. CASE p \in DOMAIN rest /\ LastAnswer(ev, p)
  <2>1. r = [table |-> last, ret |-> p]
    BY <1>1, <1>4
  <2> QED BY <1>2, <1>4, <2>1
<1>5. CASE p \in DOMAIN rest /\ ~LastAnswer(ev, p)
  <2>1. r = [table |-> less, ret |-> id]
    BY <1>1, <1>5
  <2> QED BY <1>2, <1>5, <2>1
<1> QED BY <1>3, <1>4, <1>5

\* A table with children that it counts, and its change by the answer to id.
Sound(ev, P, D) == Family(ev, P, D) /\ Tally(ev)

\* The child id of p is gone from ev and rest is left.
Gone(ev, id, p, rest, P, D) ==
  /\ DOMAIN rest = DOMAIN ev \ {id} /\ \A x \in DOMAIN rest : rest[x] = ev[x]
  /\ Sound(rest, P, D)
  /\ \A z : KidsOf(rest, z) = KidsOf(ev, z) \ {id}
  /\ \A z, G : Bears(ev, z, G) => Bears(rest, z, G)
  /\ id \in KidsOf(ev, p)

\* p counts its children.
Parent(ev, id, p) ==
  /\ ev[p].pid = NoId /\ p # id
  /\ ev[p] \in [pid : Int \X Nat, cevents : Nat] /\ ev[p].cevents \in Nat
  /\ Cardinality(KidsOf(ev, p)) \in Nat /\ Cardinality(KidsOf(ev, p)) <= ev[p].cevents
  /\ Cardinality(KidsOf(ev, p) \ {id}) = Cardinality(KidsOf(ev, p)) - 1
  /\ Cardinality(KidsOf(ev, p)) <= 1 => KidsOf(ev, p) = {id}

\* A child that is gone leaves a table with children that it counts.
LEMMA ChildGone ==
  ASSUME NEW ev, NEW P, NEW D, Sound(ev, P, D), NEW id \in DOMAIN ev, ev[id].pid # NoId
  PROVE  /\ Gone(ev, id, ev[id].pid, RemoveEvents(ev, {id}), P, D)
         /\ ev[id].pid \in DOMAIN ev => Parent(ev, id, ev[id].pid)
<1> DEFINE p    == ev[id].pid
           rest == RemoveEvents(ev, {id})
<1>1. DOMAIN rest = DOMAIN ev \ {id} /\ \A x \in DOMAIN rest : rest[x] = ev[x]
  BY DEF RemoveEvents
<1>2. IsFiniteSet(DOMAIN ev) /\ NoId \notin DOMAIN ev
  BY DEF Tally, Sound
<1>3. KidsOf(ev, id) = {}
  BY <1>2 DEF KidsOf, Family, Sound
<1>4. /\ Family(rest, P, D) /\ Tally(rest)
      /\ \A z : KidsOf(rest, z) = KidsOf(ev, z) \ {id}
      /\ \A z, G : Bears(ev, z, G) => Bears(rest, z, G)
  BY <1>3, TableShrinks DEF Sound
<1>5. id \in KidsOf(ev, p)
  BY DEF KidsOf
<1>6. ASSUME p \in DOMAIN ev PROVE Parent(ev, id, p)
  <2>1. ev[p].pid = NoId /\ p # id
    BY <1>6 DEF Family, Sound
  <2>2. ev[p] \in [pid : Int \X Nat, cevents : Nat] /\ Cardinality(KidsOf(ev, p)) <= ev[p].cevents
    BY <1>6 DEF Tally, Sound
  <2>3. ev[p].cevents \in Nat
    BY <2>2
  <2> HIDE DEF p
  <2>4. /\ Cardinality(KidsOf(ev, p)) \in Nat
        /\ Cardinality(KidsOf(ev, p) \ {id}) = Cardinality(KidsOf(ev, p)) - 1
        /\ Cardinality(KidsOf(ev, p)) <= 1 => KidsOf(ev, p) = {id}
    BY <1>2, <1>5, Children
  <2> QED BY <2>1, <2>2, <2>3, <2>4 DEF Parent
<1> HIDE DEF p, rest
<1>7. Gone(ev, id, p, rest, P, D) /\ (p \in DOMAIN ev => Parent(ev, id, p))
  BY <1>1, <1>4, <1>5, <1>6 DEF Gone, Sound
<1> QED BY <1>7 DEF p, rest

\* An answer that its parent counts.
LEMMA TableCounts ==
  ASSUME NEW ev, NEW P, NEW D, NEW id, NEW p \in DOMAIN ev, NEW rest,
         Gone(ev, id, p, rest, P, D), Parent(ev, id, p), ~LastAnswer(ev, p)
  PROVE  LET new == [rest EXCEPT ![p].cevents = @ - 1]
         IN /\ Sound(new, P, D)
            /\ \A z : KidsOf(new, z) = KidsOf(ev, z) \ {id}
            /\ \A z, G : Bears(ev, z, G) /\ (p = z => id \notin G) => Bears(new, z, G)
<1> DEFINE new == [rest EXCEPT ![p].cevents = @ - 1]
<1>1. /\ DOMAIN rest = DOMAIN ev \ {id} /\ \A x \in DOMAIN rest : rest[x] = ev[x]
      /\ Sound(rest, P, D)
      /\ \A z : KidsOf(rest, z) = KidsOf(ev, z) \ {id}
      /\ \A z, G : Bears(ev, z, G) => Bears(rest, z, G)
  BY DEF Gone
<1>2. /\ ev[p].pid = NoId /\ p # id
      /\ ev[p] \in [pid : Int \X Nat, cevents : Nat] /\ ev[p].cevents \in Nat
      /\ Cardinality(KidsOf(ev, p)) \in Nat /\ Cardinality(KidsOf(ev, p)) <= ev[p].cevents
      /\ Cardinality(KidsOf(ev, p) \ {id}) = Cardinality(KidsOf(ev, p)) - 1
  BY DEF Parent
<1>3. ev[p].cevents - 1 \in Nat
  BY <1>2 DEF LastAnswer
<1>4. p \in DOMAIN rest /\ rest[p] = ev[p]
  BY <1>1, <1>2
<1>5. /\ DOMAIN new = DOMAIN rest
      /\ \A x \in DOMAIN rest : x # p => new[x] = rest[x]
      /\ new[p] = [ev[p] EXCEPT !.cevents = @ - 1]
  BY <1>4
<1> HIDE DEF new
<1>6. /\ new[p].pid = NoId /\ new[p].cevents = ev[p].cevents - 1
      /\ new[p] \in [pid : Int \X Nat, cevents : Nat]
  BY <1>2, <1>3, <1>5
<1>7. \A x \in DOMAIN rest : new[x].pid = rest[x].pid
  BY <1>2, <1>4, <1>5, <1>6
<1>8. ASSUME NEW z PROVE KidsOf(new, z) = KidsOf(rest, z)
  BY <1>5, <1>7 DEF KidsOf
<1>9. Family(new, P, D)
  BY <1>1, <1>5, <1>7 DEF Family, Sound
<1>10. Tally(new)
  <2>1. ASSUME NEW z \in DOMAIN new
        PROVE  /\ new[z] \in [pid : Int \X Nat, cevents : Nat]
               /\ Cardinality(KidsOf(new, z)) <= new[z].cevents
    <3>1. CASE z = p
      <4>1. Cardinality(KidsOf(new, p)) = Cardinality(KidsOf(ev, p)) - 1
        BY <1>1, <1>2, <1>8
      <4> QED BY <1>2, <1>6, <3>1, <4>1
    <3>2. CASE z # p
      <4>1. new[z] = rest[z] /\ KidsOf(new, z) = KidsOf(rest, z) /\ z \in DOMAIN rest
        BY <1>5, <1>8, <3>2
      <4> QED BY <1>1, <4>1 DEF Tally, Sound
    <3> QED BY <3>1, <3>2
  <2>2. IsFiniteSet(DOMAIN new) /\ NoId \notin DOMAIN new
    BY <1>1, <1>5 DEF Tally, Sound
  <2> QED BY <2>1, <2>2 DEF Tally
<1>11. ASSUME NEW z, NEW G, Bears(ev, z, G), p = z => id \notin G
       PROVE  Bears(new, z, G)
  <2>1. CASE z = p
    <3>1. IsParent(ev, p)
      BY <1>2 DEF IsParent
    <3>2. CASE Lost(ev, p)
      <4>1. Cardinality(KidsOf(new, p)) = Cardinality(KidsOf(ev, p)) - 1
        BY <1>1, <1>2, <1>8
      <4>2. Lost(new, p)
        BY <1>2, <1>6, <3>2, <4>1 DEF Lost
      <4> QED BY <2>1, <4>2 DEF Bears
    <3>3. CASE KidsOf(ev, p) \cap G # {}
      <4>1. KidsOf(new, p) = KidsOf(ev, p) \ {id}
        BY <1>1, <1>8
      <4>2. KidsOf(new, p) \cap G # {}
        BY <1>11, <2>1, <3>3, <4>1
      <4> QED BY <2>1, <4>2 DEF Bears
    <3> QED BY <1>11, <2>1, <3>1, <3>2, <3>3 DEF Bears
  <2>2. CASE z # p
    <3>1. Bears(rest, z, G)
      BY <1>1, <1>11
    <3>2. KidsOf(new, z) = KidsOf(rest, z) /\ (z \in DOMAIN rest => new[z] = rest[z])
      BY <1>5, <1>8, <2>2
    <3> QED BY <1>5, <3>1, <3>2 DEF Bears, IsParent, Lost
  <2> QED BY <2>1, <2>2
<1>12. \A z : KidsOf(new, z) = KidsOf(ev, z) \ {id}
  BY <1>1, <1>8
<1>13. \A z, G : Bears(ev, z, G) /\ (p = z => id \notin G) => Bears(new, z, G)
  BY <1>11
<1>14. Sound(new, P, D)
  BY <1>9, <1>10 DEF Sound
<1> QED BY <1>12, <1>13, <1>14 DEF new

\* An answer to request id keeps what events bear unless it is what is borne.
Spared(ev, id, z, G) == Bears(ev, z, G) /\ (id \in DOMAIN ev /\ ev[id].pid = z => id \notin G)

Dropped(ev, new, id) ==
  /\ \A p : KidsOf(new, p) \subseteq KidsOf(ev, p)
  /\ \A p, G : Spared(ev, id, p, G) => Bears(new, p, G)

\* Any answer leaves one.
LEMMA TableAnswered ==
  ASSUME NEW ev, NEW P, NEW D, Sound(ev, P, D), NEW id,
         id \in DOMAIN ev /\ ev[id].pid = NoId => id \in D
  PROVE  /\ Sound(Reset(ev, id, FALSE).table, P, D)
         /\ Dropped(ev, Reset(ev, id, FALSE).table, id)
<1> DEFINE new == Reset(ev, id, FALSE).table
           Kept(t) == /\ Sound(t, P, D) /\ \A z : KidsOf(t, z) \subseteq KidsOf(ev, z)
                      /\ \A z, G : Spared(ev, id, z, G) => Bears(t, z, G)
<1> SUFFICES Kept(new)
  BY DEF Dropped
<1>1. CASE id \notin DOMAIN ev
  <2>1. new = ev
    BY <1>1 DEF Reset
  <2> QED BY <2>1 DEF Spared
<1>2. CASE id \in DOMAIN ev /\ ev[id].pid = NoId
  <2>1. new = RemoveEvents(ev, {id}) /\ id \in D
    BY <1>2 DEF Reset
  <2>2. /\ Family(RemoveEvents(ev, {id}), P, D) /\ Tally(RemoveEvents(ev, {id}))
        /\ \A p : KidsOf(RemoveEvents(ev, {id}), p) = KidsOf(ev, p) \ {id}
        /\ \A p, G : Bears(ev, p, G) => Bears(RemoveEvents(ev, {id}), p, G)
    BY <2>1, TableShrinks DEF Sound
  <2> QED BY <2>1, <2>2 DEF Sound, Spared
<1>3. CASE id \in DOMAIN ev /\ ev[id].pid # NoId
  <2> DEFINE rest == RemoveEvents(ev, {id})
             p    == ev[id].pid
  <2>1. Gone(ev, id, p, rest, P, D) /\ (p \in DOMAIN ev => Parent(ev, id, p))
    BY <1>3, ChildGone
  <2>2. Counted(ev, id, p, rest, Reset(ev, id, FALSE))
    BY <1>3, ChildAnswered
  <2>3. \A z, G : Spared(ev, id, z, G) => Bears(ev, z, G) /\ (p = z => id \notin G)
    BY <1>3 DEF Spared
  <2> HIDE DEF rest, p
  <2>4. /\ DOMAIN rest = DOMAIN ev \ {id}
        /\ Sound(rest, P, D)
        /\ \A z : KidsOf(rest, z) = KidsOf(ev, z) \ {id}
        /\ \A z, G : Bears(ev, z, G) => Bears(rest, z, G)
    BY <2>1 DEF Gone
  <2>5. CASE p \notin DOMAIN rest
    <3>1. new = rest
      BY <2>2, <2>5 DEF Counted
    <3> QED BY <2>3, <2>4, <3>1
  <2>6. CASE p \in DOMAIN rest /\ LastAnswer(ev, p)
    <3> DEFINE last == RemoveEvents(rest, {p})
    <3>1. new = last
      BY <2>2, <2>6 DEF Counted
    <3>2. KidsOf(rest, p) = {}
      <4>1. p \in DOMAIN ev
        BY <2>4, <2>6
      <4>2. Cardinality(KidsOf(ev, p)) <= 1
        BY <2>1, <2>6, <4>1 DEF LastAnswer, Parent
      <4>3. KidsOf(ev, p) = {id}
        BY <2>1, <4>1, <4>2 DEF Parent
      <4> QED BY <2>4, <4>3
    <3>3. /\ Family(last, P, D) /\ Tally(last)
          /\ \A z : KidsOf(last, z) = KidsOf(rest, z) \ {p}
          /\ \A z, G : Bears(rest, z, G) => Bears(last, z, G)
      BY <2>4, <3>2, TableShrinks DEF Sound
    <3> HIDE DEF last
    <3> QED BY <2>3, <2>4, <3>1, <3>3 DEF Sound
  <2>7. CASE p \in DOMAIN rest /\ ~LastAnswer(ev, p)
    <3> DEFINE less == [rest EXCEPT ![p].cevents = @ - 1]
    <3>1. new = less /\ p \in DOMAIN ev
      BY <2>2, <2>4, <2>7 DEF Counted
    <3>2. /\ Sound(less, P, D)
          /\ \A z : KidsOf(less, z) = KidsOf(ev, z) \ {id}
          /\ \A z, G : Bears(ev, z, G) /\ (p = z => id \notin G) => Bears(less, z, G)
      BY <2>1, <2>7, <3>1, TableCounts
    <3> HIDE DEF less
    <3> QED BY <2>3, <3>1, <3>2
  <2> QED BY <2>5, <2>6, <2>7
<1> QED BY <1>1, <1>2, <1>3

\* The answer that ends an event is one of what the event bears.
Ended(ev, P, D, id, p, G) ==
  /\ Sound(ev, P, D) /\ Bears(ev, p, G) /\ p # id /\ p # NoId
  /\ Reset(ev, id, FALSE).ret = p

\* An answer ends an event only by what the event bears.
LEMMA AnswerEnds ==
  ASSUME NEW ev, NEW P, NEW D, NEW id, NEW p, NEW G, Ended(ev, P, D, id, p, G)
  PROVE  id \in G /\ id \in DOMAIN ev /\ ev[id].pid = p
<1> /\ Sound(ev, P, D) /\ Bears(ev, p, G) /\ p # id /\ p # NoId
    /\ Reset(ev, id, FALSE).ret = p
  BY DEF Ended
<1>1. id \in DOMAIN ev /\ ev[id].pid # NoId
  BY DEF Reset
<1> DEFINE rest == RemoveEvents(ev, {id})
           q    == ev[id].pid
<1>2. Gone(ev, id, q, rest, P, D) /\ (q \in DOMAIN ev => Parent(ev, id, q))
  BY <1>1, ChildGone
<1>3. Counted(ev, id, q, rest, Reset(ev, id, FALSE))
  BY <1>1, ChildAnswered
<1>4. q = p => ev[id].pid = p
  OBVIOUS
<1> HIDE DEF rest, q
<1>5. q = p /\ q \in DOMAIN rest /\ LastAnswer(ev, q)
  BY <1>3 DEF Counted
<1>6. q \in DOMAIN ev /\ Parent(ev, id, q)
  BY <1>2, <1>5 DEF Gone
<1>7. KidsOf(ev, q) = {id} /\ ~Lost(ev, q) /\ ev[q].pid = NoId
  <2>1. Cardinality(KidsOf(ev, q)) <= 1 /\ KidsOf(ev, q) = {id}
    BY <1>5, <1>6 DEF LastAnswer, Parent
  <2>2. Cardinality(KidsOf(ev, q)) = 1
    BY <2>1, FS_Singleton
  <2> QED BY <1>5, <1>6, <2>1, <2>2 DEF Lost, LastAnswer, Parent
<1> QED BY <1>1, <1>4, <1>5, <1>6, <1>7 DEF Bears, IsParent

-----------------------------------------------------------------------------
(***************************************************************************)
(* The invariant.                                                          *)
(***************************************************************************)

\* The numbers that instance j has given to messages on connection n, or j has lost
\* its end of it.  The server gives none before it has read INIT.
UpTo(j, n) == {s \in Nat : /\ n \in DOMAIN conn[j] => s <= conn[j][n].sendseq
                           /\ j = Server /\ Opens(net[n].up) => s = 0}

\* The events that i may have: on behalf of its calls and of requests it has read;
\* those that have been there, and whose children may be left.
Roots(i) == {y \in Int \X Nat : y[1] = 0 /\ y[2] <= rootseq[i]}
Parents(i) == Roots(i) \cup
  {y \in Int \X Nat : i = Server /\ y[1] \in Conns /\ y[2] \in UpTo(ends[y[1]], y[1])}
Done(i) == Roots(i) \cup
  {y \in Int \X Nat : i = Server /\ y[1] \in Conns /\ y[2] \in UpTo(Server, y[1])}

\* The requests of a queue have numbers of their sender (of R), its answers numbers of
\* the instance that asked (of A), and the requests of a client rise.
Marked(q, R, A) ==
  \A j \in 1..Len(q) : /\ q[j].type = "request" => q[j].seq \in R
                       /\ Answer(q[j]) => q[j].seq \in A
Ordered(q) ==
  \A h, j \in 1..Len(q) :
    h < j /\ q[h].type = "request" /\ q[j].type = "request" => q[h].seq < q[j].seq
Serial ==
  \A n \in Conns :
    /\ Marked(net[n].up, UpTo(ends[n], n), UpTo(Server, n)) /\ Ordered(net[n].up)
    /\ Marked(net[n].down, UpTo(Server, n), UpTo(ends[n], n))

Families == \A i \in Instance : i \notin dangling => Sound(event[i], Parents(i), Done(i))

\* The server has asked nobody yet for a request it has not read.
Unasked ==
  Server \notin dangling =>
    \A n \in Conns : \A j \in 1..Len(net[n].up) :
      net[n].up[j].type = "request" => KidsOf(event[Server], <<n, net[n].up[j].seq>>) = {}

Waits == \A i \in Instance : \A x \in 1..Len(wait[i]) : wait[i][x].id \in Roots(i)

\* What a step may only add to.
Widens ==
  /\ Conns \subseteq Conns' /\ \A n \in Conns : ends'[n] = ends[n]
  /\ Heard \subseteq Heard' /\ broken \subseteq broken' /\ dangling \subseteq dangling'
  /\ \A j \in Instance : rootseq[j] <= rootseq'[j] /\ rootseq[j] \in Nat /\ rootseq'[j] \in Nat
  /\ \A j \in Instance : \A n \in Conns : UpTo(j, n) \subseteq UpTo(j, n)'

\* Events may be of more calls and requests then.
LEMMA WidensSets ==
  ASSUME IInv, Widens, NEW i
  PROVE  /\ i \in Instance => Roots(i) \subseteq Roots(i)'
         /\ i \in Instance => Parents(i) \subseteq Parents(i)' /\ Done(i) \subseteq Done(i)'
<1>1. ASSUME i \in Instance PROVE Roots(i) \subseteq Roots(i)'
  <2> SUFFICES ASSUME NEW y \in Roots(i) PROVE y \in Roots(i)'
    OBVIOUS
  <2>1. y \in Int \X Nat /\ y[1] = 0 /\ y[2] <= rootseq[i] /\ y[2] \in Nat
    BY DEF Roots
  <2>2. rootseq[i] <= rootseq'[i] /\ rootseq[i] \in Nat /\ rootseq'[i] \in Nat
    BY <1>1 DEF Widens
  <2>3. y[2] <= rootseq'[i]
    BY <2>1, <2>2
  <2> QED BY <2>1, <2>3 DEF Roots
<1>2. ASSUME i \in Instance, NEW y \in Int \X Nat, i = Server, y[1] \in Conns,
             y[2] \in UpTo(ends[y[1]], y[1])
      PROVE  y[1] \in Conns' /\ y[2] \in UpTo(ends[y[1]], y[1])'
  <2>1. y[1] \in Conns' /\ ends'[y[1]] = ends[y[1]] /\ ends[y[1]] \in Instance
    BY <1>2, ChannelOf DEF Widens, IInv
  <2> QED BY <1>2, <2>1 DEF Widens, UpTo
<1>3. ASSUME i \in Instance, NEW y \in Int \X Nat, i = Server, y[1] \in Conns,
             y[2] \in UpTo(Server, y[1])
      PROVE  y[1] \in Conns' /\ y[2] \in UpTo(Server, y[1])'
  BY <1>3 DEF Widens
<1> QED BY <1>1, <1>2, <1>3 DEF Parents, Done

\* More parents and more that are done.
LEMMA SoundGrows ==
  ASSUME NEW ev, NEW P, NEW D, Sound(ev, P, D), NEW R, NEW E, P \subseteq R, D \subseteq E
  PROVE  Sound(ev, R, E)
BY DEF Sound, Family

\* Bearing goes by the children that an event has.
LEMMA BearsMore ==
  ASSUME NEW ev, NEW p, NEW G, Bears(ev, p, G), NEW H, \A y \in KidsOf(ev, p) : y \in G => y \in H
  PROVE  Bears(ev, p, H)
BY DEF Bears

(***************************************************************************)
(* Handlers, and what becomes of the events and calls.                     *)
(***************************************************************************)
Asking(i, p, except, failed) ==
  Register(i, p, Kids(conn[i], SyncTargets(conn[i], except) \ failed))
Resets(i, n) ==
  LET id == <<n, net[n][In(i)][1].seq>> IN
  /\ UNCHANGED <<rootseq, dangling>>
  /\ event' = [event EXCEPT ![i] = Reset(@, id, FALSE).table]
  /\ \/ UNCHANGED wait
     \/ /\ wait[i] # <<>> /\ Reset(event[i], id, FALSE).ret = wait[i][Len(wait[i])].id
        /\ wait' = [wait EXCEPT ![i] = Front(@)]

\* A handler leaves the events alone, asks on behalf of ydb_sync or of a request, or
\* resets an event by an answer.
SyncAsks(i, failed) ==
  /\ Block(i, "sync", Wanted(i)) /\ Asking(i, <<0, rootseq[i] + 1>>, {}, failed)
RelayAsks(i, n, failed) ==
  /\ UNCHANGED <<rootseq, wait>> /\ Asking(i, <<n, net[n][In(i)][1].seq>>, {n}, failed)
Calm == UNCHANGED <<event, rootseq, dangling, wait>>
SyncRequest(m) == m.type = "request" /\ m.op = "sync"
Turn(i, n, failed) ==
  /\ i \notin dangling
  /\ IF n = 0 THEN Calm \/ SyncAsks(i, failed)
     ELSE LET m == net[n][In(i)][1] IN
          /\ m.type = "request" => m.op \in {"init", "sync"}
          /\ IF m.type = "response" THEN Resets(i, n)
             ELSE IF SyncRequest(m) /\ SyncTargets(conn[i], {n}) # {} THEN RelayAsks(i, n, failed)
             ELSE Calm

\* ydb_write and ydb_delete, ydb_sync, and the messages.
LEMMA CallTurns ==
  ASSUME NEW i \in Instance, NEW k \in Key, NEW failed, Write(i, k, failed) \/ Delete(i, k, failed)
  PROVE  Turn(i, 0, failed)
BY DEF Write, Delete, Free, NoChange, Turn, Calm

\* ydb_sync,
LEMMA SyncTurns ==
  ASSUME NEW i \in Instance, NEW failed, Sync(i, failed)
  PROVE  Turn(i, 0, failed)
BY DEF Sync, Free, Turn, SyncAsks, Asking

\* INIT,
LEMMA RecvInitTurns ==
  ASSUME IInv, NEW n, NEW failed, RecvInit(n, failed)
  PROVE  Turn(Server, n, failed)
<1> DEFINE m == Received(Server, n)
<1>1. /\ Server \notin dangling /\ n \in DOMAIN conn[Server] /\ net[n][In(Server)] # <<>>
      /\ m.type \in {"publish", "request"} /\ m.op = "init" /\ Calm
  BY DEF RecvInit, Receives, NoChange, Calm
<1>2. n # 0 /\ m = net[n][In(Server)][1]
  BY <1>1, Taking DEF Instance
<1> HIDE DEF m
<1> QED BY <1>1, <1>2 DEF Turn, SyncRequest

\* publications,
LEMMA RecvPublishTurns ==
  ASSUME IInv, NEW i \in Instance, NEW n, NEW failed, RecvPublish(i, n, failed)
  PROVE  Turn(i, n, failed)
<1> DEFINE m == Received(i, n)
<1>1. /\ i \notin dangling /\ n \in DOMAIN conn[i] /\ net[n][In(i)] # <<>>
      /\ m.type = "publish" /\ Calm
  BY DEF RecvPublish, Receives, NoChange, Calm
<1>2. n # 0 /\ m = net[n][In(i)][1]
  BY <1>1, Taking
<1> HIDE DEF m
<1> QED BY <1>1, <1>2 DEF Turn, SyncRequest

\* SYNC,
LEMMA RecvSyncTurns ==
  ASSUME IInv, NEW i \in Instance, NEW n, NEW failed, RecvSync(i, n, failed)
  PROVE  Turn(i, n, failed)
<1> DEFINE m == Received(i, n)
<1>1. /\ i \notin dangling /\ n \in DOMAIN conn[i] /\ net[n][In(i)] # <<>>
      /\ m.type = "request" /\ m.op = "sync" /\ UNCHANGED <<rootseq, wait>>
      /\ IF SyncTargets(conn[i], {n}) = {} THEN UNCHANGED <<event, dangling>>
         ELSE Asking(i, <<n, m.seq>>, {n}, failed)
  BY DEF RecvSync, Receives, Asking
<1>2. n # 0 /\ m = net[n][In(i)][1]
  BY <1>1, Taking
<1> HIDE DEF m
<1> QED BY <1>1, <1>2 DEF Turn, SyncRequest, RelayAsks, Calm

\* and answers.
LEMMA RecvAnswerTurns ==
  ASSUME IInv, Waits, NEW i \in Instance, NEW n, NEW failed, NEW buffered,
         RecvAnswer(i, n, failed, buffered)
  PROVE  Turn(i, n, failed)
<1> DEFINE m  == Received(i, n)
           id == <<n, m.seq>>
           r  == IF m.type = "response" THEN Reset(event[i], id, FALSE)
                 ELSE [table |-> event[i], ret |-> NoId]
           ended == wait[i] # <<>> /\ r.ret = wait[i][Len(wait[i])].id
<1>1. /\ i \notin dangling /\ n \in DOMAIN conn[i] /\ net[n][In(i)] # <<>>
      /\ m.type \in {"continued", "response"} /\ UNCHANGED <<rootseq, dangling>>
      /\ event' = [event EXCEPT ![i] = r.table]
      /\ wait' = IF ended THEN [wait EXCEPT ![i] = Front(@)] ELSE wait
  BY DEF RecvAnswer, Receives
<1>2. n # 0 /\ m = net[n][In(i)][1] /\ n \in Conns
  BY <1>1, Taking
<1>3. event = [j \in Instance |-> event[j]]
  BY Steady
<1>4. CASE m.type = "response"
  <2>1. Resets(i, n)
    BY <1>1, <1>2, <1>4 DEF Resets
  <2> HIDE DEF m
  <2> QED BY <1>1, <1>2, <1>4, <2>1 DEF Turn, SyncRequest
<1>5. CASE m.type # "response"
  <2>1. r = [table |-> event[i], ret |-> NoId]
    BY <1>5
  <2> HIDE DEF r
  <2>2. r.table = event[i] /\ r.ret = NoId
    BY <2>1
  <2>3. event' = event
    BY <1>1, <1>3, <2>2
  <2>4. ~ended
    <3> SUFFICES ASSUME wait[i] # <<>>, NoId = wait[i][Len(wait[i])].id PROVE FALSE
      BY <2>2
    <3>1. wait[i] \in Seq(Call)
      BY Steady
    <3>2. Len(wait[i]) \in 1..Len(wait[i])
      BY <3>1
    <3>3. NoId \in Roots(i)
      BY <3>2 DEF Waits
    <3> QED BY <3>3 DEF Roots, NoId
  <2>5. Calm
    BY <1>1, <2>3, <2>4 DEF Calm
  <2> HIDE DEF m
  <2> QED BY <1>1, <1>2, <1>5, <2>5 DEF Turn, SyncRequest
<1> QED BY <1>4, <1>5

(***************************************************************************)
(* What a handler adds to.                                                 *)
(***************************************************************************)

\* Publications and requests take the next number of a connection.
LEMMA SeqSteps ==
  ASSUME IInv, NEW i \in Instance, NEW n, NEW cn, NEW outs, NEW failed,
         Handles(i, n, cn, outs, failed), NEW x \in DOMAIN conn'[i]
  PROVE  /\ x \in DOMAIN conn[i] /\ x \in Conns /\ x \notin failed
         /\ conn[i][x].sendseq \in Nat /\ conn'[i][x].sendseq \in Nat
         /\ conn'[i][x].sendseq = conn[i][x].sendseq +
              (IF x \in DOMAIN outs /\ Numbered(outs[x]) THEN 1 ELSE 0)
<1>1. PICK left : Send(i, IF n = 0 THEN net ELSE Taken(i, n), cn, outs, failed, left)
  BY DEF Handles
<1>2. /\ DOMAIN cn = DOMAIN conn[i] /\ DOMAIN conn[i] \subseteq Conns
      /\ \A y \in DOMAIN cn : cn[y].sendseq = conn[i][y].sendseq
  BY DEF Handles, Flags, Stamps, IInv, Connected
<1>3. cn \in Table
  BY DEF Handles, Flags
<1> DEFINE seqs == [y \in DOMAIN cn |-> cn[y].sendseq +
                      IF y \in DOMAIN outs THEN IF Numbered(outs[y]) THEN 1 ELSE 0 ELSE 0]
<1>4. conn' = [conn EXCEPT ![i] = [y \in DOMAIN cn \ failed |-> [cn[y] EXCEPT !.sendseq = seqs[y]]]]
  BY <1>1 DEF Send
<1>5. conn \in [Instance -> Table]
  BY DEF IInv, Typed
<1> HIDE DEF seqs
<1>6. conn'[i] = [y \in DOMAIN cn \ failed |-> [cn[y] EXCEPT !.sendseq = seqs[y]]]
  BY <1>4, <1>5
<1>7. x \in DOMAIN cn /\ x \notin failed /\ conn'[i][x] = [cn[x] EXCEPT !.sendseq = seqs[x]]
  BY <1>6
<1>8. cn[x] \in End
  BY <1>3, <1>7, Tables
<1>9. conn'[i][x].sendseq = seqs[x] /\ cn[x].sendseq \in Nat
  BY <1>7, <1>8 DEF End
<1>10. seqs[x] = cn[x].sendseq + (IF x \in DOMAIN outs /\ Numbered(outs[x]) THEN 1 ELSE 0)
  BY <1>7 DEF seqs
<1> QED BY <1>2, <1>7, <1>9, <1>10

\* A handler takes back no number, connection or call.
LEMMA TurnWidens ==
  ASSUME IInv, NEW i \in Instance, NEW n, NEW cn, NEW outs, NEW failed,
         Handles(i, n, cn, outs, failed), Turn(i, n, failed)
  PROVE  Widens
<1>1. /\ ends' = ends /\ broken' = broken /\ Conns' = Conns
  BY DEF Handles, Conns
<1>2. Heard \subseteq Heard'
  BY HeardGrows
<1>3. /\ \/ rootseq' = rootseq
         \/ rootseq' = [rootseq EXCEPT ![i] = @ + 1]
      /\ dangling \subseteq dangling'
  BY DEF Turn, Calm, Resets, SyncAsks, RelayAsks, Asking, Register, Block
<1>4. \A j \in Instance : rootseq[j] <= rootseq'[j] /\ rootseq[j] \in Nat /\ rootseq'[j] \in Nat
  <2>1. rootseq \in [Instance -> Nat]
    BY Steady
  <2> QED BY <1>3, <2>1
<1>5. ASSUME NEW j \in Instance, NEW x \in Conns, NEW s \in UpTo(j, x)
      PROVE  s \in UpTo(j, x)'
  <2>1. s \in Nat /\ (x \in DOMAIN conn[j] => s <= conn[j][x].sendseq)
        /\ (j = Server /\ Opens(net[x].up) => s = 0)
    BY <1>5 DEF UpTo
  <2>2. Opens(net'[x].up) => Opens(net[x].up)
    BY QueueSteps
  <2>3. x \in DOMAIN conn'[j] => s <= conn'[j][x].sendseq
    <3>1. CASE j = i
      <4> HAVE x \in DOMAIN conn'[j]
      <4>1. /\ x \in DOMAIN conn[i] /\ conn[i][x].sendseq \in Nat /\ conn'[i][x].sendseq \in Nat
            /\ conn[i][x].sendseq <= conn'[i][x].sendseq
        BY <3>1, SeqSteps
      <4> QED BY <2>1, <3>1, <4>1
    <3>2. CASE j # i
      BY <2>1, <3>2, OthersKeep
    <3> QED BY <3>1, <3>2
  <2> QED BY <2>1, <2>2, <2>3 DEF UpTo
<1> QED BY <1>1, <1>2, <1>3, <1>4, <1>5 DEF Widens

(***************************************************************************)
(* The numbers of messages.                                                *)
(***************************************************************************)

\* A marked queue, emptied, without its first message, and one message longer.
LEMMA MarkedQueues ==
  ASSUME NEW q \in Seq(Msg), NEW R, NEW A, Marked(q, R, A), NEW S, NEW B, R \subseteq S, A \subseteq B
  PROVE  /\ Marked(q, S, B) /\ Marked(<<>>, S, B) /\ (q # <<>> => Marked(Tail(q), S, B))
         /\ \A m \in Msg : (m.type = "request" => m.seq \in S) /\ (Answer(m) => m.seq \in B) =>
              Marked(Append(q, m), S, B)
<1>1. Marked(q, S, B)
  BY DEF Marked
<1>2. Marked(<<>>, S, B)
  BY DEF Marked
<1>3. ASSUME q # <<>> PROVE Marked(Tail(q), S, B)
  BY <1>1, <1>3, Queues DEF Marked
<1>4. ASSUME NEW m \in Msg, m.type = "request" => m.seq \in S, Answer(m) => m.seq \in B
      PROVE  Marked(Append(q, m), S, B)
  <2> SUFFICES ASSUME NEW j \in 1..Len(q) + 1
               PROVE  /\ Append(q, m)[j].type = "request" => Append(q, m)[j].seq \in S
                      /\ Answer(Append(q, m)[j]) => Append(q, m)[j].seq \in B
    BY <1>4, Queues DEF Marked
  <2>1. CASE j \in 1..Len(q)
    <3>1. Append(q, m)[j] = q[j]
      BY <1>4, <2>1, Queues
    <3> QED BY <1>1, <2>1, <3>1 DEF Marked
  <2>2. CASE j = Len(q) + 1
    <3>1. Append(q, m)[j] = m
      BY <1>4, <2>2, Queues
    <3> QED BY <1>4, <3>1
  <2> QED BY <2>1, <2>2, Queues
<1> QED BY <1>1, <1>2, <1>3, <1>4

\* So for one whose requests rise.
LEMMA OrderedQueues ==
  ASSUME NEW q \in Seq(Msg), Ordered(q)
  PROVE  /\ Ordered(<<>>) /\ (q # <<>> => Ordered(Tail(q)))
         /\ \A m \in Msg :
              (m.type = "request" => \A j \in 1..Len(q) : q[j].type = "request" => q[j].seq < m.seq) =>
                Ordered(Append(q, m))
<1>1. Ordered(<<>>)
  BY DEF Ordered
<1>2. ASSUME q # <<>> PROVE Ordered(Tail(q))
  <2> SUFFICES ASSUME NEW h \in 1..Len(q) - 1, NEW j \in 1..Len(q) - 1, h < j,
                      Tail(q)[h].type = "request", Tail(q)[j].type = "request"
               PROVE  Tail(q)[h].seq < Tail(q)[j].seq
    BY <1>2, Queues DEF Ordered
  <2>1. /\ Tail(q)[h] = q[h + 1] /\ Tail(q)[j] = q[j + 1]
        /\ h + 1 \in 1..Len(q) /\ j + 1 \in 1..Len(q) /\ h + 1 < j + 1
    BY <1>2, Queues
  <2> QED BY <2>1 DEF Ordered
<1>3. ASSUME NEW m \in Msg,
             m.type = "request" => \A j \in 1..Len(q) : q[j].type = "request" => q[j].seq < m.seq
      PROVE  Ordered(Append(q, m))
  <2> SUFFICES ASSUME NEW h \in 1..Len(q) + 1, NEW j \in 1..Len(q) + 1, h < j,
                      Append(q, m)[h].type = "request", Append(q, m)[j].type = "request"
               PROVE  Append(q, m)[h].seq < Append(q, m)[j].seq
    BY ZenonT(60), <1>3, Queues DEF Ordered
  <2>1. h \in 1..Len(q) /\ Append(q, m)[h] = q[h]
    BY <1>3, Queues
  <2>2. CASE j \in 1..Len(q)
    <3>1. Append(q, m)[j] = q[j]
      BY <1>3, <2>2, Queues
    <3> QED BY <2>1, <2>2, <3>1 DEF Ordered
  <2>3. CASE j = Len(q) + 1
    <3>1. Append(q, m)[j] = m
      BY <1>3, <2>3, Queues
    <3> QED BY <1>3, <2>1, <3>1
  <2> QED BY <2>2, <2>3, Queues
<1> QED BY <1>1, <1>2, <1>3

\* The message that a handler takes.
TakesFrom(i, n, m) ==
  /\ n \in Conns /\ n \in DOMAIN conn[i] /\ m \in Msg /\ m.seq \in Nat
  /\ i = Server =>
       /\ net[n].up # <<>> /\ m = net[n].up[1]
       /\ m.type = "request" => m.seq \in UpTo(ends[n], n)
       /\ Answer(m) => m.seq \in UpTo(Server, n)
       /\ m.op = "init" <=> Opens(net[n].up)
  /\ i # Server =>
       /\ ends[n] = i /\ net[n].down # <<>> /\ m = net[n].down[1]
       /\ m.type = "request" => m.seq \in UpTo(Server, n)
       /\ Answer(m) => m.seq \in UpTo(i, n)
       /\ m.op = "init" => m.type = "response"

\* What is taken from a queue has the numbers of the queue.
LEMMA TakenMarks ==
  ASSUME IInv, Serial, NEW i \in Instance, NEW n, NEW cn, NEW outs, NEW failed,
         Handles(i, n, cn, outs, failed), n # 0
  PROVE  TakesFrom(i, n, net[n][In(i)][1])
<1> DEFINE m == net[n][In(i)][1]
<1>1. n \in DOMAIN conn[i] /\ net[n][In(i)] # <<>>
  BY DEF Handles
<1>2. /\ n \in Conns /\ m \in Msg
      /\ i = Server => (m.op = "init" <=> Opens(net[n].up))
      /\ i # Server => ends[n] = i
  BY <1>1, Taking
<1>3. m.seq \in Nat
  BY <1>2 DEF Msg
<1>4. /\ i = Server => net[n][In(i)] = net[n].up
      /\ i # Server => net[n][In(i)] = net[n].down
  BY Sides
<1>5. net[n].up \in Seq(Msg) /\ net[n].down \in Seq(Msg)
  BY <1>2, ChannelOf DEF IInv
<1>6. /\ Marked(net[n].up, UpTo(ends[n], n), UpTo(Server, n))
      /\ Marked(net[n].down, UpTo(Server, n), UpTo(ends[n], n))
  BY <1>2 DEF Serial
<1>7. DownQueue(net[n].down, ends[n], data[ends[n]])
  BY <1>2 DEF IInv, Channels
<1> HIDE DEF m
<1>8. CASE i = Server
  <2>1. m = net[n].up[1] /\ net[n].up # <<>> /\ 1 \in 1..Len(net[n].up)
    BY <1>1, <1>4, <1>5, <1>8, Queues DEF m
  <2>2. (m.type = "request" => m.seq \in UpTo(ends[n], n)) /\ (Answer(m) => m.seq \in UpTo(Server, n))
    BY <1>6, <2>1 DEF Marked
  <2> QED BY <1>1, <1>2, <1>3, <1>8, <2>1, <2>2 DEF TakesFrom, m
<1>9. CASE i # Server
  <2>1. m = net[n].down[1] /\ net[n].down # <<>> /\ 1 \in 1..Len(net[n].down)
    BY <1>1, <1>4, <1>5, <1>9, Queues DEF m
  <2>2. (m.type = "request" => m.seq \in UpTo(Server, n)) /\ (Answer(m) => m.seq \in UpTo(ends[n], n))
    BY <1>6, <2>1 DEF Marked
  <2>3. m.op = "init" => m.type = "response"
    BY <1>7, <2>1 DEF DownQueue
  <2> QED BY <1>1, <1>2, <1>3, <1>9, <2>1, <2>2, <2>3 DEF TakesFrom, m
<1> QED BY <1>8, <1>9

\* The request that an answer is relayed for.
LEMMA RelayOf ==
  ASSUME NEW ev, NEW id, NEW p, p = Relay(ev, id), p[1] > 0
  PROVE  id \in DOMAIN ev /\ ev[id].pid = p /\ p # NoId
BY DEF Relay, NoId

\* A request that is relayed has a number of the client that asked.
LEMMA RelayedFor ==
  ASSUME IInv, Families, NEW i \in Instance, i \notin dangling, NEW id, NEW x \in Conns, NEW s,
         Relay(event[i], id) = <<x, s>>
  PROVE  /\ i = Server /\ id \in DOMAIN event[i] /\ event[i][id].pid = <<x, s>>
         /\ id[1] # x /\ x \in Heard /\ <<x, s>> # NoId /\ <<x, s>> # id
         /\ s \in UpTo(ends[x], x)
<1> DEFINE p == <<x, s>>
<1>1. p[1] = x /\ p[2] = s /\ x > 0 /\ x \in Nat
  BY DEF Conns, IInv, Typed
<1>2. p = Relay(event[i], id) /\ p[1] > 0
  BY <1>1
<1> HIDE DEF p
<1>3. id \in DOMAIN event[i] /\ event[i][id].pid = p /\ p # NoId
  BY <1>2, RelayOf
<1>4. i = Server /\ p[1] # id[1] /\ p[1] \in Heard
  BY <1>2, <1>3, Steady DEF RelayTable
<1>5. p \in Parents(i)
  BY <1>3 DEF Families, Sound, Family
<1>6. p[2] \in UpTo(ends[p[1]], p[1])
  BY <1>2, <1>5 DEF Parents, Roots
<1>7. p # id
  BY <1>4
<1> QED BY <1>1, <1>3, <1>4, <1>6, <1>7 DEF p

\* What goes out on connection x.
Marks(i, x, o) ==
  /\ o \in Msg /\ x \in Conns /\ x \in DOMAIN conn[i]
  /\ i = Server =>
       /\ o.type = "request" => o.seq \in UpTo(Server, x)'
       /\ Answer(o) => o.seq \in UpTo(ends[x], x)
  /\ i # Server =>
       /\ ends[x] = i
       /\ o.type = "request" => /\ o.seq \in UpTo(i, x)'
                                /\ \A s \in UpTo(i, x) : s < o.seq
       /\ Answer(o) => o.seq \in UpTo(Server, x)

\* What a handler says has numbers of its reader and of itself.
LEMMA OutMarks ==
  ASSUME IInv, Serial, Families, NEW i \in Instance, NEW n, NEW cn, NEW outs, NEW failed,
         Handles(i, n, cn, outs, failed), i \notin dangling, NEW x \in DOMAIN outs \ broken
  PROVE  Marks(i, x, outs[x])
<1> DEFINE o == outs[x]
           m == net[n][In(i)][1]
<1>1. o \in Msg /\ x \in DOMAIN conn[i] /\ x \in Conns /\ x \notin failed
  <2>1. DOMAIN outs \subseteq DOMAIN cn /\ DOMAIN cn = DOMAIN conn[i] /\ DOMAIN conn[i] \subseteq Conns
    BY DEF Handles, Flags, IInv, Connected
  <2>2. failed \subseteq broken
    BY HandlesEffects DEF IInv, Effects
  <2> QED BY <2>1, <2>2 DEF Handles
<1>2. Stamp(i, n, x, o)
  BY DEF Handles, Stamps
<1>3. o.seq \in Nat
  BY <1>1 DEF Msg
<1>4. ends[x] \in Instance /\ (i # Server => ends[x] = i)
  <2>1. i # Server => i \in Client
    BY DEF Instance
  <2> QED BY <1>1, <2>1, ChannelOf DEF IInv, Connected
<1> HIDE DEF o
<1>5. ASSUME o.type = "request"
      PROVE  o.seq \in UpTo(i, x)' /\ \A s \in UpTo(i, x) : s < o.seq
  <2>1. x \in DOMAIN conn'[i]
    <3>1. DOMAIN conn'[i] = DOMAIN cn \ failed
      BY HandlesEffects DEF IInv, Effects
    <3>2. x \in DOMAIN cn
      BY DEF Handles
    <3> QED BY <1>1, <3>1, <3>2
  <2>2. o.seq = conn[i][x].sendseq + 1 /\ Numbered(outs[x])
    BY <1>2, <1>5 DEF Stamp, Numbered, o
  <2>3. conn[i][x].sendseq \in Nat /\ conn'[i][x].sendseq = conn[i][x].sendseq + 1
    BY <2>1, <2>2, SeqSteps
  <2>4. i = Server => ~Opens(net'[x].up)
    <3> SUFFICES ASSUME i = Server, Opens(net'[x].up) PROVE FALSE
      OBVIOUS
    <3>1. Opens(net[x].up) /\ x # n
      BY <1>1, QueueSteps
    <3> QED BY <3>1 DEF Handles, Says
  <2>5. o.seq \in UpTo(i, x)'
    BY <1>3, <2>2, <2>3, <2>4 DEF UpTo
  <2>6. ASSUME NEW s \in UpTo(i, x) PROVE s < o.seq
    BY <1>1, <2>2, <2>3 DEF UpTo
  <2> QED BY <2>5, <2>6
<1>6. ASSUME Answer(o)
      PROVE  o.seq \in UpTo(IF i = Server THEN ends[x] ELSE Server, x)
  <2>1. n # 0
    BY <1>2, <1>6 DEF Stamp
  <2>2. TakesFrom(i, n, m)
    BY <2>1, TakenMarks
  <2>3. CASE x = n /\ m.type = "request" /\ o.seq = m.seq
    <3>1. m.seq \in UpTo(IF i = Server THEN ends[n] ELSE Server, n)
      BY <2>2, <2>3 DEF TakesFrom
    <3> QED BY <2>3, <3>1
  <2>4. CASE Relay(event[i], <<n, m.seq>>) = <<x, o.seq>>
    <3>1. i = Server /\ o.seq \in UpTo(ends[x], x)
      BY <1>1, <2>4, RelayedFor
    <3> QED BY <3>1
  <2> QED BY <1>2, <1>6, <2>3, <2>4 DEF Stamp, m
<1> QED BY <1>1, <1>4, <1>5, <1>6 DEF Marks, o

\* The numbers stay what they are, and requests rise.
LEMMA SerialKeeps ==
  ASSUME IInv, Serial, Families, NEW i \in Instance, NEW n, NEW cn, NEW outs, NEW failed,
         Handles(i, n, cn, outs, failed), Turn(i, n, failed)
  PROVE  Serial'
<1>1. Widens /\ ends' = ends /\ Conns' = Conns
  BY TurnWidens DEF Handles, Conns
<1> SUFFICES ASSUME NEW x \in Conns
             PROVE  /\ Marked(net'[x].up, UpTo(ends[x], x)', UpTo(Server, x)') /\ Ordered(net'[x].up)
                    /\ Marked(net'[x].down, UpTo(Server, x)', UpTo(ends[x], x)')
  BY <1>1 DEF Serial, UpTo
<1> DEFINE up  == net[x].up
           dn  == net[x].down
           C   == UpTo(ends[x], x)
           S   == UpTo(Server, x)
           CC  == UpTo(ends[x], x)'
           SS  == UpTo(Server, x)'
<1>2. C \subseteq CC /\ S \subseteq SS
  <2>1. ends[x] \in Instance /\ Server \in Instance
    BY ChannelOf DEF IInv, Instance
  <2>2. UpTo(ends[x], x) \subseteq UpTo(ends[x], x)'
    BY <1>1, <2>1 DEF Widens, UpTo
  <2> QED BY <1>1, <2>1, <2>2 DEF Widens
<1>3. up \in Seq(Msg) /\ dn \in Seq(Msg) /\ Marked(up, C, S) /\ Ordered(up) /\ Marked(dn, S, C)
  BY ChannelOf DEF IInv, Serial
<1>4. i \notin dangling
  BY DEF Turn
<1>5. x \in DOMAIN outs \ broken => Marks(i, x, outs[x])
  BY <1>4, OutMarks
<1>6. i = Server =>
        /\ Reads(i, n, failed, x, up, net'[x].up) /\ Writes(i, outs, x, dn, net'[x].down)
        /\ x \in DOMAIN outs \ broken =>
             /\ outs[x] \in Msg /\ outs[x].type = "request" => outs[x].seq \in SS
             /\ Answer(outs[x]) => outs[x].seq \in C
  BY <1>5, QueueMoves DEF Marks
<1>7. i # Server =>
        /\ Reads(i, n, failed, x, dn, net'[x].down) /\ Writes(i, outs, x, up, net'[x].up)
        /\ x \in DOMAIN outs \ broken =>
             /\ outs[x] \in Msg
             /\ outs[x].type = "request" => outs[x].seq \in CC /\ \A s \in C : s < outs[x].seq
             /\ Answer(outs[x]) => outs[x].seq \in S
  <2>1. x \in DOMAIN outs \ broken /\ i # Server => UpTo(ends[x], x)' = UpTo(i, x)' /\ ends[x] = i
    BY <1>1, <1>5 DEF Marks, UpTo
  <2> QED BY <1>5, <2>1, QueueMoves DEF Marks
<1>8. x = n => (i = Server => up # <<>>) /\ (i # Server => dn # <<>>)
  BY QueueMoves, Sides
<1>9. x \in DOMAIN outs \ broken => outs[x] \in Msg
  BY <1>5 DEF Marks
<1> HIDE DEF up, dn, C, S, CC, SS
<1>10. CASE i = Server
  <2>1. Marked(net'[x].up, CC, SS) /\ Ordered(net'[x].up)
    BY <1>2, <1>3, <1>6, <1>8, <1>10, MarkedQueues, OrderedQueues DEF Reads
  <2>2. Marked(net'[x].down, SS, CC)
    BY ZenonT(60), <1>2, <1>3, <1>6, <1>9, <1>10, MarkedQueues DEF Writes
  <2> QED BY <2>1, <2>2 DEF CC, SS
<1>11. CASE i # Server
  <2>1. Marked(net'[x].down, SS, CC)
    BY <1>2, <1>3, <1>7, <1>8, <1>11, MarkedQueues DEF Reads
  <2>2. Marked(net'[x].up, CC, SS)
    BY ZenonT(60), <1>2, <1>3, <1>7, <1>9, <1>11, MarkedQueues DEF Writes
  <2>3. Ordered(net'[x].up)
    <3>1. CASE x \in DOMAIN outs \ broken
      <4>1. net'[x].up = Append(up, outs[x]) /\ outs[x] \in Msg
        BY <1>7, <1>9, <1>11, <3>1 DEF Writes
      <4>2. outs[x].type = "request" => \A j \in 1..Len(up) : up[j].type = "request" => up[j].seq < outs[x].seq
        BY <1>3, <1>7, <1>11, <3>1 DEF Marked
      <4> QED BY <1>3, <4>1, <4>2, OrderedQueues
    <3>2. CASE x \notin DOMAIN outs \ broken
      BY <1>3, <1>7, <1>11, <3>2 DEF Writes
    <3> QED BY <3>1, <3>2
  <2> QED BY <2>1, <2>2, <2>3 DEF CC, SS
<1> QED BY <1>10, <1>11

(***************************************************************************)
(* The events after a handler.                                             *)
(***************************************************************************)

\* There are finitely many requests of a round, with the next numbers.
LEMMA KidsOfRound ==
  ASSUME IInv, NEW i \in Instance, NEW S \in SUBSET DOMAIN conn[i]
  PROVE  /\ IsFiniteSet(Kids(conn[i], S))
         /\ \A y \in Kids(conn[i], S) :
              /\ y \in Int \X Nat /\ y[1] \in S /\ y[1] \in Conns
              /\ conn[i][y[1]].sendseq \in Nat /\ y[2] = conn[i][y[1]].sendseq + 1
         /\ \A x \in S : <<x, conn[i][x].sendseq + 1>> \in Kids(conn[i], S)
<1> DEFINE f == [x \in S |-> <<x, conn[i][x].sendseq + 1>>]
           T == Kids(conn[i], S)
<1>1. T = {<<x, conn[i][x].sendseq + 1>> : x \in S}
  BY DEF Kids
<1>2. DOMAIN conn[i] \subseteq Conns /\ Conns \subseteq Nat /\ conn[i] \in Table
  BY DEF IInv, Connected, Conns, Typed
<1>3. IsFiniteSet(S)
  <2>1. Len(ends) \in Int /\ 1 \in Int
    BY DEF IInv, Typed
  <2>2. IsFiniteSet(Conns)
    BY <2>1, FS_Interval DEF Conns
  <2>3. S \subseteq Conns
    BY <1>2
  <2> QED BY <2>2, <2>3, FS_Subset
<1>4. f \in Surjection(S, T)
  BY <1>1 DEF Surjection
<1> HIDE DEF f, T
<1>5. IsFiniteSet(T)
  BY <1>3, <1>4, FS_Surjection
<1>6. ASSUME NEW x \in S PROVE conn[i][x].sendseq \in Nat /\ x \in Nat /\ x \in Conns
  <2>1. conn[i][x] \in End
    BY <1>2, Tables
  <2> QED BY <1>2, <2>1 DEF End
<1>7. ASSUME NEW y \in T
      PROVE  /\ y \in Int \X Nat /\ y[1] \in S /\ y[1] \in Conns
             /\ conn[i][y[1]].sendseq \in Nat /\ y[2] = conn[i][y[1]].sendseq + 1
  <2>1. PICK x \in S : y = <<x, conn[i][x].sendseq + 1>>
    BY <1>1
  <2>2. y[1] = x /\ y[2] = conn[i][x].sendseq + 1
    BY <2>1
  <2>3. x \in Int /\ conn[i][x].sendseq + 1 \in Nat
    BY <1>6
  <2> QED BY <1>6, <2>1, <2>2, <2>3
<1> QED BY <1>1, <1>5, <1>7 DEF T

\* The table of j with the children of an event q more, and without request id.
Grows(j, q, kids) ==
  Sound(event'[j], Parents(j)', Done(j)') /\ Grown(event[j], event'[j], q, kids)
Drops(j, id) ==
  Sound(event'[j], Parents(j)', Done(j)') /\ Dropped(event[j], event'[j], id)

Round(i, except, failed) == Kids(conn[i], SyncTargets(conn[i], except) \ failed)

\* Asking adds an event and one child for each request that is sent.
LEMMA AskingGrows ==
  ASSUME IInv, Families, Widens, NEW i \in Instance, NEW q \in Int \X Nat, NEW except, NEW failed,
         Asking(i, q, except, failed), i \notin dangling', q[1] \in {0} \cup except,
         q \in Parents(i)', KidsOf(event[i], q) = {}, 0 \notin Conns
  PROVE  Grows(i, q, Round(i, except, failed))
<1> DEFINE S    == SyncTargets(conn[i], except) \ failed
           kids == Kids(conn[i], S)
           new  == AddEvents(event[i], q, kids)
           ev   == event[i]
<1>1. i \notin dangling /\ ~Collides(ev, q, kids)
  BY DEF Asking, Register, Widens
<1>2. Sound(ev, Parents(i), Done(i))
  BY <1>1 DEF Families
<1>3. event'[i] = new
  BY Steady DEF Asking, Register
<1>4. S \subseteq DOMAIN conn[i] /\ \A x \in S : x \notin except
  BY DEF SyncTargets
<1> HIDE DEF S
<1>5. /\ IsFiniteSet(kids)
      /\ \A y \in kids :
              /\ y \in Int \X Nat /\ y[1] \in S /\ y[1] \in Conns
              /\ conn[i][y[1]].sendseq \in Nat /\ y[2] = conn[i][y[1]].sendseq + 1
  BY <1>4, KidsOfRound
<1>6. q \notin kids
  BY <1>4, <1>5
<1>7. q # NoId /\ NoId \notin kids
  <2>1. NoId[1] \notin Conns /\ NoId[1] \notin Nat
    BY DEF NoId, Conns
  <2>2. q[1] \in Nat
    <3>1. q \in Roots(i)' \/ q[1] \in Conns'
      BY DEF Parents
    <3> QED BY <3>1 DEF Roots, Conns
  <2> QED BY <1>5, <2>1, <2>2
<1>8. \A y \in kids : y \notin Done(i)
  <2> SUFFICES ASSUME NEW y \in kids, y \in Done(i) PROVE FALSE
    OBVIOUS
  <2>1. y[1] \in DOMAIN conn[i] /\ y[1] \in Conns /\ y[2] = conn[i][y[1]].sendseq + 1
        /\ conn[i][y[1]].sendseq \in Nat
    BY <1>4, <1>5
  <2>2. i = Server /\ y[2] \in UpTo(Server, y[1])
    BY <2>1 DEF Done, Roots
  <2> QED BY <2>1, <2>2 DEF UpTo
<1>9. Parents(i) \subseteq Parents(i)' /\ Done(i) \subseteq Done(i)'
  BY WidensSets
<1> HIDE DEF kids
<1>10. /\ Family(new, Parents(i)', Done(i)) /\ Tally(new)
       /\ Grown(ev, new, q, kids)
  <2>1. KidsOf(ev, q) = {}
    BY DEF ev
  <2>2. Family(ev, Parents(i), Done(i)) /\ Tally(ev)
    BY <1>2 DEF Sound
  <2> QED BY <1>1, <1>5, <1>6, <1>7, <1>8, <1>9, <2>1, <2>2, TableGrows
<1>11. Sound(new, Parents(i)', Done(i)')
  BY <1>9, <1>10, SoundGrows DEF Sound
<1> HIDE DEF new
<1>12. kids = Round(i, except, failed)
  BY DEF kids, S, Round
<1> QED BY <1>3, <1>10, <1>11, <1>12 DEF Grows, ev

\* What becomes of the table of j.
CallOf(i) == <<0, rootseq[i] + 1>>
Request(i, n) == <<n, net[n][In(i)][1].seq>>
Evolves(i, n, failed, j) ==
  \/ event'[j] = event[j]
  \/ j = i /\ n = 0 /\ SyncAsks(i, failed) /\ Grows(i, CallOf(i), Round(i, {}, failed))
  \/ /\ j = i /\ i = Server /\ n # 0 /\ SyncRequest(net[n].up[1])
     /\ Grows(i, Request(i, n), Round(i, {n}, failed))
  \/ j = i /\ n # 0 /\ net[n][In(i)][1].type = "response" /\ Drops(i, Request(i, n))

\* Nobody has asked for a request of the next number.
LEMMA NextUnasked ==
  ASSUME IInv, NEW i \in Instance, Families, i \notin dangling, NEW q, q \notin Parents(i), q # NoId
  PROVE  KidsOf(event[i], q) = {} /\ ~IsParent(event[i], q)
<1>1. Family(event[i], Parents(i), Done(i))
  BY DEF Families, Sound
<1>2. KidsOf(event[i], q) = {}
  BY <1>1 DEF KidsOf, Family
<1>3. ~IsParent(event[i], q)
  BY <1>1 DEF IsParent, Family
<1> QED BY <1>2, <1>3

\* A call has the next number.
LEMMA CallIsNew ==
  ASSUME IInv, NEW i \in Instance
  PROVE  /\ CallOf(i) \in Int \X Nat /\ CallOf(i)[1] = 0 /\ CallOf(i)[2] = rootseq[i] + 1
         /\ CallOf(i) # NoId /\ CallOf(i) \notin Parents(i) /\ 0 \notin Conns
         /\ rootseq'[i] = rootseq[i] + 1 => CallOf(i) \in Roots(i)'
<1>1. rootseq[i] \in Nat
  BY Steady
<1>2. CallOf(i) \in Int \X Nat /\ CallOf(i)[1] = 0 /\ CallOf(i)[2] = rootseq[i] + 1
  BY <1>1 DEF CallOf
<1>3. 0 \notin Conns /\ CallOf(i) # NoId
  BY <1>2 DEF Conns, NoId
<1>4. CallOf(i) \notin Roots(i)
  BY <1>1, <1>2 DEF Roots
<1>5. CallOf(i) \notin Parents(i)
  BY <1>2, <1>3, <1>4 DEF Parents
<1>6. rootseq'[i] = rootseq[i] + 1 => CallOf(i) \in Roots(i)'
  BY <1>1, <1>2 DEF Roots
<1> QED BY <1>2, <1>3, <1>5, <1>6

\* ydb_sync,
LEMMA SyncGrows ==
  ASSUME IInv, Families, Widens, NEW i \in Instance, i \notin dangling, i \notin dangling',
         NEW failed, SyncAsks(i, failed)
  PROVE  Grows(i, CallOf(i), Round(i, {}, failed)) /\ rootseq'[i] = rootseq[i] + 1
<1> DEFINE q == CallOf(i)
           e == {}
<1>1. rootseq'[i] = rootseq[i] + 1
  BY Steady DEF SyncAsks, Block
<1>2. q \in Int \X Nat /\ q \notin Parents(i) /\ q # NoId /\ q \in Parents(i)'
      /\ q[1] \in {0} \cup e /\ 0 \notin Conns
  BY <1>1, CallIsNew DEF Parents
<1>3. Asking(i, q, e, failed)
  BY DEF SyncAsks, CallOf
<1> HIDE DEF q, e
<1>4. KidsOf(event[i], q) = {}
  BY <1>2, NextUnasked
<1>5. Grows(i, q, Round(i, e, failed))
  BY <1>2, <1>3, <1>4, AskingGrows
<1> QED BY <1>1, <1>5 DEF q, e

\* a relayed request,
LEMMA RequestGrows ==
  ASSUME IInv, Families, Unasked, Widens, NEW i \in Instance, i \notin dangling, i \notin dangling', NEW n,
         NEW failed, RelayAsks(i, n, failed), TakesFrom(i, n, net[n][In(i)][1]),
         SyncRequest(net[n][In(i)][1]), SyncTargets(conn[i], {n}) # {}
  PROVE  i = Server /\ Grows(i, Request(i, n), Round(i, {n}, failed)) /\ SyncRequest(net[n].up[1])
<1> DEFINE q == Request(i, n)
           e == {n}
           m == net[n][In(i)][1]
<1>1. i = Server
  <2> SUFFICES ASSUME i # Server PROVE FALSE
    OBVIOUS
  <2>1. i \in Client /\ n \in DOMAIN conn[i]
    BY DEF Instance, TakesFrom
  <2>2. \A x \in DOMAIN conn[i] : x = n
    BY <2>1 DEF IInv, Connected
  <2> QED BY <2>2 DEF SyncTargets
<1>2. /\ n \in Conns /\ m.seq \in Nat /\ net[n].up # <<>> /\ m = net[n].up[1]
      /\ m.type = "request" /\ m.seq \in UpTo(ends[n], n)
  BY <1>1 DEF TakesFrom, SyncRequest
<1>3. q \in Int \X Nat /\ q[1] = n /\ q[2] = m.seq
  BY <1>2 DEF Request, Conns
<1>4. q \in Parents(i)
  BY <1>1, <1>2, <1>3 DEF Parents
<1>5. q \in Parents(i)'
  BY <1>4, WidensSets
<1>6. KidsOf(event[i], q) = {}
  <2>1. 1 \in 1..Len(net[n].up)
    BY <1>2, ChannelOf, Queues DEF IInv
  <2> QED BY <1>1, <1>2, <2>1 DEF Unasked, Request
<1>7. Asking(i, q, e, failed) /\ 0 \notin Conns /\ q[1] \in {0} \cup e
  BY <1>3 DEF RelayAsks, Conns, Request
<1> HIDE DEF q, e
<1>8. Grows(i, q, Round(i, e, failed))
  BY <1>3, <1>5, <1>6, <1>7, AskingGrows
<1> QED BY <1>1, <1>2, <1>8 DEF q, e

\* and an answer.
LEMMA AnswerDrops ==
  ASSUME IInv, Families, Widens, NEW i \in Instance, i \notin dangling, NEW n, Resets(i, n),
         TakesFrom(i, n, net[n][In(i)][1]), net[n][In(i)][1].type = "response"
  PROVE  Drops(i, Request(i, n))
<1> DEFINE id == Request(i, n)
           m  == net[n][In(i)][1]
<1>1. event'[i] = Reset(event[i], id, FALSE).table
  BY Steady DEF Resets, Request
<1>2. Sound(event[i], Parents(i), Done(i))
  BY DEF Families
<1>3. n \in Conns /\ m.seq \in Nat /\ (i = Server => m.seq \in UpTo(Server, n))
  BY DEF TakesFrom, Answer
<1>4. id \in Int \X Nat /\ id[1] = n /\ id[2] = m.seq /\ id[1] # 0
  BY <1>3 DEF Request, Conns
<1> HIDE DEF id
<1>5. ASSUME id \in DOMAIN event[i], event[i][id].pid = NoId PROVE id \in Done(i)
  <2>1. id \in Parents(i)
    BY <1>2, <1>5 DEF Sound, Family
  <2>2. i = Server
    BY <1>4, <2>1 DEF Parents, Roots
  <2> QED BY <1>3, <1>4, <2>2 DEF Done
<1>6. /\ Sound(event'[i], Parents(i), Done(i))
      /\ Dropped(event[i], event'[i], id)
  BY <1>1, <1>2, <1>5, TableAnswered
<1>7. Parents(i) \subseteq Parents(i)' /\ Done(i) \subseteq Done(i)'
  BY WidensSets
<1>8. Sound(event'[i], Parents(i)', Done(i)')
  BY <1>6, <1>7, SoundGrows
<1> QED BY <1>6, <1>8 DEF Drops, id

\* The tables after a handler: one of the three.
LEMMA TurnEvents ==
  ASSUME IInv, Serial, Families, Unasked, NEW i \in Instance, NEW n, NEW cn, NEW outs, NEW failed,
         Handles(i, n, cn, outs, failed), Turn(i, n, failed), NEW j \in Instance, j \notin dangling'
  PROVE  Evolves(i, n, failed, j)
<1> DEFINE m == net[n][In(i)][1]
<1>1. Widens /\ i \notin dangling
  BY TurnWidens DEF Turn
<1>2. n # 0 => TakesFrom(i, n, m)
  BY TakenMarks
<1>3. CASE Calm
  BY <1>3 DEF Calm, Evolves
<1>4. CASE j # i /\ ~Calm
  <2>1. \/ SyncAsks(i, failed) \/ RelayAsks(i, n, failed) \/ Resets(i, n)
    BY <1>4 DEF Turn
  <2>2. event'[j] = event[j]
    BY <1>4, <2>1, Steady DEF SyncAsks, RelayAsks, Resets, Asking, Register
  <2> QED BY <2>2 DEF Evolves
<1>5. CASE j = i /\ n = 0 /\ ~Calm
  <2>1. SyncAsks(i, failed)
    BY <1>5 DEF Turn
  <2> QED BY <1>1, <1>5, <2>1, SyncGrows DEF Evolves
<1>6. CASE j = i /\ n # 0 /\ ~Calm
  <2>1. CASE m.type = "response"
    <3>1. Resets(i, n)
      BY <1>6, <2>1 DEF Turn
    <3> QED BY <1>1, <1>2, <1>6, <2>1, <3>1, AnswerDrops DEF Evolves
  <2>2. CASE m.type # "response"
    <3>1. SyncRequest(m) /\ SyncTargets(conn[i], {n}) # {} /\ RelayAsks(i, n, failed)
      BY <1>6, <2>2 DEF Turn
    <3> QED BY <1>1, <1>2, <1>6, <3>1, RequestGrows DEF Evolves
  <2> QED BY <2>1, <2>2
<1> QED BY <1>3, <1>4, <1>5, <1>6

\* The families stay families,
LEMMA FamiliesKeep ==
  ASSUME IInv, Serial, Families, Unasked, NEW i \in Instance, NEW n, NEW cn, NEW outs, NEW failed,
         Handles(i, n, cn, outs, failed), Turn(i, n, failed)
  PROVE  Families'
<1> SUFFICES ASSUME NEW j \in Instance, j \notin dangling'
             PROVE  Sound(event'[j], Parents(j)', Done(j)')
  BY DEF Families
<1>1. Evolves(i, n, failed, j)
  BY TurnEvents
<1>2. CASE event'[j] = event[j]
  <2>1. Widens
    BY TurnWidens
  <2>2. Sound(event[j], Parents(j), Done(j))
    BY <2>1 DEF Families, Widens
  <2> QED BY <1>2, <2>1, <2>2, WidensSets, SoundGrows
<1>3. CASE event'[j] # event[j]
  BY <1>1, <1>3 DEF Evolves, Grows, Drops
<1> QED BY <1>2, <1>3

\* A message in a queue after a handler was there before, behind the one that was
\* taken, or was just sent.
LEMMA UpComesFrom ==
  ASSUME IInv, NEW i \in Instance, NEW n, NEW cn, NEW outs, NEW failed,
         Handles(i, n, cn, outs, failed), NEW x \in Conns, NEW j \in 1..Len(net'[x].up)
  PROVE  \/ \E h \in 1..Len(net[x].up) : net'[x].up[j] = net[x].up[h] /\ (i = Server /\ x = n => h > 1)
         \/ i # Server /\ x \in DOMAIN outs \ broken /\ net'[x].up[j] = outs[x]
<1> DEFINE q == net[x].up
           r == net'[x].up
<1>1. q \in Seq(Msg)
  BY QueueMoves
<1>2. i = Server => Reads(i, n, failed, x, q, r) /\ (x = n => q # <<>>)
  BY QueueMoves, Sides
<1>3. i # Server => Writes(i, outs, x, q, r)
  BY QueueMoves
<1>4. \A y \in DOMAIN outs : outs[y] \in Msg
  BY DEF Handles
<1>5. j \in 1..Len(r)
  OBVIOUS
<1> SUFFICES \/ \E h \in 1..Len(q) : r[j] = q[h] /\ (i = Server /\ x = n => h > 1)
             \/ i # Server /\ x \in DOMAIN outs \ broken /\ r[j] = outs[x]
  OBVIOUS
<1> HIDE DEF q, r
<1>6. CASE i = Server /\ x = n /\ x \notin failed
  <2>1. r = Tail(q) /\ q # <<>>
    BY <1>2, <1>6 DEF Reads
  <2>2. j \in 1..Len(q) - 1 /\ Tail(q)[j] = q[j + 1] /\ j + 1 \in 2..Len(q)
    BY <1>1, <1>5, <2>1, Queues
  <2>3. j + 1 \in 1..Len(q) /\ j + 1 > 1 /\ r[j] = q[j + 1]
    BY <2>1, <2>2
  <2> QED BY <2>3
<1>7. CASE i = Server /\ (x # n \/ x \in failed)
  <2>1. r = <<>> \/ (r = q /\ x # n)
    BY <1>2, <1>7 DEF Reads
  <2>2. r = q /\ x # n
    BY <1>5, <2>1
  <2> QED BY <1>5, <2>2
<1>8. CASE i # Server /\ x \in DOMAIN outs \ broken
  <2>1. r = Append(q, outs[x]) /\ outs[x] \in Msg
    BY <1>3, <1>4, <1>8 DEF Writes
  <2>2. CASE j \in 1..Len(q)
    BY <1>1, <1>8, <2>1, <2>2, Queues
  <2>3. CASE j \notin 1..Len(q)
    <3>1. j = Len(q) + 1
      BY <1>1, <1>5, <2>1, <2>3, Queues
    <3> QED BY <1>1, <1>8, <2>1, <3>1, Queues
  <2> QED BY <2>2, <2>3
<1>9. CASE i # Server /\ x \notin DOMAIN outs \ broken
  BY <1>3, <1>5, <1>9 DEF Writes
<1> QED BY <1>6, <1>7, <1>8, <1>9

\* what the server has not read is unasked,
LEMMA UnaskedKeeps ==
  ASSUME IInv, Serial, Families, Unasked, NEW i \in Instance, NEW n, NEW cn, NEW outs, NEW failed,
         Handles(i, n, cn, outs, failed), Turn(i, n, failed)
  PROVE  Unasked'
<1>1. Conns' = Conns /\ Widens /\ Server \in Instance /\ i \notin dangling
  BY TurnWidens DEF Handles, Conns, Instance, Turn
<1> SUFFICES ASSUME Server \notin dangling', NEW x \in Conns, NEW j \in 1..Len(net'[x].up),
                    net'[x].up[j].type = "request"
             PROVE  KidsOf(event'[Server], <<x, net'[x].up[j].seq>>) = {}
  BY <1>1 DEF Unasked
<1> DEFINE r == net'[x].up[j]
           p == <<x, r.seq>>
<1>2. Server \notin dangling /\ Evolves(i, n, failed, Server)
  BY <1>1, TurnEvents DEF Widens
<1>3. p[1] = x /\ p[2] = r.seq /\ x # 0 /\ x \in Nat
  BY DEF Conns
<1>4. p # NoId /\ p # CallOf(i)
  BY <1>3 DEF NoId, CallOf
<1>5. \/ \E h \in 1..Len(net[x].up) : r = net[x].up[h] /\ (i = Server /\ x = n => h > 1)
      \/ i # Server /\ x \in DOMAIN outs \ broken /\ r = outs[x]
  BY UpComesFrom
<1>6. CASE \E h \in 1..Len(net[x].up) : r = net[x].up[h] /\ (i = Server /\ x = n => h > 1)
  <2>1. PICK h \in 1..Len(net[x].up) : r = net[x].up[h] /\ (i = Server /\ x = n => h > 1)
    BY <1>6
  <2> HIDE DEF r
  <2>2. KidsOf(event[Server], p) = {}
    BY <1>2, <2>1 DEF Unasked, r
  <2>3. i = Server /\ n # 0 /\ SyncRequest(net[n].up[1]) => p # Request(i, n)
    <3> SUFFICES ASSUME i = Server, n # 0, SyncRequest(net[n].up[1]), p = Request(i, n) PROVE FALSE
      OBVIOUS
    <3>1. x = n /\ r.seq = net[n].up[1].seq
      BY <1>3, Sides DEF Request
    <3>2. 1 < h /\ 1 \in 1..Len(net[n].up) /\ h \in 1..Len(net[n].up) /\ r = net[n].up[h]
      BY <2>1, <3>1
    <3>3. Ordered(net[n].up)
      BY <3>1 DEF Serial
    <3>4. net[n].up[1].seq < r.seq
      BY <3>2, <3>3 DEF Ordered, SyncRequest, r
    <3>5. r.seq \in Nat
      <4>1. net[n].up \in Seq(Msg)
        BY <3>1, ChannelOf DEF IInv
      <4>2. r \in Msg
        BY <3>2, <4>1, Queues
      <4> QED BY <4>2 DEF Msg
    <3> QED BY <3>1, <3>4, <3>5
  <2> HIDE DEF p
  <2>4. KidsOf(event'[Server], p) \subseteq KidsOf(event[Server], p)
    BY <1>2, <1>4, <2>3 DEF Evolves, Grows, Drops, Grown, Dropped
  <2>5. KidsOf(event'[Server], p) = {}
    BY <2>2, <2>4
  <2> QED BY <2>5 DEF p, r
<1>7. CASE i # Server /\ x \in DOMAIN outs \ broken /\ r = outs[x]
  <2>1. Marks(i, x, outs[x])
    BY <1>1, <1>7, OutMarks
  <2>2. ends[x] = i /\ r.seq \in Nat /\ \A s \in UpTo(i, x) : s < r.seq
    BY <1>7, <2>1 DEF Marks, Msg
  <2>3. r.seq \notin UpTo(ends[x], x)
    BY <2>2
  <2> HIDE DEF r
  <2>4. p \notin Parents(Server)
    BY <1>3, <2>3 DEF Parents, Roots
  <2> HIDE DEF p
  <2>5. event'[Server] = event[Server]
    BY <1>2, <1>7 DEF Evolves
  <2>6. KidsOf(event'[Server], p) = {}
    BY <1>1, <1>2, <1>4, <2>4, <2>5, NextUnasked
  <2> QED BY <2>6 DEF p, r
<1> QED BY <1>5, <1>6, <1>7

\* and calls wait for events of their own: one ends with the answer that ends its event,
\* and a ydb_sync begins.
CallEnds(i, n) ==
  /\ wait[i] # <<>> /\ wait'[i] = Front(wait[i]) /\ n # 0
  /\ net[n][In(i)][1].type = "response"
  /\ Reset(event[i], Request(i, n), FALSE).ret = wait[i][Len(wait[i])].id
CallBegins(i, n, failed) ==
  /\ n = 0 /\ SyncAsks(i, failed)
  /\ wait'[i] = <<[id |-> CallOf(i), kind |-> "sync", want |-> Wanted(i)]>>

\* A handler ends the innermost call, begins one, or leaves the calls alone.
LEMMA WaitsAfter ==
  ASSUME IInv, NEW i \in Instance, NEW n, NEW failed, Turn(i, n, failed),
         wait' \in [Instance -> Seq(Call)], n = 0 => wait[i] = <<>>, NEW j \in Instance
  PROVE  wait'[j] = wait[j] \/ (j = i /\ (CallEnds(i, n) \/ CallBegins(i, n, failed)))
<1>1. wait \in [Instance -> Seq(Call)]
  BY Steady
<1>2. CASE n = 0 /\ SyncAsks(i, failed)
  <2>1. wait' = [wait EXCEPT ![i] = Append(@, [id |-> CallOf(i), kind |-> "sync", want |-> Wanted(i)])]
    BY <1>2 DEF SyncAsks, Block, CallOf
  <2>2. CASE j = i
    <3>1. wait'[i] = Append(<<>>, [id |-> CallOf(i), kind |-> "sync", want |-> Wanted(i)])
      BY <1>1, <1>2, <2>1
    <3> QED BY <1>2, <2>2, <3>1 DEF CallBegins
  <2>3. CASE j # i
    BY <1>1, <2>1, <2>3
  <2> QED BY <2>2, <2>3
<1>3. CASE n # 0 /\ net[n][In(i)][1].type = "response"
  <2>1. Resets(i, n)
    BY <1>3 DEF Turn
  <2>2. CASE wait' = wait
    BY <2>2
  <2>3. CASE wait' # wait
    <3>1. /\ wait[i] # <<>> /\ Reset(event[i], Request(i, n), FALSE).ret = wait[i][Len(wait[i])].id
          /\ wait' = [wait EXCEPT ![i] = Front(@)]
      BY <2>1, <2>3 DEF Resets, Request
    <3> QED BY <1>1, <1>3, <2>1, <3>1 DEF CallEnds
  <2> QED BY <2>2, <2>3
<1>4. CASE Calm \/ RelayAsks(i, n, failed)
  BY <1>4 DEF Calm, RelayAsks
<1> QED BY <1>2, <1>3, <1>4 DEF Turn

\* A call that waits after a handler did so before, or is the one that it begins.
LEMMA WaitComesFrom ==
  ASSUME IInv, NEW i \in Instance, NEW n, NEW cn, NEW outs, NEW failed,
         Handles(i, n, cn, outs, failed), Turn(i, n, failed), NEW j \in Instance,
         NEW x \in 1..Len(wait'[j])
  PROVE  \/ \E h \in 1..Len(wait[j]) : wait'[j][x] = wait[j][h]
         \/ /\ j = i /\ n = 0 /\ SyncAsks(i, failed)
            /\ wait'[j][x] = [id |-> CallOf(i), kind |-> "sync", want |-> Wanted(i)]
<1>1. wait' \in [Instance -> Seq(Call)] /\ (n = 0 => wait[i] = <<>>)
  BY DEF Handles
<1>2. CASE wait'[j] = wait[j]
  BY <1>2
<1>3. CASE j = i /\ wait[i] # <<>> /\ wait'[i] = Front(wait[i])
  <2>1. wait[i] \in Seq(Call) /\ Len(wait[i]) \in Nat /\ Len(wait[i]) # 0
    BY <1>3, Steady, EmptySeq
  <2>2. wait'[i] = SubSeq(wait[i], 1, Len(wait[i]) - 1)
    BY <1>3 DEF Front
  <2>3. Len(wait'[i]) = Len(wait[i]) - 1 /\ \A h \in 1..Len(wait[i]) - 1 : wait'[i][h] = wait[i][h]
    BY <2>1, <2>2, SubSeqProperties
  <2>4. x \in 1..Len(wait[i]) - 1 /\ x \in 1..Len(wait[i])
    BY <1>3, <2>1, <2>3
  <2> QED BY <1>3, <2>3, <2>4
<1>4. CASE j = i /\ CallBegins(i, n, failed)
  BY <1>4 DEF CallBegins
<1> QED BY <1>1, <1>2, <1>3, <1>4, WaitsAfter DEF CallEnds

\* The calls that wait are of their instance.
LEMMA WaitsKeep ==
  ASSUME IInv, Waits, NEW i \in Instance, NEW n, NEW cn, NEW outs, NEW failed,
         Handles(i, n, cn, outs, failed), Turn(i, n, failed)
  PROVE  Waits'
<1> SUFFICES ASSUME NEW j \in Instance, NEW x \in 1..Len(wait'[j])
             PROVE  wait'[j][x].id \in Roots(j)'
  BY DEF Waits
<1>1. Widens
  BY TurnWidens
<1>2. CASE \E h \in 1..Len(wait[j]) : wait'[j][x] = wait[j][h]
  BY <1>1, <1>2, WidensSets DEF Waits
<1>3. CASE /\ j = i /\ n = 0 /\ SyncAsks(i, failed)
           /\ wait'[j][x] = [id |-> CallOf(i), kind |-> "sync", want |-> Wanted(i)]
  <2>1. rootseq'[i] = rootseq[i] + 1
    BY <1>3, Steady DEF SyncAsks, Block
  <2> QED BY <1>3, <2>1, CallIsNew
<1> QED BY <1>2, <1>3, WaitComesFrom

-----------------------------------------------------------------------------
(***************************************************************************)
(* What answers bring.                                                     *)
(***************************************************************************)

\* A message says of k that it is v or newer; one of the first j messages does; every
\* final answer s comes with or behind such a message.
Tell(m, k, v) == k \in DOMAIN m.data /\ v <= Val(m, k)
Told(q, k, v, j) == \E h \in 1..j : Tell(q[h], k, v)
Finishes(m, s) == m.type = "response" /\ m.seq = s
Promised(q, s, k, v) == \A j \in 1..Len(q) : Finishes(q[j], s) => Told(q, k, v, j)

\* Queues that say a value, after a message more or less.
LEMMA ToldQueues ==
  ASSUME NEW q \in Seq(Msg), NEW k, NEW v
  PROVE  /\ \A m \in Msg :
              /\ Told(q, k, v, Len(q)) \/ Tell(m, k, v) => Told(Append(q, m), k, v, Len(Append(q, m)))
              /\ \A s : /\ Promised(q, s, k, v)
                        /\ Finishes(m, s) => Told(q, k, v, Len(q)) \/ Tell(m, k, v)
                        => Promised(Append(q, m), s, k, v)
         /\ q # <<>> /\ ~Tell(q[1], k, v) =>
              /\ Told(q, k, v, Len(q)) => Told(Tail(q), k, v, Len(Tail(q)))
              /\ \A s : Promised(q, s, k, v) => Promised(Tail(q), s, k, v)
         /\ q # <<>> /\ ~Tell(q[1], k, v) => \A s : Promised(q, s, k, v) => ~Finishes(q[1], s)
<1>1. ASSUME NEW m \in Msg, Told(q, k, v, Len(q)) \/ Tell(m, k, v)
      PROVE  Told(Append(q, m), k, v, Len(Append(q, m)))
  <2>1. /\ Len(Append(q, m)) = Len(q) + 1 /\ Append(q, m)[Len(q) + 1] = m /\ Len(q) \in Nat
        /\ \A j \in 1..Len(q) : Append(q, m)[j] = q[j]
    BY <1>1, Queues
  <2>2. CASE Told(q, k, v, Len(q))
    <3>1. PICK h \in 1..Len(q) : Tell(q[h], k, v)
      BY <2>2 DEF Told
    <3>2. h \in 1..Len(q) + 1 /\ Append(q, m)[h] = q[h]
      BY <2>1
    <3> QED BY <2>1, <3>1, <3>2 DEF Told
  <2>3. CASE Tell(m, k, v)
    <3>1. Len(q) + 1 \in 1..Len(q) + 1
      BY <2>1
    <3> QED BY <2>1, <2>3, <3>1 DEF Told
  <2> QED BY <1>1, <2>2, <2>3
<1>2. ASSUME NEW m \in Msg, NEW s, Promised(q, s, k, v),
             Finishes(m, s) => Told(q, k, v, Len(q)) \/ Tell(m, k, v)
      PROVE  Promised(Append(q, m), s, k, v)
  <2>1. /\ Len(Append(q, m)) = Len(q) + 1 /\ Append(q, m)[Len(q) + 1] = m /\ Len(q) \in Nat
        /\ \A j \in 1..Len(q) : Append(q, m)[j] = q[j]
    BY <1>2, Queues
  <2> SUFFICES ASSUME NEW j \in 1..Len(q) + 1, Finishes(Append(q, m)[j], s)
               PROVE  Told(Append(q, m), k, v, j)
    BY <2>1 DEF Promised
  <2>2. CASE j \in 1..Len(q)
    <3>1. PICK h \in 1..j : Tell(q[h], k, v)
      BY <1>2, <2>1, <2>2 DEF Promised, Told
    <3>2. h \in 1..Len(q)
      BY <2>1, <2>2
    <3>3. Append(q, m)[h] = q[h]
      BY <2>1, <3>2
    <3> QED BY <3>1, <3>3 DEF Told
  <2>3. CASE j = Len(q) + 1
    <3>1. Told(Append(q, m), k, v, Len(Append(q, m)))
      BY <1>1, <1>2, <2>1, <2>3
    <3> QED BY <2>1, <2>3, <3>1
  <2> QED BY <2>1, <2>2, <2>3
<1>3. ASSUME q # <<>>, ~Tell(q[1], k, v), NEW j \in 1..Len(q), Told(q, k, v, j)
      PROVE  j - 1 \in 1..Len(Tail(q)) /\ Told(Tail(q), k, v, j - 1)
  <2>1. PICK h \in 1..j : Tell(q[h], k, v)
    BY <1>3 DEF Told
  <2>2. /\ Len(Tail(q)) = Len(q) - 1 /\ Len(q) \in Nat
        /\ \A g \in 1..Len(q) - 1 : Tail(q)[g] = q[g + 1]
    BY <1>3, Queues
  <2>3. h # 1
    BY <1>3, <2>1
  <2>4. h - 1 \in 1..j - 1 /\ h - 1 \in 1..Len(q) - 1 /\ (h - 1) + 1 = h
    BY <2>2, <2>3
  <2>5. Tail(q)[h - 1] = q[h]
    BY <2>2, <2>4
  <2>6. j - 1 \in 1..Len(Tail(q))
    BY <2>2, <2>4
  <2> QED BY <2>1, <2>4, <2>5, <2>6 DEF Told
<1>4. ASSUME q # <<>>, ~Tell(q[1], k, v), Told(q, k, v, Len(q))
      PROVE  Told(Tail(q), k, v, Len(Tail(q)))
  <2>1. Len(q) \in 1..Len(q) /\ Len(Tail(q)) = Len(q) - 1
    BY <1>4, Queues
  <2> QED BY <1>3, <1>4, <2>1
<1>5. ASSUME q # <<>>, ~Tell(q[1], k, v), NEW s, Promised(q, s, k, v)
      PROVE  Promised(Tail(q), s, k, v) /\ ~Finishes(q[1], s)
  <2>1. /\ Len(Tail(q)) = Len(q) - 1 /\ Len(q) \in Nat /\ 1 \in 1..Len(q)
        /\ \A g \in 1..Len(q) - 1 : Tail(q)[g] = q[g + 1]
    BY <1>5, Queues
  <2>2. ASSUME NEW j \in 1..Len(q) - 1, Finishes(Tail(q)[j], s) PROVE Told(Tail(q), k, v, j)
    <3>1. j + 1 \in 1..Len(q) /\ Tail(q)[j] = q[j + 1] /\ (j + 1) - 1 = j
      BY <2>1
    <3>2. Told(q, k, v, j + 1)
      BY <1>5, <2>2, <3>1 DEF Promised
    <3>3. Told(Tail(q), k, v, (j + 1) - 1)
      BY <1>3, <1>5, <3>1, <3>2
    <3> QED BY <3>1, <3>3
  <2>3. ~Finishes(q[1], s)
    <3> SUFFICES ASSUME Finishes(q[1], s) PROVE FALSE
      OBVIOUS
    <3>1. Told(q, k, v, 1)
      BY <1>5, <2>1 DEF Promised
    <3> QED BY <1>5, <3>1 DEF Told
  <2> QED BY <2>1, <2>2, <2>3 DEF Promised
<1> QED BY <1>1, <1>2, <1>4, <1>5

\* Requests of the server whose answers bring the value v of k from its writer; those
\* of client i; what the server passes on to request p.
Tellers(k, v) ==
  {y \in Int \X Nat : /\ y[1] \in Conns /\ ends[y[1]] \in Writer[k]
                      /\ \A j \in 1..Len(net[y[1]].up) :
                           Finishes(net[y[1]].up[j], y[2]) => Tell(net[y[1]].up[j], k, v)}
RelayBears(p, k, v) == Server \notin dangling => Bears(event[Server], p, Tellers(k, v))
Bringers(i, k, v) ==
  {y \in Int \X Nat :
     /\ y[1] \in Heard /\ ends[y[1]] = i
     /\ y[1] \in DOMAIN conn[i] =>
          /\ Promised(net[y[1]].down, y[2], k, v)
          /\ \/ y[1] \in broken \/ RelayBears(y, k, v)
             \/ Told(net[y[1]].down, k, v, Len(net[y[1]].down))}

\* What a ydb_sync of i may ask for: a value of another writer, the server or a client
\* whose INIT has been read.
Source(i, k, v) ==
  /\ v <= nval[k] /\ i \notin Writer[k]
  /\ \E w \in Instance : Writer[k] = {w} /\ (w = Server \/ \E n \in Heard : ends[n] = w)

\* Its event r brings that value, or i has it.
Givers(i, k, v) == IF i = Server THEN Tellers(k, v) ELSE Bringers(i, k, v)
Due(i, r, k, v) == v <= data[i][k].val \/ Bears(event[i], r, Givers(i, k, v))

\* The invariant behind FreshStep: what the calls c of i want is due.
Calls(i) == {wait[i][x] : x \in 1..Len(wait[i])}
Wants(i, c) ==
  \A k \in DOMAIN c.want : /\ k \in Key /\ c.want[k] \in Nat
                          /\ Source(i, k, c.want[k]) /\ Due(i, c.id, k, c.want[k])
Sought ==
  spent.delete = 0 =>
    \A i \in Instance : i \notin dangling => \A c \in Calls(i) : Wants(i, c)
Base == IInv /\ Rising /\ Serial /\ Families /\ Unasked /\ Waits

\* A handler, its sends and its events.
Acts(i, n, cn, outs, failed) ==
  i \in Instance /\ Handles(i, n, cn, outs, failed) /\ Turn(i, n, failed) /\ spent'.delete = 0

\* What holds at a handler, before it and after it.
LEMMA BaseKeeps ==
  ASSUME Usage, Base, NEW i, NEW n, NEW cn, NEW outs, NEW failed, Acts(i, n, cn, outs, failed)
  PROVE  /\ Base' /\ Widens /\ i \in Instance /\ i \notin dangling
         /\ ends' = ends /\ Conns' = Conns /\ broken' = broken
         /\ Written /\ Upward /\ Downward /\ Undeleted /\ spent.delete = 0
         /\ \A k \in Key : Gains(i, n, k)
         /\ \A j \in Instance, k \in Key : /\ data[j][k].val \in Nat /\ data'[j][k].val \in Nat
                                           /\ data[j][k].val <= data'[j][k].val
<1>1. /\ i \in Instance /\ Handles(i, n, cn, outs, failed) /\ Turn(i, n, failed) /\ spent'.delete = 0
      /\ IInv /\ Rising /\ Serial /\ Families /\ Unasked /\ Waits
  BY DEF Acts, Base
<1>2. IInv' /\ Rising'
  BY <1>1, HandlesKeeps, HandlerRises
<1>3. Serial' /\ Families'
  BY <1>1, SerialKeeps, FamiliesKeep
<1>4. Unasked' /\ Waits'
  BY <1>1, UnaskedKeeps, WaitsKeep
<1>5. Widens /\ i \notin dangling
  BY <1>1, TurnWidens DEF Turn
<1>6. spent.delete = 0
  BY <1>1, StillUndeleted
<1>7. Written /\ Upward /\ Downward /\ Undeleted
  BY <1>1, <1>6 DEF Rising
<1>8. ASSUME NEW k \in Key PROVE Gains(i, n, k)
  BY <1>1, <1>7, HandlerGains
<1>9. ASSUME NEW j \in Instance, NEW k \in Key
      PROVE  /\ data[j][k].val \in Nat /\ data'[j][k].val \in Nat
             /\ data[j][k].val <= data'[j][k].val
  <2>1. data[j][k].val \in Nat
    BY <1>1, Numbers
  <2>2. CASE j = i
    BY <1>8, <2>1, <2>2 DEF Gains
  <2>3. CASE j # i
    BY <1>1, <2>1, <2>3, OthersKeep
  <2> QED BY <2>2, <2>3
<1>10. ends' = ends /\ Conns' = Conns /\ broken' = broken
  BY <1>1 DEF Handles, Conns
<1> QED BY <1>1, <1>2, <1>3, <1>4, <1>5, <1>6, <1>7, <1>8, <1>9, <1>10 DEF Base

\* What a writer holds of its own says the last value of it.
LEMMA MineTells ==
  ASSUME IInv, Written, NEW w \in Instance, NEW k \in Key, w \in Writer[k],
         NEW v \in Nat \ {0}, v <= nval[k], NEW o, o.data = Mine(data[w]), o.op # "delete"
  PROVE  Tell(o, k, v)
<1>1. data[w][k].val = nval[k] /\ nval[k] \in Nat /\ data[w][k].origin = 0
  BY Numbers DEF Written, IInv, Origins
<1>2. k \in DOMAIN Mine(data[w]) /\ Mine(data[w])[k] = data[w][k].val
  BY <1>1 DEF Mine, Present
<1> QED BY <1>1, <1>2 DEF Tell, Val

\* A message that says so leaves its reader with it.
LEMMA TakesTell ==
  ASSUME NEW i \in Instance, NEW n, NEW cn, NEW outs, NEW failed,
         Handles(i, n, cn, outs, failed), n # 0, NEW k \in Key, NEW v,
         Tell(net[n][In(i)][1], k, v)
  PROVE  v <= data'[i][k].val
<1>1. data'[i][k].val = Left(net[n][In(i)], k, data[i][k].val)
  BY TakesValue
<1> QED BY <1>1 DEF Left, Tell

\* Only the server relays, and not to the connection of the answer.
LEMMA RelaysElsewhere ==
  ASSUME IInv, Families, NEW i \in Instance, i \notin dangling, NEW id, NEW p,
         Relay(event[i], id) = p, p[1] \in Conns
  PROVE  i = Server /\ p # NoId /\ p # id
<1>1. p[1] > 0
  BY DEF Conns, IInv, Typed
<1>2. id \in DOMAIN event[i] /\ event[i][id].pid = p /\ p # NoId
  BY <1>1, RelayOf
<1>3. i = Server /\ p[1] # id[1]
  BY SMTT(60), <1>1, <1>2, Steady DEF RelayTable
<1> QED BY <1>2, <1>3

\* The final answer o to request p: i answers it itself, or passes on the one it takes.
AnswersIt(i, n, x, o) ==
  x = n /\ SyncRequest(net[n][In(i)][1]) /\ o.data = Mine(data[i]) /\ SyncTargets(conn[i], {n}) = {}
PassesIt(i, n, p, o) ==
  /\ i = Server /\ net[n].up[1].type = "response" /\ o.data = net[n].up[1].data
  /\ Request(i, n) # p /\ p # NoId
  /\ Reset(event[i], Request(i, n), FALSE).ret = p
Finalises(i, n, x, s, o) ==
  /\ n # 0 /\ o.op # "delete" /\ x \in Conns
  /\ AnswersIt(i, n, x, o) \/ PassesIt(i, n, <<x, s>>, o)

\* A final answer is the own one of an instance that asks nobody, or passed on.
LEMMA FinalOuts ==
  ASSUME Usage, Base, NEW i, NEW n, NEW cn, NEW outs, NEW failed, Acts(i, n, cn, outs, failed),
         NEW x \in DOMAIN outs \ broken, NEW s, Finishes(outs[x], s), ~(i = Server /\ n = x /\ Opens(net[x].up))
  PROVE  Finalises(i, n, x, s, outs[x])
<1> DEFINE o == outs[x]
           m == net[n][In(i)][1]
<1>1. /\ i \in Instance /\ i \notin dangling /\ IInv /\ Serial /\ Families /\ Undeleted
  BY BaseKeeps DEF Base
<1>2. Handles(i, n, cn, outs, failed) /\ Turn(i, n, failed)
  BY DEF Acts
<1>3. Stamp(i, n, x, o) /\ o.type = "response" /\ o.seq = s /\ Answer(o)
  BY <1>2 DEF Handles, Stamps, Finishes, Answer
<1>4. n # 0
  BY <1>3 DEF Stamp
<1>5. TakesFrom(i, n, m)
  BY <1>1, <1>2, <1>4, TakenMarks
<1>6. o.op # "delete"
  <2>1. Current(i, outs)
    BY <1>1, <1>2, OutsCurrent DEF Acts
  <2> QED BY <2>1 DEF Current
<1>7. x \in Conns
  BY <1>1, <1>2, OutMarks DEF Marks
<1> HIDE DEF o, m
<1>8. CASE x = n /\ m.type = "request" /\ o.op = m.op /\
           (m.op = "sync" => o.data = Mine(data[i]) /\ SyncTargets(conn[i], {n}) = {})
  <2>1. m.op \in {"init", "sync"}
    BY <1>2, <1>4, <1>8 DEF Turn, m
  <2>2. m.op # "init"
    BY <1>5, <1>8 DEF TakesFrom
  <2> QED BY <1>4, <1>6, <1>7, <1>8, <2>1, <2>2 DEF SyncRequest, m, o, Finalises, AnswersIt
<1>9. CASE /\ Relay(event[i], <<n, m.seq>>) = <<x, o.seq>> /\ o.data = m.data
           /\ m.type = "response" /\ Reset(event[i], <<n, m.seq>>, FALSE).ret = <<x, o.seq>>
  <2> DEFINE id == <<n, m.seq>>
  <2>1. Relay(event[i], id) = <<x, s>>
    BY <1>3, <1>9
  <2> HIDE DEF id
  <2>2. i = Server /\ <<x, s>> # NoId /\ <<x, s>> # id
    <3> DEFINE p == <<x, s>>
    <3>1. p[1] \in Conns /\ Relay(event[i], id) = p
      BY <1>7, <2>1
    <3> HIDE DEF p
    <3>2. i = Server /\ p # NoId /\ p # id
      BY <1>1, <3>1, RelaysElsewhere
    <3> QED BY <3>2 DEF p
  <2>3. m = net[n].up[1] /\ id = Request(i, n)
    BY <1>5, <2>2 DEF TakesFrom, id, Request, m
  <2> QED BY <1>3, <1>4, <1>6, <1>7, <1>9, <2>2, <2>3 DEF id, o, Finalises, PassesIt
<1> QED BY <1>3, <1>8, <1>9 DEF Stamp, m

\* A teller stays one,
LEMMA TellersKeep ==
  ASSUME Usage, Base, NEW i, NEW n, NEW cn, NEW outs, NEW failed, Acts(i, n, cn, outs, failed),
         NEW k \in Key, NEW v \in Nat \ {0}, v <= nval[k], NEW y \in Tellers(k, v)
  PROVE  y \in Tellers(k, v)'
<1> DEFINE x == y[1]
<1>1. /\ y \in Int \X Nat /\ x \in Conns /\ ends[x] \in Writer[k]
      /\ \A j \in 1..Len(net[x].up) : Finishes(net[x].up[j], y[2]) => Tell(net[x].up[j], k, v)
  BY DEF Tellers
<1>2. /\ i \in Instance /\ i \notin dangling /\ IInv /\ Written
      /\ ends' = ends /\ Conns' = Conns /\ Handles(i, n, cn, outs, failed)
  BY BaseKeeps DEF Base, Acts
<1> HIDE DEF x
<1>3. ASSUME NEW j \in 1..Len(net'[x].up), Finishes(net'[x].up[j], y[2])
      PROVE  Tell(net'[x].up[j], k, v)
  <2>1. CASE \E h \in 1..Len(net[x].up) : net'[x].up[j] = net[x].up[h]
    BY <1>1, <1>3, <2>1
  <2>2. CASE i # Server /\ x \in DOMAIN outs \ broken /\ net'[x].up[j] = outs[x]
    <3>1. Finishes(outs[x], y[2])
      BY <1>3, <2>2
    <3>2. /\ outs[x].op # "delete" /\ x = n /\ outs[x].data = Mine(data[i]) /\ n # 0
      <4>1. Finalises(i, n, x, y[2], outs[x])
        BY <2>2, <3>1, FinalOuts
      <4> QED BY <2>2, <4>1 DEF Finalises, AnswersIt, PassesIt
    <3>3. n \in DOMAIN conn[i]
      BY <1>2, <3>2 DEF Handles
    <3>4. i \in Client
      BY <1>2, <2>2 DEF Instance
    <3>5. ends[n] = i
      BY <1>2, <3>3, <3>4 DEF IInv, Connected
    <3>6. i \in Writer[k]
      BY <1>1, <3>2, <3>5
    <3> QED BY <1>2, <2>2, <3>2, <3>6, MineTells
  <2> QED BY <1>1, <1>2, <1>3, <2>1, <2>2, UpComesFrom
<1> QED BY <1>1, <1>2, <1>3 DEF Tellers, x

\* and its final answer says the value.
LEMMA TellerAnswers ==
  ASSUME NEW k, NEW v, NEW n, net[n].up # <<>>, net[n].up \in Seq(Msg), net[n].up[1].type = "response",
         Request(Server, n) \in Tellers(k, v)
  PROVE  Tell(net[n].up[1], k, v)
<1>1. 1 \in 1..Len(net[n].up)
  BY Queues
<1>2. Finishes(net[n].up[1], net[n].up[1].seq)
  BY DEF Finishes
<1>3. Request(Server, n) = <<n, net[n].up[1].seq>>
  BY Sides DEF Request
<1>4. Request(Server, n)[1] = n /\ Request(Server, n)[2] = net[n].up[1].seq
  BY <1>3
<1> QED BY <1>1, <1>2, <1>4 DEF Tellers

\* The next request to a writer is a teller, as nothing answers it yet,
LEMMA NewTeller ==
  ASSUME Usage, Base, NEW n, NEW cn, NEW outs, NEW failed, Acts(Server, n, cn, outs, failed),
         NEW k \in Key, NEW v, NEW x \in Conns, x \in DOMAIN conn[Server], ends[x] \in Writer[k]
  PROVE  <<x, conn[Server][x].sendseq + 1>> \in Tellers(k, v)'
<1> DEFINE s == conn[Server][x].sendseq
           y == <<x, s + 1>>
<1>1. /\ Server \in Instance /\ IInv /\ Serial /\ ends' = ends /\ Conns' = Conns
      /\ Handles(Server, n, cn, outs, failed)
  BY BaseKeeps DEF Base, Acts
<1>2. s \in Nat /\ x \in Int
  BY <1>1, Tables DEF IInv, Typed, End, Conns
<1> HIDE DEF s
<1>3. ASSUME NEW j \in 1..Len(net'[x].up), Finishes(net'[x].up[j], s + 1) PROVE FALSE
  <2>1. PICK h \in 1..Len(net[x].up) : net'[x].up[j] = net[x].up[h]
    BY <1>1, <1>3, UpComesFrom
  <2>2. Answer(net[x].up[h]) /\ net[x].up[h].seq = s + 1
    BY <1>3, <2>1 DEF Answer, Finishes
  <2>3. s + 1 \in UpTo(Server, x)
    BY <1>1, <2>2 DEF Serial, Marked
  <2> QED BY <1>2, <2>3 DEF UpTo, s
<1>4. y[1] = x /\ y[2] = s + 1 /\ y \in Int \X Nat
  BY <1>2
<1> HIDE DEF y
<1>5. y \in Tellers(k, v)'
  BY <1>1, <1>3, <1>4 DEF Tellers
<1> QED BY <1>5 DEF y, s

\* and the server asks the writers whose INIT it has read.
LEMMA WriterAsked ==
  ASSUME Usage, IInv, NEW k \in Key, NEW w \in Client, w \in Writer[k], NEW x \in Heard, ends[x] = w,
         NEW except, x \notin except
  PROVE  /\ x \in Conns /\ x \notin broken /\ x \in DOMAIN conn[Server]
         /\ x \in SyncTargets(conn[Server], except)
<1>1. w \in Writable /\ w \notin Fragile
  BY Writers
<1>2. x \in Conns /\ ~Opens(net[x].up)
  BY DEF Heard
<1>3. x \notin broken
  BY <1>1, <1>2 DEF IInv, Connected
<1>4. x \in DOMAIN conn[Server]
  BY <1>2, <1>3 DEF IInv, Accepted
<1>5. conn[Server][x].writable
  BY <1>1, <1>2, <1>4 DEF IInv, Accepted
<1> QED BY <1>2, <1>3, <1>4, <1>5 DEF SyncTargets

\* What request p still bears it bears on, unless the server passes the value on, or has
\* just been asked.
Delivers(i, n, p, k, v) ==
  /\ i = Server /\ n # 0 /\ net[n].up[1].type = "response" /\ Tell(net[n].up[1], k, v)
  /\ Request(Server, n) \in DOMAIN event[Server] /\ event[Server][Request(Server, n)].pid = p
JustAsked(i, n, p) == i = Server /\ n # 0 /\ SyncRequest(net[n].up[1]) /\ p = Request(Server, n)
Borne(p, k, v) == Server \notin dangling' => Bears(event'[Server], p, Tellers(k, v)')

\* A relayed request bears a value until the server passes it on.
LEMMA RelayKeeps ==
  ASSUME Usage, Base, NEW i, NEW n, NEW cn, NEW outs, NEW failed, Acts(i, n, cn, outs, failed),
         NEW k \in Key, NEW v \in Nat \ {0}, v <= nval[k],
         NEW p, p[1] \in Conns, p # NoId, RelayBears(p, k, v)
  PROVE  Borne(p, k, v) \/ Delivers(i, n, p, k, v) \/ JustAsked(i, n, p)
<1> DEFINE G == Tellers(k, v)
           H == Tellers(k, v)'
           ev == event[Server]
           new == event'[Server]
<1> SUFFICES ASSUME Server \notin dangling', ~Delivers(i, n, p, k, v), ~JustAsked(i, n, p)
             PROVE  Bears(new, p, H)
  BY DEF Borne
<1>1. /\ i \in Instance /\ IInv /\ Serial /\ Families /\ Unasked /\ Widens
      /\ Handles(i, n, cn, outs, failed) /\ Turn(i, n, failed)
  BY BaseKeeps DEF Base, Acts
<1>2. Server \in Instance /\ Server \notin dangling
  BY <1>1 DEF Instance, Widens
<1>3. Bears(ev, p, G)
  BY <1>2 DEF RelayBears
<1>4. \A y : y \in G => y \in H
  BY <1>1, TellersKeep
<1>5. Evolves(i, n, failed, Server)
  BY <1>1, <1>2, TurnEvents
<1> HIDE DEF ev, new, G, H
<1>6. CASE Bears(new, p, G)
  BY <1>4, <1>6, BearsMore
<1>7. CASE event'[Server] = event[Server]
  BY <1>3, <1>6, <1>7 DEF ev, new
<1>8. CASE Grows(i, CallOf(i), Round(i, {}, failed)) /\ i = Server
  <2>1. p # CallOf(i)
    BY <1>1, CallIsNew
  <2> QED BY <1>3, <1>6, <1>8, <2>1 DEF Grows, Grown, ev, new
<1>9. CASE /\ i = Server /\ n # 0 /\ SyncRequest(net[n].up[1])
           /\ Grows(i, Request(i, n), Round(i, {n}, failed))
  <2>1. p # Request(i, n)
    BY <1>9 DEF JustAsked
  <2> QED BY <1>3, <1>6, <1>9, <2>1 DEF Grows, Grown, ev, new
<1>10. CASE Server = i /\ n # 0 /\ net[n][In(i)][1].type = "response" /\ Drops(i, Request(i, n))
  <2>1. net[n].up # <<>> /\ net[n].up \in Seq(Msg) /\ net[n].up[1].type = "response"
    <3>1. n \in Conns /\ net[n][In(i)] # <<>>
      BY <1>1, <1>10, TakenMarks, Sides DEF TakesFrom
    <3> QED BY <1>1, <1>10, <3>1, ChannelOf, Sides DEF IInv
  <2>2. ASSUME Request(i, n) \in DOMAIN ev, ev[Request(i, n)].pid = p, Request(i, n) \in G
        PROVE  FALSE
    <3>1. Tell(net[n].up[1], k, v)
      BY <1>10, <2>1, <2>2, TellerAnswers DEF G
    <3> QED BY <1>10, <2>1, <2>2, <3>1 DEF Delivers, ev
  <2>3. Spared(ev, Request(i, n), p, G)
    BY <1>3, <2>2 DEF Spared
  <2> QED BY <1>6, <1>10, <2>3 DEF Drops, Dropped, ev, new
<1> QED BY <1>5, <1>7, <1>8, <1>9, <1>10 DEF Evolves

\* The value that is asked for comes with the answer of the server, or its request is
\* borne by one of those that the server asks.
LEMMA RelayStarts ==
  ASSUME Usage, Base, NEW n, NEW cn, NEW outs, NEW failed, Acts(Server, n, cn, outs, failed),
         n # 0, SyncRequest(net[n].up[1]), n \notin broken,
         NEW k \in Key, NEW v \in Nat \ {0}, Source(ends[n], k, v)
  PROVE  Borne(Request(Server, n), k, v) \/ (n \in DOMAIN outs /\ Tell(outs[n], k, v))
<1>1. /\ Server \in Instance /\ IInv /\ Written /\ Undeleted /\ Serial /\ Families /\ Unasked /\ Widens
      /\ Server \notin dangling
      /\ Handles(Server, n, cn, outs, failed) /\ Turn(Server, n, failed)
  BY BaseKeeps DEF Base, Acts
<1>2. TakesFrom(Server, n, net[n].up[1]) /\ net[n][In(Server)] = net[n].up
  BY <1>1, TakenMarks, Sides
<1>3. n \in Conns /\ n \in DOMAIN conn[Server]
  BY <1>2 DEF TakesFrom
<1>4. PICK w \in Instance : Writer[k] = {w} /\ (w = Server \/ \E x \in Heard : ends[x] = w)
  BY DEF Source
<1>5. v <= nval[k] /\ ends[n] # w
  BY <1>4 DEF Source
<1>6. CASE w = Server
  <2>1. n \in DOMAIN outs /\ outs[n].data = Mine(data[Server])
    BY <1>1, <1>2 DEF Handles, Replies, SyncRequest
  <2>2. outs[n].op # "delete"
    BY <1>1, <2>1, OutsCurrent DEF Current, Acts
  <2>3. Tell(outs[n], k, v)
    BY <1>1, <1>4, <1>5, <1>6, <2>1, <2>2, MineTells
  <2> QED BY <2>1, <2>3
<1>7. CASE w # Server
  <2>1. PICK x \in Heard : ends[x] = w
    BY <1>4, <1>7
  <2>2. w \in Client /\ w \in Writer[k] /\ x \notin {n}
    BY <1>4, <1>5, <1>7, <2>1 DEF Instance
  <2>3. /\ x \in Conns /\ x \notin broken /\ x \in DOMAIN conn[Server]
        /\ x \in SyncTargets(conn[Server], {n})
    BY <1>1, <2>1, <2>2, WriterAsked
  <2> DEFINE y == <<x, conn[Server][x].sendseq + 1>>
  <2>4. y \in Tellers(k, v)'
    BY <1>1, <2>1, <2>2, <2>3, NewTeller
  <2>5. x \notin failed
    BY <1>1, <2>3, HandlesEffects DEF Effects, IInv
  <2>6. y \in Round(Server, {n}, failed)
    BY <2>3, <2>5 DEF Round, Kids
  <2>7. RelayAsks(Server, n, failed)
    BY <1>1, <1>2, <2>3 DEF Turn, SyncRequest
  <2> HIDE DEF y
  <2>8. ASSUME Server \notin dangling' PROVE Bears(event'[Server], Request(Server, n), Tellers(k, v)')
    <3>1. SyncTargets(conn[Server], {n}) # {}
      BY <2>3
    <3>2. Grows(Server, Request(Server, n), Round(Server, {n}, failed))
      BY <1>1, <1>2, <2>7, <2>8, <3>1, RequestGrows
    <3>3. Round(Server, {n}, failed) \cap Tellers(k, v)' # {}
      BY <2>4, <2>6
    <3> QED BY <3>2, <3>3 DEF Grows, Grown
  <2> QED BY <2>8 DEF Borne
<1> QED BY <1>6, <1>7

\* The final answer to what bears a value says the value.
LEMMA BringsFinal ==
  ASSUME Usage, Base, NEW n, NEW cn, NEW outs, NEW failed, Acts(Server, n, cn, outs, failed),
         NEW k \in Key, NEW v \in Nat \ {0}, NEW y, y \in Int \X Nat, y[1] \in Heard,
         y[1] \in DOMAIN outs \ broken, Source(ends[y[1]], k, v), RelayBears(y, k, v),
         Finishes(outs[y[1]], y[2])
  PROVE  Tell(outs[y[1]], k, v)
<1> DEFINE x == y[1]
<1>1. /\ Server \in Instance /\ IInv /\ Written /\ Undeleted /\ Serial /\ Families
      /\ Server \notin dangling /\ Handles(Server, n, cn, outs, failed)
  BY BaseKeeps DEF Base, Acts
<1>2. x \in Conns /\ ~Opens(net[x].up)
  BY DEF Heard
<1>3. y = <<x, y[2]>>
  OBVIOUS
<1> HIDE DEF x
<1>4. Finalises(Server, n, x, y[2], outs[x])
  <2>1. x \in DOMAIN outs \ broken /\ Finishes(outs[x], y[2])
    BY DEF x
  <2> QED BY <1>2, <2>1, FinalOuts
<1>5. CASE AnswersIt(Server, n, x, outs[x])
  <2>1. PICK w \in Instance : Writer[k] = {w} /\ (w = Server \/ \E z \in Heard : ends[z] = w)
    BY DEF Source
  <2>2. v <= nval[k] /\ ends[x] # w
    BY <2>1 DEF Source, x
  <2>3. w = Server
    <3> SUFFICES ASSUME w # Server PROVE FALSE
      OBVIOUS
    <3>1. PICK z \in Heard : ends[z] = w
      BY <2>1
    <3>2. w \in Client /\ w \in Writer[k] /\ z \notin {n}
      BY <1>5, <2>1, <2>2, <3>1 DEF Instance, AnswersIt
    <3>3. z \in SyncTargets(conn[Server], {n})
      BY <1>1, <3>1, <3>2, WriterAsked
    <3> QED BY <1>5, <3>3 DEF AnswersIt
  <2>4. outs[x].data = Mine(data[Server]) /\ outs[x].op # "delete"
    BY <1>4, <1>5 DEF AnswersIt, Finalises
  <2>5. Server \in Writer[k]
    BY <2>1, <2>3
  <2>6. Tell(outs[x], k, v)
    BY <1>1, <2>2, <2>4, <2>5, MineTells
  <2> QED BY <2>6 DEF x
<1>6. CASE PassesIt(Server, n, y, outs[x])
  <2>1. /\ net[n].up[1].type = "response" /\ outs[x].data = net[n].up[1].data
        /\ Request(Server, n) # y /\ y # NoId
        /\ Reset(event[Server], Request(Server, n), FALSE).ret = y
    BY <1>6 DEF PassesIt
  <2>2. Bears(event[Server], y, Tellers(k, v))
    BY <1>1 DEF RelayBears
  <2>3. Sound(event[Server], Parents(Server), Done(Server))
    BY <1>1 DEF Families
  <2>4. Request(Server, n) \in Tellers(k, v)
    <3> DEFINE ev == event[Server]
               id == Request(Server, n)
               G  == Tellers(k, v)
               P  == Parents(Server)
               D  == Done(Server)
    <3>1. Ended(ev, P, D, id, y, G)
      BY <2>1, <2>2, <2>3 DEF Ended
    <3> HIDE DEF ev, id, G, P, D
    <3>2. id \in G
      BY <3>1, AnswerEnds
    <3> QED BY <3>2 DEF id, G
  <2>5. n # 0 /\ outs[x].op # "delete"
    BY <1>4 DEF Finalises
  <2>6. net[n].up # <<>> /\ net[n].up \in Seq(Msg) /\ n \in Conns /\ net[n].up[1] \in Msg
    <3>1. n \in Conns /\ net[n].up # <<>>
      BY <1>1, <2>5, TakenMarks DEF TakesFrom
    <3> QED BY SMTT(60), <1>1, <3>1, ChannelOf, Queues DEF IInv
  <2>7. Tell(net[n].up[1], k, v)
    BY <2>1, <2>4, <2>6, TellerAnswers
  <2>8. net[n].up[1].op # "delete"
    BY <1>1, <2>6, KeepingQueues DEF Undeleted
  <2>9. Tell(outs[x], k, v)
    BY <2>1, <2>5, <2>7, <2>8 DEF Tell, Val
  <2> QED BY <2>9 DEF x
<1> QED BY <1>3, <1>4, <1>5, <1>6 DEF Finalises

\* What the server says to client j keeps the promise to it.
LEMMA ServerPromises ==
  ASSUME Usage, Base, NEW n, NEW cn, NEW outs, NEW failed, Acts(Server, n, cn, outs, failed),
         NEW k \in Key, NEW v \in Nat \ {0}, NEW y, y \in Int \X Nat, y[1] \in Heard,
         Source(ends[y[1]], k, v), Promised(net[y[1]].down, y[2], k, v),
         y[1] \in broken \/ RelayBears(y, k, v) \/ Told(net[y[1]].down, k, v, Len(net[y[1]].down))
  PROVE  /\ Promised(net'[y[1]].down, y[2], k, v)
         /\ y[1] \in broken \/ Borne(y, k, v) \/ Told(net'[y[1]].down, k, v, Len(net'[y[1]].down))
<1> DEFINE x == y[1]
           q == net[x].down
           r == net'[x].down
<1>1. /\ Server \in Instance /\ IInv /\ Undeleted /\ Serial /\ Families
      /\ Server \notin dangling /\ Handles(Server, n, cn, outs, failed)
  BY BaseKeeps DEF Base, Acts
<1>2. x \in Conns /\ ~Opens(net[x].up) /\ v <= nval[k]
  BY DEF Heard, Source
<1>3. q \in Seq(Msg) /\ Writes(Server, outs, x, q, r)
  BY <1>1, <1>2, QueueMoves
<1>4. x \notin broken => x \in DOMAIN conn[Server]
  BY <1>1, <1>2 DEF IInv, Accepted
<1>5. ASSUME x \notin broken, RelayBears(y, k, v), ~Borne(y, k, v)
      PROVE  x \in DOMAIN outs /\ Tell(outs[x], k, v)
  <2>1. y # NoId /\ x > 0
    BY <1>2 DEF Conns, NoId, IInv, Typed
  <2>2. Delivers(Server, n, y, k, v) \/ JustAsked(Server, n, y)
    BY <1>2, <1>5, <2>1, RelayKeeps
  <2>3. CASE Delivers(Server, n, y, k, v)
    <3> DEFINE m == net[n].up[1]
               id == Request(Server, n)
    <3>1. n # 0 /\ m.type = "response" /\ Tell(m, k, v) /\ id \in DOMAIN event[Server] /\ event[Server][id].pid = y
      BY <2>3 DEF Delivers
    <3>2. Relay(event[Server], id) = y
      BY <2>1, <3>1 DEF Relay
    <3>3. id = <<n, m.seq>> /\ m = net[n][In(Server)][1]
      BY SMTT(60), Sides DEF Request
    <3>4. x \in DOMAIN outs /\ outs[x].data = m.data
      BY <1>1, <1>4, <1>5, <3>1, <3>2, <3>3 DEF Handles, Replies, Answer
    <3>5. outs[x].op # "delete"
      BY <1>1, <3>4, OutsCurrent DEF Current, Acts
    <3>6. m.op # "delete"
      <4>1. n \in Conns /\ net[n].up # <<>>
        BY <1>1, <3>1, TakenMarks DEF TakesFrom
      <4> QED BY SMTT(60), <1>1, <4>1, ChannelOf, KeepingQueues DEF Undeleted, IInv
    <3> QED BY <3>1, <3>4, <3>5, <3>6 DEF Tell, Val
  <2>4. CASE JustAsked(Server, n, y)
    <3>1. n # 0 /\ SyncRequest(net[n].up[1]) /\ y = Request(Server, n)
      BY <2>4 DEF JustAsked
    <3>2. x = n
      BY <3>1 DEF Request
    <3> QED BY <1>5, <3>1, <3>2, RelayStarts
  <2> QED BY <2>2, <2>3, <2>4
<1>6. CASE x \in DOMAIN outs \ broken
  <2>1. r = Append(q, outs[x]) /\ outs[x] \in Msg
    BY SMTT(60), <1>1, <1>3, <1>6 DEF Writes, Handles
  <2>2. Finishes(outs[x], y[2]) => Told(q, k, v, Len(q)) \/ Tell(outs[x], k, v)
    BY <1>6, BringsFinal
  <2>3. Promised(r, y[2], k, v)
    BY <1>3, <2>1, <2>2, ToldQueues
  <2>4. ASSUME ~Borne(y, k, v) PROVE Told(r, k, v, Len(r))
    <3>1. Told(q, k, v, Len(q)) \/ Tell(outs[x], k, v)
      BY <1>5, <1>6, <2>4
    <3> QED BY <1>3, <2>1, <3>1, ToldQueues
  <2> QED BY SMTT(60), <2>3, <2>4
<1>7. CASE x \notin DOMAIN outs \ broken
  <2>1. r = q
    BY <1>3, <1>7 DEF Writes
  <2> QED BY <1>5, <1>7, <2>1
<1> QED BY <1>6, <1>7

\* What a client reads keeps the promise to it, or it has the value then.
LEMMA ClientPromises ==
  ASSUME Usage, Base, NEW i, i # Server, NEW n, NEW cn, NEW outs, NEW failed, Acts(i, n, cn, outs, failed),
         NEW k \in Key, NEW v \in Nat \ {0}, v <= nval[k], NEW y, y \in Int \X Nat, y[1] \in Heard,
         y[1] \in DOMAIN conn'[ends[y[1]]], Promised(net[y[1]].down, y[2], k, v),
         y[1] \in broken \/ RelayBears(y, k, v) \/ Told(net[y[1]].down, k, v, Len(net[y[1]].down)),
         ~(v <= data'[ends[y[1]]][k].val)
  PROVE  /\ Promised(net'[y[1]].down, y[2], k, v)
         /\ y[1] \in broken \/ Borne(y, k, v) \/ Told(net'[y[1]].down, k, v, Len(net'[y[1]].down))
<1> DEFINE x == y[1]
           q == net[x].down
           r == net'[x].down
<1>1. /\ i \in Instance /\ IInv /\ Serial /\ Handles(i, n, cn, outs, failed)
  BY BaseKeeps DEF Base, Acts
<1>2. x \in Conns /\ x > 0
  BY <1>1 DEF Heard, Conns, IInv, Typed
<1>3. q \in Seq(Msg) /\ Reads(i, n, failed, x, q, r)
  BY <1>1, <1>2, QueueMoves
<1>4. RelayBears(y, k, v) => Borne(y, k, v)
  <2>1. y # NoId
    BY <1>2 DEF NoId
  <2> QED BY <1>2, <2>1, RelayKeeps DEF Delivers, JustAsked
<1>5. x \notin failed
  <2> SUFFICES ASSUME x \in failed PROVE FALSE
    OBVIOUS
  <2>1. x \in DOMAIN outs
    BY <1>1, HandlesEffects DEF Effects, IInv
  <2>2. x \in DOMAIN conn[i]
    BY <1>1, <2>1, SaysValue
  <2>3. ends[x] = i
    BY <1>1, <2>2 DEF IInv, Connected, Instance
  <2>4. x \in DOMAIN conn'[i]
    BY <2>3
  <2> QED BY <1>1, <2>4, SeqSteps
<1>6. CASE x = n
  <2>1. r = Tail(q) /\ q # <<>> /\ n # 0
    BY <1>1, <1>2, <1>3, <1>5, <1>6, QueueMoves, Sides DEF Reads
  <2>2. ends[n] = i /\ net[n][In(i)] = q
    <3>1. n \in DOMAIN conn[i]
      BY <1>1, <2>1 DEF Handles
    <3> QED BY <1>1, <1>6, <3>1, Sides DEF IInv, Connected, Instance
  <2>3. ~Tell(q[1], k, v)
    BY <1>1, <1>6, <2>1, <2>2, TakesTell
  <2> QED BY <1>3, <1>4, <2>1, <2>3, ToldQueues
<1>7. CASE x # n
  <2>1. r = q
    BY <1>3, <1>5, <1>7 DEF Reads
  <2> QED BY <1>4, <2>1
<1> QED BY <1>6, <1>7

\* What brings a value brings it on, or the client has it.
LEMMA BringersKeep ==
  ASSUME Usage, Base, NEW i, NEW n, NEW cn, NEW outs, NEW failed, Acts(i, n, cn, outs, failed),
         NEW j \in Client, NEW k \in Key, NEW v \in Nat \ {0}, Source(j, k, v), NEW y \in Bringers(j, k, v),
         ~(v <= data'[j][k].val)
  PROVE  y \in Bringers(j, k, v)'
<1> DEFINE x == y[1]
<1>1. /\ i \in Instance /\ IInv /\ Handles(i, n, cn, outs, failed) /\ Widens /\ ends' = ends /\ broken' = broken
  BY BaseKeeps DEF Base, Acts
<1>2. /\ y \in Int \X Nat /\ x \in Heard /\ ends[x] = j
      /\ x \in DOMAIN conn[j] =>
           /\ Promised(net[x].down, y[2], k, v)
           /\ x \in broken \/ RelayBears(y, k, v) \/ Told(net[x].down, k, v, Len(net[x].down))
  BY DEF Bringers
<1>3. x \in Heard' /\ ends'[x] = j /\ v <= nval[k]
  BY <1>1, <1>2 DEF Widens, Source
<1> HIDE DEF x
<1>4. ASSUME x \in DOMAIN conn'[j]
      PROVE  /\ Promised(net'[x].down, y[2], k, v)
             /\ x \in broken \/ Borne(y, k, v) \/ Told(net'[x].down, k, v, Len(net'[x].down))
  <2>1. x \in DOMAIN conn[j]
    <3>1. CASE j = i
      BY <1>1, <1>4, <3>1, SeqSteps
    <3>2. CASE j # i
      <4>1. conn'[j] = conn[j]
        BY <1>1, <3>2, OthersKeep DEF Instance
      <4> QED BY <1>4, <4>1
    <3> QED BY <3>1, <3>2
  <2>2. CASE i = Server
    BY <1>2, <2>1, <2>2, ServerPromises DEF x
  <2>3. CASE i # Server
    BY <1>2, <1>3, <1>4, <2>1, <2>3, ClientPromises DEF x
  <2> QED BY <2>2, <2>3
<1> QED BY <1>1, <1>2, <1>3, <1>4 DEF Bringers, Borne, RelayBears, x

\* The answer to what gives a value says it.
LEMMA GiverAnswers ==
  ASSUME Usage, Base, NEW i, NEW n, NEW cn, NEW outs, NEW failed, Acts(i, n, cn, outs, failed),
         n # 0, net[n][In(i)][1].type = "response",
         NEW k \in Key, NEW v \in Nat \ {0}, Request(i, n) \in Givers(i, k, v)
  PROVE  v <= data'[i][k].val
<1>1. /\ i \in Instance /\ IInv /\ Serial /\ Handles(i, n, cn, outs, failed)
  BY BaseKeeps DEF Base, Acts
<1>2. TakesFrom(i, n, net[n][In(i)][1])
  BY <1>1, TakenMarks
<1>3. n \in Conns /\ n \in DOMAIN conn[i]
  BY <1>2 DEF TakesFrom
<1>4. net[n].up \in Seq(Msg) /\ net[n].down \in Seq(Msg)
  BY <1>1, <1>3, ChannelOf DEF IInv
<1>5. Tell(net[n][In(i)][1], k, v)
  <2>1. CASE i = Server
    <3>1. net[n].up # <<>> /\ net[n].up[1].type = "response" /\ net[n][In(i)] = net[n].up
      BY <1>2, <2>1, Sides DEF TakesFrom
    <3>2. Request(Server, n) \in Tellers(k, v)
      BY <2>1 DEF Givers
    <3> QED BY <1>4, <3>1, <3>2, TellerAnswers
  <2>2. CASE i # Server
    <3> DEFINE m == net[n].down[1]
    <3>1. net[n].down # <<>> /\ m.type = "response" /\ net[n][In(i)] = net[n].down
      BY <1>2, <2>2, Sides DEF TakesFrom
    <3>2. Request(i, n)[1] = n /\ Request(i, n)[2] = m.seq
      BY <3>1 DEF Request
    <3>3. Request(i, n) \in Bringers(i, k, v)
      BY <2>2 DEF Givers
    <3>4. Promised(net[n].down, m.seq, k, v)
      BY <1>3, <3>2, <3>3 DEF Bringers
    <3>5. Finishes(m, m.seq) /\ 1 \in 1..Len(net[n].down)
      BY <1>4, <3>1, Queues DEF Finishes
    <3>6. Told(net[n].down, k, v, 1)
      BY <3>4, <3>5 DEF Promised
    <3> QED BY <3>1, <3>6 DEF Told
  <2> QED BY <2>1, <2>2
<1> QED BY <1>1, <1>5, TakesTell

\* What is due stays due until it is there.
LEMMA SourceKeeps ==
  ASSUME Usage, Base, NEW i, NEW n, NEW cn, NEW outs, NEW failed, Acts(i, n, cn, outs, failed),
         NEW j, NEW k \in Key, NEW v \in Nat, Source(j, k, v)
  PROVE  Source(j, k, v)'
<1>1. /\ Gains(i, n, k) /\ Heard \subseteq Heard' /\ ends' = ends /\ IInv
  BY BaseKeeps DEF Base, Widens
<1>2. v <= nval'[k]
  <2>1. nval[k] \in Nat /\ nval'[k] \in Nat /\ nval[k] <= nval'[k]
    BY <1>1 DEF Gains, IInv, Typed
  <2> QED BY <2>1 DEF Source
<1> QED BY <1>1, <1>2 DEF Source

\* A handler of any instance keeps what is due.
LEMMA DueKeeps ==
  ASSUME Usage, Base, NEW i, NEW n, NEW cn, NEW outs, NEW failed, Acts(i, n, cn, outs, failed),
         NEW j \in Instance, j \notin dangling', NEW r \in Roots(j), NEW k \in Key, NEW v \in Nat,
         Source(j, k, v), Due(j, r, k, v)
  PROVE  Due(j, r, k, v)'
<1> DEFINE ev == event[j]
           new == event'[j]
           G == Givers(j, k, v)
           H == Givers(j, k, v)'
<1>1. /\ i \in Instance /\ IInv /\ Serial /\ Families /\ Unasked /\ Widens
      /\ Handles(i, n, cn, outs, failed) /\ Turn(i, n, failed)
      /\ data[j][k].val \in Nat /\ data'[j][k].val \in Nat /\ data[j][k].val <= data'[j][k].val
      /\ i \notin dangling
  BY BaseKeeps DEF Base, Acts
<1>2. SUFFICES ASSUME ~(v <= data'[j][k].val) PROVE Bears(new, r, H)
  BY DEF Due, Bears, KidsOf, IsParent, Lost
<1>3. v \in Nat \ {0} /\ Bears(ev, r, G) /\ v <= nval[k]
  BY <1>1, <1>2 DEF Due, Source
<1>4. \A y : y \in G => y \in H
  <2>1. CASE j = Server
    BY <1>3, <2>1, TellersKeep DEF Givers
  <2>2. CASE j # Server
    BY <1>2, <1>3, <2>2, BringersKeep DEF Givers, Instance
  <2> QED BY <2>1, <2>2
<1>5. Evolves(i, n, failed, j)
  BY <1>1, TurnEvents
<1>6. r[1] = 0 /\ r \in Parents(j)
  BY DEF Roots, Parents
<1> HIDE DEF ev, new, G, H
<1>7. CASE Bears(new, r, G)
  BY <1>4, <1>7, BearsMore
<1>8. CASE event'[j] = event[j]
  BY <1>3, <1>7, <1>8 DEF ev, new
<1>9. CASE Grows(i, CallOf(i), Round(i, {}, failed)) /\ j = i
  <2>1. r # CallOf(i)
    BY <1>1, <1>6, <1>9, CallIsNew
  <2> QED BY <1>3, <1>7, <1>9, <2>1 DEF Grows, Grown, ev, new
<1>10. CASE /\ j = i /\ i = Server /\ n # 0 /\ SyncRequest(net[n].up[1])
            /\ Grows(i, Request(i, n), Round(i, {n}, failed))
  <2>1. r # Request(i, n)
    BY <1>6, <1>10 DEF Request
  <2> QED BY <1>3, <1>7, <1>10, <2>1 DEF Grows, Grown, ev, new
<1>11. CASE j = i /\ n # 0 /\ net[n][In(i)][1].type = "response" /\ Drops(i, Request(i, n))
  <2>1. ASSUME Request(i, n) \in G PROVE FALSE
    <3>1. Request(i, n) \in Givers(i, k, v)
      BY <1>11, <2>1 DEF G
    <3>2. v <= data'[i][k].val
      BY <1>3, <1>11, <3>1, GiverAnswers
    <3> QED BY <1>2, <1>11, <3>2
  <2>2. Spared(ev, Request(i, n), r, G)
    BY <1>3, <2>1 DEF Spared
  <2> QED BY <1>7, <1>11, <2>2 DEF Drops, Dropped, ev, new
<1> QED BY <1>5, <1>8, <1>9, <1>10, <1>11 DEF Evolves

\* The next request of a client brings every value, as nothing answers it yet and the
\* server has not seen it.
LEMMA NewBringer ==
  ASSUME Usage, Base, NEW i \in Client, NEW cn, NEW outs, NEW failed, Acts(i, 0, cn, outs, failed),
         NEW k \in Key, NEW v \in Nat, NEW x \in Heard, x \in DOMAIN conn[i]
  PROVE  <<x, conn[i][x].sendseq + 1>> \in Bringers(i, k, v)'
<1> DEFINE s == conn[i][x].sendseq
           y == <<x, s + 1>>
<1>1. /\ i \in Instance /\ IInv /\ Serial /\ Families /\ Unasked /\ ends' = ends /\ Conns' = Conns /\ Widens
      /\ Handles(i, 0, cn, outs, failed) /\ Turn(i, 0, failed) /\ i # Server /\ Server \in Instance
  BY BaseKeeps, InstanceAssumption DEF Base, Acts, Instance
<1>2. s \in Nat /\ x \in Int /\ x > 0 /\ x \in Conns /\ ends[x] = i
  BY SMTT(60), <1>1, Tables DEF IInv, Typed, End, Conns, Heard, Connected
<1>3. x \in Heard' /\ ends'[x] = i
  BY <1>1, <1>2 DEF Widens
<1> HIDE DEF s
<1>4. s + 1 \notin UpTo(i, x)
  BY <1>2 DEF UpTo, s
<1>5. ASSUME x \in DOMAIN conn'[i] PROVE Promised(net'[x].down, s + 1, k, v)
  <2>1. x \notin failed
    BY <1>1, <1>5, SeqSteps
  <2>2. net'[x].down = net[x].down
    <3>1. x # 0
      BY <1>2
    <3> QED BY <1>1, <1>2, <2>1, <3>1, QueueMoves DEF Reads
  <2>3. \A h \in 1..Len(net[x].down) : Answer(net[x].down[h]) => net[x].down[h].seq \in UpTo(i, x)
    BY <1>1, <1>2 DEF Serial, Marked
  <2> QED BY <1>4, <2>2, <2>3 DEF Promised, Finishes, Answer
<1>6. y[1] = x /\ y[2] = s + 1 /\ y \in Int \X Nat /\ y # NoId
  BY <1>2 DEF NoId
<1> HIDE DEF y
<1>7. Borne(y, k, v)
  <2> SUFFICES ASSUME Server \notin dangling' PROVE Bears(event'[Server], y, Tellers(k, v)')
    BY DEF Borne
  <2>1. event'[Server] = event[Server] /\ Server \notin dangling
    BY ZenonT(60), <1>1, TurnEvents DEF Evolves, Widens
  <2>2. y \notin Parents(Server)
    BY <1>2, <1>4, <1>6 DEF Parents, Roots
  <2>3. ~IsParent(event[Server], y)
    BY <1>1, <1>6, <2>1, <2>2, NextUnasked
  <2> QED BY <2>1, <2>3 DEF Bears
<1>8. y \in Bringers(i, k, v)'
  BY <1>3, <1>5, <1>6, <1>7 DEF Bringers, Borne, RelayBears
<1> QED BY <1>8 DEF y, s

\* What ydb_sync asks for, and whom.
LEMMA LinkedHeard ==
  ASSUME IInv, NEW c \in Linked
  PROVE  c \in Client /\ \E x \in Heard : ends[x] = c /\ x \in DOMAIN conn[c] /\ x \notin broken
<1>1. PICK x \in Links : ends[x] = c
  BY DEF Linked
<1>2. x \in DOMAIN conn[Server] /\ x \notin broken /\ x \in DOMAIN conn[c]
      /\ \A y \in DOMAIN net[x].up : net[x].up[y].op # "init"
  BY <1>1 DEF Links
<1>3. x \in Conns
  BY <1>2 DEF IInv, Connected, Instance
<1>4. net[x].up \in Seq(Msg) /\ c \in Client
  BY <1>1, <1>3, ChannelOf DEF IInv
<1>5. ~Opens(net[x].up)
  BY <1>2, <1>4, Queues DEF Opens
<1> QED BY <1>1, <1>2, <1>3, <1>4, <1>5 DEF Heard

\* What ydb_sync wants is of a writer that it asks, directly or through the server.
LEMMA WantedFrom ==
  ASSUME Usage, IInv, NEW i \in Instance, NEW k \in DOMAIN Wanted(i)
  PROVE  /\ k \in Key /\ Wanted(i)[k] = nval[k] /\ nval[k] \in Nat
         /\ Source(i, k, nval[k])
         /\ i # Server => i \in Linked
<1>1. k \in Key /\ Wanted(i)[k] = nval[k] /\ \E w \in Asked(i) : Writer[k] = {w}
  BY DEF Wanted
<1>2. PICK w \in Asked(i) : Writer[k] = {w}
  BY <1>1
<1>3. nval[k] \in Nat
  BY <1>1 DEF IInv, Typed
<1>4. (w = Server /\ i # Server) \/ (w \in Linked /\ w # i)
  <2>1. CASE i = Server
    <3>1. w \in Linked /\ w \in Client
      BY <1>2, <2>1, LinkedHeard DEF Asked
    <3> QED BY <2>1, <3>1, InstanceAssumption
  <2>2. CASE i # Server
    BY <1>2, <2>2 DEF Asked
  <2> QED BY <2>1, <2>2
<1>5. i # Server => i \in Linked
  BY <1>2 DEF Asked
<1>6. w \in Instance /\ (w = Server \/ \E x \in Heard : ends[x] = w)
  BY <1>4, LinkedHeard DEF Instance
<1>7. i \notin Writer[k]
  BY <1>2, <1>4
<1> QED BY <1>1, <1>2, <1>3, <1>5, <1>6, <1>7 DEF Source

\* The event of a call bears what the call asks for.
LEMMA SyncStartsDue ==
  ASSUME Usage, Base, NEW i, NEW cn, NEW outs, NEW failed, Acts(i, 0, cn, outs, failed),
         SyncAsks(i, failed), i \notin dangling', NEW k \in DOMAIN Wanted(i), NEW v \in Nat, v = nval[k],
         NEW r, r = CallOf(i)
  PROVE  Due(i, r, k, v)'
<1>1. /\ i \in Instance /\ IInv /\ Serial /\ Families /\ Unasked /\ Widens /\ i \notin dangling
      /\ Handles(i, 0, cn, outs, failed) /\ Turn(i, 0, failed)
  BY BaseKeeps DEF Base, Acts
<1>2. k \in Key /\ Source(i, k, v) /\ (i # Server => i \in Linked)
  BY <1>1, WantedFrom
<1>3. Grows(i, CallOf(i), Round(i, {}, failed))
  BY <1>1, SyncGrows
<1>4. ASSUME NEW y \in Round(i, {}, failed), y \in Givers(i, k, v)' PROVE Due(i, r, k, v)'
  <2>1. Round(i, {}, failed) \cap Givers(i, k, v)' # {}
    BY <1>4
  <2>2. Bears(event'[i], r, Givers(i, k, v)')
    BY <1>3, <2>1 DEF Grows, Grown
  <2> QED BY <2>2 DEF Due, Bears, KidsOf, IsParent, Lost
<1>5. CASE i = Server
  <2>1. PICK w \in Instance : Writer[k] = {w} /\ (w = Server \/ \E x \in Heard : ends[x] = w)
    BY <1>2 DEF Source
  <2>2. w # Server
    BY <1>2, <1>5, <2>1 DEF Source
  <2>3. PICK x \in Heard : ends[x] = w
    BY <2>1, <2>2
  <2>4. w \in Client /\ w \in Writer[k] /\ x \notin {}
    BY <2>1, <2>2 DEF Instance
  <2>5. /\ x \in Conns /\ x \notin broken /\ x \in DOMAIN conn[Server]
        /\ x \in SyncTargets(conn[Server], {})
    BY <1>1, <1>2, <2>3, <2>4, WriterAsked
  <2> DEFINE y == <<x, conn[Server][x].sendseq + 1>>
  <2>6. x \notin failed
    BY <1>1, <2>5, HandlesEffects DEF Effects, IInv
  <2>7. y \in Round(i, {}, failed)
    BY <1>5, <2>5, <2>6 DEF Round, Kids
  <2>8. y \in Tellers(k, v)'
    BY <1>2, <1>5, <2>3, <2>4, <2>5, NewTeller
  <2> HIDE DEF y
  <2>9. y \in Givers(i, k, v)'
    BY <1>5, <2>8 DEF Givers
  <2> QED BY <1>4, <2>7, <2>9
<1>6. CASE i # Server
  <2>1. i \in Client /\ i \in Linked
    BY <1>1, <1>2, <1>6 DEF Instance
  <2>2. PICK x \in Heard : ends[x] = i /\ x \in DOMAIN conn[i] /\ x \notin broken
    BY <1>1, <2>1, LinkedHeard
  <2>3. conn[i][x].status = "client"
    BY <1>1, <2>1, <2>2 DEF IInv, Connected
  <2> DEFINE y == <<x, conn[i][x].sendseq + 1>>
  <2>4. x \notin failed
    BY <1>1, <2>2, HandlesEffects DEF Effects, IInv
  <2>5. y \in Round(i, {}, failed)
    BY <2>2, <2>3, <2>4 DEF Round, Kids, SyncTargets
  <2>6. y \in Bringers(i, k, v)'
    BY <1>2, <2>1, <2>2, NewBringer
  <2> HIDE DEF y
  <2>7. y \in Givers(i, k, v)'
    BY <1>6, <2>6 DEF Givers
  <2> QED BY <1>4, <2>5, <2>7
<1> QED BY <1>5, <1>6

\* What calls want stays due,
LEMMA WantsKeep ==
  ASSUME Usage, Base, NEW i, NEW n, NEW cn, NEW outs, NEW failed, Acts(i, n, cn, outs, failed),
         NEW j \in Instance, j \notin dangling', NEW c, c.id \in Roots(j), Wants(j, c)
  PROVE  Wants(j, c)'
<1> SUFFICES ASSUME NEW k \in DOMAIN c.want, NEW v, v = c.want[k]
             PROVE  k \in Key /\ v \in Nat /\ Source(j, k, v)' /\ Due(j, c.id, k, v)'
  BY DEF Wants
<1>1. k \in Key /\ v \in Nat /\ Source(j, k, v) /\ Due(j, c.id, k, v)
  BY DEF Wants
<1> DEFINE r == c.id
<1>2. r \in Roots(j) /\ Due(j, r, k, v)
  BY <1>1
<1> HIDE DEF r
<1>3. Due(j, r, k, v)'
  BY <1>1, <1>2, DueKeeps
<1> QED BY <1>1, <1>3, SourceKeeps DEF r

\* so that the invariant is kept by handlers,
LEMMA SoughtKeeps ==
  ASSUME Usage, Base, Sought, NEW i, NEW n, NEW cn, NEW outs, NEW failed, Acts(i, n, cn, outs, failed)
  PROVE  Sought'
<1>1. /\ i \in Instance /\ IInv /\ Waits /\ Widens /\ spent.delete = 0
      /\ Handles(i, n, cn, outs, failed) /\ Turn(i, n, failed)
  BY BaseKeeps DEF Base, Acts
<1> SUFFICES ASSUME NEW j \in Instance, j \notin dangling', NEW c \in Calls(j)'
             PROVE  Wants(j, c)'
  BY DEF Sought
<1>2. PICK x \in 1..Len(wait'[j]) : c = wait'[j][x]
  BY DEF Calls
<1>3. CASE \E h \in 1..Len(wait[j]) : wait'[j][x] = wait[j][h]
  <2>1. PICK h \in 1..Len(wait[j]) : c = wait[j][h]
    BY <1>2, <1>3
  <2>2. c \in Calls(j) /\ c.id \in Roots(j)
    BY <1>1, <2>1 DEF Calls, Waits
  <2>3. Wants(j, c)
    BY <1>1, <2>2 DEF Sought, Widens
  <2> QED BY <2>2, <2>3, WantsKeep
<1>4. CASE /\ j = i /\ n = 0 /\ SyncAsks(i, failed)
           /\ wait'[j][x] = [id |-> CallOf(i), kind |-> "sync", want |-> Wanted(i)]
  <2>1. c.id = CallOf(i) /\ c.want = Wanted(i)
    BY <1>2, <1>4
  <2>2. ASSUME NEW k \in DOMAIN c.want, NEW v, v = c.want[k]
        PROVE  k \in Key /\ v \in Nat /\ Source(j, k, v)' /\ Due(j, c.id, k, v)'
    <3>1. k \in DOMAIN Wanted(i) /\ k \in Key /\ v = nval[k] /\ v \in Nat /\ Source(i, k, v)
      BY <1>1, <2>1, <2>2, WantedFrom
    <3>2. Source(i, k, v)'
      BY <3>1, SourceKeeps
    <3> DEFINE r == c.id
    <3>3. r = CallOf(i)
      BY <2>1
    <3> HIDE DEF r
    <3>4. Due(i, r, k, v)'
      BY <1>4, <3>1, <3>3, SyncStartsDue
    <3> QED BY <1>4, <3>1, <3>2, <3>4 DEF r
  <2> QED BY <2>2 DEF Wants
<1> QED BY <1>1, <1>2, <1>3, <1>4, WaitComesFrom

\* and a call that an answer ends has what it wants.
LEMMA EndsFresh ==
  ASSUME Usage, Base, Sought, NEW i, NEW n, NEW cn, NEW outs, NEW failed, Acts(i, n, cn, outs, failed)
  PROVE  FreshStep
<1>1. /\ i \in Instance /\ IInv /\ Waits /\ Families /\ Widens /\ spent.delete = 0 /\ i \notin dangling
      /\ Handles(i, n, cn, outs, failed) /\ Turn(i, n, failed)
  BY BaseKeeps DEF Base, Acts
<1> SUFFICES ASSUME NEW j \in Instance, Len(wait'[j]) < Len(wait[j]),
                    NEW k \in DOMAIN wait[j][Len(wait[j])].want
             PROVE  wait[j][Len(wait[j])].want[k] <= data'[j][k].val
  <2>1. ASSUME NEW j \in Instance, Len(wait'[j]) < Len(wait[j]),
               NEW k \in DOMAIN wait[j][Len(wait[j])].want
        PROVE  data'[j][k].val >= wait[j][Len(wait[j])].want[k]
    <3>1. wait[j] \in Seq(Call) /\ Len(wait[j]) \in Nat
      BY <1>1 DEF IInv, Typed
    <3> QED BY <2>1
  <2> QED BY <2>1 DEF FreshStep
<1> DEFINE c == wait[j][Len(wait[j])]
           v == c.want[k]
           id == Request(i, n)
<1>2. wait \in [Instance -> Seq(Call)] /\ wait' \in [Instance -> Seq(Call)] /\ (n = 0 => wait[i] = <<>>)
  BY <1>1 DEF IInv, Typed, Handles
<1>3. wait'[j] # wait[j] /\ Len(wait[j]) \in 1..Len(wait[j])
  <2>1. Len(wait[j]) \in Nat /\ Len(wait'[j]) \in Nat
    BY <1>2
  <2> QED BY <2>1
<1>4. ~(j = i /\ CallBegins(i, n, failed))
  <2> SUFFICES ASSUME j = i, n = 0 PROVE FALSE
    BY DEF CallBegins
  <2>1. wait[j] = <<>>
    BY <1>2
  <2> QED BY <1>3, <2>1
<1>5. /\ j = i /\ n # 0 /\ net[n][In(i)][1].type = "response"
      /\ Reset(event[i], id, FALSE).ret = c.id
  <2>1. j = i /\ CallEnds(i, n)
    BY <1>1, <1>2, <1>3, <1>4, WaitsAfter
  <2> QED BY <2>1 DEF CallEnds
<1>6. c \in Calls(i) /\ c.id \in Roots(i)
  BY <1>1, <1>3, <1>5 DEF Calls, Waits
<1>7. Wants(i, c)
  BY <1>1, <1>6 DEF Sought
<1>8. k \in Key /\ v \in Nat /\ Due(i, c.id, k, v)
  BY <1>7 DEF Wants
<1>9. data[i][k].val \in Nat /\ data'[i][k].val \in Nat /\ data[i][k].val <= data'[i][k].val
  BY <1>1, <1>8, BaseKeeps
<1> DEFINE r == c.id
<1>10. r[1] = 0 /\ r # NoId /\ r # id
  BY <1>5, <1>6 DEF Roots, NoId, Request
<1> HIDE DEF c, v, id
<1>11. CASE v # 0 /\ Bears(event[i], r, Givers(i, k, v))
  <2> DEFINE P == Parents(i)
             D == Done(i)
             G == Givers(i, k, v)
  <2>1. Ended(event[i], P, D, id, r, G)
    BY <1>1, <1>5, <1>10, <1>11 DEF Ended, Families
  <2> HIDE DEF P, D, G
  <2>2. id \in G
    BY <2>1, AnswerEnds
  <2>3. Request(i, n) \in Givers(i, k, v) /\ v \in Nat \ {0}
    BY <1>8, <1>11, <2>2 DEF G, id
  <2>4. v <= data'[i][k].val
    BY <1>5, <1>8, <2>3, GiverAnswers
  <2> QED BY <1>5, <2>4 DEF v, c
<1>12. CASE v = 0 \/ v <= data[i][k].val
  <2>1. v <= data'[i][k].val
    BY <1>8, <1>9, <1>12
  <2> QED BY <1>5, <2>1 DEF v, c
<1> QED BY <1>8, <1>11, <1>12 DEF Due, r

-----------------------------------------------------------------------------
(***************************************************************************)
(* The other steps.                                                        *)
(***************************************************************************)

\* Steps that keep the data, at most lose messages and ends, and leave to the events what
\* they bear.
Stands ==
  /\ Widens /\ UNCHANGED <<data, nval>> /\ spent'.delete = spent.delete
  /\ \A x \in Conns : net'[x].up \in {net[x].up, <<>>}
  /\ \A c \in Client : \A x \in Conns :
       x \in DOMAIN conn'[c] => x \in DOMAIN conn[c] /\ net'[x].down = net[x].down
  /\ \A j \in Instance : j \notin dangling' =>
       \A p : j = Server \/ p \in Roots(j) =>
         \A G : Bears(event[j], p, G) => Bears(event'[j], p, G)
  /\ \A j \in Instance : \A c \in Calls(j)' : c \in Calls(j) \/ DOMAIN c.want = {}

\* Such steps keep what calls want.
LEMMA StandsSought ==
  ASSUME IInv, Waits, Sought, Stands
  PROVE  Sought'
<1>1. ASSUME NEW k, NEW v, NEW y \in Tellers(k, v) PROVE y \in Tellers(k, v)'
  <2>1. y \in Int \X Nat /\ y[1] \in Conns /\ ends[y[1]] \in Writer[k]
    BY <1>1 DEF Tellers
  <2>2. y[1] \in Conns' /\ ends'[y[1]] \in Writer[k]
    BY <2>1 DEF Stands, Widens
  <2>3. net'[y[1]].up \in {net[y[1]].up, <<>>}
    BY <2>1 DEF Stands
  <2> QED BY <1>1, <2>1, <2>2, <2>3 DEF Tellers
<1>2. Server \in Instance
  BY DEF Instance
<1>3. ASSUME NEW j \in Instance, NEW p, j = Server \/ p \in Roots(j), j \notin dangling', NEW G, NEW H,
             \A y : y \in G => y \in H, Bears(event[j], p, G)
      PROVE  Bears(event'[j], p, H)
  <2> DEFINE new == event'[j]
  <2>1. Bears(new, p, G)
    BY <1>3 DEF Stands
  <2> HIDE DEF new
  <2>2. Bears(new, p, H)
    BY <1>3, <2>1, BearsMore
  <2> QED BY <2>2 DEF new
<1>4. ASSUME NEW p, NEW k, NEW v, RelayBears(p, k, v) PROVE Borne(p, k, v)
  <2> SUFFICES ASSUME Server \notin dangling' PROVE Bears(event'[Server], p, Tellers(k, v)')
    BY DEF Borne
  <2>1. Server \notin dangling
    BY DEF Stands, Widens
  <2>2. Bears(event[Server], p, Tellers(k, v))
    BY <1>4, <2>1 DEF RelayBears
  <2> QED BY <1>1, <1>2, <1>3, <2>2
<1>5. ASSUME NEW j \in Client, NEW k, NEW v, NEW y \in Bringers(j, k, v) PROVE y \in Bringers(j, k, v)'
  <2>1. /\ y \in Int \X Nat /\ y[1] \in Heard /\ ends[y[1]] = j
        /\ y[1] \in DOMAIN conn[j] =>
             /\ Promised(net[y[1]].down, y[2], k, v)
             /\ y[1] \in broken \/ RelayBears(y, k, v) \/ Told(net[y[1]].down, k, v, Len(net[y[1]].down))
    BY <1>5 DEF Bringers
  <2>2. y[1] \in Heard' /\ ends'[y[1]] = j /\ y[1] \in Conns /\ (y[1] \in broken => y[1] \in broken')
    BY <2>1 DEF Stands, Widens, Heard
  <2>3. ASSUME y[1] \in DOMAIN conn'[j]
        PROVE  /\ Promised(net'[y[1]].down, y[2], k, v)
               /\ y[1] \in broken' \/ Borne(y, k, v) \/ Told(net'[y[1]].down, k, v, Len(net'[y[1]].down))
    <3>1. y[1] \in DOMAIN conn[j] /\ net'[y[1]].down = net[y[1]].down
      BY <2>2, <2>3 DEF Stands
    <3> QED BY <1>4, <2>1, <2>2, <3>1
  <2> QED BY <2>1, <2>2, <2>3 DEF Bringers, Borne, RelayBears
<1>6. ASSUME NEW j \in Instance, j \notin dangling', NEW r \in Roots(j), NEW k, NEW v, Due(j, r, k, v)
      PROVE  Due(j, r, k, v)'
  <2>1. CASE v <= data[j][k].val
    BY <2>1 DEF Due, Stands
  <2>2. CASE Bears(event[j], r, Givers(j, k, v))
    <3>1. \A y : y \in Givers(j, k, v) => y \in Givers(j, k, v)'
      BY <1>1, <1>5 DEF Givers, Instance
    <3>2. Bears(event'[j], r, Givers(j, k, v)')
      BY <1>3, <1>6, <2>2, <3>1
    <3> QED BY <3>2 DEF Due, Bears, KidsOf, IsParent, Lost
  <2> QED BY <1>6, <2>1, <2>2 DEF Due
<1>7. ASSUME NEW j \in Instance, NEW k, NEW v, Source(j, k, v) PROVE Source(j, k, v)'
  <2>1. \A x \in Heard : x \in Heard' /\ ends'[x] = ends[x]
    BY DEF Stands, Widens, Heard
  <2> QED BY <1>7, <2>1 DEF Source, Stands
<1>8. SUFFICES ASSUME spent'.delete = 0, NEW j \in Instance, j \notin dangling', NEW c \in Calls(j)'
               PROVE  Wants(j, c)'
  BY DEF Sought
<1>9. CASE DOMAIN c.want = {}
  BY <1>9 DEF Wants
<1>10. CASE c \in Calls(j)
  <2>1. Wants(j, c) /\ c.id \in Roots(j)
    BY <1>8, <1>10 DEF Sought, Stands, Widens, Waits, Calls
  <2> DEFINE r == c.id
  <2>2. ASSUME NEW k \in DOMAIN c.want, NEW v, v = c.want[k]
        PROVE  k \in Key /\ v \in Nat /\ Source(j, k, v)' /\ Due(j, r, k, v)'
    <3>1. k \in Key /\ v \in Nat /\ Source(j, k, v) /\ Due(j, r, k, v) /\ r \in Roots(j)
      BY <2>1, <2>2 DEF Wants
    <3> HIDE DEF r
    <3> QED BY <1>6, <1>7, <1>8, <3>1
  <2> QED BY <2>2 DEF Wants
<1> QED BY <1>8, <1>9, <1>10 DEF Stands

\* Steps that lose at most messages, ends of connections, a call, or an event without
\* children.
Quiet ==
  /\ UNCHANGED <<data, ends, nval, rootseq, dangling>> /\ spent'.delete = spent.delete
  /\ broken \subseteq broken'
  /\ \A x \in Conns : net'[x].up \in {net[x].up, <<>>} /\ net'[x].down \in {net[x].down, <<>>}
  /\ \A j \in Instance : \A x \in DOMAIN conn'[j] :
       \/ x \in DOMAIN conn[j] /\ conn'[j][x] = conn[j][x]
       \/ j = Server /\ Opens(net[x].up) /\ conn'[j][x].sendseq = 0
  /\ \A c \in Client : \A x \in DOMAIN conn'[c] : net'[x].down = net[x].down
  /\ \A j \in Instance :
       \/ event'[j] = event[j]
       \/ \E id : KidsOf(event[j], id) = {} /\ event'[j] = RemoveEvents(event[j], {id})
  /\ \A j \in Instance : \A c \in Calls(j)' : c \in Calls(j)

\* They take back no number, connection or call,
LEMMA QuietWidens ==
  ASSUME IInv, Quiet
  PROVE  Widens /\ Conns' = Conns /\ \A x \in Conns : Opens(net'[x].up) => Opens(net[x].up)
<1>1. Conns' = Conns /\ UNCHANGED <<ends, rootseq, dangling>> /\ broken \subseteq broken'
  BY DEF Quiet, Conns
<1>2. ASSUME NEW x \in Conns, Opens(net'[x].up) PROVE Opens(net[x].up)
  BY <1>2 DEF Quiet, Opens
<1>3. Heard \subseteq Heard'
  BY <1>1, <1>2 DEF Heard
<1>4. ASSUME NEW j \in Instance, NEW n \in Conns, NEW s \in UpTo(j, n) PROVE s \in UpTo(j, n)'
  <2>1. s \in Nat /\ (n \in DOMAIN conn[j] => s <= conn[j][n].sendseq)
        /\ (j = Server /\ Opens(net[n].up) => s = 0)
    BY <1>4 DEF UpTo
  <2>2. n \in DOMAIN conn'[j] => s <= conn'[j][n].sendseq
    <3> SUFFICES ASSUME n \in DOMAIN conn'[j] PROVE s <= conn'[j][n].sendseq
      OBVIOUS
    <3>1. CASE n \in DOMAIN conn[j] /\ conn'[j][n] = conn[j][n]
      BY <2>1, <3>1
    <3>2. CASE j = Server /\ Opens(net[n].up) /\ conn'[j][n].sendseq = 0
      BY <2>1, <3>2
    <3> QED BY <3>1, <3>2 DEF Quiet
  <2> QED BY <1>2, <2>1, <2>2 DEF UpTo
<1>5. \A j \in Instance : rootseq[j] \in Nat
  BY DEF IInv, Typed
<1> QED BY <1>1, <1>2, <1>3, <1>4, <1>5 DEF Widens

\* keep what events bear,
LEMMA QuietEvents ==
  ASSUME IInv, Families, Quiet, NEW j \in Instance, j \notin dangling'
  PROVE  /\ Sound(event'[j], Parents(j)', Done(j)')
         /\ \A p : KidsOf(event'[j], p) \subseteq KidsOf(event[j], p)
         /\ \A p, G : Bears(event[j], p, G) => Bears(event'[j], p, G)
<1> DEFINE ev == event[j]
           new == event'[j]
           P == Parents(j)
           D == Done(j)
<1>1. Sound(ev, P, D)
  BY DEF Families, Quiet
<1>2. P \subseteq P' /\ D \subseteq D'
  BY QuietWidens, WidensSets
<1>3. new = ev \/ \E id : KidsOf(ev, id) = {} /\ new = RemoveEvents(ev, {id})
  BY DEF Quiet
<1> HIDE DEF ev, new, P, D
<1>4. Sound(new, P, D) /\ (\A p : KidsOf(new, p) \subseteq KidsOf(ev, p))
      /\ (\A p, G : Bears(ev, p, G) => Bears(new, p, G))
  <2>1. CASE new = ev
    BY <1>1, <2>1
  <2>2. ASSUME NEW id, KidsOf(ev, id) = {}, new = RemoveEvents(ev, {id})
        PROVE  /\ Sound(new, P, D) /\ (\A p : KidsOf(new, p) \subseteq KidsOf(ev, p))
               /\ (\A p, G : Bears(ev, p, G) => Bears(new, p, G))
    <3>1. Family(ev, P, D) /\ Tally(ev)
      BY <1>1 DEF Sound
    <3>2. /\ Family(RemoveEvents(ev, {id}), P, D) /\ Tally(RemoveEvents(ev, {id}))
          /\ \A p : KidsOf(RemoveEvents(ev, {id}), p) = KidsOf(ev, p) \ {id}
          /\ \A p, G : Bears(ev, p, G) => Bears(RemoveEvents(ev, {id}), p, G)
      BY <2>2, <3>1, TableShrinks
    <3> QED BY <2>2, <3>2 DEF Sound
  <2> QED BY <1>3, <2>1, <2>2
<1>5. Sound(new, P', D')
  BY <1>2, <1>4, SoundGrows
<1> QED BY <1>4, <1>5 DEF ev, new, P, D

\* and so keep the invariant.
LEMMA QuietFits ==
  ASSUME Usage, Base, Sought, IInv', Rising', Quiet
  PROVE  Base' /\ Sought'
<1>1. /\ IInv /\ Serial /\ Families /\ Unasked /\ Waits /\ Widens /\ Conns' = Conns
      /\ UNCHANGED <<ends, rootseq, dangling>>
  BY QuietWidens DEF Base, Quiet
<1>2. Serial'
  <2> SUFFICES ASSUME NEW x \in Conns
               PROVE  /\ Marked(net'[x].up, UpTo(ends[x], x)', UpTo(Server, x)') /\ Ordered(net'[x].up)
                      /\ Marked(net'[x].down, UpTo(Server, x)', UpTo(ends[x], x)')
    BY <1>1 DEF Serial, UpTo
  <2> DEFINE up == net[x].up
             dn == net[x].down
             C  == UpTo(ends[x], x)
             S  == UpTo(Server, x)
             CC == UpTo(ends[x], x)'
             SS == UpTo(Server, x)'
  <2>1. C \subseteq CC /\ S \subseteq SS
    <3>1. ends[x] \in Instance /\ Server \in Instance
      BY <1>1, ChannelOf DEF IInv, Instance
    <3> QED BY <1>1, <3>1 DEF Widens, UpTo
  <2>2. Marked(up, C, S) /\ Ordered(up) /\ Marked(dn, S, C) /\ up \in Seq(Msg) /\ dn \in Seq(Msg)
    BY <1>1, ChannelOf DEF Serial, IInv
  <2>3. net'[x].up \in {up, <<>>} /\ net'[x].down \in {dn, <<>>}
    BY DEF Quiet
  <2> HIDE DEF up, dn, C, S, CC, SS
  <2>4. Marked(up, CC, SS) /\ Marked(<<>>, CC, SS) /\ Marked(dn, SS, CC) /\ Marked(<<>>, SS, CC)
    BY <2>1, <2>2, MarkedQueues
  <2>5. Ordered(<<>>)
    BY <2>2, OrderedQueues
  <2> QED BY <2>2, <2>3, <2>4, <2>5 DEF CC, SS
<1>3. Families'
  <2> SUFFICES ASSUME NEW j \in Instance, j \notin dangling' PROVE Sound(event'[j], Parents(j)', Done(j)')
    BY DEF Families, Sound, Family, Tally, KidsOf
  <2> QED BY SMTT(60), <1>1, QuietEvents
<1>4. Unasked'
  <2> SUFFICES ASSUME Server \notin dangling', NEW n \in Conns, NEW j \in 1..Len(net'[n].up),
                      net'[n].up[j].type = "request", NEW p, p = <<n, net'[n].up[j].seq>>
               PROVE  KidsOf(event'[Server], p) = {}
    BY ZenonT(60), <1>1 DEF Unasked, KidsOf
  <2>1. net'[n].up = net[n].up /\ j \in 1..Len(net[n].up)
    <3>1. net'[n].up \in {net[n].up, <<>>}
      BY DEF Quiet
    <3> QED BY <3>1
  <2>2. KidsOf(event[Server], p) = {}
    BY <1>1, <2>1 DEF Unasked
  <2>3. KidsOf(event'[Server], p) \subseteq KidsOf(event[Server], p)
    BY <1>1, QuietEvents DEF Instance
  <2> QED BY <2>2, <2>3
<1>5. Waits'
  <2> SUFFICES ASSUME NEW j \in Instance, NEW x \in 1..Len(wait'[j]) PROVE wait'[j][x].id \in Roots(j)'
    BY DEF Waits
  <2>1. wait'[j][x] \in Calls(j)
    BY DEF Quiet, Calls
  <2>2. wait'[j][x].id \in Roots(j)
    BY <1>1, <2>1 DEF Waits, Calls
  <2> QED BY <1>1, <2>2 DEF Roots
<1>6. Stands
  <2>1. ASSUME NEW c \in Client, NEW x \in Conns, x \in DOMAIN conn'[c]
        PROVE  x \in DOMAIN conn[c] /\ net'[x].down = net[x].down
    <3>1. c \in Instance /\ c # Server
      BY InstanceAssumption DEF Instance
    <3> QED BY <2>1, <3>1 DEF Quiet
  <2> QED BY <1>1, <2>1, QuietEvents DEF Stands, Quiet
<1> QED BY SMTT(60), <1>1, <1>2, <1>3, <1>4, <1>5, <1>6, StandsSought DEF Base

\* yconn_accept.
LEMMA AcceptQuiet ==
  ASSUME IInv, Accept
  PROVE  Quiet
<1> DEFINE h  == Head(backlog)
           cn == Both(One(h, AcceptedEnd), conn[Server])
<1>1. /\ backlog # <<>> /\ conn' = [conn EXCEPT ![Server] = cn]
      /\ UNCHANGED <<data, ends, net, broken, nval, spent, event, rootseq, dangling, wait>>
  BY DEF Accept, NoChange
<1>2. h \in Conns /\ h \notin DOMAIN conn[Server] /\ Opens(net[h].up)
  <2>1. backlog \in Seq(Nat) /\ Len(backlog) \in Nat /\ 1 \in 1..Len(backlog) /\ h = backlog[1]
    BY <1>1 DEF IInv, Typed
  <2> QED BY <2>1 DEF IInv, Accepted
<1>3. conn \in [Instance -> Table] /\ Server \in Instance /\ Server \notin Client
  BY InstanceAssumption DEF IInv, Typed, Instance
<1> HIDE DEF h
<1>4. \A x \in DOMAIN cn : (x \in DOMAIN conn[Server] /\ cn[x] = conn[Server][x])
                           \/ (x = h /\ cn[x].sendseq = 0)
  BY <1>2 DEF Both, One, AcceptedEnd
<1> HIDE DEF cn
<1>5. conn'[Server] = cn /\ \A j \in Instance \ {Server} : conn'[j] = conn[j]
  BY <1>1, <1>3
<1>6. ASSUME NEW j \in Instance, NEW x \in DOMAIN conn'[j]
      PROVE  \/ x \in DOMAIN conn[j] /\ conn'[j][x] = conn[j][x]
             \/ j = Server /\ Opens(net[x].up) /\ conn'[j][x].sendseq = 0
  <2>1. CASE j = Server
    BY <1>2, <1>4, <1>5, <1>6, <2>1
  <2>2. CASE j # Server
    BY <1>5, <1>6, <2>2
  <2> QED BY <2>1, <2>2
<1> QED BY <1>1, <1>6 DEF Quiet, Calls

\* yconn_deferred_close.
LEMMA NoticeQuiet ==
  ASSUME IInv, NEW i \in Instance, NEW n, Notice(i, n)
  PROVE  Quiet
<1> DEFINE q  == <<>>
           cn == [x \in DOMAIN conn[i] \ {n} |-> conn[i][x]]
<1>1. /\ UNCHANGED <<data, ends, nval, spent, broken, event, rootseq, dangling, wait>> /\ n \in DOMAIN conn[i]
      /\ net' = [net EXCEPT ![n][In(i)] = q]
      /\ conn' = [conn EXCEPT ![i] = cn]
  BY DEF Notice, NoChange
<1>2. n \in Conns /\ DOMAIN net = Conns /\ net[n] \in Channel /\ DOMAIN conn = Instance
  BY <1>1, ChannelOf DEF IInv, Typed, Connected, Conns
<1>3. /\ \A x \in Conns : net'[x].up \in {net[x].up, <<>>} /\ net'[x].down \in {net[x].down, <<>>}
      /\ \A x \in Conns : x # n \/ i = Server => net'[x].down = net[x].down
  <2> DEFINE r == [net[n] EXCEPT ![In(i)] = q]
  <2>1. net' = [net EXCEPT ![n] = r]
    BY <1>1, <1>2
  <2>2. q = <<>>
    OBVIOUS
  <2> HIDE DEF q
  <2>3. r.up \in {net[n].up, q} /\ r.down \in {net[n].down, q} /\ (i = Server => r.down = net[n].down)
    BY <1>2, Sides DEF Channel
  <2> HIDE DEF r
  <2> QED BY <1>2, <2>1, <2>2, <2>3
<1>4. \A x \in DOMAIN cn : x # n /\ x \in DOMAIN conn[i] /\ cn[x] = conn[i][x]
  OBVIOUS
<1> HIDE DEF cn
<1>5. conn'[i] = cn /\ \A j \in Instance \ {i} : conn'[j] = conn[j]
  BY <1>1, <1>2
<1>6. ASSUME NEW j \in Instance, NEW x \in DOMAIN conn'[j]
      PROVE  x \in DOMAIN conn[j] /\ conn'[j][x] = conn[j][x]
  <2>1. CASE j = i
    BY <1>4, <1>5, <1>6, <2>1
  <2>2. CASE j # i
    BY <1>5, <1>6, <2>2
  <2> QED BY <2>1, <2>2
<1>7. ASSUME NEW c \in Client, NEW x \in DOMAIN conn'[c] PROVE net'[x].down = net[x].down
  <2>1. c \in Instance /\ c # Server
    BY InstanceAssumption DEF Instance
  <2>2. x \in DOMAIN conn[c] /\ x \in Conns /\ ends[x] = c
    BY <1>6, <1>7, <2>1 DEF IInv, Connected
  <2>3. x # n \/ i = Server
    <3> SUFFICES ASSUME x = n, i # Server PROVE FALSE
      OBVIOUS
    <3>1. i \in Client /\ ends[n] = i
      BY <1>1 DEF IInv, Connected, Instance
    <3>2. c = i
      BY <2>2, <3>1
    <3> QED BY <1>4, <1>5, <1>7, <3>2
  <2> QED BY <1>3, <2>2, <2>3
<1> QED BY <1>1, <1>3, <1>6, <1>7 DEF Quiet, Calls

\* Timers and faults.
LEMMA OthersQuiet ==
  ASSUME IInv, \/ UNCHANGED vars
               \/ \E i \in Instance : Timeout(i) \/ \E id \in DOMAIN event[i] : Expire(i, id)
               \/ \E n \in DOMAIN ends : Break(n)
  PROVE  Quiet
<1>1. /\ UNCHANGED <<data, ends, nval, rootseq, dangling, net, conn>> /\ broken \subseteq broken'
      /\ \/ spent' = spent \/ spent' = [spent EXCEPT !.timer = @ + 1]
         \/ spent' = [spent EXCEPT !.break = @ + 1]
  BY DEF Timeout, Expire, Break, TimerRuns, NoChange, vars
<1>2. spent'.delete = spent.delete
  BY <1>1 DEF IInv, Typed, Spent
<1>3. ASSUME NEW j \in Instance
      PROVE  \/ event'[j] = event[j]
             \/ \E id : KidsOf(event[j], id) = {} /\ event'[j] = RemoveEvents(event[j], {id})
  <2>1. CASE event' = event
    BY <2>1
  <2>2. ASSUME NEW i \in Instance, NEW id \in DOMAIN event[i], Expire(i, id)
        PROVE  \/ event'[j] = event[j]
               \/ \E d : KidsOf(event[j], d) = {} /\ event'[j] = RemoveEvents(event[j], {d})
    <3>1. event' = [event EXCEPT ![i] = Reset(event[i], id, TRUE).table] /\ KidsOf(event[i], id) = {}
      BY <2>2 DEF Expire, KidsOf
    <3>2. Reset(event[i], id, TRUE).table = RemoveEvents(event[i], {id})
      BY <2>2 DEF Reset
    <3>3. event = [x \in Instance |-> event[x]]
      BY DEF IInv, Typed
    <3> HIDE DEF RemoveEvents
    <3>4. CASE j = i
      <4>1. event'[j] = RemoveEvents(event[j], {id})
        BY <3>1, <3>2, <3>3, <3>4
      <4> QED BY <3>1, <3>4, <4>1
    <3>5. CASE j # i
      BY <3>1, <3>3, <3>5
    <3> QED BY <3>4, <3>5
  <2>3. event' = event \/ \E i \in Instance : \E id \in DOMAIN event[i] : Expire(i, id)
    BY DEF Timeout, Break, NoChange, vars
  <2> QED BY <2>1, <2>2, <2>3
<1>4. ASSUME NEW j \in Instance, NEW c \in Calls(j)' PROVE c \in Calls(j)
  <2>1. CASE wait' = wait
    BY <1>4, <2>1 DEF Calls
  <2>2. ASSUME NEW i \in Instance, Timeout(i) PROVE c \in Calls(j)
    <3>1. wait[i] # <<>> /\ wait' = [wait EXCEPT ![i] = Front(@)] /\ wait \in [Instance -> Seq(Call)]
      BY <2>2, Steady DEF Timeout
    <3>2. CASE j # i
      BY <1>4, <3>1, <3>2 DEF Calls
    <3>3. CASE j = i
      <4>1. wait[i] \in Seq(Call) /\ Len(wait[i]) \in Nat /\ Len(wait[i]) # 0
        BY <3>1, EmptySeq
      <4>2. wait'[i] = SubSeq(wait[i], 1, Len(wait[i]) - 1)
        BY <3>1 DEF Front
      <4>3. Len(wait'[i]) = Len(wait[i]) - 1 /\ \A h \in 1..Len(wait[i]) - 1 : wait'[i][h] = wait[i][h]
        BY <4>1, <4>2, SubSeqProperties
      <4>4. PICK h \in 1..Len(wait'[i]) : c = wait'[i][h]
        BY <1>4, <3>3 DEF Calls
      <4>5. h \in 1..Len(wait[i]) - 1 /\ h \in 1..Len(wait[i])
        BY <4>1, <4>3
      <4> QED BY <3>3, <4>3, <4>4, <4>5 DEF Calls
    <3> QED BY <3>2, <3>3
  <2>3. wait' = wait \/ \E i \in Instance : Timeout(i)
    BY DEF Expire, Break, NoChange, vars
  <2> QED BY <2>1, <2>2, <2>3
<1> QED BY <1>1, <1>2, <1>3, <1>4 DEF Quiet

\* Connect opens connection n with INIT under number s, and asks for the answer to it
\* unless the client never subscribes.
InitAsks(c, n, s) ==
  IF c \in Unsub THEN UNCHANGED <<event, rootseq, dangling, wait>>
  ELSE /\ Block(c, "init", NoData)
       /\ Register(c, CallOf(c), {<<n, s>>})
Opening(c, n, m, s) ==
  /\ m.op = "init" /\ m.type \in {"publish", "request"} /\ (m.type = "request" => m.seq = s)
  /\ s \in Nat /\ n \in Nat \ {0} /\ n \notin Conns /\ Conns' = Conns \cup {n}
  /\ ends'[n] = c /\ net'[n].up = <<m>> /\ net'[n].down = <<>>
  /\ DOMAIN conn'[c] = {n} /\ conn'[c][n].sendseq = s
  /\ \A x \in Conns : ends'[x] = ends[x] /\ net'[x] = net[x]
  /\ \A j \in Instance \ {c} : conn'[j] = conn[j]
  /\ UNCHANGED <<data, broken, nval, spent>> /\ InitAsks(c, n, s)

\* Every Connect does.
LEMMA ConnectOpens ==
  ASSUME IInv, NEW c \in Client, Connect(c)
  PROVE  \E m, n, s : Opening(c, n, m, s)
<1> DEFINE n  == Len(ends) + 1
           z  == IF disconn[c] = {} THEN 0 ELSE CHOOSE s \in disconn[c] : TRUE
           s  == z + 1
           cn == One(n, ClientEnd(c, z))
           ty == IF c \in Unsub THEN "publish" ELSE "request"
           sq == IF c \in Unsub THEN 0 ELSE cn[n].sendseq + 1
           pl == IF c \in Writable THEN Dump(data[c]) ELSE NoData
           m  == Message(ty, "init", sq, pl)
           ch == [up |-> <<m>>, down |-> <<>>]
           tab == [cn EXCEPT ![n].sendseq = @ + 1]
<1>1. /\ ends' = Append(ends, c) /\ net' = Append(net, ch)
      /\ conn' = [conn EXCEPT ![c] = tab] /\ UNCHANGED <<data, broken, nval, spent>>
  BY DEF Connect
<1>2. /\ c \in Instance /\ ends \in Seq(Client) /\ Len(ends) \in Nat /\ Len(net) = Len(ends)
      /\ DOMAIN conn = Instance /\ Conns = 1..Len(ends) /\ net \in Seq(Channel)
      /\ disconn[c] \in SUBSET Nat
  BY DEF Instance, IInv, Typed, Conns
<1>3. z \in Nat
  BY <1>2
<1>4. IF c \in Unsub THEN UNCHANGED <<event, rootseq, dangling, wait>>
      ELSE Block(c, "init", NoData) /\ Register(c, <<0, rootseq[c] + 1>>, Kids(cn, {n}))
  BY DEF Connect
<1> HIDE DEF z, pl
<1>5. cn[n].sendseq = z /\ DOMAIN cn = {n}
  BY DEF One, ClientEnd
<1>6. DOMAIN tab = {n} /\ tab[n].sendseq = s
  <2>1. tab = [x \in {n} |-> [ClientEnd(c, z) EXCEPT !.sendseq = @ + 1]]
    BY DEF One
  <2> HIDE DEF tab
  <2> QED BY <2>1 DEF ClientEnd
<1>7. Kids(cn, {n}) = {<<n, s>>}
  BY <1>5 DEF Kids
<1>8. m.op = "init" /\ m.type \in {"publish", "request"} /\ (m.type = "request" => m.seq = s)
  BY <1>5 DEF Message
<1>9. InitAsks(c, n, s)
  BY <1>4, <1>7 DEF InitAsks, CallOf
<1>10. s \in Nat /\ n \in Nat \ {0}
  BY <1>2, <1>3
<1> HIDE DEF m, tab, s
<1>11. ch.up = <<m>> /\ ch.down = <<>>
  OBVIOUS
<1> HIDE DEF ch
<1>12. Len(ends') = n /\ ends'[n] = c /\ \A x \in Conns : ends'[x] = ends[x]
  BY <1>1, <1>2
<1>13. net'[n] = ch /\ \A x \in Conns : net'[x] = net[x]
  <2> HIDE DEF Channel
  <2> QED BY <1>1, <1>2
<1>14. Conns' = Conns \cup {n} /\ n \notin Conns
  BY <1>2, <1>12 DEF Conns
<1>15. conn'[c] = tab /\ \A j \in Instance \ {c} : conn'[j] = conn[j]
  BY <1>1, <1>2
<1> HIDE DEF n
<1>16. Opening(c, n, m, s)
  BY <1>1, <1>6, <1>8, <1>9, <1>10, <1>11, <1>12, <1>13, <1>14, <1>15 DEF Opening
<1> QED BY <1>16

\* The new connection adds to what there is,
LEMMA OpeningWidens ==
  ASSUME IInv, NEW c \in Client, NEW n, NEW m, NEW s, Opening(c, n, m, s)
  PROVE  /\ Widens /\ c \in Instance /\ c # Server /\ rootseq \in [Instance -> Nat]
         /\ \A j \in Instance \ {c} : wait'[j] = wait[j] /\ event'[j] = event[j] /\ rootseq'[j] = rootseq[j]
                                      /\ (j \in dangling' => j \in dangling)
<1>1. c \in Instance /\ c # Server /\ rootseq \in [Instance -> Nat]
  BY Steady, InstanceAssumption DEF Instance
<1>2. \A j \in Instance \ {c} : /\ wait'[j] = wait[j] /\ event'[j] = event[j] /\ rootseq'[j] = rootseq[j]
                                /\ j \in dangling' => j \in dangling
  BY Steady DEF Opening, InitAsks, Block, Register
<1>3. rootseq'[c] \in Nat /\ rootseq[c] \in Nat /\ rootseq[c] <= rootseq'[c] /\ dangling \subseteq dangling'
  BY <1>1 DEF Opening, InitAsks, Block, Register
<1>4. \A j \in Instance : rootseq[j] <= rootseq'[j] /\ rootseq[j] \in Nat /\ rootseq'[j] \in Nat
  BY <1>1, <1>2, <1>3
<1>5. /\ Conns \subseteq Conns' /\ \A x \in Conns : ends'[x] = ends[x] /\ net'[x] = net[x]
      /\ broken \subseteq broken' /\ n \notin Conns
      /\ DOMAIN conn'[c] = {n} /\ \A j \in Instance \ {c} : conn'[j] = conn[j]
  BY DEF Opening
<1>6. Heard \subseteq Heard'
  BY <1>5 DEF Heard
<1>7. ASSUME NEW j \in Instance, NEW x \in Conns, NEW t \in UpTo(j, x) PROVE t \in UpTo(j, x)'
  <2>1. t \in Nat /\ (x \in DOMAIN conn[j] => t <= conn[j][x].sendseq)
        /\ (j = Server /\ Opens(net[x].up) => t = 0)
    BY <1>7 DEF UpTo
  <2>2. x \in DOMAIN conn'[j] => t <= conn'[j][x].sendseq
    BY <1>5, <2>1
  <2> QED BY <1>5, <2>1, <2>2 DEF UpTo
<1> QED BY <1>1, <1>2, <1>3, <1>4, <1>5, <1>6, <1>7 DEF Widens

\* the event of its INIT to those of the client,
LEMMA OpeningGrows ==
  ASSUME IInv, Families, NEW c \in Client, NEW n, NEW m, NEW s, Opening(c, n, m, s), c \notin Unsub,
         c \notin dangling'
  PROVE  /\ Grows(c, CallOf(c), {<<n, s>>}) /\ rootseq'[c] = rootseq[c] + 1
         /\ wait'[c] = Append(wait[c], [id |-> CallOf(c), kind |-> "init", want |-> NoData])
<1> DEFINE q    == CallOf(c)
           kids == {<<n, s>>}
           new  == AddEvents(event[c], q, kids)
           ev   == event[c]
<1>1. Widens /\ c \in Instance /\ c # Server
  BY OpeningWidens
<1>2. Block(c, "init", NoData) /\ Register(c, q, kids) /\ s \in Nat /\ n \in Nat \ {0}
  BY DEF Opening, InitAsks
<1>3. rootseq'[c] = rootseq[c] + 1 /\ event'[c] = new
      /\ wait'[c] = Append(wait[c], [id |-> q, kind |-> "init", want |-> NoData])
  BY <1>1, <1>2, Steady DEF Block, Register, CallOf
<1>4. c \notin dangling /\ ~Collides(ev, q, kids)
  BY <1>1, <1>2 DEF Register, Widens
<1>5. q \in Int \X Nat /\ q[1] = 0 /\ q \notin Parents(c) /\ q # NoId /\ q \in Roots(c)'
  BY <1>1, <1>3, CallIsNew
<1>6. q \in Parents(c)'
  BY <1>5 DEF Parents
<1> HIDE DEF q
<1>7. KidsOf(ev, q) = {} /\ Sound(ev, Parents(c), Done(c))
  BY <1>1, <1>4, <1>5, NextUnasked DEF Families
<1>8. IsFiniteSet(kids) /\ q \notin kids /\ NoId \notin kids
  <2>1. IsFiniteSet(kids)
    BY FS_Singleton
  <2>2. q \notin kids
    BY <1>2, <1>5
  <2>3. NoId \notin kids
    BY <1>2 DEF NoId
  <2> QED BY <2>1, <2>2, <2>3
<1>9. \A y \in kids : y \notin Done(c)
  BY <1>1, <1>2 DEF Done, Roots
<1>10. Parents(c) \subseteq Parents(c)' /\ Done(c) \subseteq Done(c)'
  BY <1>1, WidensSets
<1> HIDE DEF kids
<1>11. /\ Family(new, Parents(c)', Done(c)) /\ Tally(new)
       /\ Grown(ev, new, q, kids)
  <2>1. Family(ev, Parents(c), Done(c)) /\ Tally(ev)
    BY <1>7 DEF Sound
  <2> DEFINE R == Parents(c)'
             D == Done(c)
             P == Parents(c)
  <2>2. q \in R /\ P \subseteq R /\ Family(ev, P, D) /\ \A y \in kids : y \notin D
    BY <1>6, <1>9, <1>10, <2>1
  <2>3. ~Collides(ev, q, kids) /\ KidsOf(ev, q) = {}
    BY <1>4, <1>7
  <2> HIDE DEF ev, R, D, P
  <2>4. Family(new, R, D) /\ Tally(new) /\ Grown(ev, new, q, kids)
    BY <1>5, <1>8, <2>1, <2>2, <2>3, TableGrows DEF ev
  <2> QED BY <2>4 DEF R, D
<1>12. Sound(new, Parents(c)', Done(c)')
  BY <1>10, <1>11, SoundGrows DEF Sound
<1> HIDE DEF new
<1> QED BY <1>3, <1>11, <1>12 DEF Grows, ev, q, kids

\* and both leave what is due.
LEMMA OpeningStands ==
  ASSUME IInv, Families, NEW c \in Client, NEW n, NEW m, NEW s, Opening(c, n, m, s)
  PROVE  Stands
<1>1. /\ Widens /\ c \in Instance /\ c # Server
      /\ \A j \in Instance \ {c} : wait'[j] = wait[j] /\ event'[j] = event[j]
  BY OpeningWidens
<1>2. /\ UNCHANGED <<data, nval>> /\ spent'.delete = spent.delete /\ n \notin Conns
      /\ \A x \in Conns : net'[x] = net[x]
      /\ DOMAIN conn'[c] = {n} /\ \A j \in Instance \ {c} : conn'[j] = conn[j]
  BY DEF Opening
<1>3. ASSUME NEW d \in Client, NEW x \in Conns, x \in DOMAIN conn'[d] PROVE x \in DOMAIN conn[d]
  BY <1>2, <1>3 DEF Instance
<1>4. ASSUME NEW j \in Instance, j \notin dangling', NEW p, j = Server \/ p \in Roots(j), NEW G,
             Bears(event[j], p, G)
      PROVE  Bears(event'[j], p, G)
  <2>1. CASE event'[j] = event[j]
    BY <1>4, <2>1
  <2>2. CASE event'[j] # event[j]
    <3>1. j = c /\ c \notin Unsub
      BY <1>1, <2>2 DEF Opening, InitAsks
    <3>2. Grown(event[c], event'[c], CallOf(c), {<<n, s>>})
      BY <1>4, <3>1, OpeningGrows DEF Grows
    <3>3. p # CallOf(c)
      BY <1>1, <1>4, <3>1, CallIsNew DEF Parents
    <3> QED BY <1>4, <3>1, <3>2, <3>3 DEF Grown
  <2> QED BY <2>1, <2>2
<1>5. ASSUME NEW j \in Instance, NEW z \in Calls(j)' PROVE z \in Calls(j) \/ DOMAIN z.want = {}
  <2>1. CASE wait'[j] = wait[j]
    BY <1>5, <2>1 DEF Calls
  <2>2. CASE wait'[j] # wait[j]
    <3> DEFINE call == [id |-> CallOf(c), kind |-> "init", want |-> NoData]
    <3>1. j = c /\ c \notin Unsub
      BY <1>1, <2>2 DEF Opening, InitAsks
    <3>2. wait'[c] = Append(wait[c], call)
      BY <1>1, <3>1, Steady DEF Opening, InitAsks, Block, CallOf
    <3>3. DOMAIN call.want = {}
      BY Steady
    <3> HIDE DEF call
    <3>4. wait[c] \in Seq(Call) /\ Len(wait[c]) \in Nat
      BY <1>1, Steady
    <3>5. Len(wait'[c]) = Len(wait[c]) + 1 /\ wait'[c][Len(wait[c]) + 1] = call
          /\ \A h \in 1..Len(wait[c]) : wait'[c][h] = wait[c][h]
      <4> HIDE DEF Call
      <4> QED BY <3>2, <3>4
    <3>6. PICK h \in 1..Len(wait'[c]) : z = wait'[c][h]
      BY <1>5, <3>1 DEF Calls
    <3> QED BY SMTT(60), <3>1, <3>3, <3>4, <3>5, <3>6 DEF Calls
  <2> QED BY <2>1, <2>2
<1> QED BY <1>1, <1>2, <1>3, <1>4, <1>5 DEF Stands

\* Connect keeps the invariant.
LEMMA OpeningSerial ==
  ASSUME IInv, Serial, NEW c \in Client, NEW n, NEW m, NEW s, Opening(c, n, m, s)
  PROVE  Serial'
<1>1. Widens /\ Server \in Instance
  BY OpeningWidens DEF Instance
<1> SUFFICES ASSUME NEW x \in Conns', NEW e, e = ends'[x]
             PROVE  /\ Marked(net'[x].up, UpTo(e, x)', UpTo(Server, x)') /\ Ordered(net'[x].up)
                    /\ Marked(net'[x].down, UpTo(Server, x)', UpTo(e, x)')
  BY DEF Serial, UpTo
<1>2. CASE x \in Conns
  <2> DEFINE C  == UpTo(e, x)
             S  == UpTo(Server, x)
             CC == UpTo(e, x)'
             SS == UpTo(Server, x)'
  <2>1. e = ends[x] /\ e \in Instance /\ net'[x] = net[x] /\ net[x].up \in Seq(Msg) /\ net[x].down \in Seq(Msg)
    BY <1>2, ChannelOf DEF Opening, IInv
  <2>2. C \subseteq CC /\ S \subseteq SS
    BY <1>1, <1>2, <2>1 DEF Widens
  <2>3. Marked(net[x].up, C, S) /\ Ordered(net[x].up) /\ Marked(net[x].down, S, C)
    BY <1>2, <2>1 DEF Serial, UpTo
  <2> HIDE DEF C, S, CC, SS
  <2>4. Marked(net[x].up, CC, SS) /\ Marked(net[x].down, SS, CC)
    BY <2>1, <2>2, <2>3, MarkedQueues
  <2> QED BY <2>1, <2>3, <2>4 DEF CC, SS
<1>3. CASE x \notin Conns
  <2>1. x = n /\ e = c /\ net'[n].up = <<m>> /\ net'[n].down = <<>>
        /\ m.type \in {"publish", "request"} /\ (m.type = "request" => m.seq = s)
        /\ s \in Nat /\ DOMAIN conn'[c] = {n} /\ conn'[c][n].sendseq = s
    BY <1>3 DEF Opening
  <2>2. s \in UpTo(c, n)'
    BY <2>1, OpeningWidens DEF UpTo
  <2> DEFINE q == <<m>>
  <2>3. Len(q) = 1 /\ q[1] = m
    OBVIOUS
  <2> HIDE DEF q
  <2>4. \A R, A : Marked(<<>>, R, A)
    BY DEF Marked
  <2>5. Ordered(q) /\ \A A : Marked(q, UpTo(c, n)', A)
    BY <2>1, <2>2, <2>3 DEF Ordered, Marked, Answer
  <2> QED BY <2>1, <2>4, <2>5 DEF q
<1> QED BY <1>2, <1>3

\* Its event has a parent and a number that are new,
LEMMA OpeningFamilies ==
  ASSUME IInv, Families, NEW c \in Client, NEW n, NEW m, NEW s, Opening(c, n, m, s)
  PROVE  Families'
<1>1. /\ Widens
      /\ \A j \in Instance \ {c} : event'[j] = event[j]
  BY OpeningWidens
<1> SUFFICES ASSUME NEW j \in Instance, j \notin dangling' PROVE Sound(event'[j], Parents(j)', Done(j)')
  BY DEF Families, Sound, Family, Tally, KidsOf
<1>2. CASE event'[j] = event[j]
  <2> DEFINE P  == Parents(j)
             D  == Done(j)
             PP == Parents(j)'
             DD == Done(j)'
  <2>1. Sound(event[j], P, D)
    BY <1>1 DEF Families, Widens
  <2>2. P \subseteq PP /\ D \subseteq DD
    BY <1>1, WidensSets
  <2> HIDE DEF P, D, PP, DD
  <2>3. Sound(event[j], PP, DD)
    BY <2>1, <2>2, SoundGrows
  <2> QED BY <1>2, <2>3 DEF PP, DD
<1>3. CASE event'[j] # event[j]
  <2>1. j = c /\ c \notin Unsub
    BY <1>1, <1>3 DEF Opening, InitAsks
  <2> QED BY <2>1, OpeningGrows DEF Grows
<1> QED BY <1>2, <1>3

\* no request has been passed on for the new connection,
LEMMA OpeningUnasked ==
  ASSUME IInv, Families, Unasked, NEW c \in Client, NEW n, NEW m, NEW s, Opening(c, n, m, s)
  PROVE  Unasked'
<1>1. /\ Widens /\ Server \in Instance
      /\ event'[Server] = event[Server] /\ (Server \in dangling' => Server \in dangling)
  BY OpeningWidens DEF Instance
<1> SUFFICES ASSUME Server \notin dangling', NEW x \in Conns', NEW j \in 1..Len(net'[x].up),
                    net'[x].up[j].type = "request", NEW p, p = <<x, net'[x].up[j].seq>>
             PROVE  KidsOf(event[Server], p) = {}
  BY <1>1 DEF Unasked, KidsOf
<1>2. Server \notin dangling
  BY <1>1 DEF Widens
<1>3. CASE x \in Conns
  BY <1>2, <1>3 DEF Opening, Unasked
<1>4. CASE x \notin Conns
  <2>1. p[1] \notin Conns /\ p[1] \in Nat \ {0}
    BY <1>4 DEF Opening
  <2>2. p \notin Parents(Server) /\ p # NoId
    BY <2>1 DEF Parents, Roots, NoId
  <2> QED BY <1>1, <1>2, <2>2, NextUnasked
<1> QED BY <1>3, <1>4

\* and the call for the answer is of the client.
LEMMA OpeningWaits ==
  ASSUME IInv, Waits, NEW c \in Client, NEW n, NEW m, NEW s, Opening(c, n, m, s)
  PROVE  Waits'
<1>1. /\ Widens /\ c \in Instance /\ rootseq \in [Instance -> Nat]
      /\ \A j \in Instance \ {c} : wait'[j] = wait[j]
  BY OpeningWidens
<1> SUFFICES ASSUME NEW j \in Instance, NEW x \in 1..Len(wait'[j]) PROVE wait'[j][x].id \in Roots(j)'
  BY DEF Waits
<1>2. \A z \in 1..Len(wait[j]) : wait[j][z].id \in Roots(j)'
  <2>1. Roots(j) \subseteq Roots(j)'
    BY <1>1, WidensSets
  <2> QED BY <2>1 DEF Waits
<1>3. CASE wait'[j] = wait[j]
  BY <1>2, <1>3
<1>4. CASE wait'[j] # wait[j]
  <2> DEFINE call == [id |-> CallOf(c), kind |-> "init", want |-> NoData]
  <2>1. j = c /\ wait'[c] = Append(wait[c], call) /\ rootseq'[c] = rootseq[c] + 1
    BY SMTT(60), <1>1, <1>4, Steady DEF Opening, InitAsks, Block, CallOf
  <2>2. call.id \in Roots(c)'
    BY <1>1, <2>1, CallIsNew
  <2> HIDE DEF call
  <2>3. wait[c] \in Seq(Call) /\ Len(wait[c]) \in Nat
    BY <1>1, Steady
  <2>4. Len(wait'[c]) = Len(wait[c]) + 1 /\ wait'[c][Len(wait[c]) + 1] = call
        /\ \A h \in 1..Len(wait[c]) : wait'[c][h] = wait[c][h]
    <3> HIDE DEF Call
    <3> QED BY <2>1, <2>3
  <2>5. x \in 1..Len(wait[c]) \/ x = Len(wait[c]) + 1
    BY <2>1, <2>3, <2>4
  <2> QED BY <1>2, <2>1, <2>2, <2>4, <2>5
<1> QED BY <1>3, <1>4

\* So Connect keeps the invariant.
LEMMA ConnectFits ==
  ASSUME Usage, Base, Sought, IInv', Rising', NEW c \in Client, Connect(c)
  PROVE  Base' /\ Sought'
<1>1. IInv /\ Serial /\ Families /\ Unasked /\ Waits
  BY DEF Base
<1>2. PICK m, n, s : Opening(c, n, m, s)
  BY <1>1, ConnectOpens
<1>3. Serial' /\ Families' /\ Unasked' /\ Waits'
  BY <1>1, <1>2, OpeningSerial, OpeningFamilies, OpeningUnasked, OpeningWaits
<1>4. Sought'
  BY <1>1, <1>2, OpeningStands, StandsSought
<1> QED BY <1>3, <1>4 DEF Base

(***************************************************************************)
(* The theorem.                                                            *)
(***************************************************************************)
Fit == Base /\ Sought /\ DOMAIN outcome = Instance

\* A handler keeps the invariant, and ends no call without what it wants.
LEMMA HandlerFits ==
  ASSUME Usage, Base, Sought, NEW i \in Instance, NEW n, NEW failed, Turn(i, n, failed),
         \E cn, outs : Handles(i, n, cn, outs, failed)
  PROVE  Base' /\ Sought' /\ (spent'.delete = 0 => FreshStep)
<1>1. PICK cn, outs : Handles(i, n, cn, outs, failed)
  OBVIOUS
<1>2. IInv /\ Rising /\ Serial /\ Families /\ Unasked /\ Waits
  BY DEF Base
<1>3. IInv' /\ Rising'
  BY <1>1, <1>2, HandlesKeeps, HandlerRises
<1>4. Serial' /\ Families'
  BY <1>1, <1>2, SerialKeeps, FamiliesKeep
<1>5. Unasked' /\ Waits'
  BY <1>1, <1>2, UnaskedKeeps, WaitsKeep
<1>6. ASSUME spent'.delete = 0 PROVE Sought' /\ FreshStep
  <2>1. Acts(i, n, cn, outs, failed)
    BY <1>1, <1>6 DEF Acts
  <2> QED BY <2>1, SoughtKeeps, EndsFresh
<1>7. spent'.delete # 0 => Sought'
  BY DEF Sought
<1> QED BY <1>3, <1>4, <1>5, <1>6, <1>7 DEF Base

\* The outcome of a call is that of an instance.
LEMMA OutcomeKeeps ==
  ASSUME DOMAIN outcome = Instance, [Next]_vars
  PROVE  DOMAIN outcome' = Instance
<1>1. ASSUME NEW i, NEW v, outcome' = outcome \/ outcome' = [outcome EXCEPT ![i] = v]
      PROVE  DOMAIN outcome' = Instance
  BY <1>1
<1>2. ASSUME NEW i \in Instance, NEW n, NEW F, NEW buffered,
             \/ \E k \in Key : Write(i, k, F) \/ Delete(i, k, F)
             \/ RecvInit(n, F) \/ RecvPublish(i, n, F) \/ RecvSync(i, n, F)
             \/ RecvAnswer(i, n, F, buffered) \/ Sync(i, F)
      PROVE  DOMAIN outcome' = Instance
  BY <1>1, <1>2 DEF Write, Delete, RecvInit, RecvPublish, RecvSync, RecvAnswer, Sync, NoChange
<1>3. ASSUME NEW i \in Instance,
             Timeout(i) \/ Connect(i) \/ Accept \/ \E n : Expire(i, n) \/ Break(n) \/ Notice(i, n)
      PROVE  DOMAIN outcome' = Instance
  BY <1>1, <1>3 DEF Connect, Accept, Timeout, Expire, Break, Notice, NoChange
<1>4. Undefined \/ UNCHANGED vars => DOMAIN outcome' = Instance
  BY DEF Undefined, vars
<1> QED BY <1>2, <1>3, <1>4 DEF Next, Instance

\* A timer ends a call as timed out, and nothing else but an answer ends one.
LEMMA TimeoutFresh ==
  ASSUME IInv, DOMAIN outcome = Instance, NEW i \in Instance, Timeout(i)
  PROVE  FreshStep
<1>1. /\ wait' = [wait EXCEPT ![i] = Front(@)] /\ outcome' = [outcome EXCEPT ![i] = "timeout"]
      /\ wait \in [Instance -> Seq(Call)]
  BY Steady DEF Timeout
<1> SUFFICES ASSUME NEW j \in Instance, Len(wait'[j]) < Len(wait[j]), outcome'[j] = "ok" PROVE FALSE
  BY DEF FreshStep
<1>2. j # i
  BY <1>1
<1>3. wait'[j] = wait[j] /\ Len(wait[j]) \in Nat
  BY <1>1, <1>2
<1> QED BY <1>3

\* No other step ends a call.
LEMMA StillFresh ==
  ASSUME IInv, UNCHANGED wait \/ \E c \in Client : Connect(c)
  PROVE  FreshStep
<1> SUFFICES ASSUME NEW j \in Instance, Len(wait'[j]) < Len(wait[j]) PROVE FALSE
  BY DEF FreshStep
<1>1. wait[j] \in Seq(Call) /\ Len(wait[j]) \in Nat
  BY Steady
<1>2. CASE UNCHANGED wait
  BY <1>1, <1>2
<1>3. ASSUME NEW c \in Client, Connect(c) PROVE FALSE
  <2> DEFINE call == [id |-> CallOf(c), kind |-> "init", want |-> NoData]
  <2>1. UNCHANGED wait \/ wait' = [wait EXCEPT ![c] = Append(@, call)]
    BY <1>3 DEF Connect, Block, CallOf
  <2> HIDE DEF call
  <2>2. wait'[j] = wait[j] \/ wait'[j] = Append(wait[j], call)
    BY <2>1, Steady
  <2>3. Len(Append(wait[j], call)) = Len(wait[j]) + 1
    <3> HIDE DEF Call
    <3> QED BY <1>1
  <2> QED BY SMTT(60), <1>1, <2>2, <2>3
<1> QED BY <1>2, <1>3

\* Every step keeps the invariant and lets no call end without what it wants.
LEMMA NextFits ==
  ASSUME Usage, Fit, [Next]_vars
  PROVE  Fit' /\ (spent'.delete = 0 => FreshStep)
<1> DEFINE Good == Base' /\ Sought' /\ (spent'.delete = 0 => FreshStep)
<1>1. /\ Base /\ Sought /\ DOMAIN outcome = Instance /\ IInv /\ Waits /\ Rising
      /\ DOMAIN outcome' = Instance /\ Server \in Instance
  BY OutcomeKeeps DEF Fit, Base, Instance
<1>2. IInv' /\ Rising'
  BY <1>1, NextKeeps, NextRises
<1> SUFFICES Good
  BY <1>1 DEF Fit
<1>3. ASSUME Quiet, FreshStep PROVE Good
  BY <1>1, <1>2, <1>3, QuietFits
<1>4. ASSUME NEW i \in Instance, NEW n, NEW F, Turn(i, n, F), \E cn, outs : Handles(i, n, cn, outs, F)
      PROVE  Good
  BY <1>1, <1>4, HandlerFits
<1> HIDE DEF Good
<1>5. ASSUME NEW i \in Instance, NEW k \in Key, NEW F \in SUBSET broken,
             Write(i, k, F) \/ Delete(i, k, F) PROVE Good
  BY <1>1, <1>4, <1>5, WriteHandles, DeleteHandles, CallTurns
<1>6. ASSUME NEW c \in Client, Connect(c) PROVE Good
  <2>1. Base' /\ Sought'
    BY <1>1, <1>2, <1>6, ConnectFits
  <2> QED BY <1>1, <1>6, <2>1, StillFresh DEF Good
<1>7. ASSUME NEW n \in DOMAIN ends, NEW F \in SUBSET broken, RecvInit(n, F) PROVE Good
  BY <1>1, <1>4, <1>7, RecvInitHandles, RecvInitTurns
<1>8. ASSUME NEW i \in Instance, NEW n \in DOMAIN ends, NEW F \in SUBSET broken,
             RecvPublish(i, n, F) PROVE Good
  BY <1>1, <1>4, <1>8, RecvPublishHandles, RecvPublishTurns
<1>9. ASSUME NEW i \in Instance, NEW n \in DOMAIN ends, NEW F \in SUBSET broken,
             RecvSync(i, n, F) PROVE Good
  BY <1>1, <1>4, <1>9, RecvSyncHandles, RecvSyncTurns
<1>10. ASSUME NEW i \in Instance, NEW n \in DOMAIN ends, NEW F \in SUBSET broken,
              NEW buffered, RecvAnswer(i, n, F, buffered) PROVE Good
  BY <1>1, <1>4, <1>10, RecvAnswerHandles, RecvAnswerTurns
<1>11. ASSUME NEW i \in Instance, NEW F \in SUBSET broken, Sync(i, F) PROVE Good
  BY <1>1, <1>4, <1>11, SyncHandles, SyncTurns
<1>12. ASSUME Accept PROVE Good
  <2>1. UNCHANGED wait
    BY <1>12 DEF Accept, NoChange
  <2> QED BY <1>1, <1>3, <1>12, <2>1, AcceptQuiet, StillFresh
<1>13. ASSUME NEW i \in Instance, Timeout(i) PROVE Good
  BY <1>1, <1>3, <1>13, TimeoutFresh, OthersQuiet
<1>14. ASSUME \/ \E i \in Instance : \E id \in DOMAIN event[i] : Expire(i, id)
              \/ \E n \in DOMAIN ends : Break(n)
              \/ Undefined \/ UNCHANGED vars
       PROVE  Good
  <2>1. UNCHANGED wait
    BY <1>14 DEF Expire, Break, NoChange, Undefined, vars
  <2>2. Quiet
    BY <1>1, <1>14, OthersQuiet DEF Undefined
  <2> QED BY <1>1, <1>3, <2>1, <2>2, StillFresh
<1>15. ASSUME NEW i \in Instance, NEW n \in broken, Notice(i, n) PROVE Good
  <2>1. UNCHANGED wait
    BY <1>15 DEF Notice, NoChange
  <2> QED BY <1>1, <1>3, <1>15, <2>1, NoticeQuiet, StillFresh
<1> QED BY <1>5, <1>6, <1>7, <1>8, <1>9, <1>10, <1>11, <1>12, <1>13, <1>14, <1>15 DEF Next

\* In the beginning nobody has asked.
LEMMA InitFits == ASSUME Init PROVE Fit
<1>1. IInv /\ Rising
  BY InitHolds, InitRises
<1>2. Conns = {} /\ wait = [i \in Instance |-> <<>>] /\ event = [i \in Instance |-> EmptyTable]
      /\ DOMAIN outcome = Instance
  BY DEF Init, Conns
<1>3. Serial /\ Unasked
  BY <1>2 DEF Serial, Unasked
<1>4. Waits /\ Sought
  BY <1>2 DEF Waits, Sought, Calls
<1>5. \A P, D : Sound(EmptyTable, P, D)
  <2> DEFINE ev == EmptyTable
  <2>1. DOMAIN ev = {}
    BY DEF EmptyTable
  <2> HIDE DEF ev
  <2>2. IsFiniteSet(DOMAIN ev)
    BY <2>1, FS_EmptySet
  <2>3. \A P, D : Sound(ev, P, D)
    BY <2>1, <2>2 DEF Sound, Family, Tally
  <2> QED BY <2>3 DEF ev
<1>6. Families
  BY <1>2, <1>5 DEF Families
<1> QED BY <1>1, <1>2, <1>3, <1>4, <1>6 DEF Fit, Base

\* Until something is deleted, a ydb_sync that succeeds has brought the caller all that
\* had been written at the instances it asks, directly or through the server, when it was
\* called: whatever requests cross, time out or are lost with their connection (yconn_sync,
\* waitevent_reset, yconn_serve_blocking).
THEOREM SyncsBringTheLatest == ASSUME Usage PROVE Spec => SyncsAreFresh
<1>1. Init => Fit
  BY InitFits
<1>2. Fit /\ [Next]_vars => Fit'
  BY NextFits
<1>3. Fit /\ [Next]_vars => [spent'.delete = 0 => FreshStep]_vars
  BY NextFits
<1> QED BY <1>1, <1>2, <1>3, PTL DEF Spec, SyncsAreFresh
=============================================================================
