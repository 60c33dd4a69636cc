-------------------------- MODULE WaitEventProofs --------------------------
(***************************************************************************)
(* Proofs about WaitEvent, for every set of descriptors and every bound.    *)
(* EndsWithLastAnswer is not inductive: it needs that a counter is the size *)
(* of the history set it stands for, which needs in turn that a new root or *)
(* relay event finds no orphan child pointing at its id.                    *)
(***************************************************************************)
EXTENDS WaitEvent, FiniteSetTheorems, TLAPS

\* The ids parents have had so far are below the counters that number new ones.
ParentsAreOld ==
  \A x \in DOMAIN event :
    /\ x[1] = 0 => x[2] <= waiteventseq
    /\ event[x].pid[1] = 0 => event[x].pid[2] <= waiteventseq
    /\ ~AllowStale /\ event[x].pid[1] > 0
         => event[x].pid[2] <= recvseq[event[x].pid[1]]

\* The children in the table are among the requests that wait for an answer,
\* and the counter of their parent is the number of those.
ChildrenCounted ==
  \A p \in DOMAIN event : event[p].pid = NoId /\ Claimed(p) =>
    /\ IsFiniteSet(unanswered[p])
    /\ event[p].cevents = Cardinality(unanswered[p])
    /\ \A c \in DOMAIN event : event[c].pid = p => c \in unanswered[p]

\* A child event is nobody's parent on purpose: nothing waits behind it.
ChildrenChildless ==
  \A x \in DOMAIN event : event[x].pid # NoId => unanswered[x] = {}

IInv ==
  /\ TypeOK
  /\ ~dangling => ParentsAreOld /\ ChildrenCounted /\ ChildrenChildless

-----------------------------------------------------------------------------
\* The ids of one round of requests are ids, and finitely many.
LEMMA KidsFinite ==
  ASSUME NEW T \in SUBSET Fd, NEW ss \in [Fd -> 0..MaxSeq],
         \A f \in T : ss[f] < MaxSeq
  PROVE  /\ {<<f, ss[f] + 1>> : f \in T} \subseteq Ids
         /\ IsFiniteSet({<<f, ss[f] + 1>> : f \in T})
<1>1. {<<f, ss[f] + 1>> : f \in T} \subseteq Fd \X (0..MaxSeq)
  BY BoundAssumption
<1>2. IsFiniteSet(Fd \X (0..MaxSeq))
  <2>1. IsFiniteSet(0..MaxSeq)
    BY FS_Interval, BoundAssumption
  <2> QED BY <2>1, FS_Product, FdAssumption
<1>3. IsFiniteSet({<<f, ss[f] + 1>> : f \in T})
  BY <1>1, <1>2, FS_Subset
<1>4. Fd \X (0..MaxSeq) \subseteq Ids
  BY BoundAssumption DEF Ids
<1> QED BY <1>1, <1>3, <1>4

\* Every id has a number that is not negative, and NoId is none of them.
LEMMA IdFacts ==
  /\ NoId \notin Ids
  /\ \A x \in Ids : x[1] \in Nat /\ x[2] \in Nat /\ x = <<x[1], x[2]>>
<1>1. Fd \cup {0} \subseteq Nat
  BY FdAssumption
<1>2. NoId \notin Ids
  BY <1>1 DEF NoId, Ids
<1>3. ASSUME NEW x \in Ids
      PROVE  x[1] \in Nat /\ x[2] \in Nat /\ x = <<x[1], x[2]>>
  BY <1>1 DEF Ids
<1> QED BY <1>2, <1>3

-----------------------------------------------------------------------------
LEMMA InitInv == Init => IInv
<1> SUFFICES ASSUME Init PROVE IInv
  OBVIOUS
<1>1. DOMAIN event = {} /\ DOMAIN unanswered = {}
  BY DEF Init, EmptyTable
<1>2. TypeOK
  <2>1. /\ waiteventseq \in 0..MaxRoot
        /\ sendseq \in [Fd -> 0..MaxSeq]
        /\ recvseq \in [Fd -> 0..MaxSeq]
    BY BoundAssumption DEF Init
  <2>2. open \subseteq Fd /\ dangling \in BOOLEAN
    BY DEF Init
  <2> QED BY <1>1, <2>1, <2>2 DEF TypeOK
<1> QED BY <1>1, <1>2 DEF IInv, ParentsAreOld, ChildrenCounted, ChildrenChildless

\* One round of requests for a parent p that is new: the only part that differs
\* between a local and a relayed round is why no event points at p yet.
LEMMA RequestStep ==
  ASSUME IInv, ~dangling, NEW p \in Ids,
         NEW T \in SUBSET Fd, NEW F \in SUBSET T,
         Request(p, T, F), T \subseteq open,
         \A x \in DOMAIN event : Claimed(p) => event[x].pid # p,
         waiteventseq' \in waiteventseq..MaxRoot,
         p[1] = 0 => p[2] <= waiteventseq',
         recvseq' \in [Fd -> 0..MaxSeq],
         \A f \in Fd : recvseq[f] <= recvseq'[f],
         p[1] > 0 => p[2] <= recvseq'[p[1]],
         \A f \in T : f # p[1]
  PROVE  IInv'
<1> DEFINE kids == {<<f, sendseq[f] + 1>> : f \in T \ F}
<1>1. /\ kids \subseteq Ids
      /\ IsFiniteSet(kids)
      /\ \A k \in kids : k[1] > 0 /\ k # p
  <2>1. T \ F \in SUBSET Fd /\ sendseq \in [Fd -> 0..MaxSeq]
        /\ \A f \in T \ F : sendseq[f] < MaxSeq
    BY DEF IInv, TypeOK, Request
  <2>2. kids \subseteq Ids /\ IsFiniteSet(kids)
    BY <2>1, KidsFinite
  <2> QED BY <2>1, <2>2, FdAssumption DEF Ids
<1>2. /\ DOMAIN event' = DOMAIN event \cup {p} \cup kids
      /\ event'[p] = Record(NoId, Cardinality(kids))
      /\ \A k \in kids : event'[k] = Record(p, 0)
      /\ \A x \in DOMAIN event : x \notin kids /\ x # p => event'[x] = event[x]
  BY <1>1 DEF Request, AddEvents
<1>3. /\ DOMAIN unanswered' = DOMAIN event'
      /\ unanswered'[p] = kids
      /\ \A k \in kids : unanswered'[k] = {}
      /\ \A x \in DOMAIN event : x \notin kids /\ x # p => unanswered'[x] = unanswered[x]
  BY <1>1, <1>2 DEF Request
<1>4. Cardinality(kids) \in Nat
  BY <1>1, FS_CardinalityType
<1>5. TypeOK'
  <2>1. \A x \in DOMAIN event' : event'[x] \in [pid : ParentIds, cevents : Int]
    BY <1>1, <1>2, <1>4 DEF IInv, TypeOK, Record, ParentIds
  <2>2. sendseq' \in [Fd -> 0..MaxSeq]
    BY BoundAssumption DEF IInv, TypeOK, Request
  <2>3. DOMAIN event' \subseteq Ids
    BY <1>1, <1>2 DEF IInv, TypeOK
  <2>6. open' \subseteq Fd
    BY DEF IInv, TypeOK, Request
  <2>7. waiteventseq' \in 0..MaxRoot
    BY BoundAssumption DEF IInv, TypeOK
  <2>4. dangling' \in BOOLEAN
    BY DEF Request, Collides
  <2>5. \A x \in DOMAIN event' : unanswered'[x] \subseteq Ids
    BY <1>1, <1>2, <1>3 DEF IInv, TypeOK
  <2> QED BY <2>1, <2>2, <2>3, <2>4, <2>5, <2>6, <2>7, <1>3 DEF TypeOK
<1>6. ASSUME ~dangling'
      PROVE  ParentsAreOld' /\ ChildrenCounted' /\ ChildrenChildless'
  <2>1. p \notin DOMAIN event /\ kids \cap DOMAIN event = {}
    BY <1>6 DEF Request, Collides
  <2>2. ParentsAreOld'
    <3> SUFFICES ASSUME NEW x \in DOMAIN event'
                 PROVE  /\ x[1] = 0 => x[2] <= waiteventseq'
                        /\ event'[x].pid[1] = 0 => event'[x].pid[2] <= waiteventseq'
                        /\ ~AllowStale /\ event'[x].pid[1] > 0
                             => event'[x].pid[2] <= recvseq'[event'[x].pid[1]]
      BY DEF ParentsAreOld
    <3>1. CASE x = p
      BY <3>1, <1>2 DEF Record, NoId
    <3>2. CASE x \in kids
      BY <3>2, <1>1, <1>2 DEF Record
    <3>3. CASE x \in DOMAIN event
      <4>1. event'[x] = event[x] /\ x \in Ids /\ event[x].pid \in ParentIds
        BY <3>3, <2>1, <1>2 DEF IInv, TypeOK
      <4>2. x[2] \in Nat /\ waiteventseq \in Nat /\ event[x].pid[2] \in Nat
        BY <4>1, IdFacts DEF IInv, TypeOK, ParentIds, NoId
      <4>3. event[x].pid[1] > 0 => event[x].pid[1] \in Fd
        BY <4>1 DEF ParentIds, NoId, Ids
      <4>4. \A f \in Fd : recvseq[f] \in Nat /\ recvseq'[f] \in Nat
        BY BoundAssumption DEF IInv, TypeOK
      <4> QED BY <4>1, <4>2, <4>3, <4>4, <3>3, BoundAssumption DEF IInv, ParentsAreOld
    <3> QED BY <3>1, <3>2, <3>3, <1>2
  <2>3. ChildrenCounted'
    <3> SUFFICES ASSUME NEW q \in DOMAIN event', event'[q].pid = NoId, Claimed(q)
                 PROVE  /\ IsFiniteSet(unanswered'[q])
                        /\ event'[q].cevents = Cardinality(unanswered'[q])
                        /\ \A c \in DOMAIN event' : event'[c].pid = q => c \in unanswered'[q]
      BY DEF ChildrenCounted, Claimed
    <3>1. CASE q = p
      <4>1. \A c \in DOMAIN event' : event'[c].pid = p => c \in kids
        BY <3>1, <1>2, <2>1, IdFacts DEF Record
      <4> QED BY <4>1, <3>1, <1>1, <1>2, <1>3 DEF Record
    <3>2. CASE q # p
      <4>1. q \in DOMAIN event /\ q \notin kids
        BY <3>2, <1>2, IdFacts DEF Record
      <4>2. event'[q] = event[q] /\ unanswered'[q] = unanswered[q]
        BY <4>1, <3>2, <1>2, <1>3
      <4>3. q \in Ids
        BY <4>1 DEF IInv, TypeOK
      <4>4. \A c \in DOMAIN event' : event'[c].pid = q => c \in DOMAIN event /\ event[c].pid = q
        BY <4>3, <3>2, <1>2, <2>1, IdFacts DEF Record
      <4> QED BY <4>1, <4>2, <4>4 DEF IInv, ChildrenCounted
    <3> QED BY <3>1, <3>2
  <2>4. ChildrenChildless'
    BY <1>2, <1>3, <2>1 DEF Record, IInv, ChildrenChildless
  <2> QED BY <2>2, <2>3, <2>4
<1> QED BY <1>5, <1>6 DEF IInv

-----------------------------------------------------------------------------
LEMMA LocalRequestStep ==
  ASSUME IInv, NEW T \in SUBSET Fd, NEW F \in SUBSET Fd, LocalRequest(T, F)
  PROVE  IInv'
<1> DEFINE p == <<0, (waiteventseq + 1) % 100000>>
<1>1. waiteventseq \in Nat /\ waiteventseq + 1 <= MaxRoot /\ waiteventseq + 1 < 100000
  BY BoundAssumption DEF LocalRequest, IInv, TypeOK
<1>2. p = <<0, waiteventseq + 1>>
  BY <1>1
<1>3. p \in Ids
  BY <1>1, <1>2 DEF Ids
<1>4. \A x \in DOMAIN event : event[x].pid # p
  <2> SUFFICES ASSUME NEW x \in DOMAIN event, event[x].pid = p PROVE FALSE
    OBVIOUS
  <2>1. event[x].pid[2] <= waiteventseq
    BY <1>2 DEF LocalRequest, IInv, ParentsAreOld
  <2> QED BY <2>1, <1>1, <1>2
<1>5. waiteventseq' \in waiteventseq..MaxRoot /\ p[2] <= waiteventseq'
  BY <1>1, <1>2, BoundAssumption DEF LocalRequest
<1>6. /\ recvseq' \in [Fd -> 0..MaxSeq]
      /\ \A f \in Fd : recvseq[f] <= recvseq'[f]
  BY BoundAssumption DEF LocalRequest, IInv, TypeOK
<1>7. /\ F \in SUBSET T /\ T \subseteq open /\ ~dangling /\ Request(p, T, F)
      /\ \A f \in T : f # p[1]
  BY FdAssumption DEF LocalRequest
<1> QED BY <1>2, <1>3, <1>4, <1>5, <1>6, <1>7, RequestStep

LEMMA RelayRequestStep ==
  ASSUME IInv, NEW fd \in Fd, NEW s \in 1..MaxSeq,
         NEW T \in SUBSET Fd, NEW F \in SUBSET Fd, RelayRequest(fd, s, T, F)
  PROVE  IInv'
<1> DEFINE p == <<fd, s>>
<1>1. p \in Ids /\ fd > 0
  BY FdAssumption, BoundAssumption DEF Ids
<1>2. \A x \in DOMAIN event : Claimed(p) => event[x].pid # p
  <2> SUFFICES ASSUME NEW x \in DOMAIN event, Claimed(p), event[x].pid = p PROVE FALSE
    OBVIOUS
  <2>1. ~AllowStale
    BY <1>1 DEF Claimed
  <2>2. s <= recvseq[fd]
    BY <2>1, <1>1 DEF RelayRequest, IInv, ParentsAreOld
  <2>3. recvseq[fd] \in Nat /\ s > recvseq[fd]
    BY BoundAssumption DEF RelayRequest, IInv, TypeOK
  <2> QED BY <2>2, <2>3, BoundAssumption
<1>3. /\ recvseq' \in [Fd -> 0..MaxSeq]
      /\ \A f \in Fd : recvseq[f] <= recvseq'[f]
      /\ p[2] <= recvseq'[p[1]]
  <2>1. recvseq \in [Fd -> 0..MaxSeq] /\ s > recvseq[fd] /\ recvseq' = [recvseq EXCEPT ![fd] = s]
    BY DEF RelayRequest, IInv, TypeOK
  <2> QED BY <2>1, BoundAssumption
<1>4. waiteventseq' \in waiteventseq..MaxRoot
  BY BoundAssumption DEF RelayRequest, IInv, TypeOK
<1>5. /\ F \in SUBSET T /\ T \subseteq open /\ ~dangling /\ Request(p, T, F)
      /\ \A f \in T : f # p[1]
  BY DEF RelayRequest
<1> QED BY <1>1, <1>2, <1>3, <1>4, <1>5, RequestStep

\* An answer or a timer: one event goes, and with it perhaps its parent.
LEMMA SettleStep ==
  ASSUME IInv, ~dangling, NEW id \in Ids, NEW expired \in BOOLEAN,
         Settle(id, expired),
         UNCHANGED <<waiteventseq, open, sendseq, recvseq, dangling>>
  PROVE  IInv'
<1> DEFINE p == event[id].pid
           r == Reset(event, id, expired)
<1>1. CASE id \notin DOMAIN event
  <2>1. event' = event
    BY <1>1 DEF Reset, Settle
  <2>2. /\ DOMAIN unanswered' = DOMAIN event
        /\ \A x \in DOMAIN event : unanswered'[x] = unanswered[x]
    BY <1>1, <2>1 DEF Settle
  <2>3. TypeOK'
    BY <2>1, <2>2 DEF IInv, TypeOK
  <2>4. ParentsAreOld' /\ ChildrenCounted' /\ ChildrenChildless'
    BY <2>1, <2>2 DEF IInv, ParentsAreOld, ChildrenCounted, ChildrenChildless, Claimed
  <2> QED BY <2>3, <2>4 DEF IInv
<1>2. CASE id \in DOMAIN event
  <2> DEFINE rest == RemoveEvents(event, {id})
  <2>1. /\ DOMAIN rest = DOMAIN event \ {id}
        /\ \A x \in DOMAIN rest : rest[x] = event[x]
    BY DEF RemoveEvents
  <2>2. /\ DOMAIN event' \subseteq DOMAIN event \ {id}
        /\ \A x \in DOMAIN event' : x # p \/ expired => event'[x] = event[x]
        /\ p \in DOMAIN event' /\ ~expired
             => event'[p] = Record(event[p].pid, event[p].cevents - 1)
    <3>1. CASE expired \/ p = NoId \/ p \notin DOMAIN rest
      <4>1. event' = rest
        BY <3>1, <1>2 DEF Settle, Reset, CountAnswer, LastAnswer
      <4>2. NoId \notin DOMAIN event
        BY IdFacts DEF IInv, TypeOK
      <4> QED BY <4>1, <4>2, <3>1, <2>1
    <3>2. CASE ~(expired \/ p = NoId \/ p \notin DOMAIN rest) /\ event[p].cevents - 1 <= 0
      <4>1. event' = RemoveEvents(rest, {p})
        BY <3>2, <1>2 DEF Settle, Reset, CountAnswer, LastAnswer
      <4> QED BY <4>1, <2>1 DEF RemoveEvents
    <3>3. CASE ~(expired \/ p = NoId \/ p \notin DOMAIN rest) /\ ~(event[p].cevents - 1 <= 0)
      <4>1. event' = [rest EXCEPT ![p].cevents = @ - 1]
        BY <3>3, <1>2 DEF Settle, Reset, CountAnswer, LastAnswer
      <4>2. p \in DOMAIN rest /\ event[p] \in [pid : ParentIds, cevents : Int]
        BY <3>3, <2>1 DEF IInv, TypeOK
      <4>3. event'[p] = [rest[p] EXCEPT !.cevents = @ - 1]
        BY <4>1, <4>2
      <4> QED BY <4>1, <4>2, <4>3, <2>1, <3>3 DEF Record
    <3> QED BY <3>1, <3>2, <3>3
  <2>3. /\ DOMAIN unanswered' = DOMAIN event'
        /\ \A x \in DOMAIN event' : x # p \/ expired => unanswered'[x] = unanswered[x]
        /\ p \in DOMAIN event' /\ ~expired => unanswered'[p] = unanswered[p] \ {id}
    BY <1>2 DEF Settle
  <2>4. \A x \in DOMAIN event' : event'[x].pid = event[x].pid
    BY <2>2 DEF Record
  <2>5. TypeOK'
    <3>1. \A x \in DOMAIN event' : event'[x] \in [pid : ParentIds, cevents : Int]
      BY <2>2 DEF IInv, TypeOK, Record
    <3>2. \A x \in DOMAIN event' : unanswered'[x] \subseteq Ids
      BY <2>2, <2>3 DEF IInv, TypeOK
    <3> QED BY <3>1, <3>2, <2>2, <2>3 DEF IInv, TypeOK
  <2>6. ParentsAreOld'
    BY <2>2, <2>4 DEF IInv, ParentsAreOld
  <2>7. ChildrenChildless'
    BY <2>2, <2>3, <2>4 DEF IInv, ChildrenChildless
  <2>8. ChildrenCounted'
    <3> SUFFICES ASSUME NEW q \in DOMAIN event', event'[q].pid = NoId, Claimed(q)
                 PROVE  /\ IsFiniteSet(unanswered'[q])
                        /\ event'[q].cevents = Cardinality(unanswered'[q])
                        /\ \A c \in DOMAIN event' : event'[c].pid = q => c \in unanswered'[q]
      BY DEF ChildrenCounted, Claimed
    <3>1. /\ q \in DOMAIN event /\ event[q].pid = NoId
          /\ IsFiniteSet(unanswered[q])
          /\ event[q].cevents = Cardinality(unanswered[q])
          /\ \A c \in DOMAIN event : event[c].pid = q => c \in unanswered[q]
      BY <2>2, <2>4 DEF IInv, ChildrenCounted
    <3>2. CASE q # p \/ expired
      BY <3>1, <3>2, <2>2, <2>3, <2>4
    <3>3. CASE q = p /\ ~expired
      <4>1. /\ IsFiniteSet(unanswered[q] \ {id})
            /\ Cardinality(unanswered[q] \ {id}) = Cardinality(unanswered[q]) - 1
        BY <3>1, <3>3, <1>2, FS_RemoveElement
      <4>2. event'[q].cevents = event[q].cevents - 1
        BY <3>3, <2>2 DEF Record
      <4>3. id \notin DOMAIN event'
        BY <2>2
      <4> QED BY <4>1, <4>2, <4>3, <3>1, <3>3, <2>2, <2>3, <2>4
    <3> QED BY <3>2, <3>3
  <2> QED BY <2>5, <2>6, <2>7, <2>8 DEF IInv
<1> QED BY <1>1, <1>2

LEMMA OpenStep ==
  ASSUME IInv, NEW fd \in Fd, NEW s \in 0..MaxSeq, Open(fd, s)
  PROVE  IInv'
<1>1. TypeOK'
  <2>1. 0 \in 0..MaxSeq
    BY BoundAssumption
  <2>2. sendseq' \in [Fd -> 0..MaxSeq] /\ recvseq' \in [Fd -> 0..MaxSeq]
    BY <2>1 DEF IInv, TypeOK, Open
  <2> QED BY <2>2 DEF IInv, TypeOK, Open
<1>2. ParentsAreOld'
  <2> SUFFICES ASSUME NEW x \in DOMAIN event, ~AllowStale, event[x].pid[1] > 0
               PROVE  event[x].pid[2] <= recvseq'[event[x].pid[1]]
    BY DEF IInv, Open, ParentsAreOld
  <2>1. Quiet(fd) /\ ~dangling /\ recvseq' = [recvseq EXCEPT ![fd] = 0]
    BY DEF Open
  <2>2. event[x].pid[1] # fd
    BY <2>1 DEF Quiet
  <2>3. event[x].pid[2] <= recvseq[event[x].pid[1]]
    BY <2>1 DEF IInv, ParentsAreOld
  <2>4. recvseq'[event[x].pid[1]] = recvseq[event[x].pid[1]]
    <3>1. event[x].pid[1] \in Fd
      BY DEF IInv, TypeOK, ParentIds, NoId, Ids
    <3> QED BY <3>1, <2>1, <2>2 DEF IInv, TypeOK
  <2> QED BY <2>3, <2>4
<1>3. ChildrenCounted' /\ ChildrenChildless'
  BY DEF IInv, Open, ChildrenCounted, ChildrenChildless, Claimed
<1> QED BY <1>1, <1>2, <1>3 DEF IInv

-----------------------------------------------------------------------------
LEMMA NextInv == IInv /\ [Next]_vars => IInv'
<1> SUFFICES ASSUME IInv, [Next]_vars PROVE IInv'
  OBVIOUS
<1>1. ASSUME NEW T \in SUBSET Fd, NEW F \in SUBSET Fd, LocalRequest(T, F) PROVE IInv'
  BY <1>1, LocalRequestStep
<1>2. ASSUME NEW fd \in Fd, NEW s \in 1..MaxSeq, NEW T \in SUBSET Fd, NEW F \in SUBSET Fd,
             RelayRequest(fd, s, T, F)
      PROVE IInv'
  BY <1>2, RelayRequestStep
<1>3. ASSUME NEW fd \in Fd, Publish(fd) PROVE IInv'
  <2>1. TypeOK'
    <3>1. sendseq' \in [Fd -> 0..MaxSeq]
      BY <1>3, BoundAssumption DEF Publish, IInv, TypeOK
    <3> QED BY <3>1, <1>3 DEF Publish, IInv, TypeOK
  <2> QED BY <2>1, <1>3
          DEF Publish, IInv, ParentsAreOld, ChildrenCounted, ChildrenChildless, Claimed
<1>4. ASSUME NEW fd \in Fd, NEW s \in 1..MaxSeq, Complete(fd, s) PROVE IInv'
  <2>1. <<fd, s>> \in Ids
    BY BoundAssumption DEF Ids
  <2> QED BY <2>1, <1>4, SettleStep DEF Complete
<1>5. ASSUME NEW id \in DOMAIN event, Expire(id) PROVE IInv'
  <2>1. id \in Ids
    BY DEF IInv, TypeOK
  <2> QED BY <2>1, <1>5, SettleStep DEF Expire
<1>6. ASSUME NEW fd \in Fd, Close(fd) PROVE IInv'
  BY <1>6 DEF Close, IInv, TypeOK, ParentsAreOld, ChildrenCounted, ChildrenChildless, Claimed
<1>7. ASSUME NEW fd \in Fd, NEW s \in 0..MaxSeq, Open(fd, s) PROVE IInv'
  BY <1>7, OpenStep
<1>8. CASE UNCHANGED vars
  BY <1>8 DEF vars, IInv, TypeOK, ParentsAreOld, ChildrenCounted, ChildrenChildless, Claimed
<1> QED BY <1>1, <1>2, <1>3, <1>4, <1>5, <1>6, <1>7, <1>8 DEF Next, Undefined

\* In a state of the invariant, an answer that ends a wait is the last one.
LEMMA InvSound == IInv => CountsUnanswered /\ EndsWithLastAnswer
<1> SUFFICES ASSUME IInv, ~dangling PROVE CountsUnanswered /\ EndsWithLastAnswer
  BY DEF CountsUnanswered, EndsWithLastAnswer
<1>1. CountsUnanswered
  BY DEF IInv, ChildrenCounted, CountsUnanswered
<1>2. EndsWithLastAnswer
  <2> SUFFICES ASSUME NEW c \in DOMAIN event, EndsParent(event, c), Claimed(event[c].pid)
               PROVE  unanswered[event[c].pid] \subseteq {c}
    BY DEF EndsWithLastAnswer
  <2> DEFINE p == event[c].pid
             rest == RemoveEvents(event, {c})
  <2>1. p # NoId /\ p \in DOMAIN event /\ p # c
    BY DEF EndsParent, Reset, CountAnswer, LastAnswer, RemoveEvents
  <2>2. event[p].cevents - 1 <= 0
    BY <2>1 DEF EndsParent, Reset, CountAnswer, LastAnswer, RemoveEvents
  <2>3. CASE event[p].pid # NoId
    BY <2>1, <2>3 DEF IInv, ChildrenChildless
  <2>4. CASE event[p].pid = NoId
    <3>1. /\ IsFiniteSet(unanswered[p])
          /\ event[p].cevents = Cardinality(unanswered[p])
          /\ c \in unanswered[p]
      BY <2>1, <2>4 DEF IInv, ChildrenCounted
    <3>2. /\ IsFiniteSet(unanswered[p] \ {c})
          /\ Cardinality(unanswered[p] \ {c}) = Cardinality(unanswered[p]) - 1
      BY <3>1, FS_RemoveElement
    <3>3. Cardinality(unanswered[p] \ {c}) \in Nat
      BY <3>2, FS_CardinalityType
    <3>4. Cardinality(unanswered[p]) \in Nat
      BY <3>1, FS_CardinalityType
    <3>5. Cardinality(unanswered[p] \ {c}) = 0
      BY <3>1, <3>2, <3>3, <3>4, <2>2
    <3> QED BY <3>2, <3>5, FS_EmptySet
  <2> QED BY <2>3, <2>4
<1> QED BY <1>1, <1>2

\* The table, its counters and its history keep their types (waitevent structs).
THEOREM WaitEventType == Spec => []TypeOK
<1>1. Init => IInv BY InitInv
<1>2. IInv /\ [Next]_vars => IInv' BY NextInv
<1>3. IInv => TypeOK BY DEF IInv
<1> QED BY <1>1, <1>2, <1>3, PTL DEF Spec

\* A parent's counter is the number of its requests without an answer.
THEOREM WaitEventCounts == Spec => []CountsUnanswered
<1>1. Init => IInv BY InitInv
<1>2. IInv /\ [Next]_vars => IInv' BY NextInv
<1>3. IInv => CountsUnanswered BY InvSound
<1> QED BY <1>1, <1>2, <1>3, PTL DEF Spec

\* No answer ends a wait (waitevent_reset) while another target has not answered.
THEOREM WaitEndsWithLastAnswer == Spec => []EndsWithLastAnswer
<1>1. Init => IInv BY InitInv
<1>2. IInv /\ [Next]_vars => IInv' BY NextInv
<1>3. IInv => EndsWithLastAnswer BY InvSound
<1> QED BY <1>1, <1>2, <1>3, PTL DEF Spec

=============================================================================
