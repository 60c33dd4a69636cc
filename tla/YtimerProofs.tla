---------------------------- MODULE YtimerProofs ----------------------------
(***************************************************************************)
(* The two trees of a ytimer always hold the same timers, for any number of  *)
(* timers and any durations, whatever callbacks do; the timerfd is armed for *)
(* the first of them; and no callback runs before its time.                  *)
(***************************************************************************)
EXTENDS Ytimer, SequenceTheorems, FiniteSetTheorems, WellFoundedInduction, TLAPS

\* The type invariant says what delimits the calls of ytimer_serve.
IInv == TypeOK /\ TreesAgree

-----------------------------------------------------------------------------
\* The id given to a new timer is the one after the last.
LEMMA NewId ==
  ASSUME TypeOK, next_id < MaxSet
  PROVE  /\ ((next_id + 1) % 100000) + 1 = next_id + 2
         /\ next_id + 2 \notin DOMAIN timer_ids
<1>1. next_id \in Nat /\ next_id + 1 \in Nat /\ next_id + 1 < 100000
  BY BoundAssumption DEF TypeOK
<1>2. (next_id + 1) % 100000 = next_id + 1
  BY <1>1
<1>3. next_id + 2 \notin 2..next_id + 1
  BY DEF TypeOK
<1> QED BY <1>2, <1>3 DEF TypeOK

\* Taking one timer out of both trees, under its key, keeps them in agreement.
LEMMA TakeOut ==
  ASSUME TreesAgree, NEW id \in DOMAIN timer_ids,
         timer_ids' = Without(timer_ids, id),
         timers' = timers \ {Key(timer_ids, id)}
  PROVE  TreesAgree'
<1>1. DOMAIN timer_ids' = DOMAIN timer_ids \ {id}
  BY DEF Without
<1>2. \A x \in DOMAIN timer_ids' : timer_ids'[x] = timer_ids[x]
  BY DEF Without
<1>3. \A x \in DOMAIN timer_ids' : Key(timer_ids, x)' = Key(timer_ids, x)
  BY <1>2 DEF Key
<1>4. \A x \in DOMAIN timer_ids : Key(timer_ids, x) = Key(timer_ids, id) => x = id
  BY DEF Key
<1>5. timers' = {Key(timer_ids, x) : x \in DOMAIN timer_ids \ {id}}
  BY <1>4 DEF TreesAgree
<1>6. timers' = {Key(timer_ids, x)' : x \in DOMAIN timer_ids'}
  BY <1>1, <1>3, <1>5
<1> QED BY <1>6 DEF TreesAgree

\* Moving one timer to its new expiry keeps the trees in agreement.
LEMMA MoveOne ==
  ASSUME TreesAgree, NEW id \in DOMAIN timer_ids,
         DOMAIN timer_ids' = DOMAIN timer_ids,
         \A x \in DOMAIN timer_ids \ {id} : timer_ids'[x] = timer_ids[x],
         timers' = (timers \ {Key(timer_ids, id)}) \cup {Key(timer_ids', id)}
  PROVE  TreesAgree'
<1>1. \A x \in DOMAIN timer_ids \ {id} : Key(timer_ids', x) = Key(timer_ids, x)
  BY DEF Key
<1>2. \A x \in DOMAIN timer_ids : Key(timer_ids, x) = Key(timer_ids, id) => x = id
  BY DEF Key
<1>3. timers \ {Key(timer_ids, id)} = {Key(timer_ids, x) : x \in DOMAIN timer_ids \ {id}}
  BY <1>2 DEF TreesAgree
<1>4. timers' = {Key(timer_ids', x) : x \in DOMAIN timer_ids \ {id}} \cup {Key(timer_ids', id)}
  BY <1>1, <1>3
<1>5. timers' = {Key(timer_ids', x) : x \in DOMAIN timer_ids'}
  BY <1>4
<1> QED BY <1>5 DEF TreesAgree

-----------------------------------------------------------------------------
LEMMA InitInv == Init => IInv
<1> SUFFICES ASSUME Init PROVE IInv
  OBVIOUS
<1>1. DOMAIN timer_ids = {}
  BY DEF Init
<1>2. TypeOK
  BY <1>1, BoundAssumption DEF Init, TypeOK
<1>3. TreesAgree
  BY <1>1 DEF Init, TreesAgree
<1> QED BY <1>2, <1>3 DEF IInv

LEMMA SetStep ==
  ASSUME IInv, NEW msec \in Msec, NEW periodic \in BOOLEAN, Set(msec, periodic)
  PROVE  IInv'
<1> DEFINE id  == next_id + 2
           new == [remained |-> msec, duration_ms |-> msec, periodic |-> periodic]
<1>1. next_id < MaxSet /\ next_id' = next_id + 1
  BY DEF Set
<1>2. ((next_id + 1) % 100000) + 1 = id /\ id \notin DOMAIN timer_ids
  BY <1>1, NewId DEF IInv
<1>3. timer_ids' = With(timer_ids, id, new) /\ timers' = timers \cup {Key(timer_ids', id)}
  BY <1>2 DEF Set
<1>4. /\ DOMAIN timer_ids' = DOMAIN timer_ids \cup {id}
      /\ timer_ids'[id] = new
      /\ \A x \in DOMAIN timer_ids : timer_ids'[x] = timer_ids[x]
  BY <1>2, <1>3 DEF With
<1>5. TypeOK'
  <2>1. msec \in Int
    BY MsecAssumption
  <2>2. next_id' \in 0..MaxSet /\ DOMAIN timer_ids' \subseteq 2..next_id' + 1
    BY <1>1, <1>4, BoundAssumption DEF IInv, TypeOK
  <2>3. \A x \in DOMAIN timer_ids' :
          timer_ids'[x] \in [remained : Int, duration_ms : Msec, periodic : BOOLEAN]
    BY <2>1, <1>4 DEF IInv, TypeOK
  <2> QED BY <2>2, <2>3, <1>4 DEF IInv, TypeOK, Set
<1>6. TreesAgree'
  <2>1. \A x \in DOMAIN timer_ids : Key(timer_ids', x) = Key(timer_ids, x)
    BY <1>4 DEF Key
  <2>2. timers' = {Key(timer_ids', x) : x \in DOMAIN timer_ids} \cup {Key(timer_ids', id)}
    BY <2>1, <1>3 DEF IInv, TreesAgree
  <2>3. timers' = {Key(timer_ids', x) : x \in DOMAIN timer_ids'}
    BY <2>2, <1>4
  <2> QED BY <2>3 DEF TreesAgree
<1> QED BY <1>5, <1>6 DEF IInv

LEMMA RestartStep ==
  ASSUME IInv, NEW id \in DOMAIN timer_ids, NEW msec \in Msec, Restart(id, msec)
  PROVE  IInv'
<1>1. timer_ids' = [timer_ids EXCEPT ![id].remained = msec, ![id].duration_ms = msec]
  BY DEF Restart, Restarted
<1>2. /\ DOMAIN timer_ids' = DOMAIN timer_ids
      /\ \A x \in DOMAIN timer_ids \ {id} : timer_ids'[x] = timer_ids[x]
  BY <1>1
<1>3. TypeOK'
  <2>1. msec \in Int
    BY MsecAssumption
  <2>2. timer_ids'[id] \in [remained : Int, duration_ms : Msec, periodic : BOOLEAN]
    BY <2>1, <1>1 DEF IInv, TypeOK
  <2> QED BY <2>2, <1>2 DEF IInv, TypeOK, Restart
<1>4. timers' = (timers \ {Key(timer_ids, id)}) \cup {Key(timer_ids', id)}
  BY DEF Restart, Moved
<1>5. TreesAgree'
  BY <1>2, <1>4, MoveOne DEF IInv
<1> QED BY <1>3, <1>5 DEF IInv

LEMMA DeleteStep ==
  ASSUME IInv, NEW id \in DOMAIN timer_ids, Delete(id)
  PROVE  IInv'
<1>1. TypeOK'
  <2>1. DOMAIN timer_ids' = DOMAIN timer_ids \ {id} /\ id # cur_id
    BY DEF Delete, Without
  <2>2. \A x \in DOMAIN timer_ids' : timer_ids'[x] = timer_ids[x]
    BY DEF Delete, Without
  <2> QED BY <2>1, <2>2 DEF IInv, TypeOK, Delete
<1>2. TreesAgree'
  BY TakeOut DEF Delete, IInv
<1> QED BY <1>1, <1>2 DEF IInv

LEMMA ReturnStep ==
  ASSUME IInv, NEW res \in {"no_err", "completed"}, Return(res)
  PROVE  IInv'
<1>1. cur_id \in DOMAIN timer_ids /\ cur_id' = 0
  BY DEF Return, IInv, TypeOK
<1>2. CASE timer_ids[cur_id].periodic /\ res = "no_err"
  <2>1. timer_ids' = [timer_ids EXCEPT ![cur_id].remained =
                        timer_ids[cur_id].duration_ms - age]
    BY <1>2 DEF Return, Again
  <2>2. /\ DOMAIN timer_ids' = DOMAIN timer_ids
        /\ \A x \in DOMAIN timer_ids \ {cur_id} : timer_ids'[x] = timer_ids[x]
    BY <2>1
  <2>3. TypeOK'
    <3>1. timer_ids[cur_id].duration_ms \in Msec /\ age \in Nat
      BY <1>1 DEF IInv, TypeOK
    <3>2. timer_ids[cur_id].duration_ms - age \in Int
      <4> DEFINE d == timer_ids[cur_id].duration_ms
      <4>1. d \in Msec /\ age \in Nat
        BY <3>1
      <4> HIDE DEF d
      <4>2. d \in Nat
        BY <4>1, MsecAssumption
      <4>3. d - age \in Int
        BY <4>1, <4>2
      <4> QED BY <4>3 DEF d
    <3>3. timer_ids'[cur_id] \in [remained : Int, duration_ms : Msec, periodic : BOOLEAN]
      BY <3>2, <2>1, <1>1 DEF IInv, TypeOK
    <3> QED BY <3>3, <2>2, <1>1 DEF IInv, TypeOK, Return
  <2>4. timers' = (timers \ {Key(timer_ids, cur_id)}) \cup {Key(timer_ids', cur_id)}
    BY <1>2 DEF Return, Moved
  <2>5. TreesAgree'
    BY <2>2, <2>4, <1>1, MoveOne DEF IInv
  <2> QED BY <2>3, <2>5 DEF IInv
<1>3. CASE ~(timer_ids[cur_id].periodic /\ res = "no_err")
  <2>1. /\ timer_ids' = Without(timer_ids, cur_id)
        /\ timers' = timers \ {Key(timer_ids, cur_id)}
    BY <1>3 DEF Return
  <2>2. TypeOK'
    <3>1. /\ DOMAIN timer_ids' = DOMAIN timer_ids \ {cur_id}
          /\ \A x \in DOMAIN timer_ids' : timer_ids'[x] = timer_ids[x]
      BY <2>1 DEF Without
    <3> QED BY <3>1, <1>1 DEF IInv, TypeOK, Return
  <2>3. TreesAgree'
    BY <2>1, <1>1, TakeOut DEF IInv
  <2> QED BY <2>2, <2>3 DEF IInv
<1> QED BY <1>2, <1>3

LEMMA TickStep == ASSUME IInv, Tick PROVE IInv'
<1>1. /\ DOMAIN timer_ids' = DOMAIN timer_ids
      /\ \A x \in DOMAIN timer_ids :
           timer_ids'[x] = [timer_ids[x] EXCEPT !.remained = timer_ids[x].remained - 1]
  BY DEF Tick
<1>2. TypeOK'
  <2>1. \A x \in DOMAIN timer_ids' :
          timer_ids'[x] \in [remained : Int, duration_ms : Msec, periodic : BOOLEAN]
    BY <1>1 DEF IInv, TypeOK
  <2>2. age' \in Nat
    BY DEF IInv, TypeOK, Tick
  <2> QED BY <2>1, <2>2, <1>1 DEF IInv, TypeOK, Tick
<1>3. TreesAgree'
  <2>1. \A x \in DOMAIN timer_ids :
          Key(timer_ids', x) = <<Key(timer_ids, x)[1] - 1, Key(timer_ids, x)[2]>>
    BY <1>1 DEF Key, IInv, TypeOK
  <2>2. timers' = {<<t[1] - 1, t[2]>> : t \in {Key(timer_ids, x) : x \in DOMAIN timer_ids}}
    BY DEF Tick, IInv, TreesAgree
  <2>3. timers' = {Key(timer_ids', x) : x \in DOMAIN timer_ids}
    BY <2>1, <2>2
  <2> QED BY <2>3, <1>1 DEF TreesAgree
<1> QED BY <1>2, <1>3 DEF IInv

LEMMA NextInv == IInv /\ [Next]_vars => IInv'
<1> SUFFICES ASSUME IInv, [Next]_vars PROVE IInv'
  OBVIOUS
<1>1. ASSUME NEW msec \in Msec, NEW periodic \in BOOLEAN, Set(msec, periodic) PROVE IInv'
  BY <1>1, SetStep
<1>2. ASSUME NEW id \in DOMAIN timer_ids, NEW msec \in Msec, Restart(id, msec) PROVE IInv'
  BY <1>2, RestartStep
<1>3. ASSUME NEW id \in DOMAIN timer_ids, Delete(id) PROVE IInv'
  BY <1>3, DeleteStep
<1>4. CASE DeleteCurrent
  BY <1>4 DEF DeleteCurrent, IInv, TypeOK, TreesAgree, Key
<1>5. CASE ServeBegin
  BY <1>5 DEF ServeBegin, IInv, TypeOK, TreesAgree, Key
<1>6. CASE RunNext
  BY <1>6 DEF RunNext, IInv, TypeOK, TreesAgree, Key
<1>7. CASE ServeEnd
  BY <1>7 DEF ServeEnd, IInv, TypeOK, TreesAgree, Key
<1>8. ASSUME NEW res \in {"no_err", "completed"}, Return(res) PROVE IInv'
  BY <1>8, ReturnStep
<1>9. CASE Tick
  BY <1>9, TickStep
<1>10. CASE UNCHANGED vars
  BY <1>10 DEF vars, IInv, TypeOK, TreesAgree, Key
<1> QED BY <1>1, <1>2, <1>3, <1>4, <1>5, <1>6, <1>7, <1>8, <1>9, <1>10 DEF Next, Stopped

\* A callback always runs within ytimer_serve and on a timer that is registered:
\* the one that is running is never deleted under it.
THEOREM TimersType == Spec => []TypeOK
<1>1. IInv => TypeOK
  BY DEF IInv
<1> QED BY <1>1, InitInv, NextInv, PTL DEF Spec

\* The trees timer_ids and timers of ytimer.c never disagree: every timer that is
\* set is found by its id and under its present expiry, and no other is.
THEOREM TimersTreesAgree == Spec => []TreesAgree
<1>1. IInv => TreesAgree
  BY DEF IInv
<1> QED BY <1>1, InitInv, NextInv, PTL DEF Spec

-----------------------------------------------------------------------------
\* A finite set has an element of the least weight.
LEMMA Least ==
  ASSUME NEW E, IsFiniteSet(E), E # {}, NEW w \in [E -> Int]
  PROVE  \E x \in E : \A y \in E : w[x] <= w[y]
<1> DEFINE below(x) == {y \in E : w[y] <= w[x]}
           T == {below(x) : x \in E}
<1>1. T \subseteq FiniteSubsetsOf(E) /\ T # {}
  <2>1. \A x \in E : below(x) \in SUBSET E
    OBVIOUS
  <2>2. FiniteSubsetsOf(E) = SUBSET E
    BY FS_FiniteSubsetsOfFinite
  <2>3. PICK x \in E : TRUE
    OBVIOUS
  <2>4. below(x) \in T
    OBVIOUS
  <2>5. T \subseteq SUBSET E
    BY <2>1
  <2> QED BY <2>2, <2>4, <2>5
<1>2. \E t \in T : \A u \in T : ~(<<u, t>> \in StrictSubsetOrdering(E))
  <2> HIDE DEF T
  <2> QED BY <1>1, FS_StrictSubsetOrderingWellFounded, WFMin
<1>3. PICK x \in E : \A u \in T : ~(<<u, below(x)>> \in StrictSubsetOrdering(E))
  BY <1>2
<1>4. ASSUME NEW y \in E, w[y] < w[x] PROVE FALSE
  <2>1. below(y) \subseteq below(x) /\ x \in below(x) /\ x \notin below(y)
    BY <1>4
  <2>2. <<below(y), below(x)>> \in StrictSubsetOrdering(E)
    BY <2>1, <1>1 DEF StrictSubsetOrdering, FiniteSubsetsOf
  <2> QED BY <2>2, <1>3
<1> QED BY <1>4

\* A timer comes first, if there is one.
First(x) ==
  /\ x \in DOMAIN timer_ids
  /\ \A y \in DOMAIN timer_ids : timer_ids[x].remained <= timer_ids[y].remained

LEMMA FiniteIds == ASSUME TypeOK PROVE IsFiniteSet(DOMAIN timer_ids)
<1>1. 2 \in Int /\ next_id + 1 \in Int /\ DOMAIN timer_ids \subseteq 2..next_id + 1
  BY DEF TypeOK
<1>2. IsFiniteSet(2..next_id + 1)
  <2> DEFINE n == next_id + 1
  <2>1. n \in Int
    BY <1>1
  <2> HIDE DEF n
  <2>2. IsFiniteSet(2..n)
    BY <2>1, FS_Interval
  <2> QED BY <2>2 DEF n
<1>3. DOMAIN timer_ids \in SUBSET (2..next_id + 1)
  BY <1>1
<1> QED BY <1>2, <1>3, FS_Subset

LEMMA HasFirst ==
  ASSUME TypeOK, DOMAIN timer_ids # {}
  PROVE  \E x : First(x)
<1> DEFINE w == [x \in DOMAIN timer_ids |-> timer_ids[x].remained]
<1>1. IsFiniteSet(DOMAIN timer_ids)
  BY FiniteIds
<1>2. w \in [DOMAIN timer_ids -> Int]
  BY DEF TypeOK
<1>3. \E x \in DOMAIN timer_ids : \A y \in DOMAIN timer_ids : w[x] <= w[y]
  <2> HIDE DEF w
  <2> QED BY <1>1, <1>2, Least
<1> QED BY <1>3 DEF First

LEMMA MaxZero ==
  ASSUME NEW n \in Int
  PROVE  Max({0, n}) = IF n > 0 THEN n ELSE 0
<1> DEFINE m == IF n > 0 THEN n ELSE 0
<1>1. m \in {0, n} /\ (\A y \in {0, n} : m >= y)
  OBVIOUS
<1>2. \A x \in {0, n} : (\A y \in {0, n} : x >= y) => x = m
  OBVIOUS
<1> QED BY <1>1, <1>2 DEF Max

LEMMA ExpiriesOf ==
  ASSUME NEW ids
  PROVE  Expiries({Key(ids, y) : y \in DOMAIN ids}) = {ids[y].remained : y \in DOMAIN ids}
<1> DEFINE K == {Key(ids, y) : y \in DOMAIN ids}
<1>1. \A y \in DOMAIN ids : Key(ids, y) \in K /\ Key(ids, y)[1] = ids[y].remained
  BY DEF Key
<1>2. \A t \in K : \E y \in DOMAIN ids : t = Key(ids, y)
  OBVIOUS
<1>3. Expiries(K) = {t[1] : t \in K}
  BY DEF Expiries
<1> HIDE DEF K
<1>4. {t[1] : t \in K} = {ids[y].remained : y \in DOMAIN ids}
  BY <1>1, <1>2
<1> QED BY <1>3, <1>4 DEF K

\* restart_timer arms the timerfd for the first timer.
LEMMA RearmedFirst ==
  ASSUME TypeOK, TreesAgree
  PROVE  /\ DOMAIN timer_ids = {} => Rearmed(timers) = {}
         /\ \A x : First(x) => Rearmed(timers) = {Max({0, timer_ids[x].remained})}
<1>1. CASE DOMAIN timer_ids = {}
  BY <1>1 DEF TreesAgree, Rearmed, First
<1>2. ASSUME NEW x, First(x) PROVE Rearmed(timers) = {Max({0, timer_ids[x].remained})}
  <2> DEFINE r == timer_ids[x].remained
             E == Expiries(timers)
  <2>1. E = {timer_ids[y].remained : y \in DOMAIN timer_ids}
    BY ExpiriesOf DEF TreesAgree
  <2>2. r \in E /\ (\A e \in E : r <= e) /\ E \subseteq Int
    BY <1>2, <2>1 DEF First, TypeOK
  <2>3. \A e \in E : (\A f \in E : e <= f) => e = r
    BY <2>2
  <2> HIDE DEF r, E
  <2>4. Min(E) = r
    BY <2>2, <2>3 DEF Min
  <2>5. timers # {}
    BY <1>2 DEF First, TreesAgree
  <2> QED BY <2>4, <2>5 DEF Rearmed, E, r
<1> QED BY <1>1, <1>2

\* Outside of ytimer_serve the timerfd is as restart_timer has left it.
Armed == status = "ok" /\ ~serving => timerfd = Rearmed(timers)

LEMMA TickArmed ==
  ASSUME IInv, Armed, Tick
  PROVE  Armed'
<1> SUFFICES ASSUME ~serving PROVE timerfd' = Rearmed(timers')
  BY DEF Armed, Tick
<1>1. TypeOK /\ TreesAgree /\ TypeOK' /\ TreesAgree'
  BY TickStep DEF IInv
<1>2. /\ DOMAIN timer_ids' = DOMAIN timer_ids
      /\ \A x \in DOMAIN timer_ids : timer_ids'[x].remained = timer_ids[x].remained - 1
  BY <1>1 DEF Tick, TypeOK
<1>3. timerfd = Rearmed(timers) /\ timerfd' = {Max({0, n - 1}) : n \in timerfd}
  BY DEF Armed, Tick
<1>4. CASE DOMAIN timer_ids = {}
  <2>1. Rearmed(timers) = {}
    BY <1>1, <1>4, RearmedFirst
  <2>2. timers' = {}
    BY <1>1, <1>2, <1>4 DEF TreesAgree
  <2> QED BY <1>3, <2>1, <2>2 DEF Rearmed
<1>5. CASE DOMAIN timer_ids # {}
  <2>1. PICK x : First(x)
    BY <1>1, <1>5, HasFirst
  <2>2. First(x)'
    BY <2>1, <1>1, <1>2 DEF First, TypeOK
  <2> DEFINE r == timer_ids[x].remained
  <2>3. r \in Int /\ timer_ids'[x].remained = r - 1
    BY <2>1, <1>1, <1>2 DEF First, TypeOK
  <2>4. timerfd = {Max({0, r})}
    BY <1>1, <1>3, <2>1, RearmedFirst
  <2>5. Rearmed(timers') = {Max({0, r - 1})}
    <3>1. timers' = {Key(timer_ids', y) : y \in DOMAIN timer_ids'}
      BY <1>1 DEF TreesAgree
    <3> DEFINE E == Expiries(timers')
    <3>2. E = {timer_ids'[y].remained : y \in DOMAIN timer_ids'}
      BY <3>1, ExpiriesOf
    <3>3. r - 1 \in E /\ (\A e \in E : r - 1 <= e) /\ E \subseteq Int
      BY <1>1, <2>2, <2>3, <3>2 DEF First, TypeOK
    <3>4. \A e \in E : (\A f \in E : e <= f) => e = r - 1
      BY <3>3, <2>3
    <3>5. timers' # {}
      BY <2>2, <3>1 DEF First
    <3> HIDE DEF r, E
    <3>6. Min(E) = r - 1
      BY <3>3, <3>4 DEF Min
    <3> QED BY <3>5, <3>6 DEF Rearmed, E
  <2> HIDE DEF r
  <2>6. Max({0, Max({0, r}) - 1}) = Max({0, r - 1})
    <3>1. Max({0, r}) = (IF r > 0 THEN r ELSE 0) /\ Max({0, r - 1}) = (IF r - 1 > 0 THEN r - 1 ELSE 0)
      BY <2>3, MaxZero
    <3>2. CASE r > 0
      BY <3>1, <3>2, <2>3
    <3>3. CASE ~(r > 0)
      <4>1. Max({0, 0 - 1}) = 0
        BY MaxZero
      <4> QED BY <3>1, <3>3, <4>1, <2>3
    <3> QED BY <3>2, <3>3
  <2>7. timerfd' = {Max({0, Max({0, r}) - 1})}
    BY <1>3, <2>4
  <2> QED BY <2>5, <2>6, <2>7
<1> QED BY <1>4, <1>5

LEMMA NextArmed == IInv /\ Armed /\ [Next]_vars => Armed'
<1> SUFFICES ASSUME IInv, Armed, [Next]_vars PROVE Armed'
  OBVIOUS
<1>1. ASSUME NEW msec \in Msec, NEW periodic \in BOOLEAN, Set(msec, periodic) PROVE Armed'
  BY <1>1 DEF Set, Armed, Rearmed
<1>2. ASSUME NEW id \in DOMAIN timer_ids, NEW msec \in Msec, Restart(id, msec) PROVE Armed'
  BY <1>2 DEF Restart, Armed, Rearmed
<1>3. ASSUME NEW id \in DOMAIN timer_ids, Delete(id) PROVE Armed'
  BY <1>3 DEF Delete, Armed, Rearmed
<1>4. CASE DeleteCurrent
  BY <1>4 DEF DeleteCurrent, Armed
<1>5. CASE ServeBegin
  BY <1>5 DEF ServeBegin, Armed
<1>6. CASE RunNext
  BY <1>6 DEF RunNext, Armed
<1>7. CASE ServeEnd
  BY <1>7 DEF ServeEnd, Armed, Rearmed
<1>8. ASSUME NEW res \in {"no_err", "completed"}, Return(res) PROVE Armed'
  BY <1>8 DEF Return, Armed, IInv, TypeOK
<1>9. CASE Tick
  BY <1>9, TickArmed
<1>10. CASE UNCHANGED vars
  BY <1>10 DEF vars, Armed, Rearmed
<1> QED BY <1>1, <1>2, <1>3, <1>4, <1>5, <1>6, <1>7, <1>8, <1>9, <1>10 DEF Next, Stopped

LEMMA ArmedIsForFirst == IInv /\ Armed => ArmedForFirst
<1> SUFFICES ASSUME IInv, Armed, status = "ok", ~serving
             PROVE  timerfd = {Max({0, timer_ids[x].remained}) : x \in {y \in DOMAIN timer_ids : First(y)}}
  BY DEF ArmedForFirst, First
<1>1. timerfd = Rearmed(timers) /\ TypeOK /\ TreesAgree
  BY DEF Armed, IInv
<1>2. CASE DOMAIN timer_ids = {}
  BY <1>1, <1>2, RearmedFirst
<1>3. CASE DOMAIN timer_ids # {}
  <2>1. PICK x : First(x)
    BY <1>1, <1>3, HasFirst
  <2>2. \A y : First(y) => timer_ids[y].remained = timer_ids[x].remained /\ y \in DOMAIN timer_ids
    BY <1>1, <2>1 DEF First, TypeOK
  <2>3. timerfd = {Max({0, timer_ids[x].remained})}
    BY <1>1, <2>1, RearmedFirst
  <2> QED BY <2>1, <2>2, <2>3
<1> QED BY <1>2, <1>3

\* The process is woken for the earliest timer, whatever callbacks have set, moved
\* and deleted since the last time (restart_timer at the end of each call).
THEOREM TimersArmedForFirst == Spec => []ArmedForFirst
<1>1. Init => Armed
  BY DEF Init, Armed, Rearmed
<1> QED BY <1>1, InitInv, NextInv, NextArmed, ArmedIsForFirst, PTL DEF Spec

-----------------------------------------------------------------------------
\* The batch that ytimer_serve has collected: each id once, none of them the one
\* whose callback is running, and those that are still registered have expired.
Batch ==
  /\ dtimers \in Seq(2..next_id + 1)
  /\ ~serving => dtimers = <<>>
  /\ \A j \in 1..Len(dtimers) :
       /\ dtimers[j] # cur_id
       /\ dtimers[j] \in DOMAIN timer_ids => timer_ids[dtimers[j]].remained <= 0
  /\ \A i, j \in 1..Len(dtimers) : i # j => dtimers[i] # dtimers[j]

LEMMA SeqGrows ==
  ASSUME NEW n \in Nat, NEW s \in Seq(2..n + 1)
  PROVE  s \in Seq(2..(n + 1) + 1)
<1>1. 2..n + 1 \subseteq 2..(n + 1) + 1
  OBVIOUS
<1> QED BY <1>1, SeqMonotonic

\* Callbacks that set timers give them ids that are not in the batch.
LEMMA SetBatch ==
  ASSUME IInv, Batch, NEW msec \in Msec, NEW periodic \in BOOLEAN, Set(msec, periodic)
  PROVE  Batch'
<1> DEFINE id == next_id + 2
<1>1. TypeOK /\ next_id \in Nat /\ next_id' = next_id + 1
  BY DEF Set, IInv, TypeOK
<1>2. ((next_id + 1) % 100000) + 1 = id
  BY <1>1, NewId DEF Set
<1>3. \A x \in DOMAIN timer_ids' \ {id} : x \in DOMAIN timer_ids /\ timer_ids'[x] = timer_ids[x]
  BY <1>2 DEF Set, With
<1>4. UNCHANGED <<dtimers, serving, cur_id>>
  BY DEF Set
<1>5. dtimers' \in Seq(2..next_id' + 1)
  BY <1>1, <1>4, SeqGrows DEF Batch
<1>6. \A j \in 1..Len(dtimers) : dtimers[j] \in 2..next_id + 1
  BY ElementOfSeq DEF Batch
<1>7. \A j \in 1..Len(dtimers) : dtimers[j] # id
  BY <1>1, <1>6
<1> QED BY <1>3, <1>4, <1>5, <1>7 DEF Batch

LEMMA ServeBatch ==
  ASSUME IInv, Batch, ServeBegin
  PROVE  Batch'
<1> DEFINE E == Expired(timers)
<1>1. PICK first \in InOrder(E) : dtimers' = [j \in DOMAIN first |-> first[j][2]]
  BY DEF ServeBegin
<1>2. UNCHANGED <<timer_ids, timers, next_id, cur_id>> /\ serving'
  BY DEF ServeBegin
<1>3. cur_id = 0 /\ TypeOK
  BY DEF ServeBegin, IInv, TypeOK
<1>4. \A t \in E : t[2] \in DOMAIN timer_ids /\ t = Key(timer_ids, t[2]) /\ timer_ids[t[2]].remained <= 0
  BY DEF Expired, IInv, TreesAgree, Key
<1>5. IsFiniteSet(E) /\ Cardinality(E) \in Nat
  <2>1. timers = {Key(timer_ids, x) : x \in DOMAIN timer_ids}
    BY DEF IInv, TreesAgree
  <2>2. IsFiniteSet(DOMAIN timer_ids)
    BY <1>3, FiniteIds
  <2>3. IsFiniteSet(timers)
    <3> DEFINE f == [x \in DOMAIN timer_ids |-> Key(timer_ids, x)]
    <3>1. f \in Surjection(DOMAIN timer_ids, timers)
      BY <2>1 DEF Surjection
    <3> QED BY <2>2, <3>1, FS_Surjection
  <2>4. E \in SUBSET timers
    BY DEF Expired
  <2>5. IsFiniteSet(E)
    BY <2>3, <2>4, FS_Subset
  <2> QED BY <2>5, FS_CardinalityType
<1> DEFINE n == Cardinality(E)
<1>6. /\ n \in Nat
      /\ first \in [1..n -> E]
      /\ \A i, j \in 1..n : i < j => Before(first[i], first[j])
  BY <1>1, <1>5 DEF InOrder
<1> HIDE DEF E, n
<1>7. dtimers' = [j \in 1..n |-> first[j][2]]
  BY <1>1, <1>6
<1>8. \A j \in 1..n :
        /\ first[j][2] \in DOMAIN timer_ids
        /\ first[j] = Key(timer_ids, first[j][2])
        /\ timer_ids[first[j][2]].remained <= 0
        /\ first[j][2] \in 2..next_id + 1
  BY <1>3, <1>4, <1>6 DEF TypeOK
<1>9. dtimers' \in Seq(2..next_id' + 1) /\ Len(dtimers') = n
  BY SMTT(60), <1>2, <1>6, <1>7, <1>8
<1>10. \A i, j \in 1..n : i < j => first[i][2] # first[j][2]
  <2> SUFFICES ASSUME NEW i \in 1..n, NEW j \in 1..n, i < j, first[i][2] = first[j][2]
               PROVE  FALSE
    OBVIOUS
  <2>1. first[i] = first[j]
    BY <1>8
  <2>2. first[i][1] \in Int /\ first[i][2] \in Int
    BY <1>3, <1>8 DEF Key, TypeOK
  <2>3. Before(first[i], first[i])
    BY <1>6, <2>1
  <2> QED BY <2>2, <2>3 DEF Before
<1>11. \A i, j \in 1..n : i # j => first[i][2] # first[j][2]
  BY <1>6, <1>10
<1>12. \A j \in 1..n : first[j][2] # cur_id
  BY <1>3, <1>8 DEF TypeOK
<1> QED BY ZenonT(60), <1>2, <1>3, <1>7, <1>8, <1>9, <1>11, <1>12 DEF Batch

LEMMA RunBatch ==
  ASSUME IInv, Batch, RunNext
  PROVE  /\ Batch'
         /\ cur_id' # 0 => timer_ids[cur_id'].remained <= 0
<1> DEFINE S == 2..next_id + 1
<1>1. dtimers \in Seq(S) /\ dtimers # <<>> /\ UNCHANGED <<timer_ids, next_id, serving>>
  BY DEF Batch, RunNext
<1>2. CASE Head(dtimers) \in DOMAIN timer_ids
  <2>1. cur_id' = Head(dtimers) /\ dtimers' = Tail(dtimers)
    BY <1>2 DEF RunNext
  <2> HIDE DEF S
  <2>2. /\ Tail(dtimers) \in Seq(S) /\ Len(Tail(dtimers)) = Len(dtimers) - 1
        /\ Head(dtimers) = dtimers[1] /\ Len(dtimers) \in Nat \ {0}
        /\ \A j \in 1..Len(dtimers) - 1 : Tail(dtimers)[j] = dtimers[j + 1]
    BY <1>1
  <2>3. \A j \in 1..Len(dtimers) - 1 : j + 1 \in 1..Len(dtimers) /\ j + 1 # 1
    BY <2>2
  <2> USE DEF S
  <2> QED BY <1>1, <1>2, <2>1, <2>2, <2>3 DEF Batch, RunNext
<1>3. CASE Head(dtimers) \notin DOMAIN timer_ids
  BY <1>1, <1>3 DEF Batch, RunNext
<1> QED BY <1>2, <1>3

LEMMA NextBatch ==
  ASSUME "restart" \notin Reentrant, IInv, Batch, [Next]_vars
  PROVE  Batch'
<1>1. ASSUME NEW msec \in Msec, NEW periodic \in BOOLEAN, Set(msec, periodic) PROVE Batch'
  BY <1>1, SetBatch
<1>2. ASSUME NEW id \in DOMAIN timer_ids, NEW msec \in Msec, Restart(id, msec) PROVE Batch'
  <2>1. dtimers = <<>> /\ UNCHANGED <<dtimers, next_id, serving>>
    BY <1>2 DEF Restart, Calls, Batch
  <2> QED BY <2>1 DEF Batch
<1>3. ASSUME NEW id \in DOMAIN timer_ids, Delete(id) PROVE Batch'
  <2>1. \A x \in DOMAIN timer_ids' : x \in DOMAIN timer_ids /\ timer_ids'[x] = timer_ids[x]
    BY <1>3 DEF Delete, Without
  <2> QED BY <1>3, <2>1 DEF Delete, Batch
<1>4. CASE DeleteCurrent
  BY <1>4 DEF DeleteCurrent, Batch
<1>5. CASE ServeBegin
  BY <1>5, ServeBatch
<1>6. CASE RunNext
  BY <1>6, RunBatch
<1>7. CASE ServeEnd
  BY <1>7 DEF ServeEnd, Batch
<1>8. ASSUME NEW res \in {"no_err", "completed"}, Return(res) PROVE Batch'
  <2>1. \A x \in DOMAIN timer_ids' \ {cur_id} : x \in DOMAIN timer_ids /\ timer_ids'[x] = timer_ids[x]
    BY <1>8 DEF Return, Again, Without
  <2>2. \A j \in 1..Len(dtimers) : dtimers[j] # 0
    BY SMTT(60) DEF Batch, IInv, TypeOK
  <2> QED BY <1>8, <2>1, <2>2 DEF Return, Batch
<1>9. CASE Tick
  <2>1. /\ DOMAIN timer_ids' = DOMAIN timer_ids
        /\ \A x \in DOMAIN timer_ids : timer_ids'[x].remained = timer_ids[x].remained - 1
        /\ \A x \in DOMAIN timer_ids : timer_ids[x].remained \in Int
    BY <1>9 DEF Tick, IInv, TypeOK
  <2> QED BY <1>9, <2>1 DEF Tick, Batch
<1>10. CASE UNCHANGED vars
  BY <1>10 DEF vars, Batch
<1> QED BY <1>1, <1>2, <1>3, <1>4, <1>5, <1>6, <1>7, <1>8, <1>9, <1>10 DEF Next, Stopped

LEMMA NextNotEarly ==
  ASSUME IInv, Batch, [Next]_vars
  PROVE  [cur_id = 0 /\ cur_id' # 0 => timer_ids[cur_id'].remained <= 0]_vars
<1> SUFFICES ASSUME Next, cur_id = 0, cur_id' # 0
             PROVE  timer_ids[cur_id'].remained <= 0
  BY DEF vars
<1>1. ASSUME NEW msec \in Msec, NEW periodic \in BOOLEAN, Set(msec, periodic) PROVE FALSE
  BY <1>1 DEF Set
<1>2. ASSUME NEW id \in DOMAIN timer_ids, NEW msec \in Msec, Restart(id, msec) PROVE FALSE
  BY <1>2 DEF Restart
<1>3. ASSUME NEW id \in DOMAIN timer_ids, Delete(id) PROVE FALSE
  BY <1>3 DEF Delete
<1>4. ASSUME NEW res \in {"no_err", "completed"}, Return(res) PROVE FALSE
  BY <1>4 DEF Return
<1>5. RunNext
  BY <1>1, <1>2, <1>3, <1>4 DEF Next, DeleteCurrent, ServeBegin, ServeEnd, Tick, Stopped, vars
<1> QED BY <1>5, RunBatch

\* ytimer_serve runs no callback before its time, for any number of timers, however
\* late it comes and whatever timers callbacks set and delete; a callback that
\* restarts another timer of the batch is what the hypothesis leaves out.
THEOREM TimersNeverEarly ==
  ASSUME "restart" \notin Reentrant
  PROVE  Spec => NeverEarly
<1>1. Init => Batch
  BY DEF Init, Batch
<1>2. IInv /\ Batch /\ [Next]_vars => Batch'
  BY NextBatch
<1>3. IInv /\ Batch /\ [Next]_vars =>
        [cur_id = 0 /\ cur_id' # 0 => timer_ids[cur_id'].remained <= 0]_vars
  BY NextNotEarly
<1> QED BY <1>1, <1>2, <1>3, InitInv, NextInv, PTL DEF Spec, NeverEarly
=============================================================================
