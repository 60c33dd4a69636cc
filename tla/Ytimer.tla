------------------------------- MODULE Ytimer -------------------------------
(***************************************************************************)
(* The timers of ytimer.c: any number of one-shot and periodic timers over   *)
(* one timerfd.  A timer is in two trees at once, by its id (timer_ids) and  *)
(* by its expiry (timers); the timerfd is armed for the first of the latter. *)
(* ytimer_serve collects the timers that have expired and then runs their    *)
(* callbacks one by one, and a callback may itself set and delete timers.    *)
(*                                                                          *)
(* Times are relative to now, in ticks: Tick moves all of them.  The tree     *)
(* timers is a set of <<expiry, id>>, the keys as they were when inserted.   *)
(***************************************************************************)
EXTENDS Integers, FiniteSets, Sequences, FiniteSetsExt

CONSTANTS
  Msec,        \* durations a timer may be given
  Reentrant,   \* what callbacks do: a subset of {"set", "restart", "delete"}
  MaxSet,      \* bound: timers ever set, far below the wrap of ids at 100000
  MaxRestart,  \* bound: calls of ytimer_restart_msec
  MaxLag       \* bound: how late ytimer_serve and its callbacks are, in ticks

ASSUME MsecAssumption == Msec \subseteq Nat
ASSUME BoundAssumption == MaxSet \in Nat /\ MaxSet < 99999
ASSUME ReentrantAssumption == Reentrant \subseteq {"set", "restart", "delete"}

VARIABLES
  timer_ids,  \* id -> the timer: its expiry (remained), duration and kind
  timers,     \* the tree ordered by expiry
  timerfd,    \* {}: disarmed, {n}: readable in n ticks, {0}: readable
  next_id,    \* timers set so far
  serving,    \* ytimer_serve is running
  age,        \* ticks since it took the time
  dtimers,    \* ids still to be run by it
  cur_id,     \* the timer whose callback is running, or 0
  status,     \* "ok", or how the process is lost: "hung", "crashed"
  restarts    \* calls of ytimer_restart_msec so far

vars == <<timer_ids, timers, timerfd, next_id, serving, age, dtimers, cur_id, status, restarts>>

-----------------------------------------------------------------------------
\* A call from the application between calls of ytimer_serve, or from a callback.
Calls(op) == status = "ok" /\ (~serving \/ (cur_id # 0 /\ op \in Reentrant))

\* The key of timer id in the tree ordered by expiry.
Key(ids, id) == <<ids[id].remained, id>>
Without(f, id) == [x \in DOMAIN f \ {id} |-> f[x]]
With(f, id, v) == [x \in DOMAIN f \cup {id} |-> IF x = id THEN v ELSE f[x]]

\* restart_timer: arm the timerfd for the first timer, disarm it without one.
Expiries(tree) == {t[1] : t \in tree}
RearmedForLast(tree) ==                   \* faulty: armed for the last timer
  IF tree = {} THEN {} ELSE {Max({0, Max(Expiries(tree))})}
RearmedUnlessDue(tree) ==                 \* faulty: a timer that is due disarms it
  IF tree = {} \/ Min(Expiries(tree)) <= 0 THEN {} ELSE {Min(Expiries(tree))}
Rearmed(tree) == IF tree = {} THEN {} ELSE {Max({0, Min(Expiries(tree))})}

Init ==
  /\ timer_ids = <<>> /\ timers = {} /\ timerfd = {}
  /\ next_id = 0 /\ restarts = 0
  /\ serving = FALSE /\ age = 0 /\ dtimers = <<>> /\ cur_id = 0
  /\ status = "ok"

\* ytimer_set_msec.
Set(msec, periodic) ==
  LET id  == ((next_id + 1) % 100000) + 1
      ids == With(timer_ids, id, [remained |-> msec, duration_ms |-> msec, periodic |-> periodic])
  IN
  /\ Calls("set") /\ next_id < MaxSet
  /\ next_id' = next_id + 1
  /\ timer_ids' = ids
  /\ timers' = timers \cup {Key(ids, id)}
  /\ timerfd' = Rearmed(timers')
  /\ UNCHANGED <<serving, age, dtimers, cur_id, status, restarts>>

\* ytimer_restart_msec: out of the trees, a new expiry, and back in.
Restarted(id, msec) == [timer_ids EXCEPT ![id].remained = msec, ![id].duration_ms = msec]
MovedLate(id, ids) ==                     \* faulty: the new expiry is set first
  (timers \ {Key(ids, id)}) \cup {Key(ids, id)}
Moved(id, ids) == (timers \ {Key(timer_ids, id)}) \cup {Key(ids, id)}
Restart(id, msec) ==
  /\ Calls("restart") /\ restarts < MaxRestart
  /\ id \in DOMAIN timer_ids
  /\ restarts' = restarts + 1
  /\ timer_ids' = Restarted(id, msec)
  /\ timers' = Moved(id, timer_ids')
  /\ timerfd' = Rearmed(timers')
  /\ UNCHANGED <<next_id, serving, age, dtimers, cur_id, status>>

\* ytimer_delete.  For the id in cur_id, which is 0 outside of callbacks, it
\* reads the timer through a null pointer.
Delete(id) ==
  /\ Calls("delete")
  /\ id # cur_id /\ id \in DOMAIN timer_ids
  /\ timer_ids' = Without(timer_ids, id)
  /\ timers' = timers \ {Key(timer_ids, id)}
  /\ timerfd' = Rearmed(timers')
  /\ UNCHANGED <<next_id, serving, age, dtimers, cur_id, status, restarts>>
DeleteCurrent ==
  /\ Calls("delete")
  /\ status' = "crashed"
  /\ UNCHANGED <<timer_ids, timers, timerfd, next_id, serving, age, dtimers, cur_id, restarts>>

\* ytimer_serve, up to its first callback: the expired timers, in their order.
ExpiredSoon(tree) == {t \in tree : t[1] <= 1}  \* faulty: a tick too soon
Expired(tree) == {t \in tree : t[1] <= 0}
Before(t, u) == t[1] < u[1] \/ (t[1] = u[1] /\ t[2] < u[2])  \* timer_cb_cmp
InOrder(tree) ==
  {s \in [1..Cardinality(tree) -> tree] : \A i, j \in DOMAIN s : i < j => Before(s[i], s[j])}
ServeBegin ==
  /\ status = "ok" /\ ~serving
  /\ timerfd = {0} /\ timers # {}
  /\ serving' = TRUE /\ age' = 0
  /\ \E first \in InOrder(Expired(timers)) : dtimers' = [j \in DOMAIN first |-> first[j][2]]
  /\ UNCHANGED <<timer_ids, timers, timerfd, next_id, cur_id, status, restarts>>

\* Its loop takes the next id.  One that is gone by now is looked for again and
\* again: the loop continues without taking another.
RunNext ==
  /\ status = "ok" /\ serving /\ cur_id = 0 /\ dtimers # <<>>
  /\ IF Head(dtimers) \in DOMAIN timer_ids
     THEN cur_id' = Head(dtimers) /\ dtimers' = Tail(dtimers) /\ UNCHANGED status
     ELSE status' = "hung" /\ UNCHANGED <<cur_id, dtimers>>
  /\ UNCHANGED <<timer_ids, timers, timerfd, next_id, serving, age, restarts>>

\* The callback returns res: a one-shot timer goes, and so does a periodic one
\* that is done; otherwise it starts again from the time the serve began.
Again(id) == [timer_ids EXCEPT ![id].remained = timer_ids[id].duration_ms - age]
Return(res) ==
  /\ status = "ok" /\ cur_id # 0
  /\ IF timer_ids[cur_id].periodic /\ res = "no_err"
     THEN timer_ids' = Again(cur_id) /\ timers' = Moved(cur_id, timer_ids')
     ELSE timer_ids' = Without(timer_ids, cur_id) /\ timers' = timers \ {Key(timer_ids, cur_id)}
  /\ cur_id' = 0
  /\ UNCHANGED <<timerfd, next_id, serving, age, dtimers, status, restarts>>

\* ytimer_serve ends with restart_timer.
ServeEnd ==
  /\ status = "ok" /\ serving /\ cur_id = 0 /\ dtimers = <<>>
  /\ timerfd' = Rearmed(timers)
  /\ serving' = FALSE /\ age' = 0
  /\ UNCHANGED <<timer_ids, timers, next_id, dtimers, cur_id, status, restarts>>

\* Time passes.
Tick ==
  /\ status = "ok"
  /\ \A x \in DOMAIN timer_ids : timer_ids[x].remained > -MaxLag
  /\ serving => age < MaxLag
  /\ timer_ids' = [x \in DOMAIN timer_ids |-> [timer_ids[x] EXCEPT !.remained = @ - 1]]
  /\ timers' = {<<t[1] - 1, t[2]>> : t \in timers}
  /\ timerfd' = {Max({0, n - 1}) : n \in timerfd}
  /\ age' = IF serving THEN age + 1 ELSE 0
  /\ UNCHANGED <<next_id, serving, dtimers, cur_id, status, restarts>>

\* A hung or crashed process does nothing more.
Stopped == status # "ok" /\ UNCHANGED vars

Next ==
  \/ \E msec \in Msec, periodic \in BOOLEAN : Set(msec, periodic)
  \/ \E id \in DOMAIN timer_ids, msec \in Msec : Restart(id, msec)
  \/ \E id \in DOMAIN timer_ids : Delete(id)
  \/ DeleteCurrent
  \/ ServeBegin \/ RunNext \/ ServeEnd
  \/ \E res \in {"no_err", "completed"} : Return(res)
  \/ Tick
  \/ Stopped

Spec == Init /\ [][Next]_vars

\* The main loop serves a readable timerfd, callbacks return, time goes on.
Fairness == /\ WF_vars(ServeBegin) /\ WF_vars(RunNext) /\ WF_vars(ServeEnd)
            /\ WF_vars(\E res \in {"no_err", "completed"} : Return(res))
            /\ WF_vars(Tick)
FairSpec == Spec /\ Fairness

-----------------------------------------------------------------------------
(***************************************************************************)
(* Properties.                                                              *)
(***************************************************************************)

\* Type invariant: a callback runs only within ytimer_serve, on a timer that is
\* registered, and ids are the ones that were given out.
TypeOK ==
  /\ DOMAIN timer_ids \subseteq 2..next_id + 1 /\ next_id \in 0..MaxSet
  /\ \A x \in DOMAIN timer_ids :
       timer_ids[x] \in [remained : Int, duration_ms : Msec, periodic : BOOLEAN]
  /\ age \in Nat
  /\ cur_id # 0 => serving /\ cur_id \in DOMAIN timer_ids
  /\ status \in {"ok", "hung", "crashed"}

\* The two trees hold the same timers, each under the expiry it really has: a
\* timer that moves never loses its place in the tree ordered by expiry.
TreesAgree ==
  timers = {Key(timer_ids, x) : x \in DOMAIN timer_ids}

\* Outside of ytimer_serve the timerfd wakes the process for the earliest timer
\* that is registered, whatever callbacks have set and deleted meanwhile.
ArmedForFirst ==
  status = "ok" /\ ~serving =>
    timerfd = {Max({0, timer_ids[x].remained}) : x \in
      {y \in DOMAIN timer_ids :
         \A z \in DOMAIN timer_ids : timer_ids[y].remained <= timer_ids[z].remained}}

\* No callback runs before its timer has expired, though the batch was collected
\* before other callbacks changed the timers.
NeverEarly ==
  [][cur_id = 0 /\ cur_id' # 0 => timer_ids[cur_id'].remained <= 0]_vars

\* Every one-shot timer runs and goes, unless it is deleted first.
OneShotsEnd ==
  \A id \in 2..MaxSet + 1 :
    id \in DOMAIN timer_ids /\ ~timer_ids[id].periodic
      ~> id \notin DOMAIN timer_ids \/ status # "ok"

=============================================================================
