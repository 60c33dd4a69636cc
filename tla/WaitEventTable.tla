--------------------------- MODULE WaitEventTable ---------------------------
(***************************************************************************)
(* Operators on an event table, the tree datablock->event of one instance   *)
(* (waitevent functions of ydb.c): a function from event ids <<fd, seq>> to *)
(* the id of the parent and the number of children still counted.           *)
(***************************************************************************)
EXTENDS Integers, FiniteSets

NoId == <<-1, 0>>

EmptyTable == [x \in {} |-> [pid |-> NoId, cevents |-> 0]]

Record(pid, n) == [pid |-> pid, cevents |-> n]

\* waitevent_set_rootevent, and waitevent_set_event without a parent: a new
\* event p; then yconn_request -> waitevent_set_event for each child.
AddEvents(ev, p, kids) ==
  [x \in DOMAIN ev \cup {p} \cup kids |->
     IF x = p THEN Record(NoId, Cardinality(kids))
     ELSE IF x \in kids THEN Record(p, 0)
     ELSE ev[x]]

\* ytree_insert finds an event under the new key: it replaces it, and the
\* caller takes the returned old event for a failure and frees the new one.
Collides(ev, p, kids) == ({p} \cup kids) \cap DOMAIN ev # {}

RemoveEvents(ev, ids) == [x \in DOMAIN ev \ ids |-> ev[x]]

\* The answer after which waitevent_reset deletes the parent.
LastAnswerEarly(ev, p) == ev[p].cevents - 1 <= 1   \* faulty: one answer too soon
LastAnswerLate(ev, p) == ev[p].cevents - 1 < 0     \* faulty: one answer too late
LastAnswer(ev, p) == ev[p].cevents - 1 <= 0

\* The child's part of waitevent_reset: the child goes, its parent counts down
\* and goes with the last one; the id returned is that of the event that ended.
CountAnswer(ev, id) ==
  LET p    == ev[id].pid
      rest == RemoveEvents(ev, {id})
  IN IF p \notin DOMAIN rest THEN [table |-> rest, ret |-> NoId]
     ELSE IF LastAnswer(ev, p) THEN [table |-> RemoveEvents(rest, {p}), ret |-> p]
     ELSE [table |-> [rest EXCEPT ![p].cevents = @ - 1], ret |-> id]

\* Faulty variants of waitevent_reset: a timer that counts as an answer, and a
\* timer that leaves an event with children in the table.
ResetCountingExpired(ev, id, expired) ==
  IF id \notin DOMAIN ev THEN [table |-> ev, ret |-> NoId]
  ELSE IF ev[id].pid = NoId THEN [table |-> RemoveEvents(ev, {id}), ret |-> id]
  ELSE CountAnswer(ev, id)

ResetKeepingParents(ev, id, expired) ==
  IF id \notin DOMAIN ev \/ (expired /\ ev[id].cevents > 0)
  THEN [table |-> ev, ret |-> NoId]
  ELSE IF expired \/ ev[id].pid = NoId
       THEN [table |-> RemoveEvents(ev, {id}), ret |-> id]
  ELSE CountAnswer(ev, id)

\* waitevent_reset(fd, seq, expired): the table it leaves and the id it returns.
\* A timer removes the event only; its parent still counts it.
Reset(ev, id, expired) ==
  IF id \notin DOMAIN ev THEN [table |-> ev, ret |-> NoId]
  ELSE IF expired \/ ev[id].pid = NoId
       THEN [table |-> RemoveEvents(ev, {id}), ret |-> id]
  ELSE CountAnswer(ev, id)

\* waitevent_get_relay: the request on whose behalf request id was sent.
Relay(ev, id) ==
  IF id \in DOMAIN ev /\ ev[id].pid # NoId /\ ev[id].pid[1] > 0
  THEN ev[id].pid ELSE NoId

\* Completing a response c ends the wait of the parent it returns.
EndsParent(ev, c) ==
  /\ c \in DOMAIN ev
  /\ Reset(ev, c, FALSE).ret = ev[c].pid
  /\ ev[c].pid # NoId

=============================================================================
