------------------------------ MODULE WaitEvent ------------------------------
(***************************************************************************)
(* The wait events of one YDB instance (the waitevent functions of ydb.c): the  *)
(* table in which an instance remembers the requests it has sent and the    *)
(* requests of others it is relaying.                                       *)
(*                                                                          *)
(* An event is found by its id <<fd, seq>>:                                 *)
(*   - a ROOT event <<0, n>> stands for an API call of this process that    *)
(*     blocks until its requests are answered (ydb_sync, ydb_connect);      *)
(*   - a RELAY event <<fd, s>> stands for request s received on descriptor  *)
(*     fd and passed on to other connections;                               *)
(*   - a CHILD event <<fd, s>> stands for the request s sent on fd on       *)
(*     behalf of a root or a relay event, its parent.                       *)
(* A parent counts its children and completes with the last answer; every   *)
(* event has a one-shot timer that removes it.  Relay and child ids share   *)
(* one name space, and descriptors are reused by later connections: both    *)
(* are modelled.                                                            *)
(***************************************************************************)
EXTENDS WaitEventTable

CONSTANTS
  Fd,          \* descriptors the kernel hands out (positive numbers)
  MaxSeq,      \* bound: messages numbered on one connection
  MaxRoot,     \* bound: root events created, far below the wrap at 100000
  AllowStale   \* TRUE: a descriptor may be reused while events still name it

ASSUME FdAssumption == Fd \subseteq Nat \ {0} /\ IsFiniteSet(Fd)
ASSUME BoundAssumption == MaxSeq \in Nat /\ MaxRoot \in Nat /\ MaxRoot < 100000
ASSUME StaleAssumption == AllowStale \in BOOLEAN

VARIABLES
  event,        \* datablock->event: id -> its parent and its child counter
  waiteventseq, \* the static counter behind root ids
  open,         \* descriptors with a live connection (datablock->conn)
  sendseq,      \* conn->sendseq of the connection on each descriptor
  recvseq,      \* conn->recvseq: number of the last request received on it
  dangling,     \* the tree holds a pointer to a freed event
  unanswered    \* history: per event, the children not answered so far

vars == <<event, waiteventseq, open, sendseq, recvseq, dangling, unanswered>>

Ids       == (Fd \cup {0}) \X Nat
ParentIds == Ids \cup {NoId}

-----------------------------------------------------------------------------
Init ==
  /\ event = EmptyTable
  /\ waiteventseq = 0
  /\ open = {}
  /\ sendseq = [f \in Fd |-> 0]
  /\ recvseq = [f \in Fd |-> 0]
  /\ dangling = FALSE
  /\ unanswered = [x \in {} |-> {}]

\* The requests of one yconn_sync or yconn_init: sendseq moves for every
\* target; on a failed send the connection is closed and no child is made.
Request(p, targets, failed) ==
  LET kids == {<<f, sendseq[f] + 1>> : f \in targets \ failed}
  IN /\ \A f \in targets : sendseq[f] < MaxSeq
     /\ sendseq' = [f \in Fd |-> sendseq[f] + IF f \in targets THEN 1 ELSE 0]
     /\ open' = open \ failed
     /\ event' = AddEvents(event, p, kids)
     /\ dangling' = Collides(event, p, kids)
     /\ unanswered' = [x \in DOMAIN event \cup {p} \cup kids |->
          IF x = p THEN kids ELSE IF x \in kids THEN {} ELSE unanswered[x]]

\* yconn_sync(NULL, ...) of an API call, or yconn_init of one connection.
LocalRequest(targets, failed) ==
  /\ ~dangling
  /\ targets \subseteq open /\ targets # {} /\ failed \subseteq targets
  /\ waiteventseq < MaxRoot
  /\ waiteventseq' = waiteventseq + 1
  /\ Request(<<0, (waiteventseq + 1) % 100000>>, targets, failed)
  /\ UNCHANGED recvseq

\* yconn_recv of a sync REQUEST numbered s: yconn_sync(recv_conn, ...).
RelayRequest(fd, s, targets, failed) ==
  /\ ~dangling
  /\ fd \in open /\ s > recvseq[fd]
  /\ targets \subseteq open \ {fd} /\ targets # {} /\ failed \subseteq targets
  /\ recvseq' = [recvseq EXCEPT ![fd] = s]
  /\ Request(<<fd, s>>, targets, failed)
  /\ UNCHANGED waiteventseq

\* Any message that only consumes a number: yconn_publish, yconn_whisper.
Publish(fd) ==
  /\ ~dangling
  /\ fd \in open /\ sendseq[fd] < MaxSeq
  /\ sendseq' = [sendseq EXCEPT ![fd] = @ + 1]
  /\ UNCHANGED <<event, waiteventseq, open, recvseq, dangling, unanswered>>

\* The table and the history after waitevent_reset(id).
Settle(id, expired) ==
  LET r == Reset(event, id, expired) IN
  /\ event' = r.table
  /\ unanswered' = [x \in DOMAIN r.table |->
       IF ~expired /\ id \in DOMAIN event /\ x = event[id].pid
       THEN unanswered[x] \ {id} ELSE unanswered[x]]

\* yconn_recv of a final answer (RESPONSE or RESP_FAILED) numbered s:
\* waitevent_complete.  The peer may answer any number it was sent, twice too.
Complete(fd, s) ==
  /\ ~dangling
  /\ fd \in open /\ s <= sendseq[fd]
  /\ Settle(<<fd, s>>, FALSE)
  /\ UNCHANGED <<waiteventseq, open, sendseq, recvseq, dangling>>

\* waitevent_expire: the timer of the event.
Expire(id) ==
  /\ ~dangling
  /\ id \in DOMAIN event
  /\ Settle(id, TRUE)
  /\ UNCHANGED <<waiteventseq, open, sendseq, recvseq, dangling>>

\* yconn_deferred_close: the events that name the descriptor stay.
Close(fd) ==
  /\ ~dangling
  /\ fd \in open
  /\ open' = open \ {fd}
  /\ UNCHANGED <<event, waiteventseq, sendseq, recvseq, dangling, unanswered>>

\* No event names the descriptor any more.
Quiet(fd) == \A x \in DOMAIN event : x[1] # fd /\ event[x].pid[1] # fd

\* A faulty Open that numbers a new connection from one too low.
OpenBelowZero(fd, s) ==
  /\ ~dangling
  /\ fd \notin open
  /\ AllowStale \/ Quiet(fd)
  /\ open' = open \cup {fd}
  /\ sendseq' = [sendseq EXCEPT ![fd] = -1]
  /\ recvseq' = [recvseq EXCEPT ![fd] = 0]
  /\ UNCHANGED <<event, waiteventseq, dangling, unanswered>>

\* yconn_accept, yconn_open: a new connection starts at number s = 0.
\* yconn_reopen_or_close goes on from the number s the structure has kept.
Open(fd, s) ==
  /\ ~dangling
  /\ fd \notin open
  /\ AllowStale \/ Quiet(fd)
  /\ open' = open \cup {fd}
  /\ sendseq' = [sendseq EXCEPT ![fd] = s]
  /\ recvseq' = [recvseq EXCEPT ![fd] = 0]
  /\ UNCHANGED <<event, waiteventseq, dangling, unanswered>>

\* The tree holds freed memory: nothing is said of the process from here on.
Undefined == dangling /\ UNCHANGED vars

Next ==
  \/ \E T, F \in SUBSET Fd : LocalRequest(T, F)
  \/ \E fd \in Fd, s \in 1..MaxSeq, T, F \in SUBSET Fd : RelayRequest(fd, s, T, F)
  \/ \E fd \in Fd : Publish(fd)
  \/ \E fd \in Fd, s \in 1..MaxSeq : Complete(fd, s)
  \/ \E id \in DOMAIN event : Expire(id)
  \/ \E fd \in Fd : Close(fd)
  \/ \E fd \in Fd, s \in 0..MaxSeq : Open(fd, s)
  \/ Undefined

Spec == Init /\ [][Next]_vars

\* ytimer_set_msec for every event: its timer is served in the end.
Fairness == \A id \in (Fd \cup {0}) \X (0..MaxSeq + MaxRoot) : WF_vars(Expire(id))
FairSpec == Spec /\ Fairness

-----------------------------------------------------------------------------
(***************************************************************************)
(* Properties.                                                              *)
(***************************************************************************)

\* Type invariant: the table maps ids to a parent id and a counter; history,
\* descriptors and numbers are of their kind (waitevent structs of ydb.c).
TypeOK ==
  /\ DOMAIN event \subseteq Ids
  /\ \A x \in DOMAIN event : event[x] \in [pid : ParentIds, cevents : Int]
  /\ waiteventseq \in 0..MaxRoot
  /\ open \subseteq Fd
  /\ sendseq \in [Fd -> 0..MaxSeq]
  /\ recvseq \in [Fd -> 0..MaxSeq]
  /\ dangling \in BOOLEAN
  /\ DOMAIN unanswered = DOMAIN event
  /\ \A x \in DOMAIN event : unanswered[x] \subseteq Ids

\* Events this file makes claims about: roots always, relays as long as their
\* descriptor is not given to another connection while events still name it.
Claimed(p) == p[1] = 0 \/ ~AllowStale

\* A counter is exactly the number of requests sent for the event and not yet
\* answered: an expired child is never counted as answered, an answer never
\* twice, and no child of another event is counted (waitevent_reset).
CountsUnanswered ==
  ~dangling => \A p \in DOMAIN event :
    event[p].pid = NoId /\ Claimed(p)
      => event[p].cevents = Cardinality(unanswered[p])

\* A wait is never ended by an answer while another of its requests is still
\* without one: ydb_sync succeeds, and a relayed request gets its final
\* answer, only after every target has answered (yconn_recv, RESPONSE).
EndsWithLastAnswer ==
  ~dangling => \A c \in DOMAIN event :
    EndsParent(event, c) /\ Claimed(event[c].pid)
      => unanswered[event[c].pid] \subseteq {c}

\* No event stays in the table for ever, whatever is lost: every wait ends, by
\* an answer or by its timer (waitevent_expire).
EveryWaitEnds ==
  \A id \in (Fd \cup {0}) \X (0..MaxSeq + MaxRoot) :
    []<>(id \notin DOMAIN event \/ dangling)

\* The tree never points to freed memory.  ytree_insert returns the OLD data of
\* a key it has replaced; waitevent_set_event frees the NEW event instead.
NoDangling == ~dangling

=============================================================================
