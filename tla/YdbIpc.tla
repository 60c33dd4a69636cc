------------------------------- MODULE YdbIpc -------------------------------
(***************************************************************************)
(* YDB instances that share a data block over one channel (ydb.c): the       *)
(* instance that owns the address (STATUS_SERVER) and the instances          *)
(* connected to it (STATUS_CLIENT; the server's end is STATUS_COND_CLIENT).  *)
(* Every instance is one thread whose handlers run to the end: an action is  *)
(* one API call up to the point where it blocks, one message handled by      *)
(* yconn_recv, one timer, or one fault of a connection.                      *)
(*                                                                          *)
(* A connection is named by a number that is never used again and stands for *)
(* the descriptors at both ends (WaitEvent has what their reuse changes).    *)
(* The data block is a map from keys to a value and its origin: 0 for data   *)
(* written here, otherwise the connection it came by.                        *)
(*                                                                          *)
(* A message is handled once.  The loops may handle it again, without its    *)
(* flags and data, if the one behind it has arrived only in part (recv_again,*)
(* see YconnRecv): an INIT then clears the flags of the client, which is     *)
(* published to although it is unsubscribed and, no longer writable, not     *)
(* asked in later syncs; a SYNC is passed on and answered twice.             *)
(***************************************************************************)
EXTENDS WaitEventTable, Sequences, SequencesExt

CONSTANTS
  Server,       \* the instance that owns the channel
  Client,       \* the instances that connect to it
  Writable,     \* clients with the flag w (or in publisher role)
  Unsub,        \* clients with the flag u
  Fragile,      \* clients whose connections may break
  Key,          \* leaves of the data block
  Writer,       \* key -> the instances that write and delete it
  Syncer,       \* the instances that call ydb_sync
  Late,         \* <<instance, call>>: calls ("init", "sync") whose timers may
                \* beat the answers there
  MaxVal, MaxDel, MaxSync, MaxTimer, MaxBreak
                \* bounds: values of each key, deletes, syncs, timers, broken connections

Instance == Client \cup {Server}

ASSUME InstanceAssumption ==
  /\ Server \notin Client
  /\ Writable \subseteq Client /\ Unsub \subseteq Client /\ Fragile \subseteq Client
  /\ Writer \in [Key -> SUBSET (Writable \cup {Server})]
  /\ Syncer \subseteq Instance /\ Late \subseteq Instance \X {"init", "sync"}

\* Who uses a data block as it has to be used: a key has one writer; a client that
\* writes keeps its connection, and does not give up waiting for the answer to its INIT.
Usage ==
  /\ \A k \in Key : \A i, j \in Writer[k] : i = j
  /\ Fragile \cap Writable = {}
  /\ \A c \in Writable : <<c, "init">> \notin Late

VARIABLES
  data,     \* datablock->top of each instance
  ends,     \* the client of each connection so far
  conn,     \* datablock->conn of each instance: connection -> its end there
  disconn,  \* datablock->disconn of each client: the sendseq its failed connection left
  backlog,  \* connections waiting in the server's accept queue
  net,      \* messages in flight on each connection, both directions
  stalled,  \* <<instance, connection>>: messages it has read but left in its buffer
  broken,   \* connections that failed or were closed at one end
  event,    \* datablock->event of each instance
  rootseq,  \* waiteventseq of each instance
  dangling, \* instances whose event tree points to freed memory
  wait,     \* yconn_serve_blocking calls of each instance, the outermost first
  outcome,  \* how the last call of each instance ended
  nval,     \* last value written for a key
  spent     \* deletes, syncs, timers and broken connections so far

vars == <<data, ends, conn, disconn, backlog, net, stalled, broken, event, rootseq, dangling,
          wait, outcome, nval, spent>>

-----------------------------------------------------------------------------
(***************************************************************************)
(* The data block.                                                          *)
(***************************************************************************)
Absent == [val |-> 0, origin |-> 0]
Present(d) == {k \in Key : d[k].val # 0}

\* ydb_dumps: everything; ydb_fprintf_sub with origin 0: data written here.
DumpMine(d) == [k \in {x \in Present(d) : d[x].origin = 0} |-> d[k].val]  \* faulty
Dump(d) == [k \in Present(d) |-> d[k].val]
MineAndOthers(d) == Dump(d)                                               \* faulty
Mine(d) == [k \in {x \in Present(d) : d[x].origin = 0} |-> d[k].val]

\* ynode_merge of a payload received by connection o (0: written here).  An
\* equal value only moves the origin of data that is not this instance's own.
MergeTaking(d, o, pl) ==                      \* faulty: own data changes hands, too
  [k \in Key |-> IF k \notin DOMAIN pl THEN d[k] ELSE [val |-> pl[k], origin |-> o]]
MergeReplacing(d, o, pl) ==                   \* faulty: what is not received goes
  [k \in Key |-> IF k \notin DOMAIN pl THEN Absent ELSE [val |-> pl[k], origin |-> o]]
Changed(d, pl) == {k \in DOMAIN pl : d[k].val # pl[k]}
Merge(d, o, pl) ==
  [k \in Key |->
     IF k \notin DOMAIN pl THEN d[k]
     ELSE IF k \in Changed(d, pl) THEN [val |-> pl[k], origin |-> o]
     ELSE IF d[k].origin = 0 THEN d[k] ELSE [d[k] EXCEPT !.origin = o]]

\* ydb_delete_sub on every leaf of the payload; the log has those that existed.
Deleted(d, pl) == DOMAIN pl \cap Present(d)
EraseMine(d, pl) ==                           \* faulty: only data written here
  [k \in Key |-> IF k \in DOMAIN pl /\ d[k].origin = 0 THEN Absent ELSE d[k]]
Erase(d, pl) == [k \in Key |-> IF k \in DOMAIN pl THEN Absent ELSE d[k]]

\* The payload of the change log, and the data after it.
Log(d, op, pl) ==
  [k \in IF op = "delete" THEN Deleted(d, pl) ELSE Changed(d, pl) |-> pl[k]]
Apply(d, op, o, pl) == IF op = "delete" THEN Erase(d, pl) ELSE Merge(d, o, pl)

(***************************************************************************)
(* Connections and messages.                                                *)
(***************************************************************************)
Message(type, op, seq, pl) == [type |-> type, op |-> op, seq |-> seq, data |-> pl]
NoData == [k \in {} |-> 0]

One(x, v) == [y \in {x} |-> v]
Both(f, g) == [y \in DOMAIN f \cup DOMAIN g |-> IF y \in DOMAIN f THEN f[y] ELSE g[y]]

In(i)  == IF i = Server THEN "up" ELSE "down"
Out(i) == IF i = Server THEN "down" ELSE "up"

\* A new end: yconn_open and yconn_reopen_or_close at a client, yconn_accept
\* (with flags "sub:unsubscribe") at the server.
ClientEnd(c, seq) == [status |-> "client", writable |-> c \in Writable,
                      unsub |-> c \in Unsub, sendseq |-> seq]
AcceptedEnd == [status |-> "cond_client", writable |-> FALSE, unsub |-> TRUE, sendseq |-> 0]

\* yconn_publish and yconn_sync: the connections of table cn they go to.
PubUpward(cn, except) ==                     \* faulty: never to subscribers
  {n \in DOMAIN cn \ except : cn[n].status = "client" /\ cn[n].writable}
PubTargets(cn, except) ==
  {n \in DOMAIN cn \ except :
     IF cn[n].status = "client" THEN cn[n].writable ELSE ~cn[n].unsub}
SyncUpward(cn, except) == {n \in DOMAIN cn \ except : cn[n].status = "client"}  \* faulty
SyncTargets(cn, except) ==
  {n \in DOMAIN cn \ except : cn[n].status = "client" \/ cn[n].writable}

\* yconn_publish sends nothing when the log is empty.
Publishing(cn, except, op, log) ==
  IF DOMAIN log = {} THEN [n \in {} |-> Message("publish", op, 0, log)]
  ELSE [n \in PubTargets(cn, except) |-> Message("publish", op, 0, log)]

Requests(cn, targets, op, pl) ==
  [n \in targets |-> Message("request", op, cn[n].sendseq + 1, pl)]

\* The messages of a handler of i, whose connections are now cn, go out.
\* Publications and requests take a number.  On a broken connection a message
\* is lost; where the send fails (failed) yconn_deferred_close takes the end away.
\* A message that arrives makes its socket readable, so that the receiver goes on
\* with what it had left in its buffer before.
Numbered(m) == m.type \in {"publish", "request"}
Peer(i, n) == IF i = Server THEN ends[n] ELSE Server
Send(i, nt, cn, outs, failed, left) ==
  LET seqs == [n \in DOMAIN cn |-> cn[n].sendseq +
                 IF n \in DOMAIN outs THEN IF Numbered(outs[n]) THEN 1 ELSE 0 ELSE 0]
  IN /\ failed \subseteq DOMAIN outs \cap broken
     /\ net' = [n \in DOMAIN nt |->
          IF n \in failed THEN [nt[n] EXCEPT ![In(i)] = <<>>]
          ELSE IF n \in DOMAIN outs \ broken
               THEN [nt[n] EXCEPT ![Out(i)] = Append(@, outs[n])] ELSE nt[n]]
     /\ conn' = [conn EXCEPT ![i] =
          [n \in DOMAIN cn \ failed |-> [cn[n] EXCEPT !.sendseq = seqs[n]]]]
     /\ stalled' = (stalled \cup left) \
          ({<<Peer(i, n), n>> : n \in DOMAIN outs} \cup ({i} \X failed))
     /\ disconn' = IF i \in Client /\ failed # {}
                   THEN [disconn EXCEPT ![i] = {seqs[n] : n \in failed}] ELSE disconn

\* The requests of a round that were sent, as events on behalf of p.
Kids(cn, sent) == {<<n, cn[n].sendseq + 1>> : n \in sent}
Register(i, p, kids) ==
  /\ event' = [event EXCEPT ![i] = AddEvents(@, p, kids)]
  /\ dangling' = IF Collides(event[i], p, kids) THEN dangling \cup {i} ELSE dangling

\* yconn_recv takes the next message of connection n.
Received(i, n) == Head(net[n][In(i)])
Taken(i, n) == [net EXCEPT ![n][In(i)] = Tail(@)]
Receives(i, n, types, ops) ==
  /\ i \notin dangling
  /\ n \in DOMAIN conn[i]
  /\ net[n][In(i)] # <<>> /\ <<i, n>> \notin stalled
  /\ Received(i, n).type \in types /\ Received(i, n).op \in ops

\* Connections that both sides hold, their INIT processed by the server, and their
\* clients; those of them that the server publishes to.
Links == {x \in DOMAIN conn[Server] \ broken :
            /\ x \in DOMAIN conn[ends[x]]
            /\ \A y \in DOMAIN net[x].up : net[x].up[y].op # "init"}
Linked == {ends[n] : n \in Links}
Subscribed == {ends[n] : n \in {x \in Links : ~conn[Server][x].unsub}}

\* What a sync of i asks for: the data of the server and of the linked writable
\* clients, as far as one of them is the only writer of it.
Asked(i) == IF i = Server THEN Linked \cap Writable
            ELSE IF i \in Linked THEN {Server} \cup ((Linked \cap Writable) \ {i}) ELSE {}
Wanted(i) == [k \in {x \in Key : \E w \in Asked(i) : Writer[x] = {w}} |-> nval[k]]

-----------------------------------------------------------------------------
Init ==
  /\ data = [i \in Instance |-> [k \in Key |-> Absent]]
  /\ ends = <<>>
  /\ conn = [i \in Instance |-> <<>>]
  /\ disconn = [c \in Client |-> {}]
  /\ backlog = <<>>
  /\ net = <<>>
  /\ stalled = {} /\ broken = {}
  /\ event = [i \in Instance |-> EmptyTable]
  /\ rootseq = [i \in Instance |-> 0]
  /\ dangling = {}
  /\ wait = [i \in Instance |-> <<>>]
  /\ outcome = [i \in Instance |-> "none"]
  /\ nval = [k \in Key |-> 0]
  /\ spent = [delete |-> 0, sync |-> 0, timer |-> 0, break |-> 0]

\* The application calls the API only outside of a blocking call.
Free(i) == i \notin dangling /\ wait[i] = <<>>
Block(i, kind, want) ==
  /\ rootseq' = [rootseq EXCEPT ![i] = @ + 1]
  /\ wait' = [wait EXCEPT ![i] = Append(@, [id |-> <<0, rootseq[i] + 1>>,
                                            kind |-> kind, want |-> want])]
NoChange == UNCHANGED <<event, rootseq, dangling, wait, outcome>>

\* ydb_write of a new value for k.
Write(i, k, failed) ==
  LET pl == One(k, nval[k] + 1) IN
  /\ Free(i) /\ i \in Writer[k] /\ nval[k] < MaxVal[k]
  /\ nval' = [nval EXCEPT ![k] = @ + 1]
  /\ data' = [data EXCEPT ![i] = Merge(@, 0, pl)]
  /\ Send(i, net, conn[i], Publishing(conn[i], {}, "merge", Log(data[i], "merge", pl)), failed, {})
  /\ UNCHANGED <<ends, backlog, broken, spent>> /\ NoChange

\* ydb_delete of k.
Delete(i, k, failed) ==
  LET pl == One(k, data[i][k].val) IN
  /\ Free(i) /\ i \in Writer[k] /\ spent.delete < MaxDel
  /\ spent' = [spent EXCEPT !.delete = @ + 1]
  /\ data' = [data EXCEPT ![i] = Erase(@, pl)]
  /\ Send(i, net, conn[i], Publishing(conn[i], {}, "delete", Log(data[i], "delete", pl)), failed, {})
  /\ UNCHANGED <<ends, backlog, broken, nval>> /\ NoChange

\* ydb_connect of a client, and yconn_reopen_or_close when its timer finds the
\* failed connection: connect, then yconn_init, then wait for the answer.
Connect(c) ==
  LET n    == Len(ends) + 1
      cn   == One(n, ClientEnd(c, IF disconn[c] = {} THEN 0 ELSE CHOOSE s \in disconn[c] : TRUE))
      dump == IF c \in Writable THEN Dump(data[c]) ELSE NoData
      init == Message(IF c \in Unsub THEN "publish" ELSE "request", "init",
                      IF c \in Unsub THEN 0 ELSE cn[n].sendseq + 1, dump)
  IN
  /\ c \notin dangling
  /\ disconn[c] # {} \/ (wait[c] = <<>> /\ c \notin {ends[x] : x \in DOMAIN ends})
  /\ ends' = Append(ends, c)
  /\ backlog' = Append(backlog, n)
  /\ net' = Append(net, [up |-> <<init>>, down |-> <<>>])
  /\ conn' = [conn EXCEPT ![c] = [cn EXCEPT ![n].sendseq = @ + 1]]
  /\ disconn' = [disconn EXCEPT ![c] = {}]
  /\ outcome' = [outcome EXCEPT ![c] = "none"]
  /\ IF c \in Unsub THEN UNCHANGED <<event, rootseq, dangling, wait>>
     ELSE /\ Block(c, "init", NoData)
          /\ Register(c, <<0, rootseq[c] + 1>>, Kids(cn, {n}))
  /\ UNCHANGED <<data, stalled, broken, nval, spent>>

\* yconn_accept.
Accept ==
  /\ Server \notin dangling
  /\ backlog # <<>>
  /\ conn' = [conn EXCEPT ![Server] = Both(One(Head(backlog), AcceptedEnd), @)]
  /\ backlog' = Tail(backlog)
  /\ UNCHANGED <<data, ends, disconn, net, stalled, broken, nval, spent>> /\ NoChange

\* yconn_recv of INIT: the flags of the client take effect, its data is merged
\* and published, and a subscriber is answered with everything there is.  Handled
\* once: see above.
RecvInit(n, failed) ==
  LET m   == Received(Server, n)
      c   == ends[n]
      cn  == [conn[Server] EXCEPT ![n].writable = c \in Writable, ![n].unsub = c \in Unsub]
      d   == Merge(data[Server], n, m.data)
      pub == Publishing(cn, {n}, "merge", Log(data[Server], "merge", m.data))
      ans == IF m.type = "publish" THEN NoData
             ELSE One(n, Message("response", "init", m.seq, Dump(d)))
  IN
  /\ Receives(Server, n, {"publish", "request"}, {"init"})
  /\ data' = [data EXCEPT ![Server] = d]
  /\ Send(Server, Taken(Server, n), cn, Both(ans, pub), failed, {})
  /\ UNCHANGED <<ends, backlog, broken, nval, spent>> /\ NoChange

\* yconn_recv of a publication: the change is made here and passed on.
RecvPublish(i, n, failed) ==
  LET m == Received(i, n) IN
  /\ Receives(i, n, {"publish"}, {"merge", "delete"})
  /\ data' = [data EXCEPT ![i] = Apply(@, m.op, n, m.data)]
  /\ Send(i, Taken(i, n), conn[i],
          Publishing(conn[i], {n}, m.op, Log(data[i], m.op, m.data)), failed, {})
  /\ UNCHANGED <<ends, backlog, broken, nval, spent>> /\ NoChange

\* ydb_sync: ask everyone this instance can ask, and wait for the last answer.
\* want is what their writers hold at this moment.
Sync(i, failed) ==
  LET targets == SyncTargets(conn[i], {})
      reqs    == Requests(conn[i], targets, "sync", NoData)
  IN
  /\ Free(i) /\ i \in Syncer /\ spent.sync < MaxSync
  /\ targets # {}
  /\ spent' = [spent EXCEPT !.sync = @ + 1]
  /\ outcome' = [outcome EXCEPT ![i] = "none"]
  /\ Block(i, "sync", Wanted(i))
  /\ Register(i, <<0, rootseq[i] + 1>>, Kids(conn[i], targets \ failed))
  /\ Send(i, net, conn[i], reqs, failed, {})
  /\ UNCHANGED <<data, ends, backlog, broken, nval>>

\* yconn_recv of a SYNC request: pass it on to the other connections, answer
\* with the data written here; the answer is final when nobody else is asked.
RecvSync(i, n, failed) ==
  LET m       == Received(i, n)
      targets == SyncTargets(conn[i], {n})
      reqs    == Requests(conn[i], targets, "sync", m.data)
      ans     == One(n, Message(IF targets = {} THEN "response" ELSE "continued",
                                "sync", m.seq, Mine(data[i])))
  IN
  /\ Receives(i, n, {"request"}, {"sync"})
  /\ IF targets = {} THEN UNCHANGED <<event, dangling>>
     ELSE Register(i, <<n, m.seq>>, Kids(conn[i], targets \ failed))
  /\ Send(i, Taken(i, n), conn[i], Both(ans, reqs), failed, {})
  /\ UNCHANGED <<data, ends, backlog, broken, rootseq, wait, outcome, nval, spent>>

\* yconn_recv of an answer.  A final one completes its event; the data is
\* merged, published and, for a relayed request, passed on to who asked.  When a
\* call ends with it, yconn_serve_blocking stops there and leaves the messages
\* behind it that it has already read (buffered) where they are.
RecvAnswer(i, n, failed, buffered) ==
  LET m     == Received(i, n)
      final == m.type = "response"
      rel   == Relay(event[i], <<n, m.seq>>)
      r     == IF final THEN Reset(event[i], <<n, m.seq>>, FALSE)
               ELSE [table |-> event[i], ret |-> NoId]
      req   == {rel[1]} \cap DOMAIN conn[i]
      pub   == Publishing(conn[i], {n} \cup req, "merge", Log(data[i], "merge", m.data))
      ans   == [x \in req |-> Message(IF final /\ r.ret = rel THEN "response" ELSE "continued",
                                      m.op, rel[2], m.data)]
      ended == wait[i] # <<>> /\ r.ret = wait[i][Len(wait[i])].id
  IN
  /\ Receives(i, n, {"continued", "response"}, {"init", "sync"})
  /\ data' = [data EXCEPT ![i] = Merge(@, n, m.data)]
  /\ event' = [event EXCEPT ![i] = r.table]
  /\ wait' = IF ended THEN [wait EXCEPT ![i] = Front(@)] ELSE wait
  /\ outcome' = IF ended THEN [outcome EXCEPT ![i] = "ok"] ELSE outcome
  /\ buffered => ended /\ Len(net[n][In(i)]) > 1
  /\ Send(i, Taken(i, n), conn[i], Both(ans, pub), failed, IF buffered THEN {<<i, n>>} ELSE {})
  /\ UNCHANGED <<ends, backlog, broken, rootseq, dangling, nval, spent>>

TimerRuns == /\ spent.timer < MaxTimer
             /\ spent' = [spent EXCEPT !.timer = @ + 1]

\* The time of the innermost yconn_serve_blocking is over.
Timeout(i) ==
  /\ i \notin dangling
  /\ wait[i] # <<>> /\ <<i, wait[i][Len(wait[i])].kind>> \in Late
  /\ wait' = [wait EXCEPT ![i] = Front(@)]
  /\ outcome' = [outcome EXCEPT ![i] = "timeout"]
  /\ TimerRuns
  /\ UNCHANGED <<data, ends, conn, disconn, backlog, net, stalled, broken, event,
                 rootseq, dangling, nval>>

\* waitevent_expire.  The timer of a request is set YDB_DELIVERY_LATENCY shorter than
\* that of the event it belongs to (yconn_request), which is therefore the last to go.
KindOf(i, id) ==
  IF \E x \in DOMAIN wait[i] : wait[i][x].kind = "init" /\ wait[i][x].id \in {id, event[i][id].pid}
  THEN "init" ELSE "sync"
Expire(i, id) ==
  /\ i \notin dangling
  /\ id \in DOMAIN event[i] /\ <<i, KindOf(i, id)>> \in Late
  /\ \A x \in DOMAIN event[i] : event[i][x].pid # id
  /\ event' = [event EXCEPT ![i] = Reset(@, id, TRUE).table]
  /\ TimerRuns
  /\ UNCHANGED <<data, ends, conn, disconn, backlog, net, stalled, broken, rootseq,
                 dangling, wait, outcome, nval>>

\* The network or the peer's host resets a connection; what is in flight may
\* still be read, what is sent from now on is lost.
Break(n) ==
  /\ n \in DOMAIN ends \ broken
  /\ ends[n] \in Fragile /\ spent.break < MaxBreak
  /\ broken' = broken \cup {n}
  /\ spent' = [spent EXCEPT !.break = @ + 1]
  /\ stalled' = stalled \ (Instance \X {n})
  /\ UNCHANGED <<data, ends, conn, disconn, backlog, net, nval>> /\ NoChange

\* yconn_recv finds the connection broken: yconn_deferred_close.  The server
\* frees its end; a client keeps it to connect again.
Notice(i, n) ==
  /\ i \notin dangling
  /\ n \in broken \cap DOMAIN conn[i]
  /\ conn' = [conn EXCEPT ![i] = [x \in DOMAIN @ \ {n} |-> @[x]]]
  /\ disconn' = IF i = Server THEN disconn
                ELSE [disconn EXCEPT ![i] = {conn[i][n].sendseq}]
  /\ net' = [net EXCEPT ![n][In(i)] = <<>>]
  /\ stalled' = stalled \ {<<i, n>>}
  /\ UNCHANGED <<data, ends, backlog, broken, nval, spent>> /\ NoChange

\* An instance whose event tree holds freed memory does anything or nothing.
Undefined == dangling # {} /\ UNCHANGED vars

Next ==
  \/ \E i \in Instance, k \in Key, F \in SUBSET broken : Write(i, k, F) \/ Delete(i, k, F)
  \/ \E c \in Client : Connect(c)
  \/ Accept
  \/ \E n \in DOMAIN ends, F \in SUBSET broken : RecvInit(n, F)
  \/ \E i \in Instance, n \in DOMAIN ends, F \in SUBSET broken :
       RecvPublish(i, n, F) \/ RecvSync(i, n, F)
       \/ \E buffered \in BOOLEAN : RecvAnswer(i, n, F, buffered)
  \/ \E i \in Instance, F \in SUBSET broken : Sync(i, F)
  \/ \E i \in Instance : Timeout(i)
  \/ \E i \in Instance : \E id \in DOMAIN event[i] : Expire(i, id)
  \/ \E n \in DOMAIN ends : Break(n)
  \/ \E i \in Instance, n \in broken : Notice(i, n)
  \/ Undefined

Spec == Init /\ [][Next]_vars

-----------------------------------------------------------------------------
(***************************************************************************)
(* Properties.                                                              *)
(***************************************************************************)

\* Nothing is in flight, no connection waits to be accepted or given up.
Settled ==
  /\ backlog = <<>> /\ dangling = {}
  /\ \A n \in DOMAIN net : net[n] = [up |-> <<>>, down |-> <<>>]
  /\ \A i \in Instance : DOMAIN conn[i] \cap broken = {}

\* Whenever nothing is in flight, the server and every linked subscriber hold
\* what each linked writer holds: nothing written or deleted was missed, and
\* nothing deleted came back (yconn_publish, yconn_init, yconn_recv).
Converged ==
  Settled => \A k \in Key, w \in Linked \cup {Server}, i \in Subscribed \cup {Server} :
    w \in Writer[k] => data[i][k].val = data[w][k].val

\* An instance holds a value as its own (origin 0) only if it is a writer of it,
\* and otherwise under a connection to where it comes from: at the server that
\* of the writer, at a client its connection to the server.  The answers to SYNC
\* (origin 0 only) and whispers go by it (ydb_fprintf_sub, yconn_whisper).
OriginLeadsHome ==
  \A i \in Instance, k \in Key :
    LET o == data[i][k].origin IN
    data[i][k].val # 0 =>
      IF o = 0 THEN i \in Writer[k]
      ELSE i \notin Writer[k] /\ (IF i = Server THEN ends[o] \in Writer[k] ELSE ends[o] = i)

\* Until something is deleted the instances implement a replicated store: whatever
\* overtakes what on different connections, and whatever connection breaks, nobody
\* falls back to an older value or loses its own (yconn_merge of publications, of
\* relayed answers and of INIT dumps).
Values == [i \in Instance |-> [k \in Key |-> data[i][k].val]]
Store == INSTANCE ReplicatedStore WITH Node <- Instance, latest <- nval, view <- Values
ImplementsStore ==
  Store!Init /\ [][spent'.delete = 0 => Store!Next]_<<nval, Values>>

\* Until something is deleted, a step that ends a ydb_sync with YDB_OK leaves the
\* caller with everything that was written at the instances it asks before the call,
\* also at those it only reaches through the server (yconn_sync, waitevent_reset,
\* yconn_serve_blocking).
FreshStep ==
  \A i \in Instance :
    Len(wait'[i]) < Len(wait[i]) /\ outcome'[i] = "ok" =>
      LET want == wait[i][Len(wait[i])].want
      IN \A k \in DOMAIN want : data'[i][k].val >= want[k]
SyncsAreFresh == [][spent'.delete = 0 => FreshStep]_vars

\* Messages are handled and connections accepted as long as there are any.
Receive(i) ==
  \E n \in DOMAIN ends, F \in SUBSET broken :
    \/ i = Server /\ RecvInit(n, F)
    \/ RecvPublish(i, n, F) \/ RecvSync(i, n, F)
    \/ \E buffered \in BOOLEAN : RecvAnswer(i, n, F, buffered)
Fairness == (\A i \in Instance : WF_vars(Receive(i))) /\ WF_vars(Accept)
FairSpec == Spec /\ Fairness

\* With no timer to help, every blocking call is answered: instances that wait
\* for each other still serve each other (yconn_serve_blocking).  The exception
\* are messages that one of them has left in its buffer.
CallsAreAnswered ==
  \A i \in Instance : wait[i] # <<>> ~> wait[i] = <<>> \/ dangling # {} \/ stalled # {}

=============================================================================
