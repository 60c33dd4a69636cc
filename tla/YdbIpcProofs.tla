---------------------------- MODULE YdbIpcProofs ----------------------------
(***************************************************************************)
(* Where the values of a shared data block come from, for any number of      *)
(* clients, keys, messages, timers and broken connections: OriginLeadsHome   *)
(* of YdbIpc, provided the instances keep to Usage.                         *)
(*                                                                          *)
(* The invariant describes the ends that a client and the server hold of a   *)
(* connection, the messages between them (the first of a client is INIT, the *)
(* server says nothing before it has read it), what a client that waits for  *)
(* the answer to INIT cannot have done, and the events on behalf of relayed  *)
(* requests.  All handlers of messages and all calls that send are instances *)
(* of one step (Handles): a message is taken from one connection, the data   *)
(* changes by it or by a call of a writer, and messages that may be said     *)
(* (Says) go out, some of them lost on broken connections.                   *)
(***************************************************************************)
EXTENDS YdbIpc, SequenceTheorems, TLAPS

\* The types of the state.
Leaves  == [Key -> [val : Nat, origin : Nat]]
Payload == UNION {[D -> Nat] : D \in SUBSET Key}
Msg     == [type : {"publish", "request", "continued", "response"},
            op : {"init", "merge", "delete", "sync"}, seq : Nat, data : Payload]
Channel == [up : Seq(Msg), down : Seq(Msg)]
End     == [status : {"client", "cond_client"}, writable : BOOLEAN, unsub : BOOLEAN,
            sendseq : Nat]
Table   == UNION {[D -> End] : D \in SUBSET Nat}
Call    == [id : Int \X Nat, kind : {"init", "sync"}, want : Payload]
Spent   == [delete : Nat, sync : Nat, timer : Nat, break : Nat]

\* Payloads and tables as functions.
LEMMA Payloads ==
  /\ \A D \in SUBSET Key : \A f \in [D -> Nat] : f \in Payload
  /\ \A pl \in Payload : /\ DOMAIN pl \in SUBSET Key /\ pl \in [DOMAIN pl -> Nat]
                         /\ \A k \in DOMAIN pl : k \in Key /\ pl[k] \in Nat
BY DEF Payload

LEMMA Tables ==
  /\ \A D \in SUBSET Nat : \A f \in [D -> End] : f \in Table
  /\ \A cn \in Table : /\ DOMAIN cn \in SUBSET Nat /\ cn \in [DOMAIN cn -> End]
                       /\ \A n \in DOMAIN cn : n \in Nat /\ cn[n] \in End
BY DEF Table

\* The operations on a data block return data blocks and payloads.
LEMMA BlockOps ==
  ASSUME NEW d \in Leaves, NEW pl \in Payload, NEW o \in Nat
  PROVE  /\ Merge(d, o, pl) \in Leaves /\ Erase(d, pl) \in Leaves
         /\ Dump(d) \in Payload /\ Mine(d) \in Payload
         /\ \A op : Log(d, op, pl) \in Payload
<1>1. /\ DOMAIN pl \in SUBSET Key /\ \A k \in DOMAIN pl : k \in Key /\ pl[k] \in Nat
      /\ \A k \in Key : d[k].val \in Nat
  BY Payloads DEF Leaves
<1>2. Merge(d, o, pl) \in Leaves
  BY <1>1 DEF Merge, Changed, Leaves
<1>3. Erase(d, pl) \in Leaves
  BY <1>1 DEF Erase, Leaves, Absent
<1>4. Dump(d) \in [Present(d) -> Nat] /\ Present(d) \in SUBSET Key
  BY <1>1 DEF Dump, Present
<1>5. Mine(d) \in [{x \in Present(d) : d[x].origin = 0} -> Nat]
  BY <1>1 DEF Mine, Present
<1>6. {x \in Present(d) : d[x].origin = 0} \in SUBSET Key
  BY DEF Present
<1>7. ASSUME NEW op PROVE Log(d, op, pl) \in Payload
  <2> DEFINE D == IF op = "delete" THEN Deleted(d, pl) ELSE Changed(d, pl)
  <2>1. D \in SUBSET Key /\ D \subseteq DOMAIN pl
    BY <1>1 DEF Deleted, Changed
  <2>2. [k \in D |-> pl[k]] \in [D -> Nat]
    BY <1>1, <2>1
  <2> QED BY <2>1, <2>2, Payloads DEF Log
<1> QED BY <1>2, <1>3, <1>4, <1>5, <1>6, <1>7, Payloads

\* A queue of a channel is emptied, goes on by a message, or gives its first away.
LEMMA ChannelSet ==
  ASSUME NEW q \in Channel, NEW a \in {"up", "down"}, NEW b \in {"up", "down"}, a # b,
         NEW s \in Seq(Msg)
  PROVE  /\ [q EXCEPT ![a] = s] \in Channel
         /\ [q EXCEPT ![a] = s][a] = s /\ [q EXCEPT ![a] = s][b] = q[b]
BY DEF Channel

\* A channel has a queue each way.
LEMMA ChannelQueues ==
  ASSUME NEW q \in Channel, NEW a \in {"up", "down"}
  PROVE  q[a] \in Seq(Msg)
BY DEF Channel

-----------------------------------------------------------------------------
(***************************************************************************)
(* Queues.                                                                 *)
(***************************************************************************)
Opens(q) == q # <<>> /\ q[1].op = "init"

\* A queue without its first message, and one message longer.
LEMMA Queues ==
  ASSUME NEW q \in Seq(Msg)
  PROVE  /\ Len(q) \in Nat /\ \A j \in 1..Len(q) : q[j] \in Msg
         /\ q # <<>> => /\ 1 \in 1..Len(q) /\ Head(q) = q[1] /\ q[1] \in Msg
                        /\ Tail(q) \in Seq(Msg) /\ Len(Tail(q)) = Len(q) - 1
                        /\ \A j \in 1..Len(q) - 1 : Tail(q)[j] = q[j + 1] /\ j + 1 \in 2..Len(q)
         /\ \A m \in Msg : /\ Append(q, m) \in Seq(Msg) /\ Len(Append(q, m)) = Len(q) + 1
                           /\ Append(q, m) # <<>>
                           /\ \A j \in 1..Len(q) : Append(q, m)[j] = q[j]
                           /\ Append(q, m)[Len(q) + 1] = m
<1>1. Len(q) \in Nat /\ \A j \in 1..Len(q) : q[j] \in Msg
  BY ElementOfSeq
<1>2. ASSUME q # <<>>
      PROVE  /\ 1 \in 1..Len(q) /\ Head(q) = q[1] /\ q[1] \in Msg
             /\ Tail(q) \in Seq(Msg) /\ Len(Tail(q)) = Len(q) - 1
             /\ \A j \in 1..Len(q) - 1 : Tail(q)[j] = q[j + 1] /\ j + 1 \in 2..Len(q)
  <2>1. Len(q) > 0
    BY <1>1, <1>2, EmptySeq
  <2>2. /\ Tail(q) \in Seq(Msg) /\ Len(Tail(q)) = Len(q) - 1
        /\ \A j \in 1..Len(Tail(q)) : Tail(q)[j] = q[j + 1]
    BY <1>2, HeadTailProperties
  <2> QED BY <1>1, <2>1, <2>2
<1>3. ASSUME NEW m \in Msg
      PROVE  /\ Append(q, m) \in Seq(Msg) /\ Len(Append(q, m)) = Len(q) + 1
             /\ \A j \in 1..Len(q) : Append(q, m)[j] = q[j]
             /\ Append(q, m)[Len(q) + 1] = m
  <2> HIDE DEF Msg
  <2> QED BY AppendProperties
<1>4. ASSUME NEW m \in Msg PROVE Append(q, m) # <<>>
  BY <1>1, <1>3, EmptySeq
<1> QED BY <1>1, <1>2, <1>3, <1>4

\* What a client c may say, and what may stand in a queue of its messages.
UpMsg(m, c) == /\ \A k \in DOMAIN m.data : c \in Writer[k]
               /\ m.type = "request" /\ m.op = "sync" => DOMAIN m.data = {}
UpQueue(q, c) ==
  \A j \in 1..Len(q) :
    /\ UpMsg(q[j], c)
    /\ q[j].op = "init" => j = 1 /\ q[j].type = IF c \in Unsub THEN "publish" ELSE "request"

\* The queue of a client stays one when a message is taken or said.
LEMMA UpQueues ==
  ASSUME NEW c, NEW q \in Seq(Msg), UpQueue(q, c)
  PROVE  /\ q # <<>> => UpQueue(Tail(q), c) /\ ~Opens(Tail(q))
         /\ \A m \in Msg : UpMsg(m, c) /\ m.op # "init" =>
              UpQueue(Append(q, m), c) /\ (Opens(Append(q, m)) => Opens(q) /\ Append(q, m)[1] = q[1])
<1>1. ASSUME q # <<>> PROVE UpQueue(Tail(q), c) /\ ~Opens(Tail(q))
  <2>1. ASSUME NEW j \in 1..Len(q) - 1
        PROVE  UpMsg(Tail(q)[j], c) /\ Tail(q)[j].op # "init"
    BY <1>1, Queues DEF UpQueue
  <2>2. Len(Tail(q)) = Len(q) - 1 /\ Tail(q) \in Seq(Msg)
    BY <1>1, Queues
  <2>3. Tail(q) # <<>> => 1 \in 1..Len(Tail(q))
    BY <2>2, Queues
  <2> QED BY <2>1, <2>2, <2>3 DEF UpQueue, Opens
<1>2. ASSUME NEW m \in Msg, UpMsg(m, c), m.op # "init"
      PROVE  UpQueue(Append(q, m), c) /\ (Opens(Append(q, m)) => Opens(q) /\ Append(q, m)[1] = q[1])
  <2>1. /\ Len(q) \in Nat /\ Len(Append(q, m)) = Len(q) + 1
        /\ \A j \in 1..Len(q) : Append(q, m)[j] = q[j]
        /\ Append(q, m)[Len(q) + 1] = m
    BY Queues
  <2>2. UpQueue(Append(q, m), c)
    <3> SUFFICES ASSUME NEW j \in 1..Len(q) + 1
                 PROVE  /\ UpMsg(Append(q, m)[j], c)
                        /\ Append(q, m)[j].op = "init" =>
                             j = 1 /\ Append(q, m)[j].type = IF c \in Unsub THEN "publish" ELSE "request"
      BY <2>1 DEF UpQueue
    <3>1. CASE j \in 1..Len(q)
      BY <2>1, <3>1 DEF UpQueue
    <3>2. CASE j = Len(q) + 1
      BY <1>2, <2>1, <3>2
    <3> QED BY <2>1, <3>1, <3>2
  <2>3. CASE q = <<>>
    <3>1. Len(q) = 0
      BY <2>3, EmptySeq
    <3>2. Append(q, m)[1] = m
      BY <2>1, <3>1
    <3> QED BY <1>2, <2>2, <3>2 DEF Opens
  <2>4. CASE q # <<>>
    <3>1. Append(q, m)[1] = q[1]
      BY <2>1, <2>4, Queues
    <3> QED BY <2>2, <2>4, <3>1 DEF Opens
  <2> QED BY <2>3, <2>4
<1> QED BY <1>1, <1>2

\* What the server may say to a client c that holds d: of what c writes itself it
\* speaks in the answer to INIT only, and says there what c holds.
DownMsg(m, c, d) ==
  /\ \A k \in DOMAIN m.data : c \in Writer[k] => m.op = "init" /\ m.data[k] = d[k].val
  /\ m.type = "request" /\ m.op = "sync" => DOMAIN m.data = {}
DownQueue(q, c, d) ==
  \A j \in 1..Len(q) :
    /\ DownMsg(q[j], c, d)
    /\ q[j].op = "init" => j = 1 /\ q[j].type = "response" /\ c \notin Unsub

\* So does the queue of the server, also when the client's data changes where the
\* answer to INIT is not under way.
LEMMA DownQueues ==
  ASSUME NEW c, NEW d, NEW q \in Seq(Msg), DownQueue(q, c, d)
  PROVE  /\ q # <<>> => DownQueue(Tail(q), c, d) /\ ~Opens(Tail(q))
         /\ \A m \in Msg : DownMsg(m, c, d) /\ (m.op = "init" => q = <<>> /\ m.type = "response" /\ c \notin Unsub)
              => DownQueue(Append(q, m), c, d) /\ (Opens(Append(q, m)) => Opens(q) \/ m.op = "init")
         /\ \A e : ~Opens(q) \/ (\A k \in Key : c \in Writer[k] => e[k].val = d[k].val)
              => DownQueue(q, c, e)
<1>1. ASSUME q # <<>> PROVE DownQueue(Tail(q), c, d) /\ ~Opens(Tail(q))
  <2>1. ASSUME NEW j \in 1..Len(q) - 1
        PROVE  DownMsg(Tail(q)[j], c, d) /\ Tail(q)[j].op # "init"
    BY <1>1, Queues DEF DownQueue
  <2>2. Len(Tail(q)) = Len(q) - 1 /\ Tail(q) \in Seq(Msg)
    BY <1>1, Queues
  <2>3. Tail(q) # <<>> => 1 \in 1..Len(Tail(q))
    BY <2>2, Queues
  <2> QED BY <2>1, <2>2, <2>3 DEF DownQueue, Opens
<1>2. ASSUME NEW m \in Msg, DownMsg(m, c, d),
             m.op = "init" => q = <<>> /\ m.type = "response" /\ c \notin Unsub
      PROVE  DownQueue(Append(q, m), c, d) /\ (Opens(Append(q, m)) => Opens(q) \/ m.op = "init")
  <2>1. /\ Len(q) \in Nat /\ Len(Append(q, m)) = Len(q) + 1
        /\ \A j \in 1..Len(q) : Append(q, m)[j] = q[j]
        /\ Append(q, m)[Len(q) + 1] = m
    BY Queues
  <2>2. q = <<>> => Len(q) = 0
    BY EmptySeq
  <2>3. DownQueue(Append(q, m), c, d)
    <3> SUFFICES ASSUME NEW j \in 1..Len(q) + 1
                 PROVE  /\ DownMsg(Append(q, m)[j], c, d)
                        /\ Append(q, m)[j].op = "init" =>
                             j = 1 /\ Append(q, m)[j].type = "response" /\ c \notin Unsub
      BY <2>1 DEF DownQueue
    <3>1. CASE j \in 1..Len(q)
      BY <2>1, <3>1 DEF DownQueue
    <3>2. CASE j = Len(q) + 1
      BY <1>2, <2>1, <2>2, <3>2
    <3> QED BY <2>1, <3>1, <3>2
  <2>4. CASE q = <<>>
    <3>1. Append(q, m)[1] = m
      BY <2>1, <2>2, <2>4
    <3> QED BY <1>2, <2>3, <3>1 DEF Opens
  <2>5. CASE q # <<>>
    <3>1. Append(q, m)[1] = q[1]
      BY <2>1, <2>5, Queues
    <3> QED BY <2>3, <2>5, <3>1 DEF Opens
  <2> QED BY <2>4, <2>5
<1>3. ASSUME NEW e, ~Opens(q) \/ (\A k \in Key : c \in Writer[k] => e[k].val = d[k].val)
      PROVE  DownQueue(q, c, e)
  <2> SUFFICES ASSUME NEW j \in 1..Len(q) PROVE DownMsg(q[j], c, e)
    BY DEF DownQueue
  <2>1. q[j] \in Msg /\ DOMAIN q[j].data \subseteq Key
    BY Queues, Payloads DEF Msg
  <2>2. Len(q) \in Nat /\ (q[j].op = "init" => Opens(q))
    <3>1. j = 1 => q # <<>>
      BY EmptySeq
    <3> QED BY <3>1, Queues DEF DownQueue, Opens
  <2> QED BY <1>3, <2>1, <2>2 DEF DownQueue, DownMsg
<1> QED BY <1>1, <1>2, <1>3

-----------------------------------------------------------------------------
\* The state is of its types.
Typed ==
  /\ data \in [Instance -> Leaves]
  /\ ends \in Seq(Client)
  /\ conn \in [Instance -> Table]
  /\ disconn \in [Client -> SUBSET Nat]
  /\ backlog \in Seq(Nat)
  /\ net \in Seq(Channel) /\ Len(net) = Len(ends)
  /\ event = [i \in Instance |-> event[i]]
  /\ wait \in [Instance -> Seq(Call)]
  /\ rootseq \in [Instance -> Nat]
  /\ nval \in [Key -> Nat]
  /\ spent \in Spent

Conns == 1..Len(ends)

\* The clients' ends: one connection at a time, and one ever if it does not break.
Connected ==
  /\ \A i \in Instance : DOMAIN conn[i] \subseteq Conns
  /\ \A c \in Client : \A n \in DOMAIN conn[c] :
       /\ ends[n] = c /\ conn[c][n].status = "client"
       /\ conn[c][n].writable = (c \in Writable)
       /\ \A m \in DOMAIN conn[c] : m = n
  /\ \A c \in Client : disconn[c] # {} => DOMAIN conn[c] = {} /\ c \in Fragile
  /\ broken \subseteq Conns
  /\ \A n \in broken : ends[n] \in Fragile
  /\ \A n \in Conns \ broken : n \in DOMAIN conn[ends[n]]
  /\ \A m, n \in Conns : ends[m] = ends[n] /\ ends[n] \notin Fragile => m = n

\* The server's ends: the flags of a client take effect with its INIT.
Accepted ==
  /\ \A n \in DOMAIN conn[Server] :
       /\ conn[Server][n].status = "cond_client"
       /\ conn[Server][n].writable = (ends[n] \in Writable /\ ~Opens(net[n].up))
       /\ conn[Server][n].unsub = (ends[n] \in Unsub \/ Opens(net[n].up))
  /\ \A j \in 1..Len(backlog) :
       /\ backlog[j] \in Conns \ DOMAIN conn[Server] /\ Opens(net[backlog[j]].up)
       /\ \A h \in 1..Len(backlog) : backlog[h] = backlog[j] => h = j
  /\ \A n \in Conns \ broken : n \in DOMAIN conn[Server] \/ \E j \in 1..Len(backlog) : backlog[j] = n

\* The server says nothing on a connection before it has read INIT there.
Channels ==
  \A n \in Conns :
    /\ UpQueue(net[n].up, ends[n])
    /\ DownQueue(net[n].down, ends[n], data[ends[n]])
    /\ Opens(net[n].up) => net[n].down = <<>>

\* A subscriber that writes waits for the answer to its INIT, which has all its data.
Waiting ==
  \A n \in Conns : ends[n] \in Writable \ Unsub =>
    /\ Opens(net[n].up) \/ Opens(net[n].down) =>
         wait[ends[n]] # <<>> /\ wait[ends[n]][Len(wait[ends[n]])].kind = "init"
    /\ Opens(net[n].up) => net[n].up[1].data = Dump(data[ends[n]])

\* Before INIT is read neither end has data of the other.
Fresh ==
  /\ \A c \in Client, k \in Key :
       (\A n \in Conns : ends[n] = c => Opens(net[n].up) /\ c \notin Fragile) =>
         c \in Writer[k] \/ data[c][k].val = 0
  /\ \A c \in Client, k \in Key :
       (\A n \in Conns : ends[n] = c => Opens(net[n].up)) /\ c \in Writer[k] => data[Server][k].val = 0

\* Only the server relays, to another connection than the one asked, from where it
\* has read INIT.
Heard == {n \in Conns : ~Opens(net[n].up)}
RelayTable(i, ev, heard) ==
  \A x \in DOMAIN ev :
    /\ "pid" \in DOMAIN ev[x] /\ ev[x].pid \in Int \X Nat
    /\ ev[x].pid[1] > 0 => i = Server /\ ev[x].pid[1] # x[1] /\ ev[x].pid[1] \in heard
Relays == \A i \in Instance : RelayTable(i, event[i], Heard)

\* Where a value that i holds under origin o comes from (OriginLeadsHome).
Home(i, k, o) ==
  IF o = 0 THEN i \in Writer[k]
  ELSE o \in Conns /\ i \notin Writer[k] /\ (IF i = Server THEN ends[o] \in Writer[k] ELSE ends[o] = i)
Origins ==
  \A i \in Instance, k \in Key :
    /\ i \in Writer[k] => data[i][k].origin = 0
    /\ data[i][k].val # 0 => Home(i, k, data[i][k].origin)

\* The inductive invariant.
IInv == /\ Typed /\ Connected /\ Accepted /\ Channels
        /\ Waiting /\ Fresh /\ Relays /\ Origins

-----------------------------------------------------------------------------
\* The channels, the table of i and the lost connections after a handler of i.
Sent(i, nt, cn, outs, failed) ==
  /\ failed \subseteq DOMAIN outs \cap broken
  /\ net' \in Seq(Channel) /\ Len(net') = Len(nt)
  /\ \A n \in 1..Len(nt) :
       /\ net'[n][In(i)] = IF n \in failed THEN <<>> ELSE nt[n][In(i)]
       /\ net'[n][Out(i)] = IF n \in DOMAIN outs \ broken THEN Append(nt[n][Out(i)], outs[n])
                            ELSE nt[n][Out(i)]
  /\ conn' \in [Instance -> Table]
  /\ \A j \in Instance \ {i} : conn'[j] = conn[j]
  /\ DOMAIN conn'[i] = DOMAIN cn \ failed
  /\ \A n \in DOMAIN cn \ failed : /\ conn'[i][n].status = cn[n].status
                                   /\ conn'[i][n].writable = cn[n].writable
                                   /\ conn'[i][n].unsub = cn[n].unsub
  /\ disconn' \in [Client -> SUBSET Nat]
  /\ \A c \in Client : disconn'[c] = disconn[c] \/ (c = i /\ failed # {})

\* What Send does, for messages to connections of the table.
LEMMA Sends ==
  ASSUME Typed, NEW i \in Instance, NEW nt \in Seq(Channel), NEW cn \in Table, NEW outs,
         DOMAIN outs \subseteq DOMAIN cn, \A n \in DOMAIN outs : outs[n] \in Msg,
         DOMAIN cn \subseteq 1..Len(nt), NEW failed, NEW left, Send(i, nt, cn, outs, failed, left)
  PROVE  Sent(i, nt, cn, outs, failed)
<1> DEFINE seqs == [n \in DOMAIN cn |-> cn[n].sendseq +
                      IF n \in DOMAIN outs THEN IF Numbered(outs[n]) THEN 1 ELSE 0 ELSE 0]
           ch(n) == IF n \in failed THEN [nt[n] EXCEPT ![In(i)] = <<>>]
                    ELSE IF n \in DOMAIN outs \ broken
                         THEN [nt[n] EXCEPT ![Out(i)] = Append(@, outs[n])] ELSE nt[n]
           en(n) == [cn[n] EXCEPT !.sendseq = seqs[n]]
<1>1. /\ failed \subseteq DOMAIN outs \cap broken
      /\ net' = [n \in DOMAIN nt |-> ch(n)]
      /\ conn' = [conn EXCEPT ![i] = [n \in DOMAIN cn \ failed |-> en(n)]]
      /\ disconn' = IF i \in Client /\ failed # {}
                    THEN [disconn EXCEPT ![i] = {seqs[n] : n \in failed}] ELSE disconn
  BY DEF Send
<1>2. /\ DOMAIN nt = 1..Len(nt) /\ Len(nt) \in Nat
      /\ In(i) \in {"up", "down"} /\ Out(i) \in {"up", "down"} /\ In(i) # Out(i)
  BY DEF In, Out
<1>3. \A n \in DOMAIN cn : n \in Nat /\ cn[n] \in End /\ seqs[n] \in Nat
  BY Tables DEF End
<1>4. ASSUME NEW n \in 1..Len(nt)
      PROVE  /\ ch(n) \in Channel
             /\ ch(n)[In(i)] = IF n \in failed THEN <<>> ELSE nt[n][In(i)]
             /\ ch(n)[Out(i)] = IF n \in DOMAIN outs \ broken THEN Append(nt[n][Out(i)], outs[n])
                                ELSE nt[n][Out(i)]
  <2>1. nt[n] \in Channel
    BY <1>4, ElementOfSeq
  <2>2. CASE n \in failed
    <3> DEFINE q == <<>>
               r == [nt[n] EXCEPT ![In(i)] = q]
    <3>1. q \in Seq(Msg) /\ n \in broken /\ ch(n) = r
      BY <1>1, <2>2
    <3>2. r \in Channel /\ r[In(i)] = q /\ r[Out(i)] = nt[n][Out(i)]
      <4> HIDE DEF q
      <4> QED BY <1>2, <2>1, <3>1, ChannelSet
    <3> HIDE DEF r, ch
    <3> QED BY <2>2, <3>1, <3>2
  <2>3. CASE n \notin failed /\ n \in DOMAIN outs \ broken
    <3> DEFINE q == Append(nt[n][Out(i)], outs[n])
               r == [nt[n] EXCEPT ![Out(i)] = q]
    <3>1. nt[n][Out(i)] \in Seq(Msg) /\ outs[n] \in Msg
      BY <1>2, <2>1, <2>3, ChannelQueues
    <3>2. q \in Seq(Msg)
      BY <3>1, AppendProperties
    <3>3. ch(n) = r
      BY <2>3
    <3>4. r \in Channel /\ r[Out(i)] = q /\ r[In(i)] = nt[n][In(i)]
      <4> HIDE DEF q
      <4> QED BY <1>2, <2>1, <3>2, ChannelSet
    <3> HIDE DEF r, ch
    <3> QED BY <2>3, <3>3, <3>4
  <2>4. CASE n \notin failed /\ n \notin DOMAIN outs \ broken
    BY <2>1, <2>4
  <2> QED BY <2>2, <2>3, <2>4
<1>5. ASSUME NEW n \in DOMAIN cn
      PROVE  /\ en(n) \in End /\ en(n).status = cn[n].status
             /\ en(n).writable = cn[n].writable /\ en(n).unsub = cn[n].unsub
  <2> HIDE DEF seqs
  <2> QED BY <1>3 DEF End
<1> HIDE DEF ch, en
<1>6. net' \in [1..Len(nt) -> Channel]
  BY <1>1, <1>2, <1>4
<1>7. net' \in Seq(Channel) /\ Len(net') = Len(nt)
  BY <1>2, <1>6
<1>8. /\ \A n \in 1..Len(nt) : net'[n] = ch(n)
  BY <1>1, <1>2
<1>9. [n \in DOMAIN cn \ failed |-> en(n)] \in Table
  <2>1. [n \in DOMAIN cn \ failed |-> en(n)] \in [DOMAIN cn \ failed -> End]
    BY <1>5
  <2>2. DOMAIN cn \ failed \in SUBSET Nat
    BY <1>3
  <2> QED BY <2>1, <2>2, Tables
<1>10. /\ conn' \in [Instance -> Table]
       /\ \A j \in Instance \ {i} : conn'[j] = conn[j]
       /\ conn'[i] = [n \in DOMAIN cn \ failed |-> en(n)]
  BY <1>1, <1>9 DEF Typed
<1>11. disconn' \in [Client -> SUBSET Nat]
  <2>1. {seqs[n] : n \in failed} \in SUBSET Nat
    BY <1>1, <1>3
  <2> HIDE DEF seqs
  <2> QED BY <1>1, <2>1 DEF Typed
<1>12. \A c \in Client : disconn'[c] = disconn[c] \/ (c = i /\ failed # {})
  <2> HIDE DEF seqs
  <2> QED BY <1>1 DEF Typed
<1> QED BY ZenonT(60), <1>1, <1>4, <1>5, <1>7, <1>8, <1>10, <1>11, <1>12 DEF Sent

\* The table of i that a handler of a message of n goes by.
Flags(i, n, cn) ==
  /\ cn \in Table /\ DOMAIN cn = DOMAIN conn[i]
  /\ \A x \in DOMAIN cn :
       /\ cn[x].status = conn[i][x].status
       /\ IF i = Server /\ x = n /\ Opens(net[n].up)
          THEN cn[x].writable = (ends[x] \in Writable) /\ cn[x].unsub = (ends[x] \in Unsub)
          ELSE cn[x].writable = conn[i][x].writable /\ cn[x].unsub = conn[i][x].unsub

\* What it says.
Says(i, n, outs) ==
  \A x \in DOMAIN outs \ broken :
    IF i = Server
    THEN /\ Opens(net[x].up) => x = n
         /\ DownMsg(outs[x], ends[x], data[ends[x]])
         /\ outs[x].op = "init" => x = n /\ Opens(net[n].up) /\ outs[x].type = "response" /\ ends[x] \notin Unsub
    ELSE UpMsg(outs[x], i) /\ outs[x].op # "init"

\* What it changes.
Updates(i, n) ==
  /\ data' = [data EXCEPT ![i] = data'[i]]
  /\ IF n = 0
     THEN \/ data'[i] = data[i]
          \/ \E pl \in Payload : /\ data'[i] \in {Merge(data[i], 0, pl), Erase(data[i], pl)}
                                 /\ \A k \in DOMAIN pl : i \in Writer[k]
     ELSE data'[i] = Apply(data[i], net[n][In(i)][1].op, n, net[n][In(i)][1].data)

\* What it says is what it holds then, and a change is said to all subscribers but
\* the one it came from.
Val(m, k) == IF m.op = "delete" THEN 0 ELSE m.data[k]
Tells(i, n, cn, outs) ==
  /\ \A x \in DOMAIN outs :
       /\ outs[x].op = "delete" => IF n = 0 THEN spent'.delete # 0 ELSE net[n][In(i)][1].op = "delete"
       /\ \A k \in DOMAIN outs[x].data : Val(outs[x], k) = data'[i][k].val
  /\ \A k \in Key : data'[i][k].val # data[i][k].val =>
       \A x \in PubTargets(cn, {n}) : x \in DOMAIN outs /\ k \in DOMAIN outs[x].data

\* A subscriber is answered with everything there is.
Greets(i, n, outs) ==
  i = Server /\ n # 0 /\ Opens(net[n].up) /\ ends[n] \notin Unsub =>
    n \in DOMAIN outs /\ \A k \in Key : data'[i][k].val # 0 => k \in DOMAIN outs[n].data

\* A write counts, and so does a delete.
Counts(i, n) ==
  /\ spent' \in Spent /\ nval' \in [Key -> Nat]
  /\ spent'.delete = spent.delete \/ (n = 0 /\ spent'.delete = spent.delete + 1)
  /\ \A k \in Key :
       \/ /\ nval'[k] = nval[k]
          /\ n = 0 => data'[i][k].val = data[i][k].val \/ spent'.delete # 0
       \/ n = 0 /\ i \in Writer[k] /\ nval'[k] = nval[k] + 1 /\ data'[i][k].val = nval'[k]

\* It relays only where that is allowed.
Tabled ==
  /\ event' = [j \in Instance |-> event'[j]] /\ rootseq' \in [Instance -> Nat]
  /\ \A j \in Instance : RelayTable(j, event'[j], Heard)

\* A request takes the next number of its connection; an answer has the number of the
\* request that was taken, or of the one that the answer taken is relayed for.
Answer(m) == m.type \in {"continued", "response"}
Stamp(i, n, x, o) ==
  LET m == net[n][In(i)][1] IN
  /\ o.type = "request" => o.seq = conn[i][x].sendseq + 1
  /\ Answer(o) =>
       /\ n # 0
       /\ \/ /\ x = n /\ m.type = "request" /\ o.seq = m.seq /\ o.op = m.op
             /\ m.op = "sync" =>
                  /\ o.data = Mine(data[i])
                  /\ o.type = "response" => SyncTargets(conn[i], {n}) = {}
          \/ /\ Answer(m) /\ Relay(event[i], <<n, m.seq>>) = <<x, o.seq>> /\ o.data = m.data
             /\ o.type = "response" =>
                  m.type = "response" /\ Reset(event[i], <<n, m.seq>>, FALSE).ret = <<x, o.seq>>
Stamps(i, n, cn, outs) ==
  /\ \A x \in DOMAIN cn : cn[x].sendseq = conn[i][x].sendseq
  /\ \A x \in DOMAIN outs : Stamp(i, n, x, outs[x])

\* A SYNC request is answered with what i has written, and an answer goes on to the
\* connection of the request it is relayed for.
Replies(i, n, outs) ==
  n # 0 =>
    LET m == net[n][In(i)][1] IN
    /\ m.type = "request" /\ m.op = "sync" => n \in DOMAIN outs /\ outs[n].data = Mine(data[i])
    /\ Answer(m) => \A x \in DOMAIN conn[i] :
         x = Relay(event[i], <<n, m.seq>>)[1] => x \in DOMAIN outs /\ outs[x].data = m.data

\* A handler of i that takes a message from connection n, or a call (n = 0).
Handles(i, n, cn, outs, failed) ==
  /\ UNCHANGED <<ends, backlog, broken>>
  /\ IF n = 0 THEN wait[i] = <<>> ELSE n \in DOMAIN conn[i] /\ net[n][In(i)] # <<>>
  /\ Flags(i, n, cn)
  /\ DOMAIN outs \subseteq DOMAIN cn /\ (\A x \in DOMAIN outs : outs[x] \in Msg)
  /\ Says(i, n, outs)
  /\ Updates(i, n) /\ Tells(i, n, cn, outs) /\ Greets(i, n, outs) /\ Stamps(i, n, cn, outs)
  /\ Replies(i, n, outs) /\ Counts(i, n) /\ Tabled
  /\ wait' \in [Instance -> Seq(Call)] /\ \A j \in Instance \ {i} : wait'[j] = wait[j]
  /\ \E left : Send(i, IF n = 0 THEN net ELSE Taken(i, n), cn, outs, failed, left)

\* What a handler does to the channels and tables.
Effects(i, n, cn, outs, failed) ==
  /\ failed \subseteq DOMAIN outs \cap broken
  /\ net' \in Seq(Channel) /\ Len(net') = Len(ends)
  /\ \A x \in Conns :
       /\ net'[x][In(i)] = IF x \in failed THEN <<>>
                           ELSE IF x = n THEN Tail(net[x][In(i)]) ELSE net[x][In(i)]
       /\ net'[x][Out(i)] = IF x \in DOMAIN outs \ broken THEN Append(net[x][Out(i)], outs[x])
                            ELSE net[x][Out(i)]
  /\ conn' \in [Instance -> Table]
  /\ \A j \in Instance \ {i} : conn'[j] = conn[j]
  /\ DOMAIN conn'[i] = DOMAIN cn \ failed
  /\ \A x \in DOMAIN cn \ failed : /\ conn'[i][x].status = cn[x].status
                                   /\ conn'[i][x].writable = cn[x].writable
                                   /\ conn'[i][x].unsub = cn[x].unsub
  /\ disconn' \in [Client -> SUBSET Nat]
  /\ \A c \in Client : disconn'[c] = disconn[c] \/ (c = i /\ failed # {})

\* The server reads up and writes down, a client the other way round.
LEMMA Sides ==
  ASSUME NEW i
  PROVE  /\ In(i) \in {"up", "down"} /\ Out(i) \in {"up", "down"} /\ In(i) # Out(i)
         /\ i = Server => In(i) = "up" /\ Out(i) = "down"
         /\ i # Server => In(i) = "down" /\ Out(i) = "up"
BY DEF In, Out

\* Taking a message leaves the other queues alone.
LEMMA Takes ==
  ASSUME Typed, NEW i \in Instance, NEW n \in Conns, net[n][In(i)] # <<>>
  PROVE  /\ Taken(i, n) \in Seq(Channel) /\ Len(Taken(i, n)) = Len(ends)
         /\ \A x \in Conns :
              /\ Taken(i, n)[x][In(i)] = IF x = n THEN Tail(net[x][In(i)]) ELSE net[x][In(i)]
              /\ Taken(i, n)[x][Out(i)] = net[x][Out(i)]
<1> DEFINE q == Tail(net[n][In(i)])
           r == [net[n] EXCEPT ![In(i)] = q]
<1>1. net \in Seq(Channel) /\ Len(net) = Len(ends) /\ DOMAIN net = Conns
  BY DEF Typed, Conns
<1>2. net[n] \in Channel /\ net[n][In(i)] \in Seq(Msg)
  BY <1>1, ElementOfSeq, ChannelQueues, Sides DEF Conns
<1>3. q \in Seq(Msg)
  BY <1>2, Queues
<1>4. r \in Channel /\ r[In(i)] = q /\ r[Out(i)] = net[n][Out(i)]
  <2> HIDE DEF q
  <2> QED BY <1>2, <1>3, ChannelSet, Sides
<1>5. Taken(i, n) = [net EXCEPT ![n] = r]
  BY <1>1 DEF Taken
<1> HIDE DEF r
<1>6. /\ Taken(i, n) \in Seq(Channel) /\ Len(Taken(i, n)) = Len(net)
      /\ \A x \in 1..Len(net) : Taken(i, n)[x] = IF x = n THEN r ELSE net[x]
  BY <1>1, <1>4, <1>5, ExceptSeq DEF Conns
<1> QED BY <1>1, <1>4, <1>6 DEF Conns

\* A handler takes a message and sends.
LEMMA HandlesEffects ==
  ASSUME Typed, Connected, NEW i \in Instance, NEW n, NEW cn, NEW outs, NEW failed,
         Handles(i, n, cn, outs, failed)
  PROVE  Effects(i, n, cn, outs, failed)
<1>1. PICK left : Send(i, IF n = 0 THEN net ELSE Taken(i, n), cn, outs, failed, left)
  BY DEF Handles
<1>2. /\ cn \in Table /\ DOMAIN cn \subseteq Conns /\ DOMAIN outs \subseteq DOMAIN cn
      /\ \A x \in DOMAIN outs : outs[x] \in Msg
  BY DEF Handles, Flags, Connected
<1>3. CASE n = 0
  <2>1. net \in Seq(Channel) /\ Len(net) = Len(ends) /\ 0 \notin Conns
    BY DEF Typed, Conns
  <2>2. Sent(i, net, cn, outs, failed)
    BY <1>1, <1>2, <1>3, <2>1, Sends DEF Conns
  <2> QED BY <1>3, <2>1, <2>2 DEF Sent, Effects, Conns
<1>4. CASE n # 0
  <2>1. n \in Conns /\ net[n][In(i)] # <<>>
    BY <1>4 DEF Handles, Connected
  <2> DEFINE nt == Taken(i, n)
  <2>2. /\ nt \in Seq(Channel) /\ Len(nt) = Len(ends)
        /\ \A x \in Conns : /\ nt[x][In(i)] = IF x = n THEN Tail(net[x][In(i)]) ELSE net[x][In(i)]
                            /\ nt[x][Out(i)] = net[x][Out(i)]
    BY <2>1, Takes
  <2>3. Send(i, nt, cn, outs, failed, left)
    BY <1>1, <1>4
  <2> HIDE DEF nt
  <2>4. Sent(i, nt, cn, outs, failed)
    BY <1>2, <2>2, <2>3, Sends DEF Conns
  <2> QED BY <2>2, <2>4 DEF Sent, Effects, Conns
<1> QED BY <1>3, <1>4

-----------------------------------------------------------------------------
\* The writer of a key.
LEMMA Writers ==
  ASSUME Usage, NEW k \in Key
  PROVE  /\ Server \in Instance /\ Server \notin Client
         /\ \A i \in Instance : i \in Client <=> i # Server
         /\ \A c \in Writer[k] : c \in Instance /\ (c # Server => c \in Writable /\ c \notin Fragile)
         /\ \A i, j \in Writer[k] : i = j
BY InstanceAssumption DEF Instance, Usage

\* A value changes hands by a call of its writer, or at another instance by a message.
LEMMA DataSteps ==
  ASSUME Usage, IInv, NEW i \in Instance, NEW n, NEW cn, NEW outs, NEW failed,
         Handles(i, n, cn, outs, failed), NEW k \in Key
  PROVE  \/ data'[i][k] = data[i][k]
         \/ n = 0 /\ i \in Writer[k] /\ data'[i][k].origin = 0
         \/ /\ n # 0 /\ i \notin Writer[k] /\ k \in DOMAIN net[n][In(i)][1].data
            /\ data'[i][k] = Absent \/ data'[i][k].origin = n
<1>1. CASE n = 0 /\ data'[i] # data[i]
  <2>1. PICK pl \in Payload : /\ data'[i] = Merge(data[i], 0, pl) \/ data'[i] = Erase(data[i], pl)
                             /\ \A x \in DOMAIN pl : i \in Writer[x]
    BY <1>1 DEF Handles, Updates
  <2>2. i \in Writer[k] => data[i][k].origin = 0
    BY DEF IInv, Origins
  <2>3. data[i][k] \in [val : Nat, origin : Nat]
    BY DEF IInv, Typed, Leaves
  <2>4. CASE data'[i] = Merge(data[i], 0, pl)
    BY <1>1, <2>1, <2>2, <2>3, <2>4 DEF Merge
  <2>5. CASE data'[i] = Erase(data[i], pl)
    BY SMTT(60), <1>1, <2>1, <2>2, <2>3, <2>5 DEF Erase, Absent
  <2> QED BY <2>1, <2>4, <2>5
<1>2. CASE n # 0 /\ data'[i] # data[i]
  <2> DEFINE q == net[n][In(i)]
             m == q[1]
  <2>1. n \in DOMAIN conn[i] /\ n \in Conns /\ q # <<>>
    BY <1>2 DEF Handles, IInv, Connected
  <2>2. net[n] \in Channel
    BY <2>1, ElementOfSeq DEF IInv, Typed, Conns
  <2>3. q \in Seq(Msg) /\ 1 \in 1..Len(q) /\ m \in Msg
    <3>1. q \in Seq(Msg)
      BY <2>2, ChannelQueues, Sides
    <3> HIDE DEF q
    <3> QED BY <2>1, <3>1, Queues
  <2>4. data'[i] = Apply(data[i], m.op, n, m.data)
    BY SMTT(60), <1>2 DEF Handles, Updates
  <2>5. ASSUME k \in DOMAIN m.data, i \in Writer[k] PROVE data'[i][k] = data[i][k]
    <3>1. i # Server
      <4>1. SUFFICES ASSUME i = Server PROVE FALSE
        OBVIOUS
      <4>2. UpQueue(q, ends[n])
        BY <2>1, <4>1, Sides DEF IInv, Channels
      <4>3. ends[n] \in Writer[k] /\ ends[n] \in Client
        BY <2>1, <2>3, <2>5, <4>2, ElementOfSeq DEF UpQueue, UpMsg, IInv, Typed, Conns
      <4> QED BY <2>5, <4>1, <4>3, Writers
    <3>2. ends[n] = i
      BY <2>1, <3>1, Writers DEF IInv, Connected
    <3>3. DownQueue(q, i, data[i])
      BY <2>1, <3>1, <3>2, Sides DEF IInv, Channels
    <3>4. m.op = "init" /\ m.data[k] = data[i][k].val
      BY <2>3, <2>5, <3>3 DEF DownQueue, DownMsg
    <3>5. data[i][k].origin = 0
      BY <2>5 DEF IInv, Origins
    <3> QED BY <2>4, <3>4, <3>5 DEF Apply, Merge, Changed
  <2> HIDE DEF q, m
  <2>6. ASSUME data'[i][k] # data[i][k]
        PROVE  k \in DOMAIN m.data /\ (data'[i][k] = Absent \/ data'[i][k].origin = n)
    <3>1. CASE m.op = "delete"
      BY <2>4, <2>6, <3>1 DEF Apply, Erase
    <3>2. CASE m.op # "delete"
      <4>1. data'[i][k] = Merge(data[i], n, m.data)[k]
        BY <2>4, <3>2 DEF Apply
      <4> QED BY <2>6, <4>1 DEF Merge
    <3> QED BY <3>1, <3>2
  <2> QED BY <1>2, <2>5, <2>6 DEF q, m
<1> QED BY <1>1, <1>2 DEF Handles, Updates

\* The two queues and the client of a connection.
LEMMA ChannelOf ==
  ASSUME Typed, NEW x \in Conns
  PROVE  /\ net[x] \in Channel /\ net[x].up \in Seq(Msg) /\ net[x].down \in Seq(Msg)
         /\ ends[x] \in Client /\ ends[x] \in Instance /\ ends[x] # Server /\ Len(ends) \in Nat
<1>1. net[x] \in Channel
  BY ElementOfSeq DEF Typed, Conns
<1>2. net[x].up \in Seq(Msg) /\ net[x].down \in Seq(Msg)
  BY <1>1 DEF Channel
<1> QED BY <1>1, <1>2, ElementOfSeq, InstanceAssumption DEF Typed, Conns, Instance

\* Each part of the invariant is kept by a handler: the data blocks stay data blocks,
LEMMA HandlesData ==
  ASSUME IInv, NEW i \in Instance, NEW n, NEW cn, NEW outs, NEW failed,
         Handles(i, n, cn, outs, failed)
  PROVE  data' \in [Instance -> Leaves]
<1>1. data \in [Instance -> Leaves] /\ data' = [data EXCEPT ![i] = data'[i]] /\ 0 \in Nat
  BY DEF Handles, Updates, IInv, Typed
<1>2. CASE n = 0
  <2>1. CASE data'[i] # data[i]
    <3>1. PICK pl \in Payload : data'[i] = Merge(data[i], 0, pl) \/ data'[i] = Erase(data[i], pl)
      BY <1>2, <2>1 DEF Handles, Updates
    <3> QED BY <1>1, <3>1, BlockOps
  <2> QED BY <1>1, <2>1
<1>3. CASE n # 0
  <2>1. n \in Conns /\ net[n][In(i)] # <<>> /\ Len(ends) \in Nat
    BY <1>3, ChannelOf DEF Handles, IInv, Connected
  <2>2. net[n][In(i)] \in Seq(Msg) /\ n \in Nat
    <3>1. n \in Nat
      BY <2>1 DEF Conns
    <3>2. net[n] \in Channel
      BY <2>1, ChannelOf DEF IInv
    <3>3. net[n][In(i)] \in Seq(Msg)
      BY <3>2, ChannelQueues, Sides
    <3> QED BY <3>1, <3>3
  <2>3. net[n][In(i)][1] \in Msg
    BY <2>1, <2>2, Queues
  <2>4. data'[i] \in Leaves
    <3>1. net[n][In(i)][1].data \in Payload
      BY <2>3 DEF Msg
    <3>2. data[i] \in Leaves
      BY <1>1
    <3>3. Apply(data[i], net[n][In(i)][1].op, n, net[n][In(i)][1].data) \in Leaves
      BY <2>2, <3>1, <3>2, BlockOps DEF Apply
    <3>4. \/ data'[i] = data[i]
          \/ data'[i] = Apply(data[i], net[n][In(i)][1].op, n, net[n][In(i)][1].data)
      BY <1>3 DEF Handles, Updates
    <3> QED BY <3>2, <3>3, <3>4
  <2> QED BY <1>1, <2>4
<1> QED BY <1>2, <1>3

\* the state of its types,
LEMMA TypedKeeps ==
  ASSUME IInv, NEW i \in Instance, NEW n, NEW cn, NEW outs, NEW failed,
         Handles(i, n, cn, outs, failed)
  PROVE  Typed'
<1>1. Effects(i, n, cn, outs, failed)
  BY HandlesEffects DEF IInv
<1>2. UNCHANGED <<ends, backlog, broken>> /\ wait' \in [Instance -> Seq(Call)]
  BY DEF Handles
<1>3. /\ spent' \in Spent /\ nval' \in [Key -> Nat]
      /\ event' = [j \in Instance |-> event'[j]] /\ rootseq' \in [Instance -> Nat]
  BY DEF Handles, Counts, Tabled
<1> QED BY <1>1, <1>2, <1>3, HandlesData DEF Effects, Typed, IInv

\* the clients' ends as they are, or lost on broken connections,
LEMMA ConnectedKeeps ==
  ASSUME IInv, NEW i \in Instance, NEW n, NEW cn, NEW outs, NEW failed,
         Handles(i, n, cn, outs, failed)
  PROVE  Connected'
<1>1. Effects(i, n, cn, outs, failed)
  BY HandlesEffects DEF IInv
<1>2. UNCHANGED <<ends, backlog, broken>> /\ Flags(i, n, cn) /\ DOMAIN outs \subseteq DOMAIN cn
  BY DEF Handles
<1>3. ASSUME NEW j \in Instance
      PROVE  /\ DOMAIN conn'[j] \subseteq DOMAIN conn[j]
             /\ DOMAIN conn[j] \ DOMAIN conn'[j] \subseteq broken
             /\ j # Server => \A x \in DOMAIN conn'[j] : /\ conn'[j][x].status = conn[j][x].status
                                                         /\ conn'[j][x].writable = conn[j][x].writable
  BY <1>1, <1>2 DEF Effects, Flags
<1>4. \A c \in Client : c \in Instance /\ c # Server
  BY InstanceAssumption DEF Instance
<1>5. ASSUME NEW c \in Client, disconn'[c] # {} PROVE DOMAIN conn'[c] = {} /\ c \in Fragile
  <2>1. CASE disconn'[c] = disconn[c]
    BY <1>3, <1>4, <1>5, <2>1 DEF IInv, Connected
  <2>2. CASE c = i /\ failed # {}
    <3>1. PICK x : x \in failed /\ x \in DOMAIN conn[c] /\ x \in broken
      BY <1>1, <1>2, <2>2 DEF Effects, Flags
    <3>2. \A y \in DOMAIN conn[c] : y = x
      BY <3>1 DEF IInv, Connected
    <3>3. DOMAIN conn'[c] = {}
      BY <1>1, <1>2, <2>2, <3>1, <3>2 DEF Effects, Flags
    <3> QED BY <3>1, <3>3 DEF IInv, Connected
  <2> QED BY <1>1, <2>1, <2>2 DEF Effects
<1>6. ASSUME NEW x \in Conns \ broken PROVE x \in DOMAIN conn'[ends[x]]
  BY <1>3, ChannelOf DEF IInv, Connected
<1> QED BY SMTT(60), <1>2, <1>3, <1>4, <1>5, <1>6 DEF IInv, Connected, Conns

\* What becomes of the queues of connection x.
LEMMA QueueSteps ==
  ASSUME IInv, NEW i \in Instance, NEW n, NEW cn, NEW outs, NEW failed,
         Handles(i, n, cn, outs, failed), NEW x \in Conns
  PROVE  /\ UpQueue(net'[x].up, ends[x])
         /\ DownQueue(net'[x].down, ends[x], data[ends[x]])
         /\ Opens(net'[x].up) => net'[x].down = <<>>
         /\ Opens(net'[x].up) => /\ Opens(net[x].up) /\ net'[x].up[1] = net[x].up[1]
                                 /\ i = Server => x # n
         /\ Opens(net[x].up) => Opens(net'[x].up) \/ (i = Server /\ x \in {n} \cup failed)
         /\ Opens(net'[x].down) => \/ Opens(net[x].down) /\ (i # Server => x # n)
                                   \/ i = Server /\ x = n /\ Opens(net[x].up) /\ ends[x] \notin Unsub
<1>1. Effects(i, n, cn, outs, failed)
  BY HandlesEffects DEF IInv
<1>2. /\ net[x].up \in Seq(Msg) /\ net[x].down \in Seq(Msg)
      /\ UpQueue(net[x].up, ends[x]) /\ DownQueue(net[x].down, ends[x], data[ends[x]])
      /\ Opens(net[x].up) => net[x].down = <<>>
  BY ChannelOf DEF IInv, Channels
<1>3. UpQueue(<<>>, ends[x]) /\ DownQueue(<<>>, ends[x], data[ends[x]]) /\ ~Opens(<<>>)
  BY DEF UpQueue, DownQueue, Opens
<1>4. x = n => net[x][In(i)] # <<>>
  BY DEF Handles, Conns
<1>5. failed \subseteq broken
  BY <1>1 DEF Effects
<1>6. CASE i = Server
  <2> DEFINE u == net[x].up
             d == net[x].down
  <2>1. /\ net'[x].up = IF x \in failed THEN <<>> ELSE IF x = n THEN Tail(u) ELSE u
        /\ net'[x].down = IF x \in DOMAIN outs \ broken THEN Append(d, outs[x]) ELSE d
        /\ x = n => u # <<>>
    BY <1>1, <1>4, <1>6, Sides DEF Effects
  <2>2. x \in DOMAIN outs \ broken =>
          /\ Opens(u) => x = n
          /\ outs[x] \in Msg /\ DownMsg(outs[x], ends[x], data[ends[x]])
          /\ outs[x].op = "init" => x = n /\ Opens(u) /\ outs[x].type = "response" /\ ends[x] \notin Unsub
    BY <1>6 DEF Handles, Says
  <2> HIDE DEF u, d
  <2>3. /\ u \in Seq(Msg) /\ d \in Seq(Msg) /\ UpQueue(u, ends[x])
        /\ DownQueue(d, ends[x], data[ends[x]]) /\ (Opens(u) => d = <<>>)
    BY <1>2 DEF u, d
  <2>4. /\ UpQueue(net'[x].up, ends[x])
        /\ Opens(net'[x].up) => Opens(u) /\ net'[x].up[1] = u[1] /\ x # n
        /\ Opens(u) => Opens(net'[x].up) \/ x = n \/ x \in failed
    <3>1. CASE x \in failed
      BY <1>3, <2>1, <3>1
    <3>2. CASE x \notin failed /\ x = n
      BY <2>1, <2>3, <3>2, UpQueues
    <3>3. CASE x \notin failed /\ x # n
      BY <2>1, <2>3, <3>3
    <3> QED BY <3>1, <3>2, <3>3
  <2>5. /\ DownQueue(net'[x].down, ends[x], data[ends[x]])
        /\ Opens(net'[x].down) => Opens(d) \/ (x = n /\ Opens(u) /\ ends[x] \notin Unsub)
    BY SMTT(60), <2>1, <2>2, <2>3, DownQueues
  <2>6. Opens(net'[x].up) => net'[x].down = <<>>
    BY <2>1, <2>2, <2>3, <2>4
  <2> QED BY <1>6, <2>4, <2>5, <2>6 DEF u, d
<1>7. CASE i # Server
  <2> DEFINE u == net[x].up
             d == net[x].down
  <2>1. /\ net'[x].down = IF x \in failed THEN <<>> ELSE IF x = n THEN Tail(d) ELSE d
        /\ net'[x].up = IF x \in DOMAIN outs \ broken THEN Append(u, outs[x]) ELSE u
        /\ x = n => d # <<>>
    BY <1>1, <1>4, <1>7, Sides DEF Effects
  <2>2. x \in DOMAIN outs \ broken => outs[x] \in Msg /\ UpMsg(outs[x], ends[x]) /\ outs[x].op # "init"
    <3>1. x \in DOMAIN outs => x \in DOMAIN conn[i]
      BY DEF Handles, Flags
    <3>2. x \in DOMAIN conn[i] => ends[x] = i
      BY <1>7 DEF IInv, Connected, Instance
    <3> QED BY <1>7, <3>1, <3>2 DEF Handles, Says
  <2> HIDE DEF u, d
  <2>3. /\ u \in Seq(Msg) /\ d \in Seq(Msg) /\ UpQueue(u, ends[x])
        /\ DownQueue(d, ends[x], data[ends[x]]) /\ (Opens(u) => d = <<>>)
    BY <1>2 DEF u, d
  <2>4. /\ UpQueue(net'[x].up, ends[x])
        /\ Opens(net'[x].up) => Opens(u) /\ net'[x].up[1] = u[1]
    <3>1. CASE x \in DOMAIN outs \ broken
      <4> DEFINE v == Append(u, outs[x])
      <4>1. outs[x] \in Msg /\ UpMsg(outs[x], ends[x]) /\ outs[x].op # "init"
        BY <2>2, <3>1
      <4>2. UpQueue(v, ends[x]) /\ (Opens(v) => Opens(u) /\ v[1] = u[1])
        BY <2>3, <4>1, UpQueues
      <4>3. net'[x].up = v
        BY <2>1, <3>1
      <4> HIDE DEF v
      <4> QED BY <4>2, <4>3
    <3>2. CASE x \notin DOMAIN outs \ broken
      BY <2>1, <2>3, <3>2
    <3> QED BY <3>1, <3>2
  <2>5. Opens(u) => Opens(net'[x].up)
    <3>1. ASSUME Opens(u), NEW m \in Msg PROVE Opens(Append(u, m))
      BY <2>3, <3>1, Queues DEF Opens
    <3> QED BY <2>1, <2>2, <3>1
  <2>6. /\ DownQueue(net'[x].down, ends[x], data[ends[x]])
        /\ Opens(net'[x].down) => Opens(d) /\ x # n
    BY <1>3, <2>1, <2>3, DownQueues
  <2>7. ASSUME Opens(net'[x].up) PROVE net'[x].down = <<>>
    <3>1. d = <<>>
      BY <2>3, <2>4, <2>7
    <3> QED BY <2>1, <3>1
  <2> QED BY <1>7, <2>4, <2>5, <2>6, <2>7 DEF u, d
<1> QED BY <1>6, <1>7

\* the flags of the server's ends follow INIT,
LEMMA AcceptedKeeps ==
  ASSUME IInv, NEW i \in Instance, NEW n, NEW cn, NEW outs, NEW failed,
         Handles(i, n, cn, outs, failed)
  PROVE  Accepted'
<1>1. Effects(i, n, cn, outs, failed)
  BY HandlesEffects DEF IInv
<1>2. UNCHANGED <<ends, backlog, broken>> /\ Flags(i, n, cn) /\ DOMAIN outs \subseteq DOMAIN cn
  BY DEF Handles
<1>3. Accepted /\ DOMAIN conn[Server] \subseteq Conns /\ Server \in Instance
  BY DEF IInv, Connected, Instance
<1>4. ASSUME NEW x \in Conns, x \in DOMAIN conn'[Server]
      PROVE  /\ x \in DOMAIN conn[Server]
             /\ conn'[Server][x].status = "cond_client"
             /\ conn'[Server][x].writable = (ends[x] \in Writable /\ ~Opens(net'[x].up))
             /\ conn'[Server][x].unsub = (ends[x] \in Unsub \/ Opens(net'[x].up))
  <2>1. CASE i # Server
    <3>1. conn'[Server] = conn[Server]
      BY <1>1, <1>3, <2>1 DEF Effects
    <3>2. Opens(net'[x].up) <=> Opens(net[x].up)
      BY <2>1, QueueSteps
    <3> QED BY <1>3, <1>4, <3>1, <3>2 DEF Accepted
  <2>2. CASE i = Server
    <3>1. /\ x \in DOMAIN cn /\ x \notin failed /\ x \in DOMAIN conn[Server]
          /\ conn'[Server][x].status = cn[x].status
          /\ conn'[Server][x].writable = cn[x].writable /\ conn'[Server][x].unsub = cn[x].unsub
      BY <1>1, <1>2, <1>4, <2>2 DEF Effects, Flags
    <3>2. /\ conn[Server][x].status = "cond_client"
          /\ conn[Server][x].writable = (ends[x] \in Writable /\ ~Opens(net[x].up))
          /\ conn[Server][x].unsub = (ends[x] \in Unsub \/ Opens(net[x].up))
      BY <1>3, <3>1 DEF Accepted
    <3>3. CASE x = n
      <4>1. ~Opens(net'[x].up)
        BY <2>2, <3>3, QueueSteps
      <4> QED BY <1>2, <2>2, <3>1, <3>2, <3>3, <4>1 DEF Flags
    <3>4. CASE x # n
      <4>1. Opens(net'[x].up) <=> Opens(net[x].up)
        BY <2>2, <3>1, <3>4, QueueSteps
      <4> QED BY <1>2, <2>2, <3>1, <3>2, <3>4, <4>1 DEF Flags
    <3> QED BY <3>3, <3>4
  <2> QED BY <2>1, <2>2
<1>5. DOMAIN conn'[Server] \subseteq DOMAIN conn[Server] /\ DOMAIN conn[Server] \ DOMAIN conn'[Server] \subseteq broken
  <2>1. CASE i # Server
    BY <1>1, <1>3, <2>1 DEF Effects
  <2>2. CASE i = Server
    BY <1>1, <1>2, <2>2 DEF Effects, Flags
  <2> QED BY <2>1, <2>2
<1>6. ASSUME NEW j \in 1..Len(backlog) PROVE Opens(net'[backlog[j]].up)
  <2>1. backlog[j] \in Conns \ DOMAIN conn[Server] /\ Opens(net[backlog[j]].up)
    BY <1>3 DEF Accepted
  <2>2. i = Server => backlog[j] \notin {n} \cup failed
    <3>1. i = Server => failed \subseteq DOMAIN conn[Server] /\ n \in DOMAIN conn[Server] \cup {0}
      BY <1>1, <1>2 DEF Effects, Flags, Handles
    <3> QED BY <2>1, <3>1 DEF Conns
  <2> QED BY <2>1, <2>2, QueueSteps
<1> QED BY <1>2, <1>3, <1>4, <1>5, <1>6 DEF Accepted, Conns

\* A client that writes calls nothing while the answer to its INIT is awaited; a
\* client that hears something has had its INIT read.
LEMMA AnswerAwaited ==
  ASSUME Usage, IInv, NEW i \in Instance, NEW n, NEW cn, NEW outs, NEW failed,
         Handles(i, n, cn, outs, failed), NEW x \in Conns, ends[x] = i
  PROVE  /\ n = 0 /\ i \in Writable =>
              ~Opens(net[x].down) /\ (i \notin Unsub => ~Opens(net[x].up))
         /\ n # 0 => /\ n \in Conns /\ ends[n] = i /\ ~Opens(net[n].up)
                     /\ i \notin Fragile => x = n
<1>1. i # Server /\ i \in Client
  BY ChannelOf DEF IInv
<1>2. ASSUME n = 0, i \in Writable
      PROVE  ~Opens(net[x].down) /\ (i \notin Unsub => ~Opens(net[x].up))
  <2>1. wait[i] = <<>>
    BY <1>2 DEF Handles
  <2>2. Opens(net[x].down) => i \notin Unsub
    <3>1. net[x].down # <<>> => 1 \in 1..Len(net[x].down)
      BY ChannelOf, Queues DEF IInv
    <3> QED BY <3>1 DEF Opens, IInv, Channels, DownQueue
  <2> QED BY <1>2, <2>1, <2>2 DEF IInv, Waiting
<1>3. ASSUME n # 0
      PROVE  n \in Conns /\ ends[n] = i /\ ~Opens(net[n].up) /\ (i \notin Fragile => x = n)
  <2>1. n \in DOMAIN conn[i] /\ net[n].down # <<>>
    BY <1>1, <1>3, Sides DEF Handles
  <2>2. n \in Conns /\ ends[n] = i
    BY <1>1, <2>1 DEF IInv, Connected
  <2> QED BY <2>1, <2>2 DEF IInv, Channels, Connected
<1> QED BY <1>2, <1>3

\* the queues hold what may be said, of what the clients hold after the handler,
LEMMA ChannelsKeep ==
  ASSUME Usage, IInv, NEW i \in Instance, NEW n, NEW cn, NEW outs, NEW failed,
         Handles(i, n, cn, outs, failed)
  PROVE  Channels'
<1>1. UNCHANGED <<ends, backlog, broken>> /\ data' = [data EXCEPT ![i] = data'[i]]
  BY DEF Handles, Updates
<1>2. Effects(i, n, cn, outs, failed)
  BY HandlesEffects DEF IInv
<1>3. ASSUME NEW x \in Conns PROVE DownQueue(net'[x].down, ends[x], data'[ends[x]])
  <2>1. DownQueue(net'[x].down, ends[x], data[ends[x]]) /\ net'[x].down \in Seq(Msg)
    <3>1. net'[x] \in Channel
      BY <1>2, ElementOfSeq DEF Effects, Conns
    <3> QED BY <3>1, QueueSteps DEF Channel
  <2>2. CASE ends[x] # i
    BY <1>1, <2>1, <2>2, ChannelOf DEF IInv, Typed
  <2>3. CASE ends[x] = i
    <3>1. i # Server /\ i \in Client
      BY <2>3, ChannelOf DEF IInv
    <3>2. \/ ~Opens(net'[x].down)
          \/ \A k \in Key : i \in Writer[k] => data'[i][k].val = data[i][k].val
      <4>1. CASE n = 0 /\ i \in Writable
        BY <2>3, <3>1, <4>1, AnswerAwaited, QueueSteps
      <4>2. CASE i \notin Writable
        BY <3>1, <4>2, Writers
      <4>3. CASE n # 0
        <5>1. \A k \in Key : i \in Writer[k] => data'[i][k] = data[i][k]
          BY <4>3, DataSteps
        <5> QED BY <5>1
      <4> QED BY <4>1, <4>2, <4>3
    <3> QED BY ZenonT(60), <2>1, <2>3, <3>2, DownQueues
  <2> QED BY <2>2, <2>3
<1> QED BY <1>1, <1>3, QueueSteps DEF Channels, Conns

\* a client that writes waits for the answer to its INIT,
LEMMA WaitingKeeps ==
  ASSUME Usage, IInv, NEW i \in Instance, NEW n, NEW cn, NEW outs, NEW failed,
         Handles(i, n, cn, outs, failed)
  PROVE  Waiting'
<1>1. UNCHANGED <<ends, backlog, broken>> /\ data' = [data EXCEPT ![i] = data'[i]]
      /\ \A j \in Instance \ {i} : wait'[j] = wait[j]
  BY DEF Handles, Updates
<1>2. SUFFICES ASSUME NEW x \in Conns, ends[x] \in Writable \ Unsub,
                      Opens(net'[x].up) \/ Opens(net'[x].down)
               PROVE  /\ wait'[ends[x]] # <<>>
                      /\ wait'[ends[x]][Len(wait'[ends[x]])].kind = "init"
                      /\ Opens(net'[x].up) => net'[x].up[1].data = Dump(data'[ends[x]])
  BY <1>1 DEF Waiting, Conns
<1>3. CASE ends[x] = i
  <2>1. i # Server /\ i \in Client /\ i \notin Fragile
    BY <1>2, <1>3, ChannelOf DEF IInv, Usage
  <2>2. Opens(net[x].up) \/ (Opens(net[x].down) /\ x # n)
    BY <1>2, <2>1, QueueSteps
  <2>3. n # 0
    BY <1>2, <1>3, <2>2, AnswerAwaited
  <2>4. x = n /\ ~Opens(net[x].up)
    BY <1>3, <2>1, <2>3, AnswerAwaited
  <2> QED BY <2>2, <2>4
<1>4. CASE ends[x] # i
  <2>1. data'[ends[x]] = data[ends[x]] /\ wait'[ends[x]] = wait[ends[x]]
    BY <1>1, <1>4, ChannelOf DEF IInv, Typed
  <2>2. Opens(net[x].up) \/ Opens(net[x].down)
    BY <1>2, QueueSteps
  <2> QED BY <1>2, <2>1, <2>2, QueueSteps DEF IInv, Waiting
<1> QED BY <1>3, <1>4

\* neither end has data of the other before INIT is read,
LEMMA FreshKeeps ==
  ASSUME Usage, IInv, NEW i \in Instance, NEW n, NEW cn, NEW outs, NEW failed,
         Handles(i, n, cn, outs, failed)
  PROVE  Fresh'
<1>1. UNCHANGED <<ends, backlog, broken>> /\ data' = [data EXCEPT ![i] = data'[i]]
  BY DEF Handles, Updates
<1>2. ASSUME NEW c \in Client, NEW k \in Key,
             \A x \in Conns : ends[x] = c => Opens(net'[x].up) /\ c \notin Fragile
      PROVE  c \in Writer[k] \/ data'[c][k].val = 0
  <2>1. \A x \in Conns : ends[x] = c => Opens(net[x].up) /\ c \notin Fragile
    BY <1>2, QueueSteps
  <2>2. c \in Writer[k] \/ data[c][k].val = 0
    BY <2>1 DEF IInv, Fresh
  <2>3. CASE c # i \/ data'[i][k] = data[i][k]
    BY <1>1, <2>2, <2>3, InstanceAssumption DEF IInv, Typed, Instance
  <2>4. CASE c = i /\ n # 0
    <3>1. n \in Conns /\ ends[n] = i
      BY <2>4, InstanceAssumption DEF Handles, IInv, Connected
    <3> QED BY <2>1, <2>4, <3>1, AnswerAwaited
  <2>5. CASE c = i /\ n = 0 /\ data'[i][k] # data[i][k]
    BY <2>5, DataSteps
  <2> QED BY <2>3, <2>4, <2>5
<1>3. ASSUME NEW c \in Client, NEW k \in Key, \A x \in Conns : ends[x] = c => Opens(net'[x].up),
             c \in Writer[k]
      PROVE  data'[Server][k].val = 0
  <2>1. \A x \in Conns : ends[x] = c => Opens(net[x].up) /\ (i = Server => x # n)
    BY <1>3, QueueSteps
  <2>2. data[Server][k].val = 0 /\ Server \in Instance /\ Server \notin Writer[k]
    BY <1>3, <2>1, Writers DEF IInv, Fresh
  <2>3. CASE i # Server \/ data'[i][k] = data[i][k]
    BY <1>1, <2>2, <2>3 DEF IInv, Typed
  <2>4. CASE i = Server /\ data'[i][k] # data[i][k]
    <3>1. n # 0 /\ k \in DOMAIN net[n].up[1].data
      BY <2>2, <2>4, DataSteps, Sides
    <3>2. n \in Conns /\ net[n].up # <<>>
      BY <2>4, <3>1, Sides DEF Handles, IInv, Connected
    <3>3. ends[n] \in Writer[k]
      <4>1. 1 \in 1..Len(net[n].up)
        BY <3>2, ChannelOf, Queues DEF IInv
      <4> QED BY <3>1, <3>2, <4>1 DEF IInv, Channels, UpQueue, UpMsg
    <3> QED BY <1>3, <2>1, <2>4, <3>2, <3>3, Writers
  <2> QED BY <2>3, <2>4
<1> QED BY <1>1, <1>2, <1>3 DEF Fresh, Conns

\* and values come from where their origin says.
LEMMA OriginsKeep ==
  ASSUME Usage, IInv, NEW i \in Instance, NEW n, NEW cn, NEW outs, NEW failed,
         Handles(i, n, cn, outs, failed)
  PROVE  Origins'
<1>1. UNCHANGED <<ends, backlog, broken>> /\ data' = [data EXCEPT ![i] = data'[i]]
  BY DEF Handles, Updates
<1>2. SUFFICES ASSUME NEW j \in Instance, NEW k \in Key
               PROVE  /\ j \in Writer[k] => data'[j][k].origin = 0
                      /\ data'[j][k].val # 0 => Home(j, k, data'[j][k].origin)
  BY <1>1 DEF Origins, Home, Conns
<1>3. CASE data'[j][k] = data[j][k]
  BY <1>3 DEF IInv, Origins
<1>4. CASE data'[j][k] # data[j][k]
  <2>1. j = i
    BY <1>1, <1>4 DEF IInv, Typed
  <2>2. CASE n = 0
    BY <1>4, <2>1, <2>2, DataSteps DEF Home
  <2>3. CASE n # 0
    <3>1. /\ i \notin Writer[k] /\ k \in DOMAIN net[n][In(i)][1].data
          /\ data'[i][k] = Absent \/ data'[i][k].origin = n
      BY <1>4, <2>1, <2>3, DataSteps
    <3>2. n \in Conns /\ net[n][In(i)] # <<>>
      BY <2>3 DEF Handles, IInv, Connected
    <3>3. i = Server => ends[n] \in Writer[k]
      <4>1. 1 \in 1..Len(net[n].up) \/ net[n].up = <<>>
        BY <3>2, ChannelOf, Queues DEF IInv
      <4> QED BY <3>1, <3>2, <4>1, Sides DEF IInv, Channels, UpQueue, UpMsg
    <3>4. i # Server => ends[n] = i
      BY <2>3, Writers DEF Handles, IInv, Connected
    <3>5. Home(i, k, n)
      BY <2>3, <3>1, <3>2, <3>3, <3>4 DEF Home
    <3> QED BY <2>1, <3>1, <3>5 DEF Absent
  <2> QED BY <2>2, <2>3
<1> QED BY <1>3, <1>4

\* INIT is read once.
LEMMA HeardGrows ==
  ASSUME IInv, NEW i \in Instance, NEW n, NEW cn, NEW outs, NEW failed,
         Handles(i, n, cn, outs, failed)
  PROVE  /\ Heard \subseteq Heard'
         /\ \A j, ev : RelayTable(j, ev, Heard) => RelayTable(j, ev, Heard')
<1>1. Heard \subseteq Heard'
  BY QueueSteps DEF Handles, Heard, Conns
<1> QED BY <1>1 DEF RelayTable

\* All of it: a handler keeps the invariant.
LEMMA HandlesKeeps ==
  ASSUME Usage, IInv, NEW i \in Instance, NEW n, NEW cn, NEW outs, NEW failed,
         Handles(i, n, cn, outs, failed)
  PROVE  IInv'
<1>1. Relays'
  BY HeardGrows DEF Relays, Handles, Tabled
<1> QED BY <1>1, TypedKeeps, ConnectedKeeps, AcceptedKeeps, ChannelsKeep, WaitingKeeps,
           FreshKeeps, OriginsKeep DEF IInv

-----------------------------------------------------------------------------
(***************************************************************************)
(* The tables of events.                                                   *)
(***************************************************************************)

\* A relay table stays one when the events of a call or of a relayed request are added,
LEMMA TableAdds ==
  ASSUME NEW i, NEW heard, NEW ev, RelayTable(i, ev, heard), NEW p \in Int \X Nat, NEW kids,
         p[1] > 0 => i = Server /\ p[1] \in heard /\ \A x \in kids : x[1] # p[1]
  PROVE  RelayTable(i, AddEvents(ev, p, kids), heard)
<1> DEFINE new == AddEvents(ev, p, kids)
<1>1. NoId \in Int \X Nat /\ ~(NoId[1] > 0)
  BY DEF NoId
<1>2. DOMAIN new = DOMAIN ev \cup {p} \cup kids
  BY DEF AddEvents
<1>3. ASSUME NEW x \in DOMAIN new
      PROVE  /\ "pid" \in DOMAIN new[x] /\ new[x].pid \in Int \X Nat
             /\ new[x].pid[1] > 0 => i = Server /\ new[x].pid[1] # x[1] /\ new[x].pid[1] \in heard
  <2>1. CASE x = p
    <3>1. new[x] = Record(NoId, Cardinality(kids))
      BY <2>1 DEF AddEvents
    <3> QED BY <1>1, <3>1 DEF Record
  <2>2. CASE x # p /\ x \in kids
    <3>1. new[x] = Record(p, 0)
      BY <2>2 DEF AddEvents
    <3> QED BY <2>2, <3>1 DEF Record
  <2>3. CASE x # p /\ x \notin kids
    <3>1. new[x] = ev[x] /\ x \in DOMAIN ev
      BY <1>2, <2>3 DEF AddEvents
    <3> QED BY <3>1 DEF RelayTable
  <2> QED BY <2>1, <2>2, <2>3
<1> HIDE DEF new
<1>4. RelayTable(i, new, heard)
  BY <1>3 DEF RelayTable
<1> QED BY <1>4 DEF new

\* events are removed,
LEMMA TableRemoves ==
  ASSUME NEW i, NEW heard, NEW ev, RelayTable(i, ev, heard), NEW ids
  PROVE  RelayTable(i, RemoveEvents(ev, ids), heard)
BY DEF RelayTable, RemoveEvents

\* and when an answer or a timer resets one.
LEMMA TableResets ==
  ASSUME NEW i, NEW heard, NEW ev, RelayTable(i, ev, heard), NEW id, NEW expired
  PROVE  RelayTable(i, Reset(ev, id, expired).table, heard)
<1>1. CASE id \notin DOMAIN ev
  BY <1>1 DEF Reset
<1>2. CASE id \in DOMAIN ev /\ (expired \/ ev[id].pid = NoId)
  BY <1>2, TableRemoves DEF Reset
<1>3. CASE id \in DOMAIN ev /\ ~(expired \/ ev[id].pid = NoId)
  <2> DEFINE p    == ev[id].pid
             rest == RemoveEvents(ev, {id})
             less == [rest EXCEPT ![p].cevents = @ - 1]
  <2>1. Reset(ev, id, expired) = CountAnswer(ev, id)
    BY <1>3 DEF Reset
  <2>2. RelayTable(i, rest, heard) /\ RelayTable(i, RemoveEvents(rest, {p}), heard)
    <3>1. RelayTable(i, rest, heard)
      BY TableRemoves
    <3> HIDE DEF rest
    <3> QED BY <3>1, TableRemoves
  <2>3. p \in DOMAIN rest => RelayTable(i, less, heard)
    <3> HIDE DEF rest, p
    <3>1. SUFFICES ASSUME p \in DOMAIN rest PROVE RelayTable(i, less, heard)
      OBVIOUS
    <3>2. DOMAIN less = DOMAIN rest
      OBVIOUS
    <3>3. ASSUME NEW x \in DOMAIN rest
          PROVE  DOMAIN less[x] = DOMAIN rest[x] /\ less[x].pid = rest[x].pid
      BY <2>2, <3>1, <3>3 DEF RelayTable
    <3> HIDE DEF less
    <3> QED BY <2>2, <3>2, <3>3 DEF RelayTable
  <2>4. CountAnswer(ev, id).table \in {rest, RemoveEvents(rest, {p}), less}
        /\ (CountAnswer(ev, id).table = less => p \in DOMAIN rest \/ less = rest)
    BY DEF CountAnswer
  <2> HIDE DEF p, rest, less
  <2> QED BY <2>1, <2>2, <2>3, <2>4
<1> QED BY <1>1, <1>2, <1>3

-----------------------------------------------------------------------------
(***************************************************************************)
(* What the handlers say.                                                  *)
(***************************************************************************)

\* The message a handler takes.
LEMMA Taking ==
  ASSUME IInv, NEW i \in Instance, NEW n \in DOMAIN conn[i], net[n][In(i)] # <<>>
  PROVE  /\ n \in Conns /\ n \in Nat \ {0}
         /\ Received(i, n) = net[n][In(i)][1]
         /\ Received(i, n) \in Msg /\ Received(i, n).data \in Payload
         /\ i = Server => /\ UpMsg(Received(i, n), ends[n])
                          /\ Received(i, n).op = "init" <=> Opens(net[n].up)
                          /\ Received(i, n).op = "init" =>
                               Received(i, n).type = IF ends[n] \in Unsub THEN "publish" ELSE "request"
         /\ i # Server => ends[n] = i /\ i \in Client /\ DownMsg(Received(i, n), i, data[i])
<1>1. n \in Conns /\ n \in Nat \ {0}
  BY DEF IInv, Connected, Conns
<1>2. net[n] \in Channel /\ net[n].up \in Seq(Msg) /\ net[n].down \in Seq(Msg)
      /\ net[n][In(i)] \in Seq(Msg)
  BY <1>1, ChannelOf, ChannelQueues, Sides DEF IInv
<1>3. /\ Received(i, n) = net[n][In(i)][1] /\ Received(i, n) \in Msg
      /\ 1 \in 1..Len(net[n][In(i)])
  BY <1>2, Queues DEF Received
<1>4. Received(i, n).data \in Payload
  BY <1>3 DEF Msg
<1>5. CASE i = Server
  BY <1>1, <1>3, <1>4, <1>5, Sides DEF IInv, Channels, UpQueue, Opens
<1>6. CASE i # Server
  <2>1. ends[n] = i /\ i \in Client
    BY <1>6 DEF IInv, Connected, Instance
  <2> QED BY <1>1, <1>3, <1>4, <1>6, <2>1, Sides DEF IInv, Channels, DownQueue
<1> QED BY <1>5, <1>6

\* The connections it goes on to: the server's to clients whose INIT it has read, the
\* one of a client if nothing came by it.
LEMMA Targets ==
  ASSUME IInv, NEW i \in Instance, NEW n, NEW cn, Flags(i, n, cn), NEW except,
         NEW x \in PubTargets(cn, except) \cup SyncTargets(cn, except)
  PROVE  /\ x \in DOMAIN cn /\ x \notin except /\ x \in Conns
         /\ i = Server => (Opens(net[x].up) => x = n)
         /\ i # Server => ends[x] = i /\ (n # 0 => n \notin except \cap DOMAIN conn[i])
<1>1. x \in DOMAIN cn /\ x \notin except /\ x \in DOMAIN conn[i] /\ x \in Conns
  BY DEF PubTargets, SyncTargets, Flags, IInv, Connected
<1>2. ASSUME i = Server, Opens(net[x].up), x # n PROVE FALSE
  <2>1. /\ cn[x].status = "cond_client"
        /\ cn[x].writable = FALSE /\ cn[x].unsub = TRUE
    BY ZenonT(60), <1>1, <1>2 DEF Flags, IInv, Accepted
  <2> QED BY <2>1 DEF PubTargets, SyncTargets
<1>3. ASSUME i # Server PROVE ends[x] = i /\ (n # 0 => n \notin except \cap DOMAIN conn[i])
  BY <1>1, <1>3 DEF IInv, Connected, Instance
<1> QED BY <1>1, <1>2, <1>3

\* Messages are well formed.
Worded(outs) == \A x \in DOMAIN outs : outs[x] \in Msg

\* What may be published: changes of a writer of its own, or changes that came by a
\* connection that they are not sent back to.
Entitled(i, n, except, pl) ==
  IF n = 0 THEN \A k \in DOMAIN pl : i \in Writer[k]
  ELSE /\ n \in DOMAIN conn[i] /\ n \in except
       /\ i = Server => \A k \in DOMAIN pl : ends[n] \in Writer[k]

\* What is published may be said.
LEMMA Publishes ==
  ASSUME Usage, IInv, NEW i \in Instance, NEW n, NEW cn, Flags(i, n, cn), NEW except,
         NEW op \in {"merge", "delete"}, NEW pl \in Payload, Entitled(i, n, except, pl),
         NEW outs, outs = Publishing(cn, except, op, pl)
  PROVE  DOMAIN outs \subseteq DOMAIN cn \ except /\ Worded(outs) /\ Says(i, n, outs)
<1> DEFINE m == Message("publish", op, 0, pl)
<1>0. /\ n = 0 => \A k \in DOMAIN pl : i \in Writer[k]
      /\ n # 0 => n \in DOMAIN conn[i] /\ n \in except
      /\ n # 0 /\ i = Server => \A k \in DOMAIN pl : ends[n] \in Writer[k]
  BY DEF Entitled
<1>1. DOMAIN outs \subseteq PubTargets(cn, except) /\ \A x \in DOMAIN outs : outs[x] = m
  BY DEF Publishing
<1>2. m \in Msg /\ m.op = op /\ m.type = "publish" /\ m.data = pl
  BY DEF Message, Msg
<1>3. \A k \in DOMAIN pl : k \in Key
  BY Payloads
<1> HIDE DEF m
<1>4. ASSUME NEW x \in DOMAIN outs, i = Server
      PROVE  (Opens(net[x].up) => x = n) /\ DownMsg(m, ends[x], data[ends[x]])
  <2>1. x \in Conns /\ x \notin except /\ (Opens(net[x].up) => x = n)
    BY <1>1, <1>4, Targets
  <2>2. ASSUME NEW k \in DOMAIN pl PROVE ends[x] \notin Writer[k]
    <3>1. ends[x] # Server
      BY <2>1, ChannelOf DEF IInv
    <3>2. CASE n = 0
      BY <1>0, <1>3, <1>4, <2>2, <3>1, <3>2, Writers
    <3>3. CASE n # 0
      <4>1. ends[n] \in Writer[k] /\ n \in Conns /\ n \in except
        BY <1>0, <1>4, <2>2, <3>3 DEF IInv, Connected
      <4>2. ends[n] \notin Fragile
        BY <1>3, <4>1, ChannelOf, Writers DEF IInv
      <4> QED BY <1>3, <2>1, <4>1, <4>2, Writers DEF IInv, Connected
    <3> QED BY <3>2, <3>3
  <2> QED BY <1>2, <2>1, <2>2 DEF DownMsg
<1>5. ASSUME NEW x \in DOMAIN outs, i # Server PROVE UpMsg(m, i)
  <2>1. n # 0 => n \notin except \cap DOMAIN conn[i]
    BY <1>0, <1>1, <1>5, Targets
  <2>2. n \in DOMAIN conn[i] => n \in except \/ n = 0
    BY <1>0
  <2> QED BY <1>0, <1>2, <2>1, <2>2 DEF UpMsg
<1>6. DOMAIN outs \subseteq DOMAIN cn \ except
  BY <1>1, Targets
<1>7. Says(i, n, outs)
  BY <1>1, <1>2, <1>4, <1>5 DEF Says
<1> QED BY <1>1, <1>2, <1>6, <1>7 DEF Worded

\* Two sets of messages that may be said may be said together.
LEMMA SaysBoth ==
  ASSUME NEW i, NEW n, NEW f, NEW g, Says(i, n, f), Says(i, n, g), NEW D,
         DOMAIN f \subseteq D, DOMAIN g \subseteq D,
         \A x \in DOMAIN f : f[x] \in Msg, \A x \in DOMAIN g : g[x] \in Msg
  PROVE  /\ DOMAIN Both(f, g) \subseteq D /\ (\A x \in DOMAIN Both(f, g) : Both(f, g)[x] \in Msg)
         /\ Says(i, n, Both(f, g))
<1> DEFINE b == Both(f, g)
<1>1. /\ DOMAIN b = DOMAIN f \cup DOMAIN g
      /\ \A x \in DOMAIN b : b[x] = IF x \in DOMAIN f THEN f[x] ELSE g[x]
  BY DEF Both
<1> HIDE DEF b
<1>2. Says(i, n, b)
  BY <1>1 DEF Says
<1>3. \A x \in DOMAIN b : b[x] \in Msg
  BY <1>1
<1> QED BY <1>1, <1>2, <1>3 DEF b

\* Only INIT changes the flags.
LEMMA OwnTable ==
  ASSUME IInv, NEW i \in Instance, NEW n, i = Server => n = 0 \/ ~Opens(net[n].up)
  PROVE  Flags(i, n, conn[i]) /\ conn[i] \in Table /\ 0 \notin DOMAIN conn[i]
<1>1. conn[i] \in Table /\ DOMAIN conn[i] \subseteq Conns
  BY DEF IInv, Typed, Connected
<1> QED BY <1>1 DEF Flags, Conns

\* What is left alone, for the handlers that leave it alone.
LEMMA Steady ==
  ASSUME IInv
  PROVE  /\ wait \in [Instance -> Seq(Call)] /\ event = [j \in Instance |-> event[j]]
         /\ rootseq \in [Instance -> Nat] /\ nval \in [Key -> Nat]
         /\ spent \in Spent
         /\ data \in [Instance -> Leaves] /\ NoData \in Payload /\ DOMAIN NoData = {}
         /\ \A j \in Instance : RelayTable(j, event[j], Heard)
<1>1. NoData \in [{} -> Nat] /\ DOMAIN NoData = {}
  BY DEF NoData
<1> QED BY <1>1, Payloads DEF IInv, Typed, Relays

\* The log has no keys but those of the message.
LEMMA LogOf ==
  ASSUME NEW d \in Leaves, NEW pl \in Payload, NEW op
  PROVE  Log(d, op, pl) \in Payload /\ DOMAIN Log(d, op, pl) \subseteq DOMAIN pl
<1>1. DOMAIN Log(d, op, pl) \subseteq DOMAIN pl
  BY DEF Log, Deleted, Changed
<1>2. 0 \in Nat
  OBVIOUS
<1> QED BY <1>1, <1>2, BlockOps

\* The log has what changed, as it is then.
LEMMA LogTells ==
  ASSUME NEW d \in Leaves, NEW pl \in Payload, NEW op, NEW o, NEW e, e = Apply(d, op, o, pl)
  PROVE  /\ \A k \in DOMAIN Log(d, op, pl) :
              (IF op = "delete" THEN 0 ELSE Log(d, op, pl)[k]) = e[k].val
         /\ \A k \in Key : e[k].val # d[k].val => k \in DOMAIN Log(d, op, pl)
<1>1. DOMAIN pl \subseteq Key
  BY Payloads
<1>2. CASE op = "delete"
  <2>1. e = Erase(d, pl) /\ DOMAIN Log(d, op, pl) = Deleted(d, pl)
    BY <1>2 DEF Apply, Log
  <2> QED BY <1>1, <1>2, <2>1 DEF Erase, Deleted, Present, Absent
<1>3. CASE op # "delete"
  <2>1. e = Merge(d, o, pl) /\ DOMAIN Log(d, op, pl) = Changed(d, pl)
        /\ \A k \in Changed(d, pl) : Log(d, op, pl)[k] = pl[k]
    BY <1>3 DEF Apply, Log
  <2>2. ASSUME NEW k \in Changed(d, pl) PROVE k \in Key /\ e[k].val = pl[k]
    BY <1>1, <2>1, <2>2 DEF Merge, Changed
  <2>3. ASSUME NEW k \in Key, k \notin Changed(d, pl) PROVE e[k].val = d[k].val
    <3>1. d[k] \in [val : Nat, origin : Nat]
      BY DEF Leaves
    <3> QED BY <2>1, <2>3, <3>1 DEF Merge
  <2> QED BY <1>3, <2>1, <2>2, <2>3
<1> QED BY <1>2, <1>3

\* A publication says so to all subscribers.
LEMMA PublishTells ==
  ASSUME NEW d \in Leaves, NEW pl \in Payload, NEW op, NEW o, NEW e, e = Apply(d, op, o, pl),
         NEW cn, NEW except, NEW outs, outs = Publishing(cn, except, op, Log(d, op, pl))
  PROVE  /\ \A x \in DOMAIN outs :
              outs[x].op = op /\ \A k \in DOMAIN outs[x].data : Val(outs[x], k) = e[k].val
         /\ \A k \in Key : e[k].val # d[k].val =>
              \A x \in PubTargets(cn, except) : x \in DOMAIN outs /\ k \in DOMAIN outs[x].data
<1> DEFINE log == Log(d, op, pl)
           m   == Message("publish", op, 0, log)
<1>1. /\ \A k \in DOMAIN log : (IF op = "delete" THEN 0 ELSE log[k]) = e[k].val
      /\ \A k \in Key : e[k].val # d[k].val => k \in DOMAIN log
  BY LogTells
<1>2. /\ \A x \in DOMAIN outs : outs[x] = m
      /\ DOMAIN log # {} => DOMAIN outs = PubTargets(cn, except)
  BY DEF Publishing
<1>3. m.op = op /\ m.data = log
  BY DEF Message
<1> HIDE DEF m, log
<1> QED BY <1>1, <1>2, <1>3 DEF Val

\* What is sent are the answers and the publications.
Joins(outs, ans, pub) ==
  /\ DOMAIN outs = DOMAIN ans \cup DOMAIN pub
  /\ \A x \in DOMAIN outs : outs[x] = IF x \in DOMAIN ans THEN ans[x] ELSE pub[x]

\* Publications have no number that matters; messages keep theirs when they are joined.
LEMMA PublishStamps ==
  ASSUME NEW i, NEW n, NEW cn, NEW e, NEW op, NEW log, NEW pub, pub = Publishing(cn, e, op, log)
  PROVE  \A x \in DOMAIN pub : Stamp(i, n, x, pub[x])
<1>1. \A x \in DOMAIN pub : pub[x].type = "publish"
  BY DEF Publishing, Message
<1> QED BY <1>1 DEF Stamp, Answer

LEMMA JoinsStamps ==
  ASSUME NEW i, NEW n, NEW outs, NEW ans, NEW pub, Joins(outs, ans, pub),
         \A x \in DOMAIN ans : Stamp(i, n, x, ans[x]),
         \A x \in DOMAIN pub : Stamp(i, n, x, pub[x])
  PROVE  \A x \in DOMAIN outs : Stamp(i, n, x, outs[x])
<1> SUFFICES ASSUME NEW x \in DOMAIN outs PROVE Stamp(i, n, x, outs[x])
  OBVIOUS
<1>1. outs[x] = IF x \in DOMAIN ans THEN ans[x] ELSE pub[x]
  BY DEF Joins
<1>2. x \in DOMAIN ans \/ x \in DOMAIN pub
  BY DEF Joins
<1> QED BY <1>1, <1>2

\* An answer says what i holds then; one to another connection has all of the payload.
Answers(i, n, pl, ans) ==
  \A x \in DOMAIN ans :
    /\ ans[x].op # "delete"
    /\ \A k \in DOMAIN ans[x].data : ans[x].data[k] = data'[i][k].val
    /\ x # n => DOMAIN pl \subseteq DOMAIN ans[x].data

\* A handler that answers and publishes tells what it holds.
LEMMA HandlerTells ==
  ASSUME NEW i, NEW n, NEW cn, data[i] \in Leaves, NEW pl \in Payload, NEW op,
         data'[i] = Apply(data[i], op, n, pl),
         op = "delete" => n # 0 /\ net[n][In(i)][1].op = "delete",
         NEW ans, NEW e, n \in e, e \subseteq {n} \cup DOMAIN ans,
         NEW pub, pub = Publishing(cn, e, op, Log(data[i], op, pl)),
         NEW outs, Joins(outs, ans, pub), Answers(i, n, pl, ans)
  PROVE  Tells(i, n, cn, outs)
<1> DEFINE d == data[i]
           f == data'[i]
<1>1. d \in Leaves /\ f = Apply(d, op, n, pl) /\ pub = Publishing(cn, e, op, Log(d, op, pl))
  OBVIOUS
<1> HIDE DEF d, f
<1>2. /\ \A x \in DOMAIN pub : pub[x].op = op /\ \A k \in DOMAIN pub[x].data : Val(pub[x], k) = f[k].val
      /\ \A k \in Key : f[k].val # d[k].val =>
           \A x \in PubTargets(cn, e) : x \in DOMAIN pub /\ k \in DOMAIN pub[x].data
  BY <1>1, PublishTells
<1>3. \A k \in Key : f[k].val # d[k].val => k \in DOMAIN pl
  BY <1>1, LogTells, LogOf
<1>4. ASSUME NEW x \in DOMAIN outs
      PROVE  /\ outs[x].op = "delete" => n # 0 /\ net[n][In(i)][1].op = "delete"
             /\ \A k \in DOMAIN outs[x].data : Val(outs[x], k) = f[k].val
  <2>1. CASE x \in DOMAIN ans
    <3>1. outs[x] = ans[x] /\ ans[x].op # "delete"
      BY <1>4, <2>1 DEF Joins, Answers
    <3>2. \A k \in DOMAIN ans[x].data : ans[x].data[k] = f[k].val
      BY <2>1 DEF f, Answers
    <3> QED BY <3>1, <3>2 DEF Val
  <2>2. CASE x \notin DOMAIN ans
    <3>1. outs[x] = pub[x] /\ x \in DOMAIN pub
      BY <1>4, <2>2 DEF Joins
    <3> QED BY <1>2, <3>1
  <2> QED BY <2>1, <2>2
<1>5. ASSUME NEW k \in Key, f[k].val # d[k].val, NEW x \in PubTargets(cn, {n})
      PROVE  x \in DOMAIN outs /\ k \in DOMAIN outs[x].data
  <2>1. x # n /\ (x \notin e => x \in PubTargets(cn, e))
    BY DEF PubTargets
  <2>2. CASE x \in DOMAIN ans
    <3>1. x \in DOMAIN outs /\ outs[x] = ans[x]
      BY <2>2 DEF Joins
    <3> QED BY <1>3, <1>5, <2>1, <2>2, <3>1 DEF Answers
  <2>3. CASE x \notin DOMAIN ans
    <3>1. x \in PubTargets(cn, e)
      BY <2>1, <2>3
    <3>2. x \in DOMAIN pub /\ k \in DOMAIN pub[x].data
      BY <1>2, <1>5, <3>1
    <3>3. x \in DOMAIN outs /\ outs[x] = pub[x]
      BY <2>3, <3>2 DEF Joins
    <3> QED BY <3>2, <3>3
  <2> QED BY <2>2, <2>3
<1> QED BY <1>4, <1>5 DEF Tells, f, d

\* One more delete, sync, timer or broken connection.
LEMMA Spends ==
  ASSUME IInv, NEW f \in {"delete", "sync", "timer", "break"},
         spent' = spent \/ spent' = [spent EXCEPT ![f] = @ + 1]
  PROVE  /\ spent' \in Spent /\ spent.delete \in Nat
         /\ f # "delete" => spent'.delete = spent.delete
         /\ f = "delete" /\ spent' # spent => spent'.delete = spent.delete + 1 /\ spent'.delete # 0
<1>1. spent \in Spent /\ spent[f] + 1 \in Nat
  BY Steady DEF Spent
<1> DEFINE v == spent[f] + 1
<1>2. spent' = spent \/ spent' = [spent EXCEPT ![f] = v]
  OBVIOUS
<1>3. v \in Nat /\ (f = "delete" => v = spent.delete + 1)
  BY <1>1
<1> HIDE DEF v
<1>4. spent' \in Spent /\ spent.delete \in Nat
  BY <1>1, <1>2, <1>3 DEF Spent
<1>5. f # "delete" => spent'.delete = spent.delete
  BY <1>1, <1>2 DEF Spent
<1>6. f = "delete" /\ spent' # spent => spent'.delete = v
  BY <1>1, <1>2 DEF Spent
<1> QED BY <1>3, <1>4, <1>5, <1>6

\* Handlers that count nothing, and that leave the events alone.
LEMMA StillCounts ==
  ASSUME IInv, NEW i, NEW n, n # 0, UNCHANGED <<nval, spent>>
  PROVE  Counts(i, n)
BY Steady DEF Counts

LEMMA StillTabled ==
  ASSUME IInv, UNCHANGED <<event, rootseq>>
  PROVE  Tabled
BY Steady DEF Tabled

\* The payload of a call.
LEMMA SinglePayload ==
  ASSUME NEW k \in Key, NEW v \in Nat, NEW d \in Leaves, NEW op
  PROVE  /\ One(k, v) \in Payload /\ DOMAIN One(k, v) = {k}
         /\ Log(d, op, One(k, v)) \in Payload /\ DOMAIN Log(d, op, One(k, v)) \subseteq {k}
<1> DEFINE pl == One(k, v)
<1>1. pl \in [{k} -> Nat] /\ {k} \in SUBSET Key /\ DOMAIN pl = {k}
  BY DEF One
<1>2. pl \in Payload
  BY <1>1, Payloads
<1> HIDE DEF pl
<1>3. Log(d, op, pl) \in Payload /\ DOMAIN Log(d, op, pl) \subseteq {k}
  <2>1. 0 \in Nat
    OBVIOUS
  <2>2. DOMAIN Log(d, op, pl) \subseteq DOMAIN pl
    BY DEF Log, Deleted, Changed
  <2> QED BY <1>1, <1>2, <2>1, <2>2, BlockOps
<1> QED BY <1>1, <1>2, <1>3 DEF pl

\* A writer may say what it writes,
LEMMA CallSays ==
  ASSUME Usage, IInv, NEW i \in Instance, NEW k \in Key, i \in Writer[k],
         NEW op \in {"merge", "delete"}, NEW log \in Payload, DOMAIN log \subseteq {k},
         NEW outs, outs = Publishing(conn[i], {}, op, log)
  PROVE  /\ DOMAIN outs \subseteq DOMAIN conn[i]
         /\ \A x \in DOMAIN outs : outs[x] \in Msg
         /\ Says(i, 0, outs)
<1>1. Flags(i, 0, conn[i])
  BY OwnTable
<1>2. \A x \in DOMAIN log : i \in Writer[x]
  OBVIOUS
<1>3. Entitled(i, 0, {}, log)
  BY <1>2 DEF Entitled
<1>4. DOMAIN outs \subseteq DOMAIN conn[i] /\ Worded(outs) /\ Says(i, 0, outs)
  <2> DEFINE n  == 0
             e  == {}
             cn == conn[i]
  <2>1. /\ outs = Publishing(cn, e, op, log) /\ Flags(i, n, cn) /\ Entitled(i, n, e, log)
        /\ DOMAIN cn \ e = DOMAIN conn[i] /\ n = 0
    BY <1>1, <1>3
  <2> HIDE DEF n, e, cn
  <2>2. DOMAIN outs \subseteq DOMAIN cn \ e /\ Worded(outs) /\ Says(i, n, outs)
    BY ZenonT(60), <2>1, Publishes
  <2> QED BY <2>1, <2>2
<1> QED BY <1>4 DEF Worded

\* and a call of it says so, changes its own data and counts.
LEMMA CallHandles ==
  ASSUME Usage, IInv, NEW i \in Instance, NEW k \in Key, NEW failed,
         NEW v \in Nat, NEW op \in {"merge", "delete"}, NEW pl, pl = One(k, v),
         wait[i] = <<>>, i \in Writer[k], UNCHANGED <<ends, backlog, broken, wait, event, rootseq>>,
         data' = [data EXCEPT ![i] = Apply(@, op, 0, pl)],
         Send(i, net, conn[i], Publishing(conn[i], {}, op, Log(data[i], op, pl)), failed, {}),
         Counts(i, 0), op = "delete" => spent'.delete # 0
  PROVE  \E cn, outs : Handles(i, 0, cn, outs, failed)
<1> DEFINE log  == Log(data[i], op, pl)
           outs == Publishing(conn[i], {}, op, log)
<1>1. data[i] \in Leaves /\ data'[i] = Apply(data[i], op, 0, pl)
  <2> DEFINE d == Apply(data[i], op, 0, pl)
  <2>1. data' = [data EXCEPT ![i] = d]
    OBVIOUS
  <2> HIDE DEF d
  <2>2. data'[i] = d /\ data[i] \in Leaves
    BY <2>1, Steady
  <2> QED BY <2>2 DEF d
<1>2. pl \in Payload /\ DOMAIN pl = {k} /\ log \in Payload /\ DOMAIN log \subseteq {k}
  BY <1>1, SinglePayload
<1>3. Flags(i, 0, conn[i]) /\ 0 \notin DOMAIN conn[i]
  BY OwnTable
<1>4. \A x \in DOMAIN log : i \in Writer[x]
  BY <1>2
<1>5. /\ DOMAIN outs \subseteq DOMAIN conn[i]
      /\ \A x \in DOMAIN outs : outs[x] \in Msg
      /\ Says(i, 0, outs)
  <2> HIDE DEF log
  <2> QED BY <1>2, CallSays
<1>6. Updates(i, 0)
  <2>1. data'[i] \in {Merge(data[i], 0, pl), Erase(data[i], pl)}
    BY <1>1 DEF Apply
  <2>2. data' = [data EXCEPT ![i] = data'[i]]
    BY <1>1
  <2> QED BY <1>2, <2>1, <2>2 DEF Updates
<1>7. Tells(i, 0, conn[i], outs)
  <2> DEFINE e == data'[i]
             t == {}
             o == 0
             d == data[i]
  <2>1. e = Apply(d, op, o, pl) /\ outs = Publishing(conn[i], t, op, Log(d, op, pl)) /\ d \in Leaves
    BY <1>1
  <2> HIDE DEF e, t, o, d, outs
  <2>2. /\ \A x \in DOMAIN outs : outs[x].op = op /\ \A y \in DOMAIN outs[x].data : Val(outs[x], y) = e[y].val
        /\ \A y \in Key : e[y].val # d[y].val =>
             \A x \in PubTargets(conn[i], t) : x \in DOMAIN outs /\ y \in DOMAIN outs[x].data
    BY <1>2, <2>1, PublishTells
  <2>3. PubTargets(conn[i], {0}) \subseteq PubTargets(conn[i], t)
    BY DEF PubTargets, t
  <2> QED BY <2>2, <2>3 DEF Tells, e, d
<1>8. Tabled /\ Stamps(i, 0, conn[i], outs) /\ Replies(i, 0, outs)
  <2> DEFINE n == 0
             e == {}
  <2>1. outs = Publishing(conn[i], e, op, log)
    OBVIOUS
  <2> HIDE DEF n, e, outs, log
  <2>2. \A x \in DOMAIN outs : Stamp(i, n, x, outs[x])
    BY <2>1, PublishStamps
  <2> QED BY <2>2, StillTabled DEF n, Stamps, Replies
<1> HIDE DEF outs, log
<1>9. Send(i, net, conn[i], outs, failed, {})
  BY DEF outs, log
<1>10. Handles(i, 0, conn[i], outs, failed)
  BY <1>3, <1>5, <1>6, <1>7, <1>8, <1>9, Steady DEF Handles, Greets
<1> QED BY <1>10

\* ydb_write.
LEMMA WriteHandles ==
  ASSUME Usage, IInv, NEW i \in Instance, NEW k \in Key, NEW failed, Write(i, k, failed)
  PROVE  \E cn, outs : Handles(i, 0, cn, outs, failed)
<1> DEFINE v  == nval[k] + 1
           pl == One(k, v)
           op == "merge"
<1>1. /\ v \in Nat /\ op \in {"merge", "delete"} /\ op # "delete" /\ pl = One(k, v)
      /\ nval \in [Key -> Nat] /\ spent \in Spent /\ data[i] \in Leaves
  BY Steady
<1>2. /\ wait[i] = <<>> /\ i \in Writer[k]
      /\ UNCHANGED <<ends, backlog, broken, wait, event, rootseq, spent>>
      /\ data' = [data EXCEPT ![i] = Apply(@, op, 0, pl)]
      /\ Send(i, net, conn[i], Publishing(conn[i], {}, op, Log(data[i], op, pl)), failed, {})
      /\ nval' = [nval EXCEPT ![k] = v]
  BY DEF Write, Free, NoChange, Apply
<1>3. data' = [data EXCEPT ![i] = Merge(@, 0, pl)]
  BY <1>2 DEF Apply
<1> HIDE DEF v, op
<1>4. Counts(i, 0)
  <2>1. data'[i] = Merge(data[i], 0, pl)
    BY <1>3, Steady
  <2>2. DOMAIN pl = {k} /\ pl[k] = v
    BY DEF One
  <2> HIDE DEF pl
  <2>3. data'[i][k].val = v
    <3>1. data'[i][k].val = IF k \in Changed(data[i], pl) THEN pl[k] ELSE data[i][k].val
      BY <2>1, <2>2 DEF Merge
    <3> QED BY <2>2, <3>1 DEF Changed
  <2>4. \A y \in Key : y # k => data'[i][y].val = data[i][y].val
    BY <2>1, <2>2 DEF Merge
  <2>5. /\ nval' \in [Key -> Nat] /\ nval'[k] = nval[k] + 1 /\ nval'[k] = v
        /\ \A y \in Key : y # k => nval'[y] = nval[y]
    BY <1>1, <1>2 DEF v
  <2> QED BY <1>1, <1>2, <2>3, <2>4, <2>5 DEF Counts
<1> HIDE DEF pl
<1> QED BY <1>1, <1>2, <1>4, CallHandles

\* ydb_delete.
LEMMA DeleteHandles ==
  ASSUME Usage, IInv, NEW i \in Instance, NEW k \in Key, NEW failed, Delete(i, k, failed)
  PROVE  \E cn, outs : Handles(i, 0, cn, outs, failed)
<1> DEFINE v  == data[i][k].val
           pl == One(k, v)
           op == "delete"
<1>1. v \in Nat /\ op \in {"merge", "delete"} /\ pl = One(k, v)
  BY Steady DEF Leaves
<1>2. /\ wait[i] = <<>> /\ i \in Writer[k]
      /\ UNCHANGED <<ends, backlog, broken, wait, event, rootseq, nval>>
      /\ data' = [data EXCEPT ![i] = Apply(@, op, 0, pl)]
      /\ Send(i, net, conn[i], Publishing(conn[i], {}, op, Log(data[i], op, pl)), failed, {})
      /\ spent' = [spent EXCEPT ![op] = @ + 1]
  BY DEF Delete, Free, NoChange, Apply
<1>3. spent' \in Spent /\ spent'.delete = spent.delete + 1 /\ spent'.delete # 0
  <2> DEFINE f == "delete"
  <2>1. spent' = [spent EXCEPT ![f] = @ + 1] /\ f \in {"delete", "sync", "timer", "break"} /\ f = "delete"
    BY <1>2
  <2> HIDE DEF f
  <2>2. spent \in Spent
    BY Steady
  <2>3. spent'.delete = spent.delete + 1 /\ spent.delete \in Nat
    BY <2>1, <2>2 DEF Spent
  <2>4. spent' \in Spent
    BY <2>1, Spends
  <2> QED BY <2>3, <2>4
<1>4. Counts(i, 0)
  BY <1>2, <1>3, Steady DEF Counts
<1> HIDE DEF v, op, pl
<1> QED BY <1>1, <1>2, <1>3, <1>4, CallHandles

\* A message changes what the log of its change has.
LEMMA MessageUpdates ==
  ASSUME IInv, NEW i \in Instance, NEW n \in DOMAIN conn[i], net[n][In(i)] # <<>>,
         data' = [data EXCEPT ![i] = Apply(@, Received(i, n).op, n, Received(i, n).data)]
  PROVE  Updates(i, n)
<1> DEFINE d == Apply(data[i], Received(i, n).op, n, Received(i, n).data)
<1>1. data' = [data EXCEPT ![i] = d]
  OBVIOUS
<1>2. n # 0 /\ d = Apply(data[i], net[n][In(i)][1].op, n, net[n][In(i)][1].data)
  BY Taking
<1> HIDE DEF d
<1>3. data'[i] = d
  BY <1>1, Steady
<1> QED BY <1>1, <1>2, <1>3 DEF Updates

\* Passing on what a message changed.
LEMMA PassesOn ==
  ASSUME Usage, IInv, NEW i \in Instance, NEW n \in DOMAIN conn[i], net[n][In(i)] # <<>>,
         NEW cn, Flags(i, n, cn), NEW except, n \in except, NEW op \in {"merge", "delete"},
         NEW outs, outs = Publishing(cn, except, op, Log(data[i], op, Received(i, n).data))
  PROVE  DOMAIN outs \subseteq DOMAIN cn \ except /\ Worded(outs) /\ Says(i, n, outs)
<1> DEFINE pl  == Received(i, n).data
           log == Log(data[i], op, pl)
<1>1. n # 0 /\ pl \in Payload /\ (i = Server => \A k \in DOMAIN pl : ends[n] \in Writer[k])
  BY Taking DEF UpMsg
<1>2. data[i] \in Leaves
  BY Steady
<1> HIDE DEF pl
<1>3. log \in Payload /\ DOMAIN log \subseteq DOMAIN pl
  BY <1>1, <1>2, LogOf
<1>4. outs = Publishing(cn, except, op, log)
  BY DEF pl
<1> HIDE DEF log
<1>5. Entitled(i, n, except, log)
  BY <1>1, <1>3 DEF Entitled
<1> QED BY ZenonT(60), <1>1, <1>3, <1>4, <1>5, Publishes

\* yconn_recv of a publication.
LEMMA RecvPublishHandles ==
  ASSUME Usage, IInv, NEW i \in Instance, NEW n, NEW failed, RecvPublish(i, n, failed)
  PROVE  \E cn, outs : Handles(i, n, cn, outs, failed)
<1> DEFINE op   == Received(i, n).op
           outs == Publishing(conn[i], {n}, op, Log(data[i], op, Received(i, n).data))
<1>1. /\ n \in DOMAIN conn[i] /\ net[n][In(i)] # <<>> /\ op \in {"merge", "delete"}
      /\ data' = [data EXCEPT ![i] = Apply(@, op, n, Received(i, n).data)]
      /\ Send(i, Taken(i, n), conn[i], outs, failed, {})
      /\ UNCHANGED <<ends, backlog, broken, wait, event, rootseq, nval, spent>>
  BY DEF RecvPublish, Receives, NoChange
<1>2. n # 0 /\ (i = Server => ~Opens(net[n].up))
  BY <1>1, Taking
<1>3. Flags(i, n, conn[i])
  BY <1>2, OwnTable
<1>4. Updates(i, n)
  BY <1>1, MessageUpdates
<1>5. /\ DOMAIN outs \subseteq DOMAIN conn[i]
      /\ \A x \in DOMAIN outs : outs[x] \in Msg
      /\ Says(i, n, outs)
  <2> DEFINE e == {n}
  <2>1. n \in e /\ outs = Publishing(conn[i], e, op, Log(data[i], op, Received(i, n).data))
    OBVIOUS
  <2> DEFINE o == Received(i, n).op
  <2>2. /\ outs = Publishing(conn[i], e, o, Log(data[i], o, Received(i, n).data))
        /\ o \in {"merge", "delete"} /\ n \in DOMAIN conn[i] /\ net[n][In(i)] # <<>>
    BY <1>1
  <2> HIDE DEF e, outs, op, o
  <2>3. DOMAIN outs \subseteq DOMAIN conn[i] \ e /\ Worded(outs) /\ Says(i, n, outs)
    BY <1>3, <2>1, <2>2, PassesOn
  <2> QED BY <2>3 DEF Worded
<1>6. Tells(i, n, conn[i], outs)
  <2> DEFINE e   == {n}
             ans == NoData
             pl  == Received(i, n).data
             o   == Received(i, n).op
  <2>1. /\ n \in e /\ DOMAIN ans = {} /\ pl \in Payload /\ data[i] \in Leaves
        /\ outs = Publishing(conn[i], e, o, Log(data[i], o, pl))
        /\ e \subseteq {n} \cup DOMAIN ans
        /\ o = net[n][In(i)][1].op
    BY <1>1, Taking, Steady
  <2>3. Joins(outs, ans, outs) /\ Answers(i, n, pl, ans)
    <3> HIDE DEF outs, pl
    <3> QED BY <2>1 DEF Joins, Answers
  <2>2. data'[i] = Apply(data[i], o, n, pl)
    <3> DEFINE d == Apply(data[i], o, n, pl)
    <3>1. data' = [data EXCEPT ![i] = d]
      BY <1>1
    <3> HIDE DEF d
    <3>2. data'[i] = d
      BY <3>1, Steady
    <3> QED BY <3>2 DEF d
  <2> HIDE DEF e, ans, pl, o, outs, op
  <2> QED BY <1>2, <2>1, <2>2, <2>3, HandlerTells
<1>7. Counts(i, n) /\ Tabled /\ Stamps(i, n, conn[i], outs) /\ Replies(i, n, outs)
  <2> DEFINE e   == {n}
             log == Log(data[i], op, Received(i, n).data)
  <2>1. outs = Publishing(conn[i], e, op, log)
    OBVIOUS
  <2> HIDE DEF e, log, op, outs
  <2>2. \A x \in DOMAIN outs : Stamp(i, n, x, outs[x])
    BY <2>1, PublishStamps
  <2>3. net[n][In(i)][1].type = "publish"
    <3>1. Received(i, n).type = "publish" /\ Received(i, n) = net[n][In(i)][1]
      BY <1>1, Taking DEF RecvPublish, Receives
    <3> QED BY <3>1
  <2>4. Replies(i, n, outs)
    BY <2>3 DEF Replies, Answer
  <2> QED BY <1>1, <1>2, <2>2, <2>4, StillCounts, StillTabled DEF Stamps
<1> HIDE DEF outs
<1>8. Handles(i, n, conn[i], outs, failed)
  BY SMTT(60), <1>1, <1>2, <1>3, <1>4, <1>5, <1>6, <1>7, Steady DEF Handles, Greets
<1> QED BY <1>8

\* The answer to INIT has what the writer holds of its own data.
LEMMA InitAnswer ==
  ASSUME Usage, IInv, NEW n \in DOMAIN conn[Server], net[n].up # <<>>, Opens(net[n].up),
         ends[n] \notin Unsub, NEW k \in Key, ends[n] \in Writer[k], NEW d,
         d = Merge(data[Server], n, net[n].up[1].data)
  PROVE  d[k].val = data[ends[n]][k].val
<1> DEFINE c  == ends[n]
           pl == net[n].up[1].data
<1>1. n \in Conns /\ c \in Client /\ c # Server /\ c \in Instance /\ c \in Writable /\ c \notin Fragile
  BY ChannelOf, Writers DEF IInv, Connected, Instance
<1>2. pl = Dump(data[c])
  BY <1>1 DEF IInv, Waiting
<1>3. data[Server][k].val = 0
  <2>1. \A x \in Conns : ends[x] = c => x = n
    BY <1>1 DEF IInv, Connected
  <2>2. \A x \in Conns : ends[x] = c => Opens(net[x].up)
    BY <2>1
  <2> QED BY <1>1, <2>2 DEF IInv, Fresh
<1>4. d[k].val = IF k \in DOMAIN pl THEN pl[k] ELSE 0
  BY <1>3 DEF Merge, Changed
<1> QED BY <1>2, <1>4 DEF Dump, Present

\* yconn_recv of INIT.
LEMMA RecvInitHandles ==
  ASSUME Usage, IInv, NEW n, NEW failed, RecvInit(n, failed)
  PROVE  \E cn, outs : Handles(Server, n, cn, outs, failed)
<1> DEFINE m   == Received(Server, n)
           c   == ends[n]
           cn  == [conn[Server] EXCEPT ![n].writable = c \in Writable, ![n].unsub = c \in Unsub]
           d   == Merge(data[Server], n, m.data)
           pub == Publishing(cn, {n}, "merge", Log(data[Server], "merge", m.data))
           ans == IF m.type = "publish" THEN NoData
                  ELSE One(n, Message("response", "init", m.seq, Dump(d)))
           outs == Both(ans, pub)
<1>1. /\ n \in DOMAIN conn[Server] /\ net[n].up # <<>> /\ m.op = "init"
      /\ data' = [data EXCEPT ![Server] = d]
      /\ Send(Server, Taken(Server, n), cn, outs, failed, {})
      /\ UNCHANGED <<ends, backlog, broken, wait, event, rootseq, nval, spent>>
  BY Sides DEF RecvInit, Receives, NoChange
<1>2. Server \in Instance /\ In(Server) = "up"
  BY Sides DEF Instance
<1>3. /\ n \in Conns /\ n \in Nat \ {0} /\ m = net[n].up[1] /\ m \in Msg /\ m.data \in Payload
      /\ Opens(net[n].up) /\ m.type = IF c \in Unsub THEN "publish" ELSE "request"
  BY <1>1, <1>2, Taking
<1>4. Flags(Server, n, cn)
  <2>1. conn[Server] \in Table
    BY <1>2 DEF IInv, Typed
  <2>2. DOMAIN cn = DOMAIN conn[Server]
    OBVIOUS
  <2>3. ASSUME NEW x \in DOMAIN cn
        PROVE  /\ cn[x] \in End /\ cn[x].status = conn[Server][x].status
               /\ IF x = n THEN cn[x].writable = (c \in Writable) /\ cn[x].unsub = (c \in Unsub)
                  ELSE cn[x].writable = conn[Server][x].writable /\ cn[x].unsub = conn[Server][x].unsub
    <3>1. conn[Server][x] \in End
      BY <2>1, <2>2, <2>3, Tables
    <3>2. CASE x = n
      <4> DEFINE w == c \in Writable
                 u == c \in Unsub
                 b == conn[Server][n]
      <4>1. cn[x] = [b EXCEPT !.writable = w, !.unsub = u]
        BY <1>1, <3>2
      <4>2. b \in End /\ w \in BOOLEAN /\ u \in BOOLEAN
        BY <3>1, <3>2
      <4> HIDE DEF w, u, b
      <4>3. cn[x] \in End /\ cn[x].status = b.status /\ cn[x].writable = w /\ cn[x].unsub = u
        <5> HIDE DEF cn
        <5> QED BY <4>1, <4>2 DEF End
      <4> QED BY <3>2, <4>3 DEF w, u, b
    <3>3. CASE x # n
      BY <3>1, <3>3
    <3> QED BY <3>2, <3>3
  <2> HIDE DEF cn
  <2>4. cn \in Table
    <3>1. DOMAIN cn \in SUBSET Nat
      BY <2>1, <2>2, Tables
    <3>2. DOMAIN cn = DOMAIN conn[Server] /\ \E D : cn = [x \in D |-> cn[x]]
      BY <2>2 DEF cn
    <3>3. cn \in [DOMAIN cn -> End]
      BY <2>3, <3>2
    <3> QED BY <3>1, <3>3, Tables
  <2> QED BY <1>3, <2>2, <2>3, <2>4 DEF Flags
<1>5. Updates(Server, n)
  <2>1. data' = [data EXCEPT ![Server] = Apply(@, m.op, n, m.data)]
    BY <1>1 DEF Apply
  <2> QED BY <1>1, <1>2, <2>1, MessageUpdates
<1>6. /\ DOMAIN pub \subseteq DOMAIN cn
      /\ \A x \in DOMAIN pub : pub[x] \in Msg
      /\ Says(Server, n, pub)
  <2> DEFINE e == {n}
             o == "merge"
  <2>1. /\ n \in e /\ pub = Publishing(cn, e, o, Log(data[Server], o, Received(Server, n).data))
        /\ o \in {"merge", "delete"} /\ n \in DOMAIN conn[Server] /\ net[n][In(Server)] # <<>>
        /\ Server \in Instance
    BY <1>1, <1>2
  <2> HIDE DEF e, o, cn, pub
  <2>2. DOMAIN pub \subseteq DOMAIN cn \ e /\ Worded(pub) /\ Says(Server, n, pub)
    BY <1>4, <2>1, PassesOn
  <2> QED BY <2>2 DEF Worded
<1>7. /\ DOMAIN ans \subseteq DOMAIN cn
      /\ \A x \in DOMAIN ans : ans[x] \in Msg
      /\ Says(Server, n, ans)
  <2>1. CASE m.type = "publish"
    BY <2>1, Steady DEF Says
  <2>2. CASE m.type # "publish"
    <3> DEFINE dump == Dump(d)
               a    == Message("response", "init", m.seq, dump)
    <3>1. DOMAIN ans = {n} /\ ans[n] = a
      BY <2>2 DEF One
    <3>2. d \in Leaves /\ dump \in Payload
      <4>1. data[Server] \in Leaves
        BY <1>2, Steady
      <4>2. d \in Leaves
        BY <1>3, <4>1, BlockOps
      <4> HIDE DEF d
      <4> QED BY <1>3, <4>2, BlockOps
    <3>3. a \in Msg
      BY <1>3, <3>2 DEF Message, Msg
    <3>4. ASSUME NEW k \in DOMAIN dump, c \in Writer[k] PROVE dump[k] = data[c][k].val
      <4>1. k \in Key
        BY <3>2, Payloads
      <4>2. dump[k] = d[k].val
        BY <3>4 DEF Dump, Present
      <4>3. d[k].val = data[c][k].val
        <5>1. d = Merge(data[Server], n, net[n].up[1].data) /\ c \notin Unsub
          BY <1>3, <2>2
        <5> HIDE DEF d
        <5> QED BY <1>1, <1>3, <3>4, <4>1, <5>1, InitAnswer
      <4> QED BY <4>2, <4>3
    <3>5. DownMsg(a, c, data[c])
      <4> HIDE DEF dump
      <4> QED BY <3>4 DEF DownMsg, Message
    <3>6. a.op = "init" /\ a.type = "response"
      BY DEF Message
    <3> HIDE DEF a, ans, cn
    <3> QED BY <1>1, <1>3, <1>4, <2>2, <3>1, <3>3, <3>5, <3>6 DEF Says, Flags
  <2> QED BY <2>1, <2>2
<1>8. /\ DOMAIN outs \subseteq DOMAIN cn
      /\ \A x \in DOMAIN outs : outs[x] \in Msg
      /\ Says(Server, n, outs)
  <2> HIDE DEF ans, pub, cn
  <2> QED BY <1>6, <1>7, SaysBoth
<1>9. data'[Server] = d /\ d \in Leaves /\ data[Server] \in Leaves
  <2>1. data[Server] \in Leaves
    BY <1>2, Steady
  <2>2. d \in Leaves
    BY <1>3, <2>1, BlockOps
  <2> HIDE DEF d
  <2> QED BY <1>1, <1>2, <2>1, <2>2, Steady
<1>10. Tells(Server, n, cn, outs)
  <2> DEFINE e  == {n}
             o  == "merge"
             pl == m.data
             s  == Server
  <2>1. data'[s] = Apply(data[s], o, n, pl) /\ pl \in Payload /\ data[s] \in Leaves
    BY <1>3, <1>9 DEF Apply
  <2>2. /\ n \in e /\ e \subseteq {n} \cup DOMAIN ans /\ o # "delete"
        /\ pub = Publishing(cn, e, o, Log(data[s], o, pl))
    OBVIOUS
  <2>3. Joins(outs, ans, pub)
    <3> HIDE DEF ans, pub
    <3> QED BY DEF Both, Joins
  <2>4. \A x \in DOMAIN ans : x = n /\ ans[x].op = "init" /\ ans[x].data = Dump(d)
    <3>1. CASE m.type = "publish"
      BY <3>1, Steady
    <3>2. CASE m.type # "publish"
      BY <3>2 DEF One, Message
    <3> QED BY <3>1, <3>2
  <2>5. \A k \in DOMAIN Dump(d) : Dump(d)[k] = d[k].val
    <3> HIDE DEF d
    <3> QED BY DEF Dump
  <2> DEFINE f == data'[s]
  <2>6. \A x \in DOMAIN ans : x = n /\ ans[x].op = "init" /\ \A k \in DOMAIN ans[x].data : ans[x].data[k] = f[k].val
    BY <1>9, <2>4, <2>5
  <2> HIDE DEF e, o, pl, ans, pub, outs, cn, d, m, f
  <2>7. Answers(s, n, pl, ans)
    BY <2>6 DEF f, Answers
  <2> HIDE DEF s
  <2>8. Tells(s, n, cn, outs)
    BY <2>1, <2>2, <2>3, <2>7, HandlerTells
  <2> QED BY <2>8 DEF s
<1>11. Counts(Server, n) /\ Tabled
  BY <1>1, <1>3, StillCounts, StillTabled
<1>12. Greets(Server, n, outs)
  <2> SUFFICES ASSUME c \notin Unsub
               PROVE  n \in DOMAIN outs /\ \A k \in Key : d[k].val # 0 => k \in DOMAIN outs[n].data
    BY <1>9 DEF Greets
  <2> DEFINE dump == Dump(d)
             a    == Message("response", "init", m.seq, dump)
  <2>1. DOMAIN ans = {n} /\ ans[n] = a
    BY <1>3 DEF One
  <2>2. a.data = dump
    BY DEF Message
  <2> HIDE DEF ans, a, pub
  <2>3. n \in DOMAIN outs /\ outs[n] = a
    BY <2>1 DEF Both
  <2> HIDE DEF d
  <2>4. \A k \in Key : d[k].val # 0 => k \in DOMAIN dump
    BY DEF Dump, Present
  <2> QED BY <2>2, <2>3, <2>4
<1>13. Stamps(Server, n, cn, outs) /\ Replies(Server, n, outs)
  <2> DEFINE e   == {n}
             o   == "merge"
             log == Log(data[Server], o, m.data)
  <2>1. ASSUME NEW x \in DOMAIN ans PROVE Stamp(Server, n, x, ans[x])
    <3>1. m.type = "request" /\ m = net[n][In(Server)][1] /\ m.op = "init"
      BY <1>1, <1>2, <1>3, <2>1, Steady
    <3>2. x = n /\ ans[x].type = "response" /\ ans[x].seq = m.seq /\ ans[x].op = "init"
      BY <2>1, <3>1 DEF One, Message
    <3> HIDE DEF m, ans
    <3> QED BY <1>3, <3>1, <3>2 DEF Stamp
  <2>2. pub = Publishing(cn, e, o, log)
    OBVIOUS
  <2>3. \A x \in DOMAIN cn : cn[x].sendseq = conn[Server][x].sendseq
    <3>1. \A x \in DOMAIN conn[Server] : conn[Server][x] \in End
      <4>1. conn[Server] \in Table
        BY <1>2 DEF IInv, Typed
      <4> QED BY <4>1, Tables
    <3> QED BY <3>1 DEF End
  <2>4. Joins(outs, ans, pub)
    <3> HIDE DEF ans, pub
    <3> QED BY DEF Both, Joins
  <2> HIDE DEF e, o, log, cn, ans, pub, outs
  <2>5. \A x \in DOMAIN pub : Stamp(Server, n, x, pub[x])
    BY <2>2, PublishStamps
  <2>6. \A x \in DOMAIN outs : Stamp(Server, n, x, outs[x])
    BY <2>1, <2>4, <2>5, JoinsStamps
  <2>7. Replies(Server, n, outs)
    <3>1. m = net[n][In(Server)][1] /\ m.op = "init" /\ m.type \in {"publish", "request"}
      BY <1>1, <1>2, <1>3
    <3> QED BY <3>1 DEF Replies, Answer
  <2> QED BY <2>3, <2>6, <2>7 DEF Stamps
<1> HIDE DEF outs, cn
<1>14. Handles(Server, n, cn, outs, failed)
  BY <1>1, <1>2, <1>3, <1>4, <1>5, <1>8, <1>10, <1>11, <1>12, <1>13, Steady DEF Handles
<1> QED BY <1>14

\* A SYNC request says nothing.
Still(outs) == \A x \in DOMAIN outs : outs[x].op = "sync" /\ DOMAIN outs[x].data = {}
LEMMA Asks ==
  ASSUME IInv, NEW i \in Instance, NEW n, NEW cn, Flags(i, n, cn), NEW except,
         NEW pl \in Payload, DOMAIN pl = {}, NEW outs,
         outs = Requests(cn, SyncTargets(cn, except), "sync", pl)
  PROVE  /\ DOMAIN outs \subseteq DOMAIN cn /\ DOMAIN outs = SyncTargets(cn, except)
         /\ \A x \in DOMAIN outs :
              outs[x] \in Msg /\ outs[x].type = "request" /\ outs[x].seq = cn[x].sendseq + 1
         /\ Says(i, n, outs) /\ Still(outs)
<1>1. DOMAIN outs = SyncTargets(cn, except)
  BY DEF Requests
<1>2. ASSUME NEW x \in DOMAIN outs
      PROVE  /\ outs[x] \in Msg /\ outs[x].data = pl /\ outs[x].op = "sync"
             /\ outs[x].type = "request" /\ outs[x].seq = cn[x].sendseq + 1
             /\ x \in DOMAIN cn /\ (i = Server => (Opens(net[x].up) => x = n))
  <2>1. x \in DOMAIN cn /\ (i = Server => (Opens(net[x].up) => x = n))
    BY <1>1, <1>2, Targets
  <2>2. cn[x] \in End
    BY <2>1, Tables DEF Flags
  <2> DEFINE s == cn[x].sendseq + 1
  <2>3. s \in Nat
    BY <2>2 DEF End
  <2>4. outs[x] = Message("request", "sync", s, pl)
    BY <1>1, <1>2 DEF Requests
  <2> HIDE DEF s
  <2>5. /\ outs[x] \in Msg /\ outs[x].data = pl /\ outs[x].op = "sync"
        /\ outs[x].type = "request" /\ outs[x].seq = s
    BY <2>3, <2>4 DEF Message, Msg
  <2> QED BY <2>1, <2>5 DEF s
<1>3. DOMAIN outs \subseteq DOMAIN cn
  BY <1>2
<1>4. Says(i, n, outs) /\ Still(outs)
  BY <1>2 DEF Says, UpMsg, DownMsg, Still
<1> QED BY <1>1, <1>2, <1>3, <1>4

\* A call blocks.
LEMMA BlockKeeps ==
  ASSUME IInv, NEW i \in Instance, NEW kind \in {"init", "sync"}, NEW want \in Payload,
         Block(i, kind, want)
  PROVE  /\ rootseq' \in [Instance -> Nat]
         /\ wait' \in [Instance -> Seq(Call)] /\ \A j \in Instance \ {i} : wait'[j] = wait[j]
         /\ wait'[i] # <<>> /\ wait'[i][Len(wait'[i])].kind = kind
<1> DEFINE b == [id |-> <<0, rootseq[i] + 1>>, kind |-> kind, want |-> want]
           w == Append(wait[i], b)
<1>1. rootseq' \in [Instance -> Nat] /\ rootseq[i] \in Nat /\ wait[i] \in Seq(Call)
  BY Steady DEF Block
<1>2. b \in Call /\ b.kind = kind
  BY <1>1 DEF Call
<1>3. wait' = [wait EXCEPT ![i] = w]
  BY DEF Block
<1> HIDE DEF b
<1>4. w \in Seq(Call) /\ w # <<>> /\ w[Len(w)] = b
  <2> HIDE DEF Call
  <2> QED BY <1>1, <1>2, AppendProperties
<1> HIDE DEF w
<1>5. wait'[i] = w /\ wait' \in [Instance -> Seq(Call)] /\ \A j \in Instance \ {i} : wait'[j] = wait[j]
  BY <1>3, <1>4, Steady
<1> QED BY <1>1, <1>2, <1>4, <1>5

\* A blocking call returns.
LEMMA EndsWait ==
  ASSUME IInv, NEW i \in Instance, wait[i] # <<>>, wait' = [wait EXCEPT ![i] = Front(@)]
  PROVE  wait' \in [Instance -> Seq(Call)] /\ \A j \in Instance \ {i} : wait'[j] = wait[j]
<1> DEFINE w == Front(wait[i])
<1>1. wait[i] \in Seq(Call) /\ Len(wait[i]) \in Nat /\ Len(wait[i]) # 0
  BY Steady, EmptySeq
<1>2. w \in Seq(Call)
  BY <1>1, SubSeqProperties DEF Front
<1>3. wait' = [wait EXCEPT ![i] = w]
  OBVIOUS
<1> HIDE DEF w
<1> QED BY <1>2, <1>3, Steady

\* Events on behalf of a call, or at the server of a request that it has read.
LEMMA RegisterKeeps ==
  ASSUME IInv, NEW i \in Instance, NEW p \in Int \X Nat, NEW kids, Register(i, p, kids),
         p[1] > 0 => i = Server /\ p[1] \in Heard /\ \A x \in kids : x[1] # p[1]
  PROVE  /\ event' = [j \in Instance |-> event'[j]]
         /\ \A j \in Instance : RelayTable(j, event'[j], Heard)
<1> DEFINE new == AddEvents(event[i], p, kids)
<1>1. event' = [event EXCEPT ![i] = new]
  BY DEF Register
<1>2. RelayTable(i, new, Heard)
  BY Steady, TableAdds
<1> HIDE DEF new
<1> QED BY <1>1, <1>2, Steady

\* ydb_sync.
LEMMA SyncHandles ==
  ASSUME Usage, IInv, NEW i \in Instance, NEW failed, Sync(i, failed)
  PROVE  \E cn, outs : Handles(i, 0, cn, outs, failed)
<1> DEFINE targets == SyncTargets(conn[i], {})
           outs    == Requests(conn[i], targets, "sync", NoData)
<1>1. /\ wait[i] = <<>> /\ UNCHANGED <<data, ends, backlog, broken, nval>>
      /\ Block(i, "sync", Wanted(i))
      /\ Register(i, <<0, rootseq[i] + 1>>, Kids(conn[i], targets \ failed))
      /\ Send(i, net, conn[i], outs, failed, {})
      /\ spent' = [spent EXCEPT !.sync = @ + 1]
  BY DEF Sync, Free
<1>2. Flags(i, 0, conn[i])
  BY OwnTable
<1>3. /\ DOMAIN outs \subseteq DOMAIN conn[i]
      /\ \A x \in DOMAIN outs :
           outs[x] \in Msg /\ outs[x].type = "request" /\ outs[x].seq = conn[i][x].sendseq + 1
      /\ Says(i, 0, outs) /\ Still(outs)
  <2> DEFINE e == {}
             pl == NoData
  <2>1. outs = Requests(conn[i], SyncTargets(conn[i], e), "sync", pl) /\ pl \in Payload /\ DOMAIN pl = {}
    BY Steady
  <2> HIDE DEF e, pl, outs
  <2> QED BY <1>2, <2>1, Asks
<1>4. Updates(i, 0)
  BY <1>1, Steady DEF Updates
<1>5. /\ rootseq' \in [Instance -> Nat]
      /\ wait' \in [Instance -> Seq(Call)] /\ \A j \in Instance \ {i} : wait'[j] = wait[j]
  <2>1. Wanted(i) \in Payload
    <3> DEFINE D == {x \in Key : \E w \in Asked(i) : Writer[x] = {w}}
    <3>1. [k \in D |-> nval[k]] \in [D -> Nat] /\ D \in SUBSET Key
      BY Steady
    <3>2. [k \in D |-> nval[k]] \in Payload
      <4> HIDE DEF D
      <4> QED BY <3>1, Payloads
    <3> QED BY <3>2 DEF Wanted
  <2> QED BY <1>1, <2>1, BlockKeeps
<1>6. /\ event' = [j \in Instance |-> event'[j]]
      /\ \A j \in Instance : RelayTable(j, event'[j], Heard)
  <2> DEFINE p    == <<0, rootseq[i] + 1>>
             kids == Kids(conn[i], targets \ failed)
  <2>1. p \in Int \X Nat /\ ~(p[1] > 0)
    BY Steady
  <2>2. Register(i, p, kids)
    BY <1>1
  <2> HIDE DEF p, kids
  <2> QED BY <2>1, <2>2, RegisterKeeps
<1> HIDE DEF outs
<1>7. Tabled
  BY <1>5, <1>6 DEF Tabled
<1>8. Counts(i, 0)
  <2> DEFINE f == "sync"
  <2>1. spent' = [spent EXCEPT ![f] = @ + 1] /\ f \in {"delete", "sync", "timer", "break"} /\ f # "delete"
    BY <1>1
  <2> HIDE DEF f
  <2>2. spent' \in Spent /\ spent'.delete = spent.delete
    BY <2>1, Spends
  <2> QED BY <1>1, <2>2, Steady DEF Counts
<1>9. Tells(i, 0, conn[i], outs) /\ Stamps(i, 0, conn[i], outs) /\ Replies(i, 0, outs)
  BY <1>1, <1>3 DEF Tells, Still, Stamps, Stamp, Answer, Replies
<1>10. Handles(i, 0, conn[i], outs, failed)
  BY <1>1, <1>2, <1>3, <1>4, <1>5, <1>7, <1>8, <1>9 DEF Handles, Greets
<1> QED BY <1>10

\* yconn_recv of a SYNC request.
LEMMA RecvSyncHandles ==
  ASSUME Usage, IInv, NEW i \in Instance, NEW n, NEW failed, RecvSync(i, n, failed)
  PROVE  \E cn, outs : Handles(i, n, cn, outs, failed)
<1> DEFINE m       == Received(i, n)
           targets == SyncTargets(conn[i], {n})
           reqs    == Requests(conn[i], targets, "sync", m.data)
           own     == Mine(data[i])
           a       == Message(IF targets = {} THEN "response" ELSE "continued", "sync", m.seq, own)
           ans     == One(n, a)
           outs    == Both(ans, reqs)
<1>1. /\ n \in DOMAIN conn[i] /\ net[n][In(i)] # <<>> /\ m.op = "sync" /\ m.type = "request"
      /\ UNCHANGED <<data, ends, backlog, broken, nval, spent, wait, rootseq>>
      /\ IF targets = {} THEN UNCHANGED <<event, dangling>>
         ELSE Register(i, <<n, m.seq>>, Kids(conn[i], targets \ failed))
      /\ Send(i, Taken(i, n), conn[i], outs, failed, {})
  BY DEF RecvSync, Receives
<1>2. /\ n \in Conns /\ n \in Nat \ {0} /\ m \in Msg /\ m.data \in Payload /\ DOMAIN m.data = {}
      /\ i = Server => ~Opens(net[n].up)
      /\ i # Server => ends[n] = i
  BY <1>1, Taking DEF UpMsg, DownMsg
<1>3. Flags(i, n, conn[i])
  BY <1>2, OwnTable
<1>4. /\ DOMAIN reqs \subseteq DOMAIN conn[i] /\ DOMAIN reqs = targets
      /\ \A x \in DOMAIN reqs :
           reqs[x] \in Msg /\ reqs[x].type = "request" /\ reqs[x].seq = conn[i][x].sendseq + 1
      /\ Says(i, n, reqs) /\ Still(reqs)
  <2> DEFINE e  == {n}
             pl == m.data
  <2>1. reqs = Requests(conn[i], SyncTargets(conn[i], e), "sync", pl) /\ pl \in Payload /\ DOMAIN pl = {}
        /\ targets = SyncTargets(conn[i], e)
    BY <1>2
  <2> HIDE DEF e, pl, reqs, targets
  <2> QED BY <1>3, <2>1, Asks
<1>5. /\ DOMAIN ans \subseteq DOMAIN conn[i]
      /\ \A x \in DOMAIN ans : ans[x] \in Msg
      /\ Says(i, n, ans)
  <2>1. own \in Payload /\ \A k \in DOMAIN own : i \in Writer[k]
    <3>1. data[i] \in Leaves /\ NoData \in Payload /\ 0 \in Nat
      BY Steady
    <3>2. own \in Payload
      BY <3>1, BlockOps
    <3>3. ASSUME NEW k \in DOMAIN own PROVE i \in Writer[k]
      <4>1. k \in Key /\ data[i][k].val # 0 /\ data[i][k].origin = 0
        BY DEF Mine, Present
      <4> QED BY <4>1 DEF IInv, Origins, Home
    <3> QED BY <3>2, <3>3
  <2> HIDE DEF own, targets
  <2>2. a \in Msg /\ a.data = own /\ a.op = "sync" /\ a.type # "request"
    <3>1. m.seq \in Nat
      BY <1>2 DEF Msg
    <3> QED BY <2>1, <3>1 DEF Message, Msg
  <2>3. DOMAIN ans = {n} /\ ans[n] = a
    BY DEF One
  <2> HIDE DEF a, ans
  <2>4. CASE i = Server
    <3>1. ASSUME NEW k \in DOMAIN own PROVE ends[n] \notin Writer[k]
      <4>1. k \in Key
        BY <2>1, Payloads
      <4> QED BY <1>2, <2>1, <2>4, <4>1, ChannelOf, Writers DEF IInv
    <3> QED BY <1>1, <1>2, <2>2, <2>3, <2>4, <3>1 DEF Says, DownMsg
  <2>5. CASE i # Server
    BY <1>1, <2>1, <2>2, <2>3, <2>5 DEF Says, UpMsg
  <2> QED BY <2>4, <2>5
<1>6. /\ DOMAIN outs \subseteq DOMAIN conn[i]
      /\ \A x \in DOMAIN outs : outs[x] \in Msg
      /\ Says(i, n, outs)
  <2> HIDE DEF ans, reqs
  <2> QED BY <1>4, <1>5, SaysBoth
<1>7. Updates(i, n)
  <2>1. data[i] \in Leaves
    BY Steady
  <2>2. Merge(data[i], n, m.data) = data[i]
    BY <1>2, <2>1 DEF Merge, Leaves
  <2>3. Apply(data[i], m.op, n, m.data) = data[i]
    BY <1>1, <2>2 DEF Apply
  <2> QED BY <1>1, <1>2, <2>3, Steady DEF Updates, Received
<1>8. /\ event' = [j \in Instance |-> event'[j]]
      /\ \A j \in Instance : RelayTable(j, event'[j], Heard)
  <2>1. CASE targets = {}
    BY <1>1, <2>1, Steady
  <2>2. CASE targets # {}
    <3> DEFINE p    == <<n, m.seq>>
               kids == Kids(conn[i], targets \ failed)
    <3>1. p \in Int \X Nat /\ p[1] = n
      BY <1>2 DEF Msg
    <3>2. \A x \in kids : x[1] # p[1]
      BY <3>1 DEF Kids, SyncTargets
    <3>3. i = Server
      <4>1. PICK x : x \in targets
        BY <2>2
      <4> DEFINE e == {n}
      <4>2. n \in e /\ x \in PubTargets(conn[i], e) \cup SyncTargets(conn[i], e)
        BY <4>1
      <4> HIDE DEF e
      <4> QED BY <1>1, <1>2, <1>3, <4>2, Targets
    <3>4. n \in Heard
      BY <1>2, <3>3 DEF Heard
    <3>5. Register(i, p, kids)
      BY <1>1, <2>2
    <3> HIDE DEF p, kids
    <3> QED BY <3>1, <3>2, <3>3, <3>4, <3>5, RegisterKeeps
  <2> QED BY <2>1, <2>2
<1>9. Tells(i, n, conn[i], outs)
  <2>1. DOMAIN ans = {n} /\ ans[n].op = "sync" /\ ans[n].data = own
    BY DEF One, Message
  <2>2. \A k \in DOMAIN own : own[k] = data[i][k].val
    BY DEF Mine
  <2> HIDE DEF ans, reqs, own
  <2>3. \A x \in DOMAIN outs : outs[x] = IF x \in DOMAIN ans THEN ans[x] ELSE reqs[x]
    BY DEF Both
  <2>5. DOMAIN outs = DOMAIN ans \cup DOMAIN reqs
    BY DEF Both
  <2> HIDE DEF outs
  <2>4. ASSUME NEW x \in DOMAIN outs
        PROVE  outs[x].op = "sync" /\ \A k \in DOMAIN outs[x].data : outs[x].data[k] = data[i][k].val
    <3>1. CASE x \in DOMAIN ans
      BY <2>1, <2>2, <2>3, <3>1
    <3>2. CASE x \notin DOMAIN ans
      <4>1. x \in DOMAIN reqs /\ outs[x] = reqs[x]
        BY <2>3, <2>5, <3>2
      <4> QED BY <1>4, <4>1 DEF Still
    <3> QED BY <3>1, <3>2
  <2> QED BY <1>1, <2>4 DEF Tells, Val
<1>10. Counts(i, n)
  BY <1>1, <1>2, StillCounts
<1>11. Tabled
  BY <1>1, <1>8, Steady DEF Tabled
<1>12. Stamps(i, n, conn[i], outs) /\ Replies(i, n, outs)
  <2>1. /\ n \in DOMAIN ans
        /\ \A x \in DOMAIN ans :
             /\ x = n /\ ans[x].type # "request" /\ ans[x].seq = m.seq
             /\ ans[x].op = m.op /\ ans[x].data = own
             /\ ans[x].type = "response" => targets = {}
    BY <1>1 DEF One, Message
  <2>2. Joins(outs, ans, reqs)
    <3> HIDE DEF ans, reqs
    <3> QED BY DEF Both, Joins
  <2>3. m = net[n][In(i)][1]
    BY <1>1, Taking
  <2>8. own = Mine(data[i]) /\ targets = SyncTargets(conn[i], {n})
    OBVIOUS
  <2> HIDE DEF ans, reqs, outs, m, own, targets
  <2>7. Replies(i, n, outs)
    <3>1. n \in DOMAIN outs /\ outs[n].data = own
      BY <2>1, <2>2 DEF Joins
    <3>2. m.type = "request"
      BY <1>1
    <3> QED BY <2>3, <2>8, <3>1, <3>2 DEF Replies, Answer
  <2>4. ASSUME NEW x \in DOMAIN ans PROVE Stamp(i, n, x, ans[x])
    <3>1. /\ x = n /\ ans[x].type # "request" /\ ans[x].seq = m.seq /\ ans[x].op = m.op
          /\ ans[x].data = own /\ (ans[x].type = "response" => targets = {})
      BY <2>1
    <3>2. m.type = "request" /\ n # 0
      BY <1>1, <1>2
    <3> QED BY SMTT(60), <2>3, <2>8, <3>1, <3>2 DEF Stamp, Answer
  <2>5. \A x \in DOMAIN reqs : Stamp(i, n, x, reqs[x])
    BY <1>4 DEF Stamp, Answer
  <2>6. \A x \in DOMAIN outs : Stamp(i, n, x, outs[x])
    BY <2>2, <2>4, <2>5, JoinsStamps
  <2> QED BY <2>6, <2>7 DEF Stamps
<1> HIDE DEF outs
<1>13. Handles(i, n, conn[i], outs, failed)
  BY <1>1, <1>2, <1>3, <1>6, <1>7, <1>9, <1>10, <1>11, <1>12, Steady DEF Handles, Greets
<1> QED BY <1>13

\* A relayed answer goes to another connection than it came from, at the server only.
LEMMA RelayTo ==
  ASSUME IInv, NEW i \in Instance, NEW n, NEW seq, NEW x \in DOMAIN conn[i],
         x = Relay(event[i], <<n, seq>>)[1]
  PROVE  i = Server /\ x # n /\ x \in Heard /\ Relay(event[i], <<n, seq>>)[2] \in Nat
<1> DEFINE id == <<n, seq>>
<1>1. x > 0
  BY DEF IInv, Connected, Conns
<1>2. RelayTable(i, event[i], Heard) /\ id[1] = n
  BY Steady
<1> HIDE DEF id
<1>3. CASE id \in DOMAIN event[i] /\ event[i][id].pid # NoId /\ event[i][id].pid[1] > 0
  <2>1. Relay(event[i], id) = event[i][id].pid /\ event[i][id].pid \in Int \X Nat
    BY <1>2, <1>3 DEF Relay, RelayTable
  <2>2. x = event[i][id].pid[1]
    BY <2>1 DEF id
  <2>3. i = Server /\ event[i][id].pid[1] # id[1] /\ event[i][id].pid[1] \in Heard
    BY <1>2, <1>3 DEF RelayTable
  <2> QED BY <1>2, <2>1, <2>2, <2>3 DEF id
<1>4. CASE ~(id \in DOMAIN event[i] /\ event[i][id].pid # NoId /\ event[i][id].pid[1] > 0)
  <2>1. Relay(event[i], id) = NoId
    BY <1>4 DEF Relay
  <2> QED BY <1>1, <2>1 DEF NoId, id
<1> QED BY <1>3, <1>4

\* yconn_recv of an answer.
LEMMA RecvAnswerHandles ==
  ASSUME Usage, IInv, NEW i \in Instance, NEW n, NEW failed, NEW buffered,
         RecvAnswer(i, n, failed, buffered)
  PROVE  \E cn, outs : Handles(i, n, cn, outs, failed)
<1> DEFINE m     == Received(i, n)
           final == m.type = "response"
           rel   == Relay(event[i], <<n, m.seq>>)
           r     == IF final THEN Reset(event[i], <<n, m.seq>>, FALSE)
                    ELSE [table |-> event[i], ret |-> NoId]
           req   == {rel[1]} \cap DOMAIN conn[i]
           pub   == Publishing(conn[i], {n} \cup req, "merge", Log(data[i], "merge", m.data))
           a     == Message(IF final /\ r.ret = rel THEN "response" ELSE "continued",
                            m.op, rel[2], m.data)
           ans   == [x \in req |-> a]
           ended == wait[i] # <<>> /\ r.ret = wait[i][Len(wait[i])].id
           outs  == Both(ans, pub)
<1>1. /\ n \in DOMAIN conn[i] /\ net[n][In(i)] # <<>>
      /\ m.op \in {"init", "sync"} /\ m.type \in {"continued", "response"}
      /\ data' = [data EXCEPT ![i] = Merge(@, n, m.data)]
      /\ event' = [event EXCEPT ![i] = r.table]
      /\ wait' = IF ended THEN [wait EXCEPT ![i] = Front(@)] ELSE wait
      /\ UNCHANGED <<ends, backlog, broken, nval, spent, rootseq>>
      /\ \E left : Send(i, Taken(i, n), conn[i], outs, failed, left)
  BY DEF RecvAnswer, Receives
<1>2. /\ n \in Conns /\ n \in Nat \ {0} /\ m \in Msg /\ m.data \in Payload
      /\ i = Server => ~Opens(net[n].up) /\ UpMsg(m, ends[n]) /\ m.op = "sync"
  BY <1>1, Taking
<1>3. Flags(i, n, conn[i])
  BY <1>2, OwnTable
<1>4. ASSUME NEW x \in req PROVE i = Server /\ x # n /\ x \in Heard /\ rel[2] \in Nat
  <2> DEFINE seq == m.seq
  <2>1. x \in DOMAIN conn[i] /\ x = Relay(event[i], <<n, seq>>)[1]
    BY <1>4
  <2> HIDE DEF seq
  <2>2. i = Server /\ x # n /\ x \in Heard /\ Relay(event[i], <<n, seq>>)[2] \in Nat
    BY <2>1, RelayTo
  <2> QED BY <2>2 DEF seq
<1>5. /\ DOMAIN pub \subseteq DOMAIN conn[i]
      /\ \A x \in DOMAIN pub : pub[x] \in Msg
      /\ Says(i, n, pub)
  <2> DEFINE e == {n} \cup req
             o == "merge"
  <2>1. /\ n \in e /\ pub = Publishing(conn[i], e, o, Log(data[i], o, Received(i, n).data))
        /\ o \in {"merge", "delete"} /\ n \in DOMAIN conn[i] /\ net[n][In(i)] # <<>>
    BY <1>1
  <2> HIDE DEF e, o, pub
  <2>2. DOMAIN pub \subseteq DOMAIN conn[i] \ e /\ Worded(pub) /\ Says(i, n, pub)
    BY <1>3, <2>1, PassesOn
  <2> QED BY <2>2 DEF Worded
<1>6. /\ DOMAIN ans \subseteq DOMAIN conn[i]
      /\ \A x \in DOMAIN ans : ans[x] \in Msg
      /\ Says(i, n, ans)
  <2>1. DOMAIN ans = req /\ req \subseteq DOMAIN conn[i] /\ \A x \in req : ans[x] = a
    OBVIOUS
  <2>2. a.data = m.data /\ a.op = m.op /\ a.type \in {"response", "continued"}
    BY DEF Message
  <2>3. rel[2] \in Nat => a \in Msg
    BY <1>2 DEF Message, Msg
  <2> HIDE DEF ans, a, req
  <2>4. ASSUME NEW x \in req PROVE DownMsg(a, ends[x], data[ends[x]])
    <3>1. x # n /\ x \in Conns
      BY <1>4, <2>4 DEF Heard
    <3>2. ASSUME NEW k \in DOMAIN m.data PROVE ends[x] \notin Writer[k]
      <4>1. UpMsg(m, ends[n])
        BY <1>2, <1>4, <2>4
      <4>2. k \in Key /\ ends[n] \in Writer[k]
        BY <1>2, <3>2, <4>1, Payloads DEF UpMsg
      <4>3. ends[n] \in Client /\ ends[n] # Server
        BY <1>2, ChannelOf DEF IInv
      <4>4. ends[n] \notin Fragile
        BY <4>2, <4>3, Writers
      <4>5. ends[x] # ends[n]
        BY <1>2, <3>1, <4>4 DEF IInv, Connected
      <4> QED BY <4>2, <4>5, Writers
    <3> QED BY <2>2, <3>2 DEF DownMsg
  <2>5. Says(i, n, ans)
    BY <1>2, <1>4, <2>1, <2>2, <2>4 DEF Says, Heard
  <2> QED BY <1>4, <2>1, <2>3, <2>5
<1>7. /\ DOMAIN outs \subseteq DOMAIN conn[i]
      /\ \A x \in DOMAIN outs : outs[x] \in Msg
      /\ Says(i, n, outs)
  <2> HIDE DEF ans, pub
  <2> QED BY <1>5, <1>6, SaysBoth
<1>8. Updates(i, n)
  <2>1. data' = [data EXCEPT ![i] = Apply(@, m.op, n, m.data)]
    BY <1>1 DEF Apply
  <2> QED BY <1>1, <2>1, MessageUpdates
<1>9. /\ event' = [j \in Instance |-> event'[j]]
      /\ \A j \in Instance : RelayTable(j, event'[j], Heard)
  <2> DEFINE id == <<n, m.seq>>
             new == r.table
  <2>1. RelayTable(i, Reset(event[i], id, FALSE).table, Heard) /\ RelayTable(i, event[i], Heard)
    <3> HIDE DEF id
    <3> QED BY Steady, TableResets
  <2>2. new = Reset(event[i], id, FALSE).table \/ new = event[i]
    <3>1. CASE final
      BY <3>1
    <3>2. CASE ~final
      BY <3>2
    <3> QED BY <3>1, <3>2
  <2>3. event' = [event EXCEPT ![i] = new]
    BY <1>1
  <2> HIDE DEF new, id
  <2>4. RelayTable(i, new, Heard)
    BY <2>1, <2>2
  <2> QED BY <2>3, <2>4, Steady
<1>10. wait' \in [Instance -> Seq(Call)] /\ \A j \in Instance \ {i} : wait'[j] = wait[j]
  <2>1. CASE ended
    BY <1>1, <2>1, EndsWait
  <2>2. CASE ~ended
    BY <1>1, <2>2, Steady
  <2> QED BY <2>1, <2>2
<1>11. Tells(i, n, conn[i], outs)
  <2> DEFINE e  == {n} \cup req
             o  == "merge"
             pl == m.data
             d  == Merge(data[i], n, pl)
             cn == conn[i]
  <2>1. data' = [data EXCEPT ![i] = d] /\ pl \in Payload /\ data[i] \in Leaves
    BY <1>1, <1>2, Steady
  <2>2. /\ \A x \in DOMAIN ans : x \in req /\ ans[x].op = m.op /\ ans[x].data = pl
        /\ DOMAIN ans = req /\ m.op # "delete"
    BY <1>1 DEF Message
  <2>3. Joins(outs, ans, pub)
    <3> HIDE DEF ans, pub
    <3> QED BY DEF Both, Joins
  <2>4. pub = Publishing(cn, e, o, Log(data[i], o, pl)) /\ n \in e /\ o # "delete"
    OBVIOUS
  <2>5. \A k \in DOMAIN pl : k \in Key
    BY <2>1, Payloads
  <2>6. d = Apply(data[i], o, n, pl)
    BY DEF Apply
  <2> HIDE DEF pl, ans, pub, outs, m, req, o, cn
  <2>7. \A k \in DOMAIN pl : d[k].val = pl[k]
    BY <2>5 DEF Merge, Changed
  <2> HIDE DEF d
  <2>8. data'[i] = d
    BY <2>1, Steady
  <2>9. e \subseteq {n} \cup DOMAIN ans
    BY <2>2
  <2> HIDE DEF e
  <2>10. Answers(i, n, pl, ans)
    BY <2>2, <2>7, <2>8 DEF Answers
  <2>11. data'[i] = Apply(data[i], o, n, pl) /\ data[i] \in Leaves
    BY <2>1, <2>6, <2>8
  <2>12. Tells(i, n, cn, outs)
    BY <2>1, <2>3, <2>4, <2>9, <2>10, <2>11, HandlerTells
  <2> QED BY <2>12 DEF cn
<1>12. Counts(i, n) /\ Tabled
  BY <1>1, <1>2, <1>9, StillCounts, Steady DEF Tabled
<1>13. Stamps(i, n, conn[i], outs) /\ Replies(i, n, outs)
  <2> DEFINE e   == {n} \cup req
             o   == "merge"
             log == Log(data[i], o, m.data)
  <2>1. ASSUME NEW x \in DOMAIN ans PROVE Stamp(i, n, x, ans[x])
    <3>1. x = rel[1] /\ ans[x] = a /\ Answer(m) /\ m = net[n][In(i)][1]
      BY <1>1, <2>1, Taking DEF Answer
    <3>2. /\ a.seq = rel[2] /\ a.data = m.data /\ a.type # "request"
          /\ a.type = "response" => m.type = "response" /\ r.ret = rel
      BY DEF Message
    <3>3. m.type = "response" => r = Reset(event[i], <<n, m.seq>>, FALSE)
      OBVIOUS
    <3>4. rel = <<rel[1], rel[2]>>
      <4> DEFINE id == <<n, m.seq>>
      <4>1. RelayTable(i, event[i], Heard)
        BY Steady
      <4>2. Relay(event[i], id) \in Int \X Nat
        <5> HIDE DEF id
        <5> QED BY <4>1 DEF Relay, RelayTable, NoId
      <4> QED BY <4>2
    <3> HIDE DEF rel, r, a, ans, m
    <3> QED BY <1>2, <3>1, <3>2, <3>3, <3>4 DEF Stamp, rel
  <2>2. pub = Publishing(conn[i], e, o, log)
    OBVIOUS
  <2>3. Joins(outs, ans, pub)
    <3> HIDE DEF ans, pub
    <3> QED BY DEF Both, Joins
  <2>6. Replies(i, n, outs)
    <3>1. m = net[n][In(i)][1] /\ Answer(m)
      BY <1>1, Taking DEF Answer
    <3>2. DOMAIN ans = req /\ \A x \in req : ans[x].data = m.data
      BY DEF Message
    <3> HIDE DEF ans, pub, outs
    <3>3. \A x \in req : x \in DOMAIN outs /\ outs[x].data = m.data
      BY <2>3, <3>2 DEF Joins
    <3>4. \A x \in DOMAIN conn[i] : x = rel[1] => x \in req
      OBVIOUS
    <3> HIDE DEF req, m, rel
    <3> QED BY <1>1, <3>1, <3>3, <3>4 DEF Replies, rel
  <2> HIDE DEF e, o, log, ans, pub, outs
  <2>4. \A x \in DOMAIN pub : Stamp(i, n, x, pub[x])
    BY <2>2, PublishStamps
  <2>5. \A x \in DOMAIN outs : Stamp(i, n, x, outs[x])
    BY <2>1, <2>3, <2>4, JoinsStamps
  <2> QED BY <2>5, <2>6 DEF Stamps
<1> HIDE DEF outs
<1>14. Handles(i, n, conn[i], outs, failed)
  BY <1>1, <1>2, <1>3, <1>7, <1>8, <1>10, <1>11, <1>12, <1>13 DEF Handles, Greets
<1> QED BY <1>14

-----------------------------------------------------------------------------
(***************************************************************************)
(* Timers and connections.                                                 *)
(***************************************************************************)

\* A call that gives up is not the INIT of a client that writes.
LEMMA TimeoutKeeps ==
  ASSUME Usage, IInv, NEW i \in Instance, Timeout(i)
  PROVE  IInv'
<1>1. /\ wait[i] # <<>> /\ <<i, wait[i][Len(wait[i])].kind>> \in Late
      /\ wait' = [wait EXCEPT ![i] = Front(@)]
      /\ UNCHANGED <<data, ends, conn, disconn, backlog, net, stalled, broken, event, rootseq, nval>>
      /\ spent' = [spent EXCEPT !.timer = @ + 1]
  BY DEF Timeout, TimerRuns
<1>3. wait' \in [Instance -> Seq(Call)] /\ \A j \in Instance \ {i} : wait'[j] = wait[j]
  BY <1>1, EndsWait
<1>4. Typed'
  <2> DEFINE f == "timer"
  <2>1. spent' = [spent EXCEPT ![f] = @ + 1] /\ f \in {"delete", "sync", "timer", "break"}
    BY <1>1
  <2> HIDE DEF f
  <2>2. spent' \in Spent
    BY <2>1, Spends
  <2> QED BY <1>1, <1>3, <2>2 DEF IInv, Typed
<1>5. Waiting'
  <2>1. ASSUME NEW n \in Conns, ends[n] = i, i \in Writable PROVE wait[i][Len(wait[i])].kind # "init"
    BY SMTT(60), <1>1, <2>1 DEF Usage
  <2> QED BY SMTT(60), <1>1, <1>3, <2>1, ChannelOf DEF IInv, Waiting, Conns, Opens
<1>6. Connected' /\ Accepted' /\ Channels' /\ Fresh' /\ Relays' /\ Origins'
  BY <1>1 DEF IInv, Connected, Accepted, Channels, Fresh, Relays, Origins, Conns, Home, Heard, RelayTable
<1> QED BY <1>4, <1>5, <1>6 DEF IInv

\* waitevent_expire.
LEMMA ExpireKeeps ==
  ASSUME Usage, IInv, NEW i \in Instance, NEW id, Expire(i, id)
  PROVE  IInv'
<1> DEFINE new == Reset(event[i], id, TRUE).table
<1>1. /\ event' = [event EXCEPT ![i] = new]
      /\ UNCHANGED <<data, ends, conn, disconn, backlog, net, stalled, broken, wait, rootseq, nval>>
      /\ spent' = [spent EXCEPT !.timer = @ + 1]
  BY DEF Expire, TimerRuns
<1>2. RelayTable(i, new, Heard)
  BY Steady, TableResets
<1> HIDE DEF new
<1>3. event' = [j \in Instance |-> event'[j]] /\ \A j \in Instance : RelayTable(j, event'[j], Heard)
  BY <1>1, <1>2, Steady
<1>4. Typed' /\ Relays'
  <2> DEFINE f == "timer"
  <2>1. spent' = [spent EXCEPT ![f] = @ + 1] /\ f \in {"delete", "sync", "timer", "break"}
    BY <1>1
  <2> HIDE DEF f
  <2>2. spent' \in Spent
    BY <2>1, Spends
  <2> QED BY <1>1, <1>3, <2>2 DEF IInv, Typed, Relays, Heard, Conns, RelayTable
<1>5. Connected' /\ Accepted' /\ Channels' /\ Waiting' /\ Fresh' /\ Origins'
  BY <1>1 DEF IInv, Connected, Accepted, Channels, Waiting, Fresh, Origins, Conns, Home
<1> QED BY <1>4, <1>5 DEF IInv

\* A connection breaks.
LEMMA BreakKeeps ==
  ASSUME Usage, IInv, NEW n, Break(n)
  PROVE  IInv'
<1>1. /\ n \in Conns \ broken /\ ends[n] \in Fragile /\ broken' = broken \cup {n}
      /\ UNCHANGED <<data, ends, conn, disconn, backlog, net, event, wait, rootseq, nval>>
      /\ spent' = [spent EXCEPT !.break = @ + 1]
  BY DEF Break, NoChange, IInv, Typed, Conns
<1>2. Connected'
  BY <1>1 DEF IInv, Connected, Conns
<1>3. Accepted'
  BY <1>1 DEF IInv, Accepted, Conns
<1>4. Typed' /\ Channels' /\ Waiting'
  <2> DEFINE f == "break"
  <2>1. spent' = [spent EXCEPT ![f] = @ + 1] /\ f \in {"delete", "sync", "timer", "break"}
    BY <1>1
  <2> HIDE DEF f
  <2>2. spent' \in Spent
    BY <2>1, Spends
  <2> QED BY <1>1, <2>2 DEF IInv, Typed, Channels, Waiting, Conns
<1>5. Fresh' /\ Relays' /\ Origins'
  BY <1>1 DEF IInv, Fresh, Relays, Origins, Conns, Home, Heard, RelayTable
<1> QED BY <1>2, <1>3, <1>4, <1>5 DEF IInv

\* yconn_deferred_close: the end goes, and what was in its queue.
LEMMA NoticeKeeps ==
  ASSUME Usage, IInv, NEW i \in Instance, NEW n, Notice(i, n)
  PROVE  IInv'
<1> DEFINE cn == [x \in DOMAIN conn[i] \ {n} |-> conn[i][x]]
           q  == <<>>
           r  == [net[n] EXCEPT ![In(i)] = q]
           s  == conn[i][n].sendseq
<1>1. /\ n \in broken /\ n \in DOMAIN conn[i] /\ conn' = [conn EXCEPT ![i] = cn]
      /\ disconn' = IF i = Server THEN disconn ELSE [disconn EXCEPT ![i] = {s}]
      /\ net' = [net EXCEPT ![n][In(i)] = q]
      /\ UNCHANGED <<data, ends, backlog, broken, event, wait, rootseq, nval, spent>>
  BY DEF Notice, NoChange
<1>2. /\ n \in Conns /\ ends[n] \in Fragile /\ net[n] \in Channel
      /\ net \in Seq(Channel) /\ Len(net) = Len(ends) /\ conn[i] \in Table
      /\ conn \in [Instance -> Table] /\ disconn \in [Client -> SUBSET Nat]
      /\ i # Server => i \in Client
  BY <1>1, ChannelOf DEF IInv, Connected, Typed, Instance
<1>3. cn \in Table /\ s \in Nat
  <2>1. DOMAIN cn \in SUBSET Nat /\ cn \in [DOMAIN cn -> End] /\ conn[i][n] \in End
    BY <1>1, <1>2, Tables
  <2> HIDE DEF cn
  <2> QED BY <2>1, Tables DEF End
<1>4. /\ r \in Channel /\ r[In(i)] = <<>> /\ r[Out(i)] = net[n][Out(i)]
  <2>1. q \in Seq(Msg) /\ q = <<>>
    OBVIOUS
  <2>2. net[n] \in Channel /\ q \in Seq(Msg)
    BY <1>2, <2>1
  <2>3. r \in Channel /\ r[In(i)] = q /\ r[Out(i)] = net[n][Out(i)]
    <3> HIDE DEF q
    <3> QED BY <2>2, ChannelSet, Sides
  <2> HIDE DEF r
  <2> QED BY <2>1, <2>3
<1>5. net' = [net EXCEPT ![n] = r]
  BY <1>1, <1>2 DEF Conns
<1>6. /\ DOMAIN cn = DOMAIN conn[i] \ {n} /\ \A x \in DOMAIN cn : cn[x] = conn[i][x]
      /\ conn' = [conn EXCEPT ![i] = cn]
  BY <1>1
<1> HIDE DEF r, cn, s, q
<1>7. /\ net' \in Seq(Channel) /\ Len(net') = Len(ends)
      /\ \A x \in Conns : net'[x] = IF x = n THEN r ELSE net[x]
  BY <1>2, <1>4, <1>5, ExceptSeq DEF Conns
<1>8. /\ conn' \in [Instance -> Table] /\ disconn' \in [Client -> SUBSET Nat]
      /\ conn'[i] = cn /\ \A j \in Instance \ {i} : conn'[j] = conn[j]
      /\ \A c \in Client : disconn'[c] = disconn[c] \/ (i # Server /\ c = i)
  BY <1>1, <1>2, <1>3, <1>6
<1>9. Typed'
  BY <1>1, <1>7, <1>8 DEF IInv, Typed
<1>10. ASSUME NEW x \in Conns
       PROVE  /\ UpQueue(net'[x].up, ends[x]) /\ DownQueue(net'[x].down, ends[x], data[ends[x]])
              /\ Opens(net'[x].up) => Opens(net[x].up) /\ net'[x].down = <<>> /\ net'[x].up = net[x].up
              /\ Opens(net'[x].down) => Opens(net[x].down)
              /\ (i # Server \/ x # n) => net'[x].up = net[x].up
  <2>1. /\ UpQueue(net[x].up, ends[x]) /\ DownQueue(net[x].down, ends[x], data[ends[x]])
        /\ Opens(net[x].up) => net[x].down = <<>>
    BY DEF IInv, Channels
  <2>2. UpQueue(<<>>, ends[x]) /\ DownQueue(<<>>, ends[x], data[ends[x]]) /\ ~Opens(<<>>)
    BY DEF UpQueue, DownQueue, Opens
  <2>3. CASE x # n
    BY <1>7, <2>1, <2>3
  <2>4. CASE x = n /\ i = Server
    BY <1>4, <1>7, <2>1, <2>2, <2>4, Sides
  <2>5. CASE x = n /\ i # Server
    BY SMTT(60), <1>4, <1>7, <2>1, <2>2, <2>5, Sides
  <2> QED BY <2>3, <2>4, <2>5
<1>11. Channels' /\ Relays'
  BY <1>1, <1>10 DEF Channels, Conns, IInv, Relays, RelayTable, Heard
<1>12. Connected'
  <2>1. \A j \in Instance : /\ DOMAIN conn'[j] \subseteq DOMAIN conn[j]
                            /\ DOMAIN conn[j] \ DOMAIN conn'[j] \subseteq {n}
                            /\ \A x \in DOMAIN conn'[j] : conn'[j][x] = conn[j][x]
    BY <1>6, <1>8
  <2>2. \A c \in Client : c \in Instance /\ c # Server
    BY InstanceAssumption DEF Instance
  <2>3. ASSUME NEW c \in Client, disconn'[c] # {} PROVE DOMAIN conn'[c] = {} /\ c \in Fragile
    <3>1. CASE disconn'[c] = disconn[c]
      BY <2>1, <2>2, <2>3, <3>1 DEF IInv, Connected
    <3>2. CASE i # Server /\ c = i
      <4>1. ends[n] = c /\ \A x \in DOMAIN conn[c] : x = n
        BY <1>1, <3>2 DEF IInv, Connected
      <4> QED BY <1>2, <1>6, <1>8, <3>2, <4>1
    <3> QED BY <1>8, <3>1, <3>2
  <2>4. ASSUME NEW x \in Conns \ broken PROVE x \in DOMAIN conn'[ends[x]]
    BY <1>1, <2>1, ChannelOf DEF IInv, Connected
  <2> QED BY <1>1, <2>1, <2>2, <2>3, <2>4 DEF IInv, Connected, Conns
<1>13. Accepted'
  <2>1. \A x \in DOMAIN conn'[Server] : /\ x \in DOMAIN conn[Server] /\ conn'[Server][x] = conn[Server][x]
                                        /\ net'[x].up = net[x].up /\ x \in Conns
    BY <1>6, <1>8, <1>10 DEF IInv, Connected, Instance
  <2>2. DOMAIN conn[Server] \ DOMAIN conn'[Server] \subseteq broken
    BY <1>1, <1>6, <1>8 DEF Instance
  <2>3. \A j \in 1..Len(backlog) : net'[backlog[j]].up = net[backlog[j]].up
    BY <1>1, <1>10 DEF IInv, Accepted
  <2> QED BY <1>1, <2>1, <2>2, <2>3 DEF IInv, Accepted, Conns
<1>14. Waiting'
  BY <1>1, <1>10 DEF IInv, Waiting, Conns
<1>15. Fresh'
  <2>1. ASSUME NEW c \in Client, NEW k \in Key,
               \A x \in Conns : ends[x] = c => Opens(net'[x].up) /\ c \notin Fragile
        PROVE  c \in Writer[k] \/ data[c][k].val = 0
    BY <1>10, <2>1 DEF IInv, Fresh
  <2>2. ASSUME NEW c \in Client, NEW k \in Key,
               (\A x \in Conns : ends[x] = c => Opens(net'[x].up)) /\ c \in Writer[k]
        PROVE  data[Server][k].val = 0
    BY <1>10, <2>2 DEF IInv, Fresh
  <2> QED BY <1>1, <2>1, <2>2 DEF Fresh, Conns
<1>16. Origins'
  BY <1>1 DEF IInv, Origins, Home, Conns
<1> QED BY <1>9, <1>11, <1>12, <1>13, <1>14, <1>15, <1>16 DEF IInv

\* yconn_accept.
LEMMA AcceptKeeps ==
  ASSUME Usage, IInv, Accept
  PROVE  IInv'
<1> DEFINE h  == Head(backlog)
           cn == Both(One(h, AcceptedEnd), conn[Server])
<1>1. /\ backlog # <<>> /\ conn' = [conn EXCEPT ![Server] = cn] /\ backlog' = Tail(backlog)
      /\ UNCHANGED <<data, ends, disconn, net, broken, event, wait, rootseq, nval, spent>>
  BY DEF Accept, NoChange
<1>2. /\ backlog \in Seq(Nat) /\ Len(backlog) \in Nat /\ Len(backlog) > 0
      /\ h = backlog[1] /\ h \in Nat
      /\ backlog' \in Seq(Nat) /\ Len(backlog') = Len(backlog) - 1
      /\ \A j \in 1..Len(backlog') : backlog'[j] = backlog[j + 1] /\ j + 1 \in 2..Len(backlog)
  <2>1. backlog \in Seq(Nat) /\ Len(backlog) \in Nat
    BY DEF IInv, Typed
  <2>2. Len(backlog) > 0
    BY <1>1, <2>1, EmptySeq
  <2>3. /\ h = backlog[1] /\ h \in Nat /\ backlog' \in Seq(Nat) /\ Len(backlog') = Len(backlog) - 1
        /\ \A j \in 1..Len(backlog') : backlog'[j] = backlog[j + 1]
    BY <1>1, <2>1, HeadTailProperties
  <2> QED BY <2>1, <2>2, <2>3
<1>3. h \in Conns \ DOMAIN conn[Server] /\ Opens(net[h].up)
      /\ \A j \in 2..Len(backlog) : backlog[j] # h
  BY <1>2 DEF IInv, Accepted
<1>4. Server \in Instance /\ conn[Server] \in Table /\ conn \in [Instance -> Table]
  BY DEF Instance, IInv, Typed
<1>5. /\ DOMAIN cn = {h} \cup DOMAIN conn[Server] /\ cn[h] = AcceptedEnd
      /\ \A x \in DOMAIN conn[Server] : cn[x] = conn[Server][x]
  BY <1>3 DEF Both, One
<1>6. cn \in Table
  <2>1. AcceptedEnd \in End
    BY DEF AcceptedEnd, End
  <2>2. DOMAIN cn \in SUBSET Nat /\ \A x \in DOMAIN cn : cn[x] \in End
    BY <1>2, <1>4, <1>5, <2>1, Tables
  <2>3. cn = [x \in DOMAIN cn |-> cn[x]]
    BY DEF Both
  <2> HIDE DEF cn
  <2>4. cn \in [DOMAIN cn -> End]
    BY <2>2, <2>3
  <2> QED BY <2>2, <2>4, Tables
<1> HIDE DEF cn, h
<1>7. /\ conn' \in [Instance -> Table] /\ conn'[Server] = cn
      /\ \A j \in Instance \ {Server} : conn'[j] = conn[j]
  BY <1>1, <1>4, <1>6
<1>8. Typed'
  BY SMTT(60), <1>1, <1>2, <1>7 DEF IInv, Typed
<1>9. Connected'
  <2>1. \A c \in Client : c \in Instance /\ c # Server /\ conn'[c] = conn[c]
    BY <1>7, InstanceAssumption DEF Instance
  <2>2. \A j \in Instance : DOMAIN conn'[j] \subseteq Conns
    BY <1>3, <1>5, <1>7 DEF IInv, Connected
  <2>3. \A x \in Conns \ broken : x \in DOMAIN conn'[ends[x]]
    BY <2>1, ChannelOf DEF IInv, Connected
  <2> QED BY <1>1, <2>1, <2>2, <2>3 DEF IInv, Connected, Conns
<1>10. Accepted'
  <2>1. ASSUME NEW x \in DOMAIN conn'[Server]
        PROVE  /\ conn'[Server][x].status = "cond_client"
               /\ conn'[Server][x].writable = (ends[x] \in Writable /\ ~Opens(net[x].up))
               /\ conn'[Server][x].unsub = (ends[x] \in Unsub \/ Opens(net[x].up))
    <3>1. CASE x = h
      <4>1. conn'[Server][x] = AcceptedEnd /\ Opens(net[x].up)
        BY <1>3, <1>5, <1>7, <3>1
      <4>2. /\ AcceptedEnd.status = "cond_client"
            /\ AcceptedEnd.writable = FALSE /\ AcceptedEnd.unsub = TRUE
        BY DEF AcceptedEnd
      <4> QED BY <4>1, <4>2
    <3>2. CASE x # h
      BY <1>5, <1>7, <2>1, <3>2 DEF IInv, Accepted
    <3> QED BY <3>1, <3>2
  <2>2. ASSUME NEW j \in 1..Len(backlog')
        PROVE  /\ backlog'[j] \in Conns \ DOMAIN conn'[Server] /\ Opens(net[backlog'[j]].up)
               /\ \A y \in 1..Len(backlog') : backlog'[y] = backlog'[j] => y = j
    <3>1. j \in Nat /\ j + 1 \in 1..Len(backlog) /\ backlog'[j] = backlog[j + 1] /\ backlog[j + 1] # h
      <4>1. backlog'[j] = backlog[j + 1] /\ j + 1 \in 2..Len(backlog)
        BY <1>2
      <4>2. backlog[j + 1] # h
        BY <1>3, <4>1
      <4>3. j \in Nat /\ j + 1 \in 1..Len(backlog)
        BY <1>2
      <4> QED BY <4>1, <4>2, <4>3
    <3>2. backlog'[j] \in Conns \ DOMAIN conn'[Server] /\ Opens(net[backlog'[j]].up)
      <4> DEFINE b == backlog[j + 1]
      <4>1. b \in Conns \ DOMAIN conn[Server] /\ Opens(net[b].up) /\ b # h
        BY <3>1 DEF IInv, Accepted
      <4> HIDE DEF b
      <4>2. b \notin DOMAIN conn'[Server]
        BY <1>5, <1>7, <4>1
      <4>3. backlog'[j] = b
        BY <3>1 DEF b
      <4> QED BY <4>1, <4>2, <4>3
    <3>3. ASSUME NEW y \in 1..Len(backlog'), backlog'[y] = backlog'[j] PROVE y = j
      <4>1. y \in Nat /\ y + 1 \in 1..Len(backlog) /\ backlog[y + 1] = backlog[j + 1]
        BY <1>2, <3>1, <3>3
      <4>2. y + 1 = j + 1
        BY <3>1, <4>1 DEF IInv, Accepted
      <4> QED BY <3>1, <4>1, <4>2
    <3> QED BY <3>2, <3>3
  <2>3. ASSUME NEW x \in Conns \ broken
        PROVE  x \in DOMAIN conn'[Server] \/ \E j \in 1..Len(backlog') : backlog'[j] = x
    <3>1. CASE x \in DOMAIN conn[Server] \/ x = h
      BY <1>5, <1>7, <3>1
    <3>2. CASE x \notin DOMAIN conn[Server] /\ x # h
      <4>1. PICK j \in 1..Len(backlog) : backlog[j] = x
        BY <2>3, <3>2 DEF IInv, Accepted
      <4>2. j - 1 \in 1..Len(backlog') /\ j = (j - 1) + 1
        BY SMTT(60), <1>2, <3>2, <4>1
      <4>3. backlog'[j - 1] = backlog[j]
        BY <1>2, <4>2
      <4> QED BY <4>1, <4>2, <4>3
    <3> QED BY <3>1, <3>2
  <2> QED BY <1>1, <2>1, <2>2, <2>3 DEF Accepted, Conns
<1>11. Channels' /\ Waiting' /\ Fresh' /\ Relays' /\ Origins'
  BY <1>1 DEF IInv, Channels, Waiting, Fresh, Relays, Origins, Conns, Home, Heard, RelayTable
<1> QED BY <1>8, <1>9, <1>10, <1>11 DEF IInv

\* Whoever connects for the second time has lost the connection it had.
LEMMA ConnectsAgain ==
  ASSUME IInv, NEW c \in Client, Connect(c), NEW x \in Conns, ends[x] = c
  PROVE  x \in broken /\ c \in Fragile
<1>1. disconn[c] # {} \/ c \notin {ends[y] : y \in DOMAIN ends}
  BY DEF Connect
<1>2. DOMAIN ends = Conns
  BY DEF IInv, Typed, Conns
<1>3. disconn[c] # {}
  BY <1>1, <1>2
<1> QED BY <1>3 DEF IInv, Connected

\* ydb_connect and yconn_reopen_or_close.
LEMMA ConnectKeeps ==
  ASSUME Usage, IInv, NEW c \in Client, Connect(c)
  PROVE  IInv'
<1> DEFINE n    == Len(ends) + 1
           z    == IF disconn[c] = {} THEN 0 ELSE CHOOSE s \in disconn[c] : TRUE
           e    == ClientEnd(c, z)
           cn   == One(n, e)
           dump == IF c \in Writable THEN Dump(data[c]) ELSE NoData
           init == Message(IF c \in Unsub THEN "publish" ELSE "request", "init",
                           IF c \in Unsub THEN 0 ELSE cn[n].sendseq + 1, dump)
           q    == <<init>>
           ch   == [up |-> q, down |-> <<>>]
           tab  == [cn EXCEPT ![n].sendseq = @ + 1]
<1>1. /\ ends' = Append(ends, c) /\ backlog' = Append(backlog, n) /\ net' = Append(net, ch)
      /\ conn' = [conn EXCEPT ![c] = tab] /\ disconn' = [disconn EXCEPT ![c] = {}]
      /\ UNCHANGED <<data, broken, nval, spent>>
  BY DEF Connect
<1>2. IF c \in Unsub THEN UNCHANGED <<event, rootseq, dangling, wait>>
      ELSE Block(c, "init", NoData) /\ Register(c, <<0, rootseq[c] + 1>>, Kids(cn, {n}))
  BY DEF Connect
<1>3. /\ c \in Instance /\ c # Server /\ Server \in Instance
      /\ ends \in Seq(Client) /\ Len(ends) \in Nat /\ net \in Seq(Channel) /\ Len(net) = Len(ends)
      /\ backlog \in Seq(Nat) /\ conn \in [Instance -> Table] /\ disconn \in [Client -> SUBSET Nat]
      /\ data[c] \in Leaves /\ Conns = 1..Len(ends)
  BY InstanceAssumption DEF Instance, IInv, Typed, Conns
<1>4. z \in Nat
  BY <1>3
<1>5. e \in End /\ e.status = "client" /\ e.writable = (c \in Writable)
  <2> DEFINE w == c \in Writable
             u == c \in Unsub
  <2>1. e = [status |-> "client", writable |-> w, unsub |-> u, sendseq |-> z] /\ w \in BOOLEAN /\ u \in BOOLEAN
    BY DEF ClientEnd
  <2> HIDE DEF e, z, w, u
  <2>2. e \in End /\ e.status = "client" /\ e.writable = w
    BY <1>4, <2>1 DEF End
  <2> QED BY <2>2 DEF w
<1>6. dump \in Payload
  <2>1. NoData \in Payload /\ 0 \in Nat
    BY Steady
  <2>2. Dump(data[c]) \in Payload
    BY <1>3, <2>1, BlockOps
  <2> QED BY <2>1, <2>2
<1>7. n \in Nat /\ n \notin Conns /\ DOMAIN cn = {n} /\ cn[n] = e
  BY <1>3 DEF One, Conns
<1>8. tab \in Table /\ DOMAIN tab = {n} /\ tab[n].status = "client" /\ tab[n].writable = (c \in Writable)
  <2> DEFINE t == e.sendseq + 1
             f == [e EXCEPT !.sendseq = t]
  <2>1. t \in Nat
    BY <1>5 DEF End
  <2>2. f \in End /\ f.status = "client" /\ f.writable = (c \in Writable)
    <3> HIDE DEF e, t
    <3> QED BY <1>5, <2>1 DEF End
  <2>3. tab = [y \in {n} |-> f]
    <3>1. cn = [y \in {n} |-> e]
      BY DEF One
    <3> HIDE DEF e, n
    <3> QED BY <3>1
  <2> HIDE DEF f, tab
  <2>4. tab \in [{n} -> End] /\ {n} \in SUBSET Nat
    BY <1>7, <2>2, <2>3
  <2> QED BY <2>2, <2>3, <2>4, Tables
<1>9. /\ init \in Msg /\ init.op = "init" /\ init.data = dump
      /\ init.type = IF c \in Unsub THEN "publish" ELSE "request"
  <2> DEFINE sq == IF c \in Unsub THEN 0 ELSE cn[n].sendseq + 1
             ty == IF c \in Unsub THEN "publish" ELSE "request"
  <2>1. sq \in Nat /\ ty \in {"publish", "request"}
    BY <1>5, <1>7 DEF End
  <2>2. init = Message(ty, "init", sq, dump)
    OBVIOUS
  <2> HIDE DEF sq, ty, dump, init
  <2>3. init \in Msg /\ init.op = "init" /\ init.data = dump /\ init.type = ty
    BY <1>6, <2>1, <2>2 DEF Message, Msg
  <2> QED BY <2>3 DEF ty
<1> HIDE DEF tab, cn, e, z, init, dump
<1>10. /\ q \in Seq(Msg) /\ Len(q) = 1 /\ q[1] = init /\ q # <<>>
       /\ ch \in Channel /\ ch.up = q /\ ch.down = <<>>
  <2>1. /\ q \in Seq(Msg) /\ Len(q) = 1 /\ q[1] = init /\ q # <<>>
    <3> HIDE DEF Msg
    <3> QED BY <1>9
  <2> HIDE DEF q
  <2>2. ch \in Channel /\ ch.up = q /\ ch.down = <<>>
    BY <2>1 DEF Channel
  <2> QED BY <2>1, <2>2
<1> HIDE DEF q, ch
<1>11. /\ ends' \in Seq(Client) /\ Len(ends') = n /\ ends'[n] = c
       /\ \A x \in Conns : ends'[x] = ends[x]
       /\ net' \in Seq(Channel) /\ Len(net') = n /\ net'[n] = ch
       /\ \A x \in Conns : net'[x] = net[x]
       /\ backlog' \in Seq(Nat) /\ Len(backlog') = Len(backlog) + 1 /\ backlog'[Len(backlog) + 1] = n
       /\ \A j \in 1..Len(backlog) : backlog'[j] = backlog[j]
  <2>1. /\ ends' \in Seq(Client) /\ Len(ends') = Len(ends) + 1 /\ ends'[Len(ends) + 1] = c
        /\ \A x \in 1..Len(ends) : ends'[x] = ends[x]
    BY <1>1, <1>3, AppendProperties
  <2>2. /\ net' \in Seq(Channel) /\ Len(net') = Len(net) + 1 /\ net'[Len(net) + 1] = ch
        /\ \A x \in 1..Len(net) : net'[x] = net[x]
    BY <1>1, <1>3, <1>10, AppendProperties
  <2> HIDE DEF n
  <2>3. /\ backlog' \in Seq(Nat) /\ Len(backlog') = Len(backlog) + 1 /\ backlog'[Len(backlog) + 1] = n
        /\ \A j \in 1..Len(backlog) : backlog'[j] = backlog[j]
    BY <1>1, <1>3, <1>7, AppendProperties
  <2> QED BY <1>3, <2>1, <2>2, <2>3 DEF n
<1>12. Conns' = Conns \cup {n} /\ Len(backlog) \in Nat
  <2>1. Conns' = 1..n
    BY <1>11 DEF Conns
  <2> QED BY <1>3, <2>1
<1>13. /\ conn' \in [Instance -> Table] /\ conn'[c] = tab /\ \A j \in Instance \ {c} : conn'[j] = conn[j]
       /\ disconn' \in [Client -> SUBSET Nat] /\ disconn'[c] = {}
       /\ \A j \in Client \ {c} : disconn'[j] = disconn[j]
  BY <1>1, <1>3, <1>8
<1>14. /\ rootseq' \in [Instance -> Nat]
       /\ wait' \in [Instance -> Seq(Call)] /\ \A j \in Instance \ {c} : wait'[j] = wait[j]
       /\ event' = [j \in Instance |-> event'[j]]
       /\ \A j \in Instance : RelayTable(j, event'[j], Heard)
       /\ c \notin Unsub => wait'[c] # <<>> /\ wait'[c][Len(wait'[c])].kind = "init"
  <2>1. CASE c \in Unsub
    BY <1>2, <2>1, Steady
  <2>2. CASE c \notin Unsub
    <3>1. /\ rootseq' \in [Instance -> Nat]
          /\ wait' \in [Instance -> Seq(Call)] /\ \A j \in Instance \ {c} : wait'[j] = wait[j]
          /\ wait'[c] # <<>> /\ wait'[c][Len(wait'[c])].kind = "init"
      BY SMTT(60), <1>2, <1>3, <2>2, BlockKeeps, Steady
    <3> DEFINE p    == <<0, rootseq[c] + 1>>
               kids == Kids(cn, {n})
    <3>2. p \in Int \X Nat /\ ~(p[1] > 0)
      BY <1>3, Steady
    <3>3. Register(c, p, kids)
      BY <1>2, <2>2
    <3>4. /\ event' = [j \in Instance |-> event'[j]]
          /\ \A j \in Instance : RelayTable(j, event'[j], Heard)
      <4> HIDE DEF p, kids
      <4> QED BY <1>3, <3>2, <3>3, RegisterKeeps
    <3> QED BY <2>2, <3>1, <3>4
  <2> QED BY <2>1, <2>2
<1> HIDE DEF n
<1>15. Typed'
  BY <1>1, <1>11, <1>13, <1>14, Steady DEF Typed
<1>16. \A x \in Conns : ends[x] = c => x \in broken /\ c \in Fragile
  BY ConnectsAgain
<1>17. Connected'
  <2>1. \A j \in Instance : DOMAIN conn'[j] \subseteq Conns'
    BY <1>8, <1>12, <1>13 DEF IInv, Connected
  <2>2. \A b \in Client : b \in Instance /\ b # Server
    BY InstanceAssumption DEF Instance
  <2>3. ASSUME NEW b \in Client, NEW x \in DOMAIN conn'[b]
        PROVE  /\ ends'[x] = b /\ conn'[b][x].status = "client"
               /\ conn'[b][x].writable = (b \in Writable)
               /\ \A y \in DOMAIN conn'[b] : y = x
    <3>1. CASE b = c
      BY <1>8, <1>11, <1>13, <2>3, <3>1
    <3>2. CASE b # c
      <4>1. conn'[b] = conn[b] /\ x \in Conns
        BY <1>13, <2>2, <2>3, <3>2 DEF IInv, Connected
      <4> QED BY <1>11, <2>3, <4>1 DEF IInv, Connected
    <3> QED BY <3>1, <3>2
  <2>4. ASSUME NEW b \in Client, disconn'[b] # {} PROVE DOMAIN conn'[b] = {} /\ b \in Fragile
    BY <1>13, <2>2, <2>4 DEF IInv, Connected
  <2>5. broken' \subseteq Conns' /\ \A x \in broken' : ends'[x] \in Fragile
    BY <1>1, <1>11, <1>12 DEF IInv, Connected
  <2>6. ASSUME NEW x \in Conns' \ broken' PROVE x \in DOMAIN conn'[ends'[x]]
    <3>1. CASE x = n
      BY <1>8, <1>11, <1>13, <3>1
    <3>2. CASE x \in Conns
      <4>1. ends'[x] = ends[x] /\ ends[x] # c /\ ends[x] \in Instance /\ x \in DOMAIN conn[ends[x]]
        BY <1>1, <1>11, <1>16, <2>6, <3>2, ChannelOf DEF IInv, Connected
      <4> QED BY <1>13, <4>1
    <3> QED BY <1>12, <3>1, <3>2
  <2>7. ASSUME NEW x \in Conns', NEW y \in Conns', ends'[x] = ends'[y], ends'[y] \notin Fragile
        PROVE  x = y
    <3>1. CASE x \in Conns /\ y \in Conns
      BY <1>11, <2>7, <3>1 DEF IInv, Connected
    <3>2. CASE x = n \/ y = n
      BY <1>11, <1>12, <1>16, <2>7, <3>2
    <3> QED BY <1>12, <3>1, <3>2
  <2> QED BY <2>1, <2>3, <2>4, <2>5, <2>6, <2>7 DEF Connected
<1>18. Opens(net'[n].up) /\ net'[n].up[1] = init /\ net'[n].up = q
  BY <1>9, <1>10, <1>11 DEF Opens
<1>19. Accepted'
  <2>1. conn'[Server] = conn[Server] /\ DOMAIN conn[Server] \subseteq Conns
    BY <1>3, <1>13 DEF IInv, Connected
  <2>2. ASSUME NEW j \in 1..Len(backlog')
        PROVE  /\ backlog'[j] \in Conns' \ DOMAIN conn'[Server] /\ Opens(net'[backlog'[j]].up)
               /\ \A h \in 1..Len(backlog') : backlog'[h] = backlog'[j] => h = j
    <3>1. \A h \in 1..Len(backlog') : h \in 1..Len(backlog) \/ h = Len(backlog) + 1
      BY <1>11, <1>12
    <3>2. \A h \in 1..Len(backlog) : backlog[h] \in Conns \ DOMAIN conn[Server] /\ Opens(net[backlog[h]].up)
      BY DEF IInv, Accepted
    <3>3. CASE j \in 1..Len(backlog)
      <4>1. backlog'[j] = backlog[j] /\ backlog[j] \in Conns /\ backlog[j] # n
        BY <1>7, <1>11, <3>2, <3>3
      <4>2. ASSUME NEW h \in 1..Len(backlog'), backlog'[h] = backlog'[j] PROVE h = j
        <5>1. h \in 1..Len(backlog)
          BY <1>11, <3>1, <4>1, <4>2
        <5>2. backlog[h] = backlog[j]
          BY <1>11, <4>1, <4>2, <5>1
        <5> QED BY <3>3, <5>1, <5>2 DEF IInv, Accepted
      <4> QED BY ZenonT(60), <1>11, <1>12, <2>1, <3>2, <3>3, <4>1, <4>2
    <3>4. CASE j = Len(backlog) + 1
      <4>1. backlog'[j] = n /\ n \notin DOMAIN conn'[Server] /\ n \in Conns'
        BY <1>7, <1>11, <1>12, <2>1, <3>4
      <4>2. \A h \in 1..Len(backlog') : backlog'[h] = backlog'[j] => h = j
        BY <1>7, <1>11, <3>1, <3>2, <3>4, <4>1
      <4> QED BY <1>18, <4>1, <4>2
    <3> QED BY <3>1, <3>3, <3>4
  <2>3. ASSUME NEW x \in Conns' \ broken'
        PROVE  x \in DOMAIN conn'[Server] \/ \E j \in 1..Len(backlog') : backlog'[j] = x
    <3>1. \A j \in 1..Len(backlog) : j \in 1..Len(backlog')
      BY <1>11, <1>12
    <3>2. Len(backlog) + 1 \in 1..Len(backlog')
      BY <1>11, <1>12
    <3>3. CASE x = n
      BY <1>11, <3>2, <3>3
    <3>4. CASE x \in Conns
      BY <1>1, <1>11, <2>1, <2>3, <3>1, <3>4 DEF IInv, Accepted
    <3> QED BY <1>12, <3>3, <3>4
  <2>4. ASSUME NEW x \in DOMAIN conn'[Server]
        PROVE  /\ conn'[Server][x].status = "cond_client"
               /\ conn'[Server][x].writable = (ends'[x] \in Writable /\ ~Opens(net'[x].up))
               /\ conn'[Server][x].unsub = (ends'[x] \in Unsub \/ Opens(net'[x].up))
    <3>1. ends'[x] = ends[x] /\ net'[x] = net[x] /\ x \in DOMAIN conn[Server]
      BY <1>11, <2>1, <2>4
    <3> QED BY <2>1, <3>1 DEF IInv, Accepted
  <2> QED BY <2>2, <2>3, <2>4 DEF Accepted
<1>20. \A k \in DOMAIN dump : c \in Writer[k]
  <2>1. CASE c \in Writable
    <3>1. \A x \in Conns : ends[x] # c
      BY <1>16, <2>1 DEF Usage
    <3>2. \A k \in Key : c \in Writer[k] \/ data[c][k].val = 0
      BY <3>1 DEF IInv, Fresh
    <3>3. DOMAIN dump = Present(data[c])
      BY <2>1 DEF dump, Dump
    <3> QED BY <3>2, <3>3 DEF Present
  <2>2. CASE c \notin Writable
    BY <2>2, Steady DEF dump
  <2> QED BY <2>1, <2>2
<1>21. Channels'
  <2>1. UpQueue(q, c) /\ DownQueue(<<>>, c, data[c])
    BY <1>9, <1>10, <1>20 DEF UpQueue, UpMsg, DownQueue
  <2>2. ASSUME NEW x \in Conns'
        PROVE  /\ UpQueue(net'[x].up, ends'[x])
               /\ DownQueue(net'[x].down, ends'[x], data'[ends'[x]])
               /\ Opens(net'[x].up) => net'[x].down = <<>>
    <3>1. CASE x = n
      BY <1>1, <1>10, <1>11, <2>1, <3>1
    <3>2. CASE x \in Conns
      BY <1>1, <1>11, <3>2 DEF IInv, Channels
    <3> QED BY <1>12, <3>1, <3>2
  <2> QED BY <2>2 DEF Channels
<1>22. Waiting'
  <2>1. ASSUME NEW x \in Conns', ends'[x] \in Writable \ Unsub
        PROVE  /\ Opens(net'[x].up) \/ Opens(net'[x].down) =>
                    wait'[ends'[x]] # <<>> /\ wait'[ends'[x]][Len(wait'[ends'[x]])].kind = "init"
               /\ Opens(net'[x].up) => net'[x].up[1].data = Dump(data'[ends'[x]])
    <3>1. CASE x = n
      BY <1>1, <1>9, <1>11, <1>14, <1>18, <2>1, <3>1 DEF dump
    <3>2. CASE x \in Conns
      <4>1. ends'[x] = ends[x] /\ net'[x] = net[x] /\ ends[x] # c /\ ends[x] \in Instance
        BY <1>11, <1>16, <2>1, <3>2, ChannelOf DEF Usage, IInv
      <4>2. wait'[ends[x]] = wait[ends[x]]
        BY <1>14, <4>1
      <4> QED BY <1>1, <2>1, <3>2, <4>1, <4>2 DEF IInv, Waiting
    <3> QED BY <1>12, <3>1, <3>2
  <2> QED BY <2>1 DEF Waiting
<1>23. Fresh'
  <2>1. ASSUME NEW b \in Client, NEW k \in Key,
               \A x \in Conns' : ends'[x] = b => Opens(net'[x].up) /\ b \notin Fragile
        PROVE  b \in Writer[k] \/ data[b][k].val = 0
    <3>1. \A x \in Conns : ends[x] = b => Opens(net[x].up) /\ b \notin Fragile
      BY <1>11, <1>12, <2>1
    <3> QED BY <3>1 DEF IInv, Fresh
  <2>2. ASSUME NEW b \in Client, NEW k \in Key,
               (\A x \in Conns' : ends'[x] = b => Opens(net'[x].up)) /\ b \in Writer[k]
        PROVE  data[Server][k].val = 0
    <3>1. \A x \in Conns : ends[x] = b => Opens(net[x].up)
      BY <1>11, <1>12, <2>2
    <3> QED BY <2>2, <3>1 DEF IInv, Fresh
  <2> QED BY ZenonT(60), <1>1, <2>1, <2>2 DEF Fresh
<1>24. Relays'
  <2>1. Heard \subseteq Heard'
    BY <1>11, <1>12 DEF Heard
  <2> QED BY <1>14, <2>1 DEF Relays, RelayTable
<1>25. Origins'
  <2>1. ASSUME NEW i \in Instance, NEW k \in Key, NEW o, Home(i, k, o) PROVE Home(i, k, o)'
    BY <1>11, <1>12, <2>1 DEF Home
  <2> QED BY ZenonT(60), <1>1, <1>11, <1>12 DEF IInv, Origins, Home
<1> QED BY <1>15, <1>17, <1>19, <1>21, <1>22, <1>23, <1>24, <1>25 DEF IInv

-----------------------------------------------------------------------------
(***************************************************************************)
(* The invariant holds.                                                    *)
(***************************************************************************)

\* At the beginning nobody has a connection or data.
LEMMA InitHolds == Init => IInv
<1> SUFFICES ASSUME Init PROVE IInv
  OBVIOUS
<1>1. /\ ends = <<>> /\ backlog = <<>> /\ net = <<>> /\ broken = {}
      /\ Len(ends) = 0 /\ Conns = {}
  BY DEF Init, Conns
<1>2. Server \in Instance /\ \A c \in Client : c \in Instance
  BY DEF Instance
<1>3. conn = [i \in Instance |-> <<>>] /\ DOMAIN <<>> = {}
  BY DEF Init
<1>4. event = [i \in Instance |-> EmptyTable] /\ DOMAIN EmptyTable = {}
  BY DEF Init, EmptyTable
<1>5. data = [i \in Instance |-> [k \in Key |-> Absent]] /\ Absent.val = 0 /\ Absent.origin = 0
  BY DEF Init, Absent
<1>6. Typed
  <2>1. data \in [Instance -> Leaves]
    BY <1>5 DEF Leaves, Absent
  <2>2. <<>> \in Table
    <3>1. <<>> \in [{} -> End] /\ {} \in SUBSET Nat
      BY <1>3
    <3> QED BY <3>1, Tables
  <2>3. conn \in [Instance -> Table]
    BY <1>3, <2>2
  <2>4. wait \in [Instance -> Seq(Call)]
    BY DEF Init
  <2>5. ends \in Seq(Client) /\ backlog \in Seq(Nat) /\ net \in Seq(Channel) /\ Len(net) = Len(ends)
    BY <1>1
  <2>6. /\ disconn \in [Client -> SUBSET Nat] /\ rootseq \in [Instance -> Nat] /\ nval \in [Key -> Nat]
        /\ event = [i \in Instance |-> event[i]] /\ spent \in Spent
    BY <1>4 DEF Init, Spent
  <2> QED BY <2>1, <2>3, <2>4, <2>5, <2>6 DEF Typed
<1>7. \A i \in Instance : conn[i] = <<>> /\ DOMAIN conn[i] = {}
  BY <1>3
<1>8. Connected
  <2>1. \A c \in Client : disconn[c] = {}
    BY DEF Init
  <2> QED BY <1>1, <1>2, <1>7, <2>1 DEF Connected
<1>9. Accepted
  <2>1. Len(backlog) = 0
    BY <1>1
  <2> QED BY <1>1, <1>2, <1>7, <2>1 DEF Accepted
<1>10. Channels /\ Waiting
  BY <1>1 DEF Channels, Waiting
<1>11. \A i \in Instance, k \in Key : data[i][k].val = 0 /\ data[i][k].origin = 0
  BY <1>5
<1>12. Fresh /\ Origins
  BY <1>2, <1>11 DEF Fresh, Origins
<1>13. Relays
  BY SMTT(60), <1>4 DEF Relays, RelayTable
<1> QED BY <1>6, <1>8, <1>9, <1>10, <1>12, <1>13 DEF IInv

\* A step that changes nothing keeps it.
LEMMA StutterKeeps == IInv /\ UNCHANGED vars => IInv'
BY DEF vars, IInv, Typed, Connected, Accepted, Channels, Waiting, Fresh, Relays, Origins,
       Conns, Home, Heard, RelayTable

\* And so does every action.
LEMMA NextKeeps ==
  ASSUME Usage, IInv, [Next]_vars
  PROVE  IInv'
<1>1. ASSUME NEW i \in Instance, NEW k \in Key, NEW F \in SUBSET broken,
             Write(i, k, F) \/ Delete(i, k, F) PROVE IInv'
  BY <1>1, WriteHandles, DeleteHandles, HandlesKeeps
<1>2. ASSUME NEW c \in Client, Connect(c) PROVE IInv'
  BY <1>2, ConnectKeeps
<1>3. ASSUME Accept PROVE IInv'
  BY <1>3, AcceptKeeps
<1>4. ASSUME NEW n \in DOMAIN ends, NEW F \in SUBSET broken, RecvInit(n, F) PROVE IInv'
  <2>1. Server \in Instance
    BY DEF Instance
  <2> QED BY <1>4, <2>1, RecvInitHandles, HandlesKeeps
<1>5. ASSUME NEW i \in Instance, NEW n \in DOMAIN ends, NEW F \in SUBSET broken,
             \/ RecvPublish(i, n, F) \/ RecvSync(i, n, F)
             \/ \E buffered \in BOOLEAN : RecvAnswer(i, n, F, buffered) PROVE IInv'
  BY <1>5, RecvPublishHandles, RecvSyncHandles, RecvAnswerHandles, HandlesKeeps
<1>6. ASSUME NEW i \in Instance, NEW F \in SUBSET broken, Sync(i, F) PROVE IInv'
  BY <1>6, SyncHandles, HandlesKeeps
<1>7. ASSUME NEW i \in Instance, Timeout(i) \/ (\E id \in DOMAIN event[i] : Expire(i, id)) PROVE IInv'
  BY <1>7, TimeoutKeeps, ExpireKeeps
<1>8. ASSUME NEW n \in DOMAIN ends, Break(n) PROVE IInv'
  BY <1>8, BreakKeeps
<1>9. ASSUME NEW i \in Instance, NEW n \in broken, Notice(i, n) PROVE IInv'
  BY <1>9, NoticeKeeps
<1>10. ASSUME Undefined \/ UNCHANGED vars PROVE IInv'
  BY <1>10, StutterKeeps DEF Undefined
<1> QED BY <1>1, <1>2, <1>3, <1>4, <1>5, <1>6, <1>7, <1>8, <1>9, <1>10 DEF Next

\* Hence it holds always.
LEMMA Invariance == ASSUME Usage PROVE Spec => []IInv
<1>1. Init => IInv
  BY InitHolds
<1>2. IInv /\ [Next]_vars => IInv'
  BY NextKeeps
<1> QED BY <1>1, <1>2, PTL DEF Spec

\* Whatever is published, relayed, answered, merged again or lost, an instance holds
\* as its own only what it writes itself, and everything else under the connection
\* to its writer: the answers to SYNC (Mine) and whispers, which go by the origin,
\* find the writer (yconn_merge, ydb_fprintf_sub, yconn_whisper).
THEOREM ValuesComeFromTheirWriter == ASSUME Usage PROVE Spec => []OriginLeadsHome
<1>1. IInv => OriginLeadsHome
  BY DEF IInv, Origins, Home, OriginLeadsHome
<1> QED BY <1>1, Invariance, PTL
=============================================================================
