-------------------------- MODULE YdbIpcStoreProofs --------------------------
(***************************************************************************)
(* A shared data block is a replicated store until something is deleted:     *)
(* ImplementsStore of YdbIpc, for any number of clients, keys, messages,      *)
(* timers and broken connections, provided the instances keep to Usage.      *)
(*                                                                          *)
(* On its way from its writer to the server and from there to a client the    *)
(* value of a key rises: what an instance holds, what is in the queue behind  *)
(* it, from its first message to its last, what the instance at the other     *)
(* end holds.  Every handler (Handles of YdbIpcProofs) takes the first        *)
(* message of a queue and says what it holds then.                           *)
(***************************************************************************)
EXTENDS YdbIpcProofs

\* The values of k in queue q rise from lo to hi.
Rises(q, k, lo, hi) ==
  /\ lo <= hi
  /\ \A j \in 1..Len(q) : k \in DOMAIN q[j].data => lo <= q[j].data[k] /\ q[j].data[k] <= hi
  /\ \A h, j \in 1..Len(q) :
       h < j /\ k \in DOMAIN q[h].data /\ k \in DOMAIN q[j].data => q[h].data[k] <= q[j].data[k]

\* It has no deletes.
Keeps(q) == \A j \in 1..Len(q) : q[j].op # "delete"

\* The values of a message are numbers.
LEMMA DataNumbers ==
  ASSUME NEW m \in Msg, NEW k, k \in DOMAIN m.data
  PROVE  m.data[k] \in Nat
<1>1. m.data \in Payload
  BY DEF Msg
<1> QED BY <1>1, Payloads

\* A rising queue stays one when nothing is left in it, when the value behind it
\* rises, when that value is added, and when its first message has been taken.
LEMMA RisingQueues ==
  ASSUME NEW q \in Seq(Msg), NEW k, NEW lo \in Nat, NEW hi \in Nat, Rises(q, k, lo, hi)
  PROVE  /\ Rises(<<>>, k, lo, hi)
         /\ \A h \in Nat : hi <= h => Rises(q, k, lo, h)
         /\ \A m \in Msg : (k \in DOMAIN m.data => m.data[k] = hi) => Rises(Append(q, m), k, lo, hi)
         /\ q # <<>> =>
              /\ Rises(Tail(q), k, lo, hi)
              /\ k \in DOMAIN q[1].data =>
                   /\ lo <= q[1].data[k] /\ q[1].data[k] <= hi /\ q[1].data[k] \in Nat
                   /\ Rises(Tail(q), k, q[1].data[k], hi)
<1>1. /\ Len(q) \in Nat /\ \A j \in 1..Len(q) : q[j] \in Msg
      /\ \A j \in 1..Len(q) : k \in DOMAIN q[j].data => q[j].data[k] \in Nat
  BY Queues, DataNumbers
<1>2. Rises(<<>>, k, lo, hi)
  BY DEF Rises
<1>3. ASSUME NEW h \in Nat, hi <= h PROVE Rises(q, k, lo, h)
  BY <1>1, <1>3 DEF Rises
<1>4. ASSUME NEW m \in Msg, k \in DOMAIN m.data => m.data[k] = hi
      PROVE  Rises(Append(q, m), k, lo, hi)
  <2> DEFINE a == Append(q, m)
  <2>1. /\ Len(a) = Len(q) + 1 /\ \A j \in 1..Len(q) : a[j] = q[j]
        /\ a[Len(q) + 1] = m
    BY Queues
  <2> HIDE DEF a
  <2>2. ASSUME NEW j \in 1..Len(a), k \in DOMAIN a[j].data
        PROVE  lo <= a[j].data[k] /\ a[j].data[k] <= hi
    BY <1>1, <1>4, <2>1, <2>2 DEF Rises
  <2>3. ASSUME NEW h \in 1..Len(a), NEW j \in 1..Len(a), h < j,
               k \in DOMAIN a[h].data, k \in DOMAIN a[j].data
        PROVE  a[h].data[k] <= a[j].data[k]
    <3>1. h \in 1..Len(q) /\ a[h] = q[h]
      BY <1>1, <2>1, <2>3
    <3>2. CASE j \in 1..Len(q)
      BY <2>1, <2>3, <3>1, <3>2 DEF Rises
    <3>3. CASE j = Len(q) + 1
      BY <1>4, <2>1, <2>2, <2>3, <3>3
    <3> QED BY <2>1, <3>2, <3>3
  <2>4. lo <= hi
    BY DEF Rises
  <2>5. Rises(a, k, lo, hi)
    BY <2>2, <2>3, <2>4 DEF Rises
  <2> QED BY <2>5 DEF a
<1>5. ASSUME q # <<>>, NEW l \in Nat, l <= hi,
             \A j \in 2..Len(q) : k \in DOMAIN q[j].data => l <= q[j].data[k]
      PROVE  Rises(Tail(q), k, l, hi)
  <2> DEFINE t == Tail(q)
  <2>1. Len(t) = Len(q) - 1 /\ \A j \in 1..Len(t) : t[j] = q[j + 1] /\ j + 1 \in 2..Len(q)
    BY <1>5, Queues
  <2> HIDE DEF t
  <2>2. ASSUME NEW j \in 1..Len(t), k \in DOMAIN t[j].data
        PROVE  l <= t[j].data[k] /\ t[j].data[k] <= hi
    <3>1. t[j] = q[j + 1] /\ j + 1 \in 2..Len(q) /\ j + 1 \in 1..Len(q)
      BY <1>1, <2>1
    <3> QED BY <1>5, <2>2, <3>1 DEF Rises
  <2>3. ASSUME NEW h \in 1..Len(t), NEW j \in 1..Len(t), h < j,
               k \in DOMAIN t[h].data, k \in DOMAIN t[j].data
        PROVE  t[h].data[k] <= t[j].data[k]
    <3>1. t[h] = q[h + 1] /\ h + 1 \in 1..Len(q)
      BY SMTT(60), <1>1, <2>1
    <3>2. t[j] = q[j + 1] /\ j + 1 \in 1..Len(q)
      BY <1>1, <2>1
    <3>3. h + 1 < j + 1
      BY <1>1, <2>1, <2>3
    <3> QED BY <2>3, <3>1, <3>2, <3>3 DEF Rises
  <2>4. Rises(t, k, l, hi)
    BY <1>5, <2>2, <2>3 DEF Rises
  <2> QED BY <2>4 DEF t
<1>6. ASSUME q # <<>> PROVE Rises(Tail(q), k, lo, hi)
  BY <1>1, <1>5, <1>6 DEF Rises
<1>7. ASSUME q # <<>>, k \in DOMAIN q[1].data
      PROVE  /\ lo <= q[1].data[k] /\ q[1].data[k] <= hi /\ q[1].data[k] \in Nat
             /\ Rises(Tail(q), k, q[1].data[k], hi)
  <2>1. 1 \in 1..Len(q)
    BY <1>7, Queues
  <2>2. lo <= q[1].data[k] /\ q[1].data[k] <= hi /\ q[1].data[k] \in Nat
    BY <1>1, <1>7, <2>1 DEF Rises
  <2>3. \A j \in 2..Len(q) : k \in DOMAIN q[j].data => q[1].data[k] <= q[j].data[k]
    BY <1>1, <1>7, <2>1 DEF Rises
  <2> QED BY <1>5, <1>7, <2>2, <2>3
<1> QED BY <1>2, <1>3, <1>4, <1>6, <1>7

\* A queue without deletes.
LEMMA KeepingQueues ==
  ASSUME NEW q \in Seq(Msg), Keeps(q)
  PROVE  /\ Keeps(<<>>)
         /\ q # <<>> => Keeps(Tail(q)) /\ q[1].op # "delete"
         /\ \A m \in Msg : m.op # "delete" => Keeps(Append(q, m))
<1>1. Keeps(<<>>)
  BY DEF Keeps
<1>2. ASSUME q # <<>> PROVE Keeps(Tail(q)) /\ q[1].op # "delete"
  <2>1. 1 \in 1..Len(q) /\ Len(q) \in Nat /\ Len(Tail(q)) = Len(q) - 1
    BY <1>2, Queues
  <2>2. \A j \in 1..Len(q) - 1 : Tail(q)[j] = q[j + 1] /\ j + 1 \in 2..Len(q)
    BY <1>2, Queues
  <2> QED BY <2>1, <2>2 DEF Keeps
<1>3. ASSUME NEW m \in Msg, m.op # "delete" PROVE Keeps(Append(q, m))
  <2> DEFINE a == Append(q, m)
  <2>1. /\ Len(q) \in Nat /\ Len(a) = Len(q) + 1 /\ \A j \in 1..Len(q) : a[j] = q[j]
        /\ a[Len(q) + 1] = m
    BY Queues
  <2> HIDE DEF a
  <2>2. Keeps(a)
    BY <1>3, <2>1 DEF Keeps
  <2> QED BY <2>2 DEF a
<1> QED BY <1>1, <1>2, <1>3

-----------------------------------------------------------------------------
(***************************************************************************)
(* The invariant, as long as nothing is deleted.                           *)
(***************************************************************************)

\* The writer of a key has its last value, the server no older one than a client,
Written ==
  \A k \in Key, i \in Instance :
    /\ data[i][k].val <= nval[k]
    /\ i \in Writer[k] => data[i][k].val = nval[k]
    /\ i \in Client /\ i \notin Writer[k] => data[i][k].val <= data[Server][k].val

\* the values rise from the server to the writer, and from a client to the server,
Upward ==
  \A n \in Conns, k \in Key :
    ends[n] \in Writer[k] => Rises(net[n].up, k, data[Server][k].val, nval[k])
Downward ==
  \A n \in Conns, k \in Key :
    n \in DOMAIN conn[ends[n]] /\ ends[n] \notin Writer[k] =>
      Rises(net[n].down, k, data[ends[n]][k].val, data[Server][k].val)

\* and there are no deletes on the way.
Undeleted == \A n \in Conns : Keeps(net[n].up) /\ Keeps(net[n].down)

Rising == spent.delete = 0 => Written /\ Upward /\ Downward /\ Undeleted

\* What the invariant says where it applies: values and positions as numbers.
LEMMA Numbers ==
  ASSUME IInv, NEW i \in Instance, NEW k \in Key
  PROVE  data[i][k].val \in Nat /\ nval[k] \in Nat /\ spent.delete \in Nat /\ Server \in Instance
BY DEF IInv, Typed, Leaves, Spent, Instance

\* Where nothing has been deleted after a handler, nothing had been before.
LEMMA StillUndeleted ==
  ASSUME IInv, NEW i \in Instance, NEW n, NEW cn, NEW outs, NEW failed,
         Handles(i, n, cn, outs, failed), spent'.delete = 0
  PROVE  spent.delete = 0
<1>1. spent.delete \in Nat
  BY DEF IInv, Typed, Spent
<1> QED BY <1>1 DEF Handles, Counts

\* The message that a handler takes, in a queue that rises.
LEMMA TakenRises ==
  ASSUME Usage, IInv, Written, Upward, Downward, Undeleted, NEW i \in Instance,
         NEW n \in DOMAIN conn[i], net[n][In(i)] # <<>>, NEW k \in Key,
         k \in DOMAIN net[n][In(i)][1].data, i \notin Writer[k]
  PROVE  LET v == net[n][In(i)][1].data[k]
         IN /\ v \in Nat /\ data[i][k].val <= v /\ v <= nval[k]
            /\ i = Server => ends[n] \in Writer[k]
            /\ i # Server => v <= data[Server][k].val
<1>1. n \in Conns /\ data[i][k].val \in Nat /\ nval[k] \in Nat /\ data[Server][k].val \in Nat
      /\ net[n].up \in Seq(Msg) /\ net[n].down \in Seq(Msg) /\ Server \in Instance
  BY Numbers, ChannelOf DEF IInv, Connected
<1>2. CASE i = Server
  <2> DEFINE q == net[n].up
  <2>1. q # <<>> /\ net[n][In(i)] = q
    BY <1>2, Sides
  <2>2. ends[n] \in Writer[k]
    <3>1. Received(i, n) = q[1] /\ UpMsg(Received(i, n), ends[n])
      BY <1>2, <2>1, Taking
    <3> QED BY <2>1, <3>1 DEF UpMsg
  <2>3. Rises(q, k, data[Server][k].val, nval[k])
    BY <1>1, <2>2 DEF Upward
  <2> HIDE DEF q
  <2>4. q \in Seq(Msg)
    BY <1>1 DEF q
  <2>5. data[Server][k].val <= q[1].data[k] /\ q[1].data[k] <= nval[k] /\ q[1].data[k] \in Nat
    BY <1>1, <2>1, <2>3, <2>4, RisingQueues
  <2> QED BY <1>2, <2>1, <2>2, <2>5
<1>3. CASE i # Server
  <2> DEFINE q == net[n].down
  <2>1. q # <<>> /\ net[n][In(i)] = q
    BY <1>3, Sides
  <2>2. ends[n] = i /\ i \in Client
    BY <1>3 DEF IInv, Connected, Instance
  <2>3. Rises(q, k, data[i][k].val, data[Server][k].val)
    BY <1>1, <2>2 DEF Downward
  <2> HIDE DEF q
  <2>4. q \in Seq(Msg)
    BY <1>1 DEF q
  <2>5. data[i][k].val <= q[1].data[k] /\ q[1].data[k] <= data[Server][k].val /\ q[1].data[k] \in Nat
    BY <1>1, <2>1, <2>3, <2>4, RisingQueues
  <2>6. data[Server][k].val <= nval[k]
    BY <1>1 DEF Written
  <2> QED BY <1>1, <1>3, <2>1, <2>5, <2>6
<1> QED BY <1>2, <1>3

\* What a handler does to the values of i and to the last values.
Gains(i, n, k) ==
  /\ data'[i][k].val \in Nat /\ nval'[k] \in Nat
  /\ nval[k] <= nval'[k] /\ (nval'[k] # nval[k] => i \in Writer[k])
  /\ data[i][k].val <= data'[i][k].val /\ data'[i][k].val <= nval'[k]
  /\ i \in Writer[k] => data'[i][k].val = nval'[k]
  /\ i # Server /\ i \notin Writer[k] => data'[i][k].val <= data[Server][k].val
  /\ data'[i][k].val # data[i][k].val /\ i \notin Writer[k] =>
       /\ n # 0 /\ k \in DOMAIN net[n][In(i)][1].data
       /\ data'[i][k].val = net[n][In(i)][1].data[k]

LEMMA HandlerGains ==
  ASSUME Usage, IInv, Written, Upward, Downward, Undeleted, NEW i \in Instance, NEW n, NEW cn,
         NEW outs, NEW failed, Handles(i, n, cn, outs, failed), spent'.delete = 0, NEW k \in Key
  PROVE  Gains(i, n, k)
<1>1. /\ data[i][k].val \in Nat /\ nval[k] \in Nat /\ data[Server][k].val \in Nat
      /\ data'[i][k].val \in Nat /\ nval'[k] \in Nat
  <2>1. data' \in [Instance -> Leaves]
    BY HandlesData
  <2>2. nval' \in [Key -> Nat]
    BY DEF Handles, Counts
  <2> QED BY <2>1, <2>2, Numbers DEF Leaves
<1>2. /\ data[i][k].val <= nval[k]
      /\ i \in Writer[k] => data[i][k].val = nval[k]
      /\ i # Server /\ i \notin Writer[k] => data[i][k].val <= data[Server][k].val
  BY DEF Written, Instance
<1>3. \/ nval'[k] = nval[k] /\ (n = 0 => data'[i][k].val = data[i][k].val)
      \/ n = 0 /\ i \in Writer[k] /\ nval'[k] = nval[k] + 1 /\ data'[i][k].val = nval'[k]
  BY DEF Handles, Counts
<1>4. CASE n = 0
  BY <1>1, <1>2, <1>3, <1>4 DEF Gains
<1>5. CASE n # 0
  <2>1. n \in DOMAIN conn[i] /\ net[n][In(i)] # <<>> /\ nval'[k] = nval[k]
    BY <1>3, <1>5 DEF Handles
  <2>2. CASE data'[i][k].val = data[i][k].val
    BY <1>1, <1>2, <2>1, <2>2 DEF Gains
  <2>3. CASE data'[i][k].val # data[i][k].val
    <3>1. i \notin Writer[k] /\ k \in DOMAIN net[n][In(i)][1].data
      BY <1>5, <2>3, DataSteps
    <3>2. net[n][In(i)][1].op # "delete"
      <4>1. n \in Conns
        BY <2>1 DEF IInv, Connected
      <4>2. net[n].up \in Seq(Msg) /\ net[n].down \in Seq(Msg) /\ Keeps(net[n].up) /\ Keeps(net[n].down)
        BY <4>1, ChannelOf DEF IInv, Undeleted
      <4>3. net[n][In(i)] \in {net[n].up, net[n].down}
        BY DEF In
      <4> QED BY <2>1, <4>2, <4>3, KeepingQueues
    <3>3. data'[i] = Merge(data[i], n, net[n][In(i)][1].data)
      <4>1. data'[i] # data[i]
        BY SMTT(60), <2>3
      <4> QED BY <1>5, <3>2, <4>1 DEF Handles, Updates, Apply
    <3>4. data'[i][k].val = net[n][In(i)][1].data[k]
      BY <2>3, <3>1, <3>3 DEF Merge, Changed
    <3>5. /\ data[i][k].val <= net[n][In(i)][1].data[k] /\ net[n][In(i)][1].data[k] <= nval[k]
          /\ i # Server => net[n][In(i)][1].data[k] <= data[Server][k].val
      BY <2>1, <3>1, TakenRises
    <3> QED BY <1>1, <1>5, <2>1, <3>1, <3>4, <3>5 DEF Gains
  <2> QED BY <2>2, <2>3
<1> QED BY <1>4, <1>5

\* The other instances keep what they have.
LEMMA OthersKeep ==
  ASSUME IInv, NEW i \in Instance, NEW n, NEW cn, NEW outs, NEW failed,
         Handles(i, n, cn, outs, failed)
  PROVE  \A j \in Instance : j # i => data'[j] = data[j] /\ conn'[j] = conn[j]
<1>1. data' = [data EXCEPT ![i] = data'[i]]
  BY DEF Handles, Updates
<1>2. Effects(i, n, cn, outs, failed)
  BY HandlesEffects DEF IInv
<1> QED BY <1>1, <1>2 DEF IInv, Typed, Effects

\* The writer and the clients are not ahead of what comes before them,
LEMMA WrittenKeeps ==
  ASSUME Usage, IInv, Written, Upward, Downward, Undeleted, NEW i \in Instance, NEW n, NEW cn,
         NEW outs, NEW failed, Handles(i, n, cn, outs, failed), spent'.delete = 0
  PROVE  Written'
<1> SUFFICES ASSUME NEW k \in Key, NEW j \in Instance
             PROVE  /\ data'[j][k].val <= nval'[k]
                    /\ j \in Writer[k] => data'[j][k].val = nval'[k]
                    /\ j \in Client /\ j \notin Writer[k] => data'[j][k].val <= data'[Server][k].val
  BY DEF Written
<1>1. Gains(i, n, k)
  BY HandlerGains
<1>2. /\ data[j][k].val \in Nat /\ nval[k] \in Nat /\ data[Server][k].val \in Nat
      /\ Server \in Instance /\ data[i][k].val \in Nat
  BY Numbers
<1>3. /\ j # i => data'[j] = data[j]
      /\ i # Server => data'[Server] = data[Server]
  BY <1>2, OthersKeep
<1>4. /\ data[j][k].val <= nval[k] /\ (j \in Writer[k] => data[j][k].val = nval[k])
      /\ j \in Client /\ j \notin Writer[k] => data[j][k].val <= data[Server][k].val
  BY DEF Written
<1>5. j \in Client => j # Server
  BY InstanceAssumption
<1>6. CASE j = i
  BY <1>1, <1>2, <1>3, <1>5, <1>6 DEF Gains
<1>7. CASE j # i
  <2>1. j \in Writer[k] => nval'[k] = nval[k]
    BY <1>1, <1>7, Writers DEF Gains
  <2>2. data[Server][k].val <= data'[Server][k].val /\ data'[Server][k].val \in Nat
    BY <1>1, <1>2, <1>3 DEF Gains
  <2> QED BY <1>1, <1>2, <1>3, <1>4, <1>7, <2>1, <2>2 DEF Gains
<1> QED BY <1>6, <1>7

\* What a handler sends has the values that i holds then, and no deletes.
Current(i, outs) ==
  \A x \in DOMAIN outs :
    /\ outs[x] \in Msg /\ outs[x].op # "delete"
    /\ \A k \in DOMAIN outs[x].data : outs[x].data[k] = data'[i][k].val

LEMMA OutsCurrent ==
  ASSUME Usage, IInv, Undeleted, NEW i \in Instance, NEW n, NEW cn, NEW outs, NEW failed,
         Handles(i, n, cn, outs, failed), spent'.delete = 0
  PROVE  Current(i, outs)
<1>1. /\ Tells(i, n, cn, outs) /\ (\A x \in DOMAIN outs : outs[x] \in Msg)
      /\ n # 0 => n \in DOMAIN conn[i] /\ net[n][In(i)] # <<>>
  BY DEF Handles
<1>2. n # 0 => net[n][In(i)][1].op # "delete"
  <2>1. n # 0 => n \in Conns
    BY <1>1 DEF IInv, Connected
  <2>2. n # 0 => /\ net[n].up \in Seq(Msg) /\ net[n].down \in Seq(Msg)
                 /\ Keeps(net[n].up) /\ Keeps(net[n].down)
    BY <2>1, ChannelOf DEF IInv, Undeleted
  <2>3. net[n][In(i)] \in {net[n].up, net[n].down}
    BY DEF In
  <2> QED BY <1>1, <2>2, <2>3, KeepingQueues
<1> QED BY <1>1, <1>2 DEF Tells, Val, Current

\* The queues of a connection after a handler: the one it reads may lose its first
\* message, or all where the send failed; the one it writes may get another.
Reads(i, n, failed, x, old, new) ==
  new = IF x \in failed THEN <<>> ELSE IF x = n THEN Tail(old) ELSE old
Writes(i, outs, x, old, new) ==
  new = IF x \in DOMAIN outs \ broken THEN Append(old, outs[x]) ELSE old

LEMMA QueueMoves ==
  ASSUME IInv, NEW i \in Instance, NEW n, NEW cn, NEW outs, NEW failed,
         Handles(i, n, cn, outs, failed), NEW x \in Conns
  PROVE  /\ net[x].up \in Seq(Msg) /\ net[x].down \in Seq(Msg)
         /\ x \in failed => x \in broken
         /\ x = n => net[x][In(i)] # <<>> /\ n # 0
         /\ i = Server => Reads(i, n, failed, x, net[x].up, net'[x].up)
                          /\ Writes(i, outs, x, net[x].down, net'[x].down)
         /\ i # Server => Reads(i, n, failed, x, net[x].down, net'[x].down)
                          /\ Writes(i, outs, x, net[x].up, net'[x].up)
<1>1. Effects(i, n, cn, outs, failed)
  BY HandlesEffects DEF IInv
<1>2. x # 0 /\ net[x].up \in Seq(Msg) /\ net[x].down \in Seq(Msg)
  BY ChannelOf DEF IInv, Conns
<1>3. x = n => net[x][In(i)] # <<>>
  BY <1>2 DEF Handles
<1>4. x \in failed => x \in broken
  BY <1>1 DEF Effects
<1>5. Reads(i, n, failed, x, net[x][In(i)], net'[x][In(i)])
  BY <1>1 DEF Effects, Reads
<1>6. Writes(i, outs, x, net[x][Out(i)], net'[x][Out(i)])
  BY <1>1 DEF Effects, Writes
<1>7. i = Server => In(i) = "up" /\ Out(i) = "down"
  BY Sides
<1>8. i # Server => In(i) = "down" /\ Out(i) = "up"
  BY Sides
<1> QED BY <1>2, <1>3, <1>4, <1>5, <1>6, <1>7, <1>8

\* No deletes appear,
LEMMA UndeletedKeeps ==
  ASSUME Usage, IInv, Undeleted, NEW i \in Instance, NEW n, NEW cn, NEW outs, NEW failed,
         Handles(i, n, cn, outs, failed), spent'.delete = 0
  PROVE  Undeleted'
<1> SUFFICES ASSUME NEW x \in Conns PROVE Keeps(net'[x].up) /\ Keeps(net'[x].down)
  BY DEF Undeleted, Conns, Handles
<1>1. Keeps(net[x].up) /\ Keeps(net[x].down)
      /\ net[x].up \in Seq(Msg) /\ net[x].down \in Seq(Msg)
  BY QueueMoves DEF Undeleted
<1>2. Current(i, outs)
  BY OutsCurrent
<1>3. ASSUME NEW q \in Seq(Msg), Keeps(q), NEW r, Reads(i, n, failed, x, q, r), x = n => q # <<>>
      PROVE  Keeps(r)
  BY <1>3, KeepingQueues DEF Reads
<1>4. ASSUME NEW q \in Seq(Msg), Keeps(q), NEW r, Writes(i, outs, x, q, r)
      PROVE  Keeps(r)
  <2>1. x \in DOMAIN outs => outs[x] \in Msg /\ outs[x].op # "delete"
    BY <1>2 DEF Current
  <2> QED BY <1>4, <2>1, KeepingQueues DEF Writes
<1>5. CASE i = Server
  <2>1. /\ Reads(i, n, failed, x, net[x].up, net'[x].up)
        /\ Writes(i, outs, x, net[x].down, net'[x].down)
        /\ x = n => net[x].up # <<>>
    BY <1>5, QueueMoves, Sides
  <2>2. Keeps(net'[x].up)
    BY <1>1, <1>3, <2>1
  <2>3. Keeps(net'[x].down)
    BY <1>1, <1>4, <2>1
  <2> QED BY <2>2, <2>3
<1>6. CASE i # Server
  <2>1. /\ Reads(i, n, failed, x, net[x].down, net'[x].down)
        /\ Writes(i, outs, x, net[x].up, net'[x].up)
        /\ x = n => net[x].down # <<>>
    BY <1>6, QueueMoves, Sides
  <2>2. Keeps(net'[x].down)
    BY <1>1, <1>3, <2>1
  <2>3. Keeps(net'[x].up)
    BY <1>1, <1>4, <2>1
  <2> QED BY <2>2, <2>3
<1> QED BY <1>5, <1>6

\* A queue that is read still rises, and one that is written.
Advances(q, r, k, lo, l) ==
  \/ r = q /\ l = lo
  \/ q # <<>> /\ r = Tail(q) /\ (l = lo \/ (k \in DOMAIN q[1].data /\ l = q[1].data[k]))

LEMMA ReadRises ==
  ASSUME NEW q \in Seq(Msg), NEW k, NEW lo \in Nat, NEW hi \in Nat, Rises(q, k, lo, hi),
         NEW r, NEW l \in Nat, Advances(q, r, k, lo, l)
  PROVE  Rises(r, k, l, hi)
<1>1. CASE r = q /\ l = lo
  BY <1>1
<1>2. CASE q # <<>> /\ r = Tail(q) /\ l = lo
  BY <1>2, RisingQueues
<1>3. CASE q # <<>> /\ r = Tail(q) /\ k \in DOMAIN q[1].data /\ l = q[1].data[k]
  BY <1>3, RisingQueues
<1> QED BY <1>1, <1>2, <1>3 DEF Advances

LEMMA WriteRises ==
  ASSUME NEW q \in Seq(Msg), NEW k, NEW lo \in Nat, NEW hi \in Nat, Rises(q, k, lo, hi),
         NEW i, NEW outs, Current(i, outs), NEW x, NEW r, Writes(i, outs, x, q, r),
         NEW h \in Nat, hi <= h, h = data'[i][k].val
  PROVE  Rises(r, k, lo, h)
<1>1. Rises(q, k, lo, h)
  BY RisingQueues
<1>2. CASE x \in DOMAIN outs \ broken
  <2>1. outs[x] \in Msg /\ (k \in DOMAIN outs[x].data => outs[x].data[k] = h) /\ r = Append(q, outs[x])
    BY <1>2 DEF Current, Writes
  <2> QED BY <1>1, <2>1, RisingQueues
<1>3. CASE x \notin DOMAIN outs \ broken
  BY <1>1, <1>3 DEF Writes
<1> QED BY <1>2, <1>3

\* and the values rise on the way up
LEMMA UpwardKeeps ==
  ASSUME Usage, IInv, Written, Upward, Downward, Undeleted, NEW i \in Instance, NEW n, NEW cn,
         NEW outs, NEW failed, Handles(i, n, cn, outs, failed), spent'.delete = 0
  PROVE  Upward'
<1> SUFFICES ASSUME NEW x \in Conns, NEW k \in Key, ends[x] \in Writer[k]
             PROVE  Rises(net'[x].up, k, data'[Server][k].val, nval'[k])
  BY DEF Upward, Conns, Handles
<1> DEFINE w  == ends[x]
           q  == net[x].up
           r  == net'[x].up
           lo == data[Server][k].val
           hi == nval[k]
           l  == data'[Server][k].val
           h  == nval'[k]
<1>1. /\ w \in Client /\ w # Server /\ w \notin Fragile /\ x \notin broken /\ w \in Writer[k]
      /\ \A j \in Writer[k] : j = w
      /\ \A y \in Conns : ends[y] = w => y = x
  <2>1. w \in Client /\ w # Server
    BY ChannelOf, InstanceAssumption DEF IInv
  <2>2. w \notin Fragile /\ \A j \in Writer[k] : j = w
    BY <2>1, Writers
  <2> QED BY <2>1, <2>2 DEF IInv, Connected
<1>2. Rises(q, k, lo, hi) /\ lo \in Nat /\ hi \in Nat /\ q \in Seq(Msg) /\ Server \in Instance
  BY Numbers, ChannelOf DEF IInv, Upward
<1>3. Gains(i, n, k)
  BY HandlerGains
<1>4. x \notin failed
  BY <1>1, QueueMoves
<1>5. CASE i = Server
  <2>1. Reads(i, n, failed, x, q, r) /\ (x = n => q # <<>>)
    BY <1>5, QueueMoves, Sides
  <2>2. h = hi /\ l \in Nat
    BY <1>1, <1>3, <1>5 DEF Gains
  <2>3. l # lo => x = n /\ k \in DOMAIN q[1].data /\ l = q[1].data[k]
    <3>1. l # lo => /\ n # 0 /\ k \in DOMAIN net[n].up[1].data /\ l = net[n].up[1].data[k]
      BY <1>1, <1>3, <1>5, Sides DEF Gains
    <3>2. n # 0 => n \in DOMAIN conn[i] /\ n \in Conns /\ net[n][In(i)] # <<>>
      BY DEF Handles, IInv, Connected
    <3>3. l # lo => ends[n] \in Writer[k]
      BY <1>1, <1>5, <3>1, <3>2, TakenRises, Sides
    <3> QED BY <1>1, <3>1, <3>2, <3>3
  <2> HIDE DEF q, r, lo, hi, l, h
  <2>4. Advances(q, r, k, lo, l)
    BY <1>4, <2>1, <2>3 DEF Reads, Advances
  <2>5. Rises(r, k, l, hi)
    BY <1>2, <2>2, <2>4, ReadRises
  <2> QED BY <2>2, <2>5 DEF r, l, h
<1>6. CASE i = w
  <2>1. Writes(i, outs, x, q, r)
    BY <1>1, <1>6, QueueMoves
  <2>2. h \in Nat /\ hi <= h /\ h = data'[i][k].val
    BY <1>1, <1>3, <1>6 DEF Gains
  <2>3. l = lo
    BY <1>1, <1>2, <1>6, OthersKeep
  <2>4. Current(i, outs)
    BY OutsCurrent
  <2> HIDE DEF q, r, lo, hi, l, h
  <2>5. Rises(r, k, lo, h)
    BY <1>2, <2>1, <2>2, <2>4, WriteRises
  <2> QED BY <2>3, <2>5 DEF r, l, h
<1>7. CASE i # Server /\ i # w
  <2>1. x \notin DOMAIN outs
    <3>1. DOMAIN outs \subseteq DOMAIN conn[i] /\ i \in Client
      BY <1>7 DEF Handles, Flags, Instance
    <3> QED BY <1>7, <3>1 DEF IInv, Connected
  <2>2. r = q
    BY <1>7, <2>1, QueueMoves DEF Writes
  <2>3. h = hi
    BY <1>1, <1>3, <1>7 DEF Gains
  <2>4. l = lo
    BY <1>2, <1>7, OthersKeep
  <2> QED BY <1>2, <2>2, <2>3, <2>4
<1> QED BY <1>5, <1>6, <1>7

\* and on the way down.
LEMMA DownwardKeeps ==
  ASSUME Usage, IInv, Written, Upward, Downward, Undeleted, NEW i \in Instance, NEW n, NEW cn,
         NEW outs, NEW failed, Handles(i, n, cn, outs, failed), spent'.delete = 0
  PROVE  Downward'
<1> SUFFICES ASSUME NEW x \in Conns, NEW k \in Key, x \in DOMAIN conn'[ends[x]], ends[x] \notin Writer[k]
             PROVE  Rises(net'[x].down, k, data'[ends[x]][k].val, data'[Server][k].val)
  BY DEF Downward, Conns, Handles
<1> DEFINE c  == ends[x]
           q  == net[x].down
           r  == net'[x].down
           lo == data[c][k].val
           hi == data[Server][k].val
           l  == data'[c][k].val
           h  == data'[Server][k].val
<1>1. c \in Client /\ c # Server /\ c \in Instance /\ Server \in Instance /\ c \notin Writer[k]
  BY ChannelOf, InstanceAssumption DEF IInv, Instance
<1>2. x \in DOMAIN conn[c] /\ (i = c => x \notin failed)
  <2>1. Effects(i, n, cn, outs, failed) /\ DOMAIN cn = DOMAIN conn[i]
    BY HandlesEffects DEF IInv, Handles, Flags
  <2>2. CASE i = c
    BY <2>1, <2>2 DEF Effects
  <2>3. CASE i # c
    BY <1>1, <2>3, OthersKeep
  <2> QED BY <2>2, <2>3
<1>3. Rises(q, k, lo, hi) /\ lo \in Nat /\ hi \in Nat /\ q \in Seq(Msg)
  BY <1>1, <1>2, Numbers, ChannelOf DEF IInv, Downward
<1>4. Gains(i, n, k)
  BY HandlerGains
<1>5. CASE i = Server
  <2>1. Writes(i, outs, x, q, r)
    BY <1>5, QueueMoves
  <2>2. h \in Nat /\ hi <= h /\ h = data'[i][k].val
    BY <1>4, <1>5 DEF Gains
  <2>3. l = lo
    BY <1>1, <1>5, OthersKeep
  <2>4. Current(i, outs)
    BY OutsCurrent
  <2> HIDE DEF q, r, lo, hi, l, h
  <2>5. Rises(r, k, lo, h)
    BY <1>3, <2>1, <2>2, <2>4, WriteRises
  <2> QED BY <2>3, <2>5 DEF r, l, h
<1>6. CASE i = c
  <2>1. Reads(i, n, failed, x, q, r) /\ (x = n => q # <<>>)
    BY <1>1, <1>6, QueueMoves, Sides
  <2>2. h = hi /\ l \in Nat
    BY <1>1, <1>4, <1>6, OthersKeep DEF Gains
  <2>3. l # lo => x = n /\ k \in DOMAIN q[1].data /\ l = q[1].data[k]
    <3>1. l # lo => /\ n # 0 /\ k \in DOMAIN net[n].down[1].data /\ l = net[n].down[1].data[k]
      BY <1>1, <1>4, <1>6, Sides DEF Gains
    <3>2. n # 0 => n \in DOMAIN conn[c]
      BY <1>6 DEF Handles
    <3>3. n # 0 => n = x
      BY <1>1, <1>2, <3>2 DEF IInv, Connected
    <3> QED BY <3>1, <3>3
  <2>4. x \notin failed
    BY <1>2, <1>6
  <2> HIDE DEF c, q, r, lo, hi, l, h
  <2>5. Advances(q, r, k, lo, l)
    BY <2>1, <2>3, <2>4 DEF Reads, Advances
  <2>6. Rises(r, k, l, hi)
    BY <1>3, <2>2, <2>5, ReadRises
  <2> QED BY <2>2, <2>6 DEF c, r, l, h
<1>7. CASE i # Server /\ i # c
  <2>1. r = q
    <3>1. Reads(i, n, failed, x, q, r) /\ (x \in failed => x \in DOMAIN outs)
      BY <1>7, QueueMoves, HandlesEffects DEF IInv, Effects
    <3>2. DOMAIN outs \subseteq DOMAIN conn[i] /\ i \in Client /\ (n = 0 \/ n \in DOMAIN conn[i])
      BY <1>7 DEF Handles, Flags, Instance
    <3>3. x \notin DOMAIN conn[i]
      BY <1>7, <3>2 DEF IInv, Connected
    <3>4. x # 0
      BY DEF Conns
    <3> QED BY <3>1, <3>2, <3>3, <3>4 DEF Reads
  <2>2. h = hi /\ l = lo
    BY <1>1, <1>7, OthersKeep
  <2> QED BY <1>3, <2>1, <2>2
<1> QED BY <1>5, <1>6, <1>7

\* A handler.
LEMMA HandlerRises ==
  ASSUME Usage, IInv, Rising, NEW i \in Instance, NEW n, NEW cn, NEW outs, NEW failed,
         Handles(i, n, cn, outs, failed)
  PROVE  Rising'
<1> SUFFICES ASSUME spent'.delete = 0 PROVE Written' /\ Upward' /\ Downward' /\ Undeleted'
  BY DEF Rising
<1>1. Written /\ Upward /\ Downward /\ Undeleted
  BY StillUndeleted DEF Rising
<1> QED BY <1>1, WrittenKeeps, UpwardKeeps, DownwardKeeps, UndeletedKeeps

-----------------------------------------------------------------------------
(***************************************************************************)
(* The other steps.                                                        *)
(***************************************************************************)

\* Steps that lose messages and ends at most.
LEMMA QuietRises ==
  ASSUME Usage, IInv, Rising, UNCHANGED <<data, ends, nval>>, spent'.delete = spent.delete,
         \A x \in Conns : net'[x].up \in {net[x].up, <<>>} /\ net'[x].down \in {net[x].down, <<>>},
         \A c \in Client : DOMAIN conn'[c] \subseteq DOMAIN conn[c]
  PROVE  Rising'
<1> SUFFICES ASSUME spent.delete = 0 PROVE Written' /\ Upward' /\ Downward' /\ Undeleted'
  BY DEF Rising
<1>1. Written /\ Upward /\ Downward /\ Undeleted /\ Conns' = Conns
  BY DEF Rising, Conns
<1>2. ASSUME NEW q \in Seq(Msg), NEW r \in {q, <<>>}
      PROVE  /\ Keeps(q) => Keeps(r)
             /\ \A k : \A lo, hi \in Nat : Rises(q, k, lo, hi) => Rises(r, k, lo, hi)
  BY SMTT(60), KeepingQueues, RisingQueues
<1>3. \A x \in Conns : net[x].up \in Seq(Msg) /\ net[x].down \in Seq(Msg) /\ ends[x] \in Client
  BY ChannelOf DEF IInv
<1>4. Written'
  BY <1>1 DEF Written
<1>5. Upward'
  <2> SUFFICES ASSUME NEW x \in Conns, NEW k \in Key, ends[x] \in Writer[k]
               PROVE  Rises(net'[x].up, k, data[Server][k].val, nval[k])
    BY <1>1 DEF Upward
  <2>1. Rises(net[x].up, k, data[Server][k].val, nval[k])
    BY <1>1 DEF Upward
  <2>2. data[Server][k].val \in Nat /\ nval[k] \in Nat
    BY Numbers DEF Instance
  <2> QED BY <1>2, <1>3, <2>1, <2>2
<1>6. Downward'
  <2> SUFFICES ASSUME NEW x \in Conns, NEW k \in Key, x \in DOMAIN conn[ends[x]], ends[x] \notin Writer[k]
               PROVE  Rises(net'[x].down, k, data[ends[x]][k].val, data[Server][k].val)
    BY <1>1, <1>3 DEF Downward
  <2>1. Rises(net[x].down, k, data[ends[x]][k].val, data[Server][k].val)
    BY <1>1 DEF Downward
  <2>2. data[Server][k].val \in Nat /\ data[ends[x]][k].val \in Nat
    BY <1>3, Numbers DEF Instance
  <2> QED BY <1>2, <1>3, <2>1, <2>2
<1>7. Undeleted'
  BY <1>1, <1>2, <1>3 DEF Undeleted
<1> QED BY <1>4, <1>5, <1>6, <1>7

\* yconn_deferred_close.
LEMMA NoticeRises ==
  ASSUME Usage, IInv, Rising, NEW i \in Instance, NEW n, Notice(i, n)
  PROVE  Rising'
<1> DEFINE q  == <<>>
           r  == [net[n] EXCEPT ![In(i)] = q]
           cn == [x \in DOMAIN conn[i] \ {n} |-> conn[i][x]]
<1>1. /\ UNCHANGED <<data, ends, nval, spent>> /\ n \in DOMAIN conn[i]
      /\ net' = [net EXCEPT ![n][In(i)] = q]
      /\ conn' = [conn EXCEPT ![i] = cn]
  BY DEF Notice
<1>2. n \in Conns /\ DOMAIN net = Conns /\ net[n] \in Channel /\ DOMAIN conn = Instance
  BY <1>1, ChannelOf DEF IInv, Typed, Connected, Conns
<1>3. net' = [net EXCEPT ![n] = r]
  BY <1>1, <1>2
<1>4. q = <<>> /\ r.up \in {net[n].up, q} /\ r.down \in {net[n].down, q}
  <2>1. q = <<>>
    OBVIOUS
  <2> HIDE DEF q
  <2> QED BY <1>2, <2>1, Sides DEF Channel
<1> HIDE DEF r, q
<1>5. \A x \in Conns : net'[x].up \in {net[x].up, <<>>} /\ net'[x].down \in {net[x].down, <<>>}
  BY <1>2, <1>3, <1>4
<1>6. DOMAIN cn \subseteq DOMAIN conn[i]
  OBVIOUS
<1> HIDE DEF cn
<1>7. \A c \in Client : DOMAIN conn'[c] \subseteq DOMAIN conn[c]
  BY <1>1, <1>2, <1>6 DEF Instance
<1> QED BY <1>1, <1>5, <1>7, QuietRises

\* yconn_accept, timers and faults.
LEMMA OthersRise ==
  ASSUME Usage, IInv, Rising, \/ Accept \/ UNCHANGED vars
                              \/ \E i \in Instance : Timeout(i) \/ \E id \in DOMAIN event[i] : Expire(i, id)
                              \/ \E n \in DOMAIN ends : Break(n)
  PROVE  Rising'
<1>1. /\ UNCHANGED <<data, ends, nval, net>>
      /\ \/ spent' = spent \/ spent' = [spent EXCEPT !.timer = @ + 1]
         \/ spent' = [spent EXCEPT !.break = @ + 1]
      /\ \/ conn' = conn
         \/ \E t : conn' = [conn EXCEPT ![Server] = t]
  BY DEF Accept, Timeout, Expire, Break, TimerRuns, vars
<1>2. spent'.delete = spent.delete
  BY <1>1 DEF IInv, Typed, Spent
<1>3. \A c \in Client : conn'[c] = conn[c]
  BY <1>1, InstanceAssumption DEF IInv, Typed, Instance
<1> QED BY <1>1, <1>2, <1>3, QuietRises

\* A connection starts with INIT, which has what the client holds if it may write.
LEMMA Opened ==
  ASSUME Usage, IInv, NEW c \in Client, Connect(c)
  PROVE  \E m, n :
           /\ m.op = "init" /\ m.data = (IF c \in Writable THEN Dump(data[c]) ELSE NoData)
           /\ Conns' = Conns \cup {n}
           /\ n \notin Conns
           /\ ends'[n] = c /\ net'[n].up = <<m>> /\ net'[n].down = <<>> /\ DOMAIN conn'[c] = {n}
           /\ \A x \in Conns : ends'[x] = ends[x] /\ net'[x] = net[x]
           /\ \A j \in Instance \ {c} : conn'[j] = conn[j]
<1> DEFINE n  == Len(ends) + 1
           z  == IF disconn[c] = {} THEN 0 ELSE CHOOSE s \in disconn[c] : TRUE
           cn == One(n, ClientEnd(c, z))
           ty == IF c \in Unsub THEN "publish" ELSE "request"
           sq == IF c \in Unsub THEN 0 ELSE cn[n].sendseq + 1
           pl == IF c \in Writable THEN Dump(data[c]) ELSE NoData
           m  == Message(ty, "init", sq, pl)
           ch == [up |-> <<m>>, down |-> <<>>]
           tab == [cn EXCEPT ![n].sendseq = @ + 1]
<1>1. /\ ends' = Append(ends, c) /\ net' = Append(net, ch)
      /\ conn' = [conn EXCEPT ![c] = tab]
  BY DEF Connect
<1>2. /\ c \in Instance /\ ends \in Seq(Client) /\ Len(ends) \in Nat /\ Len(net) = Len(ends)
      /\ DOMAIN conn = Instance /\ Conns = 1..Len(ends) /\ net \in Seq(Channel)
  BY DEF Instance, IInv, Typed, Conns
<1>3. DOMAIN tab = {n}
  BY DEF One
<1>4. m.op = "init" /\ m.data = (IF c \in Writable THEN Dump(data[c]) ELSE NoData)
  BY DEF Message
<1> HIDE DEF z, cn, ty, sq, pl, m, tab
<1>5. ch.up = <<m>> /\ ch.down = <<>>
  OBVIOUS
<1> HIDE DEF ch
<1>6. /\ Len(ends') = n /\ ends'[n] = c /\ \A x \in Conns : ends'[x] = ends[x]
  BY <1>1, <1>2
<1>7. net'[n] = ch /\ \A x \in Conns : net'[x] = net[x]
  <2> HIDE DEF Channel
  <2> QED BY <1>1, <1>2
<1>8. Conns' = Conns \cup {n} /\ n \notin Conns
  BY <1>2, <1>6 DEF Conns
<1>9. DOMAIN conn'[c] = {n} /\ \A j \in Instance \ {c} : conn'[j] = conn[j]
  BY <1>1, <1>2, <1>3
<1> HIDE DEF n
<1> QED BY <1>4, <1>5, <1>6, <1>7, <1>8, <1>9

\* The dump of a writer has the last values.
LEMMA ConnectRises ==
  ASSUME Usage, IInv, Rising, NEW c \in Client, Connect(c)
  PROVE  Rising'
<1>1. UNCHANGED <<data, nval, spent>>
  BY DEF Connect
<1> SUFFICES ASSUME spent.delete = 0 PROVE Written' /\ Upward' /\ Downward' /\ Undeleted'
  BY <1>1 DEF Rising
<1>2. Written /\ Upward /\ Downward /\ Undeleted
  BY DEF Rising
<1>3. PICK m, n :
           /\ m.op = "init" /\ m.data = (IF c \in Writable THEN Dump(data[c]) ELSE NoData)
           /\ Conns' = Conns \cup {n}
           /\ n \notin Conns
           /\ ends'[n] = c /\ net'[n].up = <<m>> /\ net'[n].down = <<>> /\ DOMAIN conn'[c] = {n}
           /\ \A x \in Conns : ends'[x] = ends[x] /\ net'[x] = net[x]
           /\ \A j \in Instance \ {c} : conn'[j] = conn[j]
  BY Opened
<1>4. c \in Instance /\ Server \in Instance
  BY DEF Instance
<1>5. Written'
  BY <1>1, <1>2 DEF Written
<1>6. Upward'
  <2> SUFFICES ASSUME NEW x \in Conns', NEW k \in Key, ends'[x] \in Writer[k]
               PROVE  Rises(net'[x].up, k, data[Server][k].val, nval[k])
    BY <1>1 DEF Upward
  <2>1. CASE x \in Conns
    BY <1>2, <1>3, <2>1 DEF Upward
  <2>2. CASE x = n
    <3>1. /\ data[Server][k].val \in Nat /\ nval[k] \in Nat /\ data[Server][k].val <= nval[k]
          /\ data[c][k].val = nval[k]
      BY <1>2, <1>3, <1>4, <2>2, Numbers DEF Written
    <3>2. k \in DOMAIN m.data => m.data[k] = nval[k]
      BY <1>3, <3>1 DEF NoData, Dump
    <3>3. Rises(<<m>>, k, data[Server][k].val, nval[k])
      BY <3>1, <3>2 DEF Rises
    <3> QED BY <1>3, <2>2, <3>3
  <2> QED BY <1>3, <2>1, <2>2
<1>7. Downward'
  <2> SUFFICES ASSUME NEW x \in Conns', NEW k \in Key, x \in DOMAIN conn'[ends'[x]],
                      ends'[x] \notin Writer[k]
               PROVE  Rises(net'[x].down, k, data[ends'[x]][k].val, data[Server][k].val)
    BY <1>1 DEF Downward
  <2>1. CASE x \in Conns
    <3>1. ends'[x] = ends[x] /\ ends[x] \in Instance /\ net'[x] = net[x]
      BY <1>3, <2>1, ChannelOf DEF IInv
    <3>2. ends[x] # c
      BY <1>3, <2>1, <3>1
    <3>3. x \in DOMAIN conn[ends[x]]
      BY <1>3, <3>1, <3>2
    <3> QED BY <1>2, <2>1, <3>1, <3>3 DEF Downward
  <2>2. CASE x = n
    <3>1. data[c][k].val \in Nat /\ data[Server][k].val \in Nat /\ data[c][k].val <= data[Server][k].val
      BY <1>2, <1>3, <1>4, <2>2, Numbers DEF Written
    <3>2. Rises(<<>>, k, data[c][k].val, data[Server][k].val)
      BY <3>1 DEF Rises
    <3> QED BY <1>3, <2>2, <3>2
  <2> QED BY <1>3, <2>1, <2>2
<1>8. Undeleted'
  <2>1. Keeps(<<m>>) /\ Keeps(<<>>)
    BY <1>3 DEF Keeps
  <2> QED BY <1>2, <1>3, <2>1 DEF Undeleted
<1> QED BY <1>5, <1>6, <1>7, <1>8

\* In the beginning there is nothing,
LEMMA InitRises == ASSUME Init PROVE Rising
<1>1. Conns = {}
  BY DEF Init, Conns
<1>2. \A i \in Instance, k \in Key : data[i][k].val = 0 /\ nval[k] = 0
  BY DEF Init, Absent
<1>3. Written
  BY <1>2 DEF Written, Instance
<1> QED BY <1>1, <1>3 DEF Rising, Upward, Downward, Undeleted

\* and every step keeps the values rising.
LEMMA NextRises ==
  ASSUME Usage, IInv, Rising, [Next]_vars
  PROVE  Rising'
<1>1. ASSUME NEW i \in Instance, NEW k \in Key, NEW F \in SUBSET broken,
             Write(i, k, F) \/ Delete(i, k, F) PROVE Rising'
  BY <1>1, WriteHandles, DeleteHandles, HandlerRises
<1>2. ASSUME NEW c \in Client, Connect(c) PROVE Rising'
  BY <1>2, ConnectRises
<1>3. ASSUME NEW n \in DOMAIN ends, NEW F \in SUBSET broken, RecvInit(n, F) PROVE Rising'
  <2>1. Server \in Instance
    BY DEF Instance
  <2> QED BY <1>3, <2>1, RecvInitHandles, HandlerRises
<1>4. ASSUME NEW i \in Instance, NEW n \in DOMAIN ends, NEW F \in SUBSET broken,
             \/ RecvPublish(i, n, F) \/ RecvSync(i, n, F)
             \/ \E buffered \in BOOLEAN : RecvAnswer(i, n, F, buffered) PROVE Rising'
  BY <1>4, RecvPublishHandles, RecvSyncHandles, RecvAnswerHandles, HandlerRises
<1>5. ASSUME NEW i \in Instance, NEW F \in SUBSET broken, Sync(i, F) PROVE Rising'
  BY <1>5, SyncHandles, HandlerRises
<1>6. ASSUME Accept PROVE Rising'
  BY <1>6, OthersRise
<1>7. ASSUME NEW i \in Instance, Timeout(i) \/ (\E id \in DOMAIN event[i] : Expire(i, id)) PROVE Rising'
  BY <1>7, OthersRise
<1>8. ASSUME NEW n \in DOMAIN ends, Break(n) PROVE Rising'
  BY <1>8, OthersRise
<1>9. ASSUME NEW i \in Instance, NEW n \in broken, Notice(i, n) PROVE Rising'
  BY <1>9, NoticeRises
<1>10. ASSUME Undefined \/ UNCHANGED vars PROVE Rising'
  BY <1>10, OthersRise DEF Undefined
<1> QED BY <1>1, <1>2, <1>3, <1>4, <1>5, <1>6, <1>7, <1>8, <1>9, <1>10 DEF Next

-----------------------------------------------------------------------------
(***************************************************************************)
(* The refinement.                                                         *)
(***************************************************************************)

\* A handler that writes nothing learns.
LEMMA HandlerLearns ==
  ASSUME Usage, IInv, Rising, NEW i \in Instance, NEW n, NEW cn, NEW outs, NEW failed,
         Handles(i, n, cn, outs, failed), spent'.delete = 0, nval' = nval
  PROVE  Store!Next
<1>1. Written /\ Upward /\ Downward /\ Undeleted
  BY StillUndeleted DEF Rising
<1>2. \A k \in Key : Gains(i, n, k)
  BY <1>1, HandlerGains
<1>3. \A k \in Key : Values[i][k] <= Values'[i][k] /\ Values'[i][k] <= nval[k]
  BY <1>2 DEF Values, Gains
<1>4. Values' = [Values EXCEPT ![i] = Values'[i]]
  BY OthersKeep DEF Values
<1>5. Store!Learn(i)
  BY <1>3, <1>4 DEF Store!Learn
<1> QED BY <1>5 DEF Store!Next

\* ydb_write puts the next value.
LEMMA WritePuts ==
  ASSUME Usage, IInv, Rising, NEW i \in Instance, NEW k \in Key, NEW failed, Write(i, k, failed),
         spent'.delete = 0
  PROVE  Store!Next
<1> DEFINE v  == nval[k] + 1
           pl == One(k, v)
           d  == Merge(data[i], 0, pl)
<1>1. /\ i \in Writer[k] /\ nval' = [nval EXCEPT ![k] = v] /\ data' = [data EXCEPT ![i] = d]
      /\ spent' = spent
  BY DEF Write
<1>2. /\ data \in [Instance -> Leaves] /\ nval \in [Key -> Nat] /\ data[i] \in Leaves
      /\ data[i][k].val = nval[k]
  BY <1>1 DEF IInv, Typed, Rising, Written
<1>3. \A x \in Key : d[x].val = IF x = k THEN v ELSE data[i][x].val
  <2>1. DOMAIN pl = {k} /\ pl[k] = v
    BY DEF One
  <2> HIDE DEF pl, v
  <2>2. ASSUME NEW x \in Key, x # k PROVE d[x].val = data[i][x].val
    BY <2>1, <2>2 DEF Merge
  <2>3. d[k].val = v
    BY <2>1 DEF Merge, Changed
  <2> QED BY <2>2, <2>3
<1>4. Values' = [Values EXCEPT ![i][k] = v]
  <2> DEFINE e == [Values[i] EXCEPT ![k] = v]
  <2>1. e = [x \in Key |-> d[x].val]
    BY <1>3 DEF Values
  <2>2. \A j \in Instance : data'[j] = IF j = i THEN d ELSE data[j]
    BY <1>1, <1>2
  <2> HIDE DEF d
  <2>3. Values' = [Values EXCEPT ![i] = e]
    <3> HIDE DEF e
    <3> QED BY <2>1, <2>2 DEF Values
  <2> QED BY <2>3
<1>5. Values[i][k] = nval[k]
  BY <1>2 DEF Values
<1>6. Store!Put(i, k)
  BY <1>1, <1>4, <1>5 DEF Store!Put
<1> QED BY <1>6 DEF Store!Next

\* ydb_delete ends the promise.
LEMMA DeleteSpends ==
  ASSUME IInv, NEW i \in Instance, NEW k \in Key, NEW failed, Delete(i, k, failed)
  PROVE  spent'.delete # 0
BY DEF Delete, IInv, Typed, Spent

\* Every step is one of the store, or leaves it alone.
LEMMA StepImplements ==
  ASSUME Usage, IInv, Rising, [Next]_vars, spent'.delete = 0
  PROVE  Store!Next \/ UNCHANGED <<nval, Values>>
<1>1. ASSUME NEW i \in Instance, NEW k \in Key, NEW F \in SUBSET broken,
             Write(i, k, F) \/ Delete(i, k, F) PROVE Store!Next
  BY <1>1, WritePuts, DeleteSpends
<1>2. ASSUME NEW c \in Client, Connect(c) PROVE UNCHANGED <<nval, data>>
  BY <1>2 DEF Connect
<1>3. ASSUME NEW n \in DOMAIN ends, NEW F \in SUBSET broken, RecvInit(n, F) PROVE Store!Next
  <2>1. Server \in Instance /\ nval' = nval
    BY <1>3 DEF Instance, RecvInit
  <2> QED BY <1>3, <2>1, RecvInitHandles, HandlerLearns
<1>4. ASSUME NEW i \in Instance, NEW n \in DOMAIN ends, NEW F \in SUBSET broken,
             \/ RecvPublish(i, n, F) \/ RecvSync(i, n, F)
             \/ \E buffered \in BOOLEAN : RecvAnswer(i, n, F, buffered) PROVE Store!Next
  <2>1. nval' = nval
    BY <1>4 DEF RecvPublish, RecvSync, RecvAnswer
  <2> QED BY <1>4, <2>1, RecvPublishHandles, RecvSyncHandles, RecvAnswerHandles, HandlerLearns
<1>5. ASSUME NEW i \in Instance, NEW F \in SUBSET broken, Sync(i, F) PROVE Store!Next
  <2>1. nval' = nval
    BY <1>5 DEF Sync
  <2> QED BY <1>5, <2>1, SyncHandles, HandlerLearns
<1>6. ASSUME Accept PROVE UNCHANGED <<nval, data>>
  BY <1>6 DEF Accept
<1>7. ASSUME NEW i \in Instance, Timeout(i) \/ (\E id \in DOMAIN event[i] : Expire(i, id))
      PROVE  UNCHANGED <<nval, data>>
  BY <1>7 DEF Timeout, Expire
<1>8. ASSUME NEW n \in DOMAIN ends, Break(n) PROVE UNCHANGED <<nval, data>>
  BY <1>8 DEF Break
<1>9. ASSUME NEW i \in Instance, NEW n \in broken, Notice(i, n) PROVE UNCHANGED <<nval, data>>
  BY <1>9 DEF Notice
<1>10. ASSUME Undefined \/ UNCHANGED vars PROVE UNCHANGED <<nval, data>>
  BY <1>10 DEF Undefined, vars
<1>11. UNCHANGED <<nval, data>> => UNCHANGED <<nval, Values>>
  BY DEF Values
<1> QED BY <1>1, <1>2, <1>3, <1>4, <1>5, <1>6, <1>7, <1>8, <1>9, <1>10, <1>11 DEF Next

LEMMA InitImplements == ASSUME Init PROVE Store!Init
BY DEF Init, Store!Init, Values, Absent

\* Whatever overtakes what, whatever connection breaks and whoever gives up waiting,
\* an instance never falls back to an older value before something is deleted, and a
\* writer has its last one: the merges of publications, of relayed answers and of
\* INIT dumps (yconn_merge) implement the replicated store.
THEOREM InstancesImplementStore == ASSUME Usage PROVE Spec => ImplementsStore
<1>1. Init => IInv /\ Rising /\ Store!Init
  BY InitHolds, InitRises, InitImplements
<1>2. IInv /\ Rising /\ [Next]_vars => IInv' /\ Rising'
  BY NextKeeps, NextRises
<1>3. IInv /\ Rising /\ [Next]_vars => [spent'.delete = 0 => Store!Next]_<<nval, Values>>
  BY StepImplements
<1> QED BY <1>1, <1>2, <1>3, PTL DEF Spec, ImplementsStore
=============================================================================
