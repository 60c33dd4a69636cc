------------------------ MODULE YdbIpcConvergeProofs ------------------------
(***************************************************************************)
(* Nothing written is lost and nothing deleted comes back: Converged of      *)
(* YdbIpc, for any number of clients, keys, messages and timers, provided    *)
(* the instances keep to Usage and no connection breaks, or nothing has been *)
(* deleted.                                                                *)
(*                                                                          *)
(* A queue is final for a key if what it leaves at its reader is what its     *)
(* writer holds: the last message in it that speaks of the key says so, or,   *)
(* where none does, both hold the same already.                             *)
(***************************************************************************)
EXTENDS YdbIpcStoreProofs

\* The reader of queue q holds lo and its writer hi; j is the last message about k.
Final(q, k, lo, hi) ==
  \E j \in 0..Len(q) :
    /\ \A h \in 1..Len(q) : h > j => k \notin DOMAIN q[h].data
    /\ IF j = 0 THEN lo = hi ELSE k \in DOMAIN q[j].data /\ Val(q[j], k) = hi

\* What the first message leaves, and what a further one says.
Left(q, k, lo) == IF k \in DOMAIN q[1].data THEN Val(q[1], k) ELSE lo
Adds(m, k, hi, h) == IF k \in DOMAIN m.data THEN Val(m, k) = h ELSE h = hi

\* An empty queue is final if both ends agree; a final queue stays so when its reader
\* takes the first message, and when its writer adds what it holds then.
LEMMA FinalQueues ==
  ASSUME NEW q \in Seq(Msg), NEW k, NEW lo, NEW hi
  PROVE  /\ q = <<>> => (Final(q, k, lo, hi) <=> lo = hi)
         /\ \A m \in Msg : \A h : Final(q, k, lo, hi) /\ Adds(m, k, hi, h) => Final(Append(q, m), k, lo, h)
         /\ Final(q, k, lo, hi) /\ q # <<>> => Final(Tail(q), k, Left(q, k, lo), hi)
<1>1. Len(q) \in Nat
  BY Queues
<1>2. ASSUME q = <<>> PROVE Final(q, k, lo, hi) <=> lo = hi
  <2>1. Len(q) = 0
    BY <1>2, EmptySeq
  <2>2. lo = hi => Final(q, k, lo, hi)
    <3> SUFFICES ASSUME lo = hi PROVE Final(q, k, lo, hi)
      OBVIOUS
    <3>1. 0 \in 0..Len(q) /\ \A h \in 1..Len(q) : h > 0 => k \notin DOMAIN q[h].data
      BY <2>1
    <3> QED BY <3>1 DEF Final
  <2>3. Final(q, k, lo, hi) => lo = hi
    BY <2>1 DEF Final
  <2> QED BY <2>2, <2>3
<1>3. ASSUME NEW m \in Msg, NEW h, Final(q, k, lo, hi), Adds(m, k, hi, h)
      PROVE  Final(Append(q, m), k, lo, h)
  <2> DEFINE a == Append(q, m)
  <2>1. /\ Len(a) = Len(q) + 1 /\ \A y \in 1..Len(q) : a[y] = q[y]
        /\ a[Len(q) + 1] = m
    BY Queues
  <2> HIDE DEF a
  <2>2. CASE k \in DOMAIN m.data
    <3> DEFINE j == Len(q) + 1
    <3>1. j \in 0..Len(a) /\ j # 0 /\ a[j] = m /\ \A y \in 1..Len(a) : ~(y > j)
      BY <1>1, <2>1
    <3>2. Val(a[j], k) = h
      BY <1>3, <2>2, <3>1 DEF Adds
    <3> HIDE DEF j
    <3>3. Final(a, k, lo, h)
      BY <2>2, <3>1, <3>2 DEF Final
    <3> QED BY <3>3 DEF a
  <2>3. CASE k \notin DOMAIN m.data
    <3>1. h = hi
      BY <1>3, <2>3 DEF Adds
    <3>2. PICK j \in 0..Len(q) :
             /\ \A y \in 1..Len(q) : y > j => k \notin DOMAIN q[y].data
             /\ IF j = 0 THEN lo = hi ELSE k \in DOMAIN q[j].data /\ Val(q[j], k) = hi
      BY <1>3 DEF Final
    <3>3. j \in 0..Len(a) /\ (j # 0 => a[j] = q[j])
      BY <1>1, <2>1
    <3>4. ASSUME NEW y \in 1..Len(a), y > j PROVE k \notin DOMAIN a[y].data
      <4>1. CASE y \in 1..Len(q)
        BY <2>1, <3>2, <3>4, <4>1
      <4>2. CASE y = Len(q) + 1
        BY <2>1, <2>3, <4>2
      <4> QED BY <1>1, <2>1, <4>1, <4>2
    <3>5. Final(a, k, lo, h)
      BY <3>1, <3>2, <3>3, <3>4 DEF Final
    <3> QED BY <3>5 DEF a
  <2> QED BY <2>2, <2>3
<1>4. ASSUME Final(q, k, lo, hi), q # <<>> PROVE Final(Tail(q), k, Left(q, k, lo), hi)
  <2> DEFINE t == Tail(q)
             l == Left(q, k, lo)
  <2>1. /\ Len(t) = Len(q) - 1 /\ Len(q) >= 1
        /\ \A y \in 1..Len(t) : t[y] = q[y + 1] /\ y + 1 \in 1..Len(q)
    <3>1. /\ Len(t) = Len(q) - 1 /\ 1 \in 1..Len(q)
          /\ \A y \in 1..Len(q) - 1 : t[y] = q[y + 1]
      BY <1>4, Queues
    <3> HIDE DEF t
    <3> QED BY <1>1, <3>1
  <2> HIDE DEF t
  <2>2. PICK j \in 0..Len(q) :
           /\ \A y \in 1..Len(q) : y > j => k \notin DOMAIN q[y].data
           /\ IF j = 0 THEN lo = hi ELSE k \in DOMAIN q[j].data /\ Val(q[j], k) = hi
    BY <1>4 DEF Final
  <2>3. CASE j <= 1
    <3>1. l = hi
      <4>1. CASE j = 0
        BY <1>1, <2>1, <2>2, <4>1 DEF Left
      <4>2. CASE j = 1
        BY <2>2, <4>2 DEF Left
      <4> QED BY <2>3, <4>1, <4>2
    <3>2. \A y \in 1..Len(t) : k \notin DOMAIN t[y].data
      <4> SUFFICES ASSUME NEW y \in 1..Len(t) PROVE k \notin DOMAIN t[y].data
        OBVIOUS
      <4>1. t[y] = q[y + 1] /\ y + 1 \in 1..Len(q) /\ y + 1 > j
        BY <1>1, <2>1, <2>3
      <4> QED BY <2>2, <4>1
    <3>3. 0 \in 0..Len(t)
      BY <1>1, <2>1
    <3> HIDE DEF l
    <3>4. Final(t, k, l, hi)
      BY <3>1, <3>2, <3>3 DEF Final
    <3> QED BY <3>4 DEF t, l
  <2>4. CASE j > 1
    <3> DEFINE g == j - 1
    <3>1. g \in 0..Len(t) /\ g \in 1..Len(t) /\ g # 0 /\ t[g] = q[j]
      <4>1. g \in 1..Len(t) /\ g + 1 = j
        BY <1>1, <2>1, <2>4
      <4> QED BY <1>1, <2>1, <4>1
    <3>2. k \in DOMAIN t[g].data /\ Val(t[g], k) = hi
      BY <2>2, <2>4, <3>1
    <3>3. \A y \in 1..Len(t) : y > g => k \notin DOMAIN t[y].data
      <4> SUFFICES ASSUME NEW y \in 1..Len(t), y > g PROVE k \notin DOMAIN t[y].data
        OBVIOUS
      <4>1. t[y] = q[y + 1] /\ y + 1 \in 1..Len(q) /\ y + 1 > j
        BY <1>1, <2>1
      <4> QED BY <2>2, <4>1
    <3> HIDE DEF g, l
    <3>4. Final(t, k, l, hi)
      BY <3>1, <3>2, <3>3 DEF Final
    <3> QED BY <3>4 DEF t, l
  <2> QED BY <1>1, <2>3, <2>4
<1> QED BY <1>2, <1>3, <1>4

-----------------------------------------------------------------------------
\* On the way up the queues of the writers are final; on the way down those to the
\* subscribers whose INIT has been read, unless what was deleted while a connection
\* was broken is missing in the answer to INIT.
FinalUp ==
  \A n \in Conns, k \in Key :
    ends[n] \in Writer[k] => Final(net[n].up, k, data[Server][k].val, data[ends[n]][k].val)
Served(n) == n \notin broken /\ ends[n] \notin Unsub /\ ~Opens(net[n].up)
FinalDown ==
  \A n \in Conns, k \in Key :
    Served(n) /\ ends[n] \notin Writer[k] /\ (ends[n] \notin Fragile \/ spent.delete = 0) =>
      Final(net[n].down, k, data[ends[n]][k].val, data[Server][k].val)

\* A handler makes of a value what the message it takes says of it.
LEMMA TakesValue ==
  ASSUME NEW i \in Instance, NEW n, NEW cn, NEW outs, NEW failed,
         Handles(i, n, cn, outs, failed), n # 0, NEW k \in Key
  PROVE  data'[i][k].val = Left(net[n][In(i)], k, data[i][k].val)
<1> DEFINE m == net[n][In(i)][1]
<1>1. data'[i] = Apply(data[i], m.op, n, m.data)
  BY DEF Handles, Updates
<1> HIDE DEF m
<1>2. CASE m.op = "delete"
  <2>1. data'[i] = Erase(data[i], m.data)
    BY <1>1, <1>2 DEF Apply
  <2>2. data'[i][k].val = IF k \in DOMAIN m.data THEN Val(m, k) ELSE data[i][k].val
    BY <1>2, <2>1 DEF Erase, Absent, Val
  <2> QED BY <2>2 DEF Left, m
<1>3. CASE m.op # "delete"
  <2>1. data'[i] = Merge(data[i], n, m.data)
    BY <1>1, <1>3 DEF Apply
  <2>2. data'[i][k].val = IF k \in DOMAIN m.data THEN m.data[k] ELSE data[i][k].val
    BY <2>1 DEF Merge, Changed
  <2>3. Val(m, k) = m.data[k]
    BY <1>3 DEF Val
  <2> QED BY <2>2, <2>3 DEF Left, m
<1> QED BY <1>2, <1>3

\* What comes to the server comes from the writer, and changes nothing of the server's own.
LEMMA ServerChanges ==
  ASSUME Usage, IInv, NEW n, NEW cn, NEW outs, NEW failed,
         Handles(Server, n, cn, outs, failed), NEW k \in Key,
         data'[Server][k].val # data[Server][k].val
  PROVE  IF n = 0 THEN Server \in Writer[k] ELSE n \in Conns /\ ends[n] \in Writer[k]
<1>1. Server \in Instance
  BY DEF Instance
<1>2. CASE n = 0
  BY <1>1, <1>2, DataSteps
<1>3. CASE n # 0
  <2>1. n \in DOMAIN conn[Server] /\ net[n][In(Server)] # <<>>
    BY <1>3 DEF Handles
  <2>2. k \in DOMAIN net[n][In(Server)][1].data
    BY <1>1, <1>3, DataSteps
  <2>3. n \in Conns /\ Received(Server, n) = net[n][In(Server)][1] /\ UpMsg(Received(Server, n), ends[n])
    BY <1>1, <2>1, Taking
  <2> QED BY <1>3, <2>2, <2>3 DEF UpMsg
<1> QED BY <1>2, <1>3

\* A handler that sends outs speaks of k on connection x.
Speaks(outs, x, k) == x \in DOMAIN outs /\ k \in DOMAIN outs[x].data

\* A message that is added says what its writer holds then.
LEMMA WriteIsFinal ==
  ASSUME NEW q \in Seq(Msg), NEW k \in Key, NEW lo, NEW hi, Final(q, k, lo, hi),
         NEW i, NEW outs, Worded(outs), NEW x, x \notin broken, NEW r, Writes(i, outs, x, q, r), NEW h,
         Speaks(outs, x, k) => Val(outs[x], k) = h,
         h # hi => Speaks(outs, x, k)
  PROVE  Final(r, k, lo, h)
<1>1. CASE x \in DOMAIN outs
  <2>1. outs[x] \in Msg /\ Adds(outs[x], k, hi, h) /\ r = Append(q, outs[x])
    BY <1>1 DEF Worded, Adds, Writes, Speaks
  <2> QED BY <2>1, FinalQueues
<1>2. CASE x \notin DOMAIN outs
  BY <1>2 DEF Writes, Speaks
<1> QED BY <1>1, <1>2

\* Handlers say what they hold.
Truly(i, outs) == \A x : \A k \in Key : Speaks(outs, x, k) => Val(outs[x], k) = data'[i][k].val

LEMMA SaysValue ==
  ASSUME NEW i \in Instance, NEW n, NEW cn, NEW outs, NEW failed,
         Handles(i, n, cn, outs, failed)
  PROVE  /\ Worded(outs) /\ DOMAIN outs \subseteq DOMAIN conn[i] /\ DOMAIN cn = DOMAIN conn[i]
         /\ Truly(i, outs)
         /\ \A k \in Key : \A x : data'[i][k].val # data[i][k].val /\ x \in PubTargets(cn, {n})
              => Speaks(outs, x, k)
BY DEF Handles, Flags, Tells, Worded, Truly, Speaks

\* The queue of a writer stays final,
LEMMA FinalUpKeeps ==
  ASSUME Usage, IInv, FinalUp, NEW i \in Instance, NEW n, NEW cn, NEW outs, NEW failed,
         Handles(i, n, cn, outs, failed)
  PROVE  FinalUp'
<1> SUFFICES ASSUME NEW x \in Conns, NEW k \in Key, ends[x] \in Writer[k]
             PROVE  Final(net'[x].up, k, data'[Server][k].val, data'[ends[x]][k].val)
  BY DEF FinalUp, Conns, Handles
<1> DEFINE w  == ends[x]
           q  == net[x].up
           r  == net'[x].up
           lo == data[Server][k].val
           hi == data[w][k].val
           l  == data'[Server][k].val
           h  == data'[w][k].val
<1>1. /\ w \in Client /\ w # Server /\ w \in Instance /\ w \in Writable /\ x \notin broken
      /\ \A j \in Writer[k] : j = w
      /\ \A y \in Conns : ends[y] = w => y = x
      /\ x \in DOMAIN conn[w]
  <2>1. w \in Client /\ w # Server /\ w \in Instance
    BY ChannelOf DEF IInv
  <2>2. w \in Writable /\ w \notin Fragile /\ \A j \in Writer[k] : j = w
    BY <2>1, Writers
  <2> QED BY <2>1, <2>2 DEF IInv, Connected
<1>2. Final(q, k, lo, hi) /\ q \in Seq(Msg) /\ Server \in Instance
  BY ChannelOf DEF IInv, FinalUp, Instance
<1>3. x \notin failed /\ x # 0
  BY <1>1, QueueMoves DEF Conns
<1>4. CASE i = Server
  <2>1. Reads(i, n, failed, x, q, r) /\ (x = n => q # <<>>)
    BY <1>4, QueueMoves, Sides
  <2>2. h = hi
    BY <1>1, <1>4, OthersKeep
  <2>3. CASE x = n
    <3>1. l = Left(q, k, lo)
      BY <1>2, <1>3, <1>4, <2>3, TakesValue, Sides
    <3>2. r = Tail(q) /\ q # <<>>
      BY <1>3, <2>1, <2>3 DEF Reads
    <3> HIDE DEF q, r, lo, hi, l, h
    <3>3. Final(r, k, l, hi)
      BY <1>2, <3>1, <3>2, FinalQueues
    <3> QED BY <2>2, <3>3 DEF r, l, h
  <2>4. CASE x # n
    <3>1. l = lo
      BY <1>1, <1>4, <2>4, ServerChanges
    <3>2. r = q
      BY <1>3, <2>1, <2>4 DEF Reads
    <3> QED BY <1>2, <2>2, <3>1, <3>2
  <2> QED BY <2>3, <2>4
<1>5. CASE i = w
  <2>1. Writes(i, outs, x, q, r)
    BY <1>1, <1>5, QueueMoves
  <2>2. l = lo
    BY <1>1, <1>2, <1>5, OthersKeep
  <2>3. Worded(outs) /\ (Speaks(outs, x, k) => Val(outs[x], k) = h)
    <3>1. Worded(outs) /\ Truly(i, outs)
      BY SaysValue
    <3> QED BY <1>5, <3>1 DEF Truly
  <2>4. h # hi => Speaks(outs, x, k)
    <3>1. h # hi => n = 0
      BY <1>5, DataSteps
    <3>2. n = 0 => x \in PubTargets(cn, {n})
      <4>1. x \in DOMAIN cn /\ cn[x].status = "client" /\ (n = 0 => cn[x].writable)
        <5>1. conn[i][x].status = "client" /\ conn[i][x].writable
          BY ZenonT(60), <1>1, <1>5 DEF IInv, Connected
        <5> QED BY <1>1, <1>5, <5>1 DEF Handles, Flags
      <4> QED BY <1>3, <4>1 DEF PubTargets
    <3> QED BY <1>5, <3>1, <3>2, SaysValue
  <2> HIDE DEF q, r, lo, hi, l, h
  <2>5. Final(r, k, lo, h)
    BY <1>1, <1>2, <2>1, <2>3, <2>4, WriteIsFinal
  <2> QED BY <2>2, <2>5 DEF r, l, h
<1>6. CASE i # Server /\ i # w
  <2>1. x \notin DOMAIN outs
    <3>1. DOMAIN outs \subseteq DOMAIN conn[i] /\ i \in Client
      BY <1>6, SaysValue DEF Instance
    <3> QED BY <1>6, <3>1 DEF IInv, Connected
  <2>2. r = q
    BY <1>6, <2>1, QueueMoves DEF Writes
  <2>3. h = hi /\ l = lo
    BY <1>1, <1>2, <1>6, OthersKeep
  <2> QED BY <1>2, <2>2, <2>3
<1> QED BY <1>4, <1>5, <1>6

\* The server publishes a change of a key to whoever does not write it and has its
\* INIT read.
LEMMA ServerSpeaks ==
  ASSUME Usage, IInv, NEW n, NEW cn, NEW outs, NEW failed,
         Handles(Server, n, cn, outs, failed), NEW x \in Conns, Served(x), NEW k \in Key,
         ends[x] \notin Writer[k], data'[Server][k].val # data[Server][k].val
  PROVE  Speaks(outs, x, k)
<1>1. Server \in Instance /\ x # 0 /\ x \notin broken /\ ends[x] \notin Unsub /\ ~Opens(net[x].up)
  BY DEF Instance, Conns, Served
<1>2. x # n
  BY <1>1, ServerChanges
<1>3. x \in DOMAIN conn[Server]
  BY <1>1 DEF IInv, Accepted
<1>4. conn[Server][x].status = "cond_client" /\ ~conn[Server][x].unsub
  BY <1>1, <1>3 DEF IInv, Accepted
<1>5. x \in DOMAIN cn /\ cn[x].status = "cond_client" /\ ~cn[x].unsub
  BY <1>1, <1>2, <1>3, <1>4 DEF Handles, Flags
<1>6. x \in PubTargets(cn, {n})
  BY <1>2, <1>5 DEF PubTargets
<1> QED BY <1>1, <1>6, SaysValue

\* The answer to INIT has everything a client lacks that has not held anything before,
\* and nothing deleted.
LEMMA GreetingIsFinal ==
  ASSUME Usage, IInv, Rising, NEW x, NEW cn, NEW outs, NEW failed,
         Handles(Server, x, cn, outs, failed), x \in Conns, x \notin broken, Opens(net[x].up),
         ends[x] \notin Unsub, NEW k \in Key, ends[x] \notin Writer[k],
         ends[x] \notin Fragile \/ spent'.delete = 0
  PROVE  Final(net'[x].down, k, data[ends[x]][k].val, data'[Server][k].val)
<1> DEFINE c  == ends[x]
           lo == data[c][k].val
           h  == data'[Server][k].val
<1>1. /\ Server \in Instance /\ c \in Instance /\ c \in Client /\ c # Server /\ x # 0
      /\ net[x].down \in Seq(Msg)
  BY ChannelOf DEF IInv, Instance, Conns
<1>2. net[x].down = <<>> /\ Writes(Server, outs, x, net[x].down, net'[x].down)
  BY <1>1, QueueMoves DEF IInv, Channels
<1>3. Worded(outs) /\ Truly(Server, outs)
  BY <1>1, SaysValue
<1>4. x \in DOMAIN outs /\ (h # 0 => Speaks(outs, x, k))
  BY <1>1 DEF Handles, Greets, Speaks
<1>5. h = 0 => lo = 0
  <2>1. CASE c \notin Fragile
    <3>1. \A y \in Conns : ends[y] = c => y = x
      BY <2>1 DEF IInv, Connected
    <3> QED BY <1>1, <2>1, <3>1 DEF IInv, Fresh
  <2>2. CASE spent'.delete = 0
    <3>1. Written'
      BY <1>1, <2>2, HandlerRises DEF Rising
    <3>2. data'[c][k].val <= h
      BY <1>1, <3>1 DEF Written
    <3>3. data'[c] = data[c] /\ lo \in Nat
      BY <1>1, OthersKeep, Numbers
    <3> QED BY <3>2, <3>3
  <2> QED BY <2>1, <2>2
<1>6. Final(<<>>, k, lo, lo)
  <2>1. <<>> \in Seq(Msg)
    BY <1>1, <1>2
  <2> HIDE DEF lo
  <2> QED BY <2>1, FinalQueues
<1>7. Speaks(outs, x, k) => Val(outs[x], k) = h
  BY <1>3 DEF Truly
<1>8. outs[x] \in Msg /\ Adds(outs[x], k, lo, h)
  <2>1. k \notin DOMAIN outs[x].data => h = lo
    BY <1>4, <1>5 DEF Speaks
  <2> HIDE DEF lo, h
  <2> QED BY <1>3, <1>4, <1>7, <2>1 DEF Worded, Adds, Speaks
<1>9. net'[x].down = Append(<<>>, outs[x]) /\ <<>> \in Seq(Msg)
  BY <1>1, <1>2, <1>4 DEF Writes
<1> HIDE DEF c, lo, h
<1>10. Final(Append(<<>>, outs[x]), k, lo, h)
  BY <1>6, <1>8, <1>9, FinalQueues
<1> QED BY <1>9, <1>10 DEF lo, h, c

\* and so does the one to a subscriber.
LEMMA FinalDownKeeps ==
  ASSUME Usage, IInv, Rising, FinalDown, NEW i \in Instance, NEW n, NEW cn, NEW outs, NEW failed,
         Handles(i, n, cn, outs, failed)
  PROVE  FinalDown'
<1> SUFFICES ASSUME NEW x \in Conns, NEW k \in Key, Served(x)', ends[x] \notin Writer[k],
                    ends[x] \notin Fragile \/ spent'.delete = 0
             PROVE  Final(net'[x].down, k, data'[ends[x]][k].val, data'[Server][k].val)
  BY DEF FinalDown, Conns, Handles
<1> DEFINE c  == ends[x]
           q  == net[x].down
           r  == net'[x].down
           lo == data[c][k].val
           hi == data[Server][k].val
           l  == data'[c][k].val
           h  == data'[Server][k].val
<1>1. /\ c \in Client /\ c # Server /\ c \in Instance /\ Server \in Instance /\ q \in Seq(Msg)
      /\ x \notin broken /\ c \notin Unsub /\ ~Opens(net'[x].up) /\ x \in DOMAIN conn[c]
  BY ChannelOf DEF IInv, Connected, Instance, Served, Handles
<1>2. x \notin failed /\ x # 0
  BY <1>1, QueueMoves DEF Conns
<1>3. CASE i = Server /\ Opens(net[x].up)
  <2>1. x = n
    BY <1>1, <1>2, <1>3, QueueSteps
  <2>2. Final(net'[x].down, k, data[c][k].val, data'[Server][k].val)
    BY <1>1, <1>3, <2>1, GreetingIsFinal
  <2>3. data'[c] = data[c]
    BY <1>1, <1>3, OthersKeep
  <2> QED BY <2>2, <2>3
<1>4. CASE ~Opens(net[x].up)
  <2>1. Served(x)
    BY <1>1, <1>4 DEF Served
  <2>2. c \notin Fragile \/ spent.delete = 0
    BY StillUndeleted
  <2>3. Final(q, k, lo, hi)
    BY <2>1, <2>2 DEF FinalDown
  <2>4. CASE i = Server
    <3>1. Writes(i, outs, x, q, r)
      BY <2>4, QueueMoves
    <3>2. l = lo
      BY <1>1, <2>4, OthersKeep
    <3>3. Worded(outs) /\ (Speaks(outs, x, k) => Val(outs[x], k) = h)
      <4>1. Worded(outs) /\ Truly(i, outs)
        BY SaysValue
      <4> QED BY <2>4, <4>1 DEF Truly
    <3>4. h # hi => Speaks(outs, x, k)
      BY <2>1, <2>4, ServerSpeaks
    <3> HIDE DEF c, q, r, lo, hi, l, h
    <3>5. Final(r, k, lo, h)
      BY <1>1, <2>3, <3>1, <3>3, <3>4, WriteIsFinal
    <3> QED BY <3>2, <3>5 DEF c, r, l, h
  <2>5. CASE i = c
    <3>1. Reads(i, n, failed, x, q, r) /\ (x = n => q # <<>>)
      BY <1>1, <2>5, QueueMoves, Sides
    <3>2. h = hi
      BY <1>1, <2>5, OthersKeep
    <3>3. CASE x = n
      <4>1. l = Left(q, k, lo)
        BY <1>1, <1>2, <2>5, <3>3, TakesValue, Sides
      <4>2. r = Tail(q) /\ q # <<>>
        BY <1>2, <3>1, <3>3 DEF Reads
      <4> HIDE DEF c, q, r, lo, hi, l, h
      <4>3. Final(r, k, l, hi)
        BY <1>1, <2>3, <4>1, <4>2, FinalQueues
      <4> QED BY <3>2, <4>3 DEF c, r, l, h
    <3>4. CASE x # n
      <4>1. n = 0
        BY <1>1, <2>5, <3>4 DEF Handles, IInv, Connected
      <4>2. l = lo
        BY <2>5, <4>1, DataSteps
      <4>3. r = q
        BY <1>2, <3>1, <3>4 DEF Reads
      <4> QED BY <2>3, <3>2, <4>2, <4>3
    <3> QED BY <3>3, <3>4
  <2>6. CASE i # Server /\ i # c
    <3>1. r = q
      <4>1. Reads(i, n, failed, x, q, r)
        BY <2>6, QueueMoves
      <4>2. i \in Client /\ (n = 0 \/ n \in DOMAIN conn[i])
        BY <2>6 DEF Handles, Instance
      <4>3. x # n
        BY <1>2, <2>6, <4>2 DEF IInv, Connected
      <4> QED BY <1>2, <4>1, <4>3 DEF Reads
    <3>2. h = hi /\ l = lo
      BY <1>1, <2>6, OthersKeep
    <3> QED BY <2>3, <3>1, <3>2
  <2> QED BY <2>4, <2>5, <2>6
<1>5. CASE i # Server /\ Opens(net[x].up)
  BY <1>1, <1>5, QueueSteps
<1> QED BY <1>3, <1>4, <1>5

-----------------------------------------------------------------------------
(***************************************************************************)
(* The other steps, and the theorem.                                       *)
(***************************************************************************)
Complete == FinalUp /\ FinalDown

LEMMA HandlerCompletes ==
  ASSUME Usage, IInv, Rising, Complete, NEW i \in Instance, NEW n, NEW cn, NEW outs, NEW failed,
         Handles(i, n, cn, outs, failed)
  PROVE  Complete'
BY FinalUpKeeps, FinalDownKeeps DEF Complete

\* Steps that lose messages of broken connections at most.
LEMMA QuietCompletes ==
  ASSUME Usage, IInv, Complete, UNCHANGED <<data, ends>>, spent'.delete = spent.delete,
         broken \subseteq broken', \A x \in Conns : x \notin broken => net'[x] = net[x]
  PROVE  Complete'
<1>1. FinalUp /\ FinalDown /\ Conns' = Conns
  BY DEF Complete, Conns
<1>2. FinalUp'
  <2> SUFFICES ASSUME NEW x \in Conns, NEW k \in Key, ends[x] \in Writer[k]
               PROVE  Final(net'[x].up, k, data[Server][k].val, data[ends[x]][k].val)
    BY <1>1 DEF FinalUp
  <2>1. ends[x] # Server
    BY ChannelOf DEF IInv
  <2>2. ends[x] \notin Fragile
    BY <2>1, Writers
  <2>3. net'[x] = net[x]
    BY <2>2 DEF IInv, Connected
  <2> QED BY <1>1, <2>3 DEF FinalUp
<1>3. FinalDown'
  <2> SUFFICES ASSUME NEW x \in Conns, NEW k \in Key, Served(x)', ends[x] \notin Writer[k],
                      ends[x] \notin Fragile \/ spent.delete = 0
               PROVE  Final(net'[x].down, k, data[ends[x]][k].val, data[Server][k].val)
    BY <1>1 DEF FinalDown
  <2>1. net'[x] = net[x] /\ Served(x)
    BY DEF Served
  <2> QED BY <1>1, <2>1 DEF FinalDown
<1> QED BY <1>2, <1>3 DEF Complete

\* yconn_deferred_close, yconn_accept, timers and faults.
LEMMA OthersComplete ==
  ASSUME Usage, IInv, Complete, \/ Accept \/ UNCHANGED vars
                                \/ \E i \in Instance : Timeout(i) \/ \E id \in DOMAIN event[i] : Expire(i, id)
                                \/ \E n \in DOMAIN ends : Break(n)
                                \/ \E i \in Instance : \E n \in broken : Notice(i, n)
  PROVE  Complete'
<1>1. /\ UNCHANGED <<data, ends>> /\ broken \subseteq broken'
      /\ \/ spent' = spent \/ spent' = [spent EXCEPT !.timer = @ + 1]
         \/ spent' = [spent EXCEPT !.break = @ + 1]
      /\ \/ net' = net
         \/ \E i \in Instance : \E n \in broken : net' = [net EXCEPT ![n][In(i)] = <<>>]
  BY DEF Accept, Timeout, Expire, Break, Notice, TimerRuns, vars
<1>2. spent'.delete = spent.delete
  BY <1>1 DEF IInv, Typed, Spent
<1>3. \A x \in Conns : x \notin broken => net'[x] = net[x]
  <2>1. DOMAIN net = Conns
    BY DEF IInv, Typed, Conns
  <2> QED BY <1>1, <2>1
<1> QED BY <1>1, <1>2, <1>3, QuietCompletes

\* A writer connects with all it holds, to a server that has nothing of it.
LEMMA ConnectCompletes ==
  ASSUME Usage, IInv, Complete, NEW c \in Client, Connect(c)
  PROVE  Complete'
<1>1. UNCHANGED <<data, broken, spent>>
  BY DEF Connect
<1>2. PICK m, n :
           /\ m.op = "init" /\ m.data = (IF c \in Writable THEN Dump(data[c]) ELSE NoData)
           /\ Conns' = Conns \cup {n}
           /\ n \notin Conns
           /\ ends'[n] = c /\ net'[n].up = <<m>> /\ net'[n].down = <<>> /\ DOMAIN conn'[c] = {n}
           /\ \A x \in Conns : ends'[x] = ends[x] /\ net'[x] = net[x]
           /\ \A j \in Instance \ {c} : conn'[j] = conn[j]
  BY Opened
<1>3. FinalUp /\ FinalDown
  BY DEF Complete
<1>4. FinalUp'
  <2> SUFFICES ASSUME NEW x \in Conns', NEW k \in Key, ends'[x] \in Writer[k]
               PROVE  Final(net'[x].up, k, data[Server][k].val, data[ends'[x]][k].val)
    BY <1>1 DEF FinalUp
  <2>1. CASE x \in Conns
    BY <1>2, <1>3, <2>1 DEF FinalUp
  <2>2. CASE x = n
    <3> DEFINE q  == <<m>>
               lo == data[Server][k].val
               h  == data[c][k].val
    <3>1. c \in Writer[k] /\ c \in Writable /\ c \notin Fragile
      BY <1>2, <2>2, InstanceAssumption, Writers
    <3>2. lo = 0
      <4>1. \A y \in Conns : ends[y] # c
        BY <3>1, ConnectsAgain
      <4> QED BY <3>1, <4>1 DEF IInv, Fresh
    <3>3. IF k \in DOMAIN m.data THEN Val(m, k) = h ELSE h = 0
      BY <1>2, <3>1 DEF Dump, Present, Val
    <3>4. Len(q) = 1 /\ q[1] = m
      OBVIOUS
    <3> HIDE DEF q, lo, h
    <3>5. CASE k \in DOMAIN m.data
      <4>1. 1 \in 0..Len(q) /\ 1 # 0 /\ \A y \in 1..Len(q) : ~(y > 1)
        BY <3>4
      <4>2. k \in DOMAIN q[1].data /\ Val(q[1], k) = h
        BY <3>3, <3>4, <3>5
      <4>3. Final(q, k, lo, h)
        BY <4>1, <4>2 DEF Final
      <4> QED BY <1>2, <2>2, <4>3 DEF q, lo, h
    <3>6. CASE k \notin DOMAIN m.data
      <4>1. 0 \in 0..Len(q) /\ \A y \in 1..Len(q) : k \notin DOMAIN q[y].data
        BY <3>4, <3>6
      <4> QED BY <1>2, <2>2, <3>2, <3>3, <3>6, <4>1 DEF Final, q, lo, h
    <3> QED BY <3>5, <3>6
  <2> QED BY <1>2, <2>1, <2>2
<1>5. FinalDown'
  <2> SUFFICES ASSUME NEW x \in Conns', NEW k \in Key, Served(x)', ends'[x] \notin Writer[k],
                      ends'[x] \notin Fragile \/ spent.delete = 0
               PROVE  Final(net'[x].down, k, data[ends'[x]][k].val, data[Server][k].val)
    BY <1>1 DEF FinalDown
  <2>1. x # n
    <3>1. Opens(<<m>>)
      BY <1>2 DEF Opens
    <3> QED BY <1>2, <3>1 DEF Served
  <2>2. x \in Conns /\ ends'[x] = ends[x] /\ net'[x] = net[x]
    BY <1>2, <2>1
  <2>3. Served(x)
    BY <1>1, <2>2 DEF Served
  <2> QED BY <1>3, <2>2, <2>3 DEF FinalDown
<1> QED BY <1>4, <1>5 DEF Complete

LEMMA InitCompletes == ASSUME Init PROVE Complete
<1>1. Conns = {}
  BY DEF Init, Conns
<1> QED BY <1>1 DEF Complete, FinalUp, FinalDown

\* Every step leaves the queues final.
LEMMA NextCompletes ==
  ASSUME Usage, IInv, Rising, Complete, [Next]_vars
  PROVE  Complete'
<1>1. ASSUME NEW i \in Instance, NEW k \in Key, NEW F \in SUBSET broken,
             Write(i, k, F) \/ Delete(i, k, F) PROVE Complete'
  BY <1>1, WriteHandles, DeleteHandles, HandlerCompletes
<1>2. ASSUME NEW c \in Client, Connect(c) PROVE Complete'
  BY <1>2, ConnectCompletes
<1>3. ASSUME NEW n \in DOMAIN ends, NEW F \in SUBSET broken, RecvInit(n, F) PROVE Complete'
  <2>1. Server \in Instance
    BY DEF Instance
  <2> QED BY <1>3, <2>1, RecvInitHandles, HandlerCompletes
<1>4. ASSUME NEW i \in Instance, NEW n \in DOMAIN ends, NEW F \in SUBSET broken,
             \/ RecvPublish(i, n, F) \/ RecvSync(i, n, F)
             \/ \E buffered \in BOOLEAN : RecvAnswer(i, n, F, buffered) PROVE Complete'
  BY <1>4, RecvPublishHandles, RecvSyncHandles, RecvAnswerHandles, HandlerCompletes
<1>5. ASSUME NEW i \in Instance, NEW F \in SUBSET broken, Sync(i, F) PROVE Complete'
  BY <1>5, SyncHandles, HandlerCompletes
<1>6. ASSUME Accept PROVE Complete'
  BY <1>6, OthersComplete
<1>7. ASSUME NEW i \in Instance, Timeout(i) \/ (\E id \in DOMAIN event[i] : Expire(i, id))
      PROVE  Complete'
  BY <1>7, OthersComplete
<1>8. ASSUME NEW n \in DOMAIN ends, Break(n) PROVE Complete'
  BY <1>8, OthersComplete
<1>9. ASSUME NEW i \in Instance, NEW n \in broken, Notice(i, n) PROVE Complete'
  BY <1>9, OthersComplete
<1>10. ASSUME Undefined \/ UNCHANGED vars PROVE Complete'
  BY <1>10, OthersComplete DEF Undefined
<1> QED BY <1>1, <1>2, <1>3, <1>4, <1>5, <1>6, <1>7, <1>8, <1>9, <1>10 DEF Next

LEMMA NothingLeft ==
  ASSUME NEW k, NEW lo, NEW hi, Final(<<>>, k, lo, hi)
  PROVE  lo = hi
BY DEF Final

\* When nothing is in flight the last word on a key has been read everywhere.
LEMMA CompleteConverges ==
  ASSUME Usage, IInv, Complete, Fragile = {} \/ spent.delete = 0
  PROVE  Converged
<1> SUFFICES ASSUME Settled, NEW k \in Key, NEW w \in Linked \cup {Server},
                    NEW i \in Subscribed \cup {Server}, w \in Writer[k]
             PROVE  data[i][k].val = data[w][k].val
  BY DEF Converged
<1>1. \A x \in Conns : net[x].up = <<>> /\ net[x].down = <<>> /\ <<>> \in Seq(Msg)
  BY ChannelOf DEF Settled, IInv, Typed, Conns
<1>2. \A x \in Links : x \in Conns /\ x \in DOMAIN conn[Server] /\ x \notin broken
  BY DEF Links, IInv, Connected, Instance
<1>3. FinalUp /\ FinalDown
  BY DEF Complete
<1>4. data[Server][k].val = data[w][k].val
  <2>1. CASE w # Server
    <3>1. PICK x \in Conns : ends[x] = w
      BY <1>2, <2>1 DEF Linked
    <3>2. Final(net[x].up, k, data[Server][k].val, data[w][k].val)
      BY <1>3, <3>1 DEF FinalUp
    <3> QED BY <1>1, <3>1, <3>2, NothingLeft
  <2> QED BY <2>1
<1>5. data[i][k].val = data[Server][k].val
  <2>1. CASE i # Server /\ i \notin Writer[k]
    <3>1. PICK x \in Links : ends[x] = i /\ ~conn[Server][x].unsub
      BY <2>1 DEF Subscribed
    <3>2. Served(x) /\ x \in Conns
      <4>1. x \in Conns /\ x \notin broken /\ ends[x] \notin Unsub
        BY <1>2, <3>1 DEF IInv, Accepted
      <4>2. ~Opens(net[x].up)
        BY <1>1, <4>1 DEF Opens
      <4> QED BY <4>1, <4>2 DEF Served
    <3>3. Final(net[x].down, k, data[i][k].val, data[Server][k].val)
      BY <1>3, <2>1, <3>1, <3>2 DEF FinalDown
    <3> QED BY <1>1, <3>2, <3>3, NothingLeft
  <2>2. CASE i # Server /\ i \in Writer[k]
    BY <1>4, <2>2 DEF Usage
  <2> QED BY <2>1, <2>2
<1> QED BY <1>4, <1>5

\* Nothing that is written is missed and nothing deleted comes back, whatever is said
\* on however many connections at once and whoever gives up waiting: whenever nothing
\* is in flight the server and its subscribers hold what the writers hold (yconn_init,
\* yconn_publish, yconn_recv).  Where connections break this holds until something is
\* deleted: a client that connects again keeps what was deleted meanwhile.
THEOREM InstancesConverge ==
  ASSUME Usage PROVE Spec => [](Fragile = {} \/ spent.delete = 0 => Converged)
<1>1. Init => IInv /\ Rising /\ Complete
  BY InitHolds, InitRises, InitCompletes
<1>2. IInv /\ Rising /\ Complete /\ [Next]_vars => IInv' /\ Rising' /\ Complete'
  BY NextKeeps, NextRises, NextCompletes
<1>3. IInv /\ Complete => (Fragile = {} \/ spent.delete = 0 => Converged)
  BY CompleteConverges
<1> QED BY <1>1, <1>2, <1>3, PTL DEF Spec
=============================================================================
