--------------------------- MODULE YconnRecvProofs ---------------------------
(***************************************************************************)
(* The messages that are handled are those that were sent, in order, each  *)
(* cut whole out of the stream, for any number of messages and any sizes   *)
(* of reads.                                                               *)
(*                                                                         *)
(* The argument: what is unread in the buffer followed by what is on its   *)
(* way is the stream from the first message that is not handled; and when  *)
(* a read begins, less than one message is unread, so that the search      *)
(* misses no end of a message.                                             *)
(***************************************************************************)
EXTENDS YconnRecv, SequenceTheorems, TLAPS

CellSet == Nat \X {"body", "end1", "end2"}

\* The cells of b behind the first `from` are those of the stream behind message d.
Aligned(b, from, d) == \A i \in 1..Len(b) - from : b[from + i] = Cell(3 * d + i)

Unread == Len(buf) - bufused

Typed ==
    /\ sent \in Seq(Kind)
    /\ buf \in Seq(CellSet) /\ sock \in Seq(CellSet)
    /\ bufused \in 0..Len(buf) /\ next \in BOOLEAN
    /\ done \in 0..Len(sent)

\* What is left for the next read is no message.
Kept == IF next THEN bufused < Len(buf) ELSE bufused = 0 /\ Len(buf) < 3

Ahead ==
    /\ Unread + Len(sock) = 3 * (Len(sent) - done)
    /\ Aligned(buf, bufused, done)
    /\ \A i \in 1..Len(sock) : sock[i] = Cell(3 * done + Unread + i)

Framed == done > 0 => frame = Cells(done)

LostLast == lost => closed /\ done = Len(sent)

IInv == Typed /\ Kept /\ Ahead /\ Framed /\ LostLast

-----------------------------------------------------------------------------
LEMMA CellIs ==
    ASSUME NEW m \in Nat
    PROVE  /\ Cell(3 * m + 1) = <<m + 1, "body">>
           /\ Cell(3 * m + 2) = <<m + 1, "end1">>
           /\ Cell(3 * m + 3) = <<m + 1, "end2">>
<1>1. /\ (3 * m + 1 - 1) \div 3 = m /\ (3 * m + 1 - 1) % 3 = 0
      /\ (3 * m + 2 - 1) \div 3 = m /\ (3 * m + 2 - 1) % 3 = 1
      /\ (3 * m + 3 - 1) \div 3 = m /\ (3 * m + 3 - 1) % 3 = 2
  OBVIOUS
<1> QED BY <1>1 DEF Cell

LEMMA CellType ==
    ASSUME NEW k \in Nat \ {0}
    PROVE  Cell(k) \in CellSet
<1>1. (k - 1) \div 3 \in Nat /\ (k - 1) % 3 \in 0..2
  OBVIOUS
<1>2. <<"body", "end1", "end2">>[((k - 1) % 3) + 1] \in {"body", "end1", "end2"}
  BY <1>1
<1> QED BY <1>1, <1>2 DEF Cell, CellSet

\* The first end of a message that is found is that of the first message.
LEMMA FirstEnd ==
    ASSUME NEW b \in Seq(CellSet), NEW from \in 0..Len(b), NEW d \in Nat,
           Aligned(b, from, d)
    PROVE  EndOf(b, from) = IF Len(b) - from < 3 THEN 0 ELSE from + 3
<1> DEFINE ends == {i \in from + 2..Len(b) : b[i][2] = "end2" /\ b[i - 1][2] = "end1"}
<1>1. Len(b) \in Nat
  OBVIOUS
<1>2. ASSUME Len(b) >= from + 2 PROVE b[from + 2] = <<d + 1, "end1">>
  BY SMTT(60), <1>1, <1>2, CellIs DEF Aligned
<1>3. from + 2 \notin ends
  BY <1>1, <1>2
<1>4. CASE Len(b) - from < 3
  <2>1. ends = {}
    BY SMTT(60), <1>1, <1>3, <1>4
  <2> QED BY <2>1, <1>4 DEF EndOf
<1>5. CASE Len(b) - from >= 3
  <2>1. b[from + 3] = <<d + 1, "end2">>
    BY SMTT(60), <1>1, <1>5, CellIs DEF Aligned
  <2>2. from + 3 \in ends
    BY SMTT(60), <1>1, <1>2, <1>5, <2>1
  <2>3. \A i \in ends : from + 3 <= i
    BY <1>1, <1>3
  <2>4. (CHOOSE i \in ends : \A j \in ends : i <= j) = from + 3
    BY <2>2, <2>3, <1>1
  <2> HIDE DEF ends
  <2>5. ends # {}
    BY <2>2
  <2>6. EndOf(b, from) = IF ends = {} THEN 0 ELSE CHOOSE i \in ends : \A j \in ends : i <= j
    BY Zenon DEF EndOf, ends
  <2>7. EndOf(b, from) = from + 3
    BY <2>4, <2>5, <2>6, Zenon
  <2> QED BY <2>7, <1>5, <1>1
<1> QED BY <1>1, <1>4, <1>5

-----------------------------------------------------------------------------
\* What a stream is with one more message.
LEMMA MessageBehind ==
    ASSUME NEW s \in Seq(CellSet), NEW m \in Nat
    PROVE  LET t == s \o Cells(m + 1)
           IN  /\ t \in Seq(CellSet) /\ Len(t) = Len(s) + 3
               /\ \A i \in 1..Len(s) : t[i] = s[i]
               /\ \A i \in 1..3 : t[Len(s) + i] = Cell(3 * m + i)
<1> DEFINE t == s \o Cells(m + 1)
<1> DEFINE c == <<Cell(3 * m + 1), Cell(3 * m + 2), Cell(3 * m + 3)>>
<1>1. Cells(m + 1) = c
  <2>1. 3 * (m + 1) - 2 = 3 * m + 1 /\ 3 * (m + 1) - 1 = 3 * m + 2 /\ 3 * (m + 1) = 3 * m + 3
    OBVIOUS
  <2> QED BY <2>1, Zenon DEF Cells
<1>2. c \in Seq(CellSet) /\ Len(c) = 3 /\ c[1] = Cell(3 * m + 1)
      /\ c[2] = Cell(3 * m + 2) /\ c[3] = Cell(3 * m + 3)
  <2>1. Cell(3 * m + 1) \in CellSet /\ Cell(3 * m + 2) \in CellSet /\ Cell(3 * m + 3) \in CellSet
    BY CellType
  <2> QED BY <2>1
<1> HIDE DEF c, t
<1>3. Len(s) \in Nat
  OBVIOUS
<1>4. /\ t \in Seq(CellSet) /\ Len(t) = Len(s) + 3
      /\ \A i \in 1..Len(s) + 3 : t[i] = IF i <= Len(s) THEN s[i] ELSE c[i - Len(s)]
  <2>1. /\ s \o c \in Seq(CellSet) /\ Len(s \o c) = Len(s) + Len(c)
        /\ \A i \in 1..Len(s) + Len(c) : (s \o c)[i] = IF i <= Len(s) THEN s[i] ELSE c[i - Len(s)]
    BY <1>2, ConcatProperties, Zenon
  <2>2. t = s \o c
    BY <1>1 DEF t
  <2> QED BY <1>2, <2>1, <2>2
<1>5. ASSUME NEW i \in 1..3 PROVE c[i] = Cell(3 * m + i)
  <2>1. i = 1 \/ i = 2 \/ i = 3
    OBVIOUS
  <2> QED BY <2>1, <1>2
<1>6. \A i \in 1..3 : t[Len(s) + i] = c[i]
  BY SMTT(60), <1>3, <1>4
<1>7. /\ t \in Seq(CellSet) /\ Len(t) = Len(s) + 3
      /\ \A i \in 1..Len(s) : t[i] = s[i]
      /\ \A i \in 1..3 : t[Len(s) + i] = Cell(3 * m + i)
  BY SMTT(60), <1>3, <1>4, <1>5, <1>6
<1> QED BY <1>7 DEF t

THEOREM InitIInv == Init => IInv
<1> SUFFICES ASSUME Init PROVE IInv
  OBVIOUS
<1>1. Typed /\ Kept
  <2>1. Len(<<>>) = 0 /\ \A S : <<>> \in Seq(S)
    BY EmptySeq
  <2>2. sent = <<>> /\ sock = <<>> /\ buf = <<>> /\ bufused = 0 /\ next = FALSE /\ done = 0
    BY DEF Init
  <2>3. sent \in Seq(Kind) /\ buf \in Seq(CellSet) /\ sock \in Seq(CellSet)
    BY <2>1, <2>2
  <2>4. Len(buf) = 0 /\ Len(sent) = 0 /\ 0 \in 0..0
    BY <2>1, <2>2
  <2>7. next \in BOOLEAN
    BY <2>2, Zenon
  <2>5. Typed
    BY <2>2, <2>3, <2>4, <2>7 DEF Typed
  <2>6. Kept
    BY <2>2, <2>4 DEF Kept
  <2> QED BY <2>5, <2>6
<1>2. Ahead
  BY DEF Init, Ahead, Aligned, Unread
<1>3. Framed /\ LostLast
  BY DEF Init, Framed, LostLast
<1> QED BY <1>1, <1>2, <1>3 DEF IInv

LEMMA SendKeeps ==
    ASSUME IInv, NEW k \in Kind, Send(k)
    PROVE  IInv'
<1> USE DEF IInv, Send
<1> DEFINE n == Len(sent)
<1>0. n \in Nat /\ sent' \in Seq(Kind) /\ Len(sent') = n + 1
  BY DEF Typed
<1>2. /\ sock' \in Seq(CellSet) /\ Len(sock') = Len(sock) + 3
      /\ \A i \in 1..Len(sock) : sock'[i] = sock[i]
      /\ \A i \in 1..3 : sock'[Len(sock) + i] = Cell(3 * n + i)
  <2>1. sock \in Seq(CellSet) /\ sock' = sock \o Cells(n + 1)
    BY <1>0 DEF Typed
  <2> DEFINE t == sock \o Cells(n + 1)
  <2>2. /\ t \in Seq(CellSet) /\ Len(t) = Len(sock) + 3
        /\ \A i \in 1..Len(sock) : t[i] = sock[i]
        /\ \A i \in 1..3 : t[Len(sock) + i] = Cell(3 * n + i)
    BY <1>0, <2>1, MessageBehind
  <2>3. sock' = t
    BY <2>1
  <2> HIDE DEF IInv, Send, n, t
  <2> QED BY <2>2, <2>3
<1>3. Typed'
  BY <1>0, <1>2 DEF Typed
<1>4. Kept' /\ Framed' /\ LostLast'
  BY DEF Kept, Framed, LostLast
<1>5. Ahead'
  <2>1. Unread' = Unread /\ Unread \in Nat /\ Len(sock) \in Nat /\ done \in Nat
    BY DEF Unread, Typed
  <2>2. Unread' + Len(sock') = 3 * (Len(sent') - done')
    BY SMTT(60), <2>1, <1>0, <1>2 DEF Ahead
  <2>3. Aligned(buf', bufused', done')
    BY DEF Ahead, Aligned
  <2>4. ASSUME NEW i \in 1..Len(sock')
        PROVE  sock'[i] = Cell(3 * done' + Unread' + i)
    <3>1. CASE i <= Len(sock)
      <4>1. i \in 1..Len(sock)
        BY <2>1, <1>2, <3>1
      <4> QED BY <4>1, <2>1, <1>2 DEF Ahead
    <3>2. CASE i > Len(sock)
      <4> DEFINE j == i - Len(sock)
      <4>1. j \in 1..3 /\ i = Len(sock) + j
        <5>1. Len(sock') = Len(sock) + 3 /\ Len(sock) \in Nat
          BY <2>1, <1>2
        <5> HIDE DEF IInv, Send
        <5> QED BY <5>1, <3>2
      <4>2. Unread + Len(sock) = 3 * (n - done)
        BY DEF Ahead
      <4> HIDE DEF IInv, Send, j, n
      <4>3. 3 * n + j = 3 * done + Unread + i
        BY SMTT(60), <4>1, <4>2, <2>1, <1>0
      <4>4. sock'[i] = Cell(3 * n + j)
        BY <1>2, <4>1
      <4>5. done' = done
        BY DEF Send
      <4> QED BY <4>3, <4>4, <4>5, <2>1
    <3> QED BY SMTT(60), <2>1, <1>2, <3>1, <3>2
  <2> QED BY <2>2, <2>3, <2>4 DEF Ahead
<1> QED BY <1>3, <1>4, <1>5

\* A read begins with less than a message, at the front of the buffer.
LEMMA RestIsShort ==
    ASSUME IInv, Reads
    PROVE  /\ From = 0 /\ Rest \in Seq(CellSet)
           /\ Len(Rest) = Unread /\ Len(Rest) < 3
           /\ Aligned(Rest, 0, done)
<1> USE DEF IInv
<1>1. CASE ~next
  BY <1>1 DEF Kept, From, Rest, Unread, Typed, Ahead
<1>2. CASE next
  <2>1. EndOf(buf, bufused) = 0 /\ bufused < Len(buf) /\ bufused \in Nat /\ Len(buf) \in Nat
    BY <1>2 DEF Reads, Kept, Typed
  <2>2. Len(buf) - bufused < 3
    <3>1. EndOf(buf, bufused) = IF Len(buf) - bufused < 3 THEN 0 ELSE bufused + 3
      BY FirstEnd DEF Typed, Ahead
    <3> QED BY <2>1, <3>1
  <2>3. Rest = SubSeq(buf, bufused + 1, Len(buf)) /\ From = 0
    BY <1>2 DEF Rest, From
  <2>4. \A i \in bufused + 1..Len(buf) : buf[i] \in CellSet
    BY <2>1 DEF Typed
  <2>5. /\ Rest \in Seq(CellSet) /\ Len(Rest) = Len(buf) - bufused
        /\ \A i \in 1..Len(buf) - bufused : Rest[i] = buf[bufused + i]
    <3> HIDE DEF IInv
    <3>1. /\ SubSeq(buf, bufused + 1, Len(buf)) \in Seq(CellSet)
          /\ Len(SubSeq(buf, bufused + 1, Len(buf)))
               = IF bufused + 1 <= Len(buf) THEN Len(buf) - (bufused + 1) + 1 ELSE 0
          /\ \A i \in 1..Len(buf) - (bufused + 1) + 1 :
               SubSeq(buf, bufused + 1, Len(buf))[i] = buf[bufused + 1 + i - 1]
      BY SMTT(60), <2>1, <2>4, SubSeqProperties
    <3> QED BY <2>1, <2>3, <3>1
  <2>6. Aligned(Rest, 0, done)
    BY <2>1, <2>5 DEF Ahead, Aligned
  <2> QED BY <2>2, <2>3, <2>5, <2>6 DEF Unread
<1> QED BY <1>1, <1>2 DEF Typed
\* A message is cut from a buffer that is aligned.
LEMMA CutTakesNext ==
    ASSUME Typed, NEW b \in Seq(CellSet), NEW from \in 0..Len(b),
           Aligned(b, from, done), Len(b) - from >= 3, Cut(b, from, from + 3)
    PROVE  /\ frame' = Cells(done') /\ done' = done + 1
           /\ next' \in BOOLEAN /\ buf' \in Seq(CellSet) /\ bufused' \in 0..Len(buf')
           /\ Kept' /\ Unread' = Len(b) - from - 3
           /\ Aligned(buf', bufused', done')
<1>1. Len(b) \in Nat /\ from \in Nat /\ done \in Nat
  BY DEF Typed
<1>2. done' = done + 1
  BY DEF Cut, Handle
<1>3. frame' = Cells(done')
  <2>1. frame' = SubSeq(b, from + 1, from + 3)
    BY DEF Cut
  <2>2. SubSeq(b, from + 1, from + 3) = <<b[from + 1], b[from + 2], b[from + 3]>>
    <3>1. from + 1 \in Int /\ from + 3 \in Int /\ \A i \in from + 1..from + 3 : b[i] \in CellSet
      BY <1>1
    <3>2. /\ SubSeq(b, from + 1, from + 3) \in Seq(CellSet)
          /\ Len(SubSeq(b, from + 1, from + 3)) = 3
          /\ \A i \in 1..3 : SubSeq(b, from + 1, from + 3)[i] = b[from + i]
      <4>1. /\ SubSeq(b, from + 1, from + 3) \in Seq(CellSet)
            /\ Len(SubSeq(b, from + 1, from + 3))
                 = IF from + 1 <= from + 3 THEN from + 3 - (from + 1) + 1 ELSE 0
            /\ \A i \in 1..from + 3 - (from + 1) + 1 :
                 SubSeq(b, from + 1, from + 3)[i] = b[from + 1 + i - 1]
        BY <3>1, SubSeqProperties
      <4> QED BY <4>1, <1>1
    <3> DEFINE s == SubSeq(b, from + 1, from + 3)
               t == <<b[from + 1], b[from + 2], b[from + 3]>>
    <3>3. t \in Seq(CellSet) /\ Len(t) = 3
          /\ t[1] = b[from + 1] /\ t[2] = b[from + 2] /\ t[3] = b[from + 3]
      BY <3>1, <1>1
    <3>4. s \in Seq(CellSet) /\ Len(s) = 3
          /\ s[1] = b[from + 1] /\ s[2] = b[from + 2] /\ s[3] = b[from + 3]
      BY <3>2
    <3> HIDE DEF s, t
    <3>5. \A i \in 1..Len(s) : i = 1 \/ i = 2 \/ i = 3
      BY <3>4
    <3>6. s = t
      BY ZenonT(60), <3>3, <3>4, <3>5, SeqEqual
    <3> QED BY <3>6 DEF s, t
  <2>3. /\ b[from + 1] = Cell(3 * done + 1) /\ b[from + 2] = Cell(3 * done + 2)
        /\ b[from + 3] = Cell(3 * done + 3)
    BY <1>1 DEF Aligned
  <2>4. 3 * done' - 2 = 3 * done + 1 /\ 3 * done' - 1 = 3 * done + 2 /\ 3 * done' = 3 * done + 3
    BY <1>1, <1>2
  <2> QED BY <2>1, <2>2, <2>3, <2>4, Zenon DEF Cells
<1>4. CASE from + 3 < Len(b)
  <2>1. next' = TRUE /\ buf' = b /\ bufused' = from + 3
    BY <1>4 DEF Cut
  <2>2. ASSUME NEW i \in 1..Len(b) - (from + 3)
        PROVE  b[from + 3 + i] = Cell(3 * (done + 1) + i)
    <3>1. 3 + i \in 1..Len(b) - from /\ from + (3 + i) = from + 3 + i
          /\ 3 * done + (3 + i) = 3 * (done + 1) + i
      BY <1>1
    <3>2. b[from + (3 + i)] = Cell(3 * done + (3 + i))
      BY <3>1 DEF Aligned
    <3> QED BY <3>1, <3>2
  <2> QED BY <1>1, <1>2, <1>3, <1>4, <2>1, <2>2 DEF Kept, Unread, Aligned
<1>5. CASE ~(from + 3 < Len(b))
  <2>1. next' = FALSE /\ buf' = <<>> /\ bufused' = 0
    <3>1. next' = (from + 3 < Len(b))
      BY Zenon DEF Cut
    <3>2. /\ buf' = IF from + 3 < Len(b) THEN b ELSE <<>>
          /\ bufused' = IF from + 3 < Len(b) THEN from + 3 ELSE 0
      BY Zenon DEF Cut
    <3>0. (from + 3 < Len(b)) = FALSE
      BY <1>5
    <3>3. next' = FALSE
      BY <3>0, <3>1
    <3> QED BY <1>5, <3>2, <3>3
  <2>2. buf' \in Seq(CellSet) /\ Len(buf') = 0
    BY <2>1, EmptySeq
  <2>3. Aligned(buf', bufused', done')
    BY <2>1, <2>2 DEF Aligned
  <2>4. Len(b) = from + 3 /\ 0 \in 0..0
    BY <1>1, <1>5
  <2>5. Unread' = Len(b) - from - 3
    BY <1>1, <2>1, <2>2, <2>4 DEF Unread
  <2>6. Kept'
    BY <2>1, <2>2 DEF Kept
  <2>7. next' \in BOOLEAN /\ bufused' \in 0..Len(buf')
    BY <2>1, <2>2, <2>4
  <2> QED BY <1>2, <1>3, <2>2, <2>3, <2>5, <2>6, <2>7
<1> QED BY <1>4, <1>5

LEMMA RecvBufferedKeeps ==
    ASSUME IInv, RecvBuffered
    PROVE  IInv'
<1>1. Len(buf) - bufused >= 3 /\ EndOf(buf, bufused) = bufused + 3
  <2>1. EndOf(buf, bufused) = IF Len(buf) - bufused < 3 THEN 0 ELSE bufused + 3
    BY FirstEnd DEF IInv, Typed, Ahead
  <2>2. EndOf(buf, bufused) # 0 /\ Len(buf) \in Nat /\ bufused \in Nat
    BY DEF RecvBuffered, IInv, Typed
  <2> QED BY <2>1, <2>2
<1>2. Cut(buf, bufused, bufused + 3)
  BY <1>1 DEF RecvBuffered
<1>3. /\ frame' = Cells(done') /\ done' = done + 1
      /\ next' \in BOOLEAN /\ buf' \in Seq(CellSet) /\ bufused' \in 0..Len(buf')
      /\ Kept' /\ Unread' = Len(buf) - bufused - 3
      /\ Aligned(buf', bufused', done')
  BY <1>1, <1>2, CutTakesNext DEF IInv, Typed, Ahead
<1>4. UNCHANGED <<sent, sock, closed, lost>> /\ ~lost
  BY DEF RecvBuffered, Called
<1>5. /\ Unread = Len(buf) - bufused /\ Unread \in Nat /\ Len(sock) \in Nat
      /\ Len(sent) \in Nat /\ done \in Nat /\ Unread + Len(sock) = 3 * (Len(sent) - done)
  BY DEF Unread, IInv, Typed, Ahead
<1>6. Typed'
  <2>1. done' \in 0..Len(sent)
    BY SMTT(60), <1>1, <1>3, <1>5
  <2> QED BY <1>3, <1>4, <2>1 DEF IInv, Typed
<1>7. Ahead'
  <2>1. 3 * done' + Unread' = 3 * done + Unread
    BY SMTT(60), <1>3, <1>5
  <2>2. Unread' + Len(sock') = 3 * (Len(sent') - done')
    <3> DEFINE x == Unread  y == Unread'  d == done  k == Len(sock)  m == Len(sent)
    <3>1. /\ x \in Nat /\ d \in Nat /\ k \in Nat /\ m \in Nat
          /\ x + k = 3 * (m - d) /\ y = x - 3
      BY SMTT(60), <1>3, <1>5
    <3>2. Len(sock') = k /\ Len(sent') = m /\ done' = d + 1
      BY <1>3, <1>4
    <3> HIDE DEF x, y, d, k, m
    <3>3. y + k = 3 * (m - (d + 1))
      BY <3>1
    <3> QED BY <3>2, <3>3 DEF y
  <2>3. \A i \in 1..Len(sock) : sock[i] = Cell(3 * done' + Unread' + i)
    <3> DEFINE u == 3 * done + Unread
               v == 3 * done' + Unread'
    <3>1. v = u
      BY <2>1
    <3>2. \A i \in 1..Len(sock) : sock[i] = Cell(u + i)
      BY DEF IInv, Ahead
    <3> HIDE DEF u, v
    <3>3. \A i \in 1..Len(sock) : sock[i] = Cell(v + i)
      BY <3>1, <3>2
    <3> QED BY <3>3 DEF v
  <2> QED BY <1>3, <1>4, <2>2, <2>3 DEF Ahead
<1>8. Framed' /\ LostLast'
  BY <1>3, <1>4 DEF Framed, LostLast
<1> QED BY <1>3, <1>6, <1>7, <1>8 DEF IInv

\* What a read adds to the rest.
LEMMA ReadAligned ==
    ASSUME IInv, Reads, NEW len \in 1..Len(sock)
    PROVE  LET b == Rest \o SubSeq(sock, 1, len)
               t == SubSeq(sock, len + 1, Len(sock))
           IN  /\ b \in Seq(CellSet) /\ Len(b) = Unread + len
               /\ Aligned(b, 0, done)
               /\ t \in Seq(CellSet) /\ Len(t) = Len(sock) - len
               /\ \A i \in 1..Len(t) : t[i] = Cell(3 * done + Unread + len + i)
<1> DEFINE h == SubSeq(sock, 1, len)
           t == SubSeq(sock, len + 1, Len(sock))
           b == Rest \o h
<1>1. /\ Rest \in Seq(CellSet) /\ Len(Rest) = Unread /\ Unread \in Nat
      /\ Aligned(Rest, 0, done)
  BY RestIsShort
<1>2. /\ Len(sock) \in Nat /\ len \in Nat /\ done \in Nat /\ len <= Len(sock) /\ len > 0
      /\ \A i \in 1..Len(sock) : sock[i] \in CellSet
      /\ \A i \in 1..Len(sock) : sock[i] = Cell(3 * done + Unread + i)
  BY DEF IInv, Typed, Ahead
<1>3. /\ h \in Seq(CellSet) /\ Len(h) = len
      /\ \A i \in 1..len : h[i] = sock[i]
  <2>1. 1 \in Int /\ len \in Int /\ \A i \in 1..len : sock[i] \in CellSet
    BY <1>2
  <2>2. /\ h \in Seq(CellSet)
        /\ Len(h) = IF 1 <= len THEN len - 1 + 1 ELSE 0
        /\ \A i \in 1..len - 1 + 1 : h[i] = sock[1 + i - 1]
    BY <2>1, SubSeqProperties
  <2> HIDE DEF h
  <2> QED BY <1>2, <2>2
<1>4. /\ t \in Seq(CellSet) /\ Len(t) = Len(sock) - len
      /\ \A i \in 1..Len(t) : t[i] = sock[len + i]
  <2>1. len + 1 \in Int /\ Len(sock) \in Int
        /\ \A i \in len + 1..Len(sock) : sock[i] \in CellSet
    BY <1>2
  <2>2. /\ t \in Seq(CellSet)
        /\ Len(t) = IF len + 1 <= Len(sock) THEN Len(sock) - (len + 1) + 1 ELSE 0
        /\ \A i \in 1..Len(sock) - (len + 1) + 1 : t[i] = sock[len + 1 + i - 1]
    BY <2>1, SubSeqProperties
  <2> HIDE DEF t, h, b
  <2>3. len + 1 <= Len(sock) + 1 /\ Len(sock) - (len + 1) + 1 = Len(sock) - len
    BY <1>2
  <2>4. Len(t) = Len(sock) - len
    <3>1. CASE len + 1 <= Len(sock)
      BY <2>2, <2>3, <3>1
    <3>2. CASE ~(len + 1 <= Len(sock))
      <4>1. Len(sock) - len = 0
        BY <1>2, <3>2
      <4>2. Len(t) = 0
        BY <2>2, <3>2
      <4> QED BY <4>1, <4>2
    <3> QED BY <3>1, <3>2
  <2>5. ASSUME NEW i \in 1..Len(t) PROVE t[i] = sock[len + i]
    <3>1. i \in 1..Len(sock) - (len + 1) + 1 /\ len + 1 + i - 1 = len + i
      BY <1>2, <2>3, <2>4
    <3> QED BY <2>2, <3>1
  <2> QED BY <2>2, <2>4, <2>5
<1>5. /\ b \in Seq(CellSet) /\ Len(b) = Len(Rest) + Len(h)
      /\ \A i \in 1..Len(Rest) + Len(h) : b[i] = IF i <= Len(Rest) THEN Rest[i] ELSE h[i - Len(Rest)]
  BY <1>1, <1>3, ConcatProperties, Zenon
<1> HIDE DEF h, t, b
<1>6. Len(b) = Unread + len
  BY <1>1, <1>3, <1>5
<1>7. ASSUME NEW i \in 1..Len(b) - 0
      PROVE  b[0 + i] = Cell(3 * done + i)
  <2>0. i \in Nat /\ 0 + i = i /\ i \in 1..Len(Rest) + Len(h)
    BY <1>1, <1>2, <1>3, <1>5
  <2>1. CASE i <= Len(Rest)
    <3>1. i \in 1..Len(Rest) - 0 /\ b[i] = Rest[i]
      BY <2>0, <2>1, <1>5, <1>1
    <3>2. Rest[0 + i] = Cell(3 * done + i)
      BY <3>1, <1>1 DEF Aligned
    <3> QED BY <2>0, <3>1, <3>2
  <2>2. CASE i > Len(Rest)
    <3>1. i - Len(Rest) \in 1..len /\ b[i] = h[i - Len(Rest)]
      BY <2>0, <2>2, <1>1, <1>3, <1>5
    <3>2. h[i - Len(Rest)] = Cell(3 * done + Unread + (i - Len(Rest)))
      BY SMTT(60), <3>1, <1>2, <1>3
    <3>3. 3 * done + Unread + (i - Len(Rest)) = 3 * done + i
      BY <2>0, <1>1, <1>2
    <3> QED BY <2>0, <3>1, <3>2, <3>3
  <2> QED BY <2>0, <2>1, <2>2, <1>1
<1>8. ASSUME NEW i \in 1..Len(t) PROVE t[i] = Cell(3 * done + Unread + len + i)
  <2>1. len + i \in 1..Len(sock) /\ t[i] = sock[len + i]
    BY <1>2, <1>4
  <2>2. sock[len + i] = Cell(3 * done + Unread + (len + i))
    BY <2>1, <1>2
  <2>3. 3 * done + Unread + (len + i) = 3 * done + Unread + len + i
    BY <1>1, <1>2, <1>4
  <2> QED BY <2>1, <2>2, <2>3
<1>9. /\ b \in Seq(CellSet) /\ Len(b) = Unread + len
      /\ Aligned(b, 0, done)
      /\ t \in Seq(CellSet) /\ Len(t) = Len(sock) - len
      /\ \A i \in 1..Len(t) : t[i] = Cell(3 * done + Unread + len + i)
  BY <1>4, <1>5, <1>6, <1>7, <1>8 DEF Aligned
<1> QED BY <1>9 DEF b, h, t

\* What is kept without a message is as it was, at the front of the buffer.
LEMMA NoMessageKeeps ==
    ASSUME Typed, NEW b \in Seq(CellSet), Len(b) < 3, Aligned(b, 0, done), NoMessage(b, 0)
    PROVE  /\ frame' = frame /\ done' = done
           /\ next' \in BOOLEAN /\ buf' \in Seq(CellSet) /\ bufused' \in 0..Len(buf')
           /\ Kept' /\ Unread' = Len(b)
           /\ Aligned(buf', bufused', done')
<1>1. buf' = b /\ bufused' = 0 /\ next' = FALSE /\ frame' = frame
  BY DEF NoMessage
<1>2. done' = done
  BY DEF NoMessage, Handle
<1>3. Len(b) \in Nat
  OBVIOUS
<1>4. next' \in BOOLEAN
  BY <1>1, Zenon
<1>5. Kept' /\ Unread' = Len(b)
  BY <1>1, <1>3 DEF Kept, Unread
<1>6. bufused' \in 0..Len(buf')
  BY <1>1, <1>3
<1> QED BY <1>1, <1>2, <1>4, <1>5, <1>6

LEMMA RecvSocketKeeps ==
    ASSUME IInv, NEW len \in 1..RecvSize, len <= Len(sock), RecvSocket(len)
    PROVE  IInv'
<1> DEFINE b == Rest \o SubSeq(sock, 1, len)
           t == SubSeq(sock, len + 1, Len(sock))
<1>1. /\ Reads /\ ~lost /\ sock' = t /\ UNCHANGED <<sent, closed, lost>>
      /\ LET used == EndOf(b, SearchFrom(b, From, len))
         IN  IF used = 0 THEN NoMessage(b, From) ELSE Cut(b, From, used)
  BY DEF RecvSocket, Reads, Called
<1>2. /\ Unread \in Nat /\ Len(sock) \in Nat /\ Len(sent) \in Nat /\ done \in Nat
      /\ Unread + Len(sock) = 3 * (Len(sent) - done) /\ len \in 1..Len(sock)
  BY DEF Unread, IInv, Typed, Ahead
<1>3. /\ b \in Seq(CellSet) /\ Len(b) = Unread + len
      /\ Aligned(b, 0, done)
      /\ t \in Seq(CellSet) /\ Len(t) = Len(sock) - len
      /\ \A i \in 1..Len(t) : t[i] = Cell(3 * done + Unread + len + i)
  BY <1>1, <1>2, ReadAligned
<1> HIDE DEF b, t
<1>4. From = 0 /\ Unread < 3
  BY <1>1, RestIsShort
<1>5. SearchFrom(b, From, len) = 0
  BY <1>2, <1>3, <1>4 DEF SearchFrom, DelimiterLen
<1>6. EndOf(b, 0) = IF Len(b) < 3 THEN 0 ELSE 3
  <2>1. 0 \in 0..Len(b) /\ Len(b) - 0 = Len(b) /\ 0 + 3 = 3
    BY <1>2, <1>3
  <2>2. EndOf(b, 0) = IF Len(b) - 0 < 3 THEN 0 ELSE 0 + 3
    BY <1>2, <1>3, <2>1, FirstEnd
  <2> QED BY <2>1, <2>2
<1>7. /\ done' \in {done, done + 1} /\ done' >= done /\ 3 * done' + Unread' = 3 * done + Len(b)
      /\ next' \in BOOLEAN /\ buf' \in Seq(CellSet) /\ bufused' \in 0..Len(buf')
      /\ Kept' /\ Aligned(buf', bufused', done') /\ Framed' /\ Unread' \in Nat
  <2>1. CASE Len(b) < 3
    <3>1. NoMessage(b, 0)
      BY <1>1, <1>4, <1>5, <1>6, <2>1
    <3>2. /\ frame' = frame /\ done' = done
          /\ next' \in BOOLEAN /\ buf' \in Seq(CellSet) /\ bufused' \in 0..Len(buf')
          /\ Kept' /\ Unread' = Len(b)
          /\ Aligned(buf', bufused', done')
      BY <1>3, <2>1, <3>1, NoMessageKeeps DEF IInv
    <3>3. Framed'
      BY <3>2 DEF IInv, Framed
    <3> QED BY <1>2, <1>3, <3>2, <3>3
  <2>2. CASE ~(Len(b) < 3)
    <3>1. 0 \in 0..Len(b) /\ Len(b) - 0 >= 3 /\ 0 + 3 = 3
      BY <1>2, <1>3, <2>2
    <3>2. Cut(b, 0, 0 + 3)
      BY <1>1, <1>4, <1>5, <1>6, <2>2, <3>1
    <3>3. /\ frame' = Cells(done') /\ done' = done + 1
          /\ next' \in BOOLEAN /\ buf' \in Seq(CellSet) /\ bufused' \in 0..Len(buf')
          /\ Kept' /\ Unread' = Len(b) - 0 - 3
          /\ Aligned(buf', bufused', done')
      BY <1>3, <3>1, <3>2, CutTakesNext DEF IInv
    <3>4. Framed'
      BY <3>3 DEF Framed
    <3>5. 3 * done' + Unread' = 3 * done + Len(b) /\ Unread' \in Nat /\ done' >= done
      BY <1>2, <1>3, <3>1, <3>3
    <3> QED BY <3>3, <3>4, <3>5
  <2> QED BY <2>1, <2>2
<1>8. done' \in Nat /\ Unread' \in Nat /\ 3 * done' + Unread' = 3 * done + Unread + len
  <2>1. done' \in Nat /\ Unread' \in Nat /\ 3 * done' + Unread' = 3 * done + Len(b)
    BY SMTT(60), <1>2, <1>7
  <2>2. Len(b) = Unread + len /\ len \in Nat /\ Unread \in Nat /\ done \in Nat
    BY <1>2, <1>3
  <2>3. 3 * done' + Unread' = 3 * done + (Unread + len)
    BY <2>1, <2>2, Zenon
  <2>4. 3 * done + (Unread + len) = 3 * done + Unread + len
    BY <2>2
  <2> QED BY <2>1, <2>3, <2>4, Zenon
<1>9. Len(sock') = Len(sock) - len /\ Len(sent') = Len(sent) /\ len \in Nat /\ len <= Len(sock)
  BY <1>1, <1>2, <1>3
<1>10. Unread' + Len(sock') = 3 * (Len(sent') - done')
  <2> DEFINE x == Unread  y == Unread'  d == done  e == done'
             k == Len(sock)  l == Len(sock')  m == Len(sent)
  <2>1. /\ x \in Nat /\ y \in Nat /\ d \in Nat /\ e \in Nat /\ k \in Nat /\ m \in Nat /\ len \in Nat
        /\ x + k = 3 * (m - d) /\ 3 * e + y = 3 * d + x + len /\ l = k - len
    BY <1>2, <1>8, <1>9
  <2> HIDE DEF x, y, d, e, k, l, m
  <2>2. y + l = 3 * (m - e)
    BY <2>1
  <2> QED BY <1>9, <2>2 DEF y, l, e, m
<1>11. done' \in 0..Len(sent')
  BY SMTT(60), <1>2, <1>8, <1>9, <1>10
<1>12. Typed'
  BY <1>1, <1>3, <1>7, <1>11 DEF IInv, Typed
<1>13. Ahead'
  <2>1. \A i \in 1..Len(t) : t[i] = Cell(3 * done' + Unread' + i)
    BY <1>3, <1>8
  <2> QED BY <1>1, <1>7, <1>10, <2>1 DEF Ahead
<1>14. LostLast'
  BY <1>1 DEF LostLast
<1> QED BY <1>7, <1>12, <1>13, <1>14 DEF IInv

\* Without a message in it, a step that only keeps the rest changes nothing.
LEMMA RestKeeps ==
    ASSUME IInv, Reads, NoMessage(Rest, From), UNCHANGED <<sent, sock, closed, lost>>
    PROVE  IInv'
<1>1. /\ From = 0 /\ Rest \in Seq(CellSet)
      /\ Len(Rest) = Unread /\ Len(Rest) < 3 /\ Aligned(Rest, 0, done)
  BY RestIsShort
<1>2. /\ frame' = frame /\ done' = done
      /\ next' \in BOOLEAN /\ buf' \in Seq(CellSet) /\ bufused' \in 0..Len(buf')
      /\ Kept' /\ Unread' = Unread
      /\ Aligned(buf', bufused', done')
  BY <1>1, NoMessageKeeps DEF IInv
<1>3. Typed'
  BY <1>2 DEF IInv, Typed
<1>4. Ahead'
  BY <1>2 DEF IInv, Ahead
<1>5. Framed' /\ LostLast'
  BY <1>2 DEF IInv, Framed, LostLast
<1> QED BY <1>2, <1>3, <1>4, <1>5 DEF IInv

\* A connection is given up with nothing of a message left.
LEMMA LoseKeeps ==
    ASSUME IInv, Reads, closed, sock = <<>>, Lose, UNCHANGED <<sent, sock, closed>>
    PROVE  IInv'
<1>1. /\ Unread \in Nat /\ Unread < 3 /\ Len(sock) = 0
      /\ Len(sent) \in Nat /\ done \in Nat /\ Unread + Len(sock) = 3 * (Len(sent) - done)
  BY RestIsShort DEF IInv, Typed, Ahead, Unread
<1>2. Unread = 0 /\ done = Len(sent)
  BY <1>1
<1>3. /\ buf' = <<>> /\ bufused' = 0 /\ next' = FALSE /\ lost' = TRUE
      /\ frame' = frame /\ done' = done
  BY DEF Lose
<1>4. buf' \in Seq(CellSet) /\ Len(buf') = 0 /\ 0 \in 0..0
  BY <1>3, EmptySeq
<1>5. Typed'
  <2>1. next' \in BOOLEAN
    BY <1>3, Zenon
  <2>2. bufused' \in 0..Len(buf')
    BY <1>3, <1>4
  <2> QED BY <1>3, <1>4, <2>1, <2>2 DEF IInv, Typed
<1>6. Kept'
  BY <1>3, <1>4 DEF Kept
<1>7. Ahead'
  <2>1. Unread' = 0
    BY <1>3, <1>4 DEF Unread
  <2>2. Aligned(buf', bufused', done')
    BY <1>3, <1>4 DEF Aligned
  <2>3. Unread' + Len(sock') = 3 * (Len(sent') - done')
    BY <1>1, <1>2, <1>3, <2>1
  <2>4. \A i \in 1..Len(sock') : sock'[i] = Cell(3 * done' + Unread' + i)
    BY <1>1
  <2> QED BY <2>2, <2>3, <2>4 DEF Ahead
<1>8. Framed' /\ LostLast'
  BY <1>2, <1>3 DEF IInv, Framed, LostLast
<1> QED BY <1>5, <1>6, <1>7, <1>8 DEF IInv

\* Steps that leave the stream and the buffer alone.
LEMMA ElsewhereKeeps ==
    ASSUME IInv, UNCHANGED <<sent, sock, buf, bufused, next, done, frame, lost>>,
           closed => closed'
    PROVE  IInv'
<1>1. Typed' /\ Kept' /\ Framed'
  BY DEF IInv, Typed, Kept, Framed
<1>2. Ahead'
  BY DEF IInv, Ahead, Aligned, Unread
<1>3. LostLast'
  BY DEF IInv, LostLast
<1> QED BY <1>1, <1>2, <1>3 DEF IInv

THEOREM NextIInv == IInv /\ [Next]_vars => IInv'
<1> SUFFICES ASSUME IInv, [Next]_vars PROVE IInv'
  OBVIOUS
<1>1. ASSUME NEW k \in Kind, Send(k) PROVE IInv'
  BY <1>1, SendKeeps
<1>2. CASE Close
  BY <1>2, ElsewhereKeeps DEF Close
<1>3. CASE OtherError
  BY <1>3, ElsewhereKeeps DEF OtherError
<1>4. CASE Block
  BY <1>4, ElsewhereKeeps DEF Block
<1>5. CASE RecvBuffered
  BY <1>5, RecvBufferedKeeps
<1>6. ASSUME NEW len \in 1..RecvSize, len <= Len(sock), RecvSocket(len) PROVE IInv'
  BY <1>6, RecvSocketKeeps
<1>7. CASE RecvNothing
  BY <1>7, RestKeeps DEF RecvNothing
<1>8. CASE RecvEnd
  <2>1. CASE eagain
    BY <1>8, <2>1, RestKeeps DEF RecvEnd
  <2>2. CASE ~eagain
    BY <1>8, <2>2, LoseKeeps DEF RecvEnd
  <2> QED BY <2>1, <2>2
<1>9. CASE UNCHANGED vars
  BY <1>9, ElsewhereKeeps DEF vars
<1> QED BY <1>1, <1>2, <1>3, <1>4, <1>5, <1>6, <1>7, <1>8, <1>9 DEF Next, Recv

\* The invariant says what is buffered and on its way in one sequence.
LEMMA IInvInStep == IInv => InStep
<1> SUFFICES ASSUME IInv PROVE InStep
  OBVIOUS
<1> DEFINE u == SubSeq(buf, bufused + 1, Len(buf))
           n == 3 * (Len(sent) - done)
           rest == [i \in 1..n |-> Cell(3 * done + i)]
<1>1. /\ Unread \in Nat /\ Len(sock) \in Nat /\ done \in Nat /\ n \in Nat
      /\ Unread + Len(sock) = n /\ Unread = Len(buf) - bufused
      /\ Len(buf) \in Nat /\ bufused \in Nat /\ sock \in Seq(CellSet)
  BY DEF IInv, Typed, Ahead, Unread
<1>2. /\ u \in Seq(CellSet) /\ Len(u) = Unread
      /\ \A i \in 1..Unread : u[i] = Cell(3 * done + i)
  <2>1. \A i \in bufused + 1..Len(buf) : buf[i] \in CellSet
    BY <1>1 DEF IInv, Typed
  <2>2. /\ u \in Seq(CellSet)
        /\ Len(u) = IF bufused + 1 <= Len(buf) THEN Len(buf) - (bufused + 1) + 1 ELSE 0
        /\ \A i \in 1..Len(buf) - (bufused + 1) + 1 : u[i] = buf[bufused + 1 + i - 1]
    BY <1>1, <2>1, SubSeqProperties
  <2> HIDE DEF u, n
  <2>3. \A i \in 1..Unread : u[i] = buf[bufused + i]
    BY <1>1, <2>2
  <2>4. Len(u) = Unread
    BY <1>1, <2>2
  <2> QED BY <1>1, <2>2, <2>3, <2>4 DEF IInv, Ahead, Aligned
<1>3. /\ u \o sock \in Seq(CellSet) /\ Len(u \o sock) = Len(u) + Len(sock)
      /\ \A i \in 1..Len(u) + Len(sock) :
           (u \o sock)[i] = IF i <= Len(u) THEN u[i] ELSE sock[i - Len(u)]
  BY <1>1, <1>2, ConcatProperties, Zenon
<1>4. /\ rest \in Seq(CellSet) /\ Len(rest) = n
      /\ \A i \in 1..n : rest[i] = Cell(3 * done + i)
  <2>1. \A i \in 1..n : Cell(3 * done + i) \in CellSet
    BY <1>1, CellType
  <2> QED BY <1>1, <2>1
<1> DEFINE s == u \o sock
<1> HIDE DEF u, n, rest, s
<1>5. s \in Seq(CellSet) /\ Len(s) = n
      /\ \A i \in 1..n : s[i] = IF i <= Unread THEN u[i] ELSE sock[i - Unread]
  BY <1>1, <1>2, <1>3 DEF s
<1>6. ASSUME NEW i \in 1..n PROVE s[i] = rest[i]
  <2>1. CASE i <= Unread
    <3>1. i \in 1..Unread
      BY <1>1, <2>1
    <3>2. s[i] = u[i] /\ rest[i] = Cell(3 * done + i)
      BY <1>4, <1>5, <2>1
    <3> QED BY <1>2, <3>1, <3>2
  <2>2. CASE i > Unread
    <3>1. i - Unread \in 1..Len(sock) /\ 3 * done + Unread + (i - Unread) = 3 * done + i
      BY <1>1, <2>2
    <3>2. sock[i - Unread] = Cell(3 * done + Unread + (i - Unread))
      BY <3>1 DEF IInv, Ahead
    <3> QED BY SMTT(60), <1>1, <1>4, <1>5, <2>2, <3>1, <3>2
  <2> QED BY <1>1, <2>1, <2>2
<1>7. s = rest
  BY <1>4, <1>5, <1>6, SeqEqual
<1>8. u \o sock = rest
  BY <1>7 DEF s
<1> QED BY <1>8 DEF u, rest, n, InStep, IInv, Framed, LostLast

\* However the reads cut the stream, each message that is handled is the next
\* that was sent, and the rest is buffered or on its way.
THEOREM StreamInStep == Spec => []InStep
<1>1. Init => IInv
  BY InitIInv
<1>2. IInv /\ [Next]_vars => IInv'
  BY NextIInv
<1>3. IInv => InStep
  BY IInvInStep
<1> QED BY <1>1, <1>2, <1>3, PTL DEF Spec
=============================================================================
