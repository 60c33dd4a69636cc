----------------------------- MODULE YconnRecv -----------------------------
(***************************************************************************)
(* How one end of a connection turns the byte stream back into messages      *)
(* (yconn_default_recv) and how the event loops of yconn_serve and           *)
(* yconn_serve_blocking call it: once per event, and again as long as it     *)
(* says that the buffer holds more (recv_again).  yconn_recv acts on what    *)
(* the head of the message left in *op and *type.                            *)
(*                                                                          *)
(* A message is a sequence of cells: a body and the two halves of the end    *)
(* delimiter, so that one read may end within the delimiter.  A read takes   *)
(* any number of cells up to RecvSize: what has arrived by then.  The peer   *)
(* may close its end, after which a read that finds nothing returns 0.       *)
(***************************************************************************)
EXTENDS Naturals, Sequences

CONSTANTS
  Kind,       \* kinds of messages: "init" (with flag u), "answer", "other"
  RecvSize,   \* RECV_BUF_SIZE, in cells
  Blocking,   \* TRUE: the application also calls ydb_sync
  MaxMsg      \* bound: messages sent

VARIABLES
  sent,      \* the kinds of the messages the peer has sent
  sock,      \* cells on their way or in the socket
  buf,       \* head->recv.buf
  bufused,   \* head->recv.bufused: cells of it already handed out
  next,      \* head->recv.next: there may be another message in it
  last,      \* message whose *op and *type yconn_recv holds, 0 for YOP_NONE
  done,      \* messages handled
  frame,     \* the cells handled as the last of them
  unsubscribed, \* YCONN_UNSUBSCRIBE is set in conn->flags
  waiting,   \* yconn_serve_blocking waits for an answer
  closed,    \* the peer has closed the connection
  eagain,     \* errno is EAGAIN
  lost       \* the connection has STATUS_DISCONNECT: yconn_deferred_close

vars == <<sent, sock, buf, bufused, next, last, done, frame, unsubscribed, waiting,
          closed, eagain, lost>>

DelimiterLen == 2

\* The k-th cell of the stream, and those of message m.
Cell(k) == <<((k - 1) \div 3) + 1, <<"body", "end1", "end2">>[((k - 1) % 3) + 1]>>
Cells(m) == <<Cell(3 * m - 2), Cell(3 * m - 1), Cell(3 * m)>>

-----------------------------------------------------------------------------
Init ==
  /\ sent = <<>> /\ sock = <<>>
  /\ buf = <<>> /\ bufused = 0 /\ next = FALSE
  /\ last = 0 /\ done = 0 /\ frame = <<>>
  /\ unsubscribed = TRUE /\ waiting = FALSE
  /\ closed = FALSE /\ eagain = FALSE /\ lost = FALSE

\* yconn_default_send of the peer.
Send(k) ==
  /\ Len(sent) < MaxMsg /\ ~closed
  /\ sent' = Append(sent, k)
  /\ sock' = sock \o Cells(Len(sent) + 1)
  /\ UNCHANGED <<buf, bufused, next, last, done, frame, unsubscribed, waiting, closed, eagain, lost>>

\* The peer closes its end.
Close ==
  /\ ~closed
  /\ closed' = TRUE
  /\ UNCHANGED <<sent, sock, buf, bufused, next, last, done, frame, unsubscribed, waiting, eagain, lost>>

\* Another system call of the process fails in another way.
OtherError ==
  /\ eagain
  /\ eagain' = FALSE
  /\ UNCHANGED <<sent, sock, buf, bufused, next, last, done, frame, unsubscribed, waiting, closed, lost>>

\* ydb_sync: from now on yconn_serve_blocking runs the loop.
Block ==
  /\ Blocking /\ ~waiting /\ ~lost /\ last = 0
  /\ waiting' = TRUE
  /\ UNCHANGED <<sent, sock, buf, bufused, next, last, done, frame, unsubscribed, closed, eagain, lost>>

\* strstr(b + from, YMSG_END_DELIMITER): where the first delimiter after the
\* first `from` cells of b ends, 0 without one.
EndOf(b, from) ==
  LET ends == {i \in from + 2..Len(b) : b[i][2] = "end2" /\ b[i - 1][2] = "end1"}
  IN IF ends = {} THEN 0 ELSE CHOOSE i \in ends : \A j \in ends : i <= j

\* Where the search for it starts when len cells were added to b: a delimiter
\* may have begun in what was there before.
SearchFromNew(b, used, len) ==                     \* faulty: only the new cells
  IF Len(b) - used >= len THEN Len(b) - len ELSE used
SearchFrom(b, used, len) ==
  IF Len(b) - used >= len + DelimiterLen THEN Len(b) - (len + DelimiterLen) ELSE used

\* yconn_recv acts on message m: on the one just cut (fresh) or, when there was
\* none to cut, on the *op and *type still held of the one before, with no data
\* and no flags.  The loop then goes round again or ends the event.
Handle(m, fresh, again) ==
  /\ last' = IF again THEN m ELSE 0
  /\ done' = IF fresh THEN done + 1 ELSE done
  /\ unsubscribed' = IF m # 0 /\ sent[m] = "init" THEN fresh ELSE unsubscribed
  /\ waiting' = (waiting /\ ~(fresh /\ sent[m] = "answer"))

\* A message that ends at `used` is cut from b.  The loop goes round again if
\* there is more, unless yconn_serve_blocking has its answer.
Cut(b, from, used) ==
  LET m    == b[used][1]
      more == used < Len(b)
  IN
  /\ frame' = SubSeq(b, from + 1, used)
  /\ next' = more
  /\ buf' = IF more THEN b ELSE <<>>
  /\ bufused' = IF more THEN used ELSE 0
  /\ Handle(m, TRUE, more /\ ~(waiting /\ sent[m] = "answer"))

\* wait_next_recv: no message yet.
NoMessage(b, from) ==
  /\ buf' = b /\ bufused' = from /\ next' = FALSE
  /\ UNCHANGED frame
  /\ Handle(last, FALSE, FALSE)

\* conn_closed, and yconn_deferred_close in yconn_recv.
Lose ==
  /\ lost' = TRUE
  /\ buf' = <<>> /\ bufused' = 0 /\ next' = FALSE
  /\ last' = 0
  /\ UNCHANGED <<frame, done, unsubscribed, waiting>>

\* An event of the socket, or the loop going round again.
InEvent == last # 0
Called == ~lost /\ (InEvent \/ sock # <<>> \/ closed)

\* yconn_recv finds another message in the buffer.
RecvBuffered ==
  /\ Called /\ next /\ EndOf(buf, bufused) # 0
  /\ Cut(buf, bufused, EndOf(buf, bufused))
  /\ UNCHANGED <<sent, sock, closed, eagain, lost>>

\* Otherwise it reads the socket; what was left over moves to the front first.
Rest == IF next THEN SubSeq(buf, bufused + 1, Len(buf)) ELSE buf
From == IF next THEN 0 ELSE bufused
Reads == Called /\ (next => EndOf(buf, bufused) = 0)

\* It gets len cells.
RecvSocket(len) ==
  LET b    == Rest \o SubSeq(sock, 1, len)
      used == EndOf(b, SearchFrom(b, From, len))
  IN
  /\ Reads
  /\ sock' = SubSeq(sock, len + 1, Len(sock))
  /\ IF used = 0 THEN NoMessage(b, From) ELSE Cut(b, From, used)
  /\ UNCHANGED <<sent, closed, eagain, lost>>

\* In a loop that goes round again there may be nothing to read: EAGAIN.
RecvNothing ==
  /\ Reads /\ InEvent
  /\ eagain' = TRUE
  /\ NoMessage(Rest, From)
  /\ UNCHANGED <<sent, sock, closed, lost>>

\* recv returns 0 and leaves errno, which is looked at all the same.
RecvEndIgnored ==                  \* faulty: nothing read is nothing there
  /\ Reads /\ closed /\ sock = <<>>
  /\ NoMessage(Rest, From)
  /\ UNCHANGED <<sent, sock, closed, eagain, lost>>
RecvEnd ==
  /\ Reads /\ closed /\ sock = <<>>
  /\ IF eagain THEN NoMessage(Rest, From) /\ UNCHANGED lost ELSE Lose
  /\ UNCHANGED <<sent, sock, closed, eagain>>

Recv ==
  \/ RecvBuffered
  \/ \E len \in 1..RecvSize : len <= Len(sock) /\ RecvSocket(len)
  \/ RecvNothing
  \/ RecvEnd

Next ==
  \/ \E k \in Kind : Send(k)
  \/ Close \/ OtherError
  \/ Block
  \/ Recv

Spec == Init /\ [][Next]_vars

\* The socket is level-triggered, and the application keeps serving it.
Fairness == WF_vars(Recv)
FairSpec == Spec /\ Fairness

-----------------------------------------------------------------------------
(***************************************************************************)
(* Properties.                                                              *)
(***************************************************************************)

\* What is handled as a message is exactly the next message that was sent, and
\* what is buffered and on its way is exactly the rest: however the reads cut the
\* stream, nothing is lost, doubled, joined or split (yconn_default_recv).  The
\* connection is not given up before all has been handled.
InStep ==
  /\ done > 0 => frame = Cells(done)
  /\ SubSeq(buf, bufused + 1, Len(buf)) \o sock
       = [i \in 1..3 * (Len(sent) - done) |-> Cell(3 * done + i)]
  /\ lost => done = Len(sent)

\* Everything that is sent is handled as long as the application serves its
\* connections (ydb_serve, yconn_serve_blocking), except for what
\* yconn_serve_blocking has left in the buffer when its wait ended: that stays
\* until the peer sends again, or closes.
HandledUnlessLeft ==
  \A m \in 1..MaxMsg : Len(sent) >= m ~> done >= m \/ next

\* That the peer has closed the connection is noticed, whatever was left in the
\* buffer, unless errno is EAGAIN from an earlier call (yconn_default_recv).
CloseNoticed == closed ~> lost \/ eagain

\* It is noticed in any case: every end of a stream ends the connection.
NoticesClose == closed ~> lost

\* A client that connected with the flag u stays unsubscribed: yconn_recv takes
\* the flags of a connection only from the INIT that carries them.
StaysUnsubscribed == unsubscribed

=============================================================================
