--------------------------- MODULE MCConnections ---------------------------
(***************************************************************************)
(* A bench for what the event loops of one process do: each behaviour      *)
(* drives the life of its connections (Yconn), at addresses uss:// or at   *)
(* tcp:// ones of which some are refused, the messages of one of them      *)
(* (YconnRecv), or the wait events with descriptors that are used again at *)
(* once (WaitEvent).                                                       *)
(***************************************************************************)
EXTENDS Yconn

CONSTANTS TcpMajor, RefusedMajor, Kind, RecvSize, MaxMsg, EventFd, MaxSeq, MaxRoot

VARIABLES
    bench,
    sent, sock, buf, bufused, next, last, done, frame, unsubscribed, waiting,
    closed, eagain, lost,
    event, waiteventseq, open, sendseq, recvseq, dangling, unanswered

recvVars == <<sent, sock, buf, bufused, next, last, done, frame, unsubscribed, waiting,
              closed, eagain, lost>>
eventVars == <<event, waiteventseq, open, sendseq, recvseq, dangling, unanswered>>

N == INSTANCE Yconn WITH Tcp <- TcpMajor, Refused <- RefusedMajor, MaxBatch <- 1
R == INSTANCE YconnRecv WITH Blocking <- TRUE
W == INSTANCE WaitEvent WITH Fd <- EventFd, AllowStale <- TRUE

BenchInit ==
    /\ bench \in {"conn", "tcp", "recv", "events"}
    /\ Init /\ R!Init /\ W!Init

BenchNext ==
    \/ bench = "conn" /\ Next /\ UNCHANGED <<bench, recvVars, eventVars>>
    \/ bench = "tcp" /\ N!Next /\ UNCHANGED <<bench, recvVars, eventVars>>
    \/ bench = "recv" /\ R!Next /\ UNCHANGED <<bench, vars, eventVars>>
    \/ bench = "events" /\ W!Next /\ UNCHANGED <<bench, vars, recvVars>>

Serving ==
    IF bench = "tcp" THEN \E c \in Conn : N!Handle(c) \/ N!CloseNext(c)
    ELSE \E c \in Conn : Handle(c) \/ CloseNext(c)

\* The fairness of each (Yconn!Fairness for both of its benches); that of the others
\* asks nothing of their initial states.
BenchSpec ==
    /\ BenchInit /\ [][BenchNext]_<<bench, vars, recvVars, eventVars>>
    /\ WF_vars(Serving) /\ SF_vars(Leave) /\ \A c \in Conn : SF_vars(Poll(c))
    /\ R!Fairness /\ W!Fairness
----------------------------------------------------------------------------
\* Messages are cut exactly out of the stream (yconn_default_recv).
InStep == R!InStep

\* Messages are handled unless left in a buffer (yconn_serve_blocking).
HandledUnlessLeft == R!HandledUnlessLeft

\* A closed connection is noticed (yconn_default_recv).
CloseNoticed == R!CloseNoticed

\* A wait ends with its last answer (yconn_recv, RESPONSE).
WaitEndsWithLastAnswer == W!EndsWithLastAnswer

\* Every wait ends (waitevent_expire).
EveryWaitEnds == W!EveryWaitEnds
============================================================================
