------------------------------- MODULE Yconn -------------------------------
(***************************************************************************)
(* The connections of one process (struct _yconn): how they are opened,    *)
(* accepted, lost, opened again and freed, and the event loops that do it  *)
(* (yconn_serve, yconn_serve_blocking).  A connection is in datablock->conn *)
(* under its socket or in datablock->disconn with a timerfd, and epoll     *)
(* knows it by the one or the other.  A loop takes a batch of events, which *)
(* name connections by their address in memory; yconn_init waits in a loop *)
(* of its own in the midst of such a batch.                                *)
(*                                                                         *)
(* The connections that the application opens (majors) name their addresses *)
(* as well.  File addresses are us://, Tcp ones tcp://, the others uss://.  *)
(***************************************************************************)
EXTENDS Integers, Sequences, SequencesExt, FiniteSets

CONSTANTS
    Conn,       \* connections; the memory of a freed one is used again
    Major,      \* those opened by ydb_connect, the others are accepted
    Publisher,  \* majors with the flag pub
    Unsubscriber,      \* majors with the flag u
    Sync,       \* majors with the flag s
    File,       \* majors at an address us://
    Tcp,        \* majors at an address tcp://
    Refused,    \* majors at an address tcp:// for which there is no socket
    Fd,         \* file descriptors the process may have
    Periodic,   \* datablock->timeout > 0
    MaxDepth,   \* bound: loops within loops, beyond which a wait ends at once
    MaxBatch,   \* bound: events of a batch
    None,       \* no connection
    Gone        \* a connection that has been freed

ASSUME ConnAssumption == Major \subseteq Conn /\ IsFiniteSet(Major)
                         /\ None \notin Conn /\ Gone \notin Conn
ASSUME RoleAssumption == Publisher \subseteq Major /\ Unsubscriber \subseteq Major
                         /\ Sync \subseteq Major /\ File \subseteq Major
                         /\ Tcp \subseteq Major \ File /\ Refused \subseteq Tcp
ASSUME FdAssumption == Fd \subseteq Nat \ {0}
ASSUME LoopAssumption == Periodic \in BOOLEAN /\ MaxDepth \in Nat /\ MaxBatch \in Nat

VARIABLES
    db,       \* the connections and datablock->conn, ->disconn, ->synccount, epoll;
              \* the descriptors the kernel holds open, and those a refused try lost
    frames,   \* what runs, the innermost first: event loops with the rest of their
              \* events, and the calls that open or close connections
    up,       \* addresses at which another process listens
    pending,  \* servers with a connection to accept
    file      \* socket files

vars == <<db, frames, up, pending, file>>
outside == <<up, pending, file>>

Open == {"server", "client", "accepted"}
Loops == {"serve", "wait"}

Init ==
    /\ db = [status |-> [c \in Conn |-> "free"],
             fd |-> [c \in Conn |-> 0],
             timerfd |-> [c \in Conn |-> 0],
             address |-> [c \in Conn |-> None],
             conn |-> [f \in Fd |-> None],
             epoll |-> [f \in Fd |-> None],
             disconn |-> {},
             armed |-> {},
             synccount |-> 0,
             open |-> {},
             lost |-> {}]
    /\ frames = <<>>
    /\ up = {} /\ pending = {} /\ file = {}
----------------------------------------------------------------------------
\* Descriptors are given out from the lowest.
Unused(d) == Fd \ d.open
Lowest(d) == {f \in Unused(d) : \A g \in Unused(d) : f <= g}

\* yconn_detach_from_conn.
DetachUncounted(d, c) ==                      \* faulty: synccount stays
    IF d.fd[c] = 0 THEN d
    ELSE [d EXCEPT !.conn[d.fd[c]] = None, !.epoll[d.fd[c]] = None]
DetachConn(d, c) ==
    IF d.fd[c] = 0 THEN d
    ELSE [d EXCEPT !.conn[d.fd[c]] = None,
                   !.epoll[d.fd[c]] = None,
                   !.synccount = IF c \in Sync THEN @ - 1 ELSE @]

\* yconn_attach_to_conn.
AttachConn(d, c) ==
    [d EXCEPT !.conn[d.fd[c]] = c,
              !.epoll[d.fd[c]] = c,
              !.synccount = IF c \in Sync THEN @ + 1 ELSE @]

\* yconn_detach_from_disconn.
DetachDisconn(d, c) ==
    IF d.timerfd[c] = 0 THEN [d EXCEPT !.disconn = @ \ {c}]
    ELSE [d EXCEPT !.disconn = @ \ {c},
                   !.epoll[d.timerfd[c]] = None,
                   !.armed = @ \ {c},
                   !.open = @ \ {d.timerfd[c]},
                   !.timerfd[c] = 0]

\* yconn_attach_to_disconn with timerfd t: the timer of a major expires again and
\* again, that of the others at once.
AttachDisconnMajor(d, c, t) ==                \* faulty: only majors get a timer
    [d EXCEPT !.disconn = @ \cup {c}, !.epoll[t] = c, !.timerfd[c] = t, !.open = @ \cup {t},
              !.armed = IF c \in Major THEN @ \cup {c} ELSE @]
AttachDisconn(d, c, t) ==
    [d EXCEPT !.disconn = @ \cup {c},
              !.epoll[t] = c,
              !.armed = @ \cup {c},
              !.open = @ \cup {t},
              !.timerfd[c] = t]

\* yconn_socket_deinit; epoll forgets what is closed.
Deinit(d, c) ==
    IF d.fd[c] = 0 THEN [d EXCEPT !.status[c] = "disconnected"]
    ELSE [d EXCEPT !.status[c] = "disconnected",
                   !.epoll[d.fd[c]] = None,
                   !.open = @ \ {d.fd[c]},
                   !.fd[c] = 0]

\* yconn_close and _yconn_free.
Free(d, c) == [d EXCEPT !.status[c] = "free", !.address[c] = None]
Close(d, c) ==
    Free(Deinit(DetachConn(DetachDisconn(d, c), c), c), c)

\* yconn_deferred_close: its outcomes, which is one.
DeferredCloseNow(d, c) ==                     \* faulty: accepted ones are freed
    IF c \in Major
    THEN LET e == Deinit(DetachConn(d, c), c)
         IN {AttachDisconn(e, c, t) : t \in Lowest(e)}
    ELSE {Close(d, c)}
DeferredClose(d, c) ==
    LET e == Deinit(DetachConn(d, c), c)
    IN {AttachDisconn(e, c, t) : t \in Lowest(e)}

\* Sending to one fails, or to none.
Failing(d) ==
    {d} \cup UNION {DeferredClose(d, c) : c \in {x \in Conn : d.status[x] \in {"client", "accepted"}}}

\* What a call that sends leaves (yconn_publish, yconn_request, yconn_response).
\* Bound: to two at most it fails.
AfterSending(d) == UNION {Failing(e) : e \in Failing(d)}

\* yconn_socket_init: what c becomes.  A tcp address that inet_pton does not take, or
\* whose socket has no SO_REUSEADDR, is refused.
Result(c) ==
    IF c \in Refused THEN "refused"
    ELSE IF c \in Publisher /\ c \notin up \cup file THEN "server"
    ELSE IF c \in up THEN "client" ELSE "failed"

\* The socket f of a try that fails is closed, unless the address is refused: then
\* yconn_socket_init returns without it.
TriedOpen(d, c, f) ==                         \* faulty: no failure closes the socket
    [d EXCEPT !.open = @ \cup {f}]
Tried(d, c, f) ==
    IF Result(c) = "refused" THEN [d EXCEPT !.open = @ \cup {f}, !.lost = @ \cup {f}] ELSE d

\* c has the socket f.
WithSocket(d, c, f, st) == [d EXCEPT !.fd[c] = f, !.status[c] = st, !.open = @ \cup {f}]

\* func_init, with socket f, and yconn_attach_to_conn.
Attached(d, c, f) == AttachConn(WithSocket(d, c, f, Result(c)), c)
----------------------------------------------------------------------------
Top == Head(frames)

\* The loops when the innermost takes its next event.
Advanced == <<[Top EXCEPT !.events = Tail(@)]>> \o Tail(frames)

\* The loops are not told of what is freed: their events name it all the same.
Forgotten(fs, d) ==
    [i \in DOMAIN fs |-> [fs[i] EXCEPT !.events =
        [j \in DOMAIN @ |-> IF @[j] # Gone /\ d.status[@[j]] = "free" THEN Gone ELSE @[j]]]]

\* yconn_serve_blocking begins.
Wait == [kind |-> "wait", events |-> <<>>, nested |-> FALSE]
Awaiting(fs) ==
    IF Len(fs) > MaxDepth THEN fs
    ELSE <<Wait>> \o [i \in DOMAIN fs |-> [fs[i] EXCEPT !.nested = TRUE]]

\* Connection c is attached in d: the rest of yconn_open or yconn_reopen_or_close
\* comes next.
Opened(c, d, fs) ==
    /\ db' = d
    /\ frames' = <<[kind |-> "open", events |-> <<c>>, nested |-> FALSE]>> \o fs

\* What goes with the sockets, and the files that stay.
Settled ==
    /\ pending' = {s \in pending : db'.status[s] = "server"}
    /\ file' = file \cup {m \in File : db'.status[m] = "server"}
    /\ UNCHANGED up

\* ydb_connect: a connection with the address is closed, and opened anew.  Bound: only
\* as long as there are descriptors for its socket and its timer.
Connect(m) ==
    LET d == IF db.status[m] = "free" THEN db ELSE Close(db, m)
        e == [d EXCEPT !.address[m] = m]
    IN
    /\ frames = <<>>
    /\ \E f \in Lowest(e) :
          IF Result(m) \notin Open
          THEN LET g == Deinit(Tried(e, m, f), m)
               IN (\E t \in Lowest(g) : db' = AttachDisconn(g, m, t)) /\ frames' = frames
          ELSE Opened(m, Attached(e, m, f), frames)
    /\ Settled

\* ydb_disconnect: all with the address are closed one after the other, the major
\* first.  An accepted connection over tcp has an address of its own.
Disconnect(m) ==
    /\ frames = <<>> /\ db.address[m] = m
    /\ \E cs \in SetToSeqs({c \in Conn \ {m} : db.address[c] = m}) :
          frames' = <<[kind |-> "close", events |-> <<m>> \o cs, nested |-> FALSE]>>
    /\ UNCHANGED <<db, outside>>

CloseNext(c) ==
    /\ frames # <<>> /\ Top.kind = "close"
    /\ Top.events # <<>> /\ Head(Top.events) = c
    /\ db' = Close(db, c)
    /\ frames' = IF Len(Top.events) = 1 THEN Tail(frames) ELSE Advanced
    /\ Settled

\* ydb_write publishes.
Write ==
    /\ frames = <<>>
    /\ db' \in AfterSending(db)
    /\ UNCHANGED <<frames, outside>>

\* ydb_sync requests, and waits for the answers.
SyncAll ==
    /\ frames = <<>>
    /\ \E c \in Conn : db.status[c] \in {"client", "accepted"}
    /\ db' \in AfterSending(db)
    /\ frames' = <<Wait>>
    /\ UNCHANGED outside
----------------------------------------------------------------------------
Watched(c) == \E f \in Fd : db.epoll[f] = c
Ready(c) ==
    /\ Watched(c)
    /\ db.status[c] = "server" => c \in pending
    /\ db.status[c] = "disconnected" => c \in db.armed

\* epoll_wait of yconn_serve, called by the application, and of
\* yconn_serve_blocking: a batch that begins with c.
Batches(c) ==
    {b \in SeqOf({x \in Conn : Ready(x)}, MaxBatch) : b # <<>> /\ Head(b) = c /\ IsInjective(b)}
Poll(c) ==
    /\ frames # <<>> => Top.events = <<>>
    /\ \E b \in Batches(c) :
          frames' = IF frames = <<>> THEN <<[kind |-> "serve", events |-> b, nested |-> FALSE]>>
                    ELSE <<[Top EXCEPT !.events = b, !.nested = FALSE]>> \o Tail(frames)
    /\ UNCHANGED <<db, outside>>

\* A wait ends with its time, yconn_serve with its batch.
Leave ==
    /\ frames # <<>> /\ Top.events = <<>>
    /\ frames' = Tail(frames)
    /\ UNCHANGED <<db, outside>>

\* The next event is of connection c with the status st.
Event(c, st) ==
    /\ frames # <<>> /\ Top.kind \in Loops /\ Top.events # <<>>
    /\ Head(Top.events) = c /\ db.status[c] = st

\* yconn_reopen_or_close of an accepted connection.
CloseAccepted(c) ==
    /\ c \notin Major /\ Event(c, "disconnected")
    /\ db' = Close(db, c)
    /\ frames' = Forgotten(Advanced, db')
    /\ UNCHANGED outside

\* yconn_reopen_or_close of a major: its timer is read, and it is tried again.
ReadTimerOnce(d, c) == [d EXCEPT !.armed = @ \ {c}]    \* faulty: it expires once
ReadTimer(d, c) == IF Periodic THEN d ELSE [d EXCEPT !.armed = @ \ {c}]
Reopen(c) ==
    /\ c \in Major /\ Event(c, "disconnected")
    /\ \/ /\ Unused(db) = {}
          /\ db' = ReadTimer(db, c) /\ frames' = Advanced
       \/ \E f \in Lowest(db) :
             IF Result(c) \notin Open
             THEN db' = Tried(ReadTimer(db, c), c, f) /\ frames' = Advanced
             ELSE Opened(c, Attached(DetachDisconn(db, c), c, f), Advanced)
    /\ Settled

\* yconn_init, of a client: the request may not be sent; a subscriber waits for the
\* answer.
SendInit(c) ==
    /\ frames # <<>> /\ Top.kind = "open" /\ Head(Top.events) = c
    /\ IF db.status[c] = "client"
       THEN /\ db' \in {db} \cup DeferredClose(db, c)
            /\ frames' = IF c \in Unsubscriber THEN Tail(frames) ELSE Awaiting(Tail(frames))
       ELSE db' = db /\ frames' = Tail(frames)
    /\ UNCHANGED outside

\* _yconn_new: memory for an accepted connection.
Spare == {c \in Conn \ Major : db.status[c] = "free"}

\* yconn_accept of server s: the accepted connection has its address, over tcp that
\* of the peer, which no other connection has.  Without a connection to accept the
\* process blocks.
Accept(s) ==
    /\ Event(s, "server") /\ s \in pending
    /\ \E c \in Spare, f \in Lowest(db) :
          db' = AttachConn([WithSocket(db, c, f, "accepted")
                               EXCEPT !.address[c] = IF s \in Tcp THEN c ELSE s], c)
    /\ pending' = pending \ {s}
    /\ frames' = Advanced
    /\ UNCHANGED <<up, file>>

\* accept fails: the server is closed, and a wait leaves the rest of its events.
AcceptFails(s) ==
    /\ Event(s, "server") /\ s \in pending
    /\ db' \in DeferredClose(db, s)
    /\ frames' = IF Top.kind = "serve" THEN Advanced
                 ELSE <<[Top EXCEPT !.events = <<>>]>> \o Tail(frames)
    /\ Settled

\* yconn_recv: a message, which may be passed on or answered, or the answer a
\* wait is for; or an error or the end of the stream.
Recv(c) ==
    /\ \E st \in {"client", "accepted"} : Event(c, st)
    /\ \/ db' \in AfterSending(db) /\ frames' = Forgotten(Advanced, db')
       \/ db' \in AfterSending(db) /\ Top.kind = "wait" /\ frames' = Forgotten(Tail(frames), db')
       \/ db' \in DeferredClose(db, c) /\ frames' = Forgotten(Advanced, db')
    /\ UNCHANGED outside

Handle(c) ==
    SendInit(c) \/ CloseAccepted(c) \/ Reopen(c) \/ Accept(c) \/ AcceptFails(c) \/ Recv(c)
----------------------------------------------------------------------------
\* Other processes.
PeerUp(m) ==
    /\ m \notin up \cup file \cup Refused /\ db.status[m] # "server"
    /\ up' = up \cup {m}
    /\ file' = file \cup ({m} \cap File)
    /\ UNCHANGED <<db, frames, pending>>

PeerDown(m) ==
    /\ m \in up
    /\ up' = up \ {m}
    /\ UNCHANGED <<db, frames, pending, file>>

\* Bound: no more at a time than Conn has names for.
PeerConnects(m) ==
    /\ db.status[m] = "server" /\ m \notin pending
    /\ Cardinality(pending) < Cardinality(Spare)
    /\ pending' = pending \cup {m}
    /\ UNCHANGED <<db, frames, up, file>>

Next ==
    \/ \E m \in Major : Connect(m) \/ PeerUp(m) \/ PeerDown(m) \/ PeerConnects(m)
    \/ Write \/ SyncAll \/ Leave
    \/ \E c \in Conn : Poll(c) \/ Handle(c) \/ Disconnect(c) \/ CloseNext(c)

Spec == Init /\ [][Next]_vars

\* The application serves its connections again and again, a wait has a timeout,
\* and epoll reports whatever stays ready.
Fairness ==
    /\ WF_vars(\E c \in Conn : Handle(c) \/ CloseNext(c))
    /\ SF_vars(Leave)
    /\ \A c \in Conn : SF_vars(Poll(c))
FairSpec == Spec /\ Fairness
----------------------------------------------------------------------------
(***************************************************************************)
(* Properties.                                                             *)
(***************************************************************************)

Descriptors == Fd \cup {0}
StatusIs(c, set) == db.status[c] \in set

\* Type invariant.
DbType ==
    [status : [Conn -> Open \cup {"free", "disconnected"}],
     fd : [Conn -> Descriptors], timerfd : [Conn -> Descriptors],
     address : [Conn -> Conn \cup {None}],
     conn : [Fd -> Conn \cup {None}], epoll : [Fd -> Conn \cup {None}],
     disconn : SUBSET Conn, armed : SUBSET Conn, synccount : Int,
     open : SUBSET Fd, lost : SUBSET Fd]
TypeOK == db \in DbType

\* Descriptor f is the socket or the timer of a connection.
Held(d, f) == \E c \in Conn : d.fd[c] = f \/ d.timerfd[c] = f

\* A connection that exists is in exactly one of datablock->conn, under its socket,
\* and datablock->disconn, with a timer, and epoll reports it by just that
\* descriptor (yconn_attach_*, yconn_detach_*, func_init, func_deinit): none is used
\* by two, no entry outlives its connection, and a descriptor is open as long as a
\* connection has it and no longer, but for those that a refused try has lost.
ConsistentIn(d) ==
    /\ \A c \in Conn :
          /\ d.fd[c] # 0 <=> d.status[c] \in Open
          /\ d.timerfd[c] # 0 <=> d.status[c] = "disconnected"
          /\ c \in d.disconn <=> d.status[c] = "disconnected"
          /\ d.fd[c] # 0 => d.conn[d.fd[c]] = c /\ d.epoll[d.fd[c]] = c
          /\ d.timerfd[c] # 0 => d.epoll[d.timerfd[c]] = c
    /\ \A f \in Fd :
          /\ d.conn[f] # None => d.fd[d.conn[f]] = f
          /\ d.epoll[f] # None => f \in {d.fd[d.epoll[f]], d.timerfd[d.epoll[f]]}
          /\ f \in d.open <=> f \in d.lost \/ Held(d, f)
          /\ f \in d.lost => ~Held(d, f)
Consistent == ConsistentIn(db)

\* synccount is the number of open connections with the flag s, so that ydb_read
\* asks for fresh data as long as there is one and no longer.
CountsSyncs == db.synccount = Cardinality({c \in Sync : StatusIs(c, Open)})

\* An event that no longer says what it said: its connection is freed, or it is of
\* a server without a connection to accept.
Stale(e) == e = Gone \/ (db.status[e] = "server" /\ e \notin pending)

\* The loop goes by a stale event: it reads freed memory, or blocks in accept.
Harmed ==
    frames # <<>> /\ Top.kind \in Loops /\ Top.events # <<>> /\ Stale(Head(Top.events))

\* An event still holds when its turn comes (yconn_serve, yconn_serve_blocking).
EventsHold == ~Harmed

\* Handling an event makes none behind it stale (this is what yconn_deferred_close
\* is for), unless another loop has run in the midst of the batch.
StaleOnlyIfNested ==
    \A i \in DOMAIN frames : \A j \in DOMAIN frames[i].events :
        frames[i].kind \in Loops /\ Stale(frames[i].events[j]) => frames[i].nested

\* An accepted connection that is lost is freed (yconn_reopen_or_close).
AcceptedAreFreed ==
    \A c \in Conn \ Major :
        StatusIs(c, {"disconnected"}) ~> (StatusIs(c, {"free"}) \/ Harmed)

\* Refused tries have left no descriptor for another connection.
Exhausted == db.lost # {} /\ Unused(db) = {}

\* A publisher that is lost comes back, as the server or as a client of the one
\* there is; a subscriber, when there is one for good (yconn_reopen_or_close).
MajorsReturn ==
    \A m \in Major \ Refused :
        (m \in Publisher \/ <>[](m \in up)) =>
            (StatusIs(m, {"disconnected"}) ~>
                (~StatusIs(m, {"disconnected"}) \/ Harmed \/ Exhausted))
============================================================================
