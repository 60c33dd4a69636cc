---------------------------- MODULE YconnProofs ----------------------------
(***************************************************************************)
(* The connections of a process stay consistent, for any number of         *)
(* connections, descriptors and event loops within each other: each is in  *)
(* datablock->conn or in datablock->disconn, epoll knows it by the one     *)
(* descriptor it has, no other descriptor is open but those that refused   *)
(* tries have lost, and synccount counts the open ones with the flag s.    *)
(*                                                                         *)
(* The argument: every way from one status to another goes through a state *)
(* in which the connection is loose, that is, in neither container and     *)
(* without a descriptor, while all the others are consistent.              *)
(***************************************************************************)
EXTENDS Yconn, FiniteSetTheorems, SequenceTheorems, TLAPS

\* The open connections with the flag s, and their number.
OpenSyncs(d) == {x \in Sync : d.status[x] \in Open}
Counted(d) == d.synccount = Cardinality(OpenSyncs(d))

Sound(d) == d \in DbType /\ ConsistentIn(d) /\ Counted(d)

IInv == Sound(db)

\* Connection x is where its status says.
Placed(d, x) ==
    /\ d.fd[x] # 0 <=> d.status[x] \in Open
    /\ d.timerfd[x] # 0 <=> d.status[x] = "disconnected"
    /\ x \in d.disconn <=> d.status[x] = "disconnected"
    /\ d.fd[x] # 0 => d.conn[d.fd[x]] = x /\ d.epoll[d.fd[x]] = x
    /\ d.timerfd[x] # 0 => d.epoll[d.timerfd[x]] = x

\* The entries of descriptor f are of a connection that has it.
Backed(d, f) ==
    /\ d.conn[f] # None => d.fd[d.conn[f]] = f
    /\ d.epoll[f] # None => f \in {d.fd[d.epoll[f]], d.timerfd[d.epoll[f]]}

\* Descriptor f is open as long as a connection has it, or it has been lost.
Tight(d, f) ==
    /\ f \in d.open <=> f \in d.lost \/ Held(d, f)
    /\ f \in d.lost => ~Held(d, f)

\* Connection c has no descriptor and is in no container, and it is not counted.
Loose(d, c) ==
    /\ d \in DbType /\ Counted(d) /\ d.status[c] \notin Open
    /\ d.fd[c] = 0 /\ d.timerfd[c] = 0 /\ c \notin d.disconn
    /\ \A x \in Conn \ {c} : Placed(d, x)
    /\ \A f \in Fd : Backed(d, f) /\ Tight(d, f)

-----------------------------------------------------------------------------
LEMMA Parts ==
    ASSUME NEW d
    PROVE  ConsistentIn(d) <=> /\ \A x \in Conn : Placed(d, x)
                               /\ \A f \in Fd : Backed(d, f) /\ Tight(d, f)
BY DEF ConsistentIn, Placed, Backed, Tight

LEMMA FiniteSyncs == \A d : IsFiniteSet(OpenSyncs(d))
<1> TAKE d
<1>1. OpenSyncs(d) \subseteq Major
  BY RoleAssumption DEF OpenSyncs
<1> QED BY <1>1, ConnAssumption, FS_Subset

\* synccount does not change if no open connection comes or goes.
LEMMA SameCount ==
    ASSUME NEW d, NEW e, Counted(d), e.synccount = d.synccount, OpenSyncs(e) = OpenSyncs(d)
    PROVE  Counted(e)
BY DEF Counted

\* Descriptors that are not in use.
LEMMA UnusedFd ==
    ASSUME NEW d, NEW f \in Unused(d), \A g \in Fd : Tight(d, g)
    PROVE  /\ f \in Fd /\ f # 0 /\ f \notin d.open /\ f \notin d.lost /\ ~Held(d, f)
           /\ \A x \in Conn : d.fd[x] # f /\ d.timerfd[x] # f
BY FdAssumption DEF Unused, Tight, Held

-----------------------------------------------------------------------------
(***************************************************************************)
(* What the operations on a connection change.                             *)
(***************************************************************************)

\* yconn_detach_from_disconn.
LEMMA DetachDisconnFields ==
    ASSUME NEW d \in DbType, NEW c \in Conn, NEW t \in Fd, t # 0, d.timerfd[c] = t
    PROVE  /\ DetachDisconn(d, c) \in DbType
           /\ DetachDisconn(d, c).status = d.status /\ DetachDisconn(d, c).fd = d.fd /\ DetachDisconn(d, c).conn = d.conn
           /\ DetachDisconn(d, c).disconn = d.disconn \ {c}
           /\ DetachDisconn(d, c).epoll = [d.epoll EXCEPT ![t] = None]
           /\ DetachDisconn(d, c).timerfd = [d.timerfd EXCEPT ![c] = 0]
           /\ DetachDisconn(d, c).synccount = d.synccount
           /\ DetachDisconn(d, c).open = d.open \ {t} /\ DetachDisconn(d, c).lost = d.lost
<1>1. DetachDisconn(d, c) \in DbType
  BY ZenonT(60) DEF DbType, Descriptors, DetachDisconn
<1>2. DetachDisconn(d, c).status = d.status /\ DetachDisconn(d, c).fd = d.fd /\ DetachDisconn(d, c).conn = d.conn
  BY DEF DbType, DetachDisconn
<1>3. DetachDisconn(d, c).disconn = d.disconn \ {c}
  BY DEF DbType, DetachDisconn
<1>4. DetachDisconn(d, c).epoll = [d.epoll EXCEPT ![t] = None]
  BY DEF DbType, DetachDisconn
<1>5. DetachDisconn(d, c).timerfd = [d.timerfd EXCEPT ![c] = 0]
  BY DEF DbType, DetachDisconn
<1>6. DetachDisconn(d, c).synccount = d.synccount
  BY DEF DbType, DetachDisconn
<1>7. DetachDisconn(d, c).open = d.open \ {t} /\ DetachDisconn(d, c).lost = d.lost
  BY DEF DbType, DetachDisconn
<1> QED BY <1>1, <1>2, <1>3, <1>4, <1>5, <1>6, <1>7

\* yconn_detach_from_conn.
LEMMA DetachConnFields ==
    ASSUME NEW d \in DbType, NEW c \in Conn, NEW g \in Fd, g # 0, d.fd[c] = g
    PROVE  /\ DetachConn(d, c) \in DbType
           /\ DetachConn(d, c).status = d.status /\ DetachConn(d, c).fd = d.fd /\ DetachConn(d, c).timerfd = d.timerfd
           /\ DetachConn(d, c).disconn = d.disconn
           /\ DetachConn(d, c).conn = [d.conn EXCEPT ![g] = None]
           /\ DetachConn(d, c).epoll = [d.epoll EXCEPT ![g] = None]
           /\ DetachConn(d, c).synccount = IF c \in Sync THEN d.synccount - 1 ELSE d.synccount
           /\ DetachConn(d, c).open = d.open /\ DetachConn(d, c).lost = d.lost
<1>1. DetachConn(d, c) \in DbType
  <2>1. ASSUME NEW k \in Int
        PROVE  [d EXCEPT !.conn[g] = None, !.epoll[g] = None, !.synccount = k] \in DbType
    BY DEF DbType, Descriptors
  <2>2. d.synccount - 1 \in Int /\ d.synccount \in Int
    BY DEF DbType
  <2>3. CASE c \in Sync
    <3>1. DetachConn(d, c) = [d EXCEPT !.conn[g] = None, !.epoll[g] = None, !.synccount = d.synccount - 1]
      BY <2>3 DEF DetachConn, DbType
    <3> QED BY <3>1, <2>1, <2>2
  <2>4. CASE c \notin Sync
    <3>1. DetachConn(d, c) = [d EXCEPT !.conn[g] = None, !.epoll[g] = None, !.synccount = d.synccount]
      BY <2>4 DEF DetachConn, DbType
    <3> QED BY <3>1, <2>1, <2>2
  <2> QED BY <2>3, <2>4
<1>2. DetachConn(d, c).status = d.status /\ DetachConn(d, c).fd = d.fd /\ DetachConn(d, c).timerfd = d.timerfd
  BY DEF DbType, DetachConn
<1>3. /\ DetachConn(d, c).disconn = d.disconn
      /\ DetachConn(d, c).open = d.open /\ DetachConn(d, c).lost = d.lost
  BY DEF DbType, DetachConn
<1>4. DetachConn(d, c).conn = [d.conn EXCEPT ![g] = None]
  BY DEF DbType, DetachConn
<1>5. DetachConn(d, c).epoll = [d.epoll EXCEPT ![g] = None]
  BY DEF DbType, DetachConn
<1>6. DetachConn(d, c).synccount = IF c \in Sync THEN d.synccount - 1 ELSE d.synccount
  <2>1. CASE c \in Sync
    BY <2>1 DEF DbType, DetachConn
  <2>2. CASE c \notin Sync
    BY <2>2 DEF DbType, DetachConn
  <2> QED BY <2>1, <2>2
<1> QED BY <1>1, <1>2, <1>3, <1>4, <1>5, <1>6

\* yconn_socket_deinit.
LEMMA DeinitFields ==
    ASSUME NEW d \in DbType, NEW c \in Conn, NEW g \in Fd, g # 0, d.fd[c] = g
    PROVE  /\ Deinit(d, c) \in DbType
           /\ Deinit(d, c).status = [d.status EXCEPT ![c] = "disconnected"]
           /\ Deinit(d, c).fd = [d.fd EXCEPT ![c] = 0]
           /\ Deinit(d, c).timerfd = d.timerfd /\ Deinit(d, c).disconn = d.disconn /\ Deinit(d, c).conn = d.conn
           /\ Deinit(d, c).epoll = [d.epoll EXCEPT ![g] = None]
           /\ Deinit(d, c).synccount = d.synccount
           /\ Deinit(d, c).open = d.open \ {g} /\ Deinit(d, c).lost = d.lost
<1>1. Deinit(d, c) \in DbType
  BY DEF DbType, Descriptors, Deinit
<1>2. Deinit(d, c).status = [d.status EXCEPT ![c] = "disconnected"]
  BY DEF DbType, Deinit
<1>3. Deinit(d, c).fd = [d.fd EXCEPT ![c] = 0]
  BY DEF DbType, Deinit
<1>4. Deinit(d, c).timerfd = d.timerfd /\ Deinit(d, c).disconn = d.disconn /\ Deinit(d, c).conn = d.conn
  BY DEF DbType, Deinit
<1>5. Deinit(d, c).epoll = [d.epoll EXCEPT ![g] = None]
  BY DEF DbType, Deinit
<1>6. Deinit(d, c).synccount = d.synccount
  BY DEF DbType, Deinit
<1>7. Deinit(d, c).open = d.open \ {g} /\ Deinit(d, c).lost = d.lost
  BY DEF DbType, Deinit
<1> QED BY <1>1, <1>2, <1>3, <1>4, <1>5, <1>6, <1>7

\* yconn_attach_to_disconn.
LEMMA AttachDisconnFields ==
    ASSUME NEW d \in DbType, NEW c \in Conn, NEW t \in Fd
    PROVE  /\ AttachDisconn(d, c, t) \in DbType
           /\ AttachDisconn(d, c, t).status = d.status /\ AttachDisconn(d, c, t).fd = d.fd /\ AttachDisconn(d, c, t).conn = d.conn
           /\ AttachDisconn(d, c, t).disconn = d.disconn \cup {c}
           /\ AttachDisconn(d, c, t).epoll = [d.epoll EXCEPT ![t] = c]
           /\ AttachDisconn(d, c, t).timerfd = [d.timerfd EXCEPT ![c] = t]
           /\ AttachDisconn(d, c, t).synccount = d.synccount
           /\ AttachDisconn(d, c, t).open = d.open \cup {t} /\ AttachDisconn(d, c, t).lost = d.lost
<1>1. AttachDisconn(d, c, t) \in DbType
  BY ZenonT(60) DEF DbType, Descriptors, AttachDisconn
<1>2. AttachDisconn(d, c, t).status = d.status /\ AttachDisconn(d, c, t).fd = d.fd /\ AttachDisconn(d, c, t).conn = d.conn
  BY DEF DbType, AttachDisconn
<1>3. AttachDisconn(d, c, t).disconn = d.disconn \cup {c}
  BY DEF DbType, AttachDisconn
<1>4. AttachDisconn(d, c, t).epoll = [d.epoll EXCEPT ![t] = c]
  BY DEF DbType, AttachDisconn
<1>5. AttachDisconn(d, c, t).timerfd = [d.timerfd EXCEPT ![c] = t]
  BY DEF DbType, AttachDisconn
<1>6. AttachDisconn(d, c, t).synccount = d.synccount
  BY DEF DbType, AttachDisconn
<1>7. AttachDisconn(d, c, t).open = d.open \cup {t} /\ AttachDisconn(d, c, t).lost = d.lost
  BY DEF DbType, AttachDisconn
<1> QED BY <1>1, <1>2, <1>3, <1>4, <1>5, <1>6, <1>7

\* yconn_attach_to_conn.
LEMMA AttachConnFields ==
    ASSUME NEW d \in DbType, NEW c \in Conn, NEW f \in Fd, d.fd[c] = f
    PROVE  /\ AttachConn(d, c) \in DbType
           /\ AttachConn(d, c).status = d.status /\ AttachConn(d, c).fd = d.fd /\ AttachConn(d, c).timerfd = d.timerfd
           /\ AttachConn(d, c).disconn = d.disconn
           /\ AttachConn(d, c).conn = [d.conn EXCEPT ![f] = c]
           /\ AttachConn(d, c).epoll = [d.epoll EXCEPT ![f] = c]
           /\ AttachConn(d, c).synccount = IF c \in Sync THEN d.synccount + 1 ELSE d.synccount
           /\ AttachConn(d, c).open = d.open /\ AttachConn(d, c).lost = d.lost
<1>1. AttachConn(d, c) \in DbType
  <2>1. ASSUME NEW k \in Int
        PROVE  [d EXCEPT !.conn[f] = c, !.epoll[f] = c, !.synccount = k] \in DbType
    BY DEF DbType, Descriptors
  <2>2. d.synccount + 1 \in Int /\ d.synccount \in Int
    BY DEF DbType
  <2>3. CASE c \in Sync
    <3>1. AttachConn(d, c) = [d EXCEPT !.conn[f] = c, !.epoll[f] = c, !.synccount = d.synccount + 1]
      BY <2>3 DEF AttachConn, DbType
    <3> QED BY <3>1, <2>1, <2>2
  <2>4. CASE c \notin Sync
    <3>1. AttachConn(d, c) = [d EXCEPT !.conn[f] = c, !.epoll[f] = c, !.synccount = d.synccount]
      BY <2>4 DEF AttachConn, DbType
    <3> QED BY <3>1, <2>1, <2>2
  <2> QED BY <2>3, <2>4
<1>2. AttachConn(d, c).status = d.status /\ AttachConn(d, c).fd = d.fd /\ AttachConn(d, c).timerfd = d.timerfd
  BY DEF DbType, AttachConn
<1>3. /\ AttachConn(d, c).disconn = d.disconn
      /\ AttachConn(d, c).open = d.open /\ AttachConn(d, c).lost = d.lost
  BY DEF DbType, AttachConn
<1>4. AttachConn(d, c).conn = [d.conn EXCEPT ![f] = c]
  BY DEF DbType, AttachConn
<1>5. AttachConn(d, c).epoll = [d.epoll EXCEPT ![f] = c]
  BY DEF DbType, AttachConn
<1>6. AttachConn(d, c).synccount = IF c \in Sync THEN d.synccount + 1 ELSE d.synccount
  <2>1. CASE c \in Sync
    BY <2>1 DEF DbType, AttachConn
  <2>2. CASE c \notin Sync
    BY <2>2 DEF DbType, AttachConn
  <2> QED BY <2>1, <2>2
<1> QED BY <1>1, <1>2, <1>3, <1>4, <1>5, <1>6

\* _yconn_free.
LEMMA FreeFields ==
    ASSUME NEW d \in DbType, NEW c \in Conn
    PROVE  /\ Free(d, c) \in DbType
           /\ Free(d, c).status = [d.status EXCEPT ![c] = "free"]
           /\ Free(d, c).fd = d.fd /\ Free(d, c).timerfd = d.timerfd
           /\ Free(d, c).disconn = d.disconn /\ Free(d, c).conn = d.conn /\ Free(d, c).epoll = d.epoll
           /\ Free(d, c).synccount = d.synccount
           /\ Free(d, c).open = d.open /\ Free(d, c).lost = d.lost
<1>1. Free(d, c) \in DbType
  BY DEF DbType, Descriptors, Free
<1>2. Free(d, c).status = [d.status EXCEPT ![c] = "free"]
  BY DEF DbType, Free
<1>3. Free(d, c).fd = d.fd /\ Free(d, c).timerfd = d.timerfd
  BY DEF DbType, Free
<1>4. Free(d, c).disconn = d.disconn /\ Free(d, c).conn = d.conn /\ Free(d, c).epoll = d.epoll
  BY DEF DbType, Free
<1>5. /\ Free(d, c).synccount = d.synccount
      /\ Free(d, c).open = d.open /\ Free(d, c).lost = d.lost
  BY DEF DbType, Free
<1> QED BY <1>1, <1>2, <1>3, <1>4, <1>5

-----------------------------------------------------------------------------
(***************************************************************************)
(* How a connection becomes loose.                                         *)
(***************************************************************************)

\* A connection that does not exist is loose.
LEMMA FreeIsLoose ==
    ASSUME NEW d, NEW c \in Conn, Sound(d), d.status[c] = "free"
    PROVE  Loose(d, c)
BY Parts DEF Sound, Loose, Placed, Open

\* yconn_detach_from_disconn.
LEMMA Detached ==
    ASSUME NEW d, NEW c \in Conn, Sound(d), d.status[c] = "disconnected"
    PROVE  Loose(DetachDisconn(d, c), c)
<1>1. /\ d \in DbType
      /\ \A x \in Conn : Placed(d, x)
      /\ \A f \in Fd : Backed(d, f) /\ Tight(d, f)
  BY Parts DEF Sound
<1>2. PICK t \in Fd : t = d.timerfd[c]
  BY <1>1 DEF Placed, DbType, Descriptors
<1>3. PICK e : e = DetachDisconn(d, c)
  OBVIOUS
<1>4. t # 0 /\ d.epoll[t] = c /\ d.fd[c] = 0
  BY <1>1, <1>2, FdAssumption DEF Placed, Open
<1>6. /\ e \in DbType
      /\ e.status = d.status /\ e.fd = d.fd /\ e.conn = d.conn
      /\ e.disconn = d.disconn \ {c}
      /\ e.epoll = [d.epoll EXCEPT ![t] = None]
      /\ e.timerfd = [d.timerfd EXCEPT ![c] = 0]
      /\ e.synccount = d.synccount
      /\ e.open = d.open \ {t} /\ e.lost = d.lost
  BY <1>1, <1>2, <1>3, <1>4, DetachDisconnFields
<1>7. ASSUME NEW x \in Conn \ {c} PROVE Placed(e, x)
  <2>1. Placed(d, x) /\ e.timerfd[x] = d.timerfd[x] /\ (x \in e.disconn <=> x \in d.disconn)
    BY <1>1, <1>6 DEF DbType
  <2>2. d.fd[x] # 0 => d.fd[x] # t /\ e.epoll[d.fd[x]] = d.epoll[d.fd[x]]
    BY <1>1, <1>4, <1>6, <2>1 DEF DbType, Placed, Descriptors
  <2>3. d.timerfd[x] # 0 => d.timerfd[x] # t /\ e.epoll[d.timerfd[x]] = d.epoll[d.timerfd[x]]
    BY <1>1, <1>4, <1>6, <2>1 DEF DbType, Placed, Descriptors
  <2>4. e.fd[x] = d.fd[x] /\ e.status[x] = d.status[x]
    BY <1>6
  <2>5. d.fd[x] # 0 => e.conn[e.fd[x]] = x
    BY <1>6, <2>1 DEF Placed
  <2>6. (e.fd[x] # 0 <=> e.status[x] \in Open) /\ (e.timerfd[x] # 0 <=> e.status[x] = "disconnected")
    BY <2>1, <2>4 DEF Placed
  <2>7. x \in e.disconn <=> e.status[x] = "disconnected"
    BY <2>1, <2>4 DEF Placed
  <2>8. e.fd[x] # 0 => e.epoll[e.fd[x]] = x
    BY <2>1, <2>2, <2>4 DEF Placed
  <2>9. e.timerfd[x] # 0 => e.epoll[e.timerfd[x]] = x
    BY <2>1, <2>3 DEF Placed
  <2> QED BY <2>4, <2>5, <2>6, <2>7, <2>8, <2>9 DEF Placed
<1>8. ASSUME NEW f \in Fd PROVE Backed(e, f)
  <2>1. Backed(d, f) /\ e.conn[f] = d.conn[f]
    BY <1>1, <1>6
  <2>2. e.epoll[f] = IF f = t THEN None ELSE d.epoll[f]
    BY <1>1, <1>6 DEF DbType
  <2>3. f # t /\ d.epoll[f] # None => f \in {d.fd[d.epoll[f]], e.timerfd[d.epoll[f]]}
    BY <1>1, <1>2, <1>4, <1>6, <2>1, FdAssumption DEF DbType, Backed
  <2> QED BY <1>6, <2>1, <2>2, <2>3 DEF Backed
<1>9. e.fd[c] = 0 /\ e.timerfd[c] = 0 /\ c \notin e.disconn
  BY <1>1, <1>4, <1>6 DEF DbType
<1>10. Counted(e) /\ e.status[c] \notin Open
  BY <1>6, SameCount DEF Sound, OpenSyncs, Open
<1>11. ASSUME NEW f \in Fd PROVE Tight(e, f)
  <2>1. f # 0 /\ Tight(d, f) /\ Held(d, t)
    BY <1>1, <1>2, FdAssumption DEF Held
  <2>2. e.timerfd[c] = 0 /\ \A x \in Conn \ {c} : e.timerfd[x] = d.timerfd[x]
    BY <1>1, <1>6 DEF DbType
  <2>3. \A x \in Conn : d.fd[x] # t /\ (x # c => d.timerfd[x] # t)
    BY <1>1, <1>4 DEF Placed
  <2>4. Held(e, f) <=> Held(d, f) /\ f # t
    BY <1>2, <1>6, <2>1, <2>2, <2>3 DEF Held
  <2> QED BY <1>1, <1>6, <2>1, <2>4 DEF Tight
<1> QED BY <1>3, <1>6, <1>7, <1>8, <1>9, <1>10, <1>11 DEF Loose

\* yconn_detach_from_conn and yconn_socket_deinit.
LEMMA Lost ==
    ASSUME NEW d, NEW c \in Conn, Sound(d), d.status[c] \in Open
    PROVE  /\ Loose(Deinit(DetachConn(d, c), c), c)
           /\ Deinit(DetachConn(d, c), c).status[c] = "disconnected"
<1>1. /\ d \in DbType
      /\ \A x \in Conn : Placed(d, x)
      /\ \A f \in Fd : Backed(d, f) /\ Tight(d, f)
  BY Parts DEF Sound
<1>2. PICK g \in Fd : g = d.fd[c] /\ g # 0
  BY <1>1 DEF Placed, DbType, Descriptors
<1>3. PICK b : b = DetachConn(d, c)
  OBVIOUS
<1>4. PICK e : e = Deinit(b, c)
  OBVIOUS
<1>5. d.epoll[g] = c /\ d.conn[g] = c /\ d.timerfd[c] = 0 /\ c \notin d.disconn
  BY <1>1, <1>2 DEF Placed, Open
<1>6. /\ b \in DbType
      /\ b.status = d.status /\ b.fd = d.fd /\ b.timerfd = d.timerfd /\ b.disconn = d.disconn
      /\ b.conn = [d.conn EXCEPT ![g] = None]
      /\ b.epoll = [d.epoll EXCEPT ![g] = None]
      /\ b.synccount = IF c \in Sync THEN d.synccount - 1 ELSE d.synccount
      /\ b.open = d.open /\ b.lost = d.lost
  BY <1>1, <1>2, <1>3, DetachConnFields
<1>7. /\ e \in DbType
      /\ e.status = [d.status EXCEPT ![c] = "disconnected"]
      /\ e.fd = [d.fd EXCEPT ![c] = 0]
      /\ e.timerfd = d.timerfd /\ e.disconn = d.disconn
      /\ e.conn = [d.conn EXCEPT ![g] = None]
      /\ e.epoll = [b.epoll EXCEPT ![g] = None]
      /\ e.synccount = b.synccount
      /\ e.open = d.open \ {g} /\ e.lost = d.lost
  BY SMTT(60), <1>2, <1>4, <1>6, DeinitFields
<1>8. /\ \A x \in Conn \ {c} : e.status[x] = d.status[x] /\ e.fd[x] = d.fd[x]
      /\ e.status[c] = "disconnected" /\ e.fd[c] = 0
      /\ \A f \in Fd : /\ e.conn[f] = IF f = g THEN None ELSE d.conn[f]
                       /\ e.epoll[f] = IF f = g THEN None ELSE d.epoll[f]
  BY <1>1, <1>6, <1>7 DEF DbType
<1>9. ASSUME NEW x \in Conn \ {c} PROVE Placed(e, x)
  <2>1. Placed(d, x) /\ d.fd[x] \in Fd \cup {0} /\ d.timerfd[x] \in Fd \cup {0}
    BY <1>1 DEF DbType, Descriptors
  <2>2. d.fd[x] # 0 => d.fd[x] # g
    BY <1>5, <2>1 DEF Placed
  <2>3. d.timerfd[x] # 0 => d.timerfd[x] # g
    BY <1>5, <2>1 DEF Placed
  <2> QED BY <1>7, <1>8, <2>1, <2>2, <2>3 DEF Placed
<1>10. ASSUME NEW f \in Fd PROVE Backed(e, f)
  <2>1. Backed(d, f) /\ d.conn[f] \in Conn \cup {None} /\ d.epoll[f] \in Conn \cup {None}
    BY <1>1 DEF DbType
  <2>2. f # g => d.conn[f] # c
    BY <1>2, <2>1, ConnAssumption DEF Backed
  <2>3. f # g => d.epoll[f] # c
    BY <1>2, <1>5, <2>1, ConnAssumption, FdAssumption DEF Backed
  <2> QED BY <1>7, <1>8, <2>1, <2>2, <2>3 DEF Backed
<1>11. Counted(e)
  <2>1. OpenSyncs(e) = OpenSyncs(d) \ {c}
    BY <1>8, RoleAssumption, ConnAssumption DEF OpenSyncs, Open
  <2>2. c \in OpenSyncs(d) <=> c \in Sync
    BY DEF OpenSyncs
  <2>3. IsFiniteSet(OpenSyncs(d))
    BY FiniteSyncs
  <2>4. Cardinality(OpenSyncs(e)) =
          IF c \in Sync THEN Cardinality(OpenSyncs(d)) - 1 ELSE Cardinality(OpenSyncs(d))
    BY ZenonT(60), <2>1, <2>2, <2>3, FS_RemoveElement
  <2> QED BY <1>6, <1>7, <2>4 DEF Counted, Sound
<1>12. e.status[c] \notin Open
  BY <1>8 DEF Open
<1>13. ASSUME NEW f \in Fd PROVE Tight(e, f)
  <2>1. f # 0 /\ Tight(d, f) /\ Tight(d, g) /\ Held(d, g)
    BY <1>1, <1>2, FdAssumption DEF Held
  <2>2. \A x \in Conn : d.timerfd[x] # g /\ (x # c => d.fd[x] # g)
    BY <1>1, <1>2, <1>5 DEF Placed
  <2>3. Held(e, f) <=> Held(d, f) /\ f # g
    BY <1>2, <1>7, <1>8, <2>1, <2>2 DEF Held
  <2> QED BY <1>7, <2>1, <2>3 DEF Tight
<1> QED BY <1>3, <1>4, <1>5, <1>7, <1>8, <1>9, <1>10, <1>11, <1>12, <1>13 DEF Loose

-----------------------------------------------------------------------------
(***************************************************************************)
(* What a loose connection may become.                                     *)
(***************************************************************************)

\* A record that differs from d only in what it says of the loose connection c.
LEMMA OnlyStatus ==
    ASSUME NEW d, NEW c \in Conn, Loose(d, c), NEW e \in DbType,
           e.fd = d.fd, e.timerfd = d.timerfd, e.disconn = d.disconn,
           e.conn = d.conn, e.epoll = d.epoll, e.synccount = d.synccount,
           e.open = d.open, e.lost = d.lost,
           e.status[c] \notin Open,
           \A x \in Conn \ {c} : e.status[x] = d.status[x]
    PROVE  Loose(e, c)
<1>1. ASSUME NEW x \in Conn \ {c} PROVE Placed(e, x)
  BY <1>1 DEF Loose, Placed
<1>2. ASSUME NEW f \in Fd PROVE Backed(e, f) /\ Tight(e, f)
  BY <1>2 DEF Loose, Backed, Tight, Held
<1>3. Counted(e)
  <2>1. OpenSyncs(e) = OpenSyncs(d)
    BY RoleAssumption, ConnAssumption DEF OpenSyncs, Loose
  <2> QED BY <2>1, SameCount DEF Loose
<1> QED BY <1>1, <1>2, <1>3 DEF Loose

\* yconn_socket_deinit without a socket.
LEMMA DeinitLoose ==
    ASSUME NEW d, NEW c \in Conn, Loose(d, c)
    PROVE  Loose(Deinit(d, c), c) /\ Deinit(d, c).status[c] = "disconnected"
<1>1. PICK e : e = [d EXCEPT !.status[c] = "disconnected"]
  OBVIOUS
<1>2. e = Deinit(d, c) /\ d \in DbType
  BY <1>1 DEF Deinit, Loose
<1>3. [d EXCEPT !.status[c] = "disconnected"] \in DbType
  BY <1>2 DEF DbType
<1>4. /\ e.fd = d.fd /\ e.timerfd = d.timerfd /\ e.disconn = d.disconn
      /\ e.conn = d.conn /\ e.epoll = d.epoll /\ e.synccount = d.synccount
      /\ e.open = d.open /\ e.lost = d.lost
      /\ e.status = [d.status EXCEPT ![c] = "disconnected"]
  BY <1>1, <1>2 DEF DbType
<1>5. e.status[c] = "disconnected" /\ \A x \in Conn \ {c} : e.status[x] = d.status[x]
  BY <1>2, <1>4 DEF DbType
<1>6. e \in DbType
  BY <1>1, <1>3
<1>7. Loose(e, c)
  BY <1>4, <1>5, <1>6, OnlyStatus DEF Open
<1> QED BY <1>2, <1>5, <1>7

\* _yconn_free.
LEMMA Freed ==
    ASSUME NEW d, NEW c \in Conn, Loose(d, c)
    PROVE  Sound(Free(d, c)) /\ Free(d, c).status[c] = "free"
<1>1. PICK e : e = Free(d, c)
  OBVIOUS
<1>2. d \in DbType
  BY DEF Loose
<1>3. /\ e \in DbType
      /\ e.status = [d.status EXCEPT ![c] = "free"]
      /\ e.fd = d.fd /\ e.timerfd = d.timerfd
      /\ e.disconn = d.disconn /\ e.conn = d.conn /\ e.epoll = d.epoll
      /\ e.synccount = d.synccount
      /\ e.open = d.open /\ e.lost = d.lost
  BY <1>1, <1>2, FreeFields
<1>4. e.status[c] = "free" /\ \A x \in Conn \ {c} : e.status[x] = d.status[x]
  BY <1>2, <1>3 DEF DbType
<1>5. Loose(e, c)
  BY <1>3, <1>4, OnlyStatus DEF Open
<1>6. Placed(e, c)
  BY <1>4, <1>5 DEF Loose, Placed, Open
<1> QED BY <1>1, <1>3, <1>4, <1>5, <1>6, Parts DEF Loose, Sound

\* yconn_attach_to_disconn, of a connection that is disconnected.
LEMMA Waits ==
    ASSUME NEW d, NEW c \in Conn, Loose(d, c), d.status[c] = "disconnected", NEW t \in Unused(d)
    PROVE  Sound(AttachDisconn(d, c, t))
<1>1. PICK e : e = AttachDisconn(d, c, t)
  OBVIOUS
<1>2. /\ d \in DbType
      /\ \A x \in Conn \ {c} : Placed(d, x)
      /\ \A f \in Fd : Backed(d, f) /\ Tight(d, f)
  BY DEF Loose
<1>3. t \in Fd /\ t # 0 /\ (\A x \in Conn : d.fd[x] # t /\ d.timerfd[x] # t) /\ t \notin d.lost
  BY <1>2, UnusedFd
<1>4. /\ e \in DbType
      /\ e.status = d.status /\ e.fd = d.fd /\ e.conn = d.conn
      /\ e.disconn = d.disconn \cup {c}
      /\ e.epoll = [d.epoll EXCEPT ![t] = c]
      /\ e.timerfd = [d.timerfd EXCEPT ![c] = t]
      /\ e.synccount = d.synccount
      /\ e.open = d.open \cup {t} /\ e.lost = d.lost
  BY <1>1, <1>2, <1>3, AttachDisconnFields
<1>5. /\ e.timerfd[c] = t /\ \A x \in Conn \ {c} : e.timerfd[x] = d.timerfd[x]
      /\ \A f \in Fd : e.epoll[f] = IF f = t THEN c ELSE d.epoll[f]
  BY <1>2, <1>3, <1>4 DEF DbType
<1>6. ASSUME NEW x \in Conn \ {c} PROVE Placed(e, x)
  <2>1. Placed(d, x) /\ d.fd[x] \in Fd \cup {0} /\ d.timerfd[x] \in Fd \cup {0}
    BY <1>2 DEF DbType, Descriptors
  <2> QED BY <1>3, <1>4, <1>5, <2>1 DEF Placed
<1>7. Placed(e, c)
  BY <1>3, <1>4, <1>5 DEF Loose, Placed, Open
<1>8. ASSUME NEW f \in Fd PROVE Backed(e, f)
  <2>1. Backed(d, f) /\ d.epoll[f] \in Conn \cup {None}
    BY <1>2 DEF DbType
  <2>2. f # t /\ d.epoll[f] # None => d.epoll[f] # c
    BY <2>1, FdAssumption DEF Backed, Loose
  <2> QED BY <1>4, <1>5, <2>1, <2>2 DEF Backed
<1>9. Counted(e)
  BY <1>4, SameCount DEF Loose, OpenSyncs
<1>10. ASSUME NEW f \in Fd PROVE Tight(e, f)
  <2>1. Tight(d, f) /\ f # 0 /\ d.timerfd[c] = 0
    BY <1>2, FdAssumption DEF Loose
  <2>2. Held(e, f) <=> Held(d, f) \/ f = t
    BY <1>4, <1>5, <2>1 DEF Held
  <2> QED BY <1>2, <1>3, <1>4, <2>1, <2>2 DEF Tight
<1> QED BY <1>1, <1>4, <1>6, <1>7, <1>8, <1>9, <1>10, Parts DEF Sound

\* yconn_attach_to_conn, of a connection that has been given the socket f.
LEMMA Attaches ==
    ASSUME NEW d, NEW c \in Conn, Loose(d, c), NEW f \in Unused(d), NEW st \in Open,
           NEW b \in DbType,
           b.status = [d.status EXCEPT ![c] = st], b.fd = [d.fd EXCEPT ![c] = f],
           b.timerfd = d.timerfd, b.disconn = d.disconn, b.conn = d.conn, b.epoll = d.epoll,
           b.synccount = d.synccount, b.open = d.open \cup {f}, b.lost = d.lost
    PROVE  Sound(AttachConn(b, c))
<1>1. PICK e : e = AttachConn(b, c)
  OBVIOUS
<1>2. /\ d \in DbType
      /\ \A x \in Conn \ {c} : Placed(d, x)
      /\ \A g \in Fd : Backed(d, g) /\ Tight(d, g)
  BY DEF Loose
<1>3. f \in Fd /\ f # 0 /\ (\A x \in Conn : d.fd[x] # f /\ d.timerfd[x] # f) /\ f \notin d.lost
  BY <1>2, UnusedFd
<1>4. b.fd[c] = f
  BY <1>2, <1>3 DEF DbType
<1>5. /\ e \in DbType
      /\ e.status = b.status /\ e.fd = b.fd /\ e.timerfd = b.timerfd
      /\ e.disconn = b.disconn
      /\ e.conn = [b.conn EXCEPT ![f] = c]
      /\ e.epoll = [b.epoll EXCEPT ![f] = c]
      /\ e.synccount = IF c \in Sync THEN b.synccount + 1 ELSE b.synccount
      /\ e.open = d.open \cup {f} /\ e.lost = d.lost
  BY <1>1, <1>3, <1>4, AttachConnFields
<1>6. /\ e.status[c] = st /\ e.fd[c] = f
      /\ \A x \in Conn \ {c} : e.status[x] = d.status[x] /\ e.fd[x] = d.fd[x]
      /\ \A g \in Fd : /\ e.conn[g] = IF g = f THEN c ELSE d.conn[g]
                       /\ e.epoll[g] = IF g = f THEN c ELSE d.epoll[g]
  BY <1>2, <1>3, <1>5 DEF DbType
<1>7. ASSUME NEW x \in Conn \ {c} PROVE Placed(e, x)
  <2>1. Placed(d, x) /\ d.fd[x] \in Fd \cup {0} /\ d.timerfd[x] \in Fd \cup {0}
    BY <1>2 DEF DbType, Descriptors
  <2> QED BY <1>3, <1>5, <1>6, <2>1 DEF Placed
<1>8. Placed(e, c)
  BY <1>3, <1>5, <1>6 DEF Loose, Placed, Open
<1>9. ASSUME NEW g \in Fd PROVE Backed(e, g)
  <2>1. Backed(d, g) /\ d.conn[g] \in Conn \cup {None} /\ d.epoll[g] \in Conn \cup {None}
    BY <1>2 DEF DbType
  <2>2. g # f => d.conn[g] # c /\ d.epoll[g] # c
    BY <2>1, FdAssumption, ConnAssumption DEF Backed, Loose
  <2> QED BY <1>5, <1>6, <2>1, <2>2 DEF Backed
<1>10. Counted(e)
  <2>1. OpenSyncs(e) = IF c \in Sync THEN OpenSyncs(d) \cup {c} ELSE OpenSyncs(d)
    BY <1>6, RoleAssumption, ConnAssumption DEF OpenSyncs
  <2>2. c \notin OpenSyncs(d) /\ IsFiniteSet(OpenSyncs(d))
    BY FiniteSyncs DEF Loose, OpenSyncs
  <2>3. Cardinality(OpenSyncs(e)) =
          IF c \in Sync THEN Cardinality(OpenSyncs(d)) + 1 ELSE Cardinality(OpenSyncs(d))
    BY <2>1, <2>2, FS_AddElement
  <2> QED BY <1>5, <2>3 DEF Counted, Loose
<1>11. ASSUME NEW g \in Fd PROVE Tight(e, g)
  <2>1. Tight(d, g) /\ g # 0 /\ d.fd[c] = 0
    BY <1>2, FdAssumption DEF Loose
  <2>2. Held(e, g) <=> Held(d, g) \/ g = f
    BY <1>5, <1>6, <2>1 DEF Held
  <2> QED BY <1>2, <1>3, <1>5, <2>1, <2>2 DEF Tight
<1> QED BY <1>1, <1>5, <1>7, <1>8, <1>9, <1>10, <1>11, Parts DEF Sound

-----------------------------------------------------------------------------
(***************************************************************************)
(* Whole operations.                                                       *)
(***************************************************************************)

\* yconn_close, whatever the status.
LEMMA Closed ==
    ASSUME NEW d, NEW c \in Conn, Sound(d)
    PROVE  Sound(Close(d, c)) /\ Close(d, c).status[c] = "free"
<1>1. d \in DbType /\ Placed(d, c)
  BY Parts DEF Sound
<1>2. SUFFICES Loose(Deinit(DetachConn(DetachDisconn(d, c), c), c), c)
  BY Freed DEF Close
<1>3. CASE d.status[c] = "disconnected"
  <2>1. Loose(DetachDisconn(d, c), c)
    BY <1>3, Detached
  <2>2. DetachConn(DetachDisconn(d, c), c) = DetachDisconn(d, c)
    BY <2>1 DEF Loose, DetachConn
  <2> QED BY <2>1, <2>2, DeinitLoose
<1>4. CASE d.status[c] # "disconnected"
  <2>1. d.timerfd[c] = 0 /\ d.disconn \ {c} = d.disconn
    BY <1>1, <1>4 DEF Placed
  <2>2. DetachDisconn(d, c) = [d EXCEPT !.disconn = d.disconn]
    BY <2>1 DEF DetachDisconn
  <2>3. DetachDisconn(d, c) = d
    BY <1>1, <2>2 DEF DbType
  <2>4. CASE d.status[c] \in Open
    BY <2>3, <2>4, Lost
  <2>5. CASE d.status[c] = "free"
    <3>1. Loose(d, c)
      BY <2>5, FreeIsLoose
    <3>2. DetachConn(d, c) = d
      BY <3>1 DEF Loose, DetachConn
    <3> QED BY <2>3, <3>1, <3>2, DeinitLoose
  <2> QED BY <1>1, <1>4, <2>4, <2>5 DEF DbType
<1> QED BY <1>3, <1>4

\* yconn_deferred_close of an open connection.
LEMMA Deferred ==
    ASSUME NEW d, NEW c \in Conn, Sound(d), d.status[c] \in Open, NEW e \in DeferredClose(d, c)
    PROVE  Sound(e)
BY Lost, Waits DEF DeferredClose, Lowest

\* Sending, whether it fails or not.
LEMMA Fails ==
    ASSUME NEW d, Sound(d), NEW e \in Failing(d)
    PROVE  Sound(e)
BY Deferred DEF Failing, Open

LEMMA Sent ==
    ASSUME NEW d, Sound(d), NEW e \in AfterSending(d)
    PROVE  Sound(e)
BY Fails DEF AfterSending

\* A try that fails: what it loses is of no connection.
LEMMA Tries ==
    ASSUME NEW d \in DbType, NEW c, NEW f \in Unused(d), \A g \in Fd : Tight(d, g)
    PROVE  /\ Tried(d, c, f) \in DbType
           /\ Tried(d, c, f).status = d.status /\ Tried(d, c, f).fd = d.fd
           /\ Tried(d, c, f).timerfd = d.timerfd /\ Tried(d, c, f).disconn = d.disconn
           /\ Tried(d, c, f).conn = d.conn /\ Tried(d, c, f).epoll = d.epoll
           /\ Tried(d, c, f).synccount = d.synccount
           /\ \A g \in Fd : Tight(Tried(d, c, f), g)
<1>1. CASE Result(c) # "refused"
  BY <1>1 DEF Tried
<1>2. CASE Result(c) = "refused"
  <2>1. f \in Fd /\ ~Held(d, f)
    BY UnusedFd
  <2>2. PICK e : e = [d EXCEPT !.open = @ \cup {f}, !.lost = @ \cup {f}]
    OBVIOUS
  <2>3. e = Tried(d, c, f)
    BY <1>2, <2>2 DEF Tried
  <2>4. [d EXCEPT !.open = @ \cup {f}, !.lost = @ \cup {f}] \in DbType
    BY <2>1 DEF DbType
  <2>5. /\ e.status = d.status /\ e.fd = d.fd /\ e.timerfd = d.timerfd /\ e.disconn = d.disconn
        /\ e.conn = d.conn /\ e.epoll = d.epoll /\ e.synccount = d.synccount
        /\ e.open = d.open \cup {f} /\ e.lost = d.lost \cup {f}
    BY <2>2 DEF DbType
  <2>6. ASSUME NEW g \in Fd PROVE Tight(e, g)
    <3>1. Tight(d, g) /\ (Held(e, g) <=> Held(d, g))
      BY <2>5 DEF Held
    <3> QED BY <2>1, <2>5, <3>1 DEF Tight
  <2> QED BY <2>2, <2>3, <2>4, <2>5, <2>6
<1> QED BY <1>1, <1>2

LEMMA TriesLoose ==
    ASSUME NEW d, NEW c \in Conn, Loose(d, c), NEW f \in Unused(d)
    PROVE  Loose(Tried(d, c, f), c)
<1>1. PICK e : e = Tried(d, c, f)
  OBVIOUS
<1>2. /\ e \in DbType /\ e.status = d.status /\ e.fd = d.fd /\ e.timerfd = d.timerfd
      /\ e.disconn = d.disconn /\ e.conn = d.conn /\ e.epoll = d.epoll
      /\ e.synccount = d.synccount
      /\ \A g \in Fd : Tight(e, g)
  BY <1>1, Tries DEF Loose
<1>3. (\A x \in Conn \ {c} : Placed(e, x)) /\ \A g \in Fd : Backed(e, g)
  BY <1>2 DEF Loose, Placed, Backed
<1>4. Counted(e)
  BY <1>2, SameCount DEF Loose, OpenSyncs
<1> QED BY <1>1, <1>2, <1>3, <1>4 DEF Loose

\* The timers that are armed are all that reading one changes.
LEMMA OnlyArmed ==
    ASSUME NEW d, Sound(d), NEW c
    PROVE  /\ Sound(ReadTimer(d, c)) /\ ReadTimer(d, c).open = d.open
           /\ ReadTimer(d, c).status = d.status
<1>1. PICK e : e = ReadTimer(d, c)
  OBVIOUS
<1>2. d \in DbType /\ [d EXCEPT !.armed = @ \ {c}] \in DbType
  BY DEF Sound, DbType
<1>3. /\ e \in DbType /\ e.status = d.status /\ e.fd = d.fd /\ e.timerfd = d.timerfd
      /\ e.disconn = d.disconn /\ e.conn = d.conn /\ e.epoll = d.epoll
      /\ e.synccount = d.synccount /\ e.open = d.open /\ e.lost = d.lost
  BY <1>1, <1>2 DEF ReadTimer, DbType
<1>4. ConsistentIn(e)
  BY <1>3 DEF Sound, ConsistentIn, Held
<1>5. Counted(e)
  BY <1>3, SameCount DEF Sound, OpenSyncs
<1> QED BY <1>1, <1>3, <1>4, <1>5 DEF Sound

LEMMA TriesSound ==
    ASSUME NEW d, Sound(d), NEW c, NEW f \in Unused(d)
    PROVE  Sound(Tried(d, c, f))
<1>1. PICK e : e = Tried(d, c, f)
  OBVIOUS
<1>2. /\ d \in DbType
      /\ \A x \in Conn : Placed(d, x)
      /\ \A g \in Fd : Backed(d, g) /\ Tight(d, g)
  BY Parts DEF Sound
<1>3. /\ e \in DbType /\ e.status = d.status /\ e.fd = d.fd /\ e.timerfd = d.timerfd
      /\ e.disconn = d.disconn /\ e.conn = d.conn /\ e.epoll = d.epoll
      /\ e.synccount = d.synccount
      /\ \A g \in Fd : Tight(e, g)
  BY <1>1, <1>2, Tries
<1>4. (\A x \in Conn : Placed(e, x)) /\ \A g \in Fd : Backed(e, g)
  BY <1>2, <1>3 DEF Placed, Backed
<1>5. Counted(e)
  BY <1>3, SameCount DEF Sound, OpenSyncs
<1> QED BY <1>1, <1>3, <1>4, <1>5, Parts DEF Sound

\* func_init of a loose connection that succeeds, and yconn_attach_to_conn.
LEMMA Opens ==
    ASSUME NEW d, NEW c \in Conn, Loose(d, c), NEW f \in Unused(d), Result(c) \in Open
    PROVE  Sound(Attached(d, c, f))
<1>1. PICK st \in Open : st = Result(c)
  OBVIOUS
<1>2. PICK b : b = [d EXCEPT !.fd[c] = f, !.status[c] = st, !.open = @ \cup {f}]
  OBVIOUS
<1>3. d \in DbType /\ f \in Fd
  BY DEF Loose, Unused
<1>4. [d EXCEPT !.fd[c] = f, !.status[c] = st, !.open = @ \cup {f}] \in DbType
  BY <1>3 DEF DbType, Descriptors
<1>5. b \in DbType
  BY <1>2, <1>4
<1>6. /\ b.status = [d.status EXCEPT ![c] = st] /\ b.fd = [d.fd EXCEPT ![c] = f]
      /\ b.timerfd = d.timerfd /\ b.disconn = d.disconn /\ b.conn = d.conn /\ b.epoll = d.epoll
      /\ b.synccount = d.synccount /\ b.open = d.open \cup {f} /\ b.lost = d.lost
  BY <1>2, <1>3 DEF DbType
<1>7. Sound(AttachConn(b, c))
  BY <1>5, <1>6, Attaches
<1> QED BY <1>1, <1>2, <1>7 DEF Attached, WithSocket

-----------------------------------------------------------------------------
LEMMA InitInv == Init => IInv
<1> SUFFICES ASSUME Init PROVE IInv
  OBVIOUS
<1>1. db \in DbType
  BY DEF Init, DbType, Descriptors
<1>2. /\ \A c \in Conn : db.status[c] = "free" /\ db.fd[c] = 0 /\ db.timerfd[c] = 0
      /\ \A f \in Fd : db.conn[f] = None /\ db.epoll[f] = None
      /\ db.disconn = {} /\ db.open = {} /\ db.lost = {}
  BY DEF Init
<1>3. ConsistentIn(db)
  BY <1>2, FdAssumption DEF ConsistentIn, Open, Held
<1>4. Counted(db)
  <2>1. OpenSyncs(db) = {}
    BY <1>2, RoleAssumption, ConnAssumption DEF OpenSyncs, Open
  <2>2. db.synccount = 0
    BY DEF Init
  <2> QED BY <2>1, <2>2, FS_EmptySet DEF Counted
<1> QED BY <1>1, <1>3, <1>4 DEF IInv, Sound

LEMMA ConnectStep == ASSUME IInv, NEW m \in Major, Connect(m) PROVE IInv'
<1>1. PICK d : d = IF db.status[m] = "free" THEN db ELSE Close(db, m)
  OBVIOUS
<1>2. PICK e : e = [d EXCEPT !.address[m] = m]
  OBVIOUS
<1>3. m \in Conn
  BY ConnAssumption
<1>4. Sound(d) /\ d.status[m] = "free"
  BY <1>1, <1>3, Closed DEF IInv
<1>5. Loose(e, m)
  <2>1. d \in DbType /\ [d EXCEPT !.address[m] = m] \in DbType
    BY <1>3, <1>4 DEF Sound, DbType
  <2>2. e \in DbType
    BY <1>2, <2>1
  <2>3. /\ e.status = d.status /\ e.fd = d.fd /\ e.timerfd = d.timerfd
        /\ e.disconn = d.disconn /\ e.conn = d.conn /\ e.epoll = d.epoll
        /\ e.synccount = d.synccount /\ e.open = d.open /\ e.lost = d.lost
    BY <1>2, <2>1 DEF DbType
  <2>4. Loose(d, m)
    BY <1>3, <1>4, FreeIsLoose
  <2> QED BY <1>3, <1>4, <2>2, <2>3, <2>4, OnlyStatus DEF Open
<1>6. PICK f \in Lowest(e) :
        IF Result(m) \notin Open
        THEN \E t \in Lowest(Deinit(Tried(e, m, f), m)) :
                db' = AttachDisconn(Deinit(Tried(e, m, f), m), m, t)
        ELSE db' = Attached(e, m, f)
  BY <1>1, <1>2 DEF Connect, Opened
<1>7. f \in Unused(e)
  BY <1>6 DEF Lowest
<1>8. CASE Result(m) \notin Open
  <2>1. PICK b : b = Deinit(Tried(e, m, f), m)
    OBVIOUS
  <2>2. PICK t \in Unused(b) : db' = AttachDisconn(b, m, t)
    BY <1>6, <1>8, <2>1 DEF Lowest
  <2>3. Loose(b, m) /\ b.status[m] = "disconnected"
    BY <1>3, <1>5, <1>7, <2>1, TriesLoose, DeinitLoose
  <2> QED BY <1>3, <2>2, <2>3, Waits DEF IInv, Sound
<1>9. CASE Result(m) \in Open
  <2>1. Sound(Attached(e, m, f))
    BY <1>3, <1>5, <1>7, <1>9, Opens
  <2> QED BY <1>6, <1>9, <2>1 DEF IInv, Sound
<1> QED BY <1>8, <1>9

LEMMA ReopenStep == ASSUME IInv, NEW c \in Conn, Reopen(c) PROVE IInv'
<1>1. db.status[c] = "disconnected"
  BY DEF Reopen, Event
<1>2. CASE db' = ReadTimer(db, c)
  BY <1>2, OnlyArmed DEF IInv, Sound
<1>3. CASE \E f \in Lowest(db) : db' = Tried(ReadTimer(db, c), c, f)
  <2>1. PICK f \in Unused(db) : db' = Tried(ReadTimer(db, c), c, f)
    BY <1>3 DEF Lowest
  <2>2. PICK e : e = ReadTimer(db, c)
    OBVIOUS
  <2>3. Sound(e) /\ f \in Unused(e)
    BY <2>1, <2>2, OnlyArmed DEF IInv, Unused
  <2> QED BY <2>1, <2>2, <2>3, TriesSound DEF IInv, Sound
<1>4. CASE Result(c) \in Open /\ \E f \in Lowest(db) : db' = Attached(DetachDisconn(db, c), c, f)
  <2>1. PICK f \in Lowest(db) : db' = Attached(DetachDisconn(db, c), c, f)
    BY <1>4
  <2>2. PICK d : d = DetachDisconn(db, c)
    OBVIOUS
  <2>3. Loose(d, c)
    BY <1>1, <2>2, Detached DEF IInv
  <2>4. db \in DbType /\ f \in Unused(db)
    BY <2>1 DEF IInv, Sound, Lowest
  <2>5. d.open \subseteq db.open
    BY <2>2, <2>4 DEF DetachDisconn, DbType
  <2>6. f \in Unused(d)
    BY <2>4, <2>5 DEF Unused
  <2>7. Sound(Attached(d, c, f))
    BY <1>4, <2>3, <2>6, Opens
  <2> QED BY <2>1, <2>2, <2>7 DEF IInv, Sound
<1> QED BY <1>2, <1>3, <1>4 DEF Reopen, Opened

LEMMA AcceptStep == ASSUME IInv, NEW s \in Conn, Accept(s) PROVE IInv'
<1>1. PICK c \in Spare, f \in Lowest(db) :
        db' = AttachConn([WithSocket(db, c, f, "accepted")
                             EXCEPT !.address[c] = IF s \in Tcp THEN c ELSE s], c)
  BY DEF Accept
<1> DEFINE new == [db EXCEPT !.fd[c] = f, !.status[c] = "accepted", !.open = @ \cup {f},
                             !.address[c] = IF s \in Tcp THEN c ELSE s]
<1>2. PICK b : b = new
  OBVIOUS
<1>3. c \in Conn /\ Loose(db, c) /\ f \in Unused(db)
  BY <1>1, FreeIsLoose DEF IInv, Spare, Lowest
<1>4. db \in DbType /\ f \in Fd
  BY <1>3 DEF Loose, Unused
<1>5. new \in DbType
  <2>1. ASSUME NEW a \in Conn
        PROVE  [db EXCEPT !.fd[c] = f, !.status[c] = "accepted", !.open = @ \cup {f},
                          !.address[c] = a] \in DbType
    BY <1>3, <1>4 DEF DbType, Descriptors, Open
  <2> QED BY <1>3, <2>1
<1>6. b \in DbType
  BY <1>2, <1>5
<1>7. /\ b.status = [db.status EXCEPT ![c] = "accepted"] /\ b.fd = [db.fd EXCEPT ![c] = f]
      /\ b.timerfd = db.timerfd /\ b.disconn = db.disconn /\ b.conn = db.conn
      /\ b.epoll = db.epoll /\ b.synccount = db.synccount
      /\ b.open = db.open \cup {f} /\ b.lost = db.lost
  BY <1>2, <1>4 DEF DbType
<1>8. "accepted" \in Open
  BY DEF Open
<1>9. Sound(AttachConn(b, c))
  BY <1>3, <1>6, <1>7, <1>8, Attaches
<1>10. b = [WithSocket(db, c, f, "accepted") EXCEPT !.address[c] = IF s \in Tcp THEN c ELSE s]
  BY <1>2, <1>4 DEF WithSocket, DbType
<1> QED BY <1>1, <1>9, <1>10 DEF IInv, Sound

LEMMA NextInv == IInv /\ [Next]_vars => IInv'
<1> SUFFICES ASSUME IInv, [Next]_vars PROVE IInv'
  OBVIOUS
<1>1. ASSUME NEW m \in Major, Connect(m) PROVE IInv'
  BY <1>1, ConnectStep
<1>2. ASSUME NEW m \in Conn,
             Disconnect(m) \/ PeerUp(m) \/ PeerDown(m) \/ PeerConnects(m)
      PROVE  IInv'
  BY <1>2 DEF Disconnect, PeerUp, PeerDown, PeerConnects, IInv, Sound
<1>3. CASE Write
  BY <1>3, Sent DEF Write, IInv, Sound
<1>4. CASE SyncAll
  BY <1>4, Sent DEF SyncAll, IInv, Sound
<1>5. CASE Leave
  BY <1>5 DEF Leave, IInv, Sound
<1>6. ASSUME NEW c \in Conn, Poll(c) PROVE IInv'
  BY <1>6 DEF Poll, IInv, Sound
<1>7. ASSUME NEW c \in Conn, CloseNext(c) \/ CloseAccepted(c) PROVE IInv'
  BY <1>7, Closed DEF CloseNext, CloseAccepted, IInv, Sound
<1>8. ASSUME NEW c \in Conn, SendInit(c) PROVE IInv'
  BY <1>8, Deferred DEF SendInit, Open, IInv, Sound
<1>9. ASSUME NEW c \in Conn, Reopen(c) PROVE IInv'
  BY <1>9, ReopenStep
<1>10. ASSUME NEW c \in Conn, Accept(c) PROVE IInv'
  BY <1>10, AcceptStep
<1>11. ASSUME NEW c \in Conn, AcceptFails(c) PROVE IInv'
  BY <1>11, Deferred DEF AcceptFails, Event, Open, IInv, Sound
<1>12. ASSUME NEW c \in Conn, Recv(c) PROVE IInv'
  BY <1>12, Sent, Deferred DEF Recv, Event, Open, IInv, Sound
<1>13. CASE UNCHANGED vars
  BY <1>13 DEF vars, IInv, Sound
<1> QED BY <1>1, <1>2, <1>3, <1>4, <1>5, <1>6, <1>7, <1>8, <1>9, <1>10, <1>11, <1>12, <1>13,
           ConnAssumption
        DEF Next, Handle

\* Every connection is in exactly one container, with the one descriptor that
\* epoll reports it by, and what it no longer has is closed, whatever fails, is
\* accepted or opened again: only a refused try loses its socket.
THEOREM ConnectionsConsistent == Spec => []Consistent
<1>1. IInv => Consistent
  BY DEF IInv, Sound, Consistent
<1> QED BY <1>1, InitInv, NextInv, PTL DEF Spec

\* synccount never drifts from the number of open connections with the flag s.
THEOREM ConnectionsCountSyncs == Spec => []CountsSyncs
<1>1. IInv => CountsSyncs
  BY DEF IInv, Sound, Counted, OpenSyncs, CountsSyncs, StatusIs
<1> QED BY <1>1, InitInv, NextInv, PTL DEF Spec

\* A connection has a status, descriptors and an address of those there are.
THEOREM ConnectionsType == Spec => []TypeOK
<1>1. IInv => TypeOK
  BY DEF IInv, Sound, TypeOK
<1> QED BY <1>1, InitInv, NextInv, PTL DEF Spec

-----------------------------------------------------------------------------
(***************************************************************************)
(* The events of a batch hold when their turn comes, for any number of     *)
(* connections and descriptors and any depth of loops within loops, unless *)
(* another loop has run in the midst of the batch.                         *)
(*                                                                         *)
(* The argument: only the innermost loop handles events, and all the loops *)
(* around it know that it has run.  What it does with the connection of an *)
(* event makes no other connection free or a server.                       *)
(***************************************************************************)
Frame == [kind : Loops \cup {"open"}, events : Seq(Conn \cup {Gone}), nested : BOOLEAN]
Shut(f) == "kind" \in DOMAIN f /\ f.kind = "close"

\* The events es hold: their connections are there, a server has a connection to
\* accept, and there is one event of a connection at most.
Holds(es, d, p) ==
    /\ \A j \in 1..Len(es) : /\ es[j] \in Conn /\ d.status[es[j]] # "free"
                             /\ d.status[es[j]] = "server" => es[j] \in p
    /\ \A j, k \in 1..Len(es) : j # k => es[j] # es[k]

\* A loop's events hold, unless another has run in their midst.
Kept(f, d, p) == f.kind \in Loops /\ ~f.nested => Holds(f.events, d, p)

\* The stack: loops, the outer ones of which know of those within, and on top of
\* them the opening of a connection, or the closing of connections alone.
Stack(s, d, p) ==
    /\ s \in Seq(Frame)
    /\ \A i \in 1..Len(s) : Kept(s[i], d, p)
    /\ \A i \in 2..Len(s) : /\ s[i].kind \in Loops
                            /\ i > 2 \/ s[1].kind # "open" => s[i].nested

Stacked == Stack(frames, db, pending) \/ \E f : frames = <<f>> /\ Shut(f)

-----------------------------------------------------------------------------
(***************************************************************************)
(* What the operations do to the status of connections.                    *)
(***************************************************************************)

\* Only c changes.
Only(d, e, c) == e \in DbType /\ \A x \in Conn \ {c} : e.status[x] = d.status[x]

LEMMA HasDescriptors ==
    ASSUME NEW d \in DbType, NEW c \in Conn
    PROVE  /\ d.fd[c] # 0 => d.fd[c] \in Fd
           /\ d.timerfd[c] # 0 => d.timerfd[c] \in Fd
BY DEF DbType, Descriptors

LEMMA StatusDetachConn ==
    ASSUME NEW d \in DbType, NEW c \in Conn
    PROVE  DetachConn(d, c) \in DbType /\ DetachConn(d, c).status = d.status
<1>1. CASE d.fd[c] = 0
  BY <1>1 DEF DetachConn
<1>2. CASE d.fd[c] # 0
  BY ZenonT(60), <1>2, HasDescriptors, DetachConnFields
<1> QED BY <1>1, <1>2

LEMMA StatusDetachDisconn ==
    ASSUME NEW d \in DbType, NEW c \in Conn
    PROVE  DetachDisconn(d, c) \in DbType /\ DetachDisconn(d, c).status = d.status
<1>1. CASE d.timerfd[c] = 0
  BY <1>1 DEF DetachDisconn, DbType
<1>2. CASE d.timerfd[c] # 0
  BY ZenonT(60), <1>2, HasDescriptors, DetachDisconnFields
<1> QED BY <1>1, <1>2

LEMMA StatusDeinit ==
    ASSUME NEW d \in DbType, NEW c \in Conn
    PROVE  Only(d, Deinit(d, c), c) /\ Deinit(d, c).status[c] = "disconnected"
<1>1. Deinit(d, c) \in DbType /\ Deinit(d, c).status = [d.status EXCEPT ![c] = "disconnected"]
  <2>1. CASE d.fd[c] = 0
    BY <2>1 DEF Deinit, DbType
  <2>2. CASE d.fd[c] # 0
    BY ZenonT(60), <2>2, HasDescriptors, DeinitFields
  <2> QED BY <2>1, <2>2
<1> QED BY <1>1 DEF Only, DbType

LEMMA StatusClose ==
    ASSUME NEW d \in DbType, NEW c \in Conn
    PROVE  Only(d, Close(d, c), c)
<1>1. PICK a : a = DetachConn(DetachDisconn(d, c), c)
  OBVIOUS
<1>2. PICK b : b = Deinit(a, c)
  OBVIOUS
<1>3. a \in DbType /\ a.status = d.status
  BY <1>1, StatusDetachConn, StatusDetachDisconn
<1>4. b \in DbType /\ \A x \in Conn \ {c} : b.status[x] = d.status[x]
  BY <1>2, <1>3, StatusDeinit DEF Only
<1>5. Free(b, c) \in DbType /\ Free(b, c).status = [b.status EXCEPT ![c] = "free"]
  BY <1>4, FreeFields
<1>6. \A x \in Conn \ {c} : Free(b, c).status[x] = b.status[x]
  BY <1>4, <1>5 DEF DbType
<1> QED BY <1>1, <1>2, <1>4, <1>5, <1>6 DEF Close, Only

LEMMA StatusDeferredClose ==
    ASSUME NEW d \in DbType, NEW c \in Conn, NEW e \in DeferredClose(d, c)
    PROVE  Only(d, e, c) /\ e.status[c] = "disconnected"
<1>1. PICK a : a = Deinit(DetachConn(d, c), c)
  OBVIOUS
<1>2. Only(d, a, c) /\ a.status[c] = "disconnected"
  <2>1. PICK b : b = DetachConn(d, c)
    OBVIOUS
  <2>2. b \in DbType /\ b.status = d.status
    BY <2>1, StatusDetachConn
  <2>3. Only(b, a, c) /\ a.status[c] = "disconnected"
    BY <1>1, <2>1, <2>2, StatusDeinit
  <2> QED BY <2>2, <2>3 DEF Only
<1>3. PICK t \in Fd : e = AttachDisconn(a, c, t)
  BY <1>1 DEF DeferredClose, Lowest, Unused
<1>4. e \in DbType /\ e.status = a.status
  BY ZenonT(60), <1>2, <1>3, AttachDisconnFields DEF Only
<1> QED BY <1>2, <1>4 DEF Only

LEMMA StatusAttached ==
    ASSUME NEW d \in DbType, NEW c \in Conn, NEW f \in Fd, Result(c) \in Open
    PROVE  Only(d, Attached(d, c, f), c)
<1>1. PICK st \in Open : st = Result(c)
  OBVIOUS
<1>2. PICK b : b = [d EXCEPT !.fd[c] = f, !.status[c] = st, !.open = @ \cup {f}]
  OBVIOUS
<1>3. [d EXCEPT !.fd[c] = f, !.status[c] = st, !.open = @ \cup {f}] \in DbType
  BY DEF DbType, Descriptors
<1>4. b \in DbType /\ b.fd[c] = f /\ \A x \in Conn \ {c} : b.status[x] = d.status[x]
  BY <1>2, <1>3 DEF DbType
<1>5. AttachConn(b, c) \in DbType /\ AttachConn(b, c).status = b.status
  BY <1>4, AttachConnFields
<1> QED BY <1>1, <1>2, <1>4, <1>5 DEF Attached, WithSocket, Only

\* A connection keeps its status or is disconnected.
Drops(d, e) ==
    e \in DbType /\ \A x \in Conn : e.status[x] = d.status[x] \/ e.status[x] = "disconnected"

\* Another connection than c keeps its status, is disconnected or is a new one.
Spares(d, e, c) ==
    /\ e \in DbType
    /\ \A x \in Conn \ {c} : \/ d.status[x] = "free"
                           \/ e.status[x] = d.status[x] \/ e.status[x] = "disconnected"

LEMMA Sparing ==
    ASSUME NEW d, NEW e, NEW c, Drops(d, e) \/ Only(d, e, c)
    PROVE  Spares(d, e, c)
BY DEF Drops, Only, Spares

LEMMA StatusFailing ==
    ASSUME NEW d \in DbType, NEW e \in Failing(d)
    PROVE  Drops(d, e)
<1>1. CASE e = d
  BY <1>1 DEF Drops
<1>2. CASE e # d
  <2>1. PICK c \in Conn : e \in DeferredClose(d, c)
    BY <1>2 DEF Failing
  <2> QED BY <2>1, StatusDeferredClose DEF Only, Drops
<1> QED BY <1>1, <1>2

LEMMA StatusSending ==
    ASSUME NEW d \in DbType, NEW e \in AfterSending(d)
    PROVE  Drops(d, e)
<1>1. PICK b \in Failing(d) : e \in Failing(b)
  BY DEF AfterSending
<1>2. Drops(d, b)
  BY StatusFailing
<1>3. Drops(b, e)
  BY <1>1, <1>2, StatusFailing DEF Drops
<1> QED BY <1>2, <1>3 DEF Drops

LEMMA StatusTried ==
    ASSUME NEW d \in DbType, NEW c \in Conn, NEW f \in Fd
    PROVE  Only(d, Tried(ReadTimer(d, c), c, f), c)
<1>1. PICK e : e = ReadTimer(d, c)
  OBVIOUS
<1>2. e \in DbType /\ e.status = d.status
  BY <1>1 DEF ReadTimer, DbType
<1>3. Tried(e, c, f) \in DbType /\ Tried(e, c, f).status = e.status
  BY <1>2 DEF Tried, DbType
<1> QED BY <1>1, <1>2, <1>3 DEF Only

-----------------------------------------------------------------------------
(***************************************************************************)
(* Sequences of frames, and the events that are left.                      *)
(***************************************************************************)

LEMMA SeqPush ==
    ASSUME NEW S, NEW s \in Seq(S), NEW x \in S
    PROVE  /\ <<x>> \o s \in Seq(S)
           /\ Len(<<x>> \o s) = Len(s) + 1
           /\ (<<x>> \o s)[1] = x
           /\ \A i \in 2..Len(s) + 1 : (<<x>> \o s)[i] = s[i - 1]
<1>1. <<x>> \in Seq(S) /\ Len(<<x>>) = 1 /\ <<x>>[1] = x /\ Len(s) \in Nat
  OBVIOUS
<1>2. /\ <<x>> \o s \in Seq(S) /\ Len(<<x>> \o s) = 1 + Len(s)
      /\ \A i \in 1..1 + Len(s) : (<<x>> \o s)[i] = IF i <= 1 THEN <<x>>[i] ELSE s[i - 1]
  BY <1>1, ConcatProperties
<1> QED BY <1>1, <1>2

LEMMA SeqPop ==
    ASSUME NEW S, NEW s \in Seq(S), s # <<>>
    PROVE  /\ Tail(s) \in Seq(S) /\ Head(s) = s[1] /\ s[1] \in S
           /\ Len(s) \in Nat /\ Len(s) > 0 /\ Len(Tail(s)) = Len(s) - 1
           /\ \A i \in 1..Len(s) - 1 : Tail(s)[i] = s[i + 1]
<1>1. Len(s) \in Nat /\ Len(s) > 0 /\ s[1] \in S
  BY ElementOfSeq, EmptySeq
<1> QED BY <1>1, HeadTailProperties

\* Another frame on top.
LEMMA SeqSwap ==
    ASSUME NEW S, NEW s \in Seq(S), s # <<>>, NEW x \in S
    PROVE  /\ <<x>> \o Tail(s) \in Seq(S)
           /\ Len(<<x>> \o Tail(s)) = Len(s)
           /\ (<<x>> \o Tail(s))[1] = x
           /\ \A i \in 2..Len(s) : (<<x>> \o Tail(s))[i] = s[i]
<1>1. /\ Tail(s) \in Seq(S) /\ Len(s) \in Nat /\ Len(s) > 0 /\ Len(Tail(s)) = Len(s) - 1
      /\ \A i \in 1..Len(s) - 1 : Tail(s)[i] = s[i + 1]
  BY SeqPop
<1> DEFINE t == Tail(s)
<1>2. /\ <<x>> \o t \in Seq(S)
      /\ Len(<<x>> \o t) = Len(t) + 1
      /\ (<<x>> \o t)[1] = x
      /\ \A i \in 2..Len(t) + 1 : (<<x>> \o t)[i] = t[i - 1]
  BY <1>1, SeqPush
<1>3. \A i \in 2..Len(s) : i - 1 \in 1..Len(s) - 1 /\ (i - 1) + 1 = i
  BY <1>1
<1> QED BY <1>1, <1>2, <1>3

\* Events hold as long as their connections keep their status, are disconnected or
\* have a connection to accept.
LEMMA HoldsOn ==
    ASSUME NEW es, NEW d \in DbType, NEW e \in DbType, NEW p, NEW q, Holds(es, d, p),
           \A j \in 1..Len(es) :
              /\ e.status[es[j]] = d.status[es[j]] \/ e.status[es[j]] = "disconnected"
              /\ e.status[es[j]] = "server" /\ es[j] \in p => es[j] \in q
    PROVE  Holds(es, e, q)
BY DEF Holds

\* All of them, if the connections drop at most.
LEMMA StackOn ==
    ASSUME NEW s, NEW d \in DbType, NEW e, NEW p, NEW q, Stack(s, d, p), Drops(d, e),
           \A x \in p : e.status[x] = "server" => x \in q
    PROVE  Stack(s, e, q)
<1>1. ASSUME NEW i \in 1..Len(s) PROVE Kept(s[i], e, q)
  <2>1. SUFFICES ASSUME s[i].kind \in Loops, ~s[i].nested PROVE Holds(s[i].events, e, q)
    BY DEF Kept
  <2>2. Holds(s[i].events, d, p)
    BY <2>1 DEF Stack, Kept
  <2> QED BY ZenonT(60), <2>2, HoldsOn DEF Holds, Drops
<1> QED BY <1>1 DEF Stack

\* The rest of a batch, when the event of c has changed the status of c alone.
LEMMA RestHolds ==
    ASSUME NEW es \in Seq(Conn \cup {Gone}), es # <<>>, NEW d \in DbType, NEW e, NEW p, NEW q,
           Holds(es, d, p), NEW c, c = Head(es), Spares(d, e, c),
           \A x \in p \ {c} : e.status[x] = "server" => x \in q
    PROVE  Holds(Tail(es), e, q)
<1>1. /\ Tail(es) \in Seq(Conn \cup {Gone}) /\ c = es[1] /\ Len(es) \in Nat /\ Len(es) > 0
      /\ Len(Tail(es)) = Len(es) - 1
      /\ \A i \in 1..Len(es) - 1 : Tail(es)[i] = es[i + 1]
  BY SeqPop
<1>2. \A i \in 1..Len(es) - 1 : i + 1 \in 1..Len(es) /\ i + 1 # 1 /\ 1 \in 1..Len(es)
  BY <1>1
<1>3. \A i \in 1..Len(es) - 1 : /\ Tail(es)[i] # c /\ Tail(es)[i] \in Conn
                                /\ d.status[Tail(es)[i]] # "free"
                                /\ d.status[Tail(es)[i]] = "server" => Tail(es)[i] \in p
  BY <1>1, <1>2 DEF Holds
<1>4. \A i, j \in 1..Len(es) - 1 : i # j => Tail(es)[i] # Tail(es)[j]
  <2>1. \A i, j \in 1..Len(es) - 1 : i # j => i + 1 # j + 1
    BY <1>1
  <2> QED BY <1>1, <1>2, <2>1 DEF Holds
<1>5. \A i \in 1..Len(es) - 1 : \/ e.status[Tail(es)[i]] = d.status[Tail(es)[i]]
                                \/ e.status[Tail(es)[i]] = "disconnected"
  BY <1>3 DEF Spares
<1>6. \A i \in 1..Len(es) - 1 : /\ e.status[Tail(es)[i]] # "free"
                                /\ e.status[Tail(es)[i]] = "server" => Tail(es)[i] \in q
  BY <1>3, <1>5
<1> QED BY <1>1, <1>3, <1>4, <1>6 DEF Holds

-----------------------------------------------------------------------------
(***************************************************************************)
(* What becomes of the stack.                                              *)
(***************************************************************************)

LEMMA StackPop ==
    ASSUME NEW s, s # <<>>, NEW d, NEW p, Stack(s, d, p)
    PROVE  Stack(Tail(s), d, p)
<1> DEFINE t == Tail(s)
<1>1. /\ t \in Seq(Frame) /\ Len(s) \in Nat /\ Len(s) > 0 /\ Len(t) = Len(s) - 1
      /\ \A i \in 1..Len(s) - 1 : t[i] = s[i + 1]
  BY SeqPop DEF Stack
<1> HIDE DEF t
<1>2. \A i \in 1..Len(t) : i + 1 \in 1..Len(s) /\ Kept(t[i], d, p)
  BY <1>1 DEF Stack
<1>3. \A i \in 2..Len(t) : i + 1 \in 2..Len(s) /\ i + 1 > 2 /\ t[i].kind \in Loops /\ t[i].nested
  BY SMTT(60), <1>1 DEF Stack
<1> QED BY <1>1, <1>2, <1>3 DEF Stack, t

\* The innermost loop changes, and the connections do: the others have been told.
LEMMA StackTop ==
    ASSUME NEW s, s # <<>>, NEW d, NEW p, Stack(s, d, p), s[1].kind \in Loops,
           NEW f \in Frame, f.kind \in Loops, NEW e, NEW q, Kept(f, e, q)
    PROVE  Stack(<<f>> \o Tail(s), e, q)
<1> DEFINE t == <<f>> \o Tail(s)
<1>1. /\ t \in Seq(Frame) /\ Len(t) = Len(s) /\ t[1] = f
      /\ \A i \in 2..Len(s) : t[i] = s[i]
  BY SeqSwap DEF Stack
<1> HIDE DEF t
<1>2. Len(s) \in Nat
  BY DEF Stack
<1>3. \A i \in 2..Len(s) : t[i].kind \in Loops /\ t[i].nested
  BY <1>1 DEF Stack, Loops
<1>4. \A i \in 1..Len(s) : i = 1 \/ i \in 2..Len(s)
  BY <1>2
<1>5. \A i \in 1..Len(s) : Kept(t[i], e, q)
  BY <1>1, <1>3, <1>4 DEF Kept
<1> QED BY <1>1, <1>3, <1>5 DEF Stack, t

\* The connections of the innermost loop's next event.
LEMMA StackNext ==
    ASSUME NEW s, s # <<>>, NEW d \in DbType, NEW p, Stack(s, d, p), s[1].kind \in Loops,
           s[1].events # <<>>, NEW c, c = Head(s[1].events), NEW e, Spares(d, e, c),
           NEW q, \A x \in p \ {c} : e.status[x] = "server" => x \in q
    PROVE  Stack(<<[s[1] EXCEPT !.events = Tail(@)]>> \o Tail(s), e, q)
<1> DEFINE es == s[1].events
           f == [s[1] EXCEPT !.events = Tail(es)]
<1>1. s[1] \in Frame /\ Kept(s[1], d, p)
  <2>1. s \in Seq(Frame) /\ Len(s) \in Nat /\ Len(s) > 0
    BY SeqPop DEF Stack
  <2> QED BY <2>1 DEF Stack
<1>2. es \in Seq(Conn \cup {Gone}) /\ es # <<>>
  BY <1>1 DEF Frame
<1>3. Tail(es) \in Seq(Conn \cup {Gone})
  BY <1>2, SeqPop
<1>4. f \in Frame /\ f.kind = s[1].kind /\ f.nested = s[1].nested /\ f.events = Tail(es)
  BY <1>1, <1>3 DEF Frame
<1>5. ASSUME ~s[1].nested PROVE Holds(Tail(es), e, q)
  <2>1. Holds(es, d, p)
    BY <1>1, <1>5 DEF Kept
  <2> HIDE DEF es
  <2>2. c = Head(es)
    BY DEF es
  <2> QED BY <1>2, <2>1, <2>2, RestHolds
<1>6. Kept(f, e, q)
  BY <1>4, <1>5 DEF Kept
<1>7. Stack(<<f>> \o Tail(s), e, q)
  <2> HIDE DEF f
  <2> QED BY <1>4, <1>6, StackTop
<1> QED BY <1>7

\* Events that hold are not touched when what is freed is forgotten.
Marked(es, e) == [j \in DOMAIN es |-> IF es[j] # Gone /\ e.status[es[j]] = "free" THEN Gone ELSE es[j]]

LEMMA StackForgets ==
    ASSUME NEW s, NEW e, NEW q, Stack(s, e, q)
    PROVE  Stack(Forgotten(s, e), e, q)
<1> DEFINE g == [i \in DOMAIN s |-> [s[i] EXCEPT !.events = Marked(s[i].events, e)]]
<1>1. Forgotten(s, e) = g
  BY DEF Forgotten, Marked
<1>2. s \in Seq(Frame) /\ DOMAIN s = 1..Len(s) /\ Len(s) \in Nat
  BY DEF Stack
<1>3. ASSUME NEW i \in 1..Len(s)
      PROVE  g[i] \in Frame /\ g[i].kind = s[i].kind /\ g[i].nested = s[i].nested /\ Kept(g[i], e, q)
  <2> DEFINE es == s[i].events
  <2>1. s[i] \in Frame /\ es \in Seq(Conn \cup {Gone}) /\ Kept(s[i], e, q)
    <3>1. s[i] \in Frame
      BY <1>2, <1>3, ElementOfSeq
    <3>2. Kept(s[i], e, q)
      BY <1>3 DEF Stack
    <3> QED BY <3>1, <3>2 DEF Frame
  <2>2. Marked(es, e) \in Seq(Conn \cup {Gone})
    <3> HIDE DEF es
    <3>1. es \in [1..Len(es) -> Conn \cup {Gone}] /\ Len(es) \in Nat
      BY <2>1
    <3>2. Marked(es, e) \in [1..Len(es) -> Conn \cup {Gone}]
      BY <3>1 DEF Marked
    <3> QED BY <3>1, <3>2
  <2>3. g[i] = [s[i] EXCEPT !.events = Marked(es, e)]
    BY <1>2, <1>3
  <2>4. /\ g[i] \in Frame /\ g[i].kind = s[i].kind /\ g[i].nested = s[i].nested
        /\ g[i].events = Marked(es, e)
    <3> HIDE DEF g
    <3> QED BY <2>1, <2>2, <2>3 DEF Frame
  <2>5. ASSUME Holds(es, e, q) PROVE Marked(es, e) = es
    <3> HIDE DEF es
    <3>1. DOMAIN es = 1..Len(es) /\ es = [j \in DOMAIN es |-> es[j]]
      BY <2>1
    <3>2. \A j \in DOMAIN es : ~(es[j] # Gone /\ e.status[es[j]] = "free")
      BY <2>5, <3>1 DEF Holds
    <3> QED BY <3>1, <3>2 DEF Marked
  <2> HIDE DEF g
  <2> QED BY <2>1, <2>4, <2>5 DEF Kept
<1>4. g \in Seq(Frame) /\ Len(g) = Len(s)
  <2>1. g \in [1..Len(s) -> Frame]
    BY <1>2, <1>3
  <2> HIDE DEF g
  <2> QED BY <1>2, <2>1
<1> HIDE DEF g
<1>5. Stack(g, e, q)
  <2>1. \A i \in 2..Len(s) : 1 \in 1..Len(s) /\ i \in 1..Len(s)
    BY <1>2
  <2>2. \A i \in 2..Len(s) : g[i].kind \in Loops /\ (i > 2 \/ g[1].kind # "open" => g[i].nested)
    BY <1>3, <2>1 DEF Stack
  <2> QED BY <1>3, <1>4, <2>2 DEF Stack
<1> QED BY <1>1, <1>5

\* The opening of a connection comes on top of the loops.
LEMMA StackOpens ==
    ASSUME NEW s, NEW d, NEW p, Stack(s, d, p), s # <<>> => s[1].kind \in Loops, NEW c \in Conn
    PROVE  Stack(<<[kind |-> "open", events |-> <<c>>, nested |-> FALSE]>> \o s, d, p)
<1> DEFINE f == [kind |-> "open", events |-> <<c>>, nested |-> FALSE]
           t == <<f>> \o s
<1>1. f \in Frame /\ f.kind = "open"
  BY DEF Frame
<1> HIDE DEF f
<1>2. s \in Seq(Frame) /\ Len(s) \in Nat /\ (Len(s) > 0 => s # <<>>)
  BY DEF Stack
<1>3. t \in Seq(Frame) /\ Len(t) = Len(s) + 1 /\ t[1] = f /\ \A i \in 2..Len(s) + 1 : t[i] = s[i - 1]
  BY <1>1, <1>2, SeqPush
<1> HIDE DEF t
<1>4. \A i \in 1..Len(t) : Kept(t[i], d, p)
  <2>1. \A i \in 1..Len(t) : i = 1 \/ (i \in 2..Len(s) + 1 /\ i - 1 \in 1..Len(s))
    BY <1>2, <1>3
  <2>2. Kept(f, d, p)
    BY <1>1 DEF Kept, Loops
  <2> QED BY <1>3, <2>1, <2>2 DEF Stack
<1>5. \A i \in 2..Len(t) : t[i].kind \in Loops
  <2>1. \A i \in 2..Len(t) : i - 1 = 1 \/ i - 1 \in 2..Len(s)
    BY <1>2, <1>3
  <2> QED BY SMTT(60), <1>2, <1>3, <2>1 DEF Stack
<1>6. \A i \in 3..Len(t) : t[i].nested
  <2>1. \A i \in 3..Len(t) : i - 1 \in 2..Len(s) /\ i \in 2..Len(s) + 1
    BY <1>2, <1>3
  <2> QED BY <1>2, <1>3, <2>1 DEF Stack, Loops
<1>7. \A i \in 2..Len(t) : i > 2 \/ t[1].kind # "open" => i \in 3..Len(t)
  BY <1>1, <1>2, <1>3
<1> QED BY <1>3, <1>4, <1>5, <1>6, <1>7 DEF Stack, t, f

\* A wait begins within loops, which are told.
LEMMA StackAwaits ==
    ASSUME NEW s, NEW d, NEW p, Stack(s, d, p), s # <<>> => s[1].kind \in Loops
    PROVE  Stack(Awaiting(s), d, p)
<1>1. CASE Len(s) > MaxDepth
  BY <1>1 DEF Awaiting
<1>2. CASE ~(Len(s) > MaxDepth)
  <2> DEFINE u == [i \in DOMAIN s |-> [s[i] EXCEPT !.nested = TRUE]]
             t == <<Wait>> \o u
  <2>1. Awaiting(s) = t
    BY <1>2 DEF Awaiting
  <2>2. s \in Seq(Frame) /\ DOMAIN s = 1..Len(s) /\ Len(s) \in Nat /\ (Len(s) > 0 => s # <<>>)
    BY DEF Stack
  <2>3. ASSUME NEW i \in 1..Len(s)
        PROVE  u[i] \in Frame /\ u[i].nested /\ u[i].kind \in Loops
    <3>1. s[i] \in Frame /\ s[i].kind \in Loops
      <4>1. i = 1 \/ i \in 2..Len(s)
        BY <2>2, <2>3
      <4> QED BY <4>1, <2>2, <2>3 DEF Stack
    <3>2. u[i] = [s[i] EXCEPT !.nested = TRUE]
      BY <2>2, <2>3
    <3> HIDE DEF u
    <3> QED BY <3>1, <3>2 DEF Frame
  <2>4. u \in Seq(Frame) /\ Len(u) = Len(s)
    <3>1. u \in [1..Len(s) -> Frame]
      BY <2>2, <2>3
    <3> HIDE DEF u
    <3> QED BY <2>2, <3>1
  <2>5. Wait \in Frame /\ Wait.kind \in Loops /\ Kept(Wait, d, p)
    BY DEF Wait, Frame, Loops, Kept, Holds
  <2> HIDE DEF u
  <2>6. t \in Seq(Frame) /\ Len(t) = Len(s) + 1 /\ t[1] = Wait /\ \A i \in 2..Len(s) + 1 : t[i] = u[i - 1]
    BY <2>4, <2>5, SeqPush
  <2> HIDE DEF t
  <2>7. \A i \in 2..Len(t) : t[i].kind \in Loops /\ t[i].nested
    <3>1. \A i \in 2..Len(t) : i - 1 \in 1..Len(s) /\ i \in 2..Len(s) + 1
      BY <2>2, <2>6
    <3> QED BY <2>3, <2>6, <3>1
  <2>8. \A i \in 1..Len(t) : Kept(t[i], d, p)
    <3>1. \A i \in 1..Len(t) : i = 1 \/ i \in 2..Len(t)
      BY <2>2, <2>6
    <3> QED BY <3>1, <2>5, <2>6, <2>7 DEF Kept
  <2> QED BY <2>1, <2>6, <2>7, <2>8 DEF Stack
<1> QED BY <1>1, <1>2

-----------------------------------------------------------------------------
(***************************************************************************)
(* The steps.                                                              *)
(***************************************************************************)

EventInv == IInv /\ Stacked

LEMMA StackEmpty == \A d, p : Stack(<<>>, d, p)
BY DEF Stack

LEMMA Typed == IInv => db \in DbType
BY DEF IInv, Sound

\* Without frames there is nothing to close.
LEMMA Framed ==
    ASSUME Stacked, frames = <<>> \/ (frames # <<>> /\ Top.kind # "close")
    PROVE  Stack(frames, db, pending) /\ (frames # <<>> => frames[1] = Top /\ Top \in Frame)
<1>1. Stack(frames, db, pending)
  <2>1. ASSUME NEW f, frames = <<f>>, Shut(f) PROVE FALSE
    BY <2>1 DEF Shut, Top
  <2> QED BY <2>1 DEF Stacked
<1> QED BY <1>1, SeqPop DEF Stack, Top

\* Other connections to close.
LEMMA ShutStays ==
    ASSUME NEW f, Shut(f), NEW b
    PROVE  Shut([f EXCEPT !.events = b]) /\ Shut([f EXCEPT !.events = b, !.nested = FALSE])
BY DEF Shut

\* The innermost loop takes its next event, of c.
LEMMA Advances ==
    ASSUME EventInv, NEW c, NEW st, Event(c, st),
           Spares(db, db', c),
           \A x \in pending \ {c} : db'.status[x] = "server" => x \in pending'
    PROVE  Stack(Advanced, db', pending') /\ Advanced # <<>> /\ Advanced[1].kind \in Loops
<1>1. frames # <<>> /\ Top.kind \in Loops /\ Top.events # <<>> /\ Head(Top.events) = c
  BY DEF Event
<1>2. Stack(frames, db, pending) /\ frames[1] = Top /\ Top \in Frame
  BY <1>1, Framed DEF EventInv, Loops
<1>3. Advanced = <<[frames[1] EXCEPT !.events = Tail(@)]>> \o Tail(frames)
  BY <1>2 DEF Advanced
<1>4. Stack(Advanced, db', pending')
  BY <1>1, <1>2, <1>3, Typed, StackNext DEF EventInv
<1>5. Advanced # <<>> /\ Advanced[1].kind \in Loops
  <2> DEFINE f == [Top EXCEPT !.events = Tail(@)]
  <2>1. Tail(Top.events) \in Seq(Conn \cup {Gone})
    <3>1. Top.events \in Seq(Conn \cup {Gone})
      BY <1>2 DEF Frame
    <3> QED BY <1>1, <3>1, SeqPop
  <2>2. f \in Frame /\ f.kind = Top.kind
    BY <1>2, <2>1 DEF Frame
  <2>3. Advanced = <<f>> \o Tail(frames)
    BY DEF Advanced
  <2> HIDE DEF f
  <2>4. Advanced[1] = f /\ Len(Advanced) = Len(frames) /\ Len(frames) > 0
    BY <1>1, <1>2, <2>2, <2>3, SeqSwap, SeqPop DEF Stack
  <2> QED BY <1>1, <2>2, <2>4
<1> QED BY <1>4, <1>5

LEMMA ConnectKeeps == ASSUME EventInv, NEW m \in Major, Connect(m) PROVE Stacked'
<1>1. frames = <<>> /\ m \in Conn
  BY ConnAssumption DEF Connect
<1>2. CASE frames' = frames
  BY <1>1, <1>2, StackEmpty DEF Stacked
<1>3. CASE frames' # frames
  <2>1. frames' = <<[kind |-> "open", events |-> <<m>>, nested |-> FALSE]>> \o frames
    BY <1>3 DEF Connect, Opened
  <2> QED BY <1>1, <2>1, StackEmpty, StackOpens DEF Stacked
<1> QED BY <1>2, <1>3

LEMMA CloseKeeps == ASSUME EventInv, NEW c \in Conn, CloseNext(c) PROVE Stacked'
<1>1. PICK f : frames = <<f>> /\ Shut(f)
  <2>1. frames # <<>> /\ Top.kind = "close"
    BY DEF CloseNext
  <2>2. ~Stack(frames, db, pending)
    <3>1. ASSUME frames \in Seq(Frame) PROVE FALSE
      <4>1. Top \in Frame
        BY <2>1, <3>1, SeqPop DEF Top
      <4> QED BY <2>1, <4>1 DEF Frame, Loops
    <3> QED BY <3>1 DEF Stack
  <2> QED BY <2>2 DEF EventInv, Stacked
<1>2. Tail(frames) = <<>> /\ Top = f
  BY <1>1 DEF Top
<1>3. \E g : Advanced = <<g>> /\ Shut(g)
  <2> DEFINE g == [f EXCEPT !.events = Tail(f.events)]
  <2>1. Shut(g)
    BY <1>1, ShutStays
  <2>2. Advanced = <<g>> \o <<>>
    BY <1>2 DEF Advanced
  <2> HIDE DEF g
  <2>3. <<g>> \o <<>> = <<g>>
    OBVIOUS
  <2> QED BY <2>1, <2>2, <2>3
<1> QED BY <1>2, <1>3, StackEmpty DEF CloseNext, Stacked

\* A batch holds when it is taken.
LEMMA PollKeeps == ASSUME EventInv, NEW c \in Conn, Poll(c) PROVE Stacked'
<1>1. PICK b \in Batches(c) :
        frames' = IF frames = <<>> THEN <<[kind |-> "serve", events |-> b, nested |-> FALSE]>>
                  ELSE <<[Top EXCEPT !.events = b, !.nested = FALSE]>> \o Tail(frames)
  BY DEF Poll
<1>2. b \in Seq(Conn) /\ Holds(b, db, pending)
  <2>1. PICK n \in 0..MaxBatch : b \in [1..n -> {x \in Conn : Ready(x)}]
    BY <1>1 DEF Batches, SeqOf
  <2>2. n \in Nat /\ DOMAIN b = 1..n /\ IsInjective(b)
    BY <1>1, <2>1, LoopAssumption DEF Batches
  <2>3. b \in Seq(Conn) /\ Len(b) = n
    BY <2>1, <2>2
  <2>4. ASSUME NEW x \in Conn, Ready(x)
        PROVE  db.status[x] # "free" /\ (db.status[x] = "server" => x \in pending)
    <3>1. PICK f \in Fd : db.epoll[f] = x
      BY <2>4 DEF Ready, Watched
    <3>2. f # 0 /\ (db.fd[x] = f \/ db.timerfd[x] = f)
      BY <3>1, FdAssumption, ConnAssumption DEF EventInv, IInv, Sound, ConsistentIn
    <3>3. db.status[x] # "free"
      BY <3>2 DEF EventInv, IInv, Sound, ConsistentIn, Open
    <3> QED BY <2>4, <3>3 DEF Ready
  <2>5. \A j \in 1..n : b[j] \in Conn /\ Ready(b[j])
    BY <2>1
  <2> QED BY <2>2, <2>3, <2>4, <2>5 DEF Holds, IsInjective
<1>3. b \in Seq(Conn \cup {Gone})
  BY <1>2, SeqMonotonic
<1>4. UNCHANGED <<db, pending>>
  BY DEF Poll, outside
<1>5. CASE frames = <<>>
  <2> DEFINE f == [kind |-> "serve", events |-> b, nested |-> FALSE]
  <2>1. f \in Frame /\ Kept(f, db, pending)
    BY <1>2, <1>3 DEF Frame, Loops, Kept
  <2> HIDE DEF f
  <2>2. frames' = <<f>>
    BY <1>1, <1>5 DEF f
  <2>3. <<f>> \in Seq(Frame) /\ Len(<<f>>) = 1 /\ <<f>>[1] = f
    BY <2>1
  <2>4. Stack(<<f>>, db, pending)
    BY <2>1, <2>3 DEF Stack
  <2> QED BY <1>4, <2>2, <2>4 DEF Stacked
<1>6. CASE frames # <<>>
  <2> DEFINE f == [Top EXCEPT !.events = b, !.nested = FALSE]
  <2>1. frames' = <<f>> \o Tail(frames)
    BY <1>1, <1>6
  <2>2. CASE Top.kind = "close"
    <3>1. PICK g : frames = <<g>> /\ Shut(g)
      <4>1. ASSUME frames \in Seq(Frame) PROVE FALSE
        <5>1. Top \in Frame
          BY <1>6, <4>1, SeqPop DEF Top
        <5> QED BY <2>2, <5>1 DEF Frame, Loops
      <4> QED BY <4>1 DEF EventInv, Stacked, Stack
    <3>2. Top = g /\ Tail(frames) = <<>>
      BY <3>1 DEF Top
    <3>3. Shut(f)
      BY <3>1, <3>2, ShutStays
    <3> HIDE DEF f
    <3>4. <<f>> \o <<>> = <<f>>
      OBVIOUS
    <3> QED BY <2>1, <3>2, <3>3, <3>4 DEF Stacked
  <2>3. CASE Top.kind # "close"
    <3>1. Stack(frames, db, pending) /\ frames[1] = Top /\ Top \in Frame
      BY <1>6, <2>3, Framed DEF EventInv
    <3>2. f \in Frame /\ f.kind = Top.kind /\ Kept(f, db, pending)
      BY <1>2, <1>3, <3>1 DEF Frame, Kept
    <3> HIDE DEF f
    <3>3. Stack(<<f>> \o Tail(frames), db, pending)
      <4>1. CASE Top.kind \in Loops
        BY <1>6, <3>1, <3>2, <4>1, StackTop
      <4>2. CASE Top.kind \notin Loops
        <5> DEFINE t == <<f>> \o Tail(frames)
        <5>1. /\ t \in Seq(Frame) /\ Len(t) = Len(frames) /\ t[1] = f
              /\ \A i \in 2..Len(frames) : t[i] = frames[i]
          BY <1>6, <3>1, <3>2, SeqSwap DEF Stack
        <5> HIDE DEF t
        <5>2. \A i \in 1..Len(frames) : i = 1 \/ i \in 2..Len(frames)
          BY <3>1 DEF Stack
        <5> QED BY <3>1, <3>2, <5>1, <5>2 DEF Stack, t
      <4> QED BY <4>1, <4>2
    <3> QED BY <1>4, <2>1, <3>3 DEF Stacked
  <2> QED BY <2>2, <2>3
<1> QED BY <1>5, <1>6

LEMMA LeaveKeeps == ASSUME EventInv, Leave PROVE Stacked'
<1>1. frames # <<>> /\ frames' = Tail(frames) /\ UNCHANGED <<db, pending>>
  BY DEF Leave, outside
<1>2. ASSUME NEW f, frames = <<f>> PROVE frames' = <<>>
  BY <1>1, <1>2
<1>3. ASSUME Stack(frames, db, pending) PROVE Stack(frames', db, pending)
  BY <1>1, <1>3, StackPop
<1> QED BY <1>1, <1>2, <1>3, StackEmpty DEF EventInv, Stacked

LEMMA SendInitKeeps == ASSUME EventInv, NEW c \in Conn, SendInit(c) PROVE Stacked'
<1>1. frames # <<>> /\ Top.kind = "open" /\ UNCHANGED pending
  BY DEF SendInit, outside
<1>2. Stack(frames, db, pending) /\ frames[1].kind = "open"
  BY <1>1, Framed DEF EventInv
<1>3. Drops(db, db')
  <2>1. db \in DbType
    BY Typed DEF EventInv
  <2>2. CASE db' = db
    BY <2>1, <2>2 DEF Drops
  <2>3. CASE db' \in DeferredClose(db, c)
    BY <2>1, <2>3, StatusDeferredClose DEF Drops, Only
  <2> QED BY <2>2, <2>3 DEF SendInit
<1> DEFINE t == Tail(frames)
<1>4. Stack(t, db', pending')
  <2>1. Stack(t, db, pending)
    BY <1>1, <1>2, StackPop
  <2> HIDE DEF t
  <2> QED BY <1>1, <1>3, <2>1, Typed, StackOn DEF EventInv
<1>5. t # <<>> => t[1].kind \in Loops
  <2>1. /\ Len(frames) \in Nat /\ Len(frames) > 0 /\ Len(t) = Len(frames) - 1 /\ t \in Seq(Frame)
        /\ \A i \in 1..Len(frames) - 1 : t[i] = frames[i + 1]
    BY <1>1, <1>2, SeqPop DEF Stack
  <2> HIDE DEF t
  <2>2. t # <<>> => Len(t) > 0
    BY <2>1
  <2>3. t # <<>> => 1 \in 1..Len(frames) - 1 /\ 1 + 1 = 2 /\ 2 \in 2..Len(frames)
    BY <2>1, <2>2
  <2>4. \A i \in 2..Len(frames) : frames[i].kind \in Loops
    BY <1>2 DEF Stack
  <2> QED BY <2>1, <2>3, <2>4
<1>6. frames' = t \/ frames' = Awaiting(t)
  BY DEF SendInit
<1> HIDE DEF t
<1> QED BY <1>4, <1>5, <1>6, StackAwaits DEF Stacked

LEMMA ReopenKeeps == ASSUME EventInv, NEW c \in Conn, Reopen(c) PROVE Stacked'
<1>1. Event(c, "disconnected") /\ pending' = {s \in pending : db'.status[s] = "server"}
  BY DEF Reopen, Settled
<1>2. \A x \in pending \ {c} : db'.status[x] = "server" => x \in pending'
  BY <1>1
<1>3. db \in DbType
  BY Typed DEF EventInv
<1>4. ASSUME Only(db, db', c), frames' = Advanced PROVE Stacked'
  BY <1>1, <1>2, <1>4, Sparing, Advances DEF Stacked
<1>5. ASSUME NEW f \in Fd, Result(c) \in Open,
             Opened(c, Attached(DetachDisconn(db, c), c, f), Advanced)
      PROVE  Stacked'
  <2>2. Only(db, db', c)
    <3>1. PICK d : d = DetachDisconn(db, c)
      OBVIOUS
    <3>2. d \in DbType /\ d.status = db.status
      BY <1>3, <3>1, StatusDetachDisconn
    <3>3. Only(d, Attached(d, c, f), c)
      BY <1>5, <3>2, StatusAttached
    <3> QED BY <1>5, <3>1, <3>2, <3>3 DEF Opened, Only
  <2>3. Stack(Advanced, db', pending') /\ Advanced[1].kind \in Loops
    BY <1>1, <1>2, <2>2, Sparing, Advances
  <2>4. frames' = <<[kind |-> "open", events |-> <<c>>, nested |-> FALSE]>> \o Advanced
    BY <1>5 DEF Opened
  <2> QED BY <2>3, <2>4, StackOpens DEF Stacked
<1>6. CASE db' = ReadTimer(db, c) /\ frames' = Advanced
  BY <1>3, <1>4, <1>6 DEF ReadTimer, Only, DbType
<1>7. CASE \E f \in Fd : db' = Tried(ReadTimer(db, c), c, f) /\ frames' = Advanced
  BY <1>3, <1>4, <1>7, StatusTried
<1> QED BY <1>5, <1>6, <1>7 DEF Reopen, Lowest, Unused

LEMMA AcceptKeeps == ASSUME EventInv, NEW s \in Conn, Accept(s) PROVE Stacked'
<1>1. PICK c \in Spare, f \in Lowest(db) :
        db' = AttachConn([WithSocket(db, c, f, "accepted")
                             EXCEPT !.address[c] = IF s \in Tcp THEN c ELSE s], c)
  BY DEF Accept
<1> DEFINE new == [WithSocket(db, c, f, "accepted")
                      EXCEPT !.address[c] = IF s \in Tcp THEN c ELSE s]
<1>2. c \in Conn /\ f \in Fd /\ db \in DbType /\ db.status[c] = "free"
  BY <1>1, Typed DEF Spare, Lowest, Unused, EventInv
<1>3. new \in DbType /\ new.fd[c] = f /\ \A x \in Conn \ {c} : new.status[x] = db.status[x]
  <2>1. PICK w : w = WithSocket(db, c, f, "accepted")
    OBVIOUS
  <2>2. w \in DbType /\ w.fd[c] = f /\ \A x \in Conn \ {c} : w.status[x] = db.status[x]
    BY <1>2, <2>1 DEF WithSocket, DbType, Descriptors, Open
  <2>3. ASSUME NEW a \in Conn
        PROVE  /\ [w EXCEPT !.address[c] = a] \in DbType
               /\ [w EXCEPT !.address[c] = a].fd = w.fd
               /\ [w EXCEPT !.address[c] = a].status = w.status
    BY <1>2, <2>2 DEF DbType
  <2> QED BY <1>2, <2>1, <2>2, <2>3
<1>4. PICK b : b = new /\ db' = AttachConn(b, c)
  BY <1>1
<1> HIDE DEF new
<1>5. b \in DbType /\ b.fd[c] = f /\ \A x \in Conn \ {c} : b.status[x] = db.status[x]
  BY <1>3, <1>4
<1>6. db' \in DbType /\ \A x \in Conn \ {c} : db'.status[x] = db.status[x]
  BY ZenonT(60), <1>2, <1>4, <1>5, AttachConnFields
<1>7. Spares(db, db', s)
  BY <1>2, <1>6 DEF Spares
<1>8. Event(s, "server") /\ pending' = pending \ {s} /\ frames' = Advanced
  BY DEF Accept
<1>9. Stack(Advanced, db', pending')
  BY <1>7, <1>8, Advances
<1> QED BY <1>8, <1>9 DEF Stacked

LEMMA AcceptFailsKeeps == ASSUME EventInv, NEW s \in Conn, AcceptFails(s) PROVE Stacked'
<1>1. /\ Event(s, "server") /\ db' \in DeferredClose(db, s)
      /\ pending' = {x \in pending : db'.status[x] = "server"}
  BY DEF AcceptFails, Settled
<1>2. Only(db, db', s)
  BY <1>1, Typed, StatusDeferredClose DEF EventInv
<1>3. CASE frames' = Advanced
  BY <1>1, <1>2, <1>3, Sparing, Advances DEF Stacked
<1>4. CASE frames' # Advanced
  <2> DEFINE f == [Top EXCEPT !.events = <<>>]
  <2>1. frames' = <<f>> \o Tail(frames)
    BY <1>4 DEF AcceptFails
  <2>2. frames # <<>> /\ Top.kind \in Loops
    BY <1>1 DEF Event
  <2>3. Stack(frames, db, pending) /\ frames[1] = Top /\ Top \in Frame
    BY <2>2, Framed DEF EventInv, Loops
  <2>4. f \in Frame /\ f.kind \in Loops /\ f.events = <<>>
    <3>1. <<>> \in Seq(Conn \cup {Gone})
      OBVIOUS
    <3> QED BY <2>2, <2>3, <3>1 DEF Frame
  <2> HIDE DEF f
  <2>5. Kept(f, db', pending')
    BY <2>4 DEF Kept, Holds
  <2> QED BY <2>1, <2>2, <2>3, <2>4, <2>5, StackTop DEF Stacked
<1> QED BY <1>3, <1>4

LEMMA RecvKeeps == ASSUME EventInv, NEW c \in Conn, Recv(c) PROVE Stacked'
<1>1. PICK st : Event(c, st)
  BY DEF Recv
<1>2. pending' = pending /\ db \in DbType
  BY Typed DEF Recv, outside, EventInv
<1>3. Drops(db, db')
  BY <1>2, StatusSending, StatusDeferredClose DEF Recv, Only, Drops
<1>4. CASE frames' = Forgotten(Advanced, db')
  <2>1. Stack(Advanced, db', pending')
    BY <1>1, <1>2, <1>3, Sparing, Advances
  <2> QED BY <1>4, <2>1, StackForgets DEF Stacked
<1>5. CASE frames' = Forgotten(Tail(frames), db')
  <2>1. frames # <<>> /\ Top.kind \in Loops
    BY <1>1 DEF Event
  <2>2. Stack(frames, db, pending)
    BY <2>1, Framed DEF EventInv, Loops
  <2>3. Stack(Tail(frames), db, pending)
    BY <2>1, <2>2, StackPop
  <2>4. Stack(Tail(frames), db', pending')
    BY <1>2, <1>3, <2>3, StackOn
  <2> QED BY <1>5, <2>4, StackForgets DEF Stacked
<1> QED BY <1>4, <1>5 DEF Recv

LEMMA CloseAcceptedKeeps == ASSUME EventInv, NEW c \in Conn, CloseAccepted(c) PROVE Stacked'
<1>1. /\ Event(c, "disconnected") /\ db' = Close(db, c) /\ pending' = pending
      /\ frames' = Forgotten(Advanced, db')
  BY DEF CloseAccepted, outside
<1>2. Only(db, db', c)
  BY <1>1, Typed, StatusClose DEF EventInv
<1>3. Stack(Advanced, db', pending')
  BY <1>1, <1>2, Sparing, Advances
<1> QED BY <1>1, <1>3, StackForgets DEF Stacked

\* Nothing but the frames is left alone by the other processes; they do no harm.
LEMMA PeersKeep ==
    ASSUME EventInv, NEW m \in Major, PeerUp(m) \/ PeerDown(m) \/ PeerConnects(m)
    PROVE  Stacked'
<1>1. UNCHANGED <<db, frames>> /\ pending \subseteq pending'
  BY DEF PeerUp, PeerDown, PeerConnects
<1>2. ASSUME Stack(frames, db, pending) PROVE Stack(frames, db, pending')
  <2>1. Drops(db, db)
    BY Typed DEF EventInv, Drops
  <2> QED BY <1>1, <1>2, <2>1, Typed, StackOn DEF EventInv
<1> QED BY <1>1, <1>2 DEF EventInv, Stacked

LEMMA WriteKeeps == ASSUME EventInv, Write \/ SyncAll PROVE Stacked'
<1>1. frames = <<>>
  BY DEF Write, SyncAll
<1>2. CASE Write
  BY <1>1, <1>2, StackEmpty DEF Write, Stacked
<1>3. CASE SyncAll
  <2>1. Wait \in Frame /\ Wait.events = <<>>
    BY DEF Wait, Frame, Loops
  <2>2. <<Wait>> \in Seq(Frame) /\ Len(<<Wait>>) = 1 /\ <<Wait>>[1] = Wait
    BY <2>1
  <2>3. Stack(<<Wait>>, db', pending')
    BY <2>1, <2>2 DEF Stack, Kept, Holds
  <2> QED BY <1>3, <2>3 DEF SyncAll, Stacked
<1> QED BY <1>2, <1>3

LEMMA NextStacked == EventInv /\ [Next]_vars => Stacked'
<1> SUFFICES ASSUME EventInv, [Next]_vars PROVE Stacked'
  OBVIOUS
<1>1. ASSUME NEW m \in Major, Connect(m) PROVE Stacked'
  BY <1>1, ConnectKeeps
<1>2. ASSUME NEW m \in Conn, Disconnect(m) PROVE Stacked'
  <2>1. PICK cs : frames' = <<[kind |-> "close", events |-> cs, nested |-> FALSE]>>
    BY <1>2 DEF Disconnect
  <2>2. Shut([kind |-> "close", events |-> cs, nested |-> FALSE])
    BY DEF Shut
  <2> QED BY <2>1, <2>2 DEF Stacked
<1>3. ASSUME NEW m \in Major, PeerUp(m) \/ PeerDown(m) \/ PeerConnects(m) PROVE Stacked'
  BY <1>3, PeersKeep
<1>4. CASE Write \/ SyncAll
  BY <1>4, WriteKeeps
<1>5. CASE Leave
  BY <1>5, LeaveKeeps
<1>6. ASSUME NEW c \in Conn, Poll(c) PROVE Stacked'
  BY <1>6, PollKeeps
<1>7. ASSUME NEW c \in Conn, CloseNext(c) PROVE Stacked'
  BY <1>7, CloseKeeps
<1>8. ASSUME NEW c \in Conn, Handle(c) PROVE Stacked'
  BY <1>8, SendInitKeeps, CloseAcceptedKeeps, ReopenKeeps, AcceptKeeps, AcceptFailsKeeps, RecvKeeps
  DEF Handle
<1>9. CASE UNCHANGED vars
  BY <1>9 DEF vars, EventInv, Stacked
<1> QED BY <1>1, <1>2, <1>3, <1>4, <1>5, <1>6, <1>7, <1>8, <1>9 DEF Next

LEMMA StackedHolds == EventInv => StaleOnlyIfNested
<1> SUFFICES ASSUME EventInv, NEW i \in DOMAIN frames, NEW j \in DOMAIN frames[i].events,
                    frames[i].kind \in Loops, ~frames[i].nested
             PROVE  ~Stale(frames[i].events[j])
  BY DEF StaleOnlyIfNested
<1>1. CASE Stack(frames, db, pending)
  <2>1. frames \in Seq(Frame) /\ i \in 1..Len(frames)
    BY <1>1 DEF Stack
  <2>2. frames[i] \in Frame
    BY <2>1, ElementOfSeq
  <2>3. frames[i].events \in Seq(Conn \cup {Gone})
    BY <2>2 DEF Frame
  <2>4. j \in 1..Len(frames[i].events) /\ Holds(frames[i].events, db, pending)
    BY <1>1, <2>1, <2>3 DEF Stack, Kept
  <2> QED BY <2>4, ConnAssumption DEF Holds, Stale
<1>2. ASSUME NEW f, frames = <<f>>, Shut(f) PROVE FALSE
  BY <1>2 DEF Shut, Loops
<1> QED BY <1>1, <1>2 DEF EventInv, Stacked

\* No event of a batch that an undisturbed loop has still to handle names memory
\* that is freed or a server with nothing to accept, whatever has become of the
\* connections before it (yconn_deferred_close).
THEOREM ConnectionsEventsHold == Spec => []StaleOnlyIfNested
<1>1. Init => Stacked
  BY StackEmpty DEF Init, Stacked
<1>2. EventInv /\ [Next]_vars => EventInv'
  BY NextInv, NextStacked DEF EventInv
<1>3. Init => EventInv
  BY <1>1, InitInv DEF EventInv
<1> QED BY <1>2, <1>3, StackedHolds, PTL DEF Spec

=============================================================================
