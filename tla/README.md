# A TLA+ verification of libydb

libydb keeps a YAML data block in every process that uses it and shares it over
IPC channels: one process owns the channel (the *server* of the address), others
connect to it. What is written in one process is published to the others, a
subscriber gets everything when it connects, and `ydb_sync` asks the other
processes for what they have written themselves. Everything runs in the thread
that calls the API: there are no background threads, but blocking calls serve
messages, timers and reconnections while they wait.

This directory holds a model of the protocol and of the parts it rests on, the
TLC configurations that check it, and proofs that TLAPS checks.

## Inventory

| component | state | operations | what makes it correct | modules |
|---|---|---|---|---|
| IPC protocol (`ydb.c`: `yconn_publish`, `yconn_sync`, `yconn_init`, `yconn_recv`, ...) | data block, connections, numbers of messages, pending calls | write, delete, connect, accept, sync, the handler of each message | subscribers converge; nobody goes back to an older value; a sync that succeeds is fresh; calls end | `YdbIpc`, `ReplicatedStore` |
| wait events (`ydb.c`: `waitevent_*`) | the tree `datablock->event` | set, count, complete, expire, relay | a wait ends with its last answer, and it ends | `WaitEventTable`, `WaitEvent` |
| framing (`yconn_default_recv`, `recv_again`) | receive buffer, `op`/`type` of a loop | receive, cut, go round again, notice the end | messages are handled once, whole, in order; a closed connection is given up | `YconnRecv` |
| connection life cycle and event loops (`yconn_open`, `_accept`, `_deferred_close`, `_reopen_or_close`, `yconn_serve*`) | `conn` and `disconn`, epoll, timerfds, batches of events | open, accept, fail, reopen, close, serve | a connection is in exactly one container, is freed once, and is tried again | `Yconn` |
| timers (`ytimer.c`) | two trees, one timerfd, the batch being served | set, restart, delete, serve | timers run, not early; the timerfd is armed for the first | `Ytimer` |
| data tree (`ynode.c`) | tree of nodes with type, tag, value, origin | merge, delete, log, look up | merge and log agree; the log gives the same tree elsewhere | `Ynode`, `YdbTree`, `YdbAnswers`, `YdbPaths` |
| hooks (`yhook_*`, `ydb_update`) | hooks of nodes, pending pool, trie of read hooks | register, run before and after a change, run before a read | each change is reported once to the nearest hook; what is read is up to date | `Ynode`, `YdbTree`, `YdbPaths` |
| scanner and printer (`ynode_scan`, `ynode_log_print`, dumps) | stack of nodes, pending key and tag | scan token by token, print | what is printed is read back | `Yscan` |
| containers (`ytree`, `ymap`, `ylist`, `yarray`) | balanced tree, ordered map, ring, rings of cells | insert, delete, search, iterate | the abstract set, map or sequence | `Ytree`, `Ymap`, `Ylist`, `Yarray` |
| lock, string pool, `ytrie`, `ylog`, utilities, command line tool, Go and Python bindings | - | - | - | see *Not modelled* |

They interact by calls and by three shared structures: the epoll set (a
descriptor stands for a connection, or for its reconnection timer), the event
tree (event ids name descriptors) and the data tree (origins are descriptors).
The hard behaviours are the ones that cross them: a reused descriptor that old
events and origins still name, an event loop that runs inside a handler of
another one, answers that come after the timer of what they answer, a connection
that fails with messages in flight, and messages of one source that arrive by
two ways.

## Modules

| module | what it models |
|---|---|
| `WaitEventTable` | the event tree as a function, `waitevent_set_event`, `_set_rootevent`, `_reset`, `_get_relay` as operators |
| `WaitEvent`, `WaitEventProofs` | one instance: descriptors that are opened, closed and reused, requests, answers, timers; theorems about it |
| `YdbIpc`, `YdbIpcProofs`, `YdbIpcStoreProofs`, `YdbIpcConvergeProofs`, `YdbIpcFreshProofs` | a server and its clients: the protocol over reliable, breakable, ordered connections, with a `WaitEventTable` for every instance; theorems about it |
| `ReplicatedStore` | the abstract specification that `YdbIpc` implements |
| `Yconn`, `YconnProofs` | all connections of one process and the loops that serve them; theorems about its containers, and about its events |
| `YconnRecv`, `YconnRecvProofs` | one end of a connection: the stream of bytes, the receive buffer and the loop of `recv_again`; a theorem about it |
| `Ytimer`, `YtimerProofs` | the timers and theorems about them |
| `Ytree`, `Ylist`, `Ymap`, `Yarray` | the containers, link by link and cell by cell |
| `OrderedSet`, `OrderedMap`, `SequenceStore` | what they promise; each container implements one |
| `Ynode` | the data tree: merge, log, hooks, deletion, as operators on trees |
| `Yscan` | dump and log as lines, the tokens of the lines, and the scanner that builds a tree of them |
| `YdbTree` | a writer and its subscriber, one tree each |
| `YdbAnswers` | two processes that ask each other: what SYNC answers, and what the answer does |
| `YdbPaths` | a data block that is written, deleted and read by paths, with read hooks, and its subscriber |
| `MCYdbIpc` | three scenarios of `YdbIpc` |
| `MCSources` | the documents, hooks, paths and queries that the models of the data are given |
| `MCConnections`, `MCUtilities`, `MCDatablock`, `MCYdbTree` | benches: a variable `bench` chooses which module a behaviour drives, the others stand still |

Operators whose comment says *faulty* are mutated forms of the definition below
them; no action uses them. They document which slip each property would notice.

### WaitEvent

`event` is `datablock->event`, a function from ids `<<fd, seq>>` to the parent's
id and `cevents`. Root events have descriptor 0; a relay has the id of the
request that came in, a child that of the request that went out. `dangling`
becomes true where `ytree_insert` returns an old event and the code frees the
new one; nothing is claimed after that. `unanswered` is a history variable: the
children of each event without an answer. An answer may carry any number that
was sent, any number of times, or come after the timer.

`AllowStale` chooses between two worlds: descriptors that are handed out again
only when no event names them any more (`FALSE`), and descriptors that are
reused at once, as the kernel does (`TRUE`). In the second the properties are
only claimed for calls of this process (`Claimed`): an answer on the new
connection can indeed end an old relay.

### YdbIpc

Each handler runs to the end in the thread that calls it, so each is one action:
the change of the data block, the publications it causes, the answer and the
bookkeeping are one step. A blocking call is a stack (`wait`), because
`yconn_reopen_or_close` blocks inside a call that is blocking already. Where a
call waits, all handlers of its instance stay enabled; other API calls do not.

A leaf of the data block is a value and an origin. Values are versions: the n-th
write of a key writes n, and 0 is "no data". Text, types and nested nodes are
left out (they are in `Ynode` and its users). A connection is a number never
used again, with a queue for each direction; after `Break`, what is in flight
can still be read, what is sent is lost or makes the send fail (`failed`), and
each end notices at its own time (`Notice`), a client then keeping the structure
for `Connect`. `stalled` marks messages that `yconn_serve_blocking` has read but
not handled (see `YconnRecv`); the next message on that connection releases them.

Abstractions to know of: the answers of one sync round carry the whole of what
the instance has written (the path of the request is left out); update hooks
are not called; `RESP_FAILED` does not occur, since nothing fails to parse. And a
message is handled once. `recv_again` (`ydb.c:4451`) may handle one a second time,
without flags and data, if the one behind it has arrived only in part: `YconnRecv`
has that, and `recv_flags` is what it does to a client that is unsubscribed. In
`YdbIpc` it would also clear YCONN_WRITABLE (`ydb.c:4295`), so that the server no
longer asks that writer in a sync: `SyncsAreFresh` and the theorem about it are
claimed of networks in which this does not happen.

### Yconn

`db` is one record of everything the connections of a process share: the status,
socket, timerfd and address of each, `conn` (by descriptor), `disconn`, what
epoll reports by each descriptor, which timers are armed, and `synccount`. The
helpers of the code (`yconn_attach_to_conn`, `yconn_detach_from_disconn`,
`yconn_socket_deinit`, ...) are functions on that record, composed in the order
in which the code calls them.

`frames` is the stack of what runs. A frame of kind `serve` or `wait` is an event
loop with the rest of its batch; `open` is a connection that has been attached
and whose `yconn_init` comes next; `close` is the loop of `ydb_disconnect` over
all connections of an address. `SendInit` of a subscriber puts a `wait` on top
and marks every loop below as `nested`. The memory of a freed connection is used
again, so that `Forgotten` renames what older batches say of it to `Gone`: the
loops themselves are told nothing. Descriptors are the lowest that are free; `open`
is what the kernel holds open, whoever knows of it.

A call that sends may lose connections at any moment, two at most (`AfterSending`);
peers come, go and connect as they like. `File` addresses (`us://`) leave a socket
file behind, and bind fails as long as it is there. Over `Tcp` an accepted connection
gets the address of its peer, so that `ydb_disconnect` of the server's address leaves
it. For `Refused` addresses, which `inet_pton` does not take or whose socket refuses
SO_REUSEADDR, `yconn_socket_init` returns without closing the socket
(`ydb.c:2546-2571`): `Tried` adds it to `lost`, at every try. Without a free
descriptor nothing is accepted or reopened. Left out: a first `ydb_connect` without
one (`YDB_ASSERT` stops the process), failing `malloc`, `file://` and `fifo://`.

### YconnRecv

A message is three cells, a body and the two halves of the delimiter, so that a
read may end anywhere that matters. `RecvSocket(len)` reads `len` cells,
`RecvBuffered` finds a whole message in the buffer. `last` is the message whose
`op` and `type` the loop still holds: handling it a second time (`fresh` false)
is what the code does when the next message is incomplete. After `Close` of the
peer a read that finds nothing returns 0, without touching errno: `eagain` says
whether errno still is EAGAIN from an earlier read, in which case the code takes
the end of the stream for nothing to read; otherwise the connection is `lost`.

### Ytimer

Times are relative to now; `Tick` moves all of them. `timers` is the tree ordered
by expiry as a set of the keys under which timers were inserted, so that a timer
removed under a wrong key would stay in it. `ytimer_serve` is split at its
callbacks (`ServeBegin`, `RunNext`, `Return`, `ServeEnd`), between which `Set`,
`Restart` and `Delete` may be called as far as `Reentrant` says.

### Containers

In `Ytree` a node is named by its key, and `tree` holds the links, the balances
and the size as the code stores them; the mirrored halves of the code are one
definition with the side as a parameter. `Ymap` uses the function that `Ytree` is
shown to implement for its tree, and the linked ring of `Ylist` for its order.
`Yarray` keeps the ring buffers with their fronts, so that wrapping, splitting
and merging are all there.

The outward search of an array misses index 0 of earlier fragments, which
`ArrayAgrees` says as it is. A traversal of a range in which there is nothing visits
the key above it, against `ytree.h:64`: the model does so too, and `SearchesAgree`
claims nothing of such a range. Inserting into a map behind no entry reads through a
null pointer (`ymap.c:407`), where `ymap.h:83` promises an insertion at the end: that
is `InsertAfterNone`, which stops the process. One use is left out because the code
breaks on it: popping from a fragment that a deletion has emptied (`yarray.c:324`).

### Ynode, Yscan, YdbTree

A tree is a value: a node with its type, tag, value, hook and the sequence of its
children. `Control` is `ynode_control`, which goes down source and tree together,
decides at every node (`Op`), reports to hooks, prints to the log and attaches,
replaces or deletes. What it leaves behind is the record `st`: `lines` is the
text of the log, one record for each line with its indentation, and `chain` is
`log->printed_nodes`, the nodes whose lines were printed last. The code compares
pointers there; the model names nodes by their paths and keeps what becomes of
the memory of freed ones (`Freed`, `Gone`): with `Reuse` a new node gets the
memory freed last, without it never.

The subscriber does not see trees but text. `NextLine` says which tokens libyaml
finds in a line at its indentation, and `Scan1` is the switch of `ynode_scan`,
token by token, with its stack of nodes and its pending key, tag and
`scalar_next`. The subscriber merges or erases what the scanner has built.

Known limits of the code that the model has and the runs avoid, each listed as a
hazard: an empty list or omap cuts off dumps and the reports of deletions
(`Dumpable`); a list that ends in an empty entry or is itself an entry of a list
is read back with a spurious key; a hook that is suppressed on a node deleted in
the same write is called after the node is freed (`lost`).

### YdbAnswers

`Answer` is `yconn_sync_local`: for each leaf of the query, what is found there is
printed by `GetWithOrigin` to one log, values of the answering process only but
containers in any case, and nothing is sent if no value was printed. The one who
asked merges the log like any other (`Merged`). One end is a writable client, so
that both ends hold values of the other.

### YdbPaths

`CreatePath` builds the source of `ydb_path_write`, whose types follow the tree
that is there; the merge is that of `Ynode`. What the path does not find
afterwards is not published: that happens to an entry of a list that is pushed under
another index than the path says, and `untold` holds the lists that have had one,
until they are empty. `ydb_path_delete` deletes only first entries of lists, because
the log names all of them alike.

Before a read, `ydb_update` walks over the leaves of the query. `SearchRange` and
`BestMatch` are the searches in the radix tree by the text of the path, and
`UpdateSub` collects the hooks to be called, with the one that is put off while
leaves below it follow (`last`). What a hook tells (`world`) is merged and
published (`Exec`). `LongestMatch` is the hook that the search promises to find.

## Runs

| run | question | bounds | result |
|---|---|---|---|
| `datablock` | does every wait and relay end with exactly its last answer; does who reads the log have the writer's tree; are writes overlays; are hooks told; is who asks answered, and what is read up to date? | five benches, see below | holds (0.2 M states) |
| `waitevent_collision` | can two events have one id? | 2 descriptors, 2 numbers each | violated: a request sent and one relayed with the same number |
| `ipc` | do the instances implement a replicated store and agree in the end, is a sync fresh, are calls answered? | three scenarios, see below | holds (0.8 M states) |
| `connections` | are connections in one container, freed and tried again; are messages cut out whole; do waits end with their last answer when descriptors are reused? | four benches, see below | holds (62 k states) |
| `recv_flags` | does a client stay unsubscribed? | 2 messages | violated: INIT is handled again without its flags |
| `recv_close` | is the end of a stream always noticed? | 2 messages | violated: EAGAIN left from an earlier read |
| `yconn_stale` | does every event still hold when its turn comes? | a publisher, a subscriber, one accepted connection | violated: a loop within a loop frees or accepts what the outer batch names |
| `yconn_file` | does a publisher at `us://` come back? | the same | violated: the socket file stays |
| `utilities` | do timers run and not early; do the containers implement a set, a map and a sequence? | 3 timers of 0 to 2 ticks, 1 restart, 1 tick late; trees of 11 keys and the deletions from one of 12, maps of 3 keys and 4 iterators, arrays of 6 elements in fragments of 4 | holds (0.1 M states) |
| `ynode_hooks` | is the hook called whose path is the longest prefix of what is read? | three hooks, one query | violated: not if others branch off below it |
| `ynode_reuse` | does who reads the log have the writer's tree when freed memory is used again? | 2 sources | violated: a new node passes for printed |
| `ynode_sync` | does who asks keep its own data? | the queries of `YdbAnswers`, here for everything | violated: an empty container replaces it |

The scenarios of `ipc`, each of a server S, a writable client B and a client A:

- *syncing*: B writes its key once and S its own twice, A and B both sync, answers
  come after their timers at S and at A (two timers expire), A does not subscribe;
- *breaking*: the connection of the subscriber A breaks once, at any moment, also
  within a sync of A, and is opened again; B writes twice, one timer expires;
- *deleting*: A and B are both writable and connect while a value is written and
  deleted, A and S sync; no timer ever expires, so that only answers end calls.

The benches of `connections`: the connections with a publisher p, a subscriber q
and one accepted connection, four descriptors (one to spare), batches of two
events and two loops within each other; the framing with three messages and reads
of up to seven cells, more than two messages; wait events with two descriptors
that are reused at once and two root events. On the bench *tcp* both addresses are
tcp ones, that of q is refused, and a batch is one event: the four descriptors run
out after a few tries, with p and its accepted connection at any point of their lives.

The benches of `datablock`: wait events with three descriptors, one number each and
one root event, that is three targets, or a relay to two beside a call; seven
sources and four erasures over all node types with hooks at two paths; both ends of a
connection with three sources each and four queries; paths through a list of up to two
entries; read hooks at `/`, `/1/5` and `/1/56` with writes beside and above what they
tell.

Why the bounds suffice: three instances are the smallest system in which a
request is relayed, a publication is passed on and two ways lead to one
instance; two versions of a key are enough to go back; one late answer, one
break and one delete at any moment meet every step of the others. Two syncs are
needed to have two instances wait for each other. A batch of two events with a
loop within it is the smallest case in which handling one event can spoil
another. Eleven keys make AVL trees in which an insertion or a deletion rotates
below the root and goes on above; a deletion that rotates at two heights needs
twelve, for which the bench *tall* builds the thinnest tree and deletes from it. Six
elements make the smallest array in which the middle fragment is
split and merged. For the timers, a batch of two with a third set in between is
the smallest case in which the batch, the trees and the timerfd can disagree. The
sources of `datablock` create, replace and delete at two levels in every combination
of types that the library prints in a form its scanner reads back.

What the passing IPC scenarios assume, because the code promises nothing else: one
writer per key (two concurrent writers end up with each other's values), no
late INIT answer at a writer (`yconn_recv` merges it whenever it comes, and the
older dump would replace the newer value), and broken connections only at
clients that do not write: a writable client that reconnects sends its whole
dump and with it undoes what the server has received or deleted meanwhile. These
three are `Usage` of `YdbIpc`; `ScenarioAssumption` has TLC evaluate it for each
scenario, and the theorems about `YdbIpc` have it as hypothesis. None of the three
can be left out: with a second writer of a key, a writer whose connection breaks,
or a writer whose INIT times out, TLC finds `OriginLeadsHome` violated.

Timeouts are taken to be above `YDB_DELIVERY_LATENCY` (the default is 3 s), and the
calls of one handler to take less than that: `yconn_request` then sets the timer of a
request shorter than that of the event it belongs to, and `Expire` has them expire in
this order. It matters: with three clients and without this order TLC finds a run in
which the server gives up a relayed sync before the requests it has sent on, starts a
sync of its own under the same id, and an answer to the former ends the latter early,
so that `FreshStep` fails. In the theorem about `SyncsAreFresh` it is the guard of
`Expire` that no event goes before its children.

`ImplementsStore` checks that the values of `YdbIpc` behave as `ReplicatedStore`:
every step is a write of the next version by its writer, or one instance learning
newer versions. It speaks of the steps before anything is deleted. `ImplementsSet`,
`ImplementsMap` and `ImplementsSequence` are the refinements of the containers.

What is excepted in a property, and what is not:

- `Consistent` names the descriptors that refused tries over tcp have lost
  (`ydb.c:2546-2571`) and says that nothing else loses one. `MajorsReturn` is not
  claimed of an address that is refused, nor of a process that has lost all its
  descriptors so (`Exhausted`).
- `EndsWithLastAnswer` and `WaitEndsWithLastAnswer` go by the numbers of the answers:
  of a descriptor that is used again for another peer, an answer of the new peer
  under an old number counts.
- `SearchesAgree` claims nothing of a range without keys, `ImplementsMap` nothing
  after an insertion behind no entry, and `MergeOverlays` nothing of a node that is
  tagged for deletion and is not there: `ynode_op_get` (`ynode.c:2772`) has it created,
  with its tag, in the tree and in those of the subscribers.
- `HooksTold` and `Replicated` are claimed of the trees and writes that the runs do
  not avoid (see *Ynode, Yscan, YdbTree*).
- `StaleOnlyIfNested` is what holds of the batches: nothing but a loop within a
  loop makes an event stale. `EventsHold` says it without the exception and is
  violated. `AcceptedAreFreed` and `MajorsReturn` are claimed unless the loop has
  gone by such an event.
- `HandledUnlessLeft` excepts messages that `yconn_serve_blocking` leaves in the
  buffer when its own answer has come, `CloseNoticed` an errno that is EAGAIN.
- `OneShotsEnd` excepts a stopped process. It can stop in two ways: a callback that
  deletes a timer of the batch being served makes `ytimer_serve` loop for ever
  (`ytimer.c:435`, `continue` without taking the next id), and `ytimer_delete` of the
  running timer, or of id 0 outside of a callback, reads through a null pointer
  (`ytimer.c:360`). `Reentrant` leaves out restarts from callbacks: with them a
  timer of the batch runs before its new expiry and `NeverEarly` fails.
- `PathsReplicated` says less of a list to which a path write has pushed an entry
  under another index than its path says: the call then fails with the tree changed
  and nobody told (`ydb.c:2276`). Until such a list is empty, the subscriber has some
  of its entries in their order; of everything else it has the same tree.
- `ReadsAreFresh` excepts reading everything (the path `/` calls no read hook,
  `ydb.c:1853`), and a hook above the path if others branch off below it:
  `LongestMatchTells` says it without this exception and is violated. The search
  goes by text, so that `/1/5` also hears of `/1/56`.

### Fairness

`WaitEvent`: every timer that is set is served (`ytimer_serve` is called by both
loops when the timerfd is readable). `YdbIpc`, in the scenario *deleting*: an
instance handles messages and connections are accepted as long as there are any,
because both `ydb_serve` in the main loop and every blocking call do; no timer is
fair there, and none runs. `Yconn`: the event whose turn has come is handled (weak
fairness: a loop does nothing else), a call that waits ends in the end (strong
fairness: it has a timeout, and others may run in between), and a connection that
is ready again and again is reported again and again (strong fairness: the
application calls `ydb_serve` again and again, epoll is level-triggered and goes
round). `YconnRecv`: a readable socket is read in the end. `Ytimer`: a readable
timerfd is served, callbacks return, time passes.

## What the checks found

The violated runs, with their lines, are the findings of `PROJECT.json`: the id
that two wait events share (`waitevent_collision`), INIT that is handled again
without its flags (`recv_flags`), the end of a stream that passes for nothing to
read (`recv_close`), events that a loop within a loop makes stale (`yconn_stale`),
the socket file that keeps a publisher away (`yconn_file`), the log that takes
new nodes for printed ones (`ynode_reuse`), the sync that removes data of the
one who asks (`ynode_sync`), and the read hook that is not found behind a branch to
others (`ynode_hooks`).

These disagree with a document as well. The models have them as they are, the
properties except them as said above, and no run of its own shows them:

- An entry that `ydb_path_write` pushes under another index than the path says is in
  the tree, the call fails, and the subscribers never get it (`ydb.c:2276-2286`).
  `src/README.md:225` says "Push an entry into the tail of the sequence.", the example
  `ydb-ex-seq.c:90` "append the data to the list regardless of the index.", and
  `src/README.md:419` "Publisher publishs all changed data received and written."
- `ytree_traverse_in_range` visits the key above a range in which there is none
  (`ytree.c:1017`), where `ytree.h:64` says "iterates all entries in the tree within a
  range."
- `ymap_insert` with a null iterator reads through it (`ymap.c:407`), where `ymap.h:83`
  says "if ymap_iter is null, the data will be pushed back to the list."
- A node tagged `!ydb!delete` that is not there is created with its tag
  (`ynode.c:2764-2772`), where `src/README.md:387-408` has the tag delete.
- Reading `/` calls no read hook (`ydb.c:1853`), where `ydb.h:305` speaks of "The
  callback executed by ydb_read() to update the datablock at reading."

No sentence of the repository speaks of these, which the models have as they are:

- With a timeout of 0 or less (`Periodic` is false) the timer of a lost connection
  fires once, and the connection is not tried again.
- The answer to a SYNC of a list is appended at the one who asked, each time.
- A timer callback can stop the process, as said under `OneShotsEnd`.
- `ydb_read_hook_delete` goes to the top of the path it is given and only ever
  deletes the hook of `/` (`ydb.c:2004`).
- A tcp address that is refused costs a descriptor at every try (`ydb.c:2546-2571`),
  until the process has none left for its other connections.

## Proofs

`WaitEventProofs` proves for all descriptors and bounds that `TypeOK`,
`CountsUnanswered` and `EndsWithLastAnswer` are invariants of `WaitEvent`, from
`FdAssumption` (positive descriptors), `BoundAssumption` (root ids below their
wrap) and `StaleAssumption`. `CountsUnanswered` is not inductive alone. `IInv`
adds that children have no children of their own, that the children counted by
an event are exactly the recorded ones whose parent it is, and, while
descriptors are not reused under events that name them, that the parents of
relayed requests carry numbers already received (`ParentsAreOld`), which is why
a new relay cannot take the children of an old one.

`YconnProofs` proves `Consistent`, `CountsSyncs` and `TypeOK` of `Yconn` for any
connections, descriptors, batches and depth of loops, from `ConnAssumption` (finitely
many majors), `RoleAssumption`, `FdAssumption` and `LoopAssumption`. The three are
one inductive invariant (`Sound`), since the count of open connections with the
flag s only follows the counter if the containers are consistent. The argument goes
through the helpers: each handler is a composition of attach, detach, init and
deinit, and every one of these takes a connection to or from a state in which it
is in neither container and has no descriptor (`Loose`), while descriptors are open
exactly if a connection or a refused try holds them (`Tight`); a lemma for each helper
says so, and a handler cites those it is made of. What stands in the frames and
what the peers do is irrelevant to it: that is why nested loops can spoil events
but not the containers.

The second part of `YconnProofs` proves `StaleOnlyIfNested` on top of it. Its invariant `Stacked`
describes the frames: loops, of which all but the innermost know that another has
run within them, with the opening of a connection above them at most, or else a
lone `close`. The events of a loop that does not know of another hold (`Holds`),
since every handler changes the status of its own connection, takes away
connections of others only by disconnecting them (`Spares`), and gives out only
connections that are free. What a handler frees is renamed in every batch, and
`StackForgets` shows that this touches no event that holds.

`YconnRecvProofs` proves `InStep` of `YconnRecv` for any number of messages, any
size of the reads and any moment of the close, without an assumption on the
constants. `InStep` is not inductive: its invariant adds that a read begins with
less than one message in the buffer (`Kept`, and `next` only if something is
left), which is why the search may start where the new cells begin, less a
delimiter (`FirstEnd`, `RestIsShort`), and that the peer has closed a connection
that is given up. The stream is the function `Cell` of a position, so that no
induction over messages is needed.

`YtimerProofs` proves `TypeOK` and `TreesAgree`. Their induction needs that ids are
given out in order (so that a new one is not in use), and that the timer whose
callback runs is registered, which holds because `ytimer_delete` refuses it.
`ArmedForFirst` adds that the timerfd is what the last `restart_timer` of a call has
made it (`Armed`), and that a finite set of timers has a first one. `NeverEarly` adds
what the batch of `ytimer_serve` is (`Batch`): ids without repetition, none of them
running, and those of them still registered have expired. It has a hypothesis,
that callbacks restart no timers: that they do is exactly when it fails (see
`OneShotsEnd` above).

`YdbIpcProofs` proves `OriginLeadsHome` of `YdbIpc` for any number of clients, keys,
messages, syncs, timers and broken connections, from `InstanceAssumption` and with
the hypothesis `Usage`. The invariant `IInv` has eight parts: `Typed`; the clients'
ends (`Connected`: one connection at a time, one ever unless it may break); the
server's ends (`Accepted`: the flags of a client take effect with its INIT); the
queues (`Channels`: INIT comes first, the server is silent before it has read it, and
speaks of what a client writes only in the answer to INIT, where it says what the
client holds); `Waiting` (a subscriber that writes has changed nothing since its
INIT, because it waits for the answer); `Fresh` (neither end has data of the other
before INIT is read); `Relays` (only the server relays, never back); and `Origins`,
which is the property with the origin 0 of the writers. `Waiting` and `Fresh` are what
makes the answer to INIT harmless, and they are where `Usage` is used. The argument
has one step for all handlers (`Handles`): a message is taken, the data changes by it
or by a call, messages that may be said go out. `HandlesKeeps` shows that such a step
keeps the invariant, part by part; then every handler is shown to be one. Connecting,
accepting, timers and failures have proofs of their own.

`YdbIpcStoreProofs` proves on top of it that the instances implement `ReplicatedStore`
until something is deleted (`ImplementsStore`). What makes a merge safe is that values
only rise on their way: from what an instance holds, through the queue behind it, to
what the instance at the other end holds, which is the writer or the server
(`Rises`; `Upward`, `Downward`, `Written`). Taking the first message raises the lower
end (`Advances`), and since a handler says what it holds at that moment (`Current`),
what it sends is the upper end. A relayed answer and the dump of INIT are no different
from a publication in that. A write is `Put` of the abstract store, every other handler
`Learn`, all other steps stutter.

`YdbIpcConvergeProofs` proves `Converged` on top of both, also with deletes. There a
value may fall, so that nothing can be said of the messages in the middle of a queue;
what counts is the last one that speaks of a key: it says what the sender holds, or,
where none does, both ends hold the same (`Final`). Taking the first message and
adding a change keep that (`FinalQueues`). It holds on the way up for what the client
writes, from its INIT dump on (`FinalUp`), and on the way down to every subscriber
whose INIT has been read (`Served`, `FinalDown`), from the answer to INIT on, which has
everything there is (`Greets` of `Handles`). This is where the theorem has a hypothesis
beside `Usage`: the answer has nothing of what was deleted, so a client that held
it, lost its connection and connects again keeps it. Therefore either no connection
may break (`Fragile = {}`) or nothing has been deleted (`Rising` then says that
the client is not ahead of the server); the scenarios of `ipc` are of these two kinds.

`YdbIpcFreshProofs` proves `SyncsAreFresh` on top of these: a `ydb_sync` that succeeds
has brought the caller all that had been written at the instances it asks when it was
called, until something is deleted, for any number of instances that ask each other,
with timers, relayed requests and lost connections in any order. Its invariant `Fit`
adds to `IInv` and `Rising`:
- `Serial`: requests and answers on their way have numbers that their connection has
  given out already, and the requests of a queue rise. So the next number is of no
  message, and an answer is to a request of the past.
- `Families`: the event tables are two levels deep, and an event counts its children
  (`Tally`). It counts more than it has if the timer of a child has run (`Lost`); then
  it can no longer end by an answer.
- `Unasked`: the server has asked nobody yet on behalf of a request that it has not
  read. `Waits`: the calls of an instance have its own numbers.
- `Sought`: what a call wants is `Due`. Either the caller has it, or the event of the
  call bears it (`Bears`: the event is `Lost`, or it has a child among the `Givers` of
  the value). A request to the writer gives the value if its final answer has it
  (`Tellers`). A request of a client to the server gives it if final answers come with
  it or behind it in the queue, and as long as nothing there says it the relayed event
  at the server bears it in turn (`Bringers`).

`Bears` is a statement about one table and a set of requests, and what requests,
answers and timers do to it is shown for tables alone (`TableGrows`, `TableShrinks`,
`TableAnswered`). `AnswerEnds` is the heart: the answer that ends an event is to the
last of its children, which is therefore among the givers, so that it comes with the
value or behind it. For the handlers there is one lemma for each way of a value:
`TellersKeep` and `RelayKeeps` for the server, `ServerPromises` and `ClientPromises` for
the queue between, `WantsKeep` for the whole, `SyncStartsDue` for the beginning
(`Linked` in `Wanted` is what makes the request reach the writer) and `EndsFresh` for
the end. `Rising` enters since a message with a newer value does as well. Steps that
only lose something (accepting, timers, failures) are of one form (`Quiet`);
Connect, which asks for the answer to INIT, has its own part.

The theorem about `Consistent` says in particular that a refused try over tcp is the
only way to lose a descriptor, for any number of connections and any loops.

Only model-checked: `CallsAreAnswered` of `YdbIpc` and all other liveness (out of the
prover's reach); the containers and the data tree (recursive operators over data are
out of the prover's reach). `InStep` and `WaitEndsWithLastAnswer` of `MCConnections`
put benches side by side; they are proved of the modules they instantiate.

## Not modelled

- The lock: compiled out by default (`PTHREAD_LOCK`, `ydb.c:30`), so that a data
  block belongs to one thread.
- Text below the level of lines (quoting, flow style, anchors, queries with
  variables), imap lists, `$META` nodes, logging.
- Update hooks, which the application is told of a SYNC by and which change
  nothing in the library; whispers, whose way home is that of the origins
  (`OriginLeadsHome`) and whose merge is an ordinary one.
- `file://` and `fifo://` addresses, whose ends are not accepted and not reopened
  by a peer; chains of servers; a server that restarts with data.
- The string pool (one addition or subtraction a call), the trie but for the two
  searches of `YdbPaths`, the vendored utilities (`art.c`, `base64.c`, `utf8.c`).
- The command line tool, the examples, the Go binding (reflection over types of
  the application) and the Python binding (generated by SWIG).

More than half of the lines of the repository are of the last two items, above all
generated (`ydb_wrap.cxx`) and vendored code and examples; the map covers most of
what `src/ydb/*.c` decides, and none of what it prints for people.
