---------------------------- MODULE MCDatablock ----------------------------
(***************************************************************************)
(* A bench for what a data block keeps: each behaviour drives its wait      *)
(* events (WaitEvent) or its data (MCYdbTree), alone.                      *)
(***************************************************************************)
EXTENDS WaitEvent

CONSTANTS Null, MaxEntries

VARIABLES bench, top, replica, tree, own, copy, updater, world, untold

data == <<top, replica, tree, own, copy, updater, world, untold>>

Given == INSTANCE MCSources

D == INSTANCE MCYdbTree WITH
    Benches <- {"events", "tree", "answers", "paths", "hooks"},
    Sources <- Given!TreeSources, Erasures <- Given!TreeErasures,
    Hooks <- Given!TreeHooks, Reuse <- FALSE, Queries <- Given!ValueQueries,
    ReadHooks <- Given!RootedHooks, PathQueries <- Given!LeafQueries

BenchInit == Init /\ D!BenchInit

BenchNext ==
    \/ bench = "events" /\ Next /\ UNCHANGED <<bench, data>>
    \/ D!BenchNext /\ UNCHANGED vars

BenchSpec == BenchInit /\ [][BenchNext]_<<vars, bench, data>>
----------------------------------------------------------------------------
\* Both trees are trees of ynode.c (ynode_attach, ynode_detach).
TreesAreSound == bench = "tree" => D!TypeOK

\* What is written and deleted is read back from the log by a subscriber
\* (ynode_log_print, ynode_scan).
Replicated == bench = "tree" => D!Replicated

\* A write lays its source over the tree (ynode_control).
MergeOverlays == bench = "tree" => D!MergeOverlays

\* A write prints something exactly if it changes something (ynode_op_get).
SilentIffUnchanged == bench = "tree" => D!SilentIffUnchanged

\* Each change is told to the nearest hook (yhook_pre_run, yhook_post_run).
HooksTold == bench = "tree" => D!HooksTold

\* A deletion takes what the leaves of its source name (ydb_delete_sub).
ErasesLeaves == bench = "tree" => D!ErasesLeaves

\* Whoever asks has what it has asked for (yconn_sync_local).
AnswersFresh == bench = "answers" => D!Answers!AnswersFresh

\* Nobody loses its own values by asking for values (yconn_sync_local).
SyncKeepsOwn == bench = "answers" => D!SyncKeepsOwn

\* What is written, deleted and told by paths reaches the subscriber (ydb_path_write).
PathsReplicated == bench \in {"paths", "hooks"} => D!ByPath!PathsReplicated

\* What is read is what the read hooks tell (ydb_update).
ReadsAreFresh == bench = "hooks" => D!ByPath!ReadsAreFresh
============================================================================
