----------------------------- MODULE MCYdbTree -----------------------------
(***************************************************************************)
(* Benches for the data of a data block: a tree and its copy (YdbTree), two *)
(* processes that ask each other (YdbAnswers), and data that is written and *)
(* read by paths, with or without read hooks (YdbPaths).                    *)
(***************************************************************************)
EXTENDS YdbTree, MCSources

CONSTANTS
    Benches,    \* those that are driven
    Queries,    \* what YdbAnswers asks for
    ReadHooks, PathQueries

VARIABLES bench, tree, own, copy, updater, world, untold

paths == <<own, copy, updater, world, untold>>

Answers == INSTANCE YdbAnswers WITH Sources <- AnswerSources

ByPath == INSTANCE YdbPaths WITH
    Named <- ListSources, Writes <- PathWrites, Deletions <- PathDeletions,
    HookPaths <- ReadHooks, Leaf <- 7, Queries <- PathQueries, Name <- Texts,
    Values <- {"x", "y"}

BenchInit ==
    /\ bench \in Benches
    /\ Init
    /\ Answers!Init
    /\ ByPath!Init

BenchNext ==
    \/ bench = "tree" /\ Next /\ UNCHANGED <<bench, tree, paths>>
    \/ bench = "answers" /\ Answers!Next /\ UNCHANGED <<bench, vars, paths>>
    \/ /\ bench \in {"paths", "hooks"} /\ ByPath!Next
       /\ bench = "paths" => updater' = {}
       /\ bench = "hooks" => At(own', <<3>>) = Null
       /\ UNCHANGED <<bench, vars, tree>>

BenchSpec == BenchInit /\ [][BenchNext]_<<vars, bench, tree, paths>>

\* Nobody loses its own values by asking (yconn_sync_local).
SyncKeepsOwn == Answers!SyncKeepsOwn

\* Before a path is read, the read hook is called whose path is its longest prefix
\* (art_best_match).
LongestMatchTells == ByPath!LongestMatchTells
============================================================================
