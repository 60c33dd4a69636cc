------------------------------ MODULE MCYdbIpc ------------------------------
(***************************************************************************)
(* Three scenarios for YdbIpc with a server S and clients A and B: syncs of *)
(* all of them at once, with answers that come after their timers; the      *)
(* connection of the read-only subscriber A breaks; a value is written and  *)
(* deleted while two writable clients connect, and no timer helps the calls *)
(* that block.                                                             *)
(***************************************************************************)
EXTENDS YdbIpc, TLC

CONSTANTS S, A, B, kb, ks

VARIABLE scenario

MCWriter == kb :> {B} @@ ks :> {S}
OneZero  == kb :> 1 @@ ks :> 0
TwoZero  == kb :> 2 @@ ks :> 0
OneTwo   == kb :> 1 @@ ks :> 2
LateAtA  == {<<A, "init">>, <<A, "sync">>, <<S, "sync">>}
LateSync == {S, A} \X {"sync"}

Syncing ==
    INSTANCE YdbIpc WITH
        Unsub <- {A}, Fragile <- {}, Syncer <- {A, B}, Late <- LateSync,
        MaxVal <- OneTwo, MaxSync <- 2, MaxDel <- 0, MaxTimer <- 2, MaxBreak <- 0

Deleting ==
    INSTANCE YdbIpc WITH
        Writable <- Client, Fragile <- {}, Syncer <- {A, S}, Late <- {},
        MaxVal <- OneZero, MaxSync <- 2, MaxDel <- 1, MaxTimer <- 0, MaxBreak <- 0

ASSUME ScenarioAssumption == Usage /\ Syncing!Usage /\ Deleting!Usage

MCInit == Init /\ scenario \in {"syncing", "breaking", "deleting"}

MCNext ==
    \/ scenario = "syncing" /\ Syncing!Next /\ UNCHANGED scenario
    \/ scenario = "breaking" /\ Next /\ UNCHANGED scenario
    \/ scenario = "deleting" /\ Deleting!Next /\ UNCHANGED scenario

\* The fairness of YdbIpc where no timer helps.
MCSpec ==
    /\ MCInit /\ [][MCNext]_<<scenario, vars>>
    /\ \A i \in Instance : WF_vars(scenario = "deleting" /\ Deleting!Receive(i))
    /\ WF_vars(scenario = "deleting" /\ Deleting!Accept)
-----------------------------------------------------------------------------
\* Without timers every blocking call is answered (yconn_serve_blocking).
AllAnswered == (scenario = "deleting") => Deleting!CallsAreAnswered
=============================================================================
