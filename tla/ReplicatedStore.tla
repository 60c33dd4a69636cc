-------------------------- MODULE ReplicatedStore --------------------------
(***************************************************************************)
(* What a shared YDB data block promises when every key has one writer and   *)
(* nothing is deleted: every instance sees some version of every key, the    *)
(* writer of a key sees its last one, and no instance ever goes back to an   *)
(* older version.  Version 0 is "no data yet".                               *)
(***************************************************************************)
EXTENDS Naturals

CONSTANTS Node, Key, Writer    \* Writer[k]: the nodes that write k

VARIABLES latest, view         \* last version of a key; node -> key -> version

Init ==
  /\ latest = [k \in Key |-> 0]
  /\ view = [i \in Node |-> [k \in Key |-> 0]]

\* The writer puts the next version in its own copy.
Put(i, k) ==
  /\ i \in Writer[k] /\ view[i][k] = latest[k]
  /\ latest' = [latest EXCEPT ![k] = @ + 1]
  /\ view' = [view EXCEPT ![i][k] = latest[k] + 1]

\* One node learns newer versions of any keys.
Learn(i) ==
  /\ view' = [view EXCEPT ![i] = view'[i]]
  /\ \A k \in Key : view[i][k] <= view'[i][k] /\ view'[i][k] <= latest[k]
  /\ UNCHANGED latest

Next == \E i \in Node : Learn(i) \/ \E k \in Key : Put(i, k)

Spec == Init /\ [][Next]_<<latest, view>>

=============================================================================
