---------------------------- MODULE SharedTable -----------------------------
(***************************************************************************)
(* What the processes of one parallel merge promise together about the     *)
(* table `tiles' of merged.mbtiles, whatever the timing of their batches,  *)
(* aborts and kills:                                                       *)
(*   - the table only ever grows, and only by rows of the shard that       *)
(*     writes;                                                             *)
(*   - at every instant the rows of a shard are an initial part of its     *)
(*     work in loop order (a batch is visible entirely or not at all, and  *)
(*     batches become visible in order);                                   *)
(*   - a process that succeeds leaves all of its work in the table.        *)
(***************************************************************************)
EXTENDS Sharding

VARIABLES
  table,    \* the committed rows, as a set of cells
  outcome   \* per process: "running", "succeeded" or "failed"

vars == <<table, outcome>>

Init ==
  /\ table = {}
  /\ outcome = [p \in Shard |-> "running"]

\* Shard p makes all of its rows before position n visible, atomically.
Publish(p) ==
  /\ outcome[p] = "running"
  /\ \E n \in 1 .. CellCount + 1 : table' = table \cup WorkBelow(p, n)
  /\ UNCHANGED outcome

Succeed(p) ==
  /\ outcome[p] = "running"
  /\ Work(p) \subseteq table
  /\ outcome' = [outcome EXCEPT ![p] = "succeeded"]
  /\ UNCHANGED table

Fail(p) ==
  /\ outcome[p] = "running"
  /\ outcome' = [outcome EXCEPT ![p] = "failed"]
  /\ UNCHANGED table

Next == \E p \in Shard : Publish(p) \/ Succeed(p) \/ Fail(p)

Spec == Init /\ [][Next]_vars

=============================================================================
