--------------------------- MODULE ParallelScript ---------------------------
(***************************************************************************)
(* tile-smush-parallel: the script that removes the old merged.mbtiles,    *)
(* starts one tile-smush per processor and waits for them, under `set -e'  *)
(* and with a trap for SIGINT that kills the children.  A failing wait or  *)
(* kill ends the script, whatever its children do: those it leaves behind  *)
(* may still be there when the user runs it again.                         *)
(*                                                                         *)
(* What a child does with merged.mbtiles is what module ShardedMerge shows *)
(* of it: it commits the batches of its shard in order, the unique index   *)
(* refuses a row that is there, and it returns 0 after the last batch.     *)
(***************************************************************************)
EXTENDS Integers

CONSTANTS
  Shards,      \* nproc; with one processor tile-smush removes the file, too
  Batches,     \* how many transactions a shard takes
  MaxRuns,     \* a bound on the times the user runs the script
  Interrupts   \* a bound on the SIGINTs the user sends to a run

Run   == 1 .. MaxRuns
Shard == 0 .. Shards - 1
Child == Run \X Shard

ASSUME ParallelScriptAssumption ==
  /\ Shards \in Nat \ {0, 1} /\ Batches \in Nat \ {0}
  /\ MaxRuns \in Nat \ {0} /\ Interrupts \in Nat

VARIABLES
  run, stage,  \* the run, and "rm", "launch", "record", "wait" or "exited"
  next,        \* the shard to be launched, recorded or waited for
  trap, kills, \* whether kill_children is running, and the pid it is at
  code,        \* the exit status of the run, 0 or 1
  interrupts,  \* the SIGINTs of this run
  child,       \* "none", "loading", "writing", "ok" or "failed"
  opened,      \* the generation of merged.mbtiles a child has opened
  batch,       \* how many batches a child has committed
  generation,  \* the merged.mbtiles that has the name now
  rows         \* per generation and shard, how many batches are there

script == <<run, stage, next, trap, kills, code, interrupts>>
children == <<child, opened, batch, rows>>
scriptVars == <<script, children, generation>>

Alive(c) == child[c] \in {"loading", "writing"}
Launched(s) == child[<<run, s>>] # "none"
\* The pid of s is in pids.
Recorded(s) == stage = "wait" \/ s < next

-----------------------------------------------------------------------------
\* rm -f merged.mbtiles*
Remove ==
  /\ stage = "rm"
  /\ generation' = generation + 1
  /\ stage' = "launch"
  /\ UNCHANGED <<run, next, trap, kills, code, interrupts, children>>

\* tile-smush "$@" &
Launch ==
  /\ stage = "launch" /\ ~trap
  /\ child' = [child EXCEPT ![<<run, next>>] = "loading"]
  /\ stage' = "record"
  /\ UNCHANGED <<run, next, trap, kills, code, interrupts, opened, batch, rows, generation>>

\* pids[${i}]=$!, a command of its own: the handler may run before it.
Record ==
  /\ stage = "record" /\ ~trap
  /\ next' = (next + 1) % Shards
  /\ stage' = IF next' = 0 THEN "wait" ELSE "launch"
  /\ UNCHANGED <<run, trap, kills, code, interrupts, children, generation>>

Exit(status) == stage' = "exited" /\ code' = status

\* Mutant: without `set -e' only the last status counts.
WaitPlain ==
  /\ stage = "wait" /\ ~trap /\ ~Alive(<<run, next>>)
  /\ IF next + 1 < Shards
     THEN next' = next + 1 /\ UNCHANGED <<stage, code>>
     ELSE Exit(IF child[<<run, next>>] = "ok" THEN 0 ELSE 1) /\ UNCHANGED next
  /\ UNCHANGED <<run, trap, kills, interrupts, children, generation>>

\* Mutant: the loop does not wait for the last child.
WaitButOne ==
  /\ stage = "wait" /\ ~trap /\ ~Alive(<<run, next>>)
  /\ IF child[<<run, next>>] = "ok" /\ next + 2 < Shards
     THEN next' = next + 1 /\ UNCHANGED <<stage, code>>
     ELSE Exit(IF child[<<run, next>>] = "ok" THEN 0 ELSE 1) /\ UNCHANGED next
  /\ UNCHANGED <<run, trap, kills, interrupts, children, generation>>

\* Mutant: the failure of the last child is not the end.
WaitAgain ==
  /\ stage = "wait" /\ ~trap /\ ~Alive(<<run, next>>)
  /\ IF child[<<run, next>>] = "ok" /\ next + 1 = Shards
     THEN Exit(0) /\ UNCHANGED next
     ELSE next' = (next + 1) % Shards /\ UNCHANGED <<stage, code>>
  /\ UNCHANGED <<run, trap, kills, interrupts, children, generation>>

\* The wait for one child returns its status; the first failure is the end.
Wait ==
  /\ stage = "wait" /\ ~trap /\ ~Alive(<<run, next>>)
  /\ IF child[<<run, next>>] = "ok" /\ next + 1 < Shards
     THEN next' = next + 1 /\ UNCHANGED <<stage, code>>
     ELSE Exit(IF child[<<run, next>>] = "ok" THEN 0 ELSE 1) /\ UNCHANGED next
  /\ UNCHANGED <<run, trap, kills, interrupts, children, generation>>

\* SIGINT to the script; its children ignore the one of the terminal.
Interrupt ==
  /\ stage \in {"launch", "record", "wait"} /\ ~trap
  /\ interrupts < Interrupts
  /\ interrupts' = interrupts + 1
  /\ trap' = TRUE /\ kills' = 0
  /\ UNCHANGED <<run, stage, next, code, children, generation>>

\* Mutant: kill_children leaves out the last pid.
ToKillButOne == kills + 1 < Shards /\ Recorded(kills)

\* There is a pid left for kill_children.
ToKill == kills < Shards /\ Recorded(kills)

\* The kill of a child that runs, or that has ended without the shell
\* having noticed.
Kill ==
  /\ trap /\ ToKill
  /\ child' = IF Alive(<<run, kills>>)
              THEN [child EXCEPT ![<<run, kills>>] = "failed"] ELSE child
  /\ kills' = kills + 1
  /\ UNCHANGED <<run, stage, next, trap, code, interrupts, opened, batch, rows, generation>>

\* kill fails for a child that the shell has reaped, which ends the script.
KillFails ==
  /\ trap /\ ToKill /\ ~Alive(<<run, kills>>)
  /\ Exit(1) /\ trap' = FALSE
  /\ UNCHANGED <<run, next, kills, interrupts, children, generation>>

\* The end of the handler.  The loop of the launches goes on; a wait that was
\* interrupted fails.
TrapReturns ==
  /\ trap /\ ~ToKill
  /\ trap' = FALSE
  /\ \/ UNCHANGED <<stage, code>>
     \/ stage = "wait" /\ Exit(1)
  /\ UNCHANGED <<run, next, kills, interrupts, children, generation>>

\* The user runs the script again.
Rerun ==
  /\ stage = "exited" /\ run < MaxRuns
  /\ run' = run + 1 /\ stage' = "rm" /\ next' = 0 /\ interrupts' = 0
  /\ UNCHANGED <<trap, kills, code, children, generation>>

-----------------------------------------------------------------------------
\* openForWriting, after the inputs are read: the file that has the name.
ChildOpens(c) ==
  /\ child[c] = "loading"
  /\ child' = [child EXCEPT ![c] = "writing"]
  /\ opened' = [opened EXCEPT ![c] = generation]
  /\ UNCHANGED <<script, batch, rows, generation>>

\* Mutant: batches are written with REPLACE.
CommitReplace(c) ==
  /\ child[c] = "writing" /\ batch[c] < Batches
  /\ rows' = [rows EXCEPT ![opened[c]][c[2]] = batch[c] + 1]
  /\ batch' = [batch EXCEPT ![c] = @ + 1]
  /\ UNCHANGED <<script, child, opened, generation>>

\* The next batch, unless the unique index finds its rows in the table.
ChildCommits(c) ==
  /\ child[c] = "writing" /\ batch[c] < Batches
  /\ IF rows[opened[c]][c[2]] = batch[c]
     THEN /\ rows' = [rows EXCEPT ![opened[c]][c[2]] = @ + 1]
          /\ batch' = [batch EXCEPT ![c] = @ + 1]
          /\ UNCHANGED child
     ELSE child' = [child EXCEPT ![c] = "failed"] /\ UNCHANGED <<rows, batch>>
  /\ UNCHANGED <<script, opened, generation>>

ChildReturns(c) ==
  /\ child[c] = "writing" /\ batch[c] = Batches
  /\ child' = [child EXCEPT ![c] = "ok"]
  /\ UNCHANGED <<script, opened, batch, rows, generation>>

\* An exception, at any time.
ChildFails(c) ==
  /\ Alive(c)
  /\ child' = [child EXCEPT ![c] = "failed"]
  /\ UNCHANGED <<script, opened, batch, rows, generation>>

ScriptInit ==
  /\ run = 1 /\ stage = "rm" /\ next = 0 /\ trap = FALSE /\ kills = 0
  /\ code = 0 /\ interrupts = 0
  /\ child = [c \in Child |-> "none"]
  /\ opened = [c \in Child |-> 0] /\ batch = [c \in Child |-> 0]
  /\ generation = 0
  /\ rows = [g \in Run |-> [s \in Shard |-> 0]]

Script == Remove \/ Launch \/ Record \/ Wait \/ Kill \/ KillFails \/ TrapReturns
Process(c) == ChildOpens(c) \/ ChildCommits(c) \/ ChildReturns(c)

ScriptNext ==
  \/ Script \/ Interrupt \/ Rerun
  \/ \E c \in Child : Process(c) \/ ChildFails(c)
  \/ stage = "exited" /\ UNCHANGED scriptVars

ScriptSpec == ScriptInit /\ [][ScriptNext]_scriptVars

\* The operating system runs the shell and every child.
ScriptFairSpec == ScriptSpec /\ WF_scriptVars(Script) /\ \A c \in Child : WF_scriptVars(Process(c))

-----------------------------------------------------------------------------
ScriptTypeOK ==
  /\ run \in Run /\ stage \in {"rm", "launch", "record", "wait", "exited"} /\ next \in Shard
  /\ trap \in BOOLEAN /\ kills \in 0 .. Shards /\ code \in {0, 1}
  /\ interrupts \in 0 .. Interrupts
  /\ child \in [Child -> {"none", "loading", "writing", "ok", "failed"}]
  /\ opened \in [Child -> 0 .. MaxRuns] /\ batch \in [Child -> 0 .. Batches]
  /\ generation \in 0 .. MaxRuns
  /\ rows \in [Run -> [Shard -> 0 .. Batches]]
  /\ stage = "wait" => \A s \in Shard : Launched(s)

\* If the script exits with 0, merged.mbtiles is complete and no process of
\* the run is left, also when processes of an earlier run are still writing
\* to the new file (tile-smush-parallel:2, 24-32).
ExitZeroComplete ==
  stage = "exited" /\ code = 0 =>
    \A s \in Shard : child[<<run, s>>] = "ok" /\ rows[generation][s] = Batches

\* Two processes never both write a batch of a shard to a file, orphans of an
\* earlier run included: of the processes of the same shard that have opened
\* the file, what is in it is the sum (mbtiles.cpp:84, tile-smush-parallel:10).
NoBatchTwice ==
  \A g \in Run, s \in Shard : \A r, q \in Run :
    /\ r # q /\ opened[<<r, s>>] = g /\ opened[<<q, s>>] = g
    /\ batch[<<r, s>>] > 0
    => batch[<<q, s>>] = 0

\* Without a SIGINT, a process is left behind only by the failure of one that
\* was launched before it (tile-smush-parallel:30-32).
LeftBehindByFailure ==
  stage = "exited" /\ interrupts = 0 =>
    \A s \in Shard : Alive(<<run, s>>) =>
      \E t \in Shard : t < s /\ child[<<run, t>>] = "failed"

\* When kill_children gets to its end, every child is dead but one at most:
\* the child that has just been started and whose pid is not written down
\* yet.  A SIGINT between the two commands leaves it alive, and the loop goes
\* on (tile-smush-parallel:14-20, 25-28).
HandlerMissesOne ==
  [][trap /\ ~trap' /\ stage' # "exited" =>
       \A s \in Shard : Alive(<<run, s>>) => stage = "record" /\ s = next]_scriptVars

\* Every run of the script ends (tile-smush-parallel:24-32).
ScriptExits == \A r \in Run : run = r ~> run = r /\ stage = "exited"

=============================================================================
