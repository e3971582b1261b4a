---------------------------- MODULE ShardedMerge ----------------------------
(***************************************************************************)
(* The tile-smush processes of one parallel merge, all writing the same    *)
(* merged.mbtiles.  Three things are shared:                               *)
(*   - ./lockfile, an advisory flock every MBTiles object takes through a  *)
(*     descriptor of its own;                                              *)
(*   - the SQLite database, in WAL mode, with its single-writer lock;      *)
(*   - the short exclusive lock SQLite takes while the last connection     *)
(*     to close cleans up the WAL.                                         *)
(* A process is main() from the opening of its inputs to the destructors   *)
(* that run when main() returns; a step is a stretch of code between two   *)
(* points where another process can interfere.  An exception that main()   *)
(* does not catch ends the process, and so does a signal at any point.     *)
(***************************************************************************)
EXTENDS Sharding, Sequences

CONSTANTS
  FlushLimit,    \* a batch is flushed when it is longer than this (10000)
  Inputs,        \* the number of input files
  MetadataRows,  \* the number of calls of writeMetadata that shard 0 makes
  BadTiles,      \* the tiles whose data makes vtzero or libdeflate throw
  BadMetadata,   \* may reading an input's metadata throw?
  Killable       \* the shards whose process may be killed by a signal

ASSUME MergeAssumption ==
  /\ FlushLimit \in Nat
  /\ Inputs \in Nat
  /\ MetadataRows \in Nat
  /\ BadTiles \subseteq Tiles
  /\ BadMetadata \in BOOLEAN
  /\ Killable \subseteq Shard

VARIABLES
  pc,        \* where each process is
  cursor,    \* the position of its loops, CellCount + 1 when they are over
  left,      \* the iterations its current counted loop still has to do
  pending1,  \* the rows saveTile queued, oldest first
  pending2,  \* the rows flushPendingStatements is writing, last first
  round,     \* the iteration of the flush's `for (i = 0; i < 2; i++)'
  closing,   \* is the flush the one closeForWriting calls?
  holder,    \* who has the flock: at most one <<process, descriptor>>
  conn,      \* the processes with a live connection to merged.mbtiles
  tx,        \* per process, the rows its open transaction has inserted
  writer,    \* who has SQLite's write lock: at most one process
  cleaner,   \* who is cleaning up the WAL as the last to close
  rows       \* the committed rows of the table `tiles'

memory == <<cursor, left, pending1, pending2, round, closing>>
database == <<conn, tx, writer, cleaner, rows>>
vars == <<pc, memory, holder, database>>

\* The descriptors on ./lockfile: that of `merged', those of the inputs.
Descriptor == {"merged", "input"}

Failed == {"threw", "busy", "constraint", "killed"}
Ended  == Failed \cup {"done"}

\* The stretches of code that run between taking the flock and dropping it.
\* "used" is not one of them: the flush that closeForWriting calls has
\* already dropped the lock when it is reached.
Merging == {"opening", "writingMetadata", "draining", "closeLocked", "moving"}
Reading == {"readingMetadata", "freeingInput"}
Locations == Merging \cup Reading \cup Ended \cup
  {"loading", "open", "metadata", "writeMetadata", "looping", "flush",
   "close", "used", "destroy", "closing", "cleaning", "freeInputs"}

-----------------------------------------------------------------------------
\* flock(fd, LOCK_EX): granted when nobody else has it, and at once when this
\* very descriptor already has it.
Flock(p, fd) ==
  /\ holder \subseteq {<<p, fd>>}
  /\ holder' = {<<p, fd>>}

\* flock(fd, LOCK_UN): drops what this descriptor has, however many Flock
\* objects were built on it, and nothing that another descriptor has.
Unflock(p, fd) == holder' = holder \ {<<p, fd>>}

Goto(p, l) == pc' = [pc EXCEPT ![p] = l]

\* The process ends without running another destructor; the kernel closes
\* its descriptors, and SQLite's file locks and the transaction are gone.
Die(p, why) ==
  /\ Goto(p, why)
  /\ holder' = {h \in holder : h[1] # p}
  /\ conn' = conn \ {p}
  /\ tx' = [tx EXCEPT ![p] = {}]
  /\ writer' = writer \ {p}
  /\ cleaner' = cleaner \ {p}
  /\ UNCHANGED <<memory, rows>>

-----------------------------------------------------------------------------
\* openForReading and populateTiles of every input.
LoadInputs(p) ==
  /\ pc[p] = "loading"
  /\ Goto(p, "open")
  /\ UNCHANGED <<memory, holder, database>>

\* openForWriting: the Flock.
OpenLock(p) ==
  /\ pc[p] = "open"
  /\ Flock(p, "merged")
  /\ Goto(p, "opening")
  /\ UNCHANGED <<memory, database>>

\* openForWriting: the pragmas, VACUUM, the tables, the prepared statements.
\* The first query finds the file exclusively locked if the last connection
\* is just cleaning up, VACUUM needs the write lock, and there is no busy
\* handler.
OpenMerged(p) ==
  /\ pc[p] = "opening"
  /\ IF cleaner \cup writer # {} THEN Die(p, "busy")
     ELSE /\ conn' = conn \cup {p}
          /\ Unflock(p, "merged")
          /\ Goto(p, IF p = 0 THEN "metadata" ELSE "looping")
          /\ left' = [left EXCEPT ![p] = Inputs]
          /\ UNCHANGED <<cursor, pending1, pending2, round, closing,
                         tx, writer, cleaner, rows>>

-----------------------------------------------------------------------------
\* Shard 0: readMetadata of the next input takes that input's Flock.
ReadMetadataLock(p) ==
  /\ pc[p] = "metadata" /\ left[p] > 0
  /\ Flock(p, "input")
  /\ Goto(p, "readingMetadata")
  /\ UNCHANGED <<memory, database>>

\* The rows are read and the Flock dropped; then main() looks for
\* vector_layers and reads the bounding box, either of which may throw.
ReadMetadata(p) ==
  /\ pc[p] = "readingMetadata"
  /\ \/ /\ Unflock(p, "input")
        /\ left' = [left EXCEPT ![p] = @ - 1]
        /\ Goto(p, "metadata")
        /\ UNCHANGED <<cursor, pending1, pending2, round, closing, database>>
     \/ BadMetadata /\ Die(p, "threw")

ReadMetadataDone(p) ==
  /\ pc[p] = "metadata" /\ left[p] = 0
  /\ left' = [left EXCEPT ![p] = MetadataRows]
  /\ Goto(p, "writeMetadata")
  /\ UNCHANGED <<cursor, pending1, pending2, round, closing, holder, database>>

\* Mutant: writeMetadata takes no Flock.
WriteMetadataUnlocked(p) ==
  /\ pc[p] = "writeMetadata" /\ left[p] > 0
  /\ Goto(p, "writingMetadata")
  /\ UNCHANGED <<memory, holder, database>>

\* writeMetadata takes the Flock of `merged' ...
WriteMetadataLock(p) ==
  /\ pc[p] = "writeMetadata" /\ left[p] > 0
  /\ Flock(p, "merged")
  /\ Goto(p, "writingMetadata")
  /\ UNCHANGED <<memory, database>>

\* ... and its REPLACE is a transaction of its own.
WriteMetadata(p) ==
  /\ pc[p] = "writingMetadata"
  /\ IF writer # {} THEN Die(p, "busy")
     ELSE /\ Unflock(p, "merged")
          /\ left' = [left EXCEPT ![p] = @ - 1]
          /\ Goto(p, "writeMetadata")
          /\ UNCHANGED <<cursor, pending1, pending2, round, closing, database>>

WriteMetadataDone(p) ==
  /\ pc[p] = "writeMetadata" /\ left[p] = 0
  /\ Goto(p, "looping")
  /\ UNCHANGED <<memory, holder, database>>

-----------------------------------------------------------------------------
\* A candidate of another shard, or one no input has a tile at.
SkipCell(p) ==
  /\ pc[p] = "looping"
  /\ cursor[p] \in Cell \ Work(p)
  /\ cursor' = [cursor EXCEPT ![p] = @ + 1]
  /\ UNCHANGED <<pc, left, pending1, pending2, round, closing, holder, database>>

\* The tile is read, merged if need be, and queued by saveTile, which starts
\* a flush once the queue is too long.
SaveTile(p) ==
  /\ pc[p] = "looping"
  /\ cursor[p] \in Work(p) \ BadTiles
  /\ pending1' = [pending1 EXCEPT ![p] = Append(@, cursor[p])]
  /\ cursor' = [cursor EXCEPT ![p] = @ + 1]
  /\ Goto(p, IF Len(pending1'[p]) > FlushLimit THEN "flush" ELSE "looping")
  /\ UNCHANGED <<left, pending2, round, closing, holder, database>>

\* Decompressing or parsing one of the matching tiles throws.
TileThrows(p) ==
  /\ pc[p] = "looping"
  /\ cursor[p] \in Work(p) \cap BadTiles
  /\ Die(p, "threw")

\* Mutant: main() returns without calling closeForWriting.
LoopDoneNoClose(p) ==
  /\ pc[p] = "looping"
  /\ cursor[p] > CellCount
  /\ Goto(p, "destroy")
  /\ UNCHANGED <<memory, holder, database>>

LoopDone(p) ==
  /\ pc[p] = "looping"
  /\ cursor[p] > CellCount
  /\ Goto(p, "close")
  /\ UNCHANGED <<memory, holder, database>>

-----------------------------------------------------------------------------
\* Mutant: flushPendingStatements takes no Flock.
FlushBeginUnlocked(p) ==
  /\ pc[p] \in {"flush", "closeLocked"}
  /\ round' = [round EXCEPT ![p] = 0]
  /\ Goto(p, "draining")
  /\ UNCHANGED <<cursor, left, pending1, pending2, closing, holder, database>>

\* flushPendingStatements: the Flock and BEGIN, which takes no lock yet.
FlushBegin(p) ==
  /\ pc[p] \in {"flush", "closeLocked"}
  /\ Flock(p, "merged")
  /\ round' = [round EXCEPT ![p] = 0]
  /\ Goto(p, "draining")
  /\ UNCHANGED <<cursor, left, pending1, pending2, closing, database>>

\* Mutant: no BEGIN, so that every INSERT commits by itself.
InsertAutocommit(p) ==
  LET batch == pending2[p]
      c == batch[Len(batch)]
  IN /\ pc[p] = "draining" /\ round[p] < 2 /\ batch # <<>>
     /\ writer \ {p} = {} /\ c \notin rows
     /\ rows' = rows \cup {c}
     /\ pending2' = [pending2 EXCEPT ![p] = SubSeq(@, 1, Len(@) - 1)]
     /\ UNCHANGED <<pc, cursor, left, pending1, round, closing, holder,
                    conn, tx, writer, cleaner>>

\* Mutant: front() is executed and back() popped.
InsertFront(p) ==
  LET batch == pending2[p]
      c == batch[1]
  IN /\ pc[p] = "draining" /\ round[p] < 2 /\ batch # <<>>
     /\ IF writer \ {p} # {} THEN Die(p, "busy")
        ELSE IF c \in rows \cup tx[p] THEN Die(p, "constraint")
        ELSE /\ writer' = {p}
             /\ tx' = [tx EXCEPT ![p] = @ \cup {c}]
             /\ pending2' = [pending2 EXCEPT ![p] = SubSeq(@, 1, Len(@) - 1)]
             /\ UNCHANGED <<pc, cursor, left, pending1, round, closing, holder,
                            conn, cleaner, rows>>

\* Mutant: pop_back is forgotten.
InsertNoPop(p) ==
  LET batch == pending2[p]
      c == batch[Len(batch)]
  IN /\ pc[p] = "draining" /\ round[p] < 2 /\ batch # <<>>
     /\ IF writer \ {p} # {} THEN Die(p, "busy")
        ELSE IF c \in rows \cup tx[p] THEN Die(p, "constraint")
        ELSE /\ writer' = {p}
             /\ tx' = [tx EXCEPT ![p] = @ \cup {c}]
             /\ UNCHANGED <<pc, memory, holder, conn, cleaner, rows>>

\* insertOrReplace of the last row of pendingStatements2 (isMerge is false:
\* a plain INSERT under the unique index), then pop_back.
Insert(p) ==
  LET batch == pending2[p]
      c == batch[Len(batch)]
  IN /\ pc[p] = "draining" /\ round[p] < 2 /\ batch # <<>>
     /\ IF writer \ {p} # {} THEN Die(p, "busy")
        ELSE IF c \in rows \cup tx[p] THEN Die(p, "constraint")
        ELSE /\ writer' = {p}
             /\ tx' = [tx EXCEPT ![p] = @ \cup {c}]
             /\ pending2' = [pending2 EXCEPT ![p] = SubSeq(@, 1, Len(@) - 1)]
             /\ UNCHANGED <<pc, cursor, left, pending1, round, closing, holder,
                            conn, cleaner, rows>>

\* Mutant: `i' is not incremented.
SwapForever(p) ==
  /\ pc[p] = "draining" /\ pending2[p] = <<>>
  /\ pending1' = [pending1 EXCEPT ![p] = pending2[p]]
  /\ pending2' = [pending2 EXCEPT ![p] = pending1[p]]
  /\ UNCHANGED <<pc, cursor, left, round, closing, holder, database>>

\* pendingStatements1.swap(pendingStatements2), the end of an iteration.
Swap(p) ==
  /\ pc[p] = "draining" /\ round[p] < 2 /\ pending2[p] = <<>>
  /\ pending1' = [pending1 EXCEPT ![p] = pending2[p]]
  /\ pending2' = [pending2 EXCEPT ![p] = pending1[p]]
  /\ round' = [round EXCEPT ![p] = @ + 1]
  /\ UNCHANGED <<pc, cursor, left, closing, holder, database>>

\* Mutant: the flush has only one iteration.
CommitEarly(p) ==
  /\ pc[p] = "draining" /\ round[p] > 0
  /\ rows' = rows \cup tx[p]
  /\ tx' = [tx EXCEPT ![p] = {}]
  /\ writer' = writer \ {p}
  /\ Unflock(p, "merged")
  /\ Goto(p, IF closing[p] THEN "used" ELSE "looping")
  /\ UNCHANGED <<memory, conn, cleaner>>

\* COMMIT, and the destructor of the flush's Flock.
Commit(p) ==
  /\ pc[p] = "draining" /\ round[p] = 2
  /\ rows' = rows \cup tx[p]
  /\ tx' = [tx EXCEPT ![p] = {}]
  /\ writer' = writer \ {p}
  /\ Unflock(p, "merged")
  /\ Goto(p, IF closing[p] THEN "used" ELSE "looping")
  /\ UNCHANGED <<memory, conn, cleaner>>

-----------------------------------------------------------------------------
\* closeForWriting: its own Flock, on the descriptor the flush locks again.
CloseLock(p) ==
  /\ pc[p] = "close"
  /\ Flock(p, "merged")
  /\ closing' = [closing EXCEPT ![p] = TRUE]
  /\ Goto(p, "closeLocked")
  /\ UNCHANGED <<cursor, left, pending1, pending2, round, database>>

\* used(true) on both statements, and the destructor of closeForWriting's
\* Flock, which unlocks a descriptor that no longer has the lock.
CloseUsed(p) ==
  /\ pc[p] = "used"
  /\ Unflock(p, "merged")
  /\ Goto(p, "destroy")
  /\ UNCHANGED <<memory, database>>

\* ~MBTiles of `merged': the Flock ...
DestroyLock(p) ==
  /\ pc[p] = "destroy"
  /\ Flock(p, "merged")
  /\ Goto(p, "moving")
  /\ UNCHANGED <<memory, database>>

\* ... inside which `db' is moved away.  The prepared statements still share
\* the connection, so it outlives the Flock.
MoveDatabase(p) ==
  /\ pc[p] = "moving"
  /\ Unflock(p, "merged")
  /\ Goto(p, "closing")
  /\ UNCHANGED <<memory, database>>

\* The destructor of `preparedStatements' drops the last reference and
\* sqlite3_close_v2 runs.  The last connection locks the file to clean up.
CloseConnection(p) ==
  /\ pc[p] = "closing"
  /\ IF conn = {p}
     THEN /\ cleaner' = {p}
          /\ Goto(p, "cleaning")
          /\ UNCHANGED <<conn, left>>
     ELSE /\ conn' = conn \ {p}
          /\ left' = [left EXCEPT ![p] = Inputs]
          /\ Goto(p, "freeInputs")
          /\ UNCHANGED cleaner
  /\ UNCHANGED <<cursor, pending1, pending2, round, closing, holder,
                 tx, writer, rows>>

CleanedUp(p) ==
  /\ pc[p] = "cleaning"
  /\ cleaner' = cleaner \ {p}
  /\ conn' = conn \ {p}
  /\ left' = [left EXCEPT ![p] = Inputs]
  /\ Goto(p, "freeInputs")
  /\ UNCHANGED <<cursor, pending1, pending2, round, closing, holder,
                 tx, writer, rows>>

\* ~MBTiles of the inputs, one after the other, each inside its own Flock.
FreeInputLock(p) ==
  /\ pc[p] = "freeInputs" /\ left[p] > 0
  /\ Flock(p, "input")
  /\ Goto(p, "freeingInput")
  /\ UNCHANGED <<memory, database>>

FreeInput(p) ==
  /\ pc[p] = "freeingInput"
  /\ Unflock(p, "input")
  /\ left' = [left EXCEPT ![p] = @ - 1]
  /\ Goto(p, "freeInputs")
  /\ UNCHANGED <<cursor, pending1, pending2, round, closing, database>>

Exit(p) ==
  /\ pc[p] = "freeInputs" /\ left[p] = 0
  /\ Goto(p, "done")
  /\ UNCHANGED <<memory, holder, database>>

\* A signal, for example from kill_children of tile-smush-parallel.
Kill(p) ==
  /\ p \in Killable
  /\ pc[p] \notin Ended
  /\ Die(p, "killed")

-----------------------------------------------------------------------------
Init ==
  /\ pc = [p \in Shard |-> "loading"]
  /\ cursor = [p \in Shard |-> 1]
  /\ left = [p \in Shard |-> 0]
  /\ pending1 = [p \in Shard |-> <<>>]
  /\ pending2 = [p \in Shard |-> <<>>]
  /\ round = [p \in Shard |-> 0]
  /\ closing = [p \in Shard |-> FALSE]
  /\ holder = {}
  /\ conn = {}
  /\ tx = [p \in Shard |-> {}]
  /\ writer = {}
  /\ cleaner = {}
  /\ rows = {}

Step(p) ==
  \/ LoadInputs(p) \/ OpenLock(p) \/ OpenMerged(p)
  \/ ReadMetadataLock(p) \/ ReadMetadata(p) \/ ReadMetadataDone(p)
  \/ WriteMetadataLock(p) \/ WriteMetadata(p) \/ WriteMetadataDone(p)
  \/ SkipCell(p) \/ SaveTile(p) \/ TileThrows(p) \/ LoopDone(p)
  \/ FlushBegin(p) \/ Insert(p) \/ Swap(p) \/ Commit(p)
  \/ CloseLock(p) \/ CloseUsed(p) \/ DestroyLock(p) \/ MoveDatabase(p)
  \/ CloseConnection(p) \/ CleanedUp(p)
  \/ FreeInputLock(p) \/ FreeInput(p) \/ Exit(p)

\* Every process has ended; nothing else may stop the system.
AllEnded ==
  /\ \A p \in Shard : pc[p] \in Ended
  /\ UNCHANGED vars

Next == (\E p \in Shard : Step(p) \/ Kill(p)) \/ AllEnded

Spec == Init /\ [][Next]_vars

\* The operating system runs every process, and grants a free flock.
FairSpec == Spec /\ \A p \in Shard : WF_vars(Step(p))

-----------------------------------------------------------------------------
TypeOK ==
  /\ pc \in [Shard -> Locations]
  /\ cursor \in [Shard -> 1 .. CellCount + 1]
  /\ left \in [Shard -> Nat]
  /\ pending1 \in [Shard -> Seq(Cell)]
  /\ pending2 \in [Shard -> Seq(Cell)]
  /\ round \in [Shard -> 0 .. 2]
  /\ closing \in [Shard -> BOOLEAN]
  /\ holder \subseteq Shard \X Descriptor
  /\ conn \subseteq Shard
  /\ tx \in [Shard -> SUBSET Tiles]
  /\ writer \subseteq Shard
  /\ cleaner \subseteq Shard
  /\ rows \subseteq Tiles

\* The rows of a queue.
Queued(s) == {s[i] : i \in DOMAIN s}

\* The rows shard p has in memory: queued, being written, or uncommitted.
InFlight(p) == Queued(pending1[p]) \cup Queued(pending2[p]) \cup tx[p]

\* The stretches in which a process queries or writes merged.mbtiles.
UsesDatabase(p) == pc[p] \in {"opening", "writingMetadata", "draining"}

\* No two processes are inside the database at the same time, although
\* closeForWriting gives its lock away early (mbtiles.cpp:164-169) and
\* sqlite runs without a busy handler: a second writer would be refused.
OneInDatabase ==
  \A p, q \in Shard : UsesDatabase(p) /\ UsesDatabase(q) => p = q

\* No INSERT ever meets a row that is already there: the modulo test gives
\* every tile to one shard and the flush writes every queued row once
\* (mbtiles.cpp:84-85, 120-136; tile-smush.cpp:255).
NoDuplicateRow == \A p \in Shard : pc[p] # "constraint"

\* Whatever was killed or aborted, the rows a shard has committed are an
\* initial part of its work in loop order: although a batch is written last
\* row first, BEGIN and COMMIT make it visible whole (mbtiles.cpp:120-136).
\* A consequence of ImplementsTable.
CommittedInOrder ==
  \A p \in Shard : \A c \in rows \cap Work(p) : WorkBelow(p, c) \subseteq rows

\* A live process has lost none of the tiles its loops have passed: each is
\* committed, or in exactly one of its queues and its transaction
\* (mbtiles.cpp:120-144, the two swapped queues).
NothingLost ==
  \A p \in Shard : pc[p] \notin Ended =>
    /\ WorkBelow(p, cursor[p]) = (rows \cap Work(p)) \cup InFlight(p)
    /\ rows \cap InFlight(p) = {}

\* A process that returned from main() has all of its rows in the table and
\* nothing left in its queues (tile-smush.cpp:308, mbtiles.cpp:164-169): its rows
\* are a consequence of ImplementsTable.
DoneIsComplete ==
  \A p \in Shard : pc[p] = "done" =>
    Work(p) \subseteq rows /\ InFlight(p) = {}

\* SQLITE_BUSY, for which no connection has a handler, can only hit a process
\* at its first query, while the last connection of others is cleaning up:
\* it never hits a metadata write or a flush (mbtiles.cpp:59-64, 40-55).
BusyOnlyAtOpening ==
  [][\A p \in Shard : pc'[p] = "busy" /\ pc[p] # "busy" =>
       pc[p] = "opening" /\ cleaner # {}]_vars

\* Nobody waits for the flock for ever: whatever is killed or aborted, every
\* process ends (mbtiles.cpp:12-25, 40-50).
EveryoneEnds == \A p \in Shard : <>(pc[p] \in Ended)

\* The fate of a process depends on nobody else, but for the lost race with
\* the cleanup of the last connection: one that is not killed and whose own
\* tiles and metadata are readable finishes (mbtiles.cpp:59-64, 164-169).
HealthyFinish ==
  \A p \in Shard \ Killable :
    Work(p) \cap BadTiles = {} /\ (p = 0 => ~BadMetadata) =>
      <>(pc[p] \in {"done", "busy"})

\* What mbtiles.cpp:47-48 says of ~MBTiles: `Reset the DB member so that the
\* sqlite3_close_v2() command is called inside of the flock'.
ClosedInsideFlock == \A p \in cleaner : <<p, "merged">> \in holder

-----------------------------------------------------------------------------
Outcome(p) ==
  CASE pc[p] = "done"      -> "succeeded"
    [] pc[p] \in Failed    -> "failed"
    [] OTHER               -> "running"

\* The processes together implement the table their users see.
Table == INSTANCE SharedTable
  WITH table <- rows, outcome <- [p \in Shard |-> Outcome(p)]

\* Every step of a process is invisible in merged.mbtiles, or publishes the
\* next batch of its shard whole, or ends it (mbtiles.cpp:120-136, 164-169).
ImplementsTable == Table!Spec

-----------------------------------------------------------------------------
(***************************************************************************)
(* The inductive invariant from which module ShardedMergeProofs derives    *)
(* the safety properties above.                                            *)
(***************************************************************************)
Increasing(s) == \A i, j \in DOMAIN s : i < j => s[i] < s[j]

\* After the loops and the final flush: nothing is left to be written.
Flushed == {"used", "destroy", "moving", "closing", "cleaning",
            "freeInputs", "freeingInput", "done"}

\* The flock is with whoever runs a locked stretch, on the right descriptor.
LockInv ==
  /\ \A p \in Shard : pc[p] \in Merging => holder = {<<p, "merged">>}
  /\ \A p \in Shard : pc[p] \in Reading => holder = {<<p, "input">>}

\* Transactions and SQLite's locks exist only where the code can be.
SqliteInv ==
  /\ \A p \in Shard : tx[p] # {} \/ p \in writer => pc[p] = "draining"
  /\ \A p \in cleaner : pc[p] = "cleaning"

\* The queues hold work below the cursor, in order, and pendingStatements2
\* is in use only during the second iteration of a flush.
QueueInv(p) ==
  /\ InFlight(p) \subseteq WorkBelow(p, cursor[p])
  /\ Increasing(pending1[p]) /\ Increasing(pending2[p])
  /\ pending2[p] # <<>> \/ tx[p] # {} => round[p] > 0 /\ pending1[p] = <<>>
  /\ round[p] = 2 /\ pc[p] = "draining" => pending2[p] = <<>>
  /\ \A c \in Queued(pending2[p]), d \in tx[p] : c < d
  /\ \A c \in rows \cap Work(p), d \in InFlight(p) : c < d

ProcessInv(p) ==
  /\ pc[p] \notin Ended =>
       /\ QueueInv(p)
       /\ WorkBelow(p, cursor[p]) = (rows \cap Work(p)) \cup InFlight(p)
       /\ pc[p] # "draining" => pending2[p] = <<>> /\ tx[p] = {}
  /\ pc[p] = "draining" /\ round[p] > 0 => pending1[p] = <<>>
  /\ pc[p] \in Reading \cup {"writingMetadata"} => left[p] > 0
  /\ closing[p] \/ pc[p] = "close" => cursor[p] = CellCount + 1
  /\ pc[p] = "closeLocked" => closing[p]
  /\ pc[p] \in Flushed => Work(p) \subseteq rows /\ InFlight(p) = {}
  /\ \A c \in rows \cap Work(p) : WorkBelow(p, c) \subseteq rows
  /\ pc[p] # "constraint"

IInv == TypeOK /\ LockInv /\ SqliteInv /\ \A p \in Shard : ProcessInv(p)

=============================================================================
