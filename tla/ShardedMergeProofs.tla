------------------------- MODULE ShardedMergeProofs -------------------------
(***************************************************************************)
(* The safety properties of ShardedMerge for any number of shards, of      *)
(* inputs and of tiles, any batch size, and any set of processes that may  *)
(* be killed.                                                              *)
(*                                                                         *)
(* IInv is inductive.  Its parts speak of the locks (LockInv, SqliteInv)   *)
(* and of one process at a time (ProcessInv).  A step of process p changes *)
(* the locks, the state of p, and the committed rows of p's own share of   *)
(* the tiles, so ProcessInv of every other process is preserved by the     *)
(* frame lemma, and the work is ProcessInv(p).                             *)
(***************************************************************************)
EXTENDS ShardedMerge, TLAPS

-----------------------------------------------------------------------------
(* Queues.                                                                 *)

LEMMA QueuedAppend ==
  ASSUME NEW S, NEW s \in Seq(S), NEW c \in S
  PROVE  Queued(Append(s, c)) = Queued(s) \cup {c}
<1> DEFINE n == Len(s)
           t == Append(s, c)
<1>1. n \in Nat /\ DOMAIN s = 1 .. n
  OBVIOUS
<1>2. DOMAIN t = 1 .. n + 1 /\ t[n + 1] = c /\ \A i \in 1 .. n : t[i] = s[i]
  OBVIOUS
<1>3. 1 .. n + 1 = (1 .. n) \cup {n + 1}
  BY <1>1
<1> HIDE DEF n, t
<1>4. Queued(t) = Queued(s) \cup {c}
  BY <1>1, <1>2, <1>3 DEF Queued
<1> QED  BY <1>4 DEF t

LEMMA QueuedFront ==
  ASSUME NEW S, NEW s \in Seq(S), s # <<>>
  PROVE  /\ SubSeq(s, 1, Len(s) - 1) \in Seq(S)
         /\ s[Len(s)] \in S
         /\ Queued(s) = Queued(SubSeq(s, 1, Len(s) - 1)) \cup {s[Len(s)]}
<1> DEFINE n == Len(s)
           t == SubSeq(s, 1, n - 1)
<1>1. n \in Nat \ {0} /\ DOMAIN s = 1 .. n
  OBVIOUS
<1>2. t \in Seq(S) /\ s[n] \in S
  BY <1>1
<1>3. DOMAIN t = 1 .. n - 1 /\ \A i \in 1 .. n - 1 : t[i] = s[i]
  BY <1>1
<1>4. 1 .. n = (1 .. n - 1) \cup {n}
  BY <1>1
<1> HIDE DEF n, t
<1>5. Queued(s) = Queued(t) \cup {s[n]}
  BY <1>1, <1>3, <1>4 DEF Queued
<1> QED  BY <1>2, <1>5 DEF n, t

LEMMA IncreasingAppend ==
  ASSUME NEW S, NEW s \in Seq(S), Increasing(s),
         NEW c \in S, \A d \in Queued(s) : d < c
  PROVE  Increasing(Append(s, c))
BY DEF Increasing, Queued

LEMMA IncreasingFront ==
  ASSUME NEW S, NEW s \in Seq(S), s # <<>>, Increasing(s)
  PROVE  /\ Increasing(SubSeq(s, 1, Len(s) - 1))
         /\ \A d \in Queued(SubSeq(s, 1, Len(s) - 1)) : d < s[Len(s)]
<1> DEFINE n == Len(s)
           t == SubSeq(s, 1, n - 1)
<1>1. n \in Nat \ {0} /\ DOMAIN s = 1 .. n
  OBVIOUS
<1>2. DOMAIN t = 1 .. n - 1 /\ \A i \in 1 .. n - 1 : t[i] = s[i]
  BY <1>1
<1>3. \A i \in 1 .. n - 1 : i \in 1 .. n /\ i < n
  BY <1>1
<1>4. n \in 1 .. n
  BY <1>1
<1> HIDE DEF n, t
<1>5. Increasing(t) /\ \A d \in Queued(t) : d < s[n]
  BY <1>1, <1>2, <1>3, <1>4 DEF Increasing, Queued
<1> QED  BY <1>5 DEF n, t

LEMMA EmptyQueue ==
  /\ Queued(<<>>) = {}
  /\ Increasing(<<>>)
  /\ \A S : \A s \in Seq(S) : Queued(s) = {} => s = <<>>
<1>1. \A S : \A s \in Seq(S) : Queued(s) = {} => s = <<>>
  <2> SUFFICES ASSUME NEW S, NEW s \in Seq(S), s # <<>>
               PROVE  Queued(s) # {}
    OBVIOUS
  <2>1. s[Len(s)] \in Queued(s)
    BY QueuedFront
  <2> QED  BY <2>1
<1>2. DOMAIN <<>> = {}
  OBVIOUS
<1> QED  BY <1>1, <1>2 DEF Queued, Increasing

-----------------------------------------------------------------------------
(* Where the loops stand in the work of a shard.                           *)

LEMMA WorkNext ==
  ASSUME NEW p \in Shard, NEW n \in Cell
  PROVE  /\ n \in Work(p) => WorkBelow(p, n + 1) = WorkBelow(p, n) \cup {n}
         /\ n \notin Work(p) => WorkBelow(p, n + 1) = WorkBelow(p, n)
<1>1. n \in Int /\ \A c \in Work(p) : c \in Int
  BY ShardingAssumption DEF Work, Cell
<1>2. \A c \in Work(p) : c < n + 1 <=> c < n \/ c = n
  BY <1>1
<1> QED  BY <1>1, <1>2 DEF WorkBelow

LEMMA WorkAll ==
  ASSUME NEW p \in Shard
  PROVE  WorkBelow(p, CellCount + 1) = Work(p)
<1>1. \A c \in Work(p) : c < CellCount + 1
  BY ShardingAssumption DEF Work, Cell
<1> QED  BY <1>1 DEF WorkBelow

LEMMA WorkDisjoint ==
  ASSUME NEW p \in Shard, NEW q \in Shard, p # q
  PROVE  Work(p) \cap Work(q) = {}
BY DEF Work

LEMMA WorkInTiles ==
  ASSUME NEW p \in Shard
  PROVE  /\ Work(p) \subseteq Tiles
         /\ Work(p) \subseteq Cell
         /\ \A n : WorkBelow(p, n) \subseteq Work(p)
BY ShardingAssumption DEF Work, WorkBelow

-----------------------------------------------------------------------------
(* Type correctness.                                                       *)

\* The tuples of variables and the auxiliary definitions of the actions.
LEMMA DieType ==
  ASSUME TypeOK, NEW p \in Shard, NEW why \in Failed, Die(p, why)
  PROVE  TypeOK'
BY DEF TypeOK, Die, Goto, memory, Locations, Ended

LEMMA StepType ==
  ASSUME IInv, NEW p \in Shard, Step(p)
  PROVE  TypeOK'
<1> USE DEF Goto, Flock, Unflock, memory, database, Locations, Merging, Reading,
            Ended, Descriptor
<1>a. TypeOK /\ ProcessInv(p)
  BY DEF IInv
<1>b. \A why \in Failed : Die(p, why) => TypeOK'
  BY <1>a, DieType
<1>c. {"threw", "busy", "constraint"} \subseteq Failed
  BY DEF Failed
<1>1. CASE LoadInputs(p)
  BY <1>a, <1>1 DEF LoadInputs, TypeOK
<1>2. CASE OpenLock(p)
  BY <1>a, <1>2 DEF OpenLock, TypeOK
<1>3. CASE OpenMerged(p)
  <2>1. CASE cleaner \cup writer # {}
    BY <1>b, <1>c, <1>3, <2>1 DEF OpenMerged
  <2>2. CASE ~(cleaner \cup writer # {})
    <3>1. /\ pc' \in [Shard -> Locations]
          /\ left' \in [Shard -> Nat]
      BY <1>a, <1>3, <2>2, MergeAssumption, ZenonT(30) DEF OpenMerged, TypeOK
    <3>2. /\ holder' \subseteq Shard \X Descriptor
          /\ conn' \subseteq Shard
      BY <1>a, <1>3, <2>2 DEF OpenMerged, TypeOK
    <3> QED  BY <1>a, <1>3, <2>2, <3>1, <3>2, SMTT(30) DEF OpenMerged, TypeOK
  <2> QED  BY <2>1, <2>2
<1>4. CASE ReadMetadataLock(p)
  BY <1>a, <1>4 DEF ReadMetadataLock, TypeOK
<1>5. CASE ReadMetadata(p)
  <2>1. CASE Die(p, "threw")
    BY <1>b, <1>c, <2>1
  <2>2. CASE ~Die(p, "threw")
    <3>1. left[p] - 1 \in Nat
      BY <1>a, <1>5 DEF ReadMetadata, TypeOK, ProcessInv
    <3>2. left' \in [Shard -> Nat]
      BY <1>a, <1>5, <2>2, <3>1 DEF ReadMetadata, TypeOK
    <3>3. pc' \in [Shard -> Locations]
      BY <1>a, <1>5, <2>2 DEF ReadMetadata, Goto, Locations, TypeOK
    <3>4. holder' \subseteq Shard \X Descriptor
      BY <1>a, <1>5, <2>2 DEF ReadMetadata, Unflock, TypeOK
    <3>5. UNCHANGED <<cursor, pending1, pending2, round, closing, database>>
      BY <1>5, <2>2 DEF ReadMetadata
    <3> QED  BY <1>a, <3>2, <3>3, <3>4, <3>5 DEF TypeOK, database
  <2> QED  BY <2>1, <2>2
<1>6. CASE ReadMetadataDone(p)
  BY <1>a, <1>6, MergeAssumption DEF ReadMetadataDone, TypeOK
<1>7. CASE WriteMetadataLock(p)
  BY <1>a, <1>7 DEF WriteMetadataLock, TypeOK
<1>8. CASE WriteMetadata(p)
  <2>1. CASE writer # {}
    BY <1>b, <1>c, <1>8, <2>1 DEF WriteMetadata
  <2>2. CASE ~(writer # {})
    <3>1. left[p] - 1 \in Nat
      BY <1>a, <1>8 DEF WriteMetadata, TypeOK, ProcessInv
    <3>2. left' \in [Shard -> Nat]
      BY <1>a, <1>8, <2>2, <3>1, ZenonT(30) DEF WriteMetadata, TypeOK
    <3>3. pc' \in [Shard -> Locations]
      BY <1>a, <1>8, <2>2 DEF WriteMetadata, Goto, Locations, TypeOK
    <3>4. holder' \subseteq Shard \X Descriptor
      BY <1>a, <1>8, <2>2 DEF WriteMetadata, Unflock, TypeOK
    <3>5. UNCHANGED <<cursor, pending1, pending2, round, closing, database>>
      BY <1>8, <2>2 DEF WriteMetadata
    <3> QED  BY <1>a, <3>2, <3>3, <3>4, <3>5 DEF TypeOK, database
  <2> QED  BY <2>1, <2>2
<1>9. CASE WriteMetadataDone(p)
  BY <1>a, <1>9 DEF WriteMetadataDone, TypeOK
<1>10. CASE SkipCell(p)
  <2>1. cursor[p] + 1 \in 1 .. CellCount + 1
    BY <1>10, ShardingAssumption DEF SkipCell, Cell
  <2> QED  BY <1>a, <1>10, <2>1 DEF SkipCell, TypeOK
<1>11. CASE SaveTile(p)
  <2>1. cursor[p] \in Cell
    BY <1>11, WorkInTiles DEF SaveTile
  <2>2. cursor[p] + 1 \in 1 .. CellCount + 1
    BY <2>1, ShardingAssumption DEF Cell
  <2>3. Append(pending1[p], cursor[p]) \in Seq(Cell)
    BY <1>a, <2>1 DEF TypeOK
  <2> QED  BY <1>a, <1>11, <2>2, <2>3 DEF SaveTile, TypeOK
<1>12. CASE TileThrows(p)
  BY <1>b, <1>c, <1>12 DEF TileThrows
<1>13. CASE LoopDone(p)
  BY <1>a, <1>13 DEF LoopDone, TypeOK
<1>14. CASE FlushBegin(p)
  BY <1>a, <1>14 DEF FlushBegin, TypeOK
<1>15. CASE Insert(p)
  <2> DEFINE batch == pending2[p]
             c == batch[Len(batch)]
             refused == writer \ {p} # {} \/ c \in rows \cup tx[p]
  <2>1. CASE refused
    BY <1>b, <1>c, <1>15, <2>1 DEF Insert
  <2>2. CASE ~refused
    <3>1. batch \in Seq(Cell) /\ batch # <<>> /\ pc[p] \notin Ended
      BY <1>a, <1>15 DEF Insert, TypeOK, Failed
    <3>2. SubSeq(batch, 1, Len(batch) - 1) \in Seq(Cell)
      BY <3>1, QueuedFront
    <3>3. c \in Tiles
      <4>1. c \in Queued(batch)
        BY <3>1, QueuedFront
      <4> QED  BY <1>a, <3>1, <4>1, WorkInTiles DEF ProcessInv, QueueInv, InFlight
    <3>4. /\ pending2' = [pending2 EXCEPT ![p] = SubSeq(batch, 1, Len(batch) - 1)]
          /\ tx' = [tx EXCEPT ![p] = @ \cup {c}]
          /\ writer' = {p}
          /\ UNCHANGED <<pc, cursor, left, pending1, round, closing, holder,
                         conn, cleaner, rows>>
      BY <1>15, <2>2 DEF Insert
    <3> HIDE DEF c, batch
    <3> QED  BY <1>a, <3>2, <3>3, <3>4 DEF TypeOK, batch
  <2> QED  BY <2>1, <2>2
<1>16. CASE Swap(p)
  <2>1. round[p] \in 0 .. 2 /\ round[p] < 2
    BY <1>a, <1>16 DEF Swap, TypeOK
  <2>2. round[p] + 1 \in 0 .. 2
    BY <2>1
  <2> QED  BY <1>a, <1>16, <2>2 DEF Swap, TypeOK
<1>17. CASE Commit(p)
  BY <1>a, <1>17 DEF Commit, TypeOK
<1>18. CASE CloseLock(p)
  BY <1>a, <1>18 DEF CloseLock, TypeOK
<1>19. CASE CloseUsed(p)
  BY <1>a, <1>19 DEF CloseUsed, TypeOK
<1>20. CASE DestroyLock(p)
  BY <1>a, <1>20 DEF DestroyLock, TypeOK
<1>21. CASE MoveDatabase(p)
  BY <1>a, <1>21 DEF MoveDatabase, TypeOK
<1>22. CASE CloseConnection(p)
  BY <1>a, <1>22, MergeAssumption, ZenonT(30) DEF CloseConnection, TypeOK
<1>23. CASE CleanedUp(p)
  BY <1>a, <1>23, MergeAssumption DEF CleanedUp, TypeOK
<1>24. CASE FreeInputLock(p)
  BY <1>a, <1>24 DEF FreeInputLock, TypeOK
<1>25. CASE FreeInput(p)
  <2>1. left[p] - 1 \in Nat
    BY <1>a, <1>25 DEF FreeInput, TypeOK, ProcessInv
  <2> QED  BY <1>a, <1>25, <2>1 DEF FreeInput, TypeOK
<1>26. CASE Exit(p)
  BY <1>a, <1>26 DEF Exit, TypeOK
<1> QED  BY <1>1, <1>2, <1>3, <1>4, <1>5, <1>6, <1>7, <1>8, <1>9, <1>10, <1>11, <1>12, <1>13, <1>14, <1>15, <1>16, <1>17, <1>18, <1>19, <1>20, <1>21, <1>22, <1>23, <1>24, <1>25, <1>26 DEF Step

-----------------------------------------------------------------------------
(* The locks.                                                              *)

LEMMA DieLocks ==
  ASSUME TypeOK, LockInv, SqliteInv,
         NEW p \in Shard, NEW why \in Failed, Die(p, why)
  PROVE  LockInv' /\ SqliteInv'
<1>1. why \notin Merging \cup Reading \cup {"draining", "cleaning"}
  BY DEF Failed, Merging, Reading
<1>2. LockInv'
  BY <1>1 DEF TypeOK, LockInv, Die, Goto
<1>3. SqliteInv'
  BY <1>1 DEF TypeOK, SqliteInv, Die, Goto
<1> QED  BY <1>2, <1>3

LEMMA StepLocks ==
  ASSUME IInv, NEW p \in Shard, Step(p)
  PROVE  LockInv' /\ SqliteInv'
<1> USE DEF Goto, Flock, Unflock, memory, database, Merging, Reading
<1>a. TypeOK /\ LockInv /\ SqliteInv
  BY DEF IInv
<1>b. \A why \in Failed : Die(p, why) => LockInv' /\ SqliteInv'
  BY <1>a, DieLocks
<1>c. {"threw", "busy", "constraint"} \subseteq Failed
  BY DEF Failed
<1>1. CASE LoadInputs(p)
  BY <1>a, <1>1 DEF LoadInputs, TypeOK, LockInv, SqliteInv
<1>2. CASE OpenLock(p)
  BY <1>a, <1>2 DEF OpenLock, TypeOK, LockInv, SqliteInv
<1>3. CASE OpenMerged(p)
  <2>1. CASE cleaner \cup writer # {}
    BY <1>b, <1>c, <1>3, <2>1 DEF OpenMerged
  <2>2. CASE ~(cleaner \cup writer # {})
    <3>1. /\ pc' = [pc EXCEPT ![p] = IF p = 0 THEN "metadata" ELSE "looping"]
          /\ holder' = holder \ {<<p, "merged">>}
          /\ UNCHANGED <<tx, writer, cleaner>>
      BY <1>3, <2>2 DEF OpenMerged
    <3>2. LockInv'
      BY <1>a, <3>1 DEF TypeOK, LockInv
    <3>3. SqliteInv'
      BY <1>a, <1>3, <3>1 DEF OpenMerged, TypeOK, SqliteInv
    <3> QED  BY <3>2, <3>3
  <2> QED  BY <2>1, <2>2
<1>4. CASE ReadMetadataLock(p)
  BY <1>a, <1>4 DEF ReadMetadataLock, TypeOK, LockInv, SqliteInv
<1>5. CASE ReadMetadata(p)
  <2>1. CASE Die(p, "threw")
    BY <1>b, <1>c, <1>5, <2>1 DEF ReadMetadata
  <2>2. CASE ~Die(p, "threw")
    <3>1. /\ pc' = [pc EXCEPT ![p] = "metadata"]
          /\ holder' = holder \ {<<p, "input">>}
          /\ UNCHANGED <<tx, writer, cleaner>>
      BY <1>5, <2>2 DEF ReadMetadata
    <3>2. LockInv'
      BY <1>a, <3>1 DEF TypeOK, LockInv
    <3>3. SqliteInv'
      BY <1>a, <1>5, <3>1 DEF ReadMetadata, TypeOK, SqliteInv
    <3> QED  BY <3>2, <3>3
  <2> QED  BY <2>1, <2>2
<1>6. CASE ReadMetadataDone(p)
  BY <1>a, <1>6 DEF ReadMetadataDone, TypeOK, LockInv, SqliteInv
<1>7. CASE WriteMetadataLock(p)
  BY <1>a, <1>7 DEF WriteMetadataLock, TypeOK, LockInv, SqliteInv
<1>8. CASE WriteMetadata(p)
  <2>1. CASE writer # {}
    BY <1>b, <1>c, <1>8, <2>1 DEF WriteMetadata
  <2>2. CASE ~(writer # {})
    <3>1. /\ pc' = [pc EXCEPT ![p] = "writeMetadata"]
          /\ holder' = holder \ {<<p, "merged">>}
          /\ UNCHANGED <<tx, writer, cleaner>>
      BY <1>8, <2>2 DEF WriteMetadata
    <3>2. LockInv'
      BY <1>a, <3>1 DEF TypeOK, LockInv
    <3>3. SqliteInv'
      BY <1>a, <1>8, <3>1 DEF WriteMetadata, TypeOK, SqliteInv
    <3> QED  BY <3>2, <3>3
  <2> QED  BY <2>1, <2>2
<1>9. CASE WriteMetadataDone(p)
  BY <1>a, <1>9 DEF WriteMetadataDone, TypeOK, LockInv, SqliteInv
<1>10. CASE SkipCell(p)
  BY <1>a, <1>10 DEF SkipCell, TypeOK, LockInv, SqliteInv
<1>11. CASE SaveTile(p)
  BY <1>a, <1>11 DEF SaveTile, TypeOK, LockInv, SqliteInv
<1>12. CASE TileThrows(p)
  BY <1>b, <1>c, <1>12 DEF TileThrows
<1>13. CASE LoopDone(p)
  BY <1>a, <1>13 DEF LoopDone, TypeOK, LockInv, SqliteInv
<1>14. CASE FlushBegin(p)
  BY <1>a, <1>14 DEF FlushBegin, TypeOK, LockInv, SqliteInv
<1>15. CASE Insert(p)
  <2> DEFINE c == pending2[p][Len(pending2[p])]
             refused == writer \ {p} # {} \/ c \in rows \cup tx[p]
  <2>1. CASE refused
    BY <1>b, <1>c, <1>15, <2>1 DEF Insert
  <2>2. CASE ~refused
    BY <1>a, <1>15, <2>2 DEF Insert, TypeOK, LockInv, SqliteInv
  <2> QED  BY <2>1, <2>2
<1>16. CASE Swap(p)
  BY <1>a, <1>16 DEF Swap, TypeOK, LockInv, SqliteInv
<1>17. CASE Commit(p)
  BY <1>a, <1>17 DEF Commit, TypeOK, LockInv, SqliteInv
<1>18. CASE CloseLock(p)
  BY <1>a, <1>18 DEF CloseLock, TypeOK, LockInv, SqliteInv
<1>19. CASE CloseUsed(p)
  BY <1>a, <1>19 DEF CloseUsed, TypeOK, LockInv, SqliteInv
<1>20. CASE DestroyLock(p)
  BY <1>a, <1>20 DEF DestroyLock, TypeOK, LockInv, SqliteInv
<1>21. CASE MoveDatabase(p)
  BY <1>a, <1>21 DEF MoveDatabase, TypeOK, LockInv, SqliteInv
<1>22. CASE CloseConnection(p)
  BY <1>a, <1>22 DEF CloseConnection, TypeOK, LockInv, SqliteInv
<1>23. CASE CleanedUp(p)
  BY <1>a, <1>23 DEF CleanedUp, TypeOK, LockInv, SqliteInv
<1>24. CASE FreeInputLock(p)
  BY <1>a, <1>24 DEF FreeInputLock, TypeOK, LockInv, SqliteInv
<1>25. CASE FreeInput(p)
  BY <1>a, <1>25 DEF FreeInput, TypeOK, LockInv, SqliteInv
<1>26. CASE Exit(p)
  BY <1>a, <1>26 DEF Exit, TypeOK, LockInv, SqliteInv
<1> QED
  BY <1>1, <1>2, <1>3, <1>4, <1>5, <1>6, <1>7, <1>8, <1>9,
     <1>10, <1>11, <1>12, <1>13, <1>14, <1>15, <1>16, <1>17, <1>18,
     <1>19, <1>20, <1>21, <1>22, <1>23, <1>24, <1>25, <1>26
  DEF Step

-----------------------------------------------------------------------------
(* The processes that do not take the step.                                *)

\* What ProcessInv(q) speaks of.
Unmoved(q) ==
  /\ pc'[q] = pc[q] /\ cursor'[q] = cursor[q] /\ left'[q] = left[q]
  /\ pending1'[q] = pending1[q] /\ pending2'[q] = pending2[q]
  /\ round'[q] = round[q] /\ closing'[q] = closing[q] /\ tx'[q] = tx[q]
  /\ rows' \cap Work(q) = rows \cap Work(q)

LEMMA Frame ==
  ASSUME NEW q \in Shard, ProcessInv(q), Unmoved(q)
  PROVE  ProcessInv(q)'
BY WorkInTiles DEF Unmoved, ProcessInv, QueueInv, InFlight

LEMMA DieUnmoved ==
  ASSUME TypeOK, NEW p \in Shard, NEW q \in Shard, p # q,
         NEW why \in Failed, Die(p, why)
  PROVE  Unmoved(q)
BY DEF TypeOK, Die, Goto, memory, Unmoved

LEMMA StepUnmoved ==
  ASSUME IInv, NEW p \in Shard, NEW q \in Shard, p # q, Step(p)
  PROVE  Unmoved(q)
<1> USE DEF Goto, memory, database
<1>a. TypeOK /\ ProcessInv(p)
  BY DEF IInv
<1>b. \A why \in Failed : Die(p, why) => Unmoved(q)
  BY <1>a, DieUnmoved
<1>c. {"threw", "busy", "constraint"} \subseteq Failed
  BY DEF Failed
<1>1. CASE LoadInputs(p)
  BY <1>a, <1>1 DEF LoadInputs, TypeOK, Unmoved
<1>2. CASE OpenLock(p)
  BY <1>a, <1>2 DEF OpenLock, TypeOK, Unmoved
<1>3. CASE OpenMerged(p)
  <2>1. CASE cleaner \cup writer # {}
    BY <1>b, <1>c, <1>3, <2>1 DEF OpenMerged
  <2>2. CASE ~(cleaner \cup writer # {})
    BY <1>a, <1>3, <2>2 DEF OpenMerged, TypeOK, Unmoved
  <2> QED  BY <2>1, <2>2
<1>4. CASE ReadMetadataLock(p)
  BY <1>a, <1>4 DEF ReadMetadataLock, TypeOK, Unmoved
<1>5. CASE ReadMetadata(p)
  <2>1. CASE Die(p, "threw")
    BY <1>b, <1>c, <1>5, <2>1 DEF ReadMetadata
  <2>2. CASE ~Die(p, "threw")
    BY <1>a, <1>5, <2>2 DEF ReadMetadata, TypeOK, Unmoved
  <2> QED  BY <2>1, <2>2
<1>6. CASE ReadMetadataDone(p)
  BY <1>a, <1>6 DEF ReadMetadataDone, TypeOK, Unmoved
<1>7. CASE WriteMetadataLock(p)
  BY <1>a, <1>7 DEF WriteMetadataLock, TypeOK, Unmoved
<1>8. CASE WriteMetadata(p)
  <2>1. CASE writer # {}
    BY <1>b, <1>c, <1>8, <2>1 DEF WriteMetadata
  <2>2. CASE ~(writer # {})
    BY <1>a, <1>8, <2>2 DEF WriteMetadata, TypeOK, Unmoved
  <2> QED  BY <2>1, <2>2
<1>9. CASE WriteMetadataDone(p)
  BY <1>a, <1>9 DEF WriteMetadataDone, TypeOK, Unmoved
<1>10. CASE SkipCell(p)
  BY <1>a, <1>10 DEF SkipCell, TypeOK, Unmoved
<1>11. CASE SaveTile(p)
  BY <1>a, <1>11 DEF SaveTile, TypeOK, Unmoved
<1>12. CASE TileThrows(p)
  BY <1>b, <1>c, <1>12 DEF TileThrows
<1>13. CASE LoopDone(p)
  BY <1>a, <1>13 DEF LoopDone, TypeOK, Unmoved
<1>14. CASE FlushBegin(p)
  BY <1>a, <1>14 DEF FlushBegin, TypeOK, Unmoved
<1>15. CASE Insert(p)
  <2> DEFINE c == pending2[p][Len(pending2[p])]
             refused == writer \ {p} # {} \/ c \in rows \cup tx[p]
  <2>1. CASE refused
    BY <1>b, <1>c, <1>15, <2>1 DEF Insert
  <2>2. CASE ~refused
    BY <1>a, <1>15, <2>2 DEF Insert, TypeOK, Unmoved
  <2> QED  BY <2>1, <2>2
<1>16. CASE Swap(p)
  BY <1>a, <1>16 DEF Swap, TypeOK, Unmoved
<1>17. CASE Commit(p)
  <2>1. tx[p] \cap Work(q) = {}
    BY <1>a, <1>17, WorkInTiles, WorkDisjoint
       DEF Commit, Ended, Failed, ProcessInv, QueueInv, InFlight
  <2> QED  BY <1>a, <1>17, <2>1 DEF Commit, TypeOK, Unmoved
<1>18. CASE CloseLock(p)
  BY <1>a, <1>18 DEF CloseLock, TypeOK, Unmoved
<1>19. CASE CloseUsed(p)
  BY <1>a, <1>19 DEF CloseUsed, TypeOK, Unmoved
<1>20. CASE DestroyLock(p)
  BY <1>a, <1>20 DEF DestroyLock, TypeOK, Unmoved
<1>21. CASE MoveDatabase(p)
  BY <1>a, <1>21 DEF MoveDatabase, TypeOK, Unmoved
<1>22. CASE CloseConnection(p)
  BY <1>a, <1>22 DEF CloseConnection, TypeOK, Unmoved
<1>23. CASE CleanedUp(p)
  BY <1>a, <1>23 DEF CleanedUp, TypeOK, Unmoved
<1>24. CASE FreeInputLock(p)
  BY <1>a, <1>24 DEF FreeInputLock, TypeOK, Unmoved
<1>25. CASE FreeInput(p)
  BY <1>a, <1>25 DEF FreeInput, TypeOK, Unmoved
<1>26. CASE Exit(p)
  BY <1>a, <1>26 DEF Exit, TypeOK, Unmoved
<1> QED
  BY <1>1, <1>2, <1>3, <1>4, <1>5, <1>6, <1>7, <1>8, <1>9,
     <1>10, <1>11, <1>12, <1>13, <1>14, <1>15, <1>16, <1>17, <1>18,
     <1>19, <1>20, <1>21, <1>22, <1>23, <1>24, <1>25, <1>26
  DEF Step

-----------------------------------------------------------------------------
(* The process that takes the step.                                        *)

LEMMA DieProcess ==
  ASSUME TypeOK, NEW p \in Shard, ProcessInv(p), pc[p] \notin Ended,
         NEW why \in Failed \ {"constraint"}, Die(p, why)
  PROVE  ProcessInv(p)'
<1>1. why \in Ended /\ why \notin Flushed \cup Reading \cup
        {"draining", "close", "closeLocked", "writingMetadata", "constraint"}
  BY DEF Ended, Failed, Flushed, Reading
<1>2. /\ pc'[p] = why
      /\ cursor' = cursor /\ closing' = closing /\ rows' = rows
  BY DEF TypeOK, Die, Goto, memory
<1> QED  BY <1>1, <1>2 DEF ProcessInv

\* A step that touches neither the queues nor the table.
LEMMA IdleProcess ==
  ASSUME TypeOK, NEW p \in Shard, ProcessInv(p),
         pc[p] \notin Ended \cup {"draining"},
         UNCHANGED <<cursor, pending1, pending2, closing, tx, rows>>,
         NEW l, pc' = [pc EXCEPT ![p] = l],
         l \notin {"draining", "constraint", "closeLocked"},
         l \in Reading \cup {"writingMetadata"} => left'[p] > 0,
         l = "close" => cursor[p] = CellCount + 1,
         l \in Flushed => pc[p] \in Flushed
  PROVE  ProcessInv(p)'
<1>1. pc'[p] = l
  BY DEF TypeOK
<1> QED  BY <1>1 DEF ProcessInv, QueueInv, InFlight

LEMMA StepProcess ==
  ASSUME IInv, NEW p \in Shard, Step(p)
  PROVE  ProcessInv(p)'
<1> USE DEF Goto, memory, database, Ended, Failed, Reading, Flushed
<1>a. TypeOK /\ ProcessInv(p)
  BY DEF IInv
<1>b. pc[p] \notin Ended
  BY <1>a DEF Step, LoadInputs, OpenLock, OpenMerged, ReadMetadataLock,
     ReadMetadata, ReadMetadataDone, WriteMetadataLock, WriteMetadata,
     WriteMetadataDone, SkipCell, SaveTile, TileThrows, LoopDone, FlushBegin,
     Insert, Swap, Commit, CloseLock, CloseUsed, DestroyLock, MoveDatabase,
     CloseConnection, CleanedUp, FreeInputLock, FreeInput, Exit
<1>c. Die(p, "threw") \/ Die(p, "busy") => ProcessInv(p)'
  BY <1>a, <1>b, DieProcess
<1>1. CASE LoadInputs(p)
  BY <1>a, <1>1, IdleProcess DEF LoadInputs
<1>2. CASE OpenLock(p)
  BY <1>a, <1>2, IdleProcess DEF OpenLock
<1>3. CASE OpenMerged(p)
  <2>1. CASE cleaner \cup writer # {}
    BY <1>c, <1>3, <2>1 DEF OpenMerged
  <2>2. CASE ~(cleaner \cup writer # {})
    BY <1>a, <1>3, <2>2, IdleProcess DEF OpenMerged
  <2> QED  BY <2>1, <2>2
<1>4. CASE ReadMetadataLock(p)
  BY <1>a, <1>4, IdleProcess DEF ReadMetadataLock
<1>5. CASE ReadMetadata(p)
  <2>1. CASE Die(p, "threw")
    BY <1>c, <1>5, <2>1 DEF ReadMetadata
  <2>2. CASE ~Die(p, "threw")
    BY <1>a, <1>5, <2>2, IdleProcess DEF ReadMetadata
  <2> QED  BY <2>1, <2>2
<1>6. CASE ReadMetadataDone(p)
  BY <1>a, <1>6, IdleProcess DEF ReadMetadataDone
<1>7. CASE WriteMetadataLock(p)
  BY <1>a, <1>7, IdleProcess DEF WriteMetadataLock
<1>8. CASE WriteMetadata(p)
  <2>1. CASE writer # {}
    BY <1>c, <1>8, <2>1 DEF WriteMetadata
  <2>2. CASE ~(writer # {})
    BY <1>a, <1>8, <2>2, IdleProcess DEF WriteMetadata
  <2> QED  BY <2>1, <2>2
<1>9. CASE WriteMetadataDone(p)
  BY <1>a, <1>9, IdleProcess DEF WriteMetadataDone
<1>10. CASE SkipCell(p)
  <2>1. cursor'[p] = cursor[p] + 1 /\ cursor[p] \in Cell
    BY <1>a, <1>10 DEF SkipCell, TypeOK
  <2>2. WorkBelow(p, cursor'[p]) = WorkBelow(p, cursor[p])
    BY <1>10, <2>1, WorkNext DEF SkipCell
  <2>3. cursor[p] # CellCount + 1
    BY <2>1, ShardingAssumption DEF Cell
  <2> QED  BY <1>a, <1>10, <2>2, <2>3 DEF SkipCell, ProcessInv, QueueInv, InFlight
<1>11. CASE SaveTile(p)
  <2> DEFINE c == cursor[p]
  <2>1. c \in Cell /\ c \in Work(p) /\ c # CellCount + 1
    BY <1>11, WorkInTiles, ShardingAssumption DEF SaveTile, Cell
  <2>2. /\ cursor'[p] = c + 1 /\ pending1'[p] = Append(pending1[p], c)
        /\ pc'[p] \in {"flush", "looping"} /\ pc[p] = "looping"
        /\ UNCHANGED <<left, pending2, round, closing, tx, rows>>
    BY <1>a, <1>11 DEF SaveTile, TypeOK
  <2>3. WorkBelow(p, c + 1) = WorkBelow(p, c) \cup {c}
    BY <2>1, WorkNext
  <2>4. Queued(pending1'[p]) = Queued(pending1[p]) \cup {c}
    BY <1>a, <2>1, <2>2, QueuedAppend DEF TypeOK
  <2>5. \A d \in WorkBelow(p, c) : d < c
    BY DEF WorkBelow
  <2>6. Increasing(pending1'[p])
    <3>1. pending1[p] \in Seq(Cell)
      BY <1>a DEF TypeOK
    <3>2. Increasing(pending1[p]) /\ \A d \in Queued(pending1[p]) : d < c
      BY <1>a, <2>2, <2>5 DEF ProcessInv, QueueInv, InFlight
    <3> QED  BY <2>1, <2>2, <3>1, <3>2, IncreasingAppend
  <2>7. rows \cap Work(p) \subseteq WorkBelow(p, c)
    BY <1>a, <2>2 DEF ProcessInv
  <2>8. pending2[p] = <<>> /\ tx[p] = {}
    BY <1>a, <2>2 DEF ProcessInv
  <2> HIDE DEF c
  <2>9. QueueInv(p)'
    BY <1>a, <2>2, <2>3, <2>4, <2>5, <2>6, <2>7, <2>8, EmptyQueue
       DEF ProcessInv, QueueInv, InFlight, c
  <2> QED  BY <1>a, <2>1, <2>2, <2>3, <2>4, <2>8, <2>9
           DEF ProcessInv, InFlight, c
<1>12. CASE TileThrows(p)
  BY <1>c, <1>12 DEF TileThrows
<1>13. CASE LoopDone(p)
  <2>1. cursor[p] = CellCount + 1
    <3>1. cursor[p] \in 1 .. CellCount + 1 /\ cursor[p] > CellCount
      BY <1>a, <1>13 DEF LoopDone, TypeOK
    <3> QED  BY <3>1, ShardingAssumption
  <2> QED  BY <1>a, <1>13, <2>1, IdleProcess DEF LoopDone
<1>14. CASE FlushBegin(p)
  <2>1. pc'[p] = "draining" /\ round'[p] = 0
    BY <1>a, <1>14 DEF FlushBegin, TypeOK
  <2> QED  BY <1>a, <1>14, <2>1 DEF FlushBegin, ProcessInv, QueueInv, InFlight
<1>15. CASE Insert(p)
  <2> DEFINE batch == pending2[p]
             c == batch[Len(batch)]
             front == SubSeq(batch, 1, Len(batch) - 1)
  <2>1. batch \in Seq(Cell) /\ batch # <<>> /\ pc[p] = "draining"
    BY <1>a, <1>15 DEF Insert, TypeOK
  <2>2. Queued(batch) = Queued(front) \cup {c}
    BY <2>1, QueuedFront
  <2>3. /\ Increasing(front)
        /\ \A d \in Queued(front) : d < c
    <3>1. Increasing(batch)
      BY <1>a, <2>1 DEF ProcessInv, QueueInv
    <3> QED  BY <2>1, <3>1, IncreasingFront
  <2>4. \A d \in tx[p] : c < d
    BY <1>a, <2>1, <2>2 DEF ProcessInv, QueueInv
  <2>5. c \notin rows \cup tx[p]
    <3>1. c \in InFlight(p) /\ c \in Work(p) /\ c \in Int
      BY <1>a, <2>1, <2>2, WorkInTiles DEF ProcessInv, QueueInv, InFlight, Cell
    <3>2. ~(c < c)
      BY <3>1
    <3>3. \A d \in rows \cap Work(p) : d < c
      BY <1>a, <2>1, <3>1 DEF ProcessInv, QueueInv
    <3> QED  BY <2>4, <3>1, <3>2, <3>3
  <2>6. CASE writer \ {p} # {}
    BY <1>c, <1>15, <2>6 DEF Insert
  <2>7. CASE writer \ {p} = {}
    <3>1. /\ pending2'[p] = front /\ tx'[p] = tx[p] \cup {c}
          /\ UNCHANGED <<pc, cursor, left, pending1, round, closing, rows>>
      BY <1>a, <1>15, <2>5, <2>7 DEF Insert, TypeOK
    <3> HIDE DEF batch, c, front
    <3>2. InFlight(p)' = InFlight(p)
      BY <2>2, <3>1 DEF InFlight, batch
    <3>3. QueueInv(p)'
      BY <1>a, <1>15, <2>1, <2>2, <2>3, <2>4, <3>1, <3>2
         DEF Insert, ProcessInv, QueueInv, batch
    <3> QED  BY <1>a, <2>1, <3>1, <3>2, <3>3 DEF ProcessInv
  <2> QED  BY <2>6, <2>7
<1>16. CASE Swap(p)
  <2>1. /\ pc[p] = "draining" /\ round[p] \in 0 .. 1 /\ pending2[p] = <<>>
        /\ pending1'[p] = <<>> /\ pending2'[p] = pending1[p]
        /\ round'[p] = round[p] + 1
        /\ UNCHANGED <<pc, cursor, left, closing, tx, rows>>
    BY <1>a, <1>16 DEF Swap, TypeOK
  <2>2. round'[p] > 0 /\ (round'[p] = 2 => round[p] > 0)
    BY <2>1
  <2>3. InFlight(p)' = InFlight(p)
    BY <2>1 DEF InFlight
  <2>4. \A c \in Queued(pending1[p]), d \in tx[p] : c < d
    BY <1>a, <2>1, EmptyQueue DEF ProcessInv, QueueInv
  <2>5. QueueInv(p)'
    BY <1>a, <2>1, <2>2, <2>3, <2>4, EmptyQueue DEF ProcessInv, QueueInv
  <2> QED  BY <1>a, <2>1, <2>2, <2>3, <2>5 DEF ProcessInv
<1>17. CASE Commit(p)
  <2>1. /\ pc[p] = "draining" /\ round[p] = 2
        /\ pc'[p] = (IF closing[p] THEN "used" ELSE "looping")
        /\ rows' = rows \cup tx[p] /\ tx'[p] = {}
        /\ UNCHANGED <<cursor, left, pending1, pending2, round, closing>>
    BY <1>a, <1>17 DEF Commit, TypeOK
  <2>2. pending1[p] = <<>> /\ pending2[p] = <<>>
    BY <1>a, <2>1 DEF ProcessInv, QueueInv
  <2>3. InFlight(p) = tx[p] /\ InFlight(p)' = {}
    BY <2>1, <2>2, EmptyQueue DEF InFlight
  <2>4. WorkBelow(p, cursor[p]) = rows' \cap Work(p)
    BY <1>a, <2>1, <2>3, WorkInTiles DEF ProcessInv, QueueInv
  <2>5. QueueInv(p)'
    BY <2>1, <2>2, <2>3, EmptyQueue DEF QueueInv
  <2>6. closing[p] => Work(p) \subseteq rows'
    BY <1>a, <2>4, WorkAll DEF ProcessInv
  <2>7. \A c \in rows' \cap Work(p) : WorkBelow(p, c) \subseteq rows'
    <3> SUFFICES ASSUME NEW c \in rows' \cap Work(p) PROVE WorkBelow(p, c) \subseteq rows'
      OBVIOUS
    <3>1. c < cursor[p] /\ c \in Int /\ cursor[p] \in Int
      BY <1>a, <2>4, WorkInTiles, ShardingAssumption DEF WorkBelow, TypeOK, Cell
    <3>2. \A d \in Int : d < c => d < cursor[p]
      BY <3>1
    <3>3. WorkBelow(p, c) \subseteq WorkBelow(p, cursor[p])
      BY <3>2, WorkInTiles DEF WorkBelow, Cell
    <3> QED  BY <2>4, <3>3
  <2> QED  BY <1>a, <2>1, <2>2, <2>3, <2>4, <2>5, <2>6, <2>7 DEF ProcessInv
<1>18. CASE CloseLock(p)
  <2>1. pc'[p] = "closeLocked" /\ closing'[p]
    BY <1>a, <1>18 DEF CloseLock, TypeOK
  <2> QED  BY <1>a, <1>18, <2>1 DEF CloseLock, ProcessInv, QueueInv, InFlight
<1>19. CASE CloseUsed(p)
  BY <1>a, <1>19, IdleProcess DEF CloseUsed
<1>20. CASE DestroyLock(p)
  BY <1>a, <1>20, IdleProcess DEF DestroyLock
<1>21. CASE MoveDatabase(p)
  BY <1>a, <1>21, IdleProcess DEF MoveDatabase
<1>22. CASE CloseConnection(p)
  BY <1>a, <1>22, IdleProcess DEF CloseConnection
<1>23. CASE CleanedUp(p)
  BY <1>a, <1>23, IdleProcess DEF CleanedUp
<1>24. CASE FreeInputLock(p)
  BY <1>a, <1>24, IdleProcess DEF FreeInputLock
<1>25. CASE FreeInput(p)
  BY <1>a, <1>25, IdleProcess DEF FreeInput
<1>26. CASE Exit(p)
  BY <1>a, <1>26, IdleProcess DEF Exit
<1> QED
  BY <1>1, <1>2, <1>3, <1>4, <1>5, <1>6, <1>7, <1>8, <1>9,
     <1>10, <1>11, <1>12, <1>13, <1>14, <1>15, <1>16, <1>17, <1>18,
     <1>19, <1>20, <1>21, <1>22, <1>23, <1>24, <1>25, <1>26
  DEF Step

-----------------------------------------------------------------------------
(* The invariant.                                                          *)

LEMMA InitInv == Init => IInv
<1> SUFFICES ASSUME Init PROVE IInv
  OBVIOUS
<1>1. TypeOK
  BY ShardingAssumption DEF Init, TypeOK, Locations
<1>2. LockInv /\ SqliteInv
  BY DEF Init, LockInv, SqliteInv, Merging, Reading
<1>3. ASSUME NEW p \in Shard PROVE ProcessInv(p)
  <2>1. WorkBelow(p, 1) = {}
    <3>1. \A c \in Work(p) : ~(c < 1)
      BY ShardingAssumption DEF Work, Cell
    <3> QED  BY <3>1 DEF WorkBelow
  <2>2. InFlight(p) = {} /\ cursor[p] = 1 /\ pc[p] = "loading"
    BY EmptyQueue DEF Init, InFlight
  <2>3. QueueInv(p)
    BY <2>2, EmptyQueue DEF Init, QueueInv
  <2> QED  BY <2>1, <2>2, <2>3
           DEF Init, ProcessInv, Ended, Failed, Reading, Flushed
<1> QED  BY <1>1, <1>2, <1>3 DEF IInv

LEMMA StepInv == IInv /\ [Next]_vars => IInv'
<1> SUFFICES ASSUME IInv, [Next]_vars PROVE IInv'
  OBVIOUS
<1>a. TypeOK /\ LockInv /\ SqliteInv /\ \A q \in Shard : ProcessInv(q)
  BY DEF IInv
<1>1. CASE \E p \in Shard : Step(p)
  <2> PICK p \in Shard : Step(p)
    BY <1>1
  <2>1. ASSUME NEW q \in Shard PROVE ProcessInv(q)'
    <3>1. CASE q = p
      BY <3>1, StepProcess
    <3>2. CASE q # p
      BY <1>a, <3>2, StepUnmoved, Frame
    <3> QED  BY <3>1, <3>2
  <2> QED  BY <2>1, StepType, StepLocks DEF IInv
<1>2. CASE \E p \in Shard : Kill(p)
  <2> PICK p \in Shard : Kill(p)
    BY <1>2
  <2>1. Die(p, "killed") /\ "killed" \in Failed \ {"constraint"}
    BY DEF Kill, Failed
  <2>2. ASSUME NEW q \in Shard PROVE ProcessInv(q)'
    <3>1. CASE q = p
      BY <1>a, <2>1, <3>1, DieProcess DEF Kill
    <3>2. CASE q # p
      BY <1>a, <2>1, <3>2, DieUnmoved, Frame
    <3> QED  BY <3>1, <3>2
  <2> QED  BY <1>a, <2>1, <2>2, DieType, DieLocks DEF IInv
<1>3. CASE UNCHANGED vars
  <2> USE DEF vars, memory, database
  <2>1. TypeOK' /\ LockInv' /\ SqliteInv'
    BY <1>a, <1>3 DEF TypeOK, LockInv, SqliteInv
  <2>2. ASSUME NEW q \in Shard PROVE ProcessInv(q)'
    BY <1>a, <1>3, Frame DEF Unmoved
  <2> QED  BY <2>1, <2>2 DEF IInv
<1> QED  BY <1>1, <1>2, <1>3 DEF Next, AllEnded

\* IInv holds in every reachable state, so the locks, the queues and the
\* table of every process are where the code expects them to be.
THEOREM Inductive == Spec => []IInv
<1> QED  BY InitInv, StepInv, PTL DEF Spec

\* Every variable keeps its type, whatever is killed and whenever.
THEOREM TypeCorrect == Spec => []TypeOK
<1>1. IInv => TypeOK
  BY DEF IInv
<1> QED  BY <1>1, Inductive, PTL

-----------------------------------------------------------------------------
(* What follows from it.                                                   *)

LEMMA OneHolder ==
  ASSUME NEW p, NEW q, NEW d, NEW e, {<<p, d>>} = {<<q, e>>}
  PROVE  p = q
<1>1. <<p, d>> = <<q, e>>
  OBVIOUS
<1> QED  BY <1>1

\* No two processes query or write merged.mbtiles at the same time.
THEOREM MutualExclusion == Spec => []OneInDatabase
<1>1. ASSUME IInv, NEW p \in Shard, NEW q \in Shard,
             UsesDatabase(p), UsesDatabase(q)
      PROVE  p = q
  <2>1. holder = {<<p, "merged">>} /\ holder = {<<q, "merged">>}
    BY <1>1 DEF IInv, LockInv, UsesDatabase, Merging
  <2> QED  BY <2>1, OneHolder
<1>2. IInv => OneInDatabase
  BY <1>1 DEF OneInDatabase
<1> QED  BY <1>2, Inductive, PTL

\* The unique index of the table never refuses a row.
THEOREM UniqueRows == Spec => []NoDuplicateRow
<1>1. IInv => NoDuplicateRow
  BY DEF IInv, NoDuplicateRow, ProcessInv
<1> QED  BY <1>1, Inductive, PTL

\* What a shard has committed is an initial part of its work, even when its
\* process was killed or aborted between two batches or within one.
THEOREM PrefixCommitted == Spec => []CommittedInOrder
<1>1. IInv => CommittedInOrder
  BY DEF IInv, CommittedInOrder, ProcessInv
<1> QED  BY <1>1, Inductive, PTL

\* Every tile a live process has passed is committed or still in its queues.
THEOREM NoTileLost == Spec => []NothingLost
<1>1. ASSUME IInv, NEW p \in Shard, pc[p] \notin Ended
      PROVE  /\ WorkBelow(p, cursor[p]) = (rows \cap Work(p)) \cup InFlight(p)
             /\ rows \cap InFlight(p) = {}
  <2>1. ProcessInv(p)
    BY <1>1 DEF IInv
  <2>2. \A c \in rows \cap Work(p), d \in InFlight(p) : c < d
    BY <1>1, <2>1 DEF ProcessInv, QueueInv
  <2>3. InFlight(p) \subseteq Work(p)
    BY <1>1, <2>1, WorkInTiles DEF ProcessInv, QueueInv
  <2>4. \A c \in Work(p) : ~(c < c)
    BY WorkInTiles DEF Cell
  <2> QED  BY <1>1, <2>1, <2>2, <2>3, <2>4 DEF ProcessInv
<1>2. IInv => NothingLost
  BY <1>1 DEF NothingLost
<1> QED  BY <1>2, Inductive, PTL

\* A process that returns from main() has committed all of its tiles.
THEOREM Completeness == Spec => []DoneIsComplete
<1>1. IInv => DoneIsComplete
  BY DEF IInv, DoneIsComplete, ProcessInv, Flushed
<1> QED  BY <1>1, Inductive, PTL

\* SQLITE_BUSY reaches a process only as it opens the database while the
\* last connection of others cleans up, never a write in the middle.
THEOREM BusyIsRare == Spec => BusyOnlyAtOpening
<1>1. ASSUME IInv, [Next]_vars, NEW p \in Shard, pc'[p] = "busy", pc[p] # "busy"
      PROVE  pc[p] = "opening" /\ cleaner # {}
  <2> USE DEF Goto
  <2>a. TypeOK /\ LockInv /\ SqliteInv
    BY <1>1 DEF IInv
  <2>b. pc'[p] # pc[p]
    BY <1>1
  <2>1. Step(p)
    <3>1. CASE \E q \in Shard : Step(q)
      BY <1>1, <2>b, <3>1, StepUnmoved DEF Unmoved
    <3>2. CASE \E q \in Shard : Kill(q)
      BY <1>1, <2>a, <2>b, <3>2 DEF Kill, Die, TypeOK
    <3>3. CASE UNCHANGED vars
      BY <2>b, <3>3 DEF vars
    <3> QED  BY <1>1, <3>1, <3>2, <3>3 DEF Next, AllEnded
  \* Whoever has SQLite's write lock has the flock, too.
  <2>2. ASSUME NEW q \in writer, pc[p] \in Merging
        PROVE  q = p
    <3>1. q \in Shard /\ pc[q] \in Merging
      BY <2>a DEF TypeOK, SqliteInv, Merging
    <3>2. holder = {<<p, "merged">>} /\ holder = {<<q, "merged">>}
      BY <2>a, <2>2, <3>1 DEF LockInv
    <3> QED  BY <3>2, OneHolder
  <2>3. \/ OpenMerged(p) /\ cleaner \cup writer # {}
        \/ WriteMetadata(p) /\ writer # {}
        \/ Insert(p) /\ writer \ {p} # {}
    BY <1>1, <2>a, <2>1 DEF Step, TypeOK, Die, LoadInputs, OpenLock, OpenMerged,
       ReadMetadataLock, ReadMetadata, ReadMetadataDone, WriteMetadataLock,
       WriteMetadata, WriteMetadataDone, SkipCell, SaveTile, TileThrows,
       LoopDone, FlushBegin, Insert, Swap, Commit, CloseLock, CloseUsed,
       DestroyLock, MoveDatabase, CloseConnection, CleanedUp, FreeInputLock,
       FreeInput, Exit
  <2>4. pc[p] \in {"writingMetadata", "opening"} => writer = {}
    BY <2>a, <2>2 DEF SqliteInv, Merging
  <2>5. pc[p] = "draining" => writer \subseteq {p}
    BY <2>2 DEF Merging
  <2> QED  BY <2>3, <2>4, <2>5 DEF OpenMerged, WriteMetadata, Insert
<1>2. IInv /\ [Next]_vars =>
        [\A p \in Shard : pc'[p] = "busy" /\ pc[p] # "busy" =>
           pc[p] = "opening" /\ cleaner # {}]_vars
  BY <1>1
<1> QED  BY <1>2, Inductive, PTL DEF Spec, BusyOnlyAtOpening

-----------------------------------------------------------------------------
(* The refinement of SharedTable.                                          *)

LEMMA SameWork ==
  ASSUME NEW p \in Shard
  PROVE  Table!Work(p) = Work(p) /\ \A n : Table!WorkBelow(p, n) = WorkBelow(p, n)
BY DEF Table!Work, Work, Table!WorkBelow, WorkBelow

LEMMA DieFails ==
  ASSUME TypeOK, NEW p \in Shard, pc[p] \notin Ended, NEW why \in Failed,
         Die(p, why)
  PROVE  Table!Fail(p)
<1>1. Outcome(p) = "running"
  BY DEF Outcome, Ended
<1>2. pc' = [pc EXCEPT ![p] = why] /\ rows' = rows
  BY DEF Die, Goto
<1>3. Outcome(p)' = "failed"
  BY <1>2 DEF TypeOK, Outcome, Failed
<1>4. \A q \in Shard : q # p => Outcome(q)' = Outcome(q)
  BY <1>2 DEF TypeOK, Outcome
<1> QED  BY <1>1, <1>2, <1>3, <1>4 DEF Table!Fail

LEMMA StepTable ==
  ASSUME IInv, NEW p \in Shard, Step(p)
  PROVE  [Table!Next]_(Table!vars)
<1> USE DEF Goto, memory, database
<1>a. TypeOK /\ ProcessInv(p)
  BY DEF IInv
<1>b. p \in Table!Shard
  BY DEF Table!Shard, Shard
<1>1. CASE \E why \in Failed : Die(p, why)
  <2>1. pc[p] \notin Ended
    BY <1>a DEF Ended, Failed, Step, LoadInputs, OpenLock, OpenMerged,
       ReadMetadataLock, ReadMetadata, ReadMetadataDone, WriteMetadataLock,
       WriteMetadata, WriteMetadataDone, SkipCell, SaveTile, TileThrows,
       LoopDone, FlushBegin, Insert, Swap, Commit, CloseLock, CloseUsed,
       DestroyLock, MoveDatabase, CloseConnection, CleanedUp, FreeInputLock,
       FreeInput, Exit
  <2> QED  BY <1>a, <1>b, <1>1, <2>1, DieFails DEF Table!Next
<1>2. CASE Exit(p)
  <2>1. Work(p) \subseteq rows /\ pc[p] = "freeInputs"
    BY <1>a, <1>2 DEF Exit, ProcessInv, Flushed
  <2>2. Outcome(p) = "running" /\ Outcome(p)' = "succeeded"
    BY <1>a, <1>2 DEF Exit, TypeOK, Outcome, Failed
  <2>3. \A q \in Shard : q # p => Outcome(q)' = Outcome(q)
    BY <1>a, <1>2 DEF Exit, TypeOK, Outcome
  <2>4. Table!Succeed(p)
    BY <1>2, <2>1, <2>2, <2>3, SameWork DEF Exit, Table!Succeed
  <2> QED  BY <1>b, <2>4 DEF Table!Next
<1>3. CASE Commit(p)
  <2>1. /\ pc[p] = "draining" /\ round[p] = 2
        /\ pc' = [pc EXCEPT ![p] = IF closing[p] THEN "used" ELSE "looping"]
        /\ rows' = rows \cup tx[p]
    BY <1>3 DEF Commit
  <2>2. \A q \in Shard : Outcome(q)' = Outcome(q)
    BY <1>a, <2>1 DEF TypeOK, Outcome, Failed
  <2>3. Outcome(p) = "running"
    BY <2>1 DEF Outcome, Failed
  <2>4. pending1[p] = <<>> /\ pending2[p] = <<>>
    BY <1>a, <2>1 DEF ProcessInv, QueueInv, Ended, Failed
  <2>5. InFlight(p) = tx[p]
    BY <2>4, EmptyQueue DEF InFlight
  <2>6. WorkBelow(p, cursor[p]) = (rows \cap Work(p)) \cup tx[p]
    BY <1>a, <2>1, <2>5 DEF ProcessInv, Ended, Failed
  <2>7. rows' = rows \cup Table!WorkBelow(p, cursor[p])
    BY <2>1, <2>6, SameWork
  <2>8. cursor[p] \in 1 .. CellCount + 1
    BY <1>a DEF TypeOK
  <2>9. Table!Publish(p)
    BY <2>2, <2>3, <2>7, <2>8 DEF Table!Publish
  <2> QED  BY <1>b, <2>9 DEF Table!Next
<1>4. CASE /\ ~\E why \in Failed : Die(p, why)
           /\ ~Exit(p) /\ ~Commit(p)
  <2>1. \E l \in Locations \ Ended : pc' = [pc EXCEPT ![p] = l]
    BY <1>a, <1>4 DEF TypeOK, Locations, Merging, Reading, Ended, Failed, Step,
       LoadInputs, OpenLock, OpenMerged, ReadMetadataLock, ReadMetadata,
       ReadMetadataDone, WriteMetadataLock, WriteMetadata, WriteMetadataDone,
       SkipCell, SaveTile, TileThrows, LoopDone, FlushBegin, Insert, Swap,
       CloseLock, CloseUsed, DestroyLock, MoveDatabase, CloseConnection,
       CleanedUp, FreeInputLock, FreeInput
  <2>2. pc[p] \notin Ended /\ rows' = rows
    BY <1>a, <1>4 DEF TypeOK, Ended, Failed, Step,
       LoadInputs, OpenLock, OpenMerged, ReadMetadataLock, ReadMetadata,
       ReadMetadataDone, WriteMetadataLock, WriteMetadata, WriteMetadataDone,
       SkipCell, SaveTile, TileThrows, LoopDone, FlushBegin, Insert, Swap,
       CloseLock, CloseUsed, DestroyLock, MoveDatabase, CloseConnection,
       CleanedUp, FreeInputLock, FreeInput
  <2>3. \A q \in Shard : Outcome(q)' = Outcome(q)
    BY <1>a, <2>1, <2>2 DEF TypeOK, Outcome, Ended
  <2> QED  BY <2>2, <2>3 DEF Table!vars
<1> QED  BY <1>1, <1>2, <1>3, <1>4

\* The processes together implement the table their users see: whatever the
\* interleaving and the kills, every step is invisible in merged.mbtiles,
\* publishes an initial part of one shard's work, or ends a process, and a
\* process succeeds only when its work is published.
THEOREM Refinement == Spec => ImplementsTable
<1>1. Init => Table!Init
  <2> SUFFICES ASSUME Init PROVE Table!Init
    OBVIOUS
  <2>1. \A q \in Shard : Outcome(q) = "running"
    BY DEF Init, Outcome, Failed
  <2> QED  BY <2>1 DEF Init, Table!Init, Table!Shard, Shard
<1>2. IInv /\ [Next]_vars => [Table!Next]_(Table!vars)
  <2> SUFFICES ASSUME IInv, [Next]_vars PROVE [Table!Next]_(Table!vars)
    OBVIOUS
  <2>1. CASE \E p \in Shard : Step(p)
    BY <2>1, StepTable
  <2>2. CASE \E p \in Shard : Kill(p)
    <3> PICK p \in Shard : Kill(p)
      BY <2>2
    <3>1. TypeOK /\ pc[p] \notin Ended /\ Die(p, "killed") /\ "killed" \in Failed
      BY DEF IInv, Kill, Failed
    <3> QED  BY <3>1, DieFails DEF Table!Next, Table!Shard, Shard
  <2>3. CASE UNCHANGED vars
    BY <2>3 DEF vars, database, Table!vars, Outcome
  <2> QED  BY <2>1, <2>2, <2>3 DEF Next, AllEnded
<1> QED  BY <1>1, <1>2, Inductive, PTL DEF Spec, Table!Spec, ImplementsTable

=============================================================================
