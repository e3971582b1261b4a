---------------------------- MODULE NewlineChunks ----------------------------
(***************************************************************************)
(* getNewlineChunks: a file is divided into chunks of about equal length,  *)
(* each of which ends before a newline or with the file.  The file is read *)
(* through a buffer; another program may append to it between the stat     *)
(* that fixes the size and the last read.                                  *)
(***************************************************************************)
EXTENDS Integers, Sequences

CONSTANTS
  Chunks,     \* into how many chunks the caller asks to divide the file
  Buffer,     \* the length of the buffer, 8192
  MaxLength   \* a bound on the length of the file

ASSUME NewlineChunksAssumption ==
  Chunks \in Nat \ {0} /\ Buffer \in Nat \ {0} /\ MaxLength \in Nat

Byte == {"newline", "other"}

VARIABLES
  pc,        \* "stat", "chunk", "scan" or "done"
  file,      \* byte n of the file, counted from 0, is file[n + 1]
  size,      \* the length of the file at the stat
  chunkSize,
  offset, length,  \* the chunk
  at, eof,   \* the position and the end-of-file indicator of fp
  rv         \* the chunks that have been found

vars == <<pc, file, size, chunkSize, offset, length, at, eof, rv>>

Smaller(a, b) == IF b < a THEN b ELSE a
IsNewline(n) == file[n + 1] = "newline"

-----------------------------------------------------------------------------
\* Another program.
Grow ==
  /\ pc # "done" /\ Len(file) < MaxLength
  /\ \E b \in Byte : file' = Append(file, b)
  /\ UNCHANGED <<pc, size, chunkSize, offset, length, at, eof, rv>>

Stat ==
  /\ pc = "stat"
  /\ size' = Len(file)
  /\ chunkSize' = IF size' \div Chunks = 0 THEN 1 ELSE size' \div Chunks
  /\ pc' = "chunk"
  /\ UNCHANGED <<file, offset, length, at, eof, rv>>

\* The shortest length of the next chunk, behind which fseek goes.
StartChunk ==
  /\ pc = "chunk" /\ offset < size
  /\ length' = Smaller(chunkSize, size - offset)
  /\ at' = offset + length' /\ eof' = FALSE
  /\ pc' = "scan"
  /\ UNCHANGED <<file, size, chunkSize, offset, rv>>

\* Mutant: the length of the buffers before the newline is forgotten.
PushShort(i) ==
  /\ rv' = Append(rv, [offset |-> offset, length |-> i + 1])
  /\ offset' = offset + i + 1 /\ length' = i + 1
  /\ pc' = "chunk"

Push(i) ==
  /\ rv' = Append(rv, [offset |-> offset, length |-> length + i])
  /\ offset' = offset + length + i /\ length' = length + i
  /\ pc' = "chunk"

\* How many bytes fread returns.
Read == Smaller(Buffer, Len(file) - at)

\* Mutant: fread is tried again at the end of the file.
ReadAgain ==
  /\ pc = "scan" /\ (eof \/ Read = 0)
  /\ UNCHANGED vars

\* fread returns nothing: the chunk ends with the file.
ReadNothing ==
  /\ pc = "scan" /\ (eof \/ Read = 0)
  /\ Push(0)
  /\ UNCHANGED <<file, size, chunkSize, at, eof>>

\* Mutant: the last newline of the buffer.
FindLast ==
  /\ pc = "scan" /\ ~eof
  /\ \E i \in 0 .. Read - 1 :
       /\ IsNewline(at + i)
       /\ \A j \in i + 1 .. Read - 1 : ~IsNewline(at + j)
       /\ Push(i)
       /\ at' = at + Read
  /\ UNCHANGED <<file, size, chunkSize, eof>>

\* There is a newline in the buffer.
Find ==
  /\ pc = "scan" /\ ~eof
  /\ \E i \in 0 .. Read - 1 :
       /\ IsNewline(at + i)
       /\ \A j \in 0 .. i - 1 : ~IsNewline(at + j)
       /\ Push(i)
       /\ at' = at + Read
  /\ UNCHANGED <<file, size, chunkSize, eof>>

\* There is none.
FindNone ==
  /\ pc = "scan" /\ ~eof /\ Read > 0
  /\ \A j \in 0 .. Read - 1 : ~IsNewline(at + j)
  /\ length' = length + Read
  /\ at' = at + Read /\ eof' = (Read < Buffer)
  /\ UNCHANGED <<pc, file, size, chunkSize, offset, rv>>

Return ==
  /\ pc = "chunk" /\ offset >= size
  /\ pc' = "done"
  /\ UNCHANGED <<file, size, chunkSize, offset, length, at, eof, rv>>

Init ==
  /\ pc = "stat"
  /\ file = <<>>
  /\ size = 0 /\ chunkSize = 0
  /\ offset = 0 /\ length = 0 /\ at = 0 /\ eof = FALSE
  /\ rv = <<>>

Step == Stat \/ StartChunk \/ ReadNothing \/ Find \/ FindNone \/ Return
Next == Grow \/ Step \/ (pc = "done" /\ UNCHANGED vars)

Spec == Init /\ [][Next]_vars

\* The thread that runs the function.
FairSpec == Spec /\ WF_vars(Step)

-----------------------------------------------------------------------------
Chunk == [offset : Nat, length : Nat]

TypeOK ==
  /\ pc \in {"stat", "chunk", "scan", "done"}
  /\ file \in Seq(Byte)
  /\ size \in Nat /\ chunkSize \in Nat /\ offset \in Nat /\ length \in Nat
  /\ at \in Nat /\ eof \in BOOLEAN
  /\ rv \in Seq(Chunk)

End(k) == rv[k].offset + rv[k].length

\* The chunks lie end to end from the beginning of the file, none is empty,
\* all but the last have at least the length asked for, and together they
\* contain all that was there at the stat (helpers.cpp:195-222).
Partition ==
  /\ \A k \in DOMAIN rv :
       /\ rv[k].length > 0
       /\ rv[k].offset = IF k = 1 THEN 0 ELSE End(k - 1)
       /\ k < Len(rv) => rv[k].length >= chunkSize
  /\ pc = "done" => IF rv = <<>> THEN size = 0 ELSE End(Len(rv)) >= size

\* Whatever the buffer, a chunk ends at the first newline behind its shortest
\* length; only the last one may end without a newline
\* (helpers.cpp:179-194, 200-218).
EndsAtFirstNewline ==
  \A k \in DOMAIN rv :
    LET least == rv[k].offset + Smaller(chunkSize, size - rv[k].offset)
    IN /\ least <= End(k) /\ End(k) <= Len(file)
       /\ \A n \in least .. End(k) - 1 : ~IsNewline(n)
       /\ IF End(k) < Len(file) /\ IsNewline(End(k)) THEN TRUE
          ELSE k = Len(rv) /\ End(k) >= size

\* getNewlineChunks returns (helpers.cpp:198-222).
Returns == <>(pc = "done")

-----------------------------------------------------------------------------
(***************************************************************************)
(* The inductive invariant from which module HelperProofs derives the two  *)
(* safety properties.                                                      *)
(***************************************************************************)

\* The chunk in progress begins where the last one ended.
FrontierInv ==
  /\ offset = IF rv = <<>> THEN 0 ELSE End(Len(rv))
  /\ size <= Len(file)
  /\ pc # "stat" => chunkSize > 0
  /\ pc = "stat" => rv = <<>> /\ offset = 0
  /\ pc = "done" => offset >= size

\* What the scan has read of it.
ScanInv ==
  pc = "scan" =>
    LET least == offset + Smaller(chunkSize, size - offset)
    IN /\ offset < size /\ least <= at /\ at <= Len(file)
       /\ at = offset + length
       /\ \A n \in least .. at - 1 : ~IsNewline(n)
       /\ eof => at >= size

IInv == TypeOK /\ FrontierInv /\ ScanInv /\ Partition /\ EndsAtFirstNewline

=============================================================================
