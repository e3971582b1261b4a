------------------------------ MODULE TileLoop ------------------------------
(***************************************************************************)
(* What one tile-smush process does with the tiles: populateTiles fills a  *)
(* bit set and an extent per input and zoom, then the loops of main()      *)
(* visit every cell of the extents' union, skip those of other shards, and *)
(* copy the tile of a single matching input or merge those of several.     *)
(* ShardedMerge, where several such processes share a database, sees of    *)
(* this only the order of the cells and which of them have a tile.         *)
(*                                                                         *)
(* A tile is named by its row of the table `tiles', a triple               *)
(* <<zoom, column, row>>.  What it contains is left out: a tile written to *)
(* merged.mbtiles is given by the set of the inputs whose layers it has    *)
(* (they are appended in the order of the command line).                   *)
(***************************************************************************)
EXTENDS Integers

CONSTANTS
  Inputs,    \* how many input files there are
  Zooms,     \* the zooms are 0 .. Zooms - 1 (15)
  Side,      \* Side[z] is 1 << z
  SizeMax,   \* numeric_limits<size_t>::max()
  Shards,    \* the environment variable SHARDS
  MyShard,   \* the environment variable SHARD
  Names,     \* the rows <<zoom, column, row>> the inputs may have
  Blank,     \* the <<input, row>> whose data has 20 bytes: an empty tile
  Corrupt    \* the <<input, row>> libdeflate or vtzero rejects

Input == 1 .. Inputs
Zoom  == 0 .. Zooms - 1
Grid(z) == {z} \X (0 .. Side[z] - 1) \X (0 .. Side[z] - 1)

\* Columns and rows are small enough for the products of the code not to
\* wrap, but they may lie outside of their zoom's grid.
ASSUME TileLoopAssumption ==
  /\ Inputs \in Nat \ {0} /\ Zooms \in Nat
  /\ Side \in [Zoom -> Nat \ {0}]
  /\ Shards \in Nat \ {0} /\ MyShard \in 0 .. Shards - 1
  /\ SizeMax \in Nat \ {0}
  /\ Names \subseteq Zoom \X (0 .. SizeMax - 1) \X (0 .. SizeMax - 1)
  /\ Blank \subseteq Input \X Names
  /\ Corrupt \subseteq Input \X Names

VARIABLES
  phase,    \* "populate", "zoom", "join", "cells", "done" or "threw"
  file,     \* the rows of each input; the files are immutable
  current,  \* the input whose table populateTiles is reading
  unread,   \* the rows of that table still to be delivered
  bits,     \* Input::zooms, as a set of <<zoom, bit>> per input
  extent,   \* Input::bbox, per input and zoom
  zoom, bbox, joined, x, y,  \* the loops of main(); x and y are ints, but given
                             \* as the size_t's they are compared as
  saved     \* the calls of saveTile: a set of <<name, contents>>

files == <<file, current, unread, bits, extent>>
loops == <<zoom, bbox, joined, x, y>>
vars == <<phase, files, loops, saved>>

NoExtent == [minX |-> SizeMax, minY |-> SizeMax, maxX |-> 0, maxY |-> 0]

Least(a, b)    == IF b < a THEN b ELSE a
Greatest(a, b) == IF b > a THEN b ELSE a

-----------------------------------------------------------------------------
\* The bit of a tile in the set of its zoom, and whether the set has it.
Bit(r) == r[2] * Side[r[1]] + r[3]
InSet(r) == Bit(r) < Side[r[1]] * Side[r[1]]

\* PreciseTileCoordinatesSet::test.
Test(i, r) == InSet(r) /\ <<r[1], Bit(r)>> \in bits[i]

\* The rows of the SELECT of populateTiles, delivered in any order.
Selected(i) == {r \in file[i] : <<i, r>> \notin Blank}

ReadRow ==
  /\ phase = "populate"
  /\ \E r \in unread :
       LET z == r[1]
           e == extent[current][z]
       IN /\ unread' = unread \ {r}
          /\ bits' = [bits EXCEPT ![current] =
                        IF InSet(r) THEN @ \cup {<<z, Bit(r)>>} ELSE @]
          /\ extent' = [extent EXCEPT ![current][z] =
                          [minX |-> Least(e.minX, r[2]),
                           minY |-> Least(e.minY, r[3]),
                           maxX |-> Greatest(e.maxX, r[2]),
                           maxY |-> Greatest(e.maxY, r[3])]]
  /\ UNCHANGED <<phase, file, current, loops, saved>>

NextInput ==
  /\ phase = "populate" /\ unread = {}
  /\ IF current < Inputs
     THEN /\ current' = current + 1
          /\ unread' = Selected(current + 1)
          /\ UNCHANGED phase
     ELSE /\ phase' = "zoom"
          /\ UNCHANGED <<current, unread>>
  /\ UNCHANGED <<file, bits, extent, loops, saved>>

-----------------------------------------------------------------------------
\* The next zoom: its extent starts as that of the first input ...
EnterZoom ==
  /\ phase = "zoom" /\ zoom < Zooms
  /\ bbox' = extent[1][zoom]
  /\ joined' = 0
  /\ phase' = "join"
  /\ UNCHANGED <<files, zoom, x, y, saved>>

\* ... is joined with that of every input in turn ...
Join(e, f) == [minX |-> Least(e.minX, f.minX), minY |-> Least(e.minY, f.minY),
               maxX |-> Greatest(e.maxX, f.maxX), maxY |-> Greatest(e.maxY, f.maxY)]

\* Mutant: the extents of the other inputs are forgotten.
JoinNothing ==
  /\ phase = "join" /\ joined < Inputs
  /\ joined' = joined + 1
  /\ UNCHANGED <<phase, files, zoom, bbox, x, y, saved>>

JoinExtent ==
  /\ phase = "join" /\ joined < Inputs
  /\ bbox' = Join(bbox, extent[joined + 1][zoom])
  /\ joined' = joined + 1
  /\ UNCHANGED <<phase, files, zoom, x, y, saved>>

\* ... and bounds the loops over the columns and the rows.
StartCells ==
  /\ phase = "join" /\ joined = Inputs
  /\ x' = bbox.minX
  /\ y' = bbox.minY
  /\ phase' = "cells"
  /\ UNCHANGED <<files, zoom, bbox, joined, saved>>

\* Mutant: `zoom' is not incremented.
SameZoom ==
  /\ phase = "cells" /\ x > bbox.maxX
  /\ phase' = "zoom"
  /\ UNCHANGED <<files, loops, saved>>

NextZoom ==
  /\ phase = "cells" /\ x > bbox.maxX
  /\ zoom' = zoom + 1
  /\ phase' = "zoom"
  /\ UNCHANGED <<files, bbox, joined, x, y, saved>>

NextColumn ==
  /\ phase = "cells" /\ x <= bbox.maxX /\ y > bbox.maxY
  /\ x' = x + 1
  /\ y' = bbox.minY
  /\ UNCHANGED <<phase, files, zoom, bbox, joined, saved>>

LoopsDone ==
  /\ phase = "zoom" /\ zoom = Zooms
  /\ phase' = "done"
  /\ UNCHANGED <<files, loops, saved>>

-----------------------------------------------------------------------------
\* The cell the innermost loop is at.
AtCell == phase = "cells" /\ x <= bbox.maxX /\ y <= bbox.maxY
Here == <<zoom, x, y>>

\* `matching': the inputs whose bit set has the cell.
Matching == {i \in Input : Test(i, Here)}

Mine(r) == Bit(r) % Shards = MyShard

\* readTile returns the data of exactly one row, or throws.
Readable(i, r) == r \in file[i]

NextCell ==
  /\ y' = y + 1
  /\ UNCHANGED <<phase, files, zoom, bbox, joined, x>>

\* The cell is another shard's, or no input has it.
PassCell ==
  /\ AtCell
  /\ ~Mine(Here) \/ Matching = {}
  /\ NextCell /\ UNCHANGED saved

\* Exactly one input matches: its data is copied, whatever it is.
CopyTile ==
  /\ AtCell /\ Mine(Here)
  /\ \E i \in Input :
       /\ Matching = {i}
       /\ Readable(i, Here)
       /\ saved' = saved \cup {<<Here, Matching>>}
  /\ NextCell

\* Mutant: the result of the decompression is not checked.
MergeUnchecked ==
  /\ AtCell /\ Mine(Here)
  /\ \E i, j \in Matching : i # j
  /\ \A i \in Matching : Readable(i, Here)
  /\ saved' = saved \cup {<<Here, Matching>>}
  /\ NextCell

\* Several match: each is decompressed and its layers appended.
MergeTiles ==
  /\ AtCell /\ Mine(Here)
  /\ \E i, j \in Matching : i # j
  /\ \A i \in Matching : Readable(i, Here) /\ <<i, Here>> \notin Corrupt
  /\ saved' = saved \cup {<<Here, Matching>>}
  /\ NextCell

\* readTile finds no row, or a tile to be merged is rejected.
TileThrows ==
  /\ AtCell /\ Mine(Here)
  /\ \/ \E i \in Matching : ~Readable(i, Here)
     \/ \E i, j \in Matching : i # j /\ <<i, Here>> \in Corrupt
  /\ phase' = "threw"
  /\ UNCHANGED <<files, loops, saved>>

-----------------------------------------------------------------------------
Init ==
  /\ phase = "populate"
  /\ file \in [Input -> SUBSET Names]
  /\ current = 1
  /\ unread = Selected(1)
  /\ bits = [i \in Input |-> {}]
  /\ extent = [i \in Input |-> [z \in Zoom |-> NoExtent]]
  /\ zoom = 0 /\ bbox = NoExtent /\ joined = 0 /\ x = 0 /\ y = 0
  /\ saved = {}

Step ==
  \/ ReadRow \/ NextInput
  \/ EnterZoom \/ JoinExtent \/ StartCells
  \/ NextZoom \/ NextColumn \/ LoopsDone
  \/ PassCell \/ CopyTile \/ MergeTiles \/ TileThrows

Ended == phase \in {"done", "threw"} /\ UNCHANGED vars

Next == Step \/ Ended

Spec == Init /\ [][Next]_vars

\* A single process, which the operating system runs.
FairSpec == Spec /\ WF_vars(Step)

-----------------------------------------------------------------------------
Extents == [minX : 0 .. SizeMax, minY : 0 .. SizeMax,
            maxX : 0 .. SizeMax - 1, maxY : 0 .. SizeMax - 1]

TypeOK ==
  /\ phase \in {"populate", "zoom", "join", "cells", "done", "threw"}
  /\ file \in [Input -> SUBSET Names]
  /\ current \in Input
  /\ unread \subseteq Names
  /\ bits \in [Input -> SUBSET (Zoom \X Nat)]
  /\ extent \in [Input -> [Zoom -> Extents]]
  /\ zoom \in 0 .. Zooms
  /\ bbox \in Extents /\ joined \in 0 .. Inputs
  /\ x \in 0 .. SizeMax /\ y \in 0 .. SizeMax
  /\ saved \subseteq Names \X SUBSET Input

\* What a user expects of the merge: every tile of every input, blank ones
\* excepted, with the layers of all inputs that have it.
Contributors(r) == {i \in Input : r \in Selected(i)}
Merged == {r \in Names : Contributors(r) # {}}
Expected == {<<r, Contributors(r)>> : r \in {r \in Merged : Mine(r)}}

\* The files are valid: no tile lies outside of its zoom's grid.
Legal == \A i \in Input : \A r \in file[i] : r \in Grid(r[1])

\* A tile that this process merges is corrupt in one of the inputs.
Unmergeable(r) ==
  /\ Mine(r)
  /\ \E i, j \in Contributors(r) : i # j /\ <<i, r>> \in Corrupt

\* The order in which the loops visit the cells.
Before(r, s) ==
  \/ r[1] < s[1]
  \/ r[1] = s[1] /\ r[2] < s[2]
  \/ r[1] = s[1] /\ r[2] = s[2] /\ r[3] < s[3]

\* The bit sets, the extents and their union lead the loops to exactly the
\* tiles of this shard: each is written once and with all of its layers
\* (mbtiles.cpp:146-162, tile_coordinates_set.cpp:10-36, tile-smush.cpp:241-306).
SavedIsMerge == phase = "done" /\ Legal => saved = Expected

\* Nothing is written twice: what has been written lies before the cell the
\* loops are at (tile-smush.cpp:242-254), the basis of the cells of Sharding.
SavedBehind == AtCell => \A s \in saved : Before(s[1], Here)

\* Whatever the rows of the inputs, bits that stand for two tiles included,
\* no tile is written under a name that the inputs it is made of do not have
\* (tile_coordinates_set.cpp:10-16, mbtiles.cpp:189-193).
SavedExists ==
  \A s \in saved : \A i \in s[2] : s[1] \in file[i]

\* What the loops write is the merge, and if the rows are such that it cannot
\* be, at least nothing under a wrong name (tile-smush.cpp:242-306).
SavedExact == SavedIsMerge /\ SavedExists

\* A process aborts on valid files for one reason only, and never goes on
\* after it: a tile to be merged that is corrupt (tile-smush.cpp:284-298).
ThrowsForCause ==
  Legal /\ phase \in {"done", "threw"} =>
    (phase = "threw" <=> \E r \in Merged : Unmergeable(r))

\* The loops end, also for the zooms at which no input has a tile and the
\* extents are the initial ones (tile-smush.cpp:108-113, 242-254).
Terminates == <>(phase \in {"done", "threw"})

-----------------------------------------------------------------------------
(***************************************************************************)
(* The inductive invariant from which module TileLoopProofs derives the    *)
(* safety properties above.                                                *)
(***************************************************************************)

\* The rows of an input that populateTiles has delivered.
Seen(i) ==
  CASE phase # "populate" \/ i < current -> Selected(i)
    [] phase = "populate" /\ i = current -> Selected(i) \ unread
    [] phase = "populate" /\ i > current -> {}

Within(e, r) ==
  e.minX <= r[2] /\ r[2] <= e.maxX /\ e.minY <= r[3] /\ r[3] <= e.maxY

\* The bits and the extents are those of the delivered rows.
PopulateInv ==
  /\ phase = "populate" => unread \subseteq Selected(current)
  /\ \A i \in Input : bits[i] = {<<r[1], Bit(r)>> : r \in {r \in Seen(i) : InSet(r)}}
  /\ \A i \in Input : \A r \in Seen(i) : Within(extent[i][r[1]], r)
  /\ Legal => \A i \in Input : \A z \in Zoom :
       extent[i][z].maxX < Side[z] /\ extent[i][z].maxY < Side[z]

\* The loops' bounds contain every tile of the inputs joined so far.
BoundsInv ==
  /\ phase \in {"join", "cells"} => zoom < Zooms
  /\ phase = "join" => \A i \in 1 .. joined : \A r \in Selected(i) :
       r[1] = zoom => Within(bbox, r)
  /\ phase = "cells" => \A i \in Input : \A r \in Selected(i) :
       r[1] = zoom => Within(bbox, r)
  /\ Legal /\ phase \in {"join", "cells"} =>
       bbox.maxX < Side[zoom] /\ bbox.maxY < Side[zoom]

\* The loops have passed a cell.
Passed(r) ==
  \/ r[1] < zoom
  \/ phase \in {"cells", "threw"} /\ Before(r, Here)

\* What has been written is the merge of the cells passed.
SavedInv ==
  /\ phase = "done" => zoom = Zooms
  /\ \A s \in saved : Passed(s[1]) /\ \A i \in s[2] : s[1] \in file[i]
  /\ Legal => saved = {<<r, Contributors(r)>> :
                         r \in {r \in Merged : Mine(r) /\ Passed(r)}}
  /\ Legal => \A r \in Merged : Passed(r) => ~Unmergeable(r)
  /\ Legal /\ phase = "threw" => \E r \in Merged : Unmergeable(r)

IInv == TypeOK /\ PopulateInv /\ BoundsInv /\ SavedInv

=============================================================================
