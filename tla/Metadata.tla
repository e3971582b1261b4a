------------------------------ MODULE Metadata ------------------------------
(***************************************************************************)
(* How shard 0 merges the `metadata' tables of the inputs: it gathers the  *)
(* entries, the zooms, the layers and the bounds of all inputs, writes     *)
(* what it gathered, and then overwrites the four entries it has computed, *)
(* each write being a transaction of its own.                              *)
(*                                                                         *)
(* The scan of a `json' value is that of module VectorLayers; such a value *)
(* is NoLayers if strstr finds none.  The file that has been written may   *)
(* become the input of another merge.                                      *)
(*                                                                         *)
(* Degrees are integers, and finer than the six decimals that to_string    *)
(* prints: Unit of them are one in the last of these.  Tiny stands for     *)
(* numeric_limits<double>::min(), with which maxLon and maxLat start: it   *)
(* is positive, and far below what is printed.                             *)
(***************************************************************************)
EXTENDS VectorLayers

CONSTANTS
  Inputs,    \* how many input files there are
  Metas,     \* the `metadata' tables an input may have
  Names,     \* the entries' names, in the order of a std::map
  NoLayers,  \* a `json' without vector_layers
  Tiny, Big, \* numeric_limits<double>::min() and max()
  Unit       \* one in the sixth decimal of a degree

Input == 1 .. Inputs
NameSet == {Names[n] : n \in DOMAIN Names}
Computed == {"bounds", "json", "maxzoom", "minzoom"}

\* No double exceeds Big, and no positive degree is as small as Tiny.
Degrees == {d \in Int : d <= Big /\ (d <= 0 \/ d > Tiny)}
Boxes == [minLon : Degrees, minLat : Degrees, maxLon : Degrees, maxLat : Degrees]

IsMeta(m) ==
  /\ DOMAIN m \subseteq NameSet
  /\ "json" \in DOMAIN m /\ m["json"] # NoLayers =>
       m["json"].list \in Seq(Objects) /\ m["json"].tail \in Tails
  /\ "minzoom" \in DOMAIN m => m["minzoom"] \in Nat
  /\ "maxzoom" \in DOMAIN m => m["maxzoom"] \in Nat
  /\ "bounds" \in DOMAIN m => m["bounds"] \in Boxes

ASSUME MetadataAssumption ==
  /\ Inputs \in Nat \ {0}
  /\ Names \in Seq(STRING) /\ Computed \subseteq NameSet
  /\ Tiny \in Nat \ {0} /\ Big \in Nat /\ Tiny < Big
  /\ Unit \in Nat \ {0} /\ 2 * Tiny < Unit /\ Big % Unit = 0
  /\ <<"}">> \in Tails
  /\ \A m \in Metas : IsMeta(m)

VARIABLES
  phase,     \* "gather", "scan", "dump", one of Computed, "done" or "threw"
  meta,      \* the table of each input
  current,   \* the input main() is at
  unread,    \* the names of its entries not yet looked at
  metadata, minzoom, maxzoom, box,  \* the variables of main()
  next,      \* the name in Names the dump is at
  table      \* the entries committed to merged.mbtiles

scan == <<text, pos, start, braces, layers>>
gathered == <<current, unread, metadata, minzoom, maxzoom, box>>
vars == <<phase, meta, gathered, scan, next, table>>

With(f, n, v) == [k \in DOMAIN f \cup {n} |-> IF k = n THEN v ELSE f[k]]

-----------------------------------------------------------------------------
\* Mutant: map::insert, which keeps the first value.
ReadEntryInsert ==
  /\ phase = "gather"
  /\ \E n \in unread :
       LET v == meta[current][n]
       IN /\ unread' = unread \ {n}
          /\ metadata' = IF n \in DOMAIN metadata THEN metadata ELSE With(metadata, n, v)
          /\ minzoom' = IF n = "minzoom" /\ v < minzoom THEN v ELSE minzoom
          /\ maxzoom' = IF n = "maxzoom" /\ v > maxzoom THEN v ELSE maxzoom
          /\ IF n # "json" THEN UNCHANGED <<phase, text, pos, start, braces>>
             ELSE IF v = NoLayers
             THEN phase' = "threw" /\ UNCHANGED <<text, pos, start, braces>>
             ELSE phase' = "scan" /\ StartScan(v)
  /\ UNCHANGED <<meta, current, layers, box, next, table>>

\* An entry of readMetadata(), in the order of the SELECT.
ReadEntry ==
  /\ phase = "gather"
  /\ \E n \in unread :
       LET v == meta[current][n]
       IN /\ unread' = unread \ {n}
          /\ metadata' = With(metadata, n, v)
          /\ minzoom' = IF n = "minzoom" /\ v < minzoom THEN v ELSE minzoom
          /\ maxzoom' = IF n = "maxzoom" /\ v > maxzoom THEN v ELSE maxzoom
          /\ IF n # "json" THEN UNCHANGED <<phase, text, pos, start, braces>>
             ELSE IF v = NoLayers
             THEN phase' = "threw" /\ UNCHANGED <<text, pos, start, braces>>
             ELSE phase' = "scan" /\ StartScan(v)
  /\ UNCHANGED <<meta, current, layers, box, next, table>>

\* The while loop over the text, and what follows it.
ScanJson ==
  /\ phase = "scan" /\ Scan
  /\ UNCHANGED <<phase, meta, gathered, next, table>>

ScanEnds ==
  /\ phase = "scan" /\ ~Scanning
  /\ phase' = "gather"
  /\ UNCHANGED <<meta, gathered, scan, next, table>>

\* Mutant: each maximum is only looked at if the minimum stays.
UnionElse(b, c) ==
  [minLon |-> IF c.minLon < b.minLon THEN c.minLon ELSE b.minLon,
   minLat |-> IF c.minLat < b.minLat THEN c.minLat ELSE b.minLat,
   maxLon |-> IF c.minLon >= b.minLon /\ c.maxLon > b.maxLon THEN c.maxLon ELSE b.maxLon,
   maxLat |-> IF c.minLat >= b.minLat /\ c.maxLat > b.maxLat THEN c.maxLat ELSE b.maxLat]

Union(b, c) ==
  [minLon |-> IF c.minLon < b.minLon THEN c.minLon ELSE b.minLon,
   minLat |-> IF c.minLat < b.minLat THEN c.minLat ELSE b.minLat,
   maxLon |-> IF c.maxLon > b.maxLon THEN c.maxLon ELSE b.maxLon,
   maxLat |-> IF c.maxLat > b.maxLat THEN c.maxLat ELSE b.maxLat]

\* The end of an input's iteration: the next one, or the dump.
Advance(i) ==
  IF i < Inputs
  THEN current' = i + 1 /\ unread' = DOMAIN meta[i + 1] /\ phase' = phase
  ELSE phase' = "dump" /\ UNCHANGED <<current, unread>>

\* readBoundingBox, which throws unless there is exactly one row.
ReadBounds ==
  /\ phase = "gather" /\ unread = {}
  /\ "bounds" \in DOMAIN meta[current]
  /\ box' = Union(box, meta[current]["bounds"])
  /\ Advance(current)
  /\ UNCHANGED <<meta, metadata, minzoom, maxzoom, scan, next, table>>

\* Mutant: bounds that are missing are taken to be empty.
NoBoundsSkips ==
  /\ phase = "gather" /\ unread = {}
  /\ "bounds" \notin DOMAIN meta[current]
  /\ Advance(current)
  /\ UNCHANGED <<meta, metadata, minzoom, maxzoom, box, scan, next, table>>

NoBounds ==
  /\ phase = "gather" /\ unread = {}
  /\ "bounds" \notin DOMAIN meta[current]
  /\ phase' = "threw"
  /\ UNCHANGED <<meta, gathered, scan, next, table>>

-----------------------------------------------------------------------------
\* REPLACE, in a transaction of its own.
WriteMetadata(n, v) == table' = With(table, n, v)

\* The gathered entries, one after the other ...
Dump ==
  /\ phase = "dump" /\ next <= Len(Names)
  /\ IF Names[next] \in DOMAIN metadata
     THEN WriteMetadata(Names[next], metadata[Names[next]])
     ELSE UNCHANGED table
  /\ next' = next + 1
  /\ UNCHANGED <<phase, meta, gathered, scan>>

\* to_string: the nearest number with six decimals, the even one of two.
Nearest(v) ==
  LET r == v % Unit
  IN IF 2 * r < Unit \/ (2 * r = Unit /\ (v \div Unit) % 2 = 0) THEN v - r ELSE v - r + Unit

\* ... and over them the four computed ones.
Printed(b) == [d \in DOMAIN b |-> Nearest(b[d])]

MergedValue(n) ==
  CASE n = "bounds"  -> Printed(box)
    [] n = "minzoom" -> minzoom
    [] n = "maxzoom" -> maxzoom
    [] n = "json"    -> PrintJson(layers)

Overwrite(from, n, to) ==
  /\ phase = from
  /\ from = "dump" => next > Len(Names)
  /\ WriteMetadata(n, MergedValue(n))
  /\ phase' = to
  /\ UNCHANGED <<meta, gathered, scan, next>>

WriteBounds  == Overwrite("dump", "bounds", "minzoom")
WriteMinzoom == Overwrite("minzoom", "minzoom", "maxzoom")
WriteMaxzoom == Overwrite("maxzoom", "maxzoom", "json")
WriteJson    == Overwrite("json", "json", "done")

NoBox == [minLon |-> Big, minLat |-> Big, maxLon |-> Tiny, maxLat |-> Tiny]

Init ==
  /\ phase = "gather"
  /\ meta \in [Input -> Metas]
  /\ current = 1 /\ unread = DOMAIN meta[1]
  /\ metadata = <<>> /\ layers = {}
  /\ text = <<>> /\ pos = 1 /\ start = 0 /\ braces = 0
  /\ minzoom = 100 /\ maxzoom = 0 /\ box = NoBox
  /\ next = 1 /\ table = <<>>

\* Another merge, of the file that has been written and all inputs of this one
\* but the first.
MergeAgain ==
  /\ phase = "done" /\ ~\E i \in Input : meta[i] = table
  /\ phase' = "gather"
  /\ meta' = [meta EXCEPT ![1] = table]
  /\ current' = 1 /\ unread' = DOMAIN table
  /\ metadata' = <<>> /\ layers' = {}
  /\ text' = <<>> /\ pos' = 1 /\ start' = 0 /\ braces' = 0
  /\ minzoom' = 100 /\ maxzoom' = 0 /\ box' = NoBox
  /\ next' = 1 /\ table' = <<>>

Step ==
  \/ ReadEntry \/ ScanJson \/ ScanEnds \/ ReadBounds \/ NoBounds
  \/ Dump \/ WriteBounds \/ WriteMinzoom \/ WriteMaxzoom \/ WriteJson

Ended == phase \in {"done", "threw"} /\ UNCHANGED vars

Next == Step \/ MergeAgain \/ Ended

Spec == Init /\ [][Next]_vars

-----------------------------------------------------------------------------
Having(n) == {i \in Input : n \in DOMAIN meta[i]}
LastValue(n) == LET last == CHOOSE i \in Having(n) : \A j \in Having(n) : j <= i
                IN meta[last][n]

\* The box b has the box c in it, but for what printing it has taken off: half
\* a unit of the sixth decimal on each side.
Encloses(b, c) ==
  /\ 2 * b.minLon <= 2 * c.minLon + Unit /\ 2 * b.minLat <= 2 * c.minLat + Unit
  /\ 2 * c.maxLon <= 2 * b.maxLon + Unit /\ 2 * c.maxLat <= 2 * b.maxLat + Unit
\* The side d of b is that of an input, as it is printed.
Touches(b, d) == \E i \in Input : b[d] = Nearest(meta[i]["bounds"][d])

\* The merged table describes all inputs: its zooms contain theirs; so do its
\* bounds, up to the rounding of six decimals; none is larger than necessary,
\* the zero that maxLon and maxLat start with excepted; its layers are those of
\* all; every other entry is that of the last input that has it
\* (tile-smush.cpp:142-238).
TableIsMerge ==
  phase = "done" =>
    /\ DOMAIN table = Computed \cup UNION {DOMAIN meta[i] : i \in Input}
    /\ \A n \in DOMAIN table \ Computed : table[n] = LastValue(n)
    /\ \A i \in Having("minzoom") : table["minzoom"] <= meta[i]["minzoom"]
    /\ \A i \in Having("maxzoom") : meta[i]["maxzoom"] <= table["maxzoom"]
    /\ ToSet(table["json"].list) =
         UNION {ToSet(meta[i]["json"].list) : i \in Having("json")}
    /\ \A i \in Input : Encloses(table["bounds"], meta[i]["bounds"])
    /\ \A d \in {"minLon", "minLat"} : Touches(table["bounds"], d)
    /\ \A d \in {"maxLon", "maxLat"} :
         table["bounds"][d] = 0 \/ Touches(table["bounds"], d)

\* Every layer of the inputs that have been scanned, and nothing but layers:
\* inner objects are not taken apart and the tail is not read, be the text one
\* of another program or one that an earlier merge has printed
\* (tile-smush.cpp:168-199, 227-238).
Scanned ==
  {i \in Having("json") : i < current \/ (i = current /\ "json" \notin unread)}
ScanExact ==
  phase = "gather" =>
    layers = UNION {ToSet(meta[i]["json"].list) : i \in Scanned}

\* A process that throws has written nothing, and it throws if and only if an
\* input has no bounds or a json without vector_layers (tile-smush.cpp:164-166,
\* mbtiles.cpp:181-187): all inputs are read before anything is written.
ThrowsBeforeWriting ==
  /\ phase \in {"gather", "scan", "threw"} => table = <<>>
  /\ phase \in {"done", "threw"} =>
       (phase = "threw" <=>
          \E i \in Input : \/ "bounds" \notin DOMAIN meta[i]
                           \/ "json" \in DOMAIN meta[i] /\ meta[i]["json"] = NoLayers)

\* Should the process be killed between two writes, an entry that is there is
\* the merged one or that of the last input which has it
\* (tile-smush.cpp:211-238): an entry is never a mixture.
EntriesWhole ==
  \A n \in DOMAIN table :
    \/ Having(n) # {} /\ table[n] = LastValue(n)
    \/ n \in Computed /\ table[n] = MergedValue(n)

\* The bounds entry is the smallest box with all of the inputs in it, as it is
\* printed: what the mbtiles specification cited in the code asks for
\* (tile-smush.cpp:131-137).
BoundsAreTight ==
  phase = "done" => \A d \in {"maxLon", "maxLat"} : Touches(table["bounds"], d)

=============================================================================
