--------------------------- MODULE TileLoopProofs ---------------------------
(***************************************************************************)
(* The safety properties of TileLoop for any number of inputs, zooms and   *)
(* shards and any rows in the inputs.                                      *)
(*                                                                         *)
(* IInv says what the bit sets, the extents, the bounds of the loops and   *)
(* the tiles written so far amount to at every point.  Its heart is that   *)
(* on valid files a bit stands for one tile (BitInjective), so that        *)
(* `matching' at a cell is the set of the inputs that have the tile        *)
(* (TestExact), and that no tile lies outside of the loops' bounds.        *)
(***************************************************************************)
EXTENDS TileLoop, TLAPS

-----------------------------------------------------------------------------
(* Tiles and bits.                                                         *)

LEMMA NameType ==
  ASSUME NEW r \in Names
  PROVE  /\ r[1] \in Zoom /\ r[2] \in 0 .. SizeMax - 1 /\ r[3] \in 0 .. SizeMax - 1
         /\ r = <<r[1], r[2], r[3]>>
BY TileLoopAssumption

LEMMA SelectedType ==
  ASSUME TypeOK, NEW i \in Input
  PROVE  Selected(i) \subseteq file[i] /\ file[i] \subseteq Names
BY DEF TypeOK, Selected

LEMMA GridType ==
  ASSUME NEW z \in Zoom, NEW r \in Grid(z)
  PROVE  /\ r[1] = z /\ r[2] \in 0 .. Side[z] - 1 /\ r[3] \in 0 .. Side[z] - 1
         /\ r = <<r[1], r[2], r[3]>>
         /\ Side[z] \in Nat \ {0}
BY TileLoopAssumption DEF Grid

LEMMA Monotone ==
  ASSUME NEW S \in Nat, NEW a \in Nat, NEW c \in Nat, a < c
  PROVE  a * S + S <= c * S
<1> DEFINE k == c - (a + 1)
<1>1. k \in Nat /\ c = a + 1 + k
  OBVIOUS
<1>2. k * S \in Nat
  BY <1>1
<1>3. c * S = a * S + S + k * S
  BY <1>1
<1>4. a * S \in Nat
  OBVIOUS
<1> HIDE DEF k
<1> QED  BY <1>2, <1>3, <1>4

LEMMA BitInGrid ==
  ASSUME NEW z \in Zoom, NEW r \in Grid(z)
  PROVE  InSet(r) /\ Bit(r) \in Nat
<1>1. r[1] = z /\ r[2] \in Nat /\ r[2] < Side[z] /\ r[3] \in Nat /\ r[3] < Side[z]
      /\ Side[z] \in Nat
  BY GridType
<1>2. r[2] * Side[z] + Side[z] <= Side[z] * Side[z]
  BY <1>1, Monotone
<1>3. r[2] * Side[z] \in Nat /\ Side[z] * Side[z] \in Nat
  BY <1>1
<1>4. r[2] * Side[z] + r[3] < Side[z] * Side[z]
  BY <1>1, <1>2, <1>3
<1> QED  BY <1>1, <1>3, <1>4 DEF InSet, Bit

LEMMA BitInjective ==
  ASSUME NEW z \in Zoom, NEW r \in Grid(z), NEW s \in Grid(z), Bit(r) = Bit(s)
  PROVE  r = s
<1> DEFINE S == Side[z]
<1>1. /\ r[1] = z /\ r[2] \in Nat /\ r[3] \in Nat /\ r[3] < S
      /\ s[1] = z /\ s[2] \in Nat /\ s[3] \in Nat /\ s[3] < S
      /\ S \in Nat
      /\ r = <<r[1], r[2], r[3]>> /\ s = <<s[1], s[2], s[3]>>
  BY GridType
<1>2. r[2] * S + r[3] = s[2] * S + s[3]
  BY <1>1 DEF Bit
<1>3. r[2] * S \in Nat /\ s[2] * S \in Nat
  BY <1>1
<1> HIDE DEF S
<1>4. ~(r[2] < s[2])
  <2> SUFFICES ASSUME r[2] < s[2] PROVE FALSE
    OBVIOUS
  <2>1. r[2] * S + S <= s[2] * S
    BY <1>1, Monotone
  <2> QED  BY <1>1, <1>2, <1>3, <2>1
<1>5. ~(s[2] < r[2])
  <2> SUFFICES ASSUME s[2] < r[2] PROVE FALSE
    OBVIOUS
  <2>1. s[2] * S + S <= r[2] * S
    BY <1>1, Monotone
  <2> QED  BY <1>1, <1>2, <1>3, <2>1
<1>6. r[2] = s[2]
  BY <1>1, <1>4, <1>5
<1>7. r[3] = s[3]
  BY <1>1, <1>2, <1>3, <1>6
<1> QED  BY <1>1, <1>6, <1>7

\* On valid files the bit sets tell exactly which inputs have a tile.
LEMMA TestExact ==
  ASSUME TypeOK, PopulateInv, Legal, phase # "populate",
         NEW i \in Input, NEW z \in Zoom, NEW r \in Grid(z)
  PROVE  Test(i, r) <=> r \in Selected(i)
<1>1. Seen(i) = Selected(i)
  BY DEF Seen
<1>2. bits[i] = {<<s[1], Bit(s)>> : s \in {s \in Selected(i) : InSet(s)}}
  BY <1>1 DEF PopulateInv
<1>3. r[1] = z /\ InSet(r)
  BY GridType, BitInGrid
<1>4. ASSUME Test(i, r) PROVE r \in Selected(i)
  <2>1. PICK s \in Selected(i) : <<z, Bit(r)>> = <<s[1], Bit(s)>>
    BY <1>2, <1>3, <1>4 DEF Test
  <2>2. s \in Grid(z)
    BY <2>1, SelectedType DEF Legal
  <2> QED  BY <2>1, <2>2, BitInjective
<1>5. ASSUME r \in Selected(i) PROVE Test(i, r)
  BY <1>2, <1>3, <1>5 DEF Test
<1> QED  BY <1>4, <1>5

-----------------------------------------------------------------------------
(* Type correctness.                                                       *)

LEMMA JoinType ==
  ASSUME NEW e \in Extents, NEW f \in Extents
  PROVE  Join(e, f) \in Extents
BY DEF Extents, Join, Least, Greatest

LEMMA StepType ==
  ASSUME IInv, Step
  PROVE  TypeOK'
<1> USE DEF files, loops, TypeOK
<1>a. TypeOK
  BY DEF IInv
<1>1. CASE ReadRow
  <2> PICK r \in unread : ReadRow!2!(r)
    BY <1>1 DEF ReadRow
  <2> DEFINE z == r[1]
             e == extent[current][z]
             f == [minX |-> Least(e.minX, r[2]), minY |-> Least(e.minY, r[3]),
                   maxX |-> Greatest(e.maxX, r[2]), maxY |-> Greatest(e.maxY, r[3])]
  <2>1. r \in Names /\ z \in Zoom /\ r[2] \in 0 .. SizeMax - 1
        /\ r[3] \in 0 .. SizeMax - 1
    BY <1>a, NameType
  <2>2. e \in Extents
    BY <1>a, <2>1
  <2>3. f \in Extents
    BY <2>1, <2>2, TileLoopAssumption DEF Extents, Least, Greatest
  <2>4. extent' = [extent EXCEPT ![current][z] = f]
    OBVIOUS
  <2> HIDE DEF f, e
  <2>5. extent' \in [Input -> [Zoom -> Extents]]
    BY <1>a, <2>1, <2>3, <2>4
  <2>6. InSet(r) => <<z, Bit(r)>> \in Zoom \X Nat
    BY <2>1, TileLoopAssumption DEF Bit
  <2>7. bits' \in [Input -> SUBSET (Zoom \X Nat)]
    BY <1>a, <2>1, <2>6
  <2> QED  BY <1>a, <1>1, <2>5, <2>7 DEF ReadRow
<1>2. CASE NextInput
  <2>1. current < Inputs => current + 1 \in Input
    BY <1>a, TileLoopAssumption DEF Input
  <2>2. \A i \in Input : Selected(i) \subseteq Names
    BY <1>a, SelectedType
  <2> QED  BY <1>a, <1>2, <2>1, <2>2 DEF NextInput
<1>3. CASE EnterZoom
  <2>1. 1 \in Input /\ zoom \in Zoom /\ 0 \in 0 .. Inputs
    BY <1>a, <1>3, TileLoopAssumption DEF EnterZoom, Input, Zoom
  <2> QED  BY <1>a, <1>3, <2>1 DEF EnterZoom
<1>4. CASE JoinExtent
  <2>1. joined + 1 \in Input /\ joined + 1 \in 0 .. Inputs /\ zoom \in Zoom
    BY <1>a, <1>4, TileLoopAssumption DEF IInv, BoundsInv, JoinExtent, Input, Zoom
  <2>2. Join(bbox, extent[joined + 1][zoom]) \in Extents
    BY <1>a, <2>1, JoinType
  <2> QED  BY <1>a, <1>4, <2>1, <2>2 DEF JoinExtent
<1>5. CASE StartCells
  BY <1>a, <1>5 DEF StartCells, Extents
<1>6. CASE NextZoom
  <2>1. zoom + 1 \in 0 .. Zooms
    BY <1>a, <1>6, TileLoopAssumption DEF IInv, BoundsInv, NextZoom
  <2> QED  BY <1>a, <1>6, <2>1 DEF NextZoom
<1>7. CASE NextColumn
  <2>1. x + 1 \in 0 .. SizeMax
    BY <1>a, <1>7, TileLoopAssumption DEF NextColumn, Extents
  <2>2. bbox.minY \in 0 .. SizeMax
    BY <1>a DEF Extents
  <2> QED  BY <1>a, <1>7, <2>1, <2>2 DEF NextColumn
<1>8. CASE LoopsDone
  BY <1>a, <1>8 DEF LoopsDone
<1>9. AtCell => y + 1 \in 0 .. SizeMax
  BY <1>a, TileLoopAssumption DEF AtCell, Extents
<1>10. ASSUME NEW i \in Input, i \in Matching, Readable(i, Here)
       PROVE  <<Here, Matching>> \in Names \X SUBSET Input
  BY <1>a, <1>10 DEF Readable, Matching
<1>11. CASE PassCell
  BY <1>a, <1>9, <1>11 DEF PassCell, NextCell
<1>12. CASE CopyTile
  BY <1>a, <1>9, <1>10, <1>12 DEF CopyTile, NextCell
<1>13. CASE MergeTiles
  <2>1. <<Here, Matching>> \in Names \X SUBSET Input
    BY <1>10, <1>13 DEF MergeTiles, Matching
  <2> QED  BY <1>a, <1>9, <1>13, <2>1 DEF MergeTiles, NextCell
<1>14. CASE TileThrows
  BY <1>a, <1>14 DEF TileThrows
<1> QED
  BY <1>1, <1>2, <1>3, <1>4, <1>5, <1>6, <1>7, <1>8, <1>11, <1>12, <1>13, <1>14
  DEF Step

-----------------------------------------------------------------------------
(* The bit sets and the extents.                                           *)

LEMMA LeastGreatest ==
  ASSUME NEW a \in Int, NEW b \in Int
  PROVE  /\ Least(a, b) \in {a, b} /\ Least(a, b) <= a /\ Least(a, b) <= b
         /\ Greatest(a, b) \in {a, b} /\ a <= Greatest(a, b) /\ b <= Greatest(a, b)
BY DEF Least, Greatest

\* The steps after populateTiles leave the files, bits and extents alone.
LEMMA PopulateKept ==
  ASSUME PopulateInv, phase # "populate", phase' # "populate", UNCHANGED files
  PROVE  PopulateInv'
BY DEF PopulateInv, Seen, Selected, Legal, files, InSet, Bit

LEMMA StepPopulate ==
  ASSUME IInv, Step
  PROVE  PopulateInv'
<1>a. TypeOK /\ PopulateInv
  BY DEF IInv
<1>1. CASE ReadRow
  <2> PICK r \in unread : ReadRow!2!(r)
    BY <1>1 DEF ReadRow
  <2> DEFINE z == r[1]
             e == extent[current][z]
             f == [minX |-> Least(e.minX, r[2]), minY |-> Least(e.minY, r[3]),
                   maxX |-> Greatest(e.maxX, r[2]), maxY |-> Greatest(e.maxY, r[3])]
  <2>1. /\ phase = "populate" /\ phase' = "populate" /\ current \in Input
        /\ file' = file /\ current' = current
        /\ unread' = unread \ {r} /\ unread \subseteq Selected(current)
    BY <1>a, <1>1 DEF ReadRow, TypeOK, PopulateInv
  <2>2. /\ r \in Names /\ z \in Zoom /\ r[2] \in Int /\ r[3] \in Int
        /\ e \in Extents /\ f \in Extents
    <3>1. r \in Names /\ z \in Zoom /\ r[2] \in 0 .. SizeMax - 1
          /\ r[3] \in 0 .. SizeMax - 1 /\ e \in Extents
      BY <1>a, NameType DEF TypeOK
    <3>2. f \in Extents
      BY <3>1, TileLoopAssumption DEF Extents, Least, Greatest
    <3> QED  BY <3>1, <3>2
  <2>3. /\ \A i \in Input : Selected(i)' = Selected(i)
        /\ \A i \in Input : i # current => Seen(i)' = Seen(i)
        /\ \A i \in Input : i = current => Seen(i)' = Seen(i) \cup {r}
        /\ Legal' = Legal
    <3>1. ~(current < current) /\ ~(current > current)
      BY <2>1 DEF Input
    <3>2. \A i \in Input : Selected(i)' = Selected(i)
      BY <2>1 DEF Selected
    <3>3. \A i \in Input : i # current => Seen(i)' = Seen(i)
      BY <2>1, <3>2 DEF Seen, Input
    <3>4. \A i \in Input : i = current =>
            /\ Seen(i) = Selected(i) \ unread
            /\ Seen(i)' = Selected(i) \ (unread \ {r})
      BY <2>1, <3>1, <3>2 DEF Seen
    <3>5. r \in Selected(current)
      BY <2>1
    <3> QED  BY <2>1, <3>2, <3>3, <3>4, <3>5 DEF Legal
  <2>4. \A i \in Input :
          bits'[i] = {<<s[1], Bit(s)>> : s \in {s \in Seen(i)' : InSet(s)}}
    <3> SUFFICES ASSUME NEW i \in Input
                 PROVE  bits'[i] =
                          {<<s[1], Bit(s)>> : s \in {s \in Seen(i)' : InSet(s)}}
      OBVIOUS
    <3>1. bits[i] = {<<s[1], Bit(s)>> : s \in {s \in Seen(i) : InSet(s)}}
      BY <1>a DEF PopulateInv
    <3>2. CASE i # current
      <4>1. bits'[i] = bits[i]
        BY <1>a, <3>2 DEF TypeOK
      <4> QED  BY <2>3, <3>1, <3>2, <4>1
    <3>3. CASE i = current
      <4>1. bits'[i] = IF InSet(r) THEN bits[i] \cup {<<z, Bit(r)>>} ELSE bits[i]
        BY <1>a, <3>3 DEF TypeOK
      <4>2. Seen(i)' = Seen(i) \cup {r}
        BY <2>3, <3>3
      <4> QED  BY <3>1, <4>1, <4>2
    <3> QED  BY <3>2, <3>3
  <2>5. /\ extent' = [extent EXCEPT ![current][z] = f]
        /\ f.minX <= e.minX /\ f.minX <= r[2] /\ f.minY <= e.minY /\ f.minY <= r[3]
        /\ e.maxX <= f.maxX /\ r[2] <= f.maxX /\ e.maxY <= f.maxY /\ r[3] <= f.maxY
        /\ f.maxX \in {e.maxX, r[2]} /\ f.maxY \in {e.maxY, r[3]}
    BY <2>2, LeastGreatest DEF Extents
  <2> HIDE DEF f, e
  <2>6. \A i \in Input : \A w \in Zoom :
          extent'[i][w] = IF i = current /\ w = z THEN f ELSE extent[i][w]
    BY <1>a, <2>1, <2>2, <2>5 DEF TypeOK
  <2>7. \A i \in Input : \A s \in Seen(i)' : Within(extent'[i][s[1]], s)
    <3> SUFFICES ASSUME NEW i \in Input, NEW s \in Seen(i)'
                 PROVE  Within(extent'[i][s[1]], s)
      OBVIOUS
    <3>1. s \in Names /\ s[1] \in Zoom /\ s[2] \in Int /\ s[3] \in Int
      <4>1. Seen(i)' \subseteq Selected(i)
        BY <2>1, <2>3 DEF Seen, Input
      <4>2. s \in Names
        BY <1>a, <4>1, SelectedType
      <4> QED  BY <4>2, NameType
    <3>2. CASE s \in Seen(i)
      <4>1. Within(extent[i][s[1]], s)
        BY <1>a, <3>2 DEF PopulateInv
      <4>2. CASE i = current /\ s[1] = z
        <5>1. Within(e, s)
          BY <4>1, <4>2 DEF e
        <5>2. Within(f, s)
          BY <2>2, <2>5, <3>1, <5>1 DEF Within, Extents
        <5> QED  BY <2>6, <3>1, <4>2, <5>2
      <4>3. CASE ~(i = current /\ s[1] = z)
        BY <2>6, <3>1, <4>1, <4>3
      <4> QED  BY <4>2, <4>3
    <3>3. CASE s \notin Seen(i)
      <4>1. i = current /\ s = r
        BY <2>3, <3>3
      <4>2. Within(f, r)
        BY <2>5 DEF Within
      <4> QED  BY <2>6, <3>1, <4>1, <4>2
    <3> QED  BY <3>2, <3>3
  <2>8. Legal' => \A i \in Input : \A w \in Zoom :
          extent'[i][w].maxX < Side[w] /\ extent'[i][w].maxY < Side[w]
    <3> SUFFICES ASSUME Legal
                 PROVE  f.maxX < Side[z] /\ f.maxY < Side[z]
      BY <1>a, <2>3, <2>6 DEF PopulateInv
    <3>1. r \in file[current]
      BY <1>a, <2>1, SelectedType
    <3>2. r[2] < Side[z] /\ r[3] < Side[z]
      BY <2>1, <2>2, <3>1, GridType DEF Legal
    <3>3. e.maxX < Side[z] /\ e.maxY < Side[z]
      BY <1>a, <2>1, <2>2 DEF PopulateInv, e
    <3> QED  BY <2>5, <3>2, <3>3
  <2>9. (unread \subseteq Selected(current))'
    BY <2>1 DEF Selected
  <2> QED  BY <2>1, <2>4, <2>7, <2>8, <2>9 DEF PopulateInv, InSet, Bit
<1>2. CASE NextInput
  <2>1. /\ phase = "populate" /\ unread = {}
        /\ UNCHANGED <<file, bits, extent>>
        /\ current \in Int
    BY <1>a, <1>2 DEF NextInput, TypeOK, Input
  <2>2. \A i \in Input : Selected(i)' = Selected(i)
    BY <2>1 DEF Selected
  <2>3. \A i \in Input : Seen(i)' = Seen(i)
    <3>1. CASE current < Inputs
      <4>1. /\ phase' = "populate" /\ current' = current + 1
            /\ unread' = Selected(current + 1)
        BY <1>2, <3>1 DEF NextInput
      <4>2. \A i \in Input : i < current + 1 <=> i < current \/ i = current
        BY <2>1 DEF Input
      <4>3. \A i \in Input : i > current => i > current + 1 \/ i = current + 1
        BY <2>1 DEF Input
      <4> QED  BY <2>1, <2>2, <4>1, <4>2, <4>3 DEF Seen, Input
    <3>2. CASE ~(current < Inputs)
      <4>1. phase' = "zoom" /\ current' = current /\ unread' = unread
        BY <1>2, <3>2 DEF NextInput
      <4>2. \A i \in Input : ~(i > current)
        BY <2>1, <3>2, TileLoopAssumption DEF Input
      <4> QED  BY <2>1, <2>2, <4>1, <4>2 DEF Seen, Input
    <3> QED  BY <3>1, <3>2
  <2>4. (phase = "populate" => unread \subseteq Selected(current))'
    BY <1>2, <2>1 DEF NextInput, Selected
  <2> QED  BY <1>a, <2>1, <2>3, <2>4 DEF PopulateInv, Legal, InSet, Bit
<1>3. CASE ~ReadRow /\ ~NextInput
  <2>1. phase # "populate" /\ phase' # "populate" /\ UNCHANGED files
    BY <1>3 DEF Step, EnterZoom, JoinExtent, StartCells, NextZoom, NextColumn,
       LoopsDone, PassCell, CopyTile, MergeTiles, TileThrows, NextCell, AtCell
  <2> QED  BY <1>a, <2>1, PopulateKept
<1> QED  BY <1>1, <1>2, <1>3

-----------------------------------------------------------------------------
(* The bounds of the loops.                                                *)

LEMMA JoinWithin ==
  ASSUME NEW e \in Extents, NEW f \in Extents, NEW r \in Names
  PROVE  /\ Within(e, r) => Within(Join(e, f), r)
         /\ Within(f, r) => Within(Join(e, f), r)
         /\ \A S \in Int : e.maxX < S /\ f.maxX < S => Join(e, f).maxX < S
         /\ \A S \in Int : e.maxY < S /\ f.maxY < S => Join(e, f).maxY < S
<1>1. r[2] \in Int /\ r[3] \in Int
  BY NameType
<1> QED  BY <1>1 DEF Within, Join, Least, Greatest, Extents

LEMMA StepBounds ==
  ASSUME IInv, Step
  PROVE  BoundsInv'
<1>a. TypeOK /\ PopulateInv /\ BoundsInv
  BY DEF IInv
<1>b. \A i \in Input : Selected(i) \subseteq Names
  BY <1>a, SelectedType
<1>1. CASE EnterZoom
  <2>1. /\ phase' = "join" /\ joined' = 0 /\ zoom' = zoom /\ zoom < Zooms
        /\ bbox' = extent[1][zoom] /\ UNCHANGED files
    BY <1>1 DEF EnterZoom
  <2>2. zoom \in Zoom /\ 1 \in Input
    BY <1>a, <2>1, TileLoopAssumption DEF TypeOK, Zoom, Input
  <2>3. Legal => bbox'.maxX < Side[zoom] /\ bbox'.maxY < Side[zoom]
    BY <1>a, <2>1, <2>2 DEF PopulateInv
  <2>4. Legal' = Legal
    BY <2>1 DEF Legal, files
  <2> QED  BY <2>1, <2>3, <2>4 DEF BoundsInv
<1>2. CASE JoinExtent
  <2> DEFINE f == extent[joined + 1][zoom]
  <2>1. /\ phase = "join" /\ phase' = "join" /\ joined' = joined + 1
        /\ zoom' = zoom /\ zoom < Zooms /\ zoom \in Zoom /\ joined + 1 \in Input
        /\ bbox' = Join(bbox, f) /\ UNCHANGED files
    BY <1>a, <1>2, TileLoopAssumption
    DEF JoinExtent, BoundsInv, TypeOK, Zoom, Input
  <2>2. bbox \in Extents /\ f \in Extents
    BY <1>a, <2>1 DEF TypeOK
  <2>3. \A i \in 1 .. joined + 1 : i \in 1 .. joined \/ i = joined + 1
    BY <1>a DEF TypeOK
  <2>8. \A i \in 1 .. joined + 1 : i \in Input
    <3>1. joined \in Nat /\ joined + 1 <= Inputs
      BY <1>a, <2>1, TileLoopAssumption DEF TypeOK, Input
    <3> QED  BY <3>1, TileLoopAssumption DEF Input
  <2>4. \A r \in Selected(joined + 1) : r[1] = zoom => Within(f, r)
    BY <1>a, <2>1 DEF PopulateInv, Seen
  <2>5. \A i \in 1 .. joined + 1 : \A r \in Selected(i) :
          r[1] = zoom => Within(bbox', r)
    <3> SUFFICES ASSUME NEW i \in 1 .. joined + 1, NEW r \in Selected(i),
                        r[1] = zoom
                 PROVE  Within(bbox', r)
      OBVIOUS
    <3>0. i \in Input
      BY <2>8
    <3>1. r \in Names
      BY <1>b, <3>0
    <3>2. Within(bbox, r) \/ Within(f, r)
      BY <1>a, <2>1, <2>3, <2>4 DEF BoundsInv
    <3> HIDE DEF f
    <3> QED  BY <2>1, <2>2, <3>1, <3>2, JoinWithin
  <2>6. Legal => bbox'.maxX < Side[zoom] /\ bbox'.maxY < Side[zoom]
    <3> SUFFICES ASSUME Legal
                 PROVE  bbox'.maxX < Side[zoom] /\ bbox'.maxY < Side[zoom]
      OBVIOUS
    <3>1. /\ bbox.maxX < Side[zoom] /\ bbox.maxY < Side[zoom]
          /\ f.maxX < Side[zoom] /\ f.maxY < Side[zoom]
      BY <1>a, <2>1 DEF BoundsInv, PopulateInv
    <3>2. Side[zoom] \in Int
      BY <2>1, TileLoopAssumption
    <3>3. bbox' = IF TRUE THEN Join(bbox, f) ELSE bbox
      BY <2>1
    <3> HIDE DEF f
    <3> QED  BY <2>2, <3>1, <3>2, <3>3 DEF Join, Least, Greatest, Extents
  <2>7. Legal' = Legal /\ \A i \in Input : Selected(i)' = Selected(i)
    BY <2>1 DEF Legal, files, Selected
  <2> QED  BY <2>1, <2>5, <2>6, <2>7, <2>8 DEF BoundsInv
<1>3. CASE StartCells
  BY <1>a, <1>3 DEF StartCells, BoundsInv, files, Legal, Selected, Input
<1>4. CASE ~EnterZoom /\ ~JoinExtent /\ ~StartCells
  <2>1. \/ phase' \notin {"join", "cells"}
        \/ phase = "cells" /\ phase' = "cells" /\ UNCHANGED <<files, bbox, zoom>>
    BY <1>a, <1>4 DEF Step, ReadRow, NextInput, NextZoom, NextColumn, LoopsDone,
       PassCell, CopyTile, MergeTiles, TileThrows, NextCell, AtCell
  <2> QED  BY <1>a, <2>1 DEF BoundsInv, files, Legal, Selected
<1> QED  BY <1>1, <1>2, <1>3, <1>4

-----------------------------------------------------------------------------
(* What has been written.                                                  *)

LEMMA BeforeNext ==
  ASSUME TypeOK, NEW r \in Names
  PROVE  Before(r, <<zoom, x, y + 1>>) <=> Before(r, Here) \/ r = Here
<1>1. r[1] \in Int /\ r[2] \in Int /\ r[3] \in Int /\ r = <<r[1], r[2], r[3]>>
  BY NameType DEF Zoom
<1>2. zoom \in Int /\ x \in Int /\ y \in Int
  BY DEF TypeOK
<1>3. r = Here <=> r[1] = zoom /\ r[2] = x /\ r[3] = y
  BY <1>1 DEF Here
<1> HIDE DEF Before
<1>4. Before(r, Here) <=>
        \/ r[1] < zoom
        \/ r[1] = zoom /\ r[2] < x
        \/ r[1] = zoom /\ r[2] = x /\ r[3] < y
  BY DEF Before, Here
<1>5. Before(r, <<zoom, x, y + 1>>) <=>
        \/ r[1] < zoom
        \/ r[1] = zoom /\ r[2] < x
        \/ r[1] = zoom /\ r[2] = x /\ r[3] < y + 1
  BY DEF Before
<1> QED  BY <1>1, <1>2, <1>3, <1>4, <1>5

LEMMA MergedType ==
  ASSUME TypeOK, NEW r \in Merged
  PROVE  /\ r \in Names
         /\ \E i \in Input : r \in Selected(i)
BY DEF Merged, Contributors

\* At a cell of the loops, `matching' is right.
LEMMA MatchingExact ==
  ASSUME TypeOK, PopulateInv, BoundsInv, Legal, AtCell
  PROVE  /\ Matching = Contributors(Here)
         /\ \A i \in Matching : Readable(i, Here) /\ Here \in Names
<1>1. zoom \in Zoom
  BY TileLoopAssumption DEF AtCell, BoundsInv, TypeOK, Zoom
<1>2. Here \in Grid(zoom)
  <2>1. /\ x \in Nat /\ y \in Nat /\ x <= bbox.maxX /\ y <= bbox.maxY
        /\ bbox.maxX \in Int /\ bbox.maxY \in Int
        /\ bbox.maxX < Side[zoom] /\ bbox.maxY < Side[zoom]
        /\ Side[zoom] \in Nat
    BY <1>1, TileLoopAssumption DEF AtCell, BoundsInv, TypeOK, Extents
  <2>2. x \in 0 .. Side[zoom] - 1 /\ y \in 0 .. Side[zoom] - 1
    BY <2>1
  <2> QED  BY <2>2 DEF Here, Grid
<1>3. \A i \in Input : Test(i, Here) <=> Here \in Selected(i)
  BY <1>1, <1>2, TestExact DEF AtCell
<1> QED  BY <1>3, SelectedType DEF Matching, Contributors, Readable

\* A step that writes nothing and passes no tile.
LEMMA QuietStep ==
  ASSUME SavedInv, UNCHANGED <<file, saved>>, phase' # "threw",
         phase' = "done" => zoom' = Zooms,
         \A s \in saved : Passed(s[1])',
         Legal => \A r \in Merged : Passed(r)' <=> Passed(r)
  PROVE  SavedInv'
<1>1. /\ Legal' = Legal /\ Merged' = Merged
      /\ \A r : Contributors(r)' = Contributors(r) /\ Unmergeable(r)' = Unmergeable(r)
  BY DEF Legal, Merged, Contributors, Unmergeable, Selected, Mine, Bit
<1> HIDE DEF Passed
<1>2. \A r : Mine(r)' = Mine(r)
  BY DEF Mine, Bit
<1> QED  BY <1>1, <1>2 DEF SavedInv

\* A step from a cell to the next one that writes the set W for the cell.
LEMMA CellStep ==
  ASSUME TypeOK, SavedInv, AtCell, NextCell, NEW W, saved' = saved \cup W,
         \A s \in W : s[1] = Here /\ \A i \in s[2] : Here \in file[i],
         \A s \in saved \cup W : s[1] \in Names,
         Legal => W = {<<r, Contributors(r)>> :
                         r \in {r \in Merged : Mine(r) /\ r = Here}},
         Legal => ~Unmergeable(Here)
  PROVE  SavedInv'
<1>1. phase = "cells" /\ phase' = "cells" /\ zoom' = zoom /\ file' = file
      /\ Here' = <<zoom, x, y + 1>>
  BY DEF AtCell, NextCell, files, Here
<1>2. \A r \in Names : Passed(r)' <=> Passed(r) \/ r = Here
  <2> SUFFICES ASSUME NEW r \in Names
               PROVE  Passed(r)' <=> Passed(r) \/ r = Here
    OBVIOUS
  <2>1. Passed(r)' <=> r[1] < zoom \/ Before(r, <<zoom, x, y + 1>>)
    <3> HIDE DEF Before
    <3> QED  BY <1>1 DEF Passed, Before, Here
  <2>2. Passed(r) <=> r[1] < zoom \/ Before(r, Here)
    BY <1>1 DEF Passed
  <2> QED  BY <2>1, <2>2, BeforeNext
<1>3. /\ Legal' = Legal /\ Merged' = Merged /\ Merged \subseteq Names
      /\ \A r : /\ Contributors(r)' = Contributors(r)
                /\ Unmergeable(r)' = Unmergeable(r) /\ Mine(r)' = Mine(r)
  BY <1>1 DEF Legal, Merged, Contributors, Unmergeable, Selected, Mine, Bit
<1>4. \A s \in saved' : Passed(s[1])' /\ \A i \in s[2] : s[1] \in file'[i]
  BY <1>1, <1>2 DEF SavedInv
<1>5. Legal => saved' = {<<r, Contributors(r)>> :
                           r \in {r \in Merged : Mine(r) /\ Passed(r)'}}
  <2> SUFFICES ASSUME Legal
               PROVE  saved' = {<<r, Contributors(r)>> :
                                  r \in {r \in Merged : Mine(r) /\ Passed(r)'}}
    OBVIOUS
  <2>1. {r \in Merged : Mine(r) /\ Passed(r)'}
          = {r \in Merged : Mine(r) /\ Passed(r)} \cup {r \in Merged : Mine(r) /\ r = Here}
    BY <1>2, <1>3
  <2>2. saved = {<<r, Contributors(r)>> : r \in {r \in Merged : Mine(r) /\ Passed(r)}}
    BY DEF SavedInv
  <2>3. saved' = {<<r, Contributors(r)>> : r \in {r \in Merged : Mine(r) /\ Passed(r)}}
           \cup {<<r, Contributors(r)>> : r \in {r \in Merged : Mine(r) /\ r = Here}}
    BY <2>2
  <2> QED  BY <2>1, <2>3
<1>6. Legal => \A r \in Merged : Passed(r)' => ~Unmergeable(r)
  BY <1>2, <1>3 DEF SavedInv
<1> HIDE DEF Passed
<1> QED  BY <1>1, <1>3, <1>4, <1>5, <1>6 DEF SavedInv

LEMMA StepSaved ==
  ASSUME IInv, Step
  PROVE  SavedInv'
<1>a. TypeOK /\ PopulateInv /\ BoundsInv /\ SavedInv
  BY DEF IInv
<1>b. /\ \A r \in Names : r[1] \in Int /\ r[2] \in Int /\ r[3] \in Int
      /\ \A t \in saved : t[1] \in Names
      /\ zoom \in Int /\ x \in Int /\ y \in Int /\ bbox \in Extents
  BY <1>a, NameType DEF TypeOK, Zoom
<1>c. Merged \subseteq Names
  BY DEF Merged
<1>d. \A r \in Merged : \E i \in Input : r \in Selected(i)
  BY <1>a, MergedType
<1>1. CASE ReadRow \/ NextInput \/ EnterZoom \/ JoinExtent \/ LoopsDone
  <2>1. /\ phase \notin {"cells", "threw"} /\ phase' \notin {"cells", "threw"}
        /\ phase' = "done" => zoom' = Zooms
        /\ UNCHANGED <<file, saved, zoom>>
    BY <1>1 DEF ReadRow, NextInput, EnterZoom, JoinExtent, LoopsDone, files, loops
  <2>2. \A r : Passed(r)' <=> Passed(r)
    BY <2>1 DEF Passed
  <2>3. \A t \in saved : Passed(t[1])'
    BY <1>a, <2>2 DEF SavedInv
  <2> HIDE DEF Passed
  <2> QED  BY <1>a, <2>1, <2>2, <2>3, QuietStep
<1>2. CASE StartCells
  <2>1. /\ phase = "join" /\ phase' = "cells" /\ joined = Inputs
        /\ x' = bbox.minX /\ y' = bbox.minY /\ UNCHANGED <<file, saved, zoom>>
    BY <1>2 DEF StartCells, files
  <2>2. \A r : Passed(r) <=> r[1] < zoom
    BY <2>1 DEF Passed
  <2>3. \A r : Passed(r)' <=> r[1] < zoom \/ Before(r, <<zoom, bbox.minX, bbox.minY>>)
    BY <2>1 DEF Passed, Before, Here
  <2>4. \A r \in Merged : Passed(r)' <=> Passed(r)
    <3> SUFFICES ASSUME NEW r \in Merged, r[1] = zoom
                 PROVE  ~Before(r, <<zoom, bbox.minX, bbox.minY>>)
      BY <1>b, <1>c, <2>2, <2>3 DEF Before
    <3>1. r[1] \in Int /\ r[2] \in Int /\ r[3] \in Int
      BY <1>b, <1>c
    <3>2. bbox.minX <= r[2] /\ bbox.minY <= r[3]
      BY <1>a, <1>d, <2>1 DEF BoundsInv, Within, Input
    <3>3. bbox.minX \in Int /\ bbox.minY \in Int
      BY <1>b DEF Extents
    <3> QED  BY <1>b, <3>1, <3>2, <3>3 DEF Before
  <2>5. \A t \in saved : Passed(t[1])'
    BY <1>a, <2>2, <2>3 DEF SavedInv
  <2> HIDE DEF Passed
  <2> QED  BY <1>a, <2>1, <2>4, <2>5, QuietStep
<1>3. CASE NextColumn
  <2>1. /\ phase = "cells" /\ phase' = "cells" /\ y > bbox.maxY
        /\ x' = x + 1 /\ y' = bbox.minY /\ UNCHANGED <<file, saved, zoom>>
    BY <1>3 DEF NextColumn, files
  <2>2. \A r : Passed(r) <=> r[1] < zoom \/ Before(r, <<zoom, x, y>>)
    BY <2>1 DEF Passed, Before, Here
  <2>3. \A r : Passed(r)' <=> r[1] < zoom \/ Before(r, <<zoom, x + 1, bbox.minY>>)
    BY <2>1 DEF Passed, Before, Here
  <2>4. \A r \in Merged : Passed(r)' <=> Passed(r)
    <3> SUFFICES ASSUME NEW r \in Merged, r[1] = zoom
                 PROVE  Before(r, <<zoom, x + 1, bbox.minY>>)
                          <=> Before(r, <<zoom, x, y>>)
      BY <1>b, <1>c, <2>2, <2>3 DEF Before
    <3>1. r[1] \in Int /\ r[2] \in Int /\ r[3] \in Int
      BY <1>b, <1>c
    <3>2. bbox.minY <= r[3] /\ r[3] <= bbox.maxY
      BY <1>a, <1>d, <2>1 DEF BoundsInv, Within
    <3>3. bbox.minY \in Int /\ bbox.maxY \in Int
      BY <1>b DEF Extents
    <3>4. Before(r, <<zoom, x, y>>) <=> r[2] < x \/ (r[2] = x /\ r[3] < y)
      BY <1>b, <3>1 DEF Before
    <3>5. Before(r, <<zoom, x + 1, bbox.minY>>)
            <=> r[2] < x + 1 \/ (r[2] = x + 1 /\ r[3] < bbox.minY)
      BY <1>b, <3>1 DEF Before
    <3> QED  BY <1>b, <2>1, <3>1, <3>2, <3>3, <3>4, <3>5
  <2>5. \A t \in saved : Passed(t[1])'
    <3> SUFFICES ASSUME NEW r \in Names, Before(r, <<zoom, x, y>>)
                 PROVE  r[1] < zoom \/ Before(r, <<zoom, x + 1, bbox.minY>>)
      BY <1>a, <1>b, <2>2, <2>3 DEF SavedInv
    <3> QED  BY <1>b DEF Before
  <2> HIDE DEF Passed
  <2> QED  BY <1>a, <2>1, <2>4, <2>5, QuietStep
<1>4. CASE NextZoom
  <2>1. /\ phase = "cells" /\ phase' = "zoom" /\ x > bbox.maxX
        /\ zoom' = zoom + 1 /\ UNCHANGED <<file, saved>>
    BY <1>4 DEF NextZoom, files
  <2>2. \A r : Passed(r) <=> r[1] < zoom \/ Before(r, <<zoom, x, y>>)
    BY <2>1 DEF Passed, Before, Here
  <2>3. \A r : Passed(r)' <=> r[1] < zoom + 1
    BY <2>1 DEF Passed
  <2>4. \A r \in Merged : Passed(r)' <=> Passed(r)
    <3> SUFFICES ASSUME NEW r \in Merged
                 PROVE  r[1] < zoom + 1
                          <=> r[1] < zoom \/ Before(r, <<zoom, x, y>>)
      BY <2>2, <2>3
    <3>1. r[1] \in Int /\ r[2] \in Int /\ r[3] \in Int
      BY <1>b, <1>c
    <3>2. r[1] = zoom => r[2] <= bbox.maxX
      BY <1>a, <1>d, <2>1 DEF BoundsInv, Within
    <3>3. bbox.maxX \in Int
      BY <1>b DEF Extents
    <3>4. r[1] = zoom => r[2] < x
      BY <1>b, <2>1, <3>1, <3>2, <3>3
    <3>5. Before(r, <<zoom, x, y>>) => r[1] <= zoom
      BY <1>b, <3>1 DEF Before
    <3>6. r[1] = zoom => Before(r, <<zoom, x, y>>)
      BY <3>4 DEF Before
    <3> QED  BY <1>b, <3>1, <3>5, <3>6
  <2>5. \A t \in saved : Passed(t[1])'
    <3> SUFFICES ASSUME NEW r \in Names,
                        r[1] < zoom \/ Before(r, <<zoom, x, y>>)
                 PROVE  r[1] < zoom + 1
      BY <1>a, <1>b, <2>2, <2>3 DEF SavedInv
    <3> QED  BY <1>b DEF Before
  <2> HIDE DEF Passed
  <2> QED  BY <1>a, <2>1, <2>4, <2>5, QuietStep
<1>5. CASE PassCell
  <2>1. AtCell /\ NextCell /\ saved' = saved \cup {}
        /\ (~Mine(Here) \/ Matching = {})
    BY <1>5 DEF PassCell
  <2>2. Legal => ~Mine(Here) \/ Contributors(Here) = {}
    BY <1>a, <2>1, MatchingExact
  <2>3. Legal => {} = {<<r, Contributors(r)>> :
                         r \in {r \in Merged : Mine(r) /\ r = Here}}
    BY <2>2 DEF Merged
  <2>4. Legal => ~Unmergeable(Here)
    BY <2>2 DEF Unmergeable
  <2> HIDE DEF AtCell, NextCell
  <2> QED  BY <1>a, <1>b, <2>1, <2>3, <2>4, CellStep
<1>6. CASE CopyTile
  <2>1. /\ AtCell /\ NextCell /\ Mine(Here)
        /\ saved' = saved \cup {<<Here, Matching>>}
    BY <1>6 DEF CopyTile
  <2>2. \A i \in Matching : i \in Input /\ Here \in file[i]
    BY <1>6 DEF CopyTile, Readable, Matching
  <2>3. Matching # {} /\ \A i, j \in Matching : i = j
    BY <1>6 DEF CopyTile
  <2>4. Here \in Names
    BY <1>a, <2>2, <2>3 DEF TypeOK
  <2>5. Legal => Matching = Contributors(Here)
    BY <1>a, <2>1, MatchingExact
  <2>6. Legal => {<<Here, Matching>>} = {<<r, Contributors(r)>> :
                         r \in {r \in Merged : Mine(r) /\ r = Here}}
    BY <2>1, <2>3, <2>4, <2>5 DEF Merged
  <2>7. Legal => ~Unmergeable(Here)
    BY <2>3, <2>5 DEF Unmergeable
  <2>8. \A t \in {<<Here, Matching>>} : t[1] = Here /\ t[2] = Matching
    OBVIOUS
  <2> HIDE DEF AtCell, NextCell, Here, Matching
  <2>9. \A t \in saved \cup {<<Here, Matching>>} : t[1] \in Names
    BY <1>b, <2>4, <2>8
  <2>10. \A t \in {<<Here, Matching>>} : t[1] = Here /\ \A i \in t[2] : Here \in file[i]
    BY <2>2, <2>8
  <2> QED  BY <1>a, <2>1, <2>6, <2>7, <2>9, <2>10, CellStep
<1>7. CASE MergeTiles
  <2>1. /\ AtCell /\ NextCell /\ Mine(Here)
        /\ saved' = saved \cup {<<Here, Matching>>}
    BY <1>7 DEF MergeTiles
  <2>2. \A i \in Matching : i \in Input /\ Here \in file[i] /\ <<i, Here>> \notin Corrupt
    BY <1>7 DEF MergeTiles, Readable, Matching
  <2>3. Matching # {}
    BY <1>7 DEF MergeTiles
  <2>4. Here \in Names
    BY <1>a, <2>2, <2>3 DEF TypeOK
  <2>5. Legal => Matching = Contributors(Here)
    BY <1>a, <2>1, MatchingExact
  <2>6. Legal => {<<Here, Matching>>} = {<<r, Contributors(r)>> :
                         r \in {r \in Merged : Mine(r) /\ r = Here}}
    BY <2>1, <2>3, <2>4, <2>5 DEF Merged
  <2>7. Legal => ~Unmergeable(Here)
    BY <2>2, <2>5 DEF Unmergeable
  <2>8. \A t \in {<<Here, Matching>>} : t[1] = Here /\ t[2] = Matching
    OBVIOUS
  <2> HIDE DEF AtCell, NextCell, Here, Matching
  <2>9. \A t \in saved \cup {<<Here, Matching>>} : t[1] \in Names
    BY <1>b, <2>4, <2>8
  <2>10. \A t \in {<<Here, Matching>>} : t[1] = Here /\ \A i \in t[2] : Here \in file[i]
    BY <2>2, <2>8
  <2> QED  BY <1>a, <2>1, <2>6, <2>7, <2>9, <2>10, CellStep
<1>8. CASE TileThrows
  <2>1. /\ AtCell /\ Mine(Here) /\ phase = "cells" /\ phase' = "threw"
        /\ UNCHANGED <<file, saved, zoom, x, y>>
    BY <1>8 DEF TileThrows, AtCell, files, loops
  <2>2. \A r : Passed(r)' <=> Passed(r)
    BY <2>1 DEF Passed, Before, Here
  <2>3. /\ Legal' = Legal /\ Merged' = Merged
        /\ \A r : /\ Contributors(r)' = Contributors(r)
                  /\ Unmergeable(r)' = Unmergeable(r) /\ Mine(r)' = Mine(r)
    BY <2>1 DEF Legal, Merged, Contributors, Unmergeable, Selected, Mine, Bit
  <2>4. Legal => \E r \in Merged : Unmergeable(r)
    <3> SUFFICES ASSUME Legal PROVE Here \in Merged /\ Unmergeable(Here)
      OBVIOUS
    <3>1. Matching = Contributors(Here)
          /\ \A i \in Matching : Readable(i, Here) /\ Here \in Names
      BY <1>a, <2>1, MatchingExact
    <3>2. \E i, j \in Matching : i # j /\ <<i, Here>> \in Corrupt
      BY <1>8, <3>1 DEF TileThrows
    <3> QED  BY <2>1, <3>1, <3>2 DEF Merged, Unmergeable
  <2> HIDE DEF Passed
  <2> QED  BY <1>a, <2>1, <2>2, <2>3, <2>4 DEF SavedInv
<1> QED  BY <1>1, <1>2, <1>3, <1>4, <1>5, <1>6, <1>7, <1>8 DEF Step

-----------------------------------------------------------------------------
(* The theorems.                                                           *)

LEMMA InitInv ==
  ASSUME Init
  PROVE  IInv
<1>1. TypeOK
  <2>1. NoExtent \in Extents
    BY TileLoopAssumption DEF NoExtent, Extents
  <2>2. 1 \in Input /\ 0 \in 0 .. Zooms /\ 0 \in 0 .. Inputs /\ 0 \in 0 .. SizeMax
    BY TileLoopAssumption DEF Input
  <2>3. Selected(1) \subseteq Names
    BY <2>2 DEF Init, Selected
  <2>4. extent \in [Input -> [Zoom -> Extents]]
    BY <2>1 DEF Init
  <2> HIDE DEF NoExtent
  <2> QED  BY <2>1, <2>2, <2>3, <2>4 DEF Init, TypeOK
<1>2. \A i \in Input : Seen(i) = {}
  <2>1. ~(1 < 1) /\ \A i \in Input : ~(i < 1) /\ (i = 1 \/ i > 1)
    BY TileLoopAssumption DEF Input
  <2> QED  BY <2>1 DEF Init, Seen
<1>3. PopulateInv
  <2>1. \A z \in Zoom : 0 < Side[z]
    BY TileLoopAssumption
  <2> QED  BY <1>2, <2>1 DEF Init, PopulateInv, NoExtent
<1>4. BoundsInv
  BY DEF Init, BoundsInv
<1>5. SavedInv
  <2>1. \A r \in Merged : ~Passed(r)
    <3> SUFFICES ASSUME NEW r \in Merged PROVE ~(r[1] < 0)
      BY DEF Init, Passed
    <3> QED  BY NameType DEF Merged, Zoom
  <2> QED  BY <2>1 DEF Init, SavedInv
<1> QED  BY <1>1, <1>3, <1>4, <1>5 DEF IInv

LEMMA StepInv ==
  ASSUME IInv, [Next]_vars
  PROVE  IInv'
<1>1. CASE Step
  BY <1>1, StepType, StepPopulate, StepBounds, StepSaved DEF IInv
<1>2. CASE UNCHANGED vars
  <2>1. UNCHANGED <<phase, file, current, unread, bits, extent, zoom, bbox, joined,
                    x, y, saved>>
    BY <1>2 DEF vars, files, loops
  <2>2. /\ \A r : /\ Bit(r)' = Bit(r) /\ InSet(r)' = InSet(r) /\ Mine(r)' = Mine(r)
                  /\ Passed(r)' = Passed(r)
        /\ \A i : Seen(i)' = Seen(i) /\ Selected(i)' = Selected(i)
    BY <2>1 DEF Bit, InSet, Mine, Passed, Before, Here, Seen, Selected
  <2>3. Legal' = Legal
    BY <2>1 DEF Legal
  <2>4. TypeOK'
    BY <2>1 DEF IInv, TypeOK
  <2>5. PopulateInv'
    BY <2>1, <2>2, <2>3 DEF IInv, PopulateInv
  <2>6. BoundsInv'
    BY <2>1, <2>2, <2>3 DEF IInv, BoundsInv
  <2>7. SavedInv'
    <3>1. /\ Merged' = Merged
          /\ \A r : Contributors(r)' = Contributors(r) /\ Unmergeable(r)' = Unmergeable(r)
      BY <2>1, <2>2 DEF Merged, Contributors, Unmergeable
    <3> HIDE DEF Passed
    <3> QED  BY <2>1, <2>2, <2>3, <3>1 DEF IInv, SavedInv
  <2> QED  BY <2>4, <2>5, <2>6, <2>7 DEF IInv
<1> QED  BY <1>1, <1>2 DEF Next, Ended

\* The invariant holds for all inputs, zooms and shards.
THEOREM Inductive == Spec => []IInv
<1>1. Init => IInv
  BY InitInv
<1>2. IInv /\ [Next]_vars => IInv'
  BY StepInv
<1> QED  BY <1>1, <1>2, PTL DEF Spec

\* The extents and the loop variables never leave the range of a size_t: the
\* loops' increments do not overflow (tile-smush.cpp:253-254).
THEOREM TypeCorrect == Spec => []TypeOK
<1>1. IInv => TypeOK
  BY DEF IInv
<1> QED  BY <1>1, Inductive, PTL

\* What the loops write, once over, is the merge of the inputs
\* (tile-smush.cpp:241-306).
THEOREM SavedIsTheMerge == Spec => []SavedIsMerge
<1>1. IInv => SavedIsMerge
  <2> SUFFICES ASSUME IInv, phase = "done", Legal PROVE saved = Expected
    BY DEF SavedIsMerge
  <2>1. zoom = Zooms
    BY DEF IInv, SavedInv
  <2>2. \A r \in Merged : Passed(r)
    BY <2>1, NameType, TileLoopAssumption DEF Merged, Passed, Zoom
  <2> QED  BY <2>2 DEF IInv, SavedInv, Expected
<1> QED  BY <1>1, Inductive, PTL

\* No cell is written twice (tile-smush.cpp:242-254).
THEOREM WrittenOnce == Spec => []SavedBehind
<1>1. IInv => SavedBehind
  <2> SUFFICES ASSUME IInv, AtCell, NEW s \in saved PROVE Before(s[1], Here)
    BY DEF SavedBehind
  <2>1. Passed(s[1])
    BY DEF IInv, SavedInv
  <2> QED  BY <2>1 DEF Passed, Before, Here
<1> QED  BY <1>1, Inductive, PTL

\* Whatever the inputs contain, no tile is written under a name that one of
\* the inputs it is made of does not have (mbtiles.cpp:189-193).
THEOREM WrittenExists == Spec => []SavedExists
<1>1. IInv => SavedExists
  BY DEF IInv, SavedInv, SavedExists
<1> QED  BY <1>1, Inductive, PTL

\* For any rows of the inputs: the merge of this shard if they are valid, and
\* no tile that the inputs do not have if they are not (tile-smush.cpp:242-306).
THEOREM WrittenExactly == Spec => []SavedExact
<1>1. SavedIsMerge /\ SavedExists => SavedExact
  BY DEF SavedExact
<1> QED
  BY <1>1, SavedIsTheMerge, WrittenExists, PTL

\* On valid files the process aborts if and only if a tile to be merged is
\* corrupt (tile-smush.cpp:284-298).
THEOREM ThrowsOnlyForCause == Spec => []ThrowsForCause
<1>1. IInv => ThrowsForCause
  <2> SUFFICES ASSUME IInv, Legal, phase = "done", NEW r \in Merged
               PROVE  ~Unmergeable(r)
    BY DEF IInv, SavedInv, ThrowsForCause
  <2>1. zoom = Zooms
    BY DEF IInv, SavedInv
  <2>2. Passed(r)
    BY <2>1, NameType, TileLoopAssumption DEF Merged, Passed, Zoom
  <2> QED  BY <2>2 DEF IInv, SavedInv
<1> QED  BY <1>1, Inductive, PTL

=============================================================================
