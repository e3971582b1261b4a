------------------------------- MODULE TileMerge -------------------------------
(***************************************************************************)
(* One cell to which several inputs contribute: main() reads each input's  *)
(* tile, decompresses it into a buffer that grows until the tile fits,     *)
(* keeps it in a deque, has vtzero find its layers and gives a view of     *)
(* each layer to the tile builder, which copies what the views show only   *)
(* when it serializes the new tile.  TileLoop takes all of this as one     *)
(* step.                                                                   *)
(*                                                                         *)
(* A decompressed tile is the sequence of the kinds of its fields: a       *)
(* "layer" that vtzero can open, an "other" field, which next_layer()      *)
(* skips, and a "broken" one, at which next_layer() throws.                *)
(***************************************************************************)
EXTENDS Integers, Sequences

CONSTANTS
  Count,  \* matching.size()
  Slack,  \* what the buffer grows by before it is doubled, 128
  Tiles   \* the tiles an input may have

Kind == {"layer", "other", "broken"}

\* `gzip' tells whether the compressed tile is sound.  `size' is the length of
\* the decompressed tile, or of what libdeflate gets before it finds the fault.
ASSUME TileMergeAssumption ==
  /\ Count \in Nat \ {0, 1} /\ Slack \in Nat
  /\ Tiles \subseteq [gzip : BOOLEAN, packed : Nat \ {0}, size : Nat, text : Seq(Kind)]

VARIABLES
  tile,     \* what the matching inputs have in this cell
  pc,       \* "read", "inflate", "push", "layers", "saved" or "thrown"
  match,    \* the loop variable, as an index
  room,     \* oldTile.size()
  strs,     \* the deque, every string with its address
  fresh,    \* the next address of the allocator
  pos,      \* where existingTile's reader is
  views,    \* the views the builder has of layers
  merged    \* the layers of the tile that is saved, <<input, field>>

vars == <<tile, pc, match, room, strs, fresh, pos, views, merged>>

Top == strs[Len(strs)]

-----------------------------------------------------------------------------
\* readTile, and the first size of the buffer: that of the compressed tile.
ReadTile ==
  /\ pc = "read" /\ match <= Count
  /\ room' = tile[match].packed
  /\ pc' = "inflate"
  /\ UNCHANGED <<tile, match, strs, fresh, pos, views, merged>>

\* Mutant: the new size is taken from that of the compressed tile.
DoubleInput == (tile[match].packed + Slack) * 2

Double == (room + Slack) * 2

\* LIBDEFLATE_INSUFFICIENT_SPACE, also for a tile whose fault lies further on.
GrowBuffer ==
  /\ pc = "inflate" /\ room < tile[match].size
  /\ room' = Double
  /\ UNCHANGED <<tile, pc, match, strs, fresh, pos, views, merged>>

\* Mutant: bad data do not throw.
InflateUnchecked == pc = "inflate" /\ room >= tile[match].size

\* LIBDEFLATE_SUCCESS: the buffer is cut to the length of the tile.
Inflates == pc = "inflate" /\ tile[match].gzip /\ room >= tile[match].size

Inflate ==
  /\ Inflates
  /\ room' = tile[match].size
  /\ pc' = "push"
  /\ UNCHANGED <<tile, match, strs, fresh, pos, views, merged>>

\* LIBDEFLATE_BAD_DATA
InflateThrows ==
  /\ pc = "inflate" /\ ~tile[match].gzip
  /\ pc' = "thrown"
  /\ UNCHANGED <<tile, match, room, strs, fresh, pos, views, merged>>

Copy == [at |-> fresh, match |-> match, text |-> tile[match].text]

\* Mutant: a vector moves its strings when it grows.
StoreVector ==
  /\ strs' = LET all == Append(strs, Copy) IN
               [k \in DOMAIN all |-> [all[k] EXCEPT !.at = fresh + k - 1]]
  /\ fresh' = fresh + Len(strs) + 1

\* push_back on a deque leaves the addresses of its elements.
Store == strs' = Append(strs, Copy) /\ fresh' = fresh + 1

\* A copy of oldTile goes into the deque and existingTile reads it there.
Push ==
  /\ pc = "push"
  /\ Store
  /\ pos' = 1
  /\ pc' = "layers"
  /\ UNCHANGED <<tile, match, room, views, merged>>

\* next_layer() skips the fields in front of i.
Others(i) == \A j \in pos .. i - 1 : Top.text[j] = "other"

\* add_existing_layer keeps a view.
NextLayer ==
  /\ pc = "layers"
  /\ \E i \in pos .. Len(Top.text) :
       /\ Others(i) /\ Top.text[i] = "layer"
       /\ views' = Append(views, [at |-> Top.at, field |-> i])
       /\ pos' = i + 1
  /\ UNCHANGED <<tile, pc, match, room, strs, fresh, merged>>

LayerThrows ==
  /\ pc = "layers"
  /\ \E i \in pos .. Len(Top.text) : Others(i) /\ Top.text[i] = "broken"
  /\ pc' = "thrown"
  /\ UNCHANGED <<tile, match, room, strs, fresh, pos, views, merged>>

\* Mutant: the loop ends at the first field that is not a layer.
NoMoreLayersEarly ==
  pc = "layers" /\ \A i \in pos .. Len(Top.text) : i = pos => Top.text[i] # "layer"

NoMoreLayers == pc = "layers" /\ Others(Len(Top.text) + 1)

\* oldTile is destroyed.
NextTile ==
  /\ NoMoreLayers
  /\ match' = match + 1 /\ room' = 0
  /\ pc' = "read"
  /\ UNCHANGED <<tile, strs, fresh, pos, views, merged>>

\* What a view shows: nothing one could rely on if its string is gone.
Shown(v) ==
  IF \E k \in DOMAIN strs : strs[k].at = v.at
  THEN <<(CHOOSE s \in {strs[k] : k \in DOMAIN strs} : s.at = v.at).match, v.field>>
  ELSE <<0, 0>>

\* serialize, compress_string and saveTile.
Serialize ==
  /\ pc = "read" /\ match > Count
  /\ merged' = [k \in DOMAIN views |-> Shown(views[k])]
  /\ pc' = "saved"
  /\ UNCHANGED <<tile, match, room, strs, fresh, pos, views>>

Init ==
  /\ tile \in [1 .. Count -> Tiles]
  /\ pc = "read" /\ match = 1 /\ room = 0
  /\ strs = <<>> /\ fresh = 1 /\ pos = 1 /\ views = <<>> /\ merged = <<>>

Ended == pc \in {"saved", "thrown"} /\ UNCHANGED vars

Step ==
  \/ ReadTile \/ GrowBuffer \/ Inflate \/ InflateThrows \/ Push
  \/ NextLayer \/ LayerThrows \/ NextTile \/ Serialize

Next == Step \/ Ended

Spec == Init /\ [][Next]_vars

\* The thread of the process is scheduled.
FairSpec == Spec /\ WF_vars(Step)

-----------------------------------------------------------------------------
View == [at : Nat, field : Nat]

TypeOK ==
  /\ tile \in [1 .. Count -> Tiles]
  /\ pc \in {"read", "inflate", "push", "layers", "saved", "thrown"}
  /\ match \in 1 .. Count + 1 /\ room \in Nat
  /\ strs \in Seq([at : Nat, match : 1 .. Count, text : Seq(Kind)])
  /\ fresh \in Nat /\ pos \in Nat \ {0}
  /\ views \in Seq(View) /\ merged \in Seq(Nat \X Nat)

\* Until the tile is serialized, every view shows a layer of a string that is
\* still where it was (tile-smush.cpp:283-297 and vtzero's builder.hpp:113-115:
\* "Until then, the data referenced here must stay available").
ViewsAlive ==
  \A k \in DOMAIN views : \E n \in DOMAIN strs :
    /\ strs[n].at = views[k].at
    /\ views[k].field \in DOMAIN strs[n].text
    /\ strs[n].text[views[k].field] = "layer"

Before(a, b) == a[1] < b[1] \/ (a[1] = b[1] /\ a[2] < b[2])

IsLayer(m, i) ==
  m \in 1 .. Count /\ i \in DOMAIN tile[m].text /\ tile[m].text[i] = "layer"

\* The tile that is saved has all layers of all inputs, in the order of the
\* inputs and of their fields, and nothing else, although they were only
\* referred to while further tiles were read (tile-smush.cpp:276-303).
ConcatExact ==
  pc = "saved" =>
    /\ \A j, k \in DOMAIN merged : j < k => Before(merged[j], merged[k])
    /\ \A k \in DOMAIN merged : IsLayer(merged[k][1], merged[k][2])
    /\ \A m \in 1 .. Count : \A i \in DOMAIN tile[m].text :
         IsLayer(m, i) => \E k \in DOMAIN merged : merged[k] = <<m, i>>

Sound(m) ==
  tile[m].gzip /\ \A i \in DOMAIN tile[m].text : tile[m].text[i] # "broken"

\* A cell with a corrupt tile is never saved in part, and only such a cell
\* stops the merge (helpers.cpp:142-149, tile-smush.cpp:284-303).
AllOrNothing ==
  /\ pc = "saved" => \A m \in 1 .. Count : Sound(m)
  /\ pc = "thrown" => \E m \in 1 .. Count : ~Sound(m)

\* The buffer is never much longer than twice what it has to hold, or than
\* the compressed tile (helpers.cpp:113-147).
BufferBounded ==
  pc = "inflate" =>
    room <= tile[match].packed \/ room < 2 * (tile[match].size + Slack)

\* The loop of decompress_string and those of main() end.
Terminates == <>(pc \in {"saved", "thrown"})

-----------------------------------------------------------------------------
(* The inductive invariant of TileMergeProofs.                             *)

\* The deque has one string per input that was decompressed.
StrsInv ==
  /\ fresh = Len(strs) + 1
  /\ \A k \in DOMAIN strs : strs[k] = [at |-> k, match |-> k, text |-> tile[k].text]
  /\ pc \in {"read", "inflate", "push"} => Len(strs) = match - 1
  /\ pc = "layers" => Len(strs) = match /\ pos <= Len(tile[match].text) + 1
  /\ pc \in {"inflate", "push", "layers"} => match <= Count
  /\ pc = "saved" => match = Count + 1

\* The layer of a view, and whether next_layer() has gone past a field.
Name(v) == <<v.at, v.field>>
Passed(m, i) == m < match \/ (pc = "layers" /\ m = match /\ i < pos)

ViewsInv ==
  /\ \A k \in DOMAIN views :
       /\ views[k].at \in DOMAIN strs /\ IsLayer(views[k].at, views[k].field)
       /\ pc # "thrown" => Passed(views[k].at, views[k].field)
  /\ \A j, k \in DOMAIN views : j < k => Before(Name(views[j]), Name(views[k]))
  /\ pc # "thrown" =>
       \A m \in 1 .. Count : \A i \in DOMAIN tile[m].text :
         IsLayer(m, i) /\ Passed(m, i) =>
           \E k \in DOMAIN views : views[k] = [at |-> m, field |-> i]

SoundInv ==
  /\ \A m \in 1 .. Count : m < match => Sound(m)
  /\ pc \in {"push", "layers"} => tile[match].gzip
  /\ pc = "layers" => \A i \in 1 .. pos - 1 : tile[match].text[i] # "broken"
  /\ pc = "thrown" => \E m \in 1 .. Count : ~Sound(m)

MergedInv ==
  pc = "saved" => merged = [k \in DOMAIN views |-> Name(views[k])]

IInv == TypeOK /\ StrsInv /\ ViewsInv /\ SoundInv /\ BufferBounded /\ MergedInv

=============================================================================
