----------------------------- MODULE MCMetadata -----------------------------
(***************************************************************************)
(* Inputs in all quarters of the globe; some lack an entry.  Layers with   *)
(* and without fields, alone, repeated and in any order; behind them the   *)
(* end of the json, or other entries of it.  Sides are rounded up and down *)
(* when they are printed, and some are in the middle.                      *)
(***************************************************************************)
EXTENDS Metadata

Roads == <<"{", "a", "{", "}", "}">>
Parks == <<"{", "{", "a", "}", ",", "{", "}", "b", "}">>
Lakes == <<"{", "}">>
MCObjects == {Roads, Parks, Lakes}
MCTails == {<<"}">>, <<",", "{", "a", "}", "]", "}">>}
Ends(l) == [list |-> l, tail |-> <<"}">>]
GoesOn(l) == [list |-> l, tail |-> <<",", "{", "a", "}", "]", "}">>]

MCNames == <<"bounds", "json", "maxzoom", "minzoom", "name">>

Box(w, s, e, n) == [minLon |-> w, minLat |-> s, maxLon |-> e, maxLat |-> n]

Table(b, j, min, max) ==
  "bounds" :> b @@ "json" :> j @@ "minzoom" :> min @@ "maxzoom" :> max

MCMetas ==
  {Table(Box(-21, -18, -10, 30), Ends(<<Roads, Roads>>), 0, 14) @@ "name" :> "a",
   Table(Box(-30, 10, 21, 20), GoesOn(<<Parks, Roads>>), 2, 12) @@ "name" :> "b",
   Table(Box(-91, -40, -51, -29), GoesOn(<<>>), 1, 13),
   "bounds" :> Box(10, 41, 50, 61) @@ "json" :> Ends(<<Lakes>>),
   Table(Box(-91, -40, -51, -29), NoLayers, 3, 4),
   "json" :> Ends(<<Lakes>>) @@ "name" :> "c"}

=============================================================================
