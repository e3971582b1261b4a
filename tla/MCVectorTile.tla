----------------------------- MODULE MCVectorTile -----------------------------
(***************************************************************************)
(* Coordinates of seven bits, maps from two entries of a table on.         *)
(***************************************************************************)
EXTENDS VectorTile

Text(s) == EncodedValue("string", s)
ShortJob ==
  [names |-> {"a"}, existing |-> FALSE, kinds |-> {"point"}, ids |-> {}, points |-> {<<1, 2>>},
   counts |-> {}, parts |-> 1, keys |-> {"k"}, values |-> {Text("v")}, ways |-> {},
   entries |-> 0, features |-> 1, properties |-> 0, data |-> <<>>, contents |-> <<>>]

\* Points, lines and rings in every order, with coordinates that wrap.
P1 == <<-64, 0>>
P2 == <<63, 1>>
P3 == <<0, -2>>

Shapes ==
  {[ShortJob EXCEPT !.kinds = {"point"}, !.points = {P1, P2}, !.counts = {2}, !.ids = {7},
                    !.ways = {"text"}, !.properties = 1, !.features = 2],
   [ShortJob EXCEPT !.kinds = {"linestring"}, !.points = {P1, P2, P3}, !.counts = {2, 3},
                    !.parts = 2],
   [ShortJob EXCEPT !.kinds = {"polygon"}, !.points = {P1, P2, P3}, !.counts = {4},
                    !.ways = {"text"}, !.properties = 1],
   [ShortJob EXCEPT !.kinds = {"polygon"}, !.points = {P1, P2}, !.counts = {4, 5}, !.parts = 2]}

\* Many texts by all ways.
Tables ==
  {[ShortJob EXCEPT !.ways = {"text"}, !.keys = {"k", "l", "m"},
                    !.values = {Text("v"), EncodedValue("int", "v")},
                    !.properties = 3],
   [ShortJob EXCEPT !.ways = {"text", "index", "cache"}, !.keys = {"k", "l"},
                    !.values = {Text("v")}, !.properties = 2, !.entries = 2,
                    !.counts = {1}]}

\* A layer to copy from: the same text twice in a table, and features with and
\* without an id, an index that is out of range, and properties.
Kinds == <<EncodedValue("int", 5), EncodedValue("bool", 1), EncodedValue("int", 5)>>
CopyFeature(id, t, shapes, tags) ==
  (IF id = 0 THEN <<>> ELSE <<<<"id", id>>>>)
  \o <<<<"type", t>>, <<"geometry", EncodeGeometry(t, shapes)>>, <<"tags", tags>>>>
Content(id, t, shapes, properties) ==
  [hasId |-> id # 0, id |-> id, type |-> t, parts |-> shapes, properties |-> properties]

Lines == <<<<P1, P2>>, <<P3, P1, P3>>>>
GoodFeatures ==
  <<<<"features", CopyFeature(0, LINESTRING, Lines, <<1, 2, 0, 1>>)>>,
    <<"features", CopyFeature(8, POINT, <<<<P1>>>>, <<1, 0>>)>>>>
GoodContents ==
  <<Content(0, LINESTRING, Lines, <<<<"l", Kinds[3]>>, <<"k", Kinds[2]>>>>),
    Content(8, POINT, <<<<P1>>>>, <<<<"l", Kinds[1]>>>>)>>
Torn == <<<<"features", CopyFeature(9, POINT, <<<<P1>>>>, <<0, 1, 7, 0>>)>>>>
TornContent == <<Content(9, POINT, <<<<P1>>>>, <<>>)>>
SourceTables ==
  <<<<"keys", "k">>, <<"keys", "l">>>> \o [i \in DOMAIN Kinds |-> <<"values", Kinds[i]>>]
SourceHead == <<<<"version", 1>>, <<"name", "s">>, <<"extent", 512>>>>

Copies ==
  {[ShortJob EXCEPT !.names = {"a", "b"}, !.existing = TRUE, !.kinds = {"geometry"},
                    !.ways = {"mapper", "add"}, !.properties = 1,
                    !.data = SourceHead \o GoodFeatures \o SourceTables,
                    !.contents = GoodContents],
   [ShortJob EXCEPT !.kinds = {"geometry", "point"}, !.ways = {"copy", "mapper", "add"},
                    !.properties = 1, !.ids = {9}, !.counts = {1},
                    !.data = SourceHead \o GoodFeatures \o Torn \o SourceTables,
                    !.contents = GoodContents \o TornContent]}

MCJobs == Shapes \cup Tables \cup Copies

-----------------------------------------------------------------------------
\* Tiles of other programs.
Layer(fields) == <<<<"layers", fields>>>>
WithGeometry(t, s) ==
  Layer(<<<<"name", "f">>, <<"features", <<<<"type", t>>, <<"geometry", s>>>>>>>>)

\* Geometries with anything in one place of a good one, or cut off, or with too much.
GoodGeometries ==
  {<<POINT, EncodeGeometry(POINT, <<<<P1, P2>>>>)>>,
   <<LINESTRING, EncodeGeometry(LINESTRING, Lines)>>,
   <<POLYGON, EncodeGeometry(POLYGON, <<<<P1, P2, P3, P1>>, <<P3, P2, P1, P3>>>>)>>,
   <<POLYGON, EncodeGeometry(POLYGON, <<<<P1, P1>>>>)>>}
SomeItems == {0, 1, 2, 5, 7, 9, 10, 15, 17, 18, 23, 34, 81, 82, 127}
Variants(s) ==
  {s} \cup {[s EXCEPT ![i] = n] : i \in DOMAIN s, n \in SomeItems}
  \cup {SubSeq(s, 1, i) : i \in DOMAIN s} \cup {s \o <<n>> : n \in SomeItems}
\* A ring around all of the plane, whose area is too large for the sum, one with
\* sums on the way that are, in both directions, and one around a quarter.
WideRings ==
  {<<<<-64, -64>>, <<63, -64>>, <<63, 63>>, <<-64, 63>>, <<-64, -64>>>>,
   <<<<-64, -64>>, <<63, -64>>, <<63, 63>>, <<63, -64>>, <<0, 0>>, <<-64, -64>>>>,
   <<<<-64, -64>>, <<-64, 63>>, <<63, 63>>, <<-64, 63>>, <<0, 0>>, <<-64, -64>>>>,
   <<<<0, 0>>, <<63, 0>>, <<63, 63>>, <<0, 63>>, <<0, 0>>>>}
Geometries ==
  {WithGeometry(POLYGON, EncodeGeometry(POLYGON, <<r>>)) : r \in WideRings} \cup
  {WithGeometry(t, s) : t \in 0 .. 3, s \in UNION {Variants(g[2]) : g \in GoodGeometries}}

\* Layers and features with fields missing, twice, unknown or in another order.
LayerFieldsOf ==
  {<<"version", 1>>, <<"version", 3>>, <<"name", "f">>, <<"name", "g">>, <<"keys", "k">>,
   <<"values", EncodedValue("sint", 1)>>, <<"other", 0>>,
   <<"features", <<<<"id", 1>>, <<"id", 2>>, <<"geometry", <<9, 0, 0>>>>, <<"type", 1>>,
                   <<"tags", <<0, 0>>>>>>>>}
FeatureFields ==
  {<<"id", 1>>, <<"type", 1>>, <<"type", 4>>, <<"geometry", <<>>>>, <<"geometry", <<9, 2, 2>>>>,
   <<"tags", <<0, 0>>>>, <<"tags", <<0, 1>>>>, <<"tags", <<1>>>>, <<"other", 0>>}
OddValues ==
  {<<>>, <<<<"other", 0>>>>, <<<<"int", 1>>, <<"bool", 0>>, <<"int", 2>>>>,
   <<<<"bool", 1>>, <<"other", 1>>>>}
OddLayers == {Layer(s) : s \in BoundedSeq(LayerFieldsOf, 4)}
OddFeatures ==
  {Layer(<<<<"features", s>>, <<"name", "f">>, <<"keys", "k">>, <<"values", v>>>>) :
     s \in BoundedSeq(FeatureFields, 3), v \in {EncodedValue("int", 1)}}
  \cup {Layer(<<<<"features", <<<<"tags", <<0, 0>>>>, <<"type", 1>>, <<"geometry", <<9, 2, 2>>>>>>>>,
                <<"values", v>>, <<"name", "f">>, <<"keys", "k">>>>) : v \in OddValues}
OddTiles ==
  {Layer(<<<<"name", n1>>>>) \o <<<<"other", 0>>>> \o Layer(<<<<"name", n2>>>>) \o Layer(s) :
     n1 \in {"f", "g"}, n2 \in {"f", "g"}, s \in {<<>>, <<<<"name", "f">>, <<"name", "h">>>>}}

MCForeign == Geometries \cup OddLayers \cup OddFeatures \cup OddTiles

MCLonger == {64}

=============================================================================
