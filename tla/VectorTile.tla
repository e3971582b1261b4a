------------------------------ MODULE VectorTile ------------------------------
(***************************************************************************)
(* A program that builds a tile with vtzero, and one that reads it, or     *)
(* that reads a tile some other program has made.                          *)
(***************************************************************************)
EXTENDS TileBuilder, TileReader

CONSTANT Foreign  \* tiles of other programs

ASSUME VectorTileAssumption == \A t \in Foreign : IsTile(t)

vars == <<builderVars, readerVars, decoderVars>>

Idle ==
  /\ layer = NoLayer /\ feature = NoFeature
  /\ tileAt = 0 /\ layerAt = 0 /\ propertyAt = 0 /\ got = <<>> /\ fault = "none"
  /\ Decoder(<<>>, 0, UNKNOWN)

Init ==
  /\ layers = <<>> /\ builder = NoBuilder /\ caches = <<>>
  /\ tile = <<>> /\ built = <<>> /\ Idle
  /\ \/ job \in Jobs /\ status = "building" /\ whole = TRUE /\ text = <<>> /\ reading = "no"
     \/ /\ job = [names |-> {}] /\ status = "foreign" /\ whole = FALSE
        /\ text \in Foreign /\ reading = "tile"

Build == BuilderNext /\ UNCHANGED <<readerVars, decoderVars>>

\* The tile_builder is done with.
HandOver ==
  /\ status = "serialized" /\ reading = "no"
  /\ text' = tile /\ reading' = "tile"
  /\ layers' = <<>> /\ caches' = <<>> /\ tile' = <<>>
  /\ UNCHANGED <<job, builder, status, built, whole>>
  /\ UNCHANGED <<decoderVars, position, layer, feature, got, fault>>

ReadOn == ReaderNext /\ UNCHANGED builderVars

Ended == (status = "aborted" \/ reading = "end") /\ UNCHANGED vars

Next == Build \/ HandOver \/ ReadOn \/ Ended

Spec == Init /\ [][Next]_vars

-----------------------------------------------------------------------------
\* What was asked for is what was delivered: a value by its kind and content.
Same(asked, delivered) ==
  /\ asked.hasId = delivered.hasId /\ asked.id = delivered.id
  /\ asked.type = delivered.type /\ asked.parts = delivered.parts

SameProperties(asked, delivered) ==
  /\ Len(delivered) <= Len(asked)
  /\ \A i \in DOMAIN delivered :
       delivered[i][1] = asked[i][1] /\ delivered[i][2] = asked[i][2][1]

Expected == SelectSeq(built, LAMBDA l : l.features # <<>>)

\* A tile is read without exceptions as the layers, features, geometries and
\* properties that its program asked for and committed, in this order, however
\* it put texts into the tables and whatever it rolled back in between; unless
\* it committed a feature in whose geometry points are missing (builder.hpp,
\* builder_impl.hpp, feature_builder_impl.hpp, property_mapper.hpp, layer.hpp,
\* feature.hpp).
ReadsWhatWasBuilt ==
  whole =>
    /\ fault = "none"
    /\ Len(got) <= Len(Expected) /\ (reading = "end" => Len(got) = Len(Expected))
    /\ \A i \in DOMAIN got :
         LET asked == Expected[i].features
             delivered == got[i].features
             done == i < Len(got) \/ reading \in {"tile", "end"}
         IN /\ got[i].name = Expected[i].name
            /\ got[i].version = Expected[i].version /\ got[i].extent = Expected[i].extent
            /\ Len(delivered) <= Len(asked) /\ (done => Len(delivered) = Len(asked))
            /\ \A j \in DOMAIN delivered :
                 /\ Same(asked[j], delivered[j])
                 /\ SameProperties(asked[j].properties, delivered[j].properties)
                 /\ (done \/ j < Len(delivered)) =>
                      Len(delivered[j].properties) = Len(asked[j].properties)

\* A table has no text twice as long as texts are only added by functions that
\* look for them, before and after the change from the flat table to the map
\* (builder_impl.hpp:104-147, 180-207).
NoDuplicateTexts ==
  \A l \in DOMAIN layers : \A t \in {layers[l].keys, layers[l].values} :
    t.checked => \A i, j \in DOMAIN t.texts : t.texts[i] = t.texts[j] => i = j

\* However a key or a value came into the tables, by a look at the texts, by the
\* map, unchecked, by an index that was kept or by a mapper, the tags of the
\* feature that is built are the indexes of what the program asked for, one pair
\* for each property (builder.hpp:458-526, index.hpp:36-239,
\* property_mapper.hpp:31-99).
TagsMean ==
  Alive =>
    LET keys == layers[builder.layer].keys.texts
        values == layers[builder.layer].values.texts
        asked == builder.asked.properties
        tags == builder.tags
    IN /\ Len(tags) = 2 * Len(asked)
       /\ \A i \in DOMAIN asked :
            /\ tags[2 * i - 1] < Len(keys) /\ keys[tags[2 * i - 1] + 1] = asked[i][1]
            /\ tags[2 * i] < Len(values) /\ values[tags[2 * i] + 1] = asked[i][2]

\* A layer only grows: an index that was handed out keeps its text, and features
\* come one by one and as a whole, each when the program is told that it has
\* been added (builder.hpp:536-564, 1350-1361).
GrowsByWholeFeatures ==
  [][status' = "building" => \A l \in DOMAIN layers :
       /\ IsPrefix(layers[l].keys.texts, layers'[l].keys.texts)
       /\ IsPrefix(layers[l].values.texts, layers'[l].values.texts)
       /\ IsPrefix(layers[l].data, layers'[l].data)
       /\ Len(layers'[l].data) - Len(layers[l].data)
          = Len(built'[l].features) - Len(built[l].features)]_vars

-----------------------------------------------------------------------------
\* The grammar of geometries (vector tile specification 4.3.4), as far as vtzero
\* asks for it.
Deltas(points, from) ==
  FlattenSeq([i \in DOMAIN points |->
                Delta(points[i], IF i = 1 THEN from ELSE points[i - 1])])

EncodeLine(points, from) ==
  <<Command(MOVE_TO, 1)>> \o Delta(points[1], from)
  \o <<Command(LINE_TO, Len(points) - 1)>> \o Deltas(Tail(points), points[1])

EncodePart(t, points, from) ==
  CASE t = POINT -> <<Command(MOVE_TO, Len(points))>> \o Deltas(points, from)
    [] t = LINESTRING -> EncodeLine(points, from)
    [] t = POLYGON -> EncodeLine(Front(points), from) \o <<Command(CLOSE_PATH, 1)>>

LastPoint(t, points) == IF t = POLYGON THEN Last(Front(points)) ELSE Last(points)

EncodeGeometry(t, shapes) ==
  FlattenSeq([i \in DOMAIN shapes |->
                EncodePart(t, shapes[i],
                           IF i = 1 THEN Origin ELSE LastPoint(t, shapes[i - 1]))])

\* MoveTo with one point and LineTo with n points.
IsLine(s, n) ==
  /\ Len(s) = 4 + 2 * n
  /\ s[1] = Command(MOVE_TO, 1) /\ s[4] = Command(LINE_TO, n)

IsPart(t, s) ==
  CASE t = POINT -> \E n \in 1 .. Len(s) : Len(s) = 1 + 2 * n /\ s[1] = Command(MOVE_TO, n)
    [] t = LINESTRING -> \E n \in 1 .. Len(s) : IsLine(s, n)
    [] t = POLYGON -> /\ s # <<>> /\ Last(s) = Command(CLOSE_PATH, 1)
                      /\ \E n \in 0 .. Len(s) : IsLine(Front(s), n)

IsGeometry(t, s) ==
  LET isRest[k \in 0 .. Len(s)] ==
        k = Len(s) \/ \E m \in k + 1 .. Len(s) : IsPart(t, SubSeq(s, k + 1, m)) /\ isRest[m]
  IN CASE t = POINT -> IsPart(t, s)
       [] t \in {LINESTRING, POLYGON} -> isRest[0]
       [] OTHER -> FALSE

TwiceArea(points) ==
  FoldLeft(LAMBDA a, i : a + Det(points[i], points[i + 1]), 0,
           [i \in 1 .. Len(points) - 1 |-> i])
IsInt64(v) == Int64(v) = v

\* Any geometry that is decoded is what would be encoded for the points that the
\* handler got, as many in each part as it was told, with the type of each ring
\* by its area unless twice that does not fit in 64 bits, though what is added up
\* on the way may not; and one that is refused is not in the grammar, so that no
\* limit and no look-ahead turns down a geometry that is (geometry.hpp:154-359).
DecodesExactly ==
  /\ place = "done" =>
       /\ items = EncodeGeometry(type, [i \in DOMAIN parts |-> parts[i].points])
       /\ \A i \in DOMAIN parts :
            /\ Len(parts[i].points) = parts[i].announced
            /\ LET a == TwiceArea(parts[i].points)
               IN type = POLYGON /\ IsInt64(a) => parts[i].ring = RingType(a)
  /\ place = "threw" => ~IsGeometry(type, items)

-----------------------------------------------------------------------------
\* The tables of a layer are filled once, both of them whichever one is asked
\* for, and their sizes are the same before and after (layer.hpp:69-89, 235-323).
TablesFilledOnce ==
  /\ KeyTableSize(layer) = Len(All(layer.data, "keys"))
  /\ ValueTableSize(layer) = Len(All(layer.data, "values"))
  /\ layer.keys \in {<<>>, All(layer.data, "keys")}
  /\ layer.values \in {<<>>, All(layer.data, "values")}

FirstWith(s, Is(_)) == CHOOSE i \in DOMAIN s : Is(s[i]) /\ \A j \in 1 .. i - 1 : ~Is(s[j])

\* The functions that look for a layer or a feature find what the walk finds: by
\* number, or the first one with a name or an id.  This holds for layers that
\* have one name and features that have one id, others are found by the first
\* and tell the last (vector_tile.hpp:111-233, layer.hpp:405-420).
LookupsAgree ==
  /\ reading = "layer" => GetLayer(text, tileAt - 1) = Found(layer.data)
  /\ (reading = "layer" /\ \A d \in ToSet(All(text, "layers")) : Len(All(d, "name")) = 1) =>
       LET s == All(text, "layers")
           named(d) == All(d, "name") = <<layer.name>>
       IN GetLayerByName(text, layer.name) = Found(s[FirstWith(s, named)])
  /\ (reading = "geometry" /\ feature.hasId /\
      \A d \in ToSet(All(layer.data, "features")) : Len(All(d, "id")) <= 1) =>
       LET s == All(layer.data, "features")
           identified(d) == All(d, "id") = <<feature.id>>
       IN GetFeatureById(layer, feature.id).data = s[FirstWith(s, identified)]

=============================================================================
