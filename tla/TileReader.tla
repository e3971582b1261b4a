------------------------------ MODULE TileReader ------------------------------
(***************************************************************************)
(* vtzero's readers: a program walks over the layers of a tile, the        *)
(* features of a layer and the properties of a feature, and has the        *)
(* geometry of each feature decoded.  A layer fills its tables when they   *)
(* are first needed.  What is thrown ends the walk.                        *)
(***************************************************************************)
EXTENDS TileFormat, GeometryDecoder

CONSTANT Longer  \* from where on an integer takes one more byte: 2^7, 2^14, 2^21, 2^28

ASSUME TileReaderAssumption == Longer \subseteq Nat /\ IsFiniteSet(Longer)

VARIABLES
  text,        \* the tile
  reading,     \* "tile", "layer", "geometry" or "properties": what comes next
  tileAt,      \* the layers that next_layer() has delivered
  layer,       \* the present layer
  layerAt,     \* the features of it that next_feature() has delivered
  feature,     \* the present feature
  propertyAt,  \* m_property_iterator, in pairs
  got,         \* the layers, with their features, as they were delivered
  fault        \* what was thrown, or "none"

position == <<tileAt, layerAt, propertyAt>>
readerVars == <<text, reading, tileAt, layer, layerAt, feature, propertyAt, got, fault>>

NoLayer == ReadLayer(<<>>)
NoFeature == ReadFeature(<<>>)

\* The decoder, before and after a geometry.
NoDecoder ==
  /\ items' = <<>> /\ limit' = 0 /\ type' = UNKNOWN
  /\ place' = "type" /\ it' = 0 /\ cursor' = Origin /\ count' = 0 /\ area' = 0 /\ parts' = <<>>

ThrowInReader(e) == fault' = e /\ reading' = "end"

-----------------------------------------------------------------------------
\* next_layer(); for_each_layer does the same with a reader of its own.
NextLayer ==
  /\ reading = "tile" /\ tileAt < CountLayers(text)
  /\ LET l == ReadLayer(All(text, "layers")[tileAt + 1]) IN
     /\ tileAt' = tileAt + 1 /\ layerAt' = 0
     /\ IF l.error # "none" THEN ThrowInReader(l.error) /\ UNCHANGED <<layer, got>>
        ELSE /\ layer' = l /\ reading' = "layer"
             /\ got' = Append(got, [name |-> l.name, version |-> l.version,
                                    extent |-> l.extent, features |-> <<>>])
             /\ UNCHANGED fault
  /\ UNCHANGED <<text, feature, propertyAt, decoderVars>>

NoMoreLayers ==
  /\ reading = "tile" /\ tileAt = CountLayers(text)
  /\ reading' = "end"
  /\ UNCHANGED <<text, position, layer, feature, got, fault, decoderVars>>

ResetLayer ==
  /\ reading = "tile" /\ tileAt > 0
  /\ tileAt' = 0 /\ got' = <<>>
  /\ UNCHANGED <<text, reading, layer, layerAt, feature, propertyAt, fault, decoderVars>>

-----------------------------------------------------------------------------
\* The bytes of the first n items, and of all.
ItemBytes(i) == 1 + Cardinality({n \in Longer : n <= i})
BytesAfter(s) ==
  LET first[n \in 0 .. Len(s)] == IF n = 0 THEN 0 ELSE first[n - 1] + ItemBytes(s[n]) IN first
BytesOf(s) == BytesAfter(s)[Len(s)]

\* next_feature() and for_each_feature; the program has the geometry decoded.
NextFeature ==
  /\ reading = "layer" /\ layerAt < layer.numFeatures
  /\ LET f == ReadFeature(All(layer.data, "features")[layerAt + 1]) IN
     /\ layerAt' = layerAt + 1 /\ propertyAt' = 0
     /\ IF f.error # "none" THEN ThrowInReader(f.error) /\ UNCHANGED <<feature, decoderVars>>
        ELSE /\ feature' = f /\ reading' = "geometry"
             /\ items' = f.geometry /\ limit' = BytesOf(f.geometry) \div 2 /\ type' = f.type
             /\ place' = "type" /\ it' = 0 /\ cursor' = Origin
             /\ count' = 0 /\ area' = 0 /\ parts' = <<>>
             /\ UNCHANGED fault
  /\ UNCHANGED <<text, tileAt, layer, got>>

NoMoreFeatures ==
  /\ reading = "layer" /\ layerAt = layer.numFeatures
  /\ reading' = "tile" /\ layer' = NoLayer /\ layerAt' = 0
  /\ UNCHANGED <<text, tileAt, feature, propertyAt, got, fault, decoderVars>>

\* reset_feature(); the tables remain.
ResetFeature ==
  /\ reading = "layer" /\ layerAt > 0
  /\ layerAt' = 0 /\ got' = [got EXCEPT ![Len(got)].features = <<>>]
  /\ UNCHANGED <<text, reading, tileAt, layer, feature, propertyAt, fault, decoderVars>>

DecodeStep == reading = "geometry" /\ DecoderNext /\ UNCHANGED readerVars

GeometryDecoded ==
  /\ reading = "geometry" /\ place \in {"done", "threw"}
  /\ IF place = "threw" THEN ThrowInReader("geometry") /\ UNCHANGED got
     ELSE /\ reading' = "properties"
          /\ got' = [got EXCEPT ![Len(got)].features =
                       Append(@, [hasId |-> feature.hasId, id |-> feature.id,
                                  type |-> feature.type,
                                  parts |-> [i \in DOMAIN parts |-> parts[i].points],
                                  properties |-> <<>>])]
          /\ UNCHANGED fault
  /\ NoDecoder
  /\ UNCHANGED <<text, position, layer, feature>>

-----------------------------------------------------------------------------
Pairs == Len(feature.tags) \div 2
GotProperties == got[Len(got)].features[layerAt].properties
Deliver(s) == got' = [got EXCEPT ![Len(got)].features[layerAt].properties = s]

\* key_table(), value_table(), or a key or value of which the program has an index.
LookAtTables ==
  /\ reading \in {"layer", "properties"}
  /\ layer' \in {KeyTable(layer), ValueTable(layer)}
  /\ UNCHANGED <<text, reading, position, feature, got, fault, decoderVars>>

\* next_property(), which is next_property_indexes() with the texts of the
\* indexes, and apply_visitor on the value.
NextProperty ==
  /\ reading = "properties" /\ propertyAt < Pairs
  /\ LET ki == feature.tags[2 * propertyAt + 1]
         vi == feature.tags[2 * propertyAt + 2]
         p == Property(layer, ki, vi)
         v == Visit(p.value)
         known == ki < KeyTableSize(layer) /\ vi < ValueTableSize(layer)
     IN /\ layer' = IF known THEN ValueTable(KeyTable(layer)) ELSE layer
        /\ IF ~known THEN ThrowInReader("out_of_range") /\ UNCHANGED got
           ELSE IF v.error # "none" THEN ThrowInReader(v.error) /\ UNCHANGED got
           ELSE /\ Deliver(Append(GotProperties, <<p.key, v.value>>))
                /\ UNCHANGED <<fault, reading>>
  /\ propertyAt' = propertyAt + 1
  /\ UNCHANGED <<text, tileAt, layerAt, feature, decoderVars>>

\* for_each_property, or for_each_property_indexes with key() and value() of
\* each pair, with apply_visitor.
EachProperty ==
  /\ reading = "properties" /\ propertyAt = 0 /\ Pairs > 0
  /\ LET r == ForEachProperty(layer, feature.tags)
         values == [i \in DOMAIN r.properties |-> Visit(r.properties[i][2])]
         bad == {i \in DOMAIN values : values[i].error # "none"}
     IN /\ layer' = ValueTable(KeyTable(layer))
        /\ IF bad # {} THEN ThrowInReader(values[CHOOSE i \in bad : \A j \in bad : i <= j].error)
                            /\ UNCHANGED got
           ELSE IF r.error # "none" THEN ThrowInReader(r.error) /\ UNCHANGED got
           ELSE /\ Deliver([i \in DOMAIN values |-> <<r.properties[i][1], values[i].value>>])
                /\ UNCHANGED <<fault, reading>>
  /\ propertyAt' = Pairs
  /\ UNCHANGED <<text, tileAt, layerAt, feature, decoderVars>>

ResetProperty ==
  /\ reading = "properties" /\ propertyAt > 0
  /\ propertyAt' = 0 /\ Deliver(<<>>)
  /\ UNCHANGED <<text, reading, tileAt, layer, layerAt, feature, fault, decoderVars>>

NoMoreProperties ==
  /\ reading = "properties" /\ propertyAt = Pairs
  /\ reading' = "layer" /\ feature' = NoFeature /\ propertyAt' = 0
  /\ UNCHANGED <<text, tileAt, layer, layerAt, got, fault, decoderVars>>

ReaderNext ==
  \/ NextLayer \/ NoMoreLayers \/ ResetLayer
  \/ NextFeature \/ NoMoreFeatures \/ ResetFeature \/ DecodeStep \/ GeometryDecoded
  \/ LookAtTables \/ NextProperty \/ EachProperty \/ ResetProperty \/ NoMoreProperties

=============================================================================
