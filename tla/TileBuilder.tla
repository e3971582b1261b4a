------------------------------ MODULE TileBuilder -----------------------------
(***************************************************************************)
(* vtzero's builders: a program adds layers to a tile, and features to its *)
(* layers: a builder for a feature is made, gets an id, a geometry point   *)
(* by point, and properties, and is committed, rolled back or destroyed,   *)
(* also by an exception that unwinds.  Keys and values go into tables of   *)
(* the layer at once; a feature refers to them by index.                   *)
(*                                                                         *)
(* The program keeps to the preconditions that the functions assert, with  *)
(* one exception: after set_point() has thrown it may go on or unwind, and *)
(* it may stop in the midst of a geometry.  One builder is alive at a time *)
(* (a second one on the same layer breaks an assertion of protozero).      *)
(***************************************************************************)
EXTENDS TileFormat

CONSTANTS
  Jobs,            \* what programs do: the records that are in job
  MaxEntriesFlat   \* max_entries_flat, 20

IsJob(j) ==
  /\ IsLayer(j.data) /\ IsSeq(j.contents)
  /\ Len(j.contents) <= Len(All(j.data, "features"))
  /\ j.ids \subseteq Nat /\ j.counts \subseteq Nat /\ j.points \subseteq Int \X Int
  /\ j.kinds \subseteq {"point", "linestring", "polygon", "geometry"}

ASSUME TileBuilderAssumption == MaxEntriesFlat \in Nat /\ \A j \in Jobs : IsJob(j)

VARIABLES
  job,      \* what this program uses and how much of it; data is a layer to copy
            \* from, and contents are its features, as the program knows them
  layers,   \* m_layers
  builder,  \* the feature builder that is alive, if there is one
  caches,   \* the indexes and the mapper of each layer
  status,   \* "building", "serialized", or "aborted" by an assertion
  tile,     \* what was serialized, or the tile of another program
  built,    \* what has been asked for and committed: a list of layers
  whole     \* each committed feature has a complete geometry

builderVars == <<job, layers, builder, caches, status, tile, built, whole>>

-----------------------------------------------------------------------------
\* The tables of a layer.  Below max_entries_flat entries a text is looked for
\* in the table itself, from then on in a map that is filled once.
EmptyTable == [texts |-> <<>>, map |-> <<>>, checked |-> TRUE]

AddWithoutDupCheck(t, s) ==
  [table |-> [t EXCEPT !.texts = Append(@, s)], index |-> Len(t.texts)]

\* What emplace() makes of a map that does not have the key.
Emplace(map, key, value) ==
  [x \in DOMAIN map \cup {key} |-> IF x = key THEN value ELSE map[x]]

Populate(t) ==
  [s \in ToSet(t.texts) |-> CHOOSE i \in 0 .. Len(t.texts) - 1 :
     t.texts[i + 1] = s /\ \A j \in i + 2 .. Len(t.texts) : t.texts[j] # s]

\* Mutant: a text that is new to the map is not put into it.
AddForgetful(t, s) ==
  LET map == IF t.map = <<>> THEN Populate(t) ELSE t.map
      hit == SelectInSeq(t.texts, LAMBDA x : x = s)
  IN IF Len(t.texts) < MaxEntriesFlat
     THEN IF hit # 0 THEN [table |-> t, index |-> hit - 1] ELSE AddWithoutDupCheck(t, s)
     ELSE IF s \in DOMAIN map
     THEN [table |-> [t EXCEPT !.map = map], index |-> map[s]]
     ELSE AddWithoutDupCheck([t EXCEPT !.map = map], s)

\* add_key and add_value with find_in_keys_table and find_in_values_table.
AddText(t, s) ==
  LET map == IF t.map = <<>> THEN Populate(t) ELSE t.map
      hit == SelectInSeq(t.texts, LAMBDA x : x = s)
  IN IF Len(t.texts) < MaxEntriesFlat
     THEN IF hit # 0 THEN [table |-> t, index |-> hit - 1] ELSE AddWithoutDupCheck(t, s)
     ELSE IF s \in DOMAIN map
     THEN [table |-> [t EXCEPT !.map = map], index |-> map[s]]
     ELSE AddWithoutDupCheck([t EXCEPT !.map = Emplace(map, s, Len(t.texts))], s)

\* key_index, value_index and property_mapper remember the indexes that they
\* have got; what they do not know they add unchecked.
AddCached(cache, x, t, s) ==
  IF x \in DOMAIN cache THEN [cache |-> cache, table |-> t, index |-> cache[x]]
  ELSE LET r == AddWithoutDupCheck(t, s) IN
       [cache |-> Emplace(cache, x, r.index), table |-> [r.table EXCEPT !.checked = FALSE],
        index |-> r.index]

-----------------------------------------------------------------------------
NewLayer(name, version, extent) ==
  [existing |-> FALSE,
   data |-> <<<<"version", version>>, <<"name", name>>, <<"extent", extent>>>>,
   keys |-> EmptyTable, values |-> EmptyTable, numFeatures |-> 0]

NoCache == [keys |-> <<>>, values |-> <<>>, mappedKeys |-> <<>>, mappedValues |-> <<>>]

Promise(name, version, extent) ==
  [name |-> name, version |-> version, extent |-> extent, features |-> <<>>]

\* The layer that features are copied from, and one of them.
Source == ReadLayer(job.data)
SourceFeature(i) == ReadFeature(All(job.data, "features")[i])

NoBuilder == [kind |-> "none"]
Alive == status = "building" /\ builder.kind # "none"
Between == status = "building" /\ builder.kind = "none"

AddALayer(l, promise) ==
  /\ Between /\ Len(layers) < Cardinality(job.names)
  /\ layers' = Append(layers, l) /\ caches' = Append(caches, NoCache)
  /\ built' = Append(built, promise)
  /\ UNCHANGED <<job, builder, status, tile, whole>>

\* layer_builder(tile, name, version, extent), and the one that takes these
\* from another layer.
AddLayer ==
  \E name \in job.names : AddALayer(NewLayer(name, 2, 4096), Promise(name, 2, 4096))

AddLayerLike ==
  /\ Between /\ job.existing
  /\ LET s == Source IN
     AddALayer(NewLayer(s.name, s.version, s.extent), Promise(s.name, s.version, s.extent))

AddExistingLayer ==
  /\ Between /\ job.existing
  /\ LET s == Source IN
     AddALayer([NewLayer(s.name, s.version, s.extent) EXCEPT !.existing = TRUE,
                                                             !.data = s.data],
               [Promise(s.name, s.version, s.extent) EXCEPT !.features = job.contents])

-----------------------------------------------------------------------------
GeomTypeOf(kind) ==
  CASE kind = "point" -> POINT [] kind = "linestring" -> LINESTRING
    [] kind = "polygon" -> POLYGON [] kind = "geometry" -> UNKNOWN

\* m_feature_writer, m_pbf_geometry, m_pbf_tags, m_num_points, m_start_line or
\* m_start_ring, m_first_point and m_cursor; what the program asked for so far,
\* and whether nothing was thrown.
NewBuilder(l, kind) ==
  [kind |-> kind, layer |-> l,
   fields |-> IF kind = "geometry" THEN <<>> ELSE <<<<"type", GeomTypeOf(kind)>>>>,
   geometryOpen |-> FALSE, geometry |-> <<>>, tagsOpen |-> FALSE, tags |-> <<>>,
   numPoints |-> 0, start |-> FALSE, first |-> Origin, cursor |-> Origin, sound |-> TRUE,
   asked |-> [hasId |-> FALSE, id |-> 0, type |-> GeomTypeOf(kind), parts |-> <<>>,
              properties |-> <<>>]]

Set(b) == builder' = b /\ UNCHANGED <<job, layers, caches, status, tile, built, whole>>

\* What an assertion says is not so: a build without assertions goes on.
Assertion(broken) ==
  /\ broken /\ status' = "aborted"
  /\ UNCHANGED <<job, layers, builder, caches, tile, built, whole>>

StartFeature ==
  /\ Between
  /\ \E l \in DOMAIN layers, kind \in job.kinds :
       /\ ~layers[l].existing /\ layers[l].numFeatures < job.features
       /\ Set(NewBuilder(l, kind))

NoGeometryYet == ~builder.geometryOpen /\ ~builder.tagsOpen

\* set_id and copy_id.
SetId ==
  /\ Alive /\ NoGeometryYet /\ ~builder.asked.hasId
  /\ \E id \in job.ids :
       Set([builder EXCEPT !.fields = Append(@, <<"id", id>>),
                           !.asked.hasId = TRUE, !.asked.id = id])

-----------------------------------------------------------------------------
Items(p) == Delta(p, builder.cursor)
AddToLast(b, p) == [b EXCEPT !.asked.parts[Len(b.asked.parts)] = Append(@, p)]

AddPoint ==
  /\ Alive /\ builder.kind = "point" /\ NoGeometryYet
  /\ \E p \in job.points :
       Set([builder EXCEPT !.geometryOpen = TRUE,
                           !.geometry = <<Command(MOVE_TO, 1)>> \o Delta(p, Origin),
                           !.asked.parts = <<<<p>>>>])

AddPoints ==
  /\ Alive /\ builder.kind = "point" /\ NoGeometryYet
  /\ \E n \in job.counts :
       Set([builder EXCEPT !.geometryOpen = TRUE, !.numPoints = n,
                           !.geometry = <<Command(MOVE_TO, n)>>, !.asked.parts = <<<<>>>>])

\* add_linestring and add_ring; the first may start once the one before is
\* complete.
AddPart ==
  /\ Alive /\ ~builder.tagsOpen /\ builder.kind \in {"linestring", "polygon"}
  /\ Len(builder.asked.parts) < job.parts
  /\ \/ Assertion(builder.numPoints # 0)
     \/ \E n \in job.counts :
          /\ n > (IF builder.kind = "linestring" THEN 1 ELSE 3)
          /\ Set([builder EXCEPT !.geometryOpen = TRUE, !.numPoints = n, !.start = TRUE,
                                 !.asked.parts = Append(@, <<>>),
                                 !.sound = @ /\ builder.numPoints = 0])

Setting(kind) ==
  /\ Alive /\ builder.kind = kind /\ builder.geometryOpen /\ ~builder.tagsOpen
  /\ builder.numPoints > 0

\* The countdown has already gone down.
SetPointThrows == Set([builder EXCEPT !.numPoints = @ - 1, !.sound = FALSE])

Draw(items, p) ==
  [builder EXCEPT !.geometry = @ \o items, !.cursor = p, !.numPoints = @ - 1]

\* set_point in all its forms, also called for every element of a container.
SetPointOfPoints ==
  /\ Setting("point")
  /\ \E p \in job.points : Set(AddToLast(Draw(Items(p), p), p))

\* Mutant: the line is as long as the number of its points says.
SetPointOfLineTooLong ==
  /\ Setting("linestring")
  /\ \E p \in job.points :
       IF builder.start
       THEN Set(AddToLast([Draw(<<Command(MOVE_TO, 1)>> \o Items(p)
                                \o <<Command(LINE_TO, builder.numPoints)>>, p)
                           EXCEPT !.start = FALSE], p))
       ELSE IF p = builder.cursor THEN SetPointThrows
       ELSE Set(AddToLast(Draw(Items(p), p), p))

SetPointOfLine ==
  /\ Setting("linestring")
  /\ \E p \in job.points :
       IF builder.start
       THEN Set(AddToLast([Draw(<<Command(MOVE_TO, 1)>> \o Items(p)
                                \o <<Command(LINE_TO, builder.numPoints - 1)>>, p)
                           EXCEPT !.start = FALSE], p))
       ELSE IF p = builder.cursor THEN SetPointThrows
       ELSE Set(AddToLast(Draw(Items(p), p), p))

\* The last point of a ring is the first one and is not written.
SetPointOfRing ==
  /\ Setting("polygon")
  /\ \E p \in job.points :
       IF builder.start
       THEN Set(AddToLast([Draw(<<Command(MOVE_TO, 1)>> \o Items(p)
                                \o <<Command(LINE_TO, builder.numPoints - 2)>>, p)
                           EXCEPT !.start = FALSE, !.first = p], p))
       ELSE IF builder.numPoints = 1
       THEN IF p # builder.first THEN SetPointThrows
            ELSE Set(AddToLast([builder EXCEPT !.geometry = Append(@, Command(CLOSE_PATH, 1)),
                                               !.numPoints = 0], p))
       ELSE IF p = builder.cursor THEN SetPointThrows
       ELSE Set(AddToLast(Draw(Items(p), p), p))

CloseRingOfBuilder ==
  /\ Setting("polygon") /\ builder.numPoints = 1
  /\ Set(AddToLast([builder EXCEPT !.geometry = Append(@, Command(CLOSE_PATH, 1)),
                                   !.numPoints = 0], builder.first))

\* set_geometry of a geometry_feature_builder opens the tags, too.
SetGeometry ==
  /\ Alive /\ builder.kind = "geometry" /\ ~builder.tagsOpen
  /\ \E i \in DOMAIN job.contents :
       LET source == SourceFeature(i) IN
       Set([builder EXCEPT !.fields = @ \o <<<<"type", source.type>>,
                                             <<"geometry", source.geometry>>>>,
                           !.tagsOpen = TRUE, !.asked.type = source.type,
                           !.asked.parts = job.contents[i].parts])

-----------------------------------------------------------------------------
\* prepare_to_add_property: the geometry is finished.  An empty packed field
\* leaves nothing.
Prepared(b) ==
  IF b.kind = "geometry" THEN b
  ELSE [b EXCEPT !.fields = IF b.geometryOpen /\ b.geometry # <<>>
                            THEN Append(@, <<"geometry", b.geometry>>) ELSE @,
                 !.geometryOpen = FALSE, !.tagsOpen = TRUE,
                 !.sound = @ /\ b.numPoints = 0]

MayAddProperty ==
  /\ Alive /\ (builder.kind = "geometry" => builder.tagsOpen)
  /\ Len(builder.asked.properties) < job.properties

\* The program hands over texts, or indexes that it has got for them; the tables
\* keep what has been added whatever happens to the feature.
WithProperty(b, ki, vi, key, value) ==
  [b EXCEPT !.tags = @ \o <<ki, vi>>, !.asked.properties = Append(@, <<key, value>>)]

Changes(l, keys, values, cache) ==
  /\ layers' = [layers EXCEPT ![l].keys = keys, ![l].values = values]
  /\ caches' = [caches EXCEPT ![l] = cache]

Added(b, l, cache, keys, values, ki, vi, key, value) ==
  /\ \/ Assertion(b.geometryOpen /\ b.numPoints # 0)
     \/ /\ Changes(l, keys, values, cache)
        /\ builder' = WithProperty(Prepared(b), ki, vi, key, value)
        /\ UNCHANGED <<job, status, tile, built, whole>>

AddProperty ==
  /\ MayAddProperty /\ "text" \in job.ways
  /\ \E key \in job.keys, value \in job.values :
       LET l == builder.layer
           k == AddText(layers[l].keys, key)
           v == AddText(layers[l].values, value)
       IN Added(builder, l, caches[l], k.table, v.table, k.index, v.index, key, value)

\* An index_value_pair that the program got when it added a key and a value.
AddPropertyByIndex ==
  /\ MayAddProperty /\ "index" \in job.ways
  /\ LET l == builder.layer
         keys == layers[l].keys
         values == layers[l].values
     IN \E ki \in DOMAIN keys.texts, vi \in DOMAIN values.texts :
          Added(builder, l, caches[l], keys, values, ki - 1, vi - 1,
                keys.texts[ki], values.texts[vi])

\* An index_value_pair of a key_index and a value_index.
AddPropertyByCache ==
  /\ MayAddProperty /\ "cache" \in job.ways
  /\ \E key \in job.keys, value \in job.values :
       LET l == builder.layer
           c == caches[l]
           k == AddCached(c.keys, key, layers[l].keys, key)
           v == AddCached(c.values, value, layers[l].values, value)
       IN Added(builder, l, [c EXCEPT !.keys = k.cache, !.values = v.cache],
                k.table, v.table, k.index, v.index, key, value)

\* layer_builder's add_key, add_value and the ones without a check.
AddKeyOrValue ==
  /\ status = "building"
  /\ \E l \in DOMAIN layers, key \in job.keys, value \in job.values :
       LET Unchecked(t, s) == [AddWithoutDupCheck(t, s).table EXCEPT !.checked = FALSE]
           keys == layers[l].keys
           values == layers[l].values
       IN /\ ~layers[l].existing /\ Len(keys.texts) + Len(values.texts) < job.entries
          /\ \/ Changes(l, AddText(keys, key).table, values, caches[l])
             \/ Changes(l, keys, AddText(values, value).table, caches[l])
             \/ "index" \in job.ways /\ Changes(l, Unchecked(keys, key), values, caches[l])
             \/ "index" \in job.ways /\ Changes(l, keys, Unchecked(values, value), caches[l])
  /\ UNCHANGED <<job, builder, status, tile, built, whole>>

-----------------------------------------------------------------------------
\* The properties of a feature, each one added as texts.
AddBoth(r, p) ==
  LET k == AddText(r.keys, p[1])
      v == AddText(r.values, p[2])
  IN [keys |-> k.table, values |-> v.table, tags |-> r.tags \o <<k.index, v.index>>]

TextsAfter(l, properties) ==
  LET first[n \in 0 .. Len(properties)] ==
        IF n = 0 THEN [keys |-> layers[l].keys, values |-> layers[l].values, tags |-> <<>>]
        ELSE AddBoth(first[n - 1], properties[n])
  IN first

AddTexts(l, properties) == TextsAfter(l, properties)[Len(properties)]

Copied(l, r, b) ==
  /\ Changes(l, r.keys, r.values, caches[l])
  /\ builder' = b
  /\ UNCHANGED <<job, status, tile, built, whole>>

\* copy_properties without a mapper; the exception of an index that is out of
\* range leaves the properties before it.
CopyProperties ==
  /\ MayAddProperty /\ "copy" \in job.ways
  /\ \/ Assertion(builder.geometryOpen /\ builder.numPoints # 0)
     \/ \E i \in DOMAIN job.contents :
          LET read == ForEachProperty(Source, SourceFeature(i).tags)
              r == AddTexts(builder.layer, read.properties)
              b == Prepared(builder)
          IN Copied(builder.layer, r,
                    [b EXCEPT !.tags = @ \o r.tags,
                              !.asked.properties = @ \o read.properties])

\* Mutant: the indexes of values are looked for among those of keys.
AddMappedCrossed(r, ki, vi) ==
  LET p == Property(Source, ki, vi)
      k == AddCached(r.cache.mappedKeys, ki, r.keys, p.key)
      v == AddCached(k.cache, vi, r.values, p.value)
  IN [keys |-> k.table, values |-> v.table, tags |-> r.tags \o <<k.index, v.index>>,
      cache |-> [r.cache EXCEPT !.mappedKeys = v.cache]]

\* The same with a property_mapper, which does not look at the sizes of its
\* tables: the indexes have to be in range.
AddMapped(r, ki, vi) ==
  LET p == Property(Source, ki, vi)
      k == AddCached(r.cache.mappedKeys, ki, r.keys, p.key)
      v == AddCached(r.cache.mappedValues, vi, r.values, p.value)
  IN [keys |-> k.table, values |-> v.table, tags |-> r.tags \o <<k.index, v.index>>,
      cache |-> [r.cache EXCEPT !.mappedKeys = k.cache, !.mappedValues = v.cache]]

MappedAfter(l, tags) ==
  LET first[n \in 0 .. Len(tags) \div 2] ==
        IF n = 0 THEN [keys |-> layers[l].keys, values |-> layers[l].values,
                       tags |-> <<>>, cache |-> caches[l]]
        ELSE AddMapped(first[n - 1], tags[2 * n - 1], tags[2 * n])
  IN first

CopyPropertiesMapped ==
  /\ MayAddProperty /\ "mapper" \in job.ways
  /\ \E i \in DOMAIN job.contents :
       LET l == builder.layer
           tags == SourceFeature(i).tags
           read == ForEachProperty(Source, tags)
           r == MappedAfter(l, tags)[Len(tags) \div 2]
           b == Prepared(builder)
       IN /\ read.error = "none"
          /\ \/ Assertion(builder.geometryOpen /\ builder.numPoints # 0)
             \/ /\ Changes(l, r.keys, r.values, r.cache)
                /\ builder' = [b EXCEPT !.tags = @ \o r.tags,
                                        !.asked.properties = @ \o read.properties]
                /\ UNCHANGED <<job, status, tile, built, whole>>

-----------------------------------------------------------------------------
\* A feature with its geometry and its tags.
Finished(b) ==
  b.fields
  \o (IF b.geometryOpen /\ b.geometry # <<>> THEN <<<<"geometry", b.geometry>>>> ELSE <<>>)
  \o (IF b.tags # <<>> THEN <<<<"tags", b.tags>>>> ELSE <<>>)

Committed(layer, fields) ==
  [layer EXCEPT !.data = Append(@, <<"features", fields>>), !.numFeatures = @ + 1]

Complete(b) == b.sound /\ b.numPoints = 0 /\ b.asked.parts # <<>>

\* commit() and the destructor, which finds that points are missing.  There
\* should be a geometry, but properties are taken for one.
Commit ==
  /\ Alive /\ (builder.geometryOpen \/ builder.tagsOpen)
  /\ \/ Assertion(builder.numPoints # 0)
     \/ LET l == builder.layer IN
        /\ layers' = [layers EXCEPT ![l] = Committed(@, Finished(builder))]
        /\ built' = [built EXCEPT ![l].features = Append(@, builder.asked)]
        /\ whole' = (whole /\ Complete(builder))
        /\ builder' = NoBuilder
        /\ UNCHANGED <<job, caches, status, tile>>

\* rollback(), or the destructor alone, which may be run by an exception.
Rollback ==
  /\ Alive
  /\ \/ Assertion(builder.numPoints # 0)
     \/ Set(NoBuilder)

\* Mutant: the feature is committed as far as it got.
AddFeatureTorn ==
  /\ Between /\ "add" \in job.ways
  /\ \E l \in DOMAIN layers, i \in DOMAIN job.contents :
       LET f == SourceFeature(i)
           read == ForEachProperty(Source, f.tags)
           r == AddTexts(l, read.properties)
           fields == (IF f.hasId THEN <<<<"id", f.id>>>> ELSE <<>>)
                     \o <<<<"type", f.type>>, <<"geometry", f.geometry>>>>
                     \o (IF r.tags # <<>> THEN <<<<"tags", r.tags>>>> ELSE <<>>)
           layer == [layers[l] EXCEPT !.keys = r.keys, !.values = r.values]
       IN /\ ~layers[l].existing /\ layers[l].numFeatures < job.features
          /\ layers' = [layers EXCEPT ![l] = Committed(layer, fields)]
          /\ built' = IF read.error = "none"
                      THEN [built EXCEPT ![l].features = Append(@, job.contents[i])] ELSE built
  /\ UNCHANGED <<job, builder, caches, status, tile, whole>>

\* layer_builder::add_feature.  If a property of the feature throws, what has
\* been written of it is rolled back.
AddFeature ==
  /\ Between /\ "add" \in job.ways
  /\ \E l \in DOMAIN layers, i \in DOMAIN job.contents :
       LET f == SourceFeature(i)
           read == ForEachProperty(Source, f.tags)
           r == AddTexts(l, read.properties)
           fields == (IF f.hasId THEN <<<<"id", f.id>>>> ELSE <<>>)
                     \o <<<<"type", f.type>>, <<"geometry", f.geometry>>>>
                     \o (IF r.tags # <<>> THEN <<<<"tags", r.tags>>>> ELSE <<>>)
           layer == [layers[l] EXCEPT !.keys = r.keys, !.values = r.values]
       IN /\ ~layers[l].existing /\ layers[l].numFeatures < job.features
          /\ layers' = [layers EXCEPT ![l] = IF read.error = "none"
                                             THEN Committed(layer, fields) ELSE layer]
          /\ built' = IF read.error = "none"
                      THEN [built EXCEPT ![l].features = Append(@, job.contents[i])] ELSE built
  /\ UNCHANGED <<job, builder, caches, status, tile, whole>>

-----------------------------------------------------------------------------
\* build() of a layer: nothing if it has no features.
LayerFields(l) ==
  IF l.existing THEN <<<<"layers", l.data>>>>
  ELSE IF l.numFeatures = 0 THEN <<>>
  ELSE LET texts(tag, t) == [i \in DOMAIN t.texts |-> <<tag, t.texts[i]>>] IN
       <<<<"layers", l.data \o texts("keys", l.keys) \o texts("values", l.values)>>>>

Serialize ==
  /\ Between
  /\ tile' = FlattenSeq([l \in DOMAIN layers |-> LayerFields(layers[l])])
  /\ status' = "serialized"
  /\ UNCHANGED <<job, layers, builder, caches, built, whole>>

BuilderNext ==
  \/ AddLayer \/ AddLayerLike \/ AddExistingLayer \/ StartFeature \/ SetId
  \/ AddPoint \/ AddPoints \/ AddPart \/ SetPointOfPoints \/ SetPointOfLine
  \/ SetPointOfRing \/ CloseRingOfBuilder \/ SetGeometry
  \/ AddProperty \/ AddPropertyByIndex \/ AddPropertyByCache \/ AddKeyOrValue
  \/ CopyProperties \/ CopyPropertiesMapped \/ Commit \/ Rollback \/ AddFeature
  \/ Serialize

=============================================================================
