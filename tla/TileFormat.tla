------------------------------ MODULE TileFormat ------------------------------
(***************************************************************************)
(* What vtzero takes a vector tile for: a tile, a layer, a feature and a   *)
(* property value are sequences of fields, a field is a pair of its tag    *)
(* and its value, and a field with a wire type that its tag does not have  *)
(* is one with another tag.  How fields become bytes is the business of    *)
(* PbfWriter and PbfReader.                                                *)
(*                                                                         *)
(* Reading comes to a record whose error is "none" or what is thrown.      *)
(***************************************************************************)
EXTENDS Geometry, SequencesExt

LayerTags == {"name", "features", "keys", "values", "extent", "version"}

\* Fields with the types that their values have: integers are unsigned, packed
\* fields are sequences of them, and messages are fields again.
IsSeq(s) == s \in Seq(ToSet(s))
IsFeature(fields) ==
  /\ IsSeq(fields)
  /\ \A f \in ToSet(fields) : /\ f[1] \in {"id", "type"} => f[2] \in Nat
                              /\ f[1] \in {"tags", "geometry"} => f[2] \in Seq(Nat)
IsLayer(fields) ==
  IsSeq(fields) /\ \A f \in ToSet(fields) : f[1] = "features" => IsFeature(f[2])
IsTile(fields) ==
  IsSeq(fields) /\ \A f \in ToSet(fields) : f[1] = "layers" => IsLayer(f[2])

\* What all fields with a tag have as their values: of the first n, and of all.
AllAmong(fields, tag) ==
  LET first[n \in 0 .. Len(fields)] ==
        IF n = 0 THEN <<>>
        ELSE IF fields[n][1] = tag THEN Append(first[n - 1], fields[n][2]) ELSE first[n - 1]
  IN first
All(fields, tag) == AllAmong(fields, tag)[Len(fields)]

FirstOr(s, default) == IF s = <<>> THEN default ELSE s[1]
LastOr(s, default) == IF s = <<>> THEN default ELSE Last(s)

-----------------------------------------------------------------------------
\* Property values: messages that should have one field.
ValueKinds == {"string", "float", "double", "int", "uint", "sint", "bool"}

\* encoded_property_value: the C++ type decides about the kind.
EncodedValue(kind, v) == <<<<kind, v>>>>

\* property_value::type() looks at the first field.
ValueType(value) ==
  IF value = <<>> \/ value[1][1] \notin ValueKinds THEN [error |-> "format", kind |-> ""]
  ELSE [error |-> "none", kind |-> value[1][1]]

\* get_value: the last field of a kind.
GetValue(value, kind) ==
  LET s == All(value, kind) IN
  IF s = <<>> THEN [error |-> "type", value |-> <<>>]
  ELSE [error |-> "none", value |-> <<kind, Last(s)>>]

\* apply_visitor and convert_property_value.
Visit(value) ==
  IF ValueType(value).error # "none" THEN [error |-> ValueType(value).error, value |-> <<>>]
  ELSE GetValue(value, ValueType(value).kind)

-----------------------------------------------------------------------------
\* The constructor of a layer.  keySize and valueSize are counted; they are 0
\* as soon as the tables have been filled.
ReadLayer(data) ==
  LET names == All(data, "name")
      version == LastOr(All(data, "version"), 1)
  IN [error |-> IF \E i \in DOMAIN data : data[i][1] \notin LayerTags THEN "format"
                ELSE IF version \notin 1 .. 2 THEN "version"
                ELSE IF names = <<>> THEN "format" ELSE "none",
      data |-> data, version |-> version, name |-> LastOr(names, ""),
      extent |-> LastOr(All(data, "extent"), 4096),
      numFeatures |-> Len(All(data, "features")),
      keySize |-> Len(All(data, "keys")), valueSize |-> Len(All(data, "values")),
      keys |-> <<>>, values |-> <<>>]

\* Mutant: the size of the other table is not reset.
InitializeKeys(layer) ==
  [layer EXCEPT !.keySize = 0,
                !.keys = @ \o All(layer.data, "keys"),
                !.values = @ \o All(layer.data, "values")]

\* initialize_tables appends to both tables.
InitializeTables(layer) ==
  [layer EXCEPT !.keySize = 0, !.valueSize = 0,
                !.keys = @ \o All(layer.data, "keys"),
                !.values = @ \o All(layer.data, "values")]

\* key_table() and value_table(): the layer afterwards, with its tables.
KeyTable(layer) == IF layer.keySize > 0 THEN InitializeTables(layer) ELSE layer
ValueTable(layer) == IF layer.valueSize > 0 THEN InitializeTables(layer) ELSE layer

KeyTableSize(layer) == IF layer.keySize > 0 THEN layer.keySize ELSE Len(layer.keys)
ValueTableSize(layer) == IF layer.valueSize > 0 THEN layer.valueSize ELSE Len(layer.values)

\* key(ki) and value(vi) one after the other, which is how a property is made.
Property(layer, ki, vi) ==
  LET l == ValueTable(KeyTable(layer)) IN
  IF ki >= Len(KeyTable(layer).keys) \/ vi >= Len(l.values)
  THEN [error |-> "out_of_range", key |-> "", value |-> <<>>]
  ELSE [error |-> "none", key |-> l.keys[ki + 1], value |-> l.values[vi + 1]]

-----------------------------------------------------------------------------
\* The constructor of a feature: field by field, until something is thrown.
EmptyFeature ==
  [error |-> "none", id |-> 0, hasId |-> FALSE, type |-> UNKNOWN,
   tags |-> <<>>, tagged |-> FALSE, geometry |-> <<>>]

TakeField(f, x) ==
  IF f.error # "none" THEN f ELSE
  CASE x[1] = "id" -> [f EXCEPT !.id = x[2], !.hasId = TRUE]
    [] x[1] = "tags" -> IF f.tagged THEN [f EXCEPT !.error = "format"]
                        ELSE [f EXCEPT !.tags = x[2], !.tagged = TRUE]
    [] x[1] = "type" -> IF x[2] \notin UNKNOWN .. POLYGON THEN [f EXCEPT !.error = "format"]
                        ELSE [f EXCEPT !.type = x[2]]
    [] x[1] = "geometry" -> IF f.geometry # <<>> THEN [f EXCEPT !.error = "format"]
                            ELSE [f EXCEPT !.geometry = x[2]]
    [] OTHER -> f

FeatureAfter(fields) ==
  LET first[n \in 0 .. Len(fields)] ==
        IF n = 0 THEN EmptyFeature ELSE TakeField(first[n - 1], fields[n])
  IN first

ReadFeature(fields) ==
  LET all == FeatureAfter(fields)[Len(fields)] IN
  IF all.error = "none" /\ (all.geometry = <<>> \/ Len(all.tags) % 2 # 0)
  THEN [all EXCEPT !.error = "format"] ELSE all

\* for_each_property, up to the first property that throws, and
\* create_properties_map.
TakeProperty(layer, r, ki, vi) ==
  LET p == Property(layer, ki, vi) IN
  IF r.error # "none" THEN r
  ELSE IF p.error # "none" THEN [r EXCEPT !.error = p.error]
  ELSE [r EXCEPT !.properties = Append(@, <<p.key, p.value>>)]

PropertiesAfter(layer, tags) ==
  LET first[n \in 0 .. Len(tags) \div 2] ==
        IF n = 0 THEN [error |-> "none", properties |-> <<>>]
        ELSE TakeProperty(layer, first[n - 1], tags[2 * n - 1], tags[2 * n])
  IN first

ForEachProperty(layer, tags) == PropertiesAfter(layer, tags)[Len(tags) \div 2]

-----------------------------------------------------------------------------
\* The functions of a tile that look for a layer: its data.
CountLayers(tile) == Len(All(tile, "layers"))

Nothing == [error |-> "none", data |-> <<>>]
Found(data) == [error |-> ReadLayer(data).error, data |-> data]

\* Mutant: a layer is skipped before the index is looked at.
GetLayerLate(tile, index) ==
  IF index + 1 < CountLayers(tile) THEN Found(All(tile, "layers")[index + 2]) ELSE Nothing

GetLayer(tile, index) ==
  IF index < CountLayers(tile) THEN Found(All(tile, "layers")[index + 1]) ELSE Nothing

\* The first name of a layer counts here, the last one elsewhere.
GetLayerByName(tile, name) ==
  LET s == All(tile, "layers")
      hits == {i \in DOMAIN s : LET n == All(s[i], "name") IN n = <<>> \/ n[1] = name}
  IN IF hits = {} THEN Nothing
     ELSE LET i == CHOOSE i \in hits : \A j \in hits : i <= j IN
          IF All(s[i], "name") = <<>> THEN [error |-> "format", data |-> <<>>] ELSE Found(s[i])

\* get_feature_by_id: the first id of a feature counts; its fields.
GetFeatureById(layer, id) ==
  LET s == All(layer.data, "features")
      hits == {i \in DOMAIN s : FirstOr(All(s[i], "id"), -1) = id}
  IN IF hits = {} THEN Nothing
     ELSE LET i == CHOOSE i \in hits : \A j \in hits : i <= j IN
          [error |-> ReadFeature(s[i]).error, data |-> s[i]]

=============================================================================
