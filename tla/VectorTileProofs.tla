-------------------------- MODULE VectorTileProofs --------------------------
(***************************************************************************)
(* Theorems about module VectorTile and the modules it is composed of, for *)
(* any number and any size of layers, features, geometries and properties, *)
(* any jobs, and any tiles that other programs may have written.           *)
(*                                                                         *)
(* In this order: sequences and induction over their length; the fields of *)
(* messages and what the functions of TileFormat make of them; the decoder *)
(* by itself (DecoderInv); the reader (ReaderInv); the builders (BuildInv, *)
(* with TableOK and LayerOK for tables and layers, CacheOK for what key    *)
(* indexes and mappers remember and AliveOK for the builder in use); at    *)
(* last VectorTileInv, which is all of them, and what follows from it.     *)
(***************************************************************************)
EXTENDS VectorTile, WellFoundedInduction, SequenceTheorems, FiniteSetTheorems, TLAPS


\* The order of the numbers is well-founded.
LEMMA NatWellFounded ==
  \E R : IsWellFoundedOn(R, Nat) /\ \A x, y \in Nat : y < x => <<y, x>> \in R
<1> DEFINE R == OpToRel(<, Nat)
<1>1. IsWellFoundedOn(R, Nat)
  BY NatLessThanWellFounded
<1>2. \A x, y \in Nat : y < x => <<y, x>> \in R
  BY DEF OpToRel
<1> HIDE DEF R
<1> QED
  BY <1>1, <1>2

\* Every set of numbers has a least one.
LEMMA LeastNumber ==
  ASSUME NEW T, T \subseteq Nat, T # {}
  PROVE  \E x \in T : \A y \in T : x <= y
<1>1. PICK R : IsWellFoundedOn(R, Nat) /\ \A x, y \in Nat : y < x => <<y, x>> \in R
  BY NatWellFounded
<1>2. PICK x \in T : \A y \in T : ~(<<y, x>> \in R)
  BY <1>1, WFMin
<1>3. ASSUME NEW y \in T PROVE x <= y
  <2>1. y \in Nat /\ x \in Nat /\ (y < x => <<y, x>> \in R)
    BY <1>1
  <2>2. ~(<<y, x>> \in R)
    BY <1>2
  <2> QED
    BY <2>1, <2>2
<1> QED
  BY <1>3

\* Induction for a set: the library's theorem takes the property as an operator,
\* which the provers cannot instantiate, but a set of numbers they can.
LEMMA NatSetInduction ==
  ASSUME NEW S, 0 \in S, \A n \in Nat : n \in S => n + 1 \in S
  PROVE  \A n \in Nat : n \in S
<1> SUFFICES ASSUME NEW m \in Nat, m \notin S PROVE FALSE
  OBVIOUS
<1>1. PICK x \in Nat \ S : \A y \in Nat \ S : x <= y
  BY LeastNumber
<1>2. x # 0 /\ x - 1 \in Nat /\ x - 1 < x
  BY <1>1
<1>3. x - 1 \in S
  BY <1>1, <1>2
<1> QED
  BY <1>1, <1>2, <1>3

\* What a step G makes of the value before it, and of b at first, is a function.
StepsStay(N, S, G) == \A n \in 1 .. N : \A x \in S : G[<<n, x>>] \in S
IsRun(g, N, S, b, G) ==
  g \in [0 .. N -> S] /\ g[0] = b /\ \A n \in 1 .. N : g[n] = G[<<n, g[n - 1]>>]

\* A recursive definition over 0 .. N whose steps stay in S has a solution in S.
LEMMA Recursion ==
  ASSUME NEW N \in Nat, NEW S, NEW b \in S, NEW G, StepsStay(N, S, G)
  PROVE  \E g : IsRun(g, N, S, b, G)
<1> USE DEF StepsStay
<1> DEFINE Ok(m, g) == g \in [0 .. m -> S] /\ g[0] = b
                       /\ \A n \in 1 .. m : g[n] = G[<<n, g[n - 1]>>]
           Q == {m \in Nat : m <= N => \E g : Ok(m, g)}
<1>1. 0 \in Q
  <2> DEFINE g == [i \in 0 .. 0 |-> b]
  <2>1. Ok(0, g)
    OBVIOUS
  <2> QED
    BY <2>1
<1>2. ASSUME NEW m \in Nat, m \in Q PROVE m + 1 \in Q
  <2> SUFFICES ASSUME m + 1 <= N PROVE \E g : Ok(m + 1, g)
    OBVIOUS
  <2>1. PICK g : Ok(m, g)
    BY <1>2
  <2> DEFINE v == G[<<m + 1, g[m]>>]
             h == [i \in 0 .. m + 1 |-> IF i = m + 1 THEN v ELSE g[i]]
  <2>2. v \in S
    BY <2>1
  <2>3. \A i \in 0 .. m : g[i] \in S /\ h[i] = g[i]
    BY <2>1
  <2>4. h[m + 1] = v /\ DOMAIN h = 0 .. m + 1
    OBVIOUS
  <2> HIDE DEF v
  <2>5. h \in [0 .. m + 1 -> S]
    <3>1. ASSUME NEW i \in 0 .. m + 1 PROVE (IF i = m + 1 THEN v ELSE g[i]) \in S
      <4>1. i # m + 1 => i \in 0 .. m
        OBVIOUS
      <4> QED
        BY <2>2, <2>3, <4>1
    <3> QED
      BY <3>1
  <2> HIDE DEF h
  <2>6. \A n \in 1 .. m + 1 : h[n] = G[<<n, h[n - 1]>>]
    <3> TAKE n \in 1 .. m + 1
    <3>1. CASE n = m + 1
      <4>1. n - 1 = m /\ h[n - 1] = g[m]
        BY <2>3, <3>1
      <4> QED
        BY <2>4, <3>1, <4>1 DEF v
    <3>2. CASE n # m + 1
      <4>1. n \in 1 .. m /\ n \in 0 .. m /\ n - 1 \in 0 .. m
        BY <3>2
      <4>2. g[n] = G[<<n, g[n - 1]>>]
        BY <2>1, <4>1
      <4> QED
        BY <2>3, <4>1, <4>2
    <3> QED
      BY <3>1, <3>2
  <2>7. h[0] = b
    BY <2>1, <2>3
  <2> QED
    BY <2>5, <2>6, <2>7
<1>3. N \in Q
  <2> HIDE DEF Q
  <2> QED
    BY <1>1, <1>2, NatSetInduction
<1>4. \E g : Ok(N, g)
  BY <1>3
<1> QED
  BY <1>4 DEF IsRun

-----------------------------------------------------------------------------
(* Sequences of fields.                                                    *)

\* What IsSeq says of a value.
LEMMA SeqIs ==
  ASSUME NEW s, IsSeq(s)
  PROVE  Len(s) \in Nat /\ DOMAIN s = 1 .. Len(s) /\ \A i \in 1 .. Len(s) : s[i] \in ToSet(s)
BY DEF IsSeq, ToSet

\* Sequences over any set are sequences.
LEMMA SeqOfIsSeq ==
  ASSUME NEW S, NEW s \in Seq(S)
  PROVE  IsSeq(s)
<1>1. Len(s) \in Nat /\ s \in [1 .. Len(s) -> S]
  OBVIOUS
<1>2. s \in [1 .. Len(s) -> ToSet(s)]
  BY <1>1 DEF ToSet
<1> QED
  BY <1>1, <1>2 DEF IsSeq

ValuesOf(fields, tag) == {fields[i][2] : i \in {j \in 1 .. Len(fields) : fields[j][1] = tag}}

\* The recursion of All has a value for all fields.
LEMMA AllUnfolds ==
  ASSUME NEW fields, IsSeq(fields), NEW tag
  PROVE  /\ AllAmong(fields, tag) \in [0 .. Len(fields) -> Seq(ValuesOf(fields, tag))]
         /\ AllAmong(fields, tag)[0] = <<>>
         /\ \A n \in 1 .. Len(fields) :
              AllAmong(fields, tag)[n] =
                IF fields[n][1] = tag THEN Append(AllAmong(fields, tag)[n - 1], fields[n][2])
                ELSE AllAmong(fields, tag)[n - 1]
<1> DEFINE N == Len(fields)
           S == Seq(ValuesOf(fields, tag))
           step(n, x) == IF fields[n][1] = tag THEN Append(x, fields[n][2]) ELSE x
           G == [p \in (1 .. N) \X S |-> step(p[1], p[2])]
<1>1. N \in Nat /\ <<>> \in S
  BY SeqIs
<1>2. \A n \in 1 .. N : \A x \in S : step(n, x) \in S /\ G[<<n, x>>] = step(n, x)
  BY DEF ValuesOf
<1>3. PICK g : IsRun(g, N, S, <<>>, G)
  <2>1. StepsStay(N, S, G)
    BY <1>2, Zenon DEF StepsStay
  <2> HIDE DEF G, N, S
  <2> QED
    BY <1>1, <2>1, Recursion, Zenon
<1>4. ASSUME NEW n \in 1 .. N PROVE g[n] = step(n, g[n - 1])
  <2> HIDE DEF G, S, step
  <2>1. g[n - 1] \in S
    BY <1>1, <1>3 DEF IsRun
  <2>2. g[n] = G[<<n, g[n - 1]>>]
    BY <1>3 DEF IsRun
  <2>3. G[<<n, g[n - 1]>>] = step(n, g[n - 1])
    BY <1>2, <2>1
  <2> QED
    BY <2>2, <2>3
<1> DEFINE first(f) == f = [n \in 0 .. N |-> IF n = 0 THEN <<>> ELSE step(n, f[n - 1])]
           J == AllAmong(fields, tag)
<1>5. first(g)
  <2> HIDE DEF step, S, G
  <2> QED
    BY <1>3, <1>4 DEF IsRun
<1>6. first(J)
  <2>1. \E f : first(f)
    BY <1>5
  <2> QED
    BY <2>1 DEF AllAmong
<1>7. J[0] = <<>> /\ \A n \in 1 .. N : J[n] = step(n, J[n - 1])
  <2> HIDE DEF step, J
  <2> QED
    BY <1>1, <1>6
<1>8. DOMAIN J = 0 .. N /\ J = [n \in 0 .. N |-> J[n]]
  <2> HIDE DEF step, J
  <2> QED
    BY <1>6
<1> DEFINE Q == {n \in Nat : n <= N => J[n] \in S}
<1>9. \A n \in Nat : n \in Q
  <2> HIDE DEF step, J, S
  <2>1. 0 \in Q
    BY <1>1, <1>7
  <2>2. ASSUME NEW n \in Nat, n \in Q PROVE n + 1 \in Q
    <3> SUFFICES ASSUME n + 1 <= N PROVE J[n + 1] \in S
      OBVIOUS
    <3>1. n + 1 \in 1 .. N /\ (n + 1) - 1 = n /\ J[n] \in S
      BY <1>1, <2>2
    <3> QED
      BY <1>2, <1>7, <3>1
  <2> HIDE DEF Q
  <2> QED
    BY <2>1, <2>2, NatSetInduction
<1>10. J \in [0 .. N -> S]
  <2> HIDE DEF J, S
  <2> QED
    BY <1>1, <1>8, <1>9
<1> QED
  <2> HIDE DEF J, S
  <2> QED
    BY <1>7, <1>10 DEF J, S

\* All keeps the values of the fields with the tag.
LEMMA AllIs ==
  ASSUME NEW fields, IsSeq(fields), NEW tag
  PROVE  All(fields, tag) \in Seq(ValuesOf(fields, tag)) /\ IsSeq(All(fields, tag))
<1>1. Len(fields) \in 0 .. Len(fields)
  BY SeqIs
<1>2. All(fields, tag) \in Seq(ValuesOf(fields, tag))
  BY <1>1, AllUnfolds DEF All
<1> QED
  BY <1>2, SeqOfIsSeq

\* The elements of All are values of fields with the tag.
LEMMA AllElements ==
  ASSUME NEW fields, IsSeq(fields), NEW tag
  PROVE  /\ Len(All(fields, tag)) \in Nat
         /\ DOMAIN All(fields, tag) = 1 .. Len(All(fields, tag))
         /\ \A i \in 1 .. Len(All(fields, tag)) :
              \E f \in ToSet(fields) : f[1] = tag /\ All(fields, tag)[i] = f[2]
<1>1. All(fields, tag) \in Seq(ValuesOf(fields, tag)) /\ IsSeq(All(fields, tag))
  BY AllIs
<1>2. \A v \in ValuesOf(fields, tag) : \E f \in ToSet(fields) : f[1] = tag /\ v = f[2]
  BY SeqIs DEF ValuesOf
<1>3. Len(All(fields, tag)) \in Nat /\ DOMAIN All(fields, tag) = 1 .. Len(All(fields, tag))
  BY <1>1, SeqIs
<1>4. \A i \in 1 .. Len(All(fields, tag)) : All(fields, tag)[i] \in ValuesOf(fields, tag)
  BY <1>1
<1> QED
  BY <1>2, <1>3, <1>4

\* The layers of a tile are layers (vector_tile.hpp:102-123).
LEMMA LayersAreLayers ==
  ASSUME NEW t, IsTile(t), NEW i \in 1 .. CountLayers(t)
  PROVE  IsLayer(All(t, "layers")[i])
<1>1. IsSeq(t) /\ i \in 1 .. Len(All(t, "layers"))
  BY DEF IsTile, CountLayers
<1>2. PICK f \in ToSet(t) : f[1] = "layers" /\ All(t, "layers")[i] = f[2]
  BY <1>1, AllElements
<1> QED
  BY <1>2 DEF IsTile

\* The features of a layer are features (layer.hpp:325-387).
LEMMA FeaturesAreFeatures ==
  ASSUME NEW d, IsLayer(d), NEW i \in 1 .. Len(All(d, "features"))
  PROVE  IsFeature(All(d, "features")[i])
<1>1. IsSeq(d)
  BY DEF IsLayer
<1>2. PICK f \in ToSet(d) : f[1] = "features" /\ All(d, "features")[i] = f[2]
  BY <1>1, AllElements
<1> QED
  BY <1>2 DEF IsLayer

-----------------------------------------------------------------------------
(* A layer that is read, and its tables.                                   *)

LayerObjectParts == {"error", "data", "version", "name", "extent", "numFeatures", "keySize",
            "valueSize", "keys", "values"}

\* Filled or not, the tables and their sizes are those of the data.
TablesInv(l) ==
  /\ DOMAIN l = LayerObjectParts /\ IsLayer(l.data)
  /\ \/ /\ l.keySize = Len(All(l.data, "keys")) /\ l.valueSize = Len(All(l.data, "values"))
        /\ l.keys = <<>> /\ l.values = <<>>
     \/ /\ l.keySize = 0 /\ l.valueSize = 0
        /\ l.keys = All(l.data, "keys") /\ l.values = All(l.data, "values")

\* Joining to the empty sequence.
LEMMA EmptyJoined ==
  ASSUME NEW s, IsSeq(s)
  PROVE  <<>> \o s = s
BY DEF IsSeq

\* A layer that was constructed has counted its tables (layer.hpp:92-225).
LEMMA ReadLayerIs ==
  ASSUME NEW d, IsLayer(d)
  PROVE  /\ TablesInv(ReadLayer(d)) /\ ReadLayer(d).data = d
         /\ ReadLayer(d).name = LastOr(All(d, "name"), "")
         /\ ReadLayer(d).numFeatures = Len(All(d, "features"))
BY DEF ReadLayer, TablesInv, LayerObjectParts

Unfilled(l) == <<l.error, l.data, l.version, l.name, l.extent, l.numFeatures>>

\* Filling the tables makes them those of the data (layer.hpp:69-90).
LEMMA FillKeeps ==
  ASSUME NEW l, TablesInv(l), l.keySize > 0 \/ l.valueSize > 0
  PROVE  TablesInv(InitializeTables(l)) /\ Unfilled(InitializeTables(l)) = Unfilled(l)
<1>1. IsSeq(l.data) /\ IsSeq(All(l.data, "keys")) /\ IsSeq(All(l.data, "values"))
  BY AllIs DEF TablesInv, IsLayer
<1>2. l.keys = <<>> /\ l.values = <<>>
  BY DEF TablesInv
<1>3. l.keys \o All(l.data, "keys") = All(l.data, "keys")
  BY <1>1, <1>2, EmptyJoined
<1>4. l.values \o All(l.data, "values") = All(l.data, "values")
  BY <1>1, <1>2, EmptyJoined
<1> DEFINE k == All(l.data, "keys")
           v == All(l.data, "values")
           m == [l EXCEPT !.keySize = 0, !.valueSize = 0, !.keys = k, !.values = v]
<1>5. InitializeTables(l) = m
  BY <1>3, <1>4 DEF InitializeTables
<1>6. DOMAIN l = LayerObjectParts
  BY DEF TablesInv
<1>7. /\ DOMAIN m = LayerObjectParts /\ m.keySize = 0 /\ m.valueSize = 0 /\ m.keys = k /\ m.values = v
      /\ Unfilled(m) = Unfilled(l) /\ m.data = l.data
  <2> HIDE DEF k, v
  <2> QED
    BY <1>6 DEF LayerObjectParts, Unfilled
<1> QED
  <2> HIDE DEF m
  <2> QED
    BY <1>5, <1>7 DEF TablesInv

\* key_table() and value_table() change nothing but tables (layer.hpp:226-260).
LEMMA TableKeeps ==
  ASSUME NEW l, TablesInv(l)
  PROVE  /\ TablesInv(KeyTable(l)) /\ Unfilled(KeyTable(l)) = Unfilled(l)
         /\ TablesInv(ValueTable(l)) /\ Unfilled(ValueTable(l)) = Unfilled(l)
BY FillKeeps DEF KeyTable, ValueTable

\* Sizes are right before and after tables are filled (layer.hpp:261-284).
LEMMA TablesSay ==
  ASSUME NEW l, TablesInv(l)
  PROVE  /\ KeyTableSize(l) = Len(All(l.data, "keys"))
         /\ ValueTableSize(l) = Len(All(l.data, "values"))
         /\ l.keys \in {<<>>, All(l.data, "keys")}
         /\ l.values \in {<<>>, All(l.data, "values")}
<1>1. IsSeq(l.data)
  BY DEF TablesInv, IsLayer
<1>2. Len(All(l.data, "keys")) \in Nat /\ Len(All(l.data, "values")) \in Nat /\ Len(<<>>) = 0
  BY <1>1, AllElements
<1> QED
  BY <1>2 DEF TablesInv, KeyTableSize, ValueTableSize

-----------------------------------------------------------------------------
(* A feature that is read.                                                 *)

Features ==
  [error : {"none", "format"}, id : Nat, hasId : BOOLEAN, type : UNKNOWN .. POLYGON,
   tags : Seq(Nat), tagged : BOOLEAN, geometry : Seq(Nat)]

\* A field changes an identifier only if it is one.
LEMMA TakeFieldIs ==
  ASSUME NEW f \in Features, NEW x,
         x[1] \in {"id", "type"} => x[2] \in Nat,
         x[1] \in {"tags", "geometry"} => x[2] \in Seq(Nat)
  PROVE  /\ TakeField(f, x) \in Features
         /\ TakeField(f, x).error = "none" =>
              /\ f.error = "none"
              /\ IF x[1] = "id" THEN TakeField(f, x).hasId /\ TakeField(f, x).id = x[2]
                 ELSE TakeField(f, x).hasId = f.hasId /\ TakeField(f, x).id = f.id
<1>1. CASE f.error # "none"
  BY <1>1 DEF TakeField
<1>2. CASE f.error = "none" /\ x[1] = "id"
  BY <1>2 DEF TakeField, Features
<1>3. CASE f.error = "none" /\ x[1] = "tags"
  BY <1>3 DEF TakeField, Features
<1>4. CASE f.error = "none" /\ x[1] = "type"
  BY <1>4 DEF TakeField, Features
<1>5. CASE f.error = "none" /\ x[1] = "geometry"
  BY <1>5 DEF TakeField, Features
<1>6. CASE f.error = "none" /\ x[1] \notin {"id", "tags", "type", "geometry"}
  BY <1>6 DEF TakeField
<1> QED
  BY <1>1, <1>2, <1>3, <1>4, <1>5, <1>6

\* The constructor of a feature has a value, and its identifier is the last one.
LEMMA FeatureUnfolds ==
  ASSUME NEW fields, IsFeature(fields)
  PROVE  \A n \in 0 .. Len(fields) :
           LET f == FeatureAfter(fields)[n]
               ids == AllAmong(fields, "id")[n]
           IN /\ f \in Features
              /\ f.error = "none" => /\ f.hasId <=> ids # <<>>
                                     /\ f.hasId => f.id = ids[Len(ids)]
<1> DEFINE N == Len(fields)
           step(n, x) == TakeField(x, fields[n])
           G == [p \in (1 .. N) \X Features |-> step(p[1], p[2])]
<1>1. N \in Nat /\ EmptyFeature \in Features /\ IsSeq(fields)
  BY SeqIs DEF IsFeature, EmptyFeature, Features, UNKNOWN, POLYGON
<1>2. \A n \in 1 .. N : /\ fields[n][1] \in {"id", "type"} => fields[n][2] \in Nat
                        /\ fields[n][1] \in {"tags", "geometry"} => fields[n][2] \in Seq(Nat)
  BY <1>1, SeqIs DEF IsFeature
<1>3. \A n \in 1 .. N : \A x \in Features : step(n, x) \in Features /\ G[<<n, x>>] = step(n, x)
  BY <1>2, TakeFieldIs
<1>4. PICK g : IsRun(g, N, Features, EmptyFeature, G)
  <2>1. StepsStay(N, Features, G)
    BY <1>3, Zenon DEF StepsStay
  <2> HIDE DEF G, N
  <2> QED
    BY <1>1, <2>1, Recursion, Zenon
<1>5. ASSUME NEW n \in 1 .. N PROVE g[n] = step(n, g[n - 1])
  <2> HIDE DEF G, step
  <2>1. g[n - 1] \in Features
    BY <1>1, <1>4 DEF IsRun
  <2>2. g[n] = G[<<n, g[n - 1]>>]
    BY <1>4 DEF IsRun
  <2>3. G[<<n, g[n - 1]>>] = step(n, g[n - 1])
    BY <1>3, <2>1
  <2> QED
    BY <2>2, <2>3
<1> DEFINE first(f) == f = [n \in 0 .. N |-> IF n = 0 THEN EmptyFeature ELSE step(n, f[n - 1])]
           J == FeatureAfter(fields)
<1>6. first(g)
  <2> HIDE DEF step, G
  <2> QED
    BY <1>4, <1>5 DEF IsRun
<1>7. first(J)
  <2>1. \E f : first(f)
    BY <1>6
  <2> QED
    BY <2>1 DEF FeatureAfter
<1>8. J[0] = EmptyFeature /\ \A n \in 1 .. N : J[n] = step(n, J[n - 1])
  <2> HIDE DEF step, J
  <2> QED
    BY <1>1, <1>7
<1> DEFINE A == AllAmong(fields, "id")
<1>9. /\ A \in [0 .. N -> Seq(ValuesOf(fields, "id"))] /\ A[0] = <<>>
      /\ \A n \in 1 .. N :
           A[n] = IF fields[n][1] = "id" THEN Append(A[n - 1], fields[n][2]) ELSE A[n - 1]
  BY <1>1, AllUnfolds
<1> DEFINE Good(f, ids) == f.error = "none" => /\ f.hasId <=> ids # <<>>
                                               /\ f.hasId => f.id = ids[Len(ids)]
           Q == {n \in Nat : n <= N => J[n] \in Features /\ Good(J[n], A[n])}
<1>10. 0 \in Q
  <2>1. Good(EmptyFeature, <<>>)
    BY DEF EmptyFeature
  <2> HIDE DEF J, A, Good
  <2> QED
    BY <1>1, <1>8, <1>9, <2>1
<1>11. ASSUME NEW n \in Nat, n \in Q PROVE n + 1 \in Q
  <2> SUFFICES ASSUME n + 1 <= N PROVE J[n + 1] \in Features /\ Good(J[n + 1], A[n + 1])
    OBVIOUS
  <2> HIDE DEF J, A
  <2>1. n + 1 \in 1 .. N /\ (n + 1) - 1 = n /\ n \in 0 .. N
    BY <1>1
  <2>2. J[n] \in Features /\ Good(J[n], A[n])
    BY <1>1, <1>11
  <2>3. J[n + 1] = TakeField(J[n], fields[n + 1])
    BY <1>8, <2>1
  <2>4. A[n + 1] = IF fields[n + 1][1] = "id" THEN Append(A[n], fields[n + 1][2]) ELSE A[n]
    BY <1>9, <2>1
  <2>5. A[n] \in Seq(ValuesOf(fields, "id"))
    BY <1>9, <2>1
  <2>6. /\ J[n + 1] \in Features
        /\ J[n + 1].error = "none" =>
             /\ J[n].error = "none"
             /\ IF fields[n + 1][1] = "id" THEN J[n + 1].hasId /\ J[n + 1].id = fields[n + 1][2]
                ELSE J[n + 1].hasId = J[n].hasId /\ J[n + 1].id = J[n].id
    BY <1>2, <2>1, <2>2, <2>3, TakeFieldIs
  <2>7. CASE fields[n + 1][1] = "id"
    <3>1. fields[n + 1][2] \in ValuesOf(fields, "id")
      BY <2>1, <2>7 DEF ValuesOf
    <3>2. A[n + 1] # <<>> /\ A[n + 1][Len(A[n + 1])] = fields[n + 1][2]
      BY <2>4, <2>5, <2>7, <3>1
    <3> QED
      BY <2>6, <2>7, <3>2
  <2>8. CASE fields[n + 1][1] # "id"
    BY <2>2, <2>4, <2>6, <2>8
  <2> QED
    BY <2>7, <2>8
<1>12. \A n \in Nat : n \in Q
  <2> HIDE DEF Q
  <2> QED
    BY <1>10, <1>11, NatSetInduction
<1> QED
  <2> HIDE DEF J, A
  <2> QED
    BY <1>1, <1>12 DEF J, A

\* What the constructor of a feature leaves (feature.hpp:45-175).
LEMMA ReadFeatureIs ==
  ASSUME NEW fields, IsFeature(fields)
  PROVE  /\ ReadFeature(fields) \in Features
         /\ ReadFeature(fields).error = "none" /\ ReadFeature(fields).hasId =>
              /\ All(fields, "id") # <<>>
              /\ ReadFeature(fields).id = All(fields, "id")[Len(All(fields, "id"))]
<1> DEFINE f == FeatureAfter(fields)[Len(fields)]
<1>1. Len(fields) \in 0 .. Len(fields)
  BY SeqIs DEF IsFeature
<1>2. /\ f \in Features
      /\ f.error = "none" => /\ f.hasId <=> All(fields, "id") # <<>>
                             /\ f.hasId => f.id = All(fields, "id")[Len(All(fields, "id"))]
  BY <1>1, FeatureUnfolds DEF All
<1>3. \/ ReadFeature(fields) = f
      \/ ReadFeature(fields) = [f EXCEPT !.error = "format"]
  BY DEF ReadFeature
<1> HIDE DEF f
<1>4. [f EXCEPT !.error = "format"] \in Features /\ [f EXCEPT !.error = "format"].error # "none"
  BY <1>2 DEF Features
<1> QED
  BY <1>2, <1>3, <1>4

\* The bytes of a geometry.
LEMMA BytesAreNumbers ==
  ASSUME NEW s \in Seq(Nat)
  PROVE  BytesOf(s) \in Nat
<1> DEFINE N == Len(s)
           step(n, x) == x + ItemBytes(s[n])
           G == [p \in (1 .. N) \X Nat |-> step(p[1], p[2])]
<1>1. N \in Nat
  OBVIOUS
<1>2. \A i \in Nat : ItemBytes(i) \in Nat
  <2> TAKE i \in Nat
  <2> DEFINE B == {n \in Longer : n <= i}
  <2>1. IsFiniteSet(B)
    BY TileReaderAssumption, FS_Subset
  <2>2. Cardinality(B) \in Nat
    BY <2>1, FS_CardinalityType
  <2> QED
    BY <2>2 DEF ItemBytes
<1>3. \A n \in 1 .. N : \A x \in Nat : step(n, x) \in Nat /\ G[<<n, x>>] = step(n, x)
  <2>1. \A n \in 1 .. N : ItemBytes(s[n]) \in Nat
    <3>1. \A n \in 1 .. N : s[n] \in Nat
      OBVIOUS
    <3> QED
      BY <1>2, <3>1
  <2> QED
    BY <2>1
<1>4. PICK g : IsRun(g, N, Nat, 0, G)
  <2>1. StepsStay(N, Nat, G)
    BY <1>3, Zenon DEF StepsStay
  <2>2. 0 \in Nat
    OBVIOUS
  <2> HIDE DEF G, N
  <2> QED
    BY <1>1, <2>1, <2>2, Recursion, Zenon
<1>5. ASSUME NEW n \in 1 .. N PROVE g[n] = step(n, g[n - 1])
  <2> HIDE DEF G, step, N
  <2>1. g[n - 1] \in Nat
    BY <1>1, <1>4 DEF IsRun
  <2>2. g[n] = G[<<n, g[n - 1]>>]
    BY <1>4 DEF IsRun
  <2>3. G[<<n, g[n - 1]>>] = step(n, g[n - 1])
    BY <1>3, <2>1
  <2> QED
    BY <2>2, <2>3
<1> DEFINE first(f) == f = [n \in 0 .. N |-> IF n = 0 THEN 0 ELSE step(n, f[n - 1])]
           J == BytesAfter(s)
<1>6. first(g)
  <2> HIDE DEF step, G
  <2> QED
    BY <1>4, <1>5 DEF IsRun
<1>7. first(J)
  <2>1. \E f : first(f)
    BY <1>6
  <2> QED
    BY <2>1 DEF BytesAfter
<1>8. J[0] = 0 /\ \A n \in 1 .. N : J[n] = step(n, J[n - 1])
  <2> HIDE DEF step, J
  <2> QED
    BY <1>1, <1>7
<1> DEFINE Q == {n \in Nat : n <= N => J[n] \in Nat}
<1>9. 0 \in Q
  BY <1>8
<1>10. ASSUME NEW n \in Nat, n \in Q PROVE n + 1 \in Q
  <2> SUFFICES ASSUME n + 1 <= N PROVE J[n + 1] \in Nat
    OBVIOUS
  <2> HIDE DEF J, step
  <2>1. n + 1 \in 1 .. N /\ (n + 1) - 1 = n /\ J[n] \in Nat
    BY <1>1, <1>10
  <2> QED
    BY <1>3, <1>8, <2>1
<1>11. \A n \in Nat : n \in Q
  <2> HIDE DEF Q
  <2> QED
    BY <1>9, <1>10, NatSetInduction
<1> QED
  BY <1>1, <1>11 DEF BytesOf

-----------------------------------------------------------------------------
(* The decoder.                                                            *)

USE DEF UNKNOWN, POINT, LINESTRING, POLYGON

\* Moving stays in the plane (geometry.hpp:227-251).
LEMMA MoveType ==
  ASSUME NEW c \in Points, NEW dx \in Nat, NEW dy \in Nat
  PROVE  Move(c, dx, dy) \in Points
<1>1. \A u \in Nat : DecodeZigzag(u) \in Int
  BY DEF DecodeZigzag
<1>2. \A v \in Int : Int32(v) \in Int
  BY GeometryAssumption DEF Int32
<1>3. c[1] \in Int /\ c[2] \in Int
  BY DEF Points
<1>4. c[1] + DecodeZigzag(dx) \in Int /\ c[2] + DecodeZigzag(dy) \in Int
  BY <1>1, <1>3
<1>5. Int32(c[1] + DecodeZigzag(dx)) \in Int /\ Int32(c[2] + DecodeZigzag(dy)) \in Int
  BY <1>2, <1>4
<1> QED
  BY <1>5 DEF Move, Points

\* Sums of decode_polygon are integers (geometry.hpp:120-124).
LEMMA DetType ==
  ASSUME NEW a \in Points, NEW b \in Points
  PROVE  Det(a, b) \in Int
<1>1. a[1] \in Int /\ a[2] \in Int /\ b[1] \in Int /\ b[2] \in Int
  BY DEF Points
<1>2. a[1] * b[2] \in Int /\ b[1] * a[2] \in Int
  BY <1>1
<1> QED
  BY <1>2 DEF Det

LEMMA Int64Type ==
  ASSUME NEW v \in Int
  PROVE  Int64(v) \in Int
<1> DEFINE half == HalfRange * HalfRange
<1>1. half \in Nat \ {0}
  BY GeometryAssumption
<1>2. Int64(v) = ((v + 2 * half) % (4 * half)) - 2 * half
  BY GeometryAssumption DEF Int64
<1> HIDE DEF half
<1> QED
  BY <1>1, <1>2

\* What next_command and next_point find at m_it.
LEMMA ItemType ==
  ASSUME TypeOK, NEW k \in 1 .. Len(items)
  PROVE  items[k] \in Nat
BY DEF TypeOK

\* The count in a command is a number (geometry.hpp:111-118).
LEMMA CommandTypes ==
  ASSUME NEW i \in Nat
  PROVE  CommandCount(i) \in Nat
BY DEF CommandCount

\* The initial states are those of the invariant.
LEMMA DecoderStarts ==
  ASSUME NEW s \in Seq(Nat), NEW n \in Nat, NEW t \in UNKNOWN .. POLYGON, Decoder(s, n, t)
  PROVE  DecoderInv
<1>1. TypeOK
  BY DEF Decoder, TypeOK, Places, Points, Origin, Parts
<1>2. CountMatchesPlace
  BY DEF Decoder, CountMatchesPlace
<1>3. PartsComplete
  BY DEF Decoder, PartsComplete
<1> QED
  BY <1>1, <1>2, <1>3 DEF DecoderInv

\* An exception disturbs nothing but the place.
LEMMA ThrowKeeps ==
  ASSUME DecoderInv, Throw
  PROVE  DecoderInv'
<1> USE DEF Throw, given
<1>1. TypeOK'
  BY DEF DecoderInv, TypeOK, Places
<1>2. CountMatchesPlace'
  BY DEF DecoderInv, CountMatchesPlace
<1>3. PartsComplete'
  <2>1. parts # <<>> => Part \in Parts
    BY DEF DecoderInv, TypeOK, Part
  <2>2. Outstanding \in Nat
    BY DEF DecoderInv, TypeOK, Outstanding
  <2>3. parts # <<>> => Len(Part.points) <= Part.announced
    <3> SUFFICES ASSUME parts # <<>>
                 PROVE  Len(Part.points) <= Part.announced
      OBVIOUS
    <3>1. Len(Part.points) \in Nat /\ Part.announced \in Nat
      BY <2>1 DEF Parts
    <3>2. CASE place = "threw"
      BY <3>2 DEF DecoderInv, PartsComplete
    <3>3. CASE place # "threw"
      <4>1. Len(Part.points) + Outstanding = Part.announced
        BY <3>3 DEF DecoderInv, PartsComplete
      <4> QED
        BY <2>2, <3>1, <4>1
    <3> QED
      BY <3>2, <3>3
  <2>4. Part' = Part /\ place' = "threw"
    BY DEF Part
  <2> QED
    BY <2>3, <2>4 DEF DecoderInv, PartsComplete, IsComplete
<1> QED
  BY <1>1, <1>2, <1>3 DEF DecoderInv

\* A part that begins when those before it are complete.
LEMMA BeginKeeps ==
  ASSUME DecoderInv, NEW n \in Nat, NEW points \in Seq(Points),
         n <= limit + 2, limit' = limit, type' = type,
         parts = <<>> \/ IsComplete(Part),
         place' = "points", count' \in Nat, type # UNKNOWN,
         Len(points) + count' + (IF type = POLYGON THEN 1 ELSE 0) = n,
         type = POLYGON => points # <<>>, Begin(n, points)
  PROVE  parts' \in Seq(Parts) /\ PartsComplete'
<1> DEFINE p == [announced |-> n, points |-> points, ring |-> "none"]
<1>1. p \in Parts
  BY DEF Parts
<1>2. parts \in Seq(Parts) /\ parts' = Append(parts, p)
  BY DEF DecoderInv, TypeOK, Begin
<1>3. /\ parts' \in Seq(Parts) /\ Len(parts') = Len(parts) + 1
      /\ parts'[Len(parts')] = p
      /\ \A k \in DOMAIN parts : parts'[k] = parts[k]
      /\ DOMAIN parts' = DOMAIN parts \cup {Len(parts')}
  BY <1>1, <1>2
<1>4. \A k \in DOMAIN parts : IsComplete(parts[k])
  BY <1>2 DEF DecoderInv, PartsComplete, Part
<1>5. \A k \in DOMAIN parts' : parts'[k].announced <= limit' + 2
  BY <1>3 DEF DecoderInv, PartsComplete
<1>6. \A k \in DOMAIN parts' : k < Len(parts') => IsComplete(parts'[k])
  BY <1>2, <1>3, <1>4
<1>7. Part' = p
  BY <1>3 DEF Part
<1>8. Len(Part'.points) + Outstanding' = Part'.announced
  BY <1>7 DEF Outstanding
<1> QED
  BY <1>2, <1>3, <1>5, <1>6, <1>7, <1>8 DEF PartsComplete

\* One more point for the last part.
LEMMA PointKeeps ==
  ASSUME DecoderInv, parts # <<>>, NEW q \in Points, NEW ring \in {"none", "outer", "inner", "invalid"},
         limit' = limit, place' # "threw", place' # "type",
         Outstanding' = Outstanding - 1, place # "threw",
         parts' = [parts EXCEPT ![Len(parts)] =
                     [announced |-> Part.announced, points |-> Append(Part.points, q),
                      ring |-> ring]]
  PROVE  parts' \in Seq(Parts) /\ PartsComplete'
<1> DEFINE p == [announced |-> Part.announced, points |-> Append(Part.points, q), ring |-> ring]
<1>1. Part \in Parts
  BY DEF DecoderInv, TypeOK, Part
<1>2. p \in Parts /\ Len(p.points) = Len(Part.points) + 1
  BY <1>1 DEF Parts
<1>3. parts \in Seq(Parts) /\ Len(parts) \in DOMAIN parts
  BY DEF DecoderInv, TypeOK
<1>4. /\ parts' \in Seq(Parts) /\ Len(parts') = Len(parts) /\ DOMAIN parts' = DOMAIN parts
      /\ parts'[Len(parts)] = p
      /\ \A k \in DOMAIN parts : k < Len(parts) => parts'[k] = parts[k]
  BY <1>2, <1>3
<1>5. \A k \in DOMAIN parts' : parts'[k].announced <= limit' + 2
  <2> SUFFICES ASSUME NEW k \in DOMAIN parts
               PROVE  parts'[k].announced <= limit + 2
    BY <1>4
  <2>1. CASE k = Len(parts)
    BY <1>3, <1>4, <2>1 DEF DecoderInv, PartsComplete, Part
  <2>2. CASE k < Len(parts)
    BY <1>4, <2>2 DEF DecoderInv, PartsComplete
  <2> QED
    BY <1>3, <2>1, <2>2
<1>6. \A k \in DOMAIN parts' : k < Len(parts') => IsComplete(parts'[k])
  BY <1>4 DEF DecoderInv, PartsComplete
<1>7. Len(Part.points) + Outstanding = Part.announced
  BY DEF DecoderInv, PartsComplete
<1>8. Outstanding \in Int /\ Len(Part.points) \in Int
  BY <1>1 DEF DecoderInv, TypeOK, Outstanding, Parts
<1>9. Part' = p /\ Part'.points # <<>>
  BY <1>2, <1>4 DEF Part
<1>10. Len(Part'.points) + Outstanding' = Part'.announced
  BY <1>2, <1>7, <1>8, <1>9
<1> QED
  BY <1>3, <1>4, <1>5, <1>6, <1>9, <1>10 DEF PartsComplete

-----------------------------------------------------------------------------
\* Every step of the decoder keeps its invariant (geometry.hpp:253-440).
LEMMA DecoderStepKeeps == DecoderInv /\ [DecoderNext]_decoderVars => DecoderInv'
<1> SUFFICES ASSUME DecoderInv, [DecoderNext]_decoderVars
             PROVE  DecoderInv'
  OBVIOUS
<1> USE DEF given
<1>1. CASE DecodeGeometry
  <2>1. CASE Throw
    BY <2>1, ThrowKeeps
  <2>2. CASE ~Throw
    <3>1. place = "type" /\ place' = "MoveTo" /\ parts = <<>>
          /\ UNCHANGED <<items, limit, type, it, cursor, count, area, parts>>
      BY <1>1, <2>2 DEF DecodeGeometry, DecoderInv, PartsComplete
    <3> QED
      BY <3>1 DEF DecoderInv, TypeOK, Places, CountMatchesPlace, PartsComplete
  <2> QED
    BY <2>1, <2>2
<1>2. CASE BeginPoints
  <2>1. CASE Throw
    BY <2>1, ThrowKeeps
  <2>2. CASE ~Throw
    <3>1. Accepts(MOVE_TO)
      BY <1>2, <2>2 DEF BeginPoints
    <3>2. it + 1 \in 1 .. Len(items) /\ CommandCount(Item) <= limit
      BY <3>1 DEF Accepts, AtEnd, MOVE_TO, CLOSE_PATH, DecoderInv, TypeOK
    <3>3. CommandCount(Item) \in Nat
      BY <3>2, ItemType, CommandTypes DEF Item, DecoderInv
    <3>4. /\ place = "MoveTo" /\ type = POINT /\ place' = "points" /\ it' = it + 1
          /\ count' = CommandCount(Item) /\ Begin(CommandCount(Item), <<>>)
          /\ UNCHANGED <<items, limit, type, cursor, area>>
      BY <1>2, <2>2 DEF BeginPoints
    <3>5. parts = <<>> \/ IsComplete(Part)
      <4>1. parts # <<>> => Part \in Parts
        BY DEF DecoderInv, TypeOK, Part
      <4> QED
        BY <3>4, <4>1 DEF DecoderInv, PartsComplete, Outstanding, IsComplete, Parts
    <3>6. <<>> \in Seq(Points) /\ Len(<<>>) = 0 /\ limit \in Nat
      BY DEF DecoderInv, TypeOK
    <3>7. parts' \in Seq(Parts) /\ PartsComplete'
      <4> DEFINE n == CommandCount(Item)
      <4>1. /\ n \in Nat /\ n <= limit + 2 /\ count' \in Nat
            /\ Len(<<>>) + count' + (IF type = POLYGON THEN 1 ELSE 0) = n
        BY <3>2, <3>3, <3>4, <3>6
      <4>2. Begin(n, <<>>)
        BY <3>4
      <4>3. type # UNKNOWN /\ type # POLYGON
        BY <3>4
      <4> HIDE DEF n
      <4> QED
        BY <3>4, <3>5, <3>6, <4>1, <4>2, <4>3, BeginKeeps
    <3>8. TypeOK'
      BY <3>2, <3>3, <3>4, <3>7 DEF DecoderInv, TypeOK, Places
    <3>9. CountMatchesPlace'
      BY <3>4 DEF CountMatchesPlace
    <3> QED
      BY <3>7, <3>8, <3>9 DEF DecoderInv
  <2> QED
    BY <2>1, <2>2
<1>3. CASE BeginPart
  <2>1. CASE Throw
    BY <2>1, ThrowKeeps
  <2>2. CASE AtEnd
    <3>1. /\ place = "MoveTo" /\ place' = "done"
          /\ UNCHANGED <<items, limit, type, it, cursor, count, area, parts>>
      BY <1>3, <2>2 DEF BeginPart
    <3> QED
      BY <3>1 DEF DecoderInv, TypeOK, Places, CountMatchesPlace, PartsComplete, IsComplete,
                  Outstanding, Part
  <2>3. CASE ~Throw /\ ~AtEnd
    <3>1. /\ place = "MoveTo" /\ place' = "LineTo" /\ type \in {LINESTRING, POLYGON}
          /\ it + 3 <= Len(items) /\ it' = it + 3
          /\ cursor' = Move(cursor, items[it + 2], items[it + 3])
          /\ UNCHANGED <<items, limit, type, count, area, parts>>
      BY <1>3, <2>3 DEF BeginPart
    <3>2. it + 2 \in 1 .. Len(items) /\ it + 3 \in 1 .. Len(items)
      BY <3>1 DEF DecoderInv, TypeOK
    <3>3. items[it + 2] \in Nat /\ items[it + 3] \in Nat
      BY <3>2, ItemType DEF DecoderInv
    <3>4. cursor' \in Points
      BY <3>1, <3>3, MoveType DEF DecoderInv, TypeOK
    <3>5. TypeOK'
      BY <3>1, <3>2, <3>4 DEF DecoderInv, TypeOK, Places
    <3>6. CountMatchesPlace'
      BY <3>1 DEF DecoderInv, CountMatchesPlace
    <3>7. PartsComplete'
      <4>1. Part' = Part /\ Outstanding' = 0 /\ Outstanding = 0
        BY <3>1 DEF Part, Outstanding
      <4> QED
        BY <3>1, <4>1 DEF DecoderInv, PartsComplete, IsComplete
    <3> QED
      BY <3>5, <3>6, <3>7 DEF DecoderInv
  <2> QED
    BY <2>1, <2>2, <2>3
<1>4. CASE BeginLine
  <2>1. CASE Throw
    BY <2>1, ThrowKeeps
  <2>2. CASE ~Throw
    <3> DEFINE n == CommandCount(Item) + (IF type = LINESTRING THEN 1 ELSE 2)
    <3>1. Accepts(LINE_TO)
      BY <1>4, <2>2 DEF BeginLine
    <3>2. it + 1 \in 1 .. Len(items) /\ CommandCount(Item) <= limit
      BY <3>1 DEF Accepts, AtEnd, LINE_TO, CLOSE_PATH, DecoderInv, TypeOK
    <3>3. CommandCount(Item) \in Nat
      BY <3>2, ItemType, CommandTypes DEF Item, DecoderInv
    <3>4. /\ place = "LineTo" /\ place' = "points" /\ it' = it + 1
          /\ count' = CommandCount(Item) /\ Begin(n, <<cursor>>) /\ area' = 0
          /\ UNCHANGED <<items, limit, type, cursor>>
      BY <1>4, <2>2 DEF BeginLine
    <3>5. type \in {LINESTRING, POLYGON}
      BY <3>4 DEF DecoderInv, TypeOK, CountMatchesPlace
    <3>6. parts = <<>> \/ IsComplete(Part)
      <4>1. parts # <<>> => Part \in Parts
        BY DEF DecoderInv, TypeOK, Part
      <4> QED
        BY <3>4, <4>1 DEF DecoderInv, PartsComplete, Outstanding, IsComplete, Parts
    <3>7. <<cursor>> \in Seq(Points) /\ Len(<<cursor>>) = 1 /\ limit \in Nat
      BY DEF DecoderInv, TypeOK
    <3>8. /\ n \in Nat /\ n <= limit + 2
          /\ Len(<<cursor>>) + count' + (IF type = POLYGON THEN 1 ELSE 0) = n
          /\ count' \in Nat /\ type # UNKNOWN /\ <<cursor>> # <<>>
      BY <3>2, <3>3, <3>4, <3>5, <3>7
    <3>9. parts' \in Seq(Parts) /\ PartsComplete'
      <4> HIDE DEF n
      <4> QED
        BY <3>4, <3>6, <3>7, <3>8, BeginKeeps
    <3>10. TypeOK'
      BY <3>2, <3>3, <3>4, <3>9 DEF DecoderInv, TypeOK, Places
    <3>11. CountMatchesPlace'
      BY <3>4, <3>5 DEF CountMatchesPlace
    <3> QED
      BY <3>9, <3>10, <3>11 DEF DecoderInv
  <2> QED
    BY <2>1, <2>2
<1>5. CASE NextPoint
  <2>1. CASE Throw
    BY <2>1, ThrowKeeps
  <2>2. CASE ~Throw
    <3>1. /\ place = "points" /\ count > 0 /\ it + 2 <= Len(items)
          /\ it' = it + 2 /\ cursor' = Next2 /\ count' = count - 1
          /\ area' = IF type = POLYGON THEN Int64(area + Det(cursor, Next2)) ELSE area
          /\ AddToPart(Next2)
          /\ UNCHANGED <<items, limit, type, place>>
      BY <1>5, <2>2 DEF NextPoint, TooFew, DecoderInv, TypeOK
    <3>2. it + 1 \in 1 .. Len(items) /\ it + 2 \in 1 .. Len(items)
      BY <3>1 DEF DecoderInv, TypeOK
    <3>3. Next2 \in Points
      BY <3>2, ItemType, MoveType DEF DecoderInv, TypeOK, Next2
    <3>4. area' \in Int
      BY <3>1, <3>3, DetType, Int64Type DEF DecoderInv, TypeOK
    <3>5. parts # <<>> /\ Part \in Parts
      BY <3>1 DEF DecoderInv, TypeOK, PartsComplete, Part
    <3>6. parts' = [parts EXCEPT ![Len(parts)] =
                      [announced |-> Part.announced, points |-> Append(Part.points, Next2),
                       ring |-> Part.ring]]
      <4>1. parts' = [parts EXCEPT ![Len(parts)] =
                        [Part EXCEPT !.points = Append(Part.points, Next2)]]
        BY <3>1 DEF AddToPart, Part
      <4>2. [Part EXCEPT !.points = Append(Part.points, Next2)] =
              [announced |-> Part.announced, points |-> Append(Part.points, Next2),
               ring |-> Part.ring]
        BY <3>5 DEF Parts
      <4> QED
        BY <4>1, <4>2
    <3>7. Outstanding' = Outstanding - 1
      BY <3>1 DEF DecoderInv, TypeOK, Outstanding
    <3>8. parts' \in Seq(Parts) /\ PartsComplete'
      BY <3>1, <3>3, <3>5, <3>6, <3>7, PointKeeps DEF Parts
    <3>9. TypeOK'
      BY <3>1, <3>2, <3>3, <3>4, <3>8 DEF DecoderInv, TypeOK, Places
    <3>10. CountMatchesPlace'
      BY <3>1 DEF DecoderInv, CountMatchesPlace
    <3> QED
      BY <3>8, <3>9, <3>10 DEF DecoderInv
  <2> QED
    BY <2>1, <2>2
<1>6. CASE EndOfPoints
  <2>1. CASE Throw
    BY <2>1, ThrowKeeps
  <2>2. CASE ~Throw
    <3>1. /\ place = "points" /\ count = 0
          /\ place' = CASE type = POINT -> "done"
                        [] type = LINESTRING -> "MoveTo"
                        [] type = POLYGON -> "ClosePath"
          /\ UNCHANGED <<items, limit, type, it, cursor, count, area, parts>>
      BY <1>6, <2>2 DEF EndOfPoints
    <3>2. type \in {POINT, LINESTRING, POLYGON}
      BY <3>1 DEF DecoderInv, TypeOK, CountMatchesPlace
    <3>3. \/ type = POINT /\ place' = "done"
          \/ type = LINESTRING /\ place' = "MoveTo"
          \/ type = POLYGON /\ place' = "ClosePath"
      BY <3>1, <3>2
    <3>4. TypeOK'
      <4>1. place' \in Places
        BY <3>3 DEF Places
      <4> QED
        BY <3>1, <4>1 DEF DecoderInv, TypeOK
    <3>5. CountMatchesPlace'
      BY <3>1, <3>3 DEF DecoderInv, CountMatchesPlace
    <3>6. Outstanding' = Outstanding
      BY <3>1, <3>3 DEF Outstanding
    <3>7. PartsComplete'
      <4>1. Part' = Part
        BY <3>1 DEF Part
      <4>2. place' \notin {"threw", "type", "points"}
            /\ (place' = "ClosePath" => type = POLYGON)
        BY <3>3
      <4> QED
        BY <3>1, <3>6, <4>1, <4>2 DEF DecoderInv, PartsComplete, IsComplete
    <3> QED
      BY <3>4, <3>5, <3>7 DEF DecoderInv
  <2> QED
    BY <2>1, <2>2
<1>7. CASE CloseRing
  <2>1. CASE Throw
    BY <2>1, ThrowKeeps
  <2>2. CASE ~Throw
    <3> DEFINE start == Part.points[1]
               ring == RingType(Int64(area + Det(cursor, start)))
    <3>1. /\ place = "ClosePath" /\ ~AtEnd /\ place' = "MoveTo" /\ it' = it + 1
          /\ parts' = [parts EXCEPT ![Len(parts)] =
                         [announced |-> Part.announced, points |-> Append(Part.points, start),
                          ring |-> ring]]
          /\ UNCHANGED <<items, limit, type, cursor, count, area>>
      BY <1>7, <2>2 DEF CloseRing, Accepts
    <3>2. parts # <<>> /\ Part \in Parts
      BY <3>1 DEF DecoderInv, TypeOK, PartsComplete, Part
    <3>3. ring \in {"none", "outer", "inner", "invalid"}
      BY DEF RingType
    <3>4. Outstanding' = Outstanding - 1
      BY <3>1 DEF Outstanding
    <3>5. start \in Points
      <4>1. Part.points \in Seq(Points)
        BY <3>2 DEF Parts
      <4>2. Part.points # <<>>
        BY <3>1 DEF DecoderInv, PartsComplete, CountMatchesPlace
      <4> QED
        BY <4>1, <4>2
    <3>6. parts' \in Seq(Parts) /\ PartsComplete'
      <4> HIDE DEF start, ring
      <4> QED
        BY <3>1, <3>2, <3>3, <3>4, <3>5, PointKeeps
    <3>7. TypeOK'
      BY <3>1, <3>6 DEF DecoderInv, TypeOK, Places, AtEnd
    <3>8. CountMatchesPlace'
      BY <3>1 DEF DecoderInv, CountMatchesPlace
    <3> QED
      BY <3>6, <3>7, <3>8 DEF DecoderInv
  <2> QED
    BY <2>1, <2>2
<1>8. CASE UNCHANGED decoderVars
  BY <1>8 DEF decoderVars, DecoderInv, TypeOK, CountMatchesPlace, PartsComplete, IsComplete,
              Outstanding, Part
<1> QED
  BY <1>1, <1>2, <1>3, <1>4, <1>5, <1>6, <1>7, <1>8 DEF DecoderNext

\* What handlers are told is bounded and is what they get.
LEMMA WhatHandlersAreTold ==
  ASSUME DecoderInv
  PROVE  AnnouncesWhatFits
<1> SUFFICES ASSUME NEW k \in DOMAIN parts
             PROVE  /\ parts[k].announced <= limit + 2
                    /\ Len(parts[k].points) <= parts[k].announced
                    /\ k < Len(parts) \/ place = "done" =>
                         Len(parts[k].points) = parts[k].announced
  BY DEF AnnouncesWhatFits
<1>1. parts[k] \in Parts /\ k \in 1 .. Len(parts)
  BY DEF DecoderInv, TypeOK
<1>2. Len(parts[k].points) \in Nat /\ parts[k].announced \in Nat
  BY <1>1 DEF Parts
<1>3. CASE k < Len(parts)
  BY <1>2, <1>3 DEF DecoderInv, PartsComplete, IsComplete
<1>4. CASE k = Len(parts)
  <2>1. parts # <<>> /\ Part = parts[k]
    BY <1>1, <1>4 DEF Part
  <2>2. Outstanding \in Nat /\ (place = "done" => Outstanding = 0)
    BY DEF DecoderInv, TypeOK, Outstanding
  <2> QED
    BY <1>2, <1>4, <2>1, <2>2 DEF DecoderInv, PartsComplete
<1> QED
  BY <1>1, <1>3, <1>4

HIDE DEF UNKNOWN, POINT, LINESTRING, POLYGON

-----------------------------------------------------------------------------
(* The walk over a tile.                                                   *)

Walking == reading \in {"layer", "geometry", "properties"}
InFeature == reading \in {"geometry", "properties"}

\* The present layer and the present feature are those that were delivered last.
Delivered(l, d) ==
  l.data = d /\ l.name = LastOr(All(d, "name"), "") /\ l.numFeatures = Len(All(d, "features"))
LayerInv ==
  Walking => /\ tileAt > 0 /\ Delivered(layer, All(text, "layers")[tileAt])
             /\ layerAt <= layer.numFeatures
FeatureInv ==
  InFeature => /\ layerAt > 0 /\ feature.error = "none"
               /\ feature = ReadFeature(All(layer.data, "features")[layerAt])
WalkInv ==
  /\ reading \in {"no", "tile", "layer", "geometry", "properties", "end"}
  /\ tileAt \in Nat /\ tileAt <= CountLayers(text) /\ layerAt \in Nat
  /\ reading = "no" => tileAt = 0
ReaderInv == IsTile(text) /\ TablesInv(layer) /\ WalkInv /\ LayerInv /\ FeatureInv

\* The layer of a reader that has none.
LEMMA NoLayerIs == IsLayer(<<>>) /\ TablesInv(NoLayer)
<1>1. IsLayer(<<>>)
  BY DEF IsLayer, IsSeq, ToSet
<1> QED
  BY <1>1, ReadLayerIs DEF NoLayer

\* The empty tile.
LEMMA NoTileIs == IsTile(<<>>)
BY DEF IsTile, IsSeq, ToSet

\* The number of layers of the tile that is read.
LEMMA CountIs ==
  ASSUME IsTile(text)
  PROVE  CountLayers(text) \in Nat
BY AllElements DEF IsTile, CountLayers

\* The number of features of the present layer.
LEMMA FeaturesCount ==
  ASSUME TablesInv(layer)
  PROVE  Len(All(layer.data, "features")) \in Nat
BY AllElements DEF TablesInv, IsLayer

\* A step that stays with the layer and the feature.
LEMMA StayKeeps ==
  ASSUME ReaderInv, UNCHANGED <<text, tileAt, layerAt>>,
         TablesInv(layer)', Unfilled(layer)' = Unfilled(layer),
         reading' = "end" \/ reading' = reading \/ (Walking /\ reading' = "layer")
           \/ (reading = "geometry" /\ reading' = "properties"),
         reading' \in {"geometry", "properties"} => feature' = feature
  PROVE  ReaderInv'
<1>1. /\ layer'.data = layer.data /\ layer'.name = layer.name
      /\ layer'.numFeatures = layer.numFeatures
  BY DEF Unfilled
<1>2. IsTile(text)' /\ CountLayers(text)' = CountLayers(text) /\ WalkInv'
  BY DEF ReaderInv, WalkInv, Walking
<1>3. LayerInv'
  BY <1>1 DEF ReaderInv, LayerInv, Delivered, Walking
<1>4. FeatureInv'
  BY <1>1 DEF ReaderInv, FeatureInv, InFeature, Walking
<1> QED
  BY <1>2, <1>3, <1>4 DEF ReaderInv

\* next_layer() delivers the layer behind the last one (vector_tile.hpp:124-173).
LEMMA NextLayerKeeps == ReaderInv /\ NextLayer => ReaderInv'
<1> SUFFICES ASSUME ReaderInv, NextLayer PROVE ReaderInv'
  OBVIOUS
<1> DEFINE d == All(text, "layers")[tileAt + 1]
           l == ReadLayer(d)
<1>1. /\ tileAt \in Nat /\ tileAt < CountLayers(text) /\ CountLayers(text) \in Nat /\ IsTile(text)
  BY CountIs DEF ReaderInv, WalkInv, NextLayer
<1>2. IsLayer(d)
  BY <1>1, LayersAreLayers
<1>3. TablesInv(l) /\ Delivered(l, d) /\ l.numFeatures \in Nat
  <2>1. TablesInv(l) /\ Delivered(l, d)
    BY <1>2, ReadLayerIs DEF Delivered
  <2>2. Len(All(d, "features")) \in Nat
    BY <1>2, AllElements DEF IsLayer
  <2> HIDE DEF d, l
  <2> QED
    BY <2>1, <2>2 DEF Delivered
<1>4. text' = text /\ tileAt' = tileAt + 1 /\ layerAt' = 0
  BY DEF NextLayer
<1>5. \/ reading' = "end" /\ layer' = layer
      \/ reading' = "layer" /\ layer' = l
  BY DEF NextLayer, ThrowInReader
<1> HIDE DEF l
<1>6. TablesInv(layer)'
  BY <1>3, <1>5 DEF ReaderInv
<1>7. WalkInv'
  BY <1>1, <1>4, <1>5 DEF WalkInv
<1>8. LayerInv'
  <2> SUFFICES ASSUME Walking'
               PROVE  /\ tileAt' > 0 /\ Delivered(layer, All(text, "layers")[tileAt])'
                      /\ layerAt' <= layer'.numFeatures
    BY DEF LayerInv
  <2>1. layer' = l
    BY <1>5 DEF Walking
  <2>2. All(text, "layers")[tileAt]' = d
    BY <1>4
  <2>3. Delivered(layer, All(text, "layers")[tileAt])' 
    BY <1>3, <2>1, <2>2 DEF Delivered
  <2>4. tileAt' > 0 /\ layerAt' <= layer'.numFeatures
    BY <1>1, <1>3, <1>4, <2>1
  <2> QED
    BY <2>3, <2>4
<1>9. FeatureInv'
  BY <1>5 DEF FeatureInv, InFeature
<1> QED
  BY <1>4, <1>6, <1>7, <1>8, <1>9 DEF ReaderInv

\* next_feature() delivers the feature behind the last one (layer.hpp:325-387).
LEMMA NextFeatureKeeps == ReaderInv /\ NextFeature => ReaderInv'
<1> SUFFICES ASSUME ReaderInv, NextFeature PROVE ReaderInv'
  OBVIOUS
<1> DEFINE f == ReadFeature(All(layer.data, "features")[layerAt + 1])
<1>1. /\ reading = "layer" /\ layerAt \in Nat /\ layerAt < layer.numFeatures /\ layerAt' = layerAt + 1
      /\ UNCHANGED <<text, tileAt, layer>> /\ layer.numFeatures \in Nat
  BY FeaturesCount DEF ReaderInv, WalkInv, LayerInv, Delivered, Walking, NextFeature
<1>2. \/ reading' = "end"
      \/ reading' = "geometry" /\ feature' = f /\ f.error = "none"
  BY DEF NextFeature, ThrowInReader
<1> HIDE DEF f
<1>3. IsTile(text)' /\ TablesInv(layer)' /\ CountLayers(text)' = CountLayers(text)
  BY <1>1 DEF ReaderInv
<1>4. WalkInv'
  BY <1>1, <1>2, <1>3 DEF ReaderInv, WalkInv
<1>5. LayerInv'
  <2>1. tileAt > 0 /\ Delivered(layer, All(text, "layers")[tileAt])
    BY <1>1 DEF ReaderInv, LayerInv, Walking
  <2>2. tileAt' > 0 /\ Delivered(layer, All(text, "layers")[tileAt])'
    BY <1>1, <2>1 DEF Delivered
  <2> QED
    BY <1>1, <2>2 DEF LayerInv
<1>6. FeatureInv'
  BY <1>1, <1>2 DEF FeatureInv, InFeature, f
<1> QED
  BY <1>3, <1>4, <1>5, <1>6 DEF ReaderInv

\* A step that leaves the layers and the features, or goes back to the first one.
LEMMA LeaveKeeps ==
  ASSUME ReaderInv, text' = text, TablesInv(layer)', tileAt' \in {tileAt, 0}, layerAt' \in {layerAt, 0},
         reading' \in {"tile", "end"}
  PROVE  ReaderInv'
<1>1. ~Walking' /\ ~InFeature' /\ CountLayers(text)' = CountLayers(text) /\ IsTile(text)'
  BY DEF Walking, InFeature, ReaderInv
<1>2. WalkInv'
  BY <1>1, CountIs DEF ReaderInv, WalkInv
<1> QED
  BY <1>1, <1>2 DEF ReaderInv, LayerInv, FeatureInv

\* reset_feature() goes back to the first feature (layer.hpp:349-362).
LEMMA ResetFeatureKeeps == ReaderInv /\ ResetFeature => ReaderInv'
<1> SUFFICES ASSUME ReaderInv, ResetFeature PROVE ReaderInv'
  OBVIOUS
<1>1. reading = "layer" /\ reading' = "layer" /\ layerAt' = 0 /\ UNCHANGED <<text, tileAt, layer>>
  BY DEF ResetFeature
<1>2. layer.numFeatures \in Nat
  BY <1>1, FeaturesCount DEF ReaderInv, LayerInv, Delivered, Walking
<1>3. IsTile(text)' /\ TablesInv(layer)' /\ WalkInv'
  BY <1>1 DEF ReaderInv, WalkInv
<1>4. LayerInv'
  <2>1. tileAt > 0 /\ Delivered(layer, All(text, "layers")[tileAt])
    BY <1>1 DEF ReaderInv, LayerInv, Walking
  <2>2. tileAt' > 0 /\ Delivered(layer, All(text, "layers")[tileAt])'
    BY <1>1, <2>1 DEF Delivered
  <2> QED
    BY <1>1, <1>2, <2>2 DEF LayerInv
<1> QED
  BY <1>1, <1>3, <1>4 DEF ReaderInv, FeatureInv, InFeature

\* Both tables of the present layer, looked at in either order.
LEMMA TablesStay ==
  ASSUME ReaderInv
  PROVE  /\ TablesInv(KeyTable(layer)) /\ Unfilled(KeyTable(layer)) = Unfilled(layer)
         /\ TablesInv(ValueTable(layer)) /\ Unfilled(ValueTable(layer)) = Unfilled(layer)
         /\ TablesInv(ValueTable(KeyTable(layer)))
         /\ Unfilled(ValueTable(KeyTable(layer))) = Unfilled(layer)
<1>1. TablesInv(layer)
  BY DEF ReaderInv
<1>2. /\ TablesInv(KeyTable(layer)) /\ Unfilled(KeyTable(layer)) = Unfilled(layer)
      /\ TablesInv(ValueTable(layer)) /\ Unfilled(ValueTable(layer)) = Unfilled(layer)
  BY <1>1, TableKeeps
<1> DEFINE k == KeyTable(layer)
<1>3. TablesInv(ValueTable(k)) /\ Unfilled(ValueTable(k)) = Unfilled(k)
  <2> HIDE DEF k
  <2>1. TablesInv(k)
    BY <1>2 DEF k
  <2> QED
    BY <2>1, TableKeeps
<1> QED
  BY <1>2, <1>3

\* Every step of a reader keeps its invariant.
LEMMA ReaderKeeps == ReaderInv /\ ReaderNext => ReaderInv'
<1> SUFFICES ASSUME ReaderInv, ReaderNext PROVE ReaderInv'
  OBVIOUS
<1>1. CASE NextLayer
  BY <1>1, NextLayerKeeps
<1>2. CASE NoMoreLayers
  <2>1. reading' = "end" /\ UNCHANGED <<text, layer, tileAt, layerAt>>
    BY <1>2 DEF NoMoreLayers, position
  <2> QED
    BY <2>1, LeaveKeeps DEF ReaderInv
<1>3. CASE ResetLayer
  <2>1. reading' = "tile" /\ tileAt' = 0 /\ UNCHANGED <<text, layer, layerAt>>
    BY <1>3 DEF ResetLayer
  <2> QED
    BY <2>1, LeaveKeeps DEF ReaderInv
<1>4. CASE NextFeature
  BY <1>4, NextFeatureKeeps
<1>5. CASE NoMoreFeatures
  <2>1. reading' = "tile" /\ layer' = NoLayer /\ layerAt' = 0 /\ UNCHANGED <<text, tileAt>>
    BY <1>5 DEF NoMoreFeatures
  <2>2. TablesInv(layer)'
    BY <2>1, NoLayerIs DEF NoLayer
  <2> QED
    BY <2>1, <2>2, LeaveKeeps
<1>6. CASE ResetFeature
  BY <1>6, ResetFeatureKeeps
<1>7. CASE DecodeStep
  <2>1. UNCHANGED <<text, layer, tileAt, layerAt, reading, feature>>
    BY <1>7 DEF DecodeStep, readerVars
  <2> QED
    BY <2>1, StayKeeps DEF ReaderInv, Unfilled
<1>8. CASE GeometryDecoded
  <2>1. /\ UNCHANGED <<text, layer, tileAt, layerAt, feature>>
        /\ reading = "geometry" /\ reading' \in {"end", "properties"}
    BY <1>8 DEF GeometryDecoded, position, ThrowInReader
  <2> QED
    BY <2>1, StayKeeps DEF ReaderInv, Unfilled
<1>9. CASE LookAtTables
  <2>1. /\ UNCHANGED <<text, tileAt, layerAt, feature, reading>>
        /\ layer' \in {KeyTable(layer), ValueTable(layer)}
    BY <1>9 DEF LookAtTables, position
  <2>2. TablesInv(layer)' /\ Unfilled(layer)' = Unfilled(layer)
    BY <2>1, TablesStay
  <2> QED
    BY <2>1, <2>2, StayKeeps
<1>10. CASE NextProperty
  <2>1. /\ UNCHANGED <<text, tileAt, layerAt, feature>> /\ reading' \in {reading, "end"}
        /\ layer' \in {layer, ValueTable(KeyTable(layer))}
    BY <1>10 DEF NextProperty, ThrowInReader
  <2>2. TablesInv(layer)' /\ Unfilled(layer)' = Unfilled(layer)
    BY <2>1, TablesStay DEF ReaderInv
  <2> QED
    BY <2>1, <2>2, StayKeeps
<1>11. CASE EachProperty
  <2>1. /\ UNCHANGED <<text, tileAt, layerAt, feature>> /\ reading' \in {reading, "end"}
        /\ layer' = ValueTable(KeyTable(layer))
    BY <1>11 DEF EachProperty, ThrowInReader
  <2>2. TablesInv(layer)' /\ Unfilled(layer)' = Unfilled(layer)
    BY <2>1, TablesStay
  <2> QED
    BY <2>1, <2>2, StayKeeps
<1>12. CASE ResetProperty
  <2>1. UNCHANGED <<text, layer, tileAt, layerAt, reading, feature>>
    BY <1>12 DEF ResetProperty
  <2> QED
    BY <2>1, StayKeeps DEF ReaderInv, Unfilled
<1>13. CASE NoMoreProperties
  <2>1. UNCHANGED <<text, layer, tileAt, layerAt>> /\ reading = "properties" /\ reading' = "layer"
    BY <1>13 DEF NoMoreProperties
  <2>2. Walking
    BY <2>1 DEF Walking
  <2> QED
    BY <2>1, <2>2, StayKeeps DEF ReaderInv, Unfilled
<1> QED
  BY <1>1, <1>2, <1>3, <1>4, <1>5, <1>6, <1>7, <1>8, <1>9, <1>10, <1>11, <1>12, <1>13
     DEF ReaderNext

-----------------------------------------------------------------------------
(* The tables of a builder.                                                *)

\* A bounded set of numbers that is not empty has a greatest element.
LEMMA GreatestNumber ==
  ASSUME NEW N \in Nat, NEW T, T \subseteq 1 .. N, T # {}
  PROVE  \E x \in T : \A y \in T : y <= x
<1> DEFINE U == {N - x : x \in T}
<1>1. U \subseteq Nat /\ U # {}
  <2>1. \A x \in T : N - x \in Nat
    OBVIOUS
  <2>2. PICK x : x \in T
    OBVIOUS
  <2>3. N - x \in U
    BY <2>2
  <2> QED
    BY <2>1, <2>3
<1>2. PICK u \in U : \A v \in U : u <= v
  BY <1>1, LeastNumber
<1>3. PICK x \in T : u = N - x
  BY <1>2
<1>4. ASSUME NEW y \in T PROVE y <= x
  <2>1. u <= N - y
    BY <1>2
  <2> QED
    BY <1>3, <2>1
<1> QED
  BY <1>4

Distinct(s) == \A i, j \in DOMAIN s : s[i] = s[j] => i = j
Extends(s, t) == Len(s) <= Len(t) /\ \A i \in 1 .. Len(s) : t[i] = s[i]

\* Appending grows a sequence by one element.
LEMMA Grown ==
  ASSUME NEW s, IsSeq(s), NEW x
  PROVE  /\ IsSeq(Append(s, x)) /\ Extends(s, Append(s, x))
         /\ Len(Append(s, x)) = Len(s) + 1 /\ Append(s, x)[Len(s) + 1] = x
         /\ ToSet(Append(s, x)) = ToSet(s) \cup {x}
<1> DEFINE S == ToSet(s) \cup {x}
<1>1. s \in Seq(S) /\ x \in S
  BY DEF IsSeq
<1>2. /\ Append(s, x) \in Seq(S) /\ Len(Append(s, x)) = Len(s) + 1
      /\ Append(s, x)[Len(s) + 1] = x /\ \A i \in 1 .. Len(s) : Append(s, x)[i] = s[i]
      /\ Len(s) \in Nat /\ DOMAIN s = 1 .. Len(s)
  <2> HIDE DEF S
  <2> QED
    BY <1>1
<1>3. IsSeq(Append(s, x))
  BY <1>2, SeqOfIsSeq
<1>4. ToSet(Append(s, x)) = S
  <2> DEFINE t == Append(s, x)
  <2>1. DOMAIN t = 1 .. Len(s) + 1
    BY <1>2
  <2> HIDE DEF t
  <2>2. ToSet(t) \subseteq S
    BY <1>2, <2>1 DEF t, ToSet
  <2>3. S \subseteq ToSet(t)
    BY <1>2, <2>1 DEF t, ToSet
  <2> QED
    BY <2>2, <2>3 DEF t
<1> QED
  BY <1>2, <1>3, <1>4 DEF Extends

\* Growing twice is growing.
LEMMA ExtendsTrans ==
  ASSUME NEW s, NEW t, NEW u, IsSeq(s), IsSeq(t), IsSeq(u), Extends(s, t), Extends(t, u)
  PROVE  Extends(s, u)
<1>1. Len(s) \in Nat /\ Len(t) \in Nat /\ Len(u) \in Nat
  BY SeqIs
<1> QED
  BY <1>1 DEF Extends

\* A sequence that stays has grown by nothing.
LEMMA ExtendsSelf ==
  ASSUME NEW s, IsSeq(s)
  PROVE  Extends(s, s)
BY SeqIs DEF Extends

\* What has grown begins with what there was.
LEMMA PrefixOfExtended ==
  ASSUME NEW s, NEW t, IsSeq(s), IsSeq(t), Extends(s, t)
  PROVE  IsPrefix(s, t)
<1>1. s \in Seq(ToSet(s)) /\ t \in Seq(ToSet(t)) /\ Len(s) \in Nat /\ Len(t) \in Nat /\ Len(s) <= Len(t)
  BY SeqIs DEF IsSeq, Extends
<1>2. SubSeq(s, 1, Len(s)) = s
  BY <1>1
<1>3. /\ SubSeq(t, 1, Len(s)) \in Seq(ToSet(t)) /\ Len(SubSeq(t, 1, Len(s))) = Len(s)
      /\ \A i \in 1 .. Len(s) : SubSeq(t, 1, Len(s))[i] = t[i]
  BY <1>1
<1> DEFINE u == SubSeq(t, 1, Len(s))
<1>4. u = s
  <2> HIDE DEF u
  <2> QED
    BY <1>1, <1>3 DEF Extends, u
<1> QED
  BY <1>1, <1>2, <1>4 DEF IsPrefix

TableParts == {"texts", "map", "checked"}

\* A table: its map has indexes of texts, and if no text was added unchecked,
\* texts are distinct and the map has all of them, once it has been filled.
TableOK(t) ==
  /\ DOMAIN t = TableParts /\ IsSeq(t.texts)
  /\ \A s \in DOMAIN t.map : t.map[s] \in 0 .. Len(t.texts) - 1 /\ t.texts[t.map[s] + 1] = s
  /\ t.map # <<>> => Len(t.texts) >= MaxEntriesFlat
  /\ t.checked => Distinct(t.texts)
  /\ t.checked /\ t.map # <<>> => DOMAIN t.map = ToSet(t.texts)

\* Table u is t with text s at index i, new or not.
Puts(t, s, u, i) ==
  /\ TableOK(u) /\ Extends(t.texts, u.texts)
  /\ i \in 0 .. Len(u.texts) - 1 /\ u.texts[i + 1] = s

\* The table of a layer that has no texts (builder_impl.hpp:37-75).
LEMMA EmptyTableIs == TableOK(EmptyTable)
<1>1. IsSeq(<<>>) /\ DOMAIN <<>> = {}
  BY DEF IsSeq, ToSet
<1> QED
  BY <1>1 DEF TableOK, TableParts, EmptyTable, Distinct

\* populate_index() has an index for each text of the table (builder_impl.hpp:90-103).
LEMMA PopulateIs ==
  ASSUME NEW t, IsSeq(t.texts)
  PROVE  /\ DOMAIN Populate(t) = ToSet(t.texts)
         /\ \A s \in ToSet(t.texts) : /\ Populate(t)[s] \in 0 .. Len(t.texts) - 1
                                      /\ t.texts[Populate(t)[s] + 1] = s
<1> DEFINE N == Len(t.texts)
           At(s, i) == t.texts[i + 1] = s /\ \A j \in i + 2 .. N : t.texts[j] # s
<1>1. N \in Nat /\ DOMAIN t.texts = 1 .. N
  BY SeqIs
<1>2. ASSUME NEW s \in ToSet(t.texts) PROVE \E i \in 0 .. N - 1 : At(s, i)
  <2> DEFINE T == {i \in 1 .. N : t.texts[i] = s}
  <2>1. T \subseteq 1 .. N /\ T # {}
    BY <1>1 DEF ToSet
  <2>2. PICK x \in T : \A y \in T : y <= x
    BY <1>1, <2>1, GreatestNumber
  <2> HIDE DEF N
  <2>3. x \in 1 .. N /\ x - 1 \in 0 .. N - 1 /\ (x - 1) + 1 = x /\ (x - 1) + 2 = x + 1
    BY <1>1, <2>2
  <2>4. \A j \in x + 1 .. N : t.texts[j] # s
    BY <1>1, <2>2, <2>3
  <2>5. At(s, x - 1)
    BY <2>2, <2>3, <2>4
  <2> QED
    BY <2>3, <2>5
<1>3. Populate(t) = [s \in ToSet(t.texts) |-> CHOOSE i \in 0 .. N - 1 : At(s, i)]
  BY DEF Populate
<1>4. ASSUME NEW s \in ToSet(t.texts)
      PROVE  Populate(t)[s] \in 0 .. N - 1 /\ At(s, Populate(t)[s])
  <2>1. Populate(t)[s] = CHOOSE i \in 0 .. N - 1 : At(s, i)
    BY <1>3
  <2> HIDE DEF At, N
  <2> QED
    BY <1>2, <2>1
<1> QED
  <2>1. DOMAIN Populate(t) = ToSet(t.texts)
    BY <1>3
  <2> QED
    BY <1>4, <2>1

\* A text that is appended, whatever is known of the table.
LEMMA UncheckedIs ==
  ASSUME NEW t, TableOK(t), NEW s
  PROVE  Puts(t, s, [AddWithoutDupCheck(t, s).table EXCEPT !.checked = FALSE], Len(t.texts))
         /\ AddWithoutDupCheck(t, s).index = Len(t.texts)
<1> DEFINE u == [t EXCEPT !.texts = Append(t.texts, s)]
           w == [u EXCEPT !.checked = FALSE]
<1>1. AddWithoutDupCheck(t, s).table = u /\ AddWithoutDupCheck(t, s).index = Len(t.texts)
  BY DEF AddWithoutDupCheck
<1>2. DOMAIN t = TableParts
  BY DEF TableOK
<1>3. DOMAIN w = TableParts /\ w.texts = Append(t.texts, s) /\ w.map = t.map /\ w.checked = FALSE
  BY <1>2 DEF TableParts
<1>4. /\ IsSeq(w.texts) /\ Extends(t.texts, w.texts) /\ Len(w.texts) = Len(t.texts) + 1
      /\ w.texts[Len(t.texts) + 1] = s /\ Len(t.texts) \in Nat
  BY <1>3, Grown, SeqIs DEF TableOK
<1> HIDE DEF w
<1>5. \A x \in DOMAIN w.map : w.map[x] \in 0 .. Len(w.texts) - 1 /\ w.texts[w.map[x] + 1] = x
  BY <1>3, <1>4 DEF TableOK, Extends
<1>6. w.map # <<>> => Len(w.texts) >= MaxEntriesFlat
  BY <1>3, <1>4, TileBuilderAssumption DEF TableOK
<1>7. TableOK(w)
  BY <1>3, <1>4, <1>5, <1>6 DEF TableOK
<1>8. Len(t.texts) \in 0 .. Len(w.texts) - 1
  BY <1>4
<1>9. Puts(t, s, w, Len(t.texts))
  BY <1>4, <1>7, <1>8 DEF Puts
<1> QED
  BY <1>1, <1>9 DEF w

\* The table with its map, filled if it was not.
Filled(t) == IF t.map = <<>> THEN Populate(t) ELSE t.map

\* The map of a table gives indexes of its texts, and of all if all were added checked.
LEMMA MapFilled ==
  ASSUME NEW t, TableOK(t)
  PROVE  /\ \A s \in DOMAIN Filled(t) : /\ Filled(t)[s] \in 0 .. Len(t.texts) - 1
                                       /\ t.texts[Filled(t)[s] + 1] = s
         /\ t.checked => DOMAIN Filled(t) = ToSet(t.texts)
<1>1. CASE t.map = <<>>
  BY <1>1, PopulateIs DEF TableOK, Filled
<1>2. CASE t.map # <<>>
  BY <1>2 DEF TableOK, Filled
<1> QED
  BY <1>1, <1>2

\* find_in_table() and the map find the text or append it (builder_impl.hpp:104-149).
LEMMA AddTextIs ==
  ASSUME NEW t, TableOK(t), NEW s
  PROVE  Puts(t, s, AddText(t, s).table, AddText(t, s).index)
<1> DEFINE n == Len(t.texts)
           I == {i \in 1 .. n : t.texts[i] = s}
           hit == SelectInSeq(t.texts, LAMBDA x : x = s)
           m == Filled(t)
           u == [t EXCEPT !.texts = Append(t.texts, s)]
<1>1. /\ n \in Nat /\ DOMAIN t.texts = 1 .. n /\ IsSeq(t.texts) /\ DOMAIN t = TableParts
  BY SeqIs DEF TableOK
<1>2. hit = IF I # {} THEN Min(I) ELSE 0
  BY DEF SelectInSeq
<1>3. hit # 0 => hit \in 1 .. n /\ t.texts[hit] = s
  <2> SUFFICES ASSUME hit # 0 PROVE hit \in 1 .. n /\ t.texts[hit] = s
    OBVIOUS
  <2>1. I # {} /\ hit = CHOOSE x \in I : \A y \in I : x =< y
    BY <1>2 DEF Min
  <2>2. \E x \in I : \A y \in I : x =< y
    <3>1. I \subseteq Nat
      BY <1>1
    <3> QED
      BY <2>1, <3>1, LeastNumber
  <2> HIDE DEF hit, I
  <2>3. hit \in I
    BY <2>1, <2>2
  <2> QED
    BY <2>3 DEF I
<1>4. hit = 0 => s \notin ToSet(t.texts)
  <2> SUFFICES ASSUME hit = 0, s \in ToSet(t.texts) PROVE FALSE
    OBVIOUS
  <2>1. PICK i \in 1 .. n : t.texts[i] = s
    BY <1>1 DEF ToSet
  <2>2. I # {} /\ I \subseteq Nat /\ I \subseteq 1 .. n
    BY <1>1, <2>1
  <2>3. hit = CHOOSE x \in I : \A y \in I : x =< y
    BY <1>2, <2>2 DEF Min
  <2>4. \E x \in I : \A y \in I : x =< y
    BY <2>2, LeastNumber
  <2> HIDE DEF hit, I
  <2>5. hit \in I
    BY <2>3, <2>4
  <2> QED
    BY <1>1, <2>2, <2>5
<1>5. /\ IsSeq(Append(t.texts, s)) /\ Extends(t.texts, Append(t.texts, s))
      /\ Len(Append(t.texts, s)) = n + 1 /\ Append(t.texts, s)[n + 1] = s
      /\ ToSet(Append(t.texts, s)) = ToSet(t.texts) \cup {s}
  BY <1>1, Grown
<1>6. s \notin ToSet(t.texts) /\ Distinct(t.texts) => Distinct(Append(t.texts, s))
  <2> DEFINE a == Append(t.texts, s)
  <2> SUFFICES ASSUME s \notin ToSet(t.texts), Distinct(t.texts),
                      NEW i \in DOMAIN a, NEW j \in DOMAIN a, a[i] = a[j]
               PROVE  i = j
    BY DEF Distinct
  <2> HIDE DEF a, n
  <2>1. DOMAIN a = 1 .. n + 1 /\ a[n + 1] = s
    BY <1>5, SeqIs DEF a
  <2>2. \A k \in 1 .. n : a[k] = t.texts[k] /\ a[k] # s
    BY <1>1, <1>5, SeqIs DEF a, n, Extends
  <2>3. i \in 1 .. n \/ i = n + 1
    BY <1>1, <2>1
  <2>4. j \in 1 .. n \/ j = n + 1
    BY <1>1, <2>1
  <2> QED
    BY <1>1, <2>1, <2>2, <2>3, <2>4 DEF Distinct
<1>7. CASE n < MaxEntriesFlat /\ hit # 0
  <2>1. AddText(t, s).table = t /\ AddText(t, s).index = hit - 1
    BY <1>7 DEF AddText
  <2> HIDE DEF hit
  <2>2. hit - 1 \in 0 .. n - 1 /\ (hit - 1) + 1 = hit
    BY <1>1, <1>3, <1>7
  <2> QED
    BY <1>1, <1>3, <1>7, <2>1, <2>2, ExtendsSelf DEF Puts
<1>8. CASE n < MaxEntriesFlat /\ hit = 0
  <2>1. AddText(t, s).table = u /\ AddText(t, s).index = n
    BY <1>8 DEF AddText, AddWithoutDupCheck
  <2>2. t.map = <<>>
    BY <1>1, <1>8, TileBuilderAssumption DEF TableOK
  <2>3. DOMAIN u = TableParts /\ u.texts = Append(t.texts, s) /\ u.map = <<>> /\ u.checked = t.checked
    BY <1>1, <2>2 DEF TableParts
  <2>4. t.checked => Distinct(u.texts)
    BY <1>4, <1>6, <1>8, <2>3 DEF TableOK
  <2> HIDE DEF u
  <2>5. DOMAIN u.map = {}
    BY <2>3
  <2>6. TableOK(u)
    BY <1>5, <2>3, <2>4, <2>5 DEF TableOK
  <2>7. n \in 0 .. Len(u.texts) - 1
    BY <1>1, <1>5, <2>3
  <2> QED
    BY <1>5, <2>1, <2>3, <2>6, <2>7 DEF Puts
<1>9. CASE n >= MaxEntriesFlat /\ s \in DOMAIN m
  <2> DEFINE w == [t EXCEPT !.map = m]
  <2>1. AddText(t, s).table = w /\ AddText(t, s).index = m[s]
    BY <1>1, <1>9, TileBuilderAssumption DEF AddText, Filled
  <2>2. DOMAIN w = TableParts /\ w.texts = t.texts /\ w.map = m /\ w.checked = t.checked
    BY <1>1 DEF TableParts
  <2> HIDE DEF m, w
  <2>3. /\ \A x \in DOMAIN m : m[x] \in 0 .. n - 1 /\ t.texts[m[x] + 1] = x
        /\ t.checked => DOMAIN m = ToSet(t.texts)
    BY MapFilled DEF m
  <2>4. TableOK(w)
    BY <1>9, <2>2, <2>3 DEF TableOK
  <2> QED
    BY <1>1, <1>9, <2>1, <2>2, <2>3, <2>4, ExtendsSelf DEF Puts
<1>10. CASE n >= MaxEntriesFlat /\ s \notin DOMAIN m
  <2> DEFINE more == Emplace(m, s, n)
             v == [t EXCEPT !.map = more]
             w == [v EXCEPT !.texts = Append(t.texts, s)]
  <2>1. AddText(t, s).table = w /\ AddText(t, s).index = n
    <3>1. AddText(t, s) = AddWithoutDupCheck(v, s)
      BY <1>1, <1>10, TileBuilderAssumption DEF AddText, Filled
    <3>2. v.texts = t.texts
      BY <1>1 DEF TableParts
    <3> HIDE DEF v
    <3> QED
      BY <3>1, <3>2 DEF AddWithoutDupCheck
  <2>2. /\ DOMAIN w = TableParts /\ w.texts = Append(t.texts, s) /\ w.map = more
        /\ w.checked = t.checked
    BY <1>1 DEF TableParts
  <2> HIDE DEF m
  <2>3. /\ DOMAIN more = DOMAIN m \cup {s} /\ more[s] = n
        /\ \A x \in DOMAIN m : more[x] = m[x]
    BY <1>10 DEF Emplace
  <2> HIDE DEF more, w
  <2>4. /\ \A x \in DOMAIN m : m[x] \in 0 .. n - 1 /\ t.texts[m[x] + 1] = x
        /\ t.checked => DOMAIN m = ToSet(t.texts)
    BY MapFilled DEF m
  <2>5. \A x \in DOMAIN more : more[x] \in 0 .. n /\ w.texts[more[x] + 1] = x
    BY <1>1, <1>5, <2>2, <2>3, <2>4 DEF Extends
  <2>6. t.checked => DOMAIN more = ToSet(w.texts) /\ Distinct(w.texts)
    BY <1>5, <1>6, <1>10, <2>2, <2>3, <2>4 DEF TableOK
  <2>7. TableOK(w)
    BY <1>1, <1>5, <1>10, <2>2, <2>5, <2>6, TileBuilderAssumption DEF TableOK
  <2>8. n \in 0 .. Len(w.texts) - 1
    BY <1>1, <1>5, <2>2
  <2> QED
    BY <1>5, <2>1, <2>2, <2>7, <2>8 DEF Puts
<1> QED
  <2>1. n < MaxEntriesFlat \/ n >= MaxEntriesFlat
    BY <1>1, TileBuilderAssumption
  <2> QED
    BY <1>7, <1>8, <1>9, <1>10, <2>1

-----------------------------------------------------------------------------
(* Caches of indexes, and the tags of a feature.                           *)

\* The indexes of a cache are those of the texts that its keys stand for.
CacheOK(c, texts, f) ==
  \A x \in DOMAIN c : c[x] \in 0 .. Len(texts) - 1 /\ texts[c[x] + 1] = f[x]

\* What is remembered of a table stays right when the table grows.
LEMMA CacheKeeps ==
  ASSUME NEW c, NEW s, NEW t, NEW f, IsSeq(s), IsSeq(t), Extends(s, t), CacheOK(c, s, f)
  PROVE  CacheOK(c, t, f)
<1>1. Len(s) \in Nat /\ Len(t) \in Nat
  BY SeqIs
<1> QED
  BY <1>1 DEF CacheOK, Extends

\* An index with a cache returns the index of the text (index.hpp:90-125).
LEMMA AddCachedIs ==
  ASSUME NEW t, TableOK(t), NEW c, NEW f, CacheOK(c, t.texts, f), NEW x, NEW s, s = f[x]
  PROVE  /\ Puts(t, s, AddCached(c, x, t, s).table, AddCached(c, x, t, s).index)
         /\ CacheOK(AddCached(c, x, t, s).cache, AddCached(c, x, t, s).table.texts, f)
<1>1. IsSeq(t.texts) /\ Len(t.texts) \in Nat
  BY SeqIs DEF TableOK
<1>2. CASE x \in DOMAIN c
  <2>1. /\ AddCached(c, x, t, s).table = t /\ AddCached(c, x, t, s).index = c[x]
        /\ AddCached(c, x, t, s).cache = c
    BY <1>2 DEF AddCached
  <2>2. c[x] \in 0 .. Len(t.texts) - 1 /\ t.texts[c[x] + 1] = s
    BY <1>2 DEF CacheOK
  <2> QED
    BY <1>1, <2>1, <2>2, ExtendsSelf DEF Puts
<1>3. CASE x \notin DOMAIN c
  <2> DEFINE u == [AddWithoutDupCheck(t, s).table EXCEPT !.checked = FALSE]
             n == Len(t.texts)
             d == Emplace(c, x, n)
  <2>1. Puts(t, s, u, n) /\ AddWithoutDupCheck(t, s).index = n
    BY UncheckedIs
  <2>2. /\ AddCached(c, x, t, s).table = u /\ AddCached(c, x, t, s).index = n
        /\ AddCached(c, x, t, s).cache = d
    <3> HIDE DEF d, u, n
    <3> QED
      BY <1>3, <2>1 DEF AddCached, d, u
  <2>3. DOMAIN d = DOMAIN c \cup {x} /\ d[x] = n /\ \A y \in DOMAIN c : d[y] = c[y]
    BY <1>3 DEF Emplace
  <2> HIDE DEF u, d
  <2>4. CacheOK(c, u.texts, f)
    BY <1>1, <2>1, CacheKeeps DEF Puts, TableOK
  <2>5. CacheOK(d, u.texts, f)
    BY <2>1, <2>3, <2>4 DEF CacheOK, Puts
  <2> QED
    BY <2>1, <2>2, <2>5
<1> QED
  BY <1>2, <1>3

\* The tags ts are indexes of the keys and values of the properties ps.
TagsOK(ts, ps, ks, vs) ==
  /\ IsSeq(ps) /\ ts \in Seq(Nat) /\ Len(ts) = 2 * Len(ps)
  /\ \A i \in 1 .. Len(ps) :
       /\ ts[2 * i - 1] < Len(ks) /\ ks[ts[2 * i - 1] + 1] = ps[i][1]
       /\ ts[2 * i] < Len(vs) /\ vs[ts[2 * i] + 1] = ps[i][2]

\* Tags keep their meaning when tables grow.
LEMMA TagsKeep ==
  ASSUME NEW ts, NEW ps, NEW ks, NEW vs, NEW kt, NEW vt,
         IsSeq(ks), IsSeq(kt), IsSeq(vs), IsSeq(vt), Extends(ks, kt), Extends(vs, vt),
         TagsOK(ts, ps, ks, vs)
  PROVE  TagsOK(ts, ps, kt, vt)
<1>1. Len(ks) \in Nat /\ Len(kt) \in Nat /\ Len(vs) \in Nat /\ Len(vt) \in Nat
  BY SeqIs
<1>2. Len(ps) \in Nat
  BY SeqIs DEF TagsOK
<1>3. \A i \in 1 .. Len(ps) : ts[2 * i - 1] \in Nat /\ ts[2 * i] \in Nat
  BY <1>2 DEF TagsOK
<1>4. ASSUME NEW k \in Nat
      PROVE  /\ k < Len(ks) => k < Len(kt) /\ kt[k + 1] = ks[k + 1]
             /\ k < Len(vs) => k < Len(vt) /\ vt[k + 1] = vs[k + 1]
  <2>1. k < Len(ks) => k + 1 \in 1 .. Len(ks) /\ k < Len(kt)
    BY <1>1 DEF Extends
  <2>2. k < Len(vs) => k + 1 \in 1 .. Len(vs) /\ k < Len(vt)
    BY <1>1 DEF Extends
  <2> QED
    BY <2>1, <2>2 DEF Extends
<1> QED
  BY <1>3, <1>4 DEF TagsOK

\* A pair of indexes is one more property.
LEMMA TagsGrow ==
  ASSUME NEW ts, NEW ps, NEW ks, NEW vs, IsSeq(ks), IsSeq(vs), TagsOK(ts, ps, ks, vs),
         NEW ki \in Nat, NEW vi \in Nat, NEW p,
         ki < Len(ks), ks[ki + 1] = p[1], vi < Len(vs), vs[vi + 1] = p[2]
  PROVE  TagsOK(ts \o <<ki, vi>>, Append(ps, p), ks, vs)
<1> DEFINE n == Len(ps)
           q == Append(ps, p)
           u == ts \o <<ki, vi>>
<1>1. n \in Nat /\ ts \in Seq(Nat) /\ Len(ts) = 2 * n
  BY SeqIs DEF TagsOK
<1>2. IsSeq(q) /\ Len(q) = n + 1 /\ q[n + 1] = p /\ \A i \in 1 .. n : q[i] = ps[i]
  BY Grown DEF TagsOK, Extends
<1>3. /\ u \in Seq(Nat) /\ Len(u) = 2 * n + 2 /\ u[2 * n + 1] = ki /\ u[2 * n + 2] = vi
      /\ \A j \in 1 .. 2 * n : u[j] = ts[j]
  <2>1. <<ki, vi>> \in Seq(Nat) /\ Len(<<ki, vi>>) = 2
    OBVIOUS
  <2> HIDE DEF n
  <2> QED
    BY <1>1, <2>1
<1> HIDE DEF n, q, u
<1>4. ASSUME NEW i \in 1 .. n + 1
      PROVE  /\ u[2 * i - 1] < Len(ks) /\ ks[u[2 * i - 1] + 1] = q[i][1]
             /\ u[2 * i] < Len(vs) /\ vs[u[2 * i] + 1] = q[i][2]
  <2>1. CASE i = n + 1
    <3>1. 2 * i - 1 = 2 * n + 1 /\ 2 * i = 2 * n + 2
      BY <1>1, <2>1
    <3> QED
      BY <1>2, <1>3, <2>1, <3>1
  <2>2. CASE i # n + 1
    <3>1. i \in 1 .. n /\ 2 * i - 1 \in 1 .. 2 * n /\ 2 * i \in 1 .. 2 * n
      BY <1>1, <2>2
    <3>2. u[2 * i - 1] = ts[2 * i - 1] /\ u[2 * i] = ts[2 * i] /\ q[i] = ps[i]
      BY <1>2, <1>3, <3>1
    <3> QED
      BY <3>1, <3>2 DEF TagsOK, n
  <2> QED
    BY <2>1, <2>2
<1>5. Len(u) = 2 * Len(q)
  BY <1>1, <1>2, <1>3
<1>6. TagsOK(u, q, ks, vs)
  BY <1>2, <1>3, <1>4, <1>5 DEF TagsOK
<1> QED
  BY <1>6 DEF u, q, n

\* Tags of two lists of properties, one behind the other.
LEMMA TagsJoin ==
  ASSUME NEW ks, NEW vs, IsSeq(ks), IsSeq(vs),
         NEW ts, NEW ps, TagsOK(ts, ps, ks, vs), NEW us, NEW qs, TagsOK(us, qs, ks, vs)
  PROVE  TagsOK(ts \o us, ps \o qs, ks, vs)
<1> DEFINE n == Len(ps)
           m == Len(qs)
           q == ps \o qs
           u == ts \o us
<1>1. /\ n \in Nat /\ m \in Nat /\ ts \in Seq(Nat) /\ Len(ts) = 2 * n /\ us \in Seq(Nat)
      /\ Len(us) = 2 * m /\ IsSeq(ps) /\ IsSeq(qs)
  BY SeqIs DEF TagsOK
<1>2. /\ IsSeq(q) /\ Len(q) = n + m /\ \A i \in 1 .. n : q[i] = ps[i]
      /\ \A i \in n + 1 .. n + m : q[i] = qs[i - n]
  <2> DEFINE S == ToSet(ps) \cup ToSet(qs)
  <2>1. ps \in Seq(S) /\ qs \in Seq(S)
    BY <1>1 DEF IsSeq
  <2> HIDE DEF S
  <2>2. q \in Seq(S)
    BY <2>1
  <2>3. IsSeq(q)
    BY <2>2, SeqOfIsSeq
  <2> HIDE DEF n, m
  <2>4. /\ Len(q) = n + m /\ \A i \in 1 .. n : q[i] = ps[i]
        /\ \A i \in n + 1 .. n + m : q[i] = qs[i - n]
    BY <1>1, <2>1 DEF n, m
  <2> QED
    BY <2>3, <2>4
<1>3. /\ u \in Seq(Nat) /\ Len(u) = 2 * n + 2 * m /\ \A j \in 1 .. 2 * n : u[j] = ts[j]
      /\ \A j \in 2 * n + 1 .. 2 * n + 2 * m : u[j] = us[j - 2 * n]
  <2> HIDE DEF n, m
  <2> DEFINE a == Len(ts)
             b == Len(us)
  <2>1. u \in Seq(Nat) /\ Len(u) = a + b /\ \A j \in 1 .. a : u[j] = ts[j]
    <3>1. a \in Nat /\ b \in Nat
      BY <1>1
    <3>2. u \in Seq(Nat) /\ Len(u) = a + b
      BY <1>1
    <3>3. ASSUME NEW j \in 1 .. a PROVE u[j] = ts[j]
      <4>1. j \in 1 .. a + b /\ j <= a
        BY <3>1
      <4> QED
        BY <1>1, <4>1, ConcatProperties
    <3> QED
      BY <3>2, <3>3
  <2>3. ASSUME NEW j \in a + 1 .. a + b PROVE u[j] = us[j - a]
    <3>1. j \in 1 .. a + b /\ ~(j <= a) /\ a \in Nat /\ b \in Nat
      BY <1>1
    <3> QED
      BY <1>1, <3>1, ConcatProperties
  <2>2. a = 2 * n /\ b = 2 * m
    BY <1>1
  <2> HIDE DEF a, b, u
  <2> QED
    BY <2>1, <2>2, <2>3
<1> HIDE DEF n, m, q, u
<1>4. ASSUME NEW i \in 1 .. n + m
      PROVE  /\ u[2 * i - 1] < Len(ks) /\ ks[u[2 * i - 1] + 1] = q[i][1]
             /\ u[2 * i] < Len(vs) /\ vs[u[2 * i] + 1] = q[i][2]
  <2>1. CASE i > n
    <3> DEFINE k == i - n
    <3>1. k \in 1 .. m /\ 2 * k - 1 = (2 * i - 1) - 2 * n /\ 2 * k = 2 * i - 2 * n
          /\ 2 * i - 1 \in 2 * n + 1 .. 2 * n + 2 * m /\ 2 * i \in 2 * n + 1 .. 2 * n + 2 * m
          /\ i \in n + 1 .. n + m
      BY <1>1, <2>1
    <3>2. u[2 * i - 1] = us[2 * k - 1] /\ u[2 * i] = us[2 * k] /\ q[i] = qs[k]
      BY <1>2, <1>3, <3>1
    <3> HIDE DEF k
    <3> QED
      BY <3>1, <3>2 DEF TagsOK, m
  <2>2. CASE i <= n
    <3>1. i \in 1 .. n /\ 2 * i - 1 \in 1 .. 2 * n /\ 2 * i \in 1 .. 2 * n
      BY <1>1, <2>2
    <3>2. u[2 * i - 1] = ts[2 * i - 1] /\ u[2 * i] = ts[2 * i] /\ q[i] = ps[i]
      BY <1>2, <1>3, <3>1
    <3> QED
      BY <3>1, <3>2 DEF TagsOK, n
  <2> QED
    BY <1>1, <2>1, <2>2
<1>5. Len(u) = 2 * Len(q)
  BY <1>1, <1>2, <1>3
<1>6. TagsOK(u, q, ks, vs)
  BY <1>2, <1>3, <1>4, <1>5 DEF TagsOK
<1> QED
  BY <1>6 DEF u, q, n, m

NoProperties == [error |-> "none", properties |-> <<>>]
\* A feature without properties.
LEMMA NoTagsAreOK ==
  ASSUME NEW ks, NEW vs
  PROVE  TagsOK(<<>>, <<>>, ks, vs)
<1>1. IsSeq(<<>>)
  BY DEF IsSeq, ToSet
<1>2. <<>> \in Seq(Nat) /\ Len(<<>>) = 0
  OBVIOUS
<1> QED
  BY <1>1, <1>2 DEF TagsOK

-----------------------------------------------------------------------------
(* Properties that are read, and texts that are added one by one.          *)

\* One more element of the beginning of a sequence.
LEMMA OneMore ==
  ASSUME NEW s, IsSeq(s), NEW n \in Nat, n + 1 <= Len(s)
  PROVE  SubSeq(s, 1, n + 1) = Append(SubSeq(s, 1, n), s[n + 1])
<1>1. s \in Seq(ToSet(s)) /\ Len(s) \in Nat
  BY SeqIs DEF IsSeq
<1> QED
  BY <1>1

\* An index that is no error names a text of the table (layer.hpp:285-324).
LEMMA PropertyIs ==
  ASSUME NEW l, TablesInv(l), NEW ki \in Nat, NEW vi \in Nat, Property(l, ki, vi).error = "none"
  PROVE  /\ Property(l, ki, vi).key = All(l.data, "keys")[ki + 1]
         /\ Property(l, ki, vi).value = All(l.data, "values")[vi + 1]
<1> DEFINE k == KeyTable(l)
           m == ValueTable(k)
<1>1. TablesInv(k) /\ Unfilled(k) = Unfilled(l)
  BY TableKeeps
<1>2. TablesInv(m) /\ Unfilled(m) = Unfilled(k)
  <2> HIDE DEF k
  <2> QED
    BY <1>1, TableKeeps
<1>3. k.data = l.data /\ m.data = l.data
  BY <1>1, <1>2 DEF Unfilled
<1>4. /\ ~(ki >= Len(k.keys)) /\ ~(vi >= Len(m.values))
      /\ Property(l, ki, vi).key = m.keys[ki + 1] /\ Property(l, ki, vi).value = m.values[vi + 1]
  <2> DEFINE bad == [error |-> "out_of_range", key |-> "", value |-> <<>>]
             good == [error |-> "none", key |-> m.keys[ki + 1], value |-> m.values[vi + 1]]
             out == ki >= Len(k.keys) \/ vi >= Len(m.values)
  <2>1. Property(l, ki, vi) = IF out THEN bad ELSE good
    BY DEF Property
  <2>2. bad.error # "none" /\ good.key = m.keys[ki + 1] /\ good.value = m.values[vi + 1]
    OBVIOUS
  <2> HIDE DEF bad, good, k, m, out
  <2>3. ~out /\ Property(l, ki, vi) = good
    BY <2>1, <2>2
  <2> QED
    BY <2>2, <2>3 DEF out
<1> HIDE DEF k, m
<1>5. k.keys # <<>>
  <2>1. Len(<<>>) = 0
    OBVIOUS
  <2> QED
    BY <1>4, <2>1
<1>6. m.values # <<>>
  <2>1. Len(<<>>) = 0
    OBVIOUS
  <2> QED
    BY <1>4, <2>1
<1>7. m = k
  BY <1>1, <1>5 DEF TablesInv, m, ValueTable
<1> QED
  BY <1>2, <1>3, <1>4, <1>5, <1>6, <1>7 DEF TablesInv

\* Without an exception, r has the key and the value of each of n pairs.
ReadsPairs(l, tags, n, r) ==
  /\ IsSeq(r.properties)
  /\ r.error = "none" =>
       /\ Len(r.properties) = n
       /\ \A i \in 1 .. n :
            LET p == Property(l, tags[2 * i - 1], tags[2 * i])
            IN p.error = "none" /\ r.properties[i] = <<p.key, p.value>>

\* for_each_property, after each number of pairs (layer.hpp:462-509).
LEMMA PropertiesUnfold ==
  ASSUME NEW l, NEW tags \in Seq(Nat)
  PROVE  \A n \in 0 .. Len(tags) \div 2 : ReadsPairs(l, tags, n, PropertiesAfter(l, tags)[n])
<1> DEFINE N == Len(tags) \div 2
           p(n) == Property(l, tags[2 * n - 1], tags[2 * n])
           V == {<<p(n).key, p(n).value>> : n \in 1 .. N}
           E == {"none"} \cup {p(n).error : n \in 1 .. N}
           S == [error : E, properties : Seq(V)]
           step(n, x) == TakeProperty(l, x, tags[2 * n - 1], tags[2 * n])
           G == [q \in (1 .. N) \X S |-> step(q[1], q[2])]
<1>1. N \in Nat
  OBVIOUS
<1>2. NoProperties \in S
  <2>1. "none" \in E
    OBVIOUS
  <2> HIDE DEF V, N, E
  <2> QED
    BY <2>1 DEF NoProperties
<1>3. ASSUME NEW n \in 1 .. N, NEW x \in S
      PROVE  /\ step(n, x) \in S
             /\ x.error # "none" => step(n, x) = x
             /\ x.error = "none" /\ p(n).error # "none" => step(n, x).error # "none"
             /\ x.error = "none" /\ p(n).error = "none" =>
                  step(n, x).properties = Append(x.properties, <<p(n).key, p(n).value>>)
  <2> DEFINE e == p(n).error
             v == <<p(n).key, p(n).value>>
  <2>1. v \in V /\ e \in E
    OBVIOUS
  <2>2. step(n, x) = IF x.error # "none" THEN x
                     ELSE IF e # "none" THEN [x EXCEPT !.error = e]
                     ELSE [x EXCEPT !.properties = Append(x.properties, v)]
    BY DEF TakeProperty
  <2> HIDE DEF e, v, V, E, N, step, p
  <2>4. [x EXCEPT !.error = e] \in S /\ [x EXCEPT !.error = e].error = e
    BY <2>1
  <2>5. /\ [x EXCEPT !.properties = Append(x.properties, v)] \in S
        /\ [x EXCEPT !.properties = Append(x.properties, v)].properties = Append(x.properties, v)
    <3>1. x.properties \in Seq(V)
      OBVIOUS
    <3>2. Append(x.properties, v) \in Seq(V)
      BY <2>1, <3>1
    <3> QED
      BY <3>2
  <2>3. /\ step(n, x) \in S
        /\ x.error # "none" => step(n, x) = x
        /\ x.error = "none" /\ e # "none" => step(n, x).error # "none"
        /\ x.error = "none" /\ e = "none" => step(n, x).properties = Append(x.properties, v)
    <3> HIDE DEF S
    <3> QED
      BY <2>2, <2>4, <2>5
  <2> QED
    BY <2>3 DEF e, v
<1>4. PICK g : IsRun(g, N, S, NoProperties, G)
  <2>1. \A n \in 1 .. N : \A x \in S : step(n, x) \in S /\ G[<<n, x>>] = step(n, x)
    <3> HIDE DEF step, S, N
    <3> QED
      BY <1>3
  <2>2. StepsStay(N, S, G)
    BY <2>1, Zenon DEF StepsStay
  <2> HIDE DEF G, N, S
  <2> QED
    BY <1>1, <1>2, <2>2, Recursion, Zenon
<1>5. ASSUME NEW n \in 1 .. N PROVE g[n] = step(n, g[n - 1])
  <2> HIDE DEF S, step, N
  <2>1. g[n - 1] \in S
    BY <1>1, <1>4 DEF IsRun
  <2>2. g[n] = G[<<n, g[n - 1]>>]
    BY <1>4 DEF IsRun
  <2> QED
    BY <2>1, <2>2
<1> DEFINE first(f) == f = [n \in 0 .. N |-> IF n = 0 THEN NoProperties ELSE step(n, f[n - 1])]
           J == PropertiesAfter(l, tags)
<1>6. first(g)
  <2> HIDE DEF step, G, S, N
  <2> QED
    BY <1>4, <1>5 DEF IsRun
<1>7. first(J)
  <2>1. \E f : first(f)
    BY <1>6
  <2> QED
    BY <2>1 DEF PropertiesAfter, NoProperties
<1>8. J[0] = NoProperties /\ \A n \in 1 .. N : J[n] = step(n, J[n - 1])
  <2> HIDE DEF step, J, N
  <2> QED
    BY <1>1, <1>7
<1> DEFINE Good(n, r) == r.error = "none" =>
             /\ Len(r.properties) = n
             /\ \A i \in 1 .. n : p(i).error = "none" /\ r.properties[i] = <<p(i).key, p(i).value>>
           Q == {n \in Nat : n <= N => J[n] \in S /\ Good(n, J[n])}
<1>9. 0 \in Q
  <2>1. Good(0, NoProperties)
    BY DEF NoProperties
  <2> HIDE DEF J, Good, S, N
  <2> QED
    BY <1>1, <1>2, <1>8, <2>1
<1>10. ASSUME NEW n \in Nat, n \in Q PROVE n + 1 \in Q
  <2> HIDE DEF J, p, step
  <2> SUFFICES ASSUME n + 1 <= N PROVE J[n + 1] \in S /\ Good(n + 1, J[n + 1])
    <3> HIDE DEF S, Good
    <3> QED
      OBVIOUS
  <2>1. n + 1 \in 1 .. N /\ (n + 1) - 1 = n /\ n <= N
    BY <1>1
  <2>2. J[n] \in S /\ Good(n, J[n])
    BY <1>10, <2>1
  <2>3. J[n + 1] = step(n + 1, J[n])
    BY <1>8, <2>1
  <2>4. J[n + 1] \in S
    <3> HIDE DEF S, N
    <3> QED
      BY <1>3, <2>1, <2>2, <2>3
  <2>5. Good(n + 1, J[n + 1])
    <3> SUFFICES ASSUME J[n + 1].error = "none"
                 PROVE  /\ Len(J[n + 1].properties) = n + 1
                        /\ \A i \in 1 .. n + 1 : /\ p(i).error = "none"
                                                 /\ J[n + 1].properties[i] = <<p(i).key, p(i).value>>
      OBVIOUS
    <3>1. J[n].error = "none" /\ p(n + 1).error = "none"
      <4> HIDE DEF S, N, Good
      <4> QED
        BY <1>3, <2>1, <2>2, <2>3
    <3> DEFINE v == <<p(n + 1).key, p(n + 1).value>>
               old == J[n].properties
    <3>2. J[n + 1].properties = Append(old, v)
      <4> HIDE DEF S, N, Good
      <4> QED
        BY <1>3, <2>1, <2>2, <2>3, <3>1
    <3>3. /\ old \in Seq(V) /\ Len(old) = n
          /\ \A i \in 1 .. n : p(i).error = "none" /\ old[i] = <<p(i).key, p(i).value>>
      <4> HIDE DEF V, N
      <4> QED
        BY <2>2, <3>1
    <3>4. v \in V
      <4> HIDE DEF N
      <4> QED
        BY <2>1
    <3> HIDE DEF V
    <3>5. /\ Len(Append(old, v)) = n + 1 /\ Append(old, v)[n + 1] = v
          /\ \A i \in 1 .. n : Append(old, v)[i] = old[i]
      <4> HIDE DEF old, v
      <4> QED
        BY <3>3, <3>4
    <3>6. \A i \in 1 .. n + 1 : i \in 1 .. n \/ i = n + 1
      OBVIOUS
    <3> HIDE DEF old
    <3> QED
      BY <3>1, <3>2, <3>3, <3>5, <3>6
  <2> QED
    BY <2>4, <2>5
<1>11. \A n \in Nat : n \in Q
  <2> HIDE DEF Q
  <2> QED
    BY <1>9, <1>10, NatSetInduction
<1>12. ASSUME NEW n \in 0 .. N
       PROVE  IsSeq(J[n].properties) /\ Good(n, J[n])
  <2>1. J[n] \in S /\ Good(n, J[n])
    <3> HIDE DEF J, S, N, Good
    <3> QED
      BY <1>1, <1>11
  <2> HIDE DEF J, V, Good
  <2>2. J[n].properties \in Seq(V)
    <3> HIDE DEF N
    <3> QED
      BY <2>1
  <2>3. IsSeq(J[n].properties)
    BY <2>2, SeqOfIsSeq
  <2> QED
    BY <2>1, <2>2, <2>3
<1> QED
  <2> HIDE DEF J
  <2> QED
    BY <1>12 DEF J, ReadsPairs

\* for_each_property, at the end (layer.hpp:462-509).
LEMMA ForEachIs ==
  ASSUME NEW l, NEW tags \in Seq(Nat)
  PROVE  ReadsPairs(l, tags, Len(tags) \div 2, ForEachProperty(l, tags))
<1>1. Len(tags) \div 2 \in 0 .. Len(tags) \div 2
  OBVIOUS
<1> QED
  BY <1>1, PropertiesUnfold DEF ForEachProperty

-----------------------------------------------------------------------------
(* Texts that are added one after the other.                               *)

Untouched(l) == [keys |-> layers[l].keys, values |-> layers[l].values, tags |-> <<>>]
UntouchedWithCache(l) ==
  [keys |-> layers[l].keys, values |-> layers[l].values, tags |-> <<>>, cache |-> caches[l]]

\* copy_properties, after each property (builder.hpp:1282-1294).
LEMMA TextsUnfold ==
  ASSUME NEW l, NEW ps, Len(ps) \in Nat
  PROVE  /\ TextsAfter(l, ps)[0] = Untouched(l)
         /\ \A n \in 1 .. Len(ps) : TextsAfter(l, ps)[n] = AddBoth(TextsAfter(l, ps)[n - 1], ps[n])
<1> DEFINE N == Len(ps)
           step(n, x) == AddBoth(x, ps[n])
           Ok(m, g) == g = [n \in 0 .. m |-> IF n = 0 THEN Untouched(l) ELSE step(n, g[n - 1])]
           Q == {m \in Nat : \E g : Ok(m, g)}
<1>1. N \in Nat
  OBVIOUS
<1>2. 0 \in Q
  <2> DEFINE g == [n \in 0 .. 0 |-> Untouched(l)]
  <2> HIDE DEF step
  <2>1. \A n \in 0 .. 0 : n = 0
    OBVIOUS
  <2>2. Ok(0, g)
    BY <2>1
  <2> QED
    BY <2>2
<1>3. ASSUME NEW m \in Nat, m \in Q PROVE m + 1 \in Q
  <2> HIDE DEF step
  <2>1. PICK g : Ok(m, g)
    BY <1>3
  <2> DEFINE h == [n \in 0 .. m + 1 |-> IF n = m + 1 THEN step(m + 1, g[m]) ELSE g[n]]
  <2>2. \A n \in 0 .. m : g[n] = IF n = 0 THEN Untouched(l) ELSE step(n, g[n - 1])
    BY <2>1
  <2>3. h[m + 1] = step(m + 1, g[m]) /\ \A n \in 0 .. m : h[n] = g[n]
    OBVIOUS
  <2>4. h = [n \in 0 .. m + 1 |-> h[n]]
    OBVIOUS
  <2> HIDE DEF h
  <2>5. ASSUME NEW n \in 0 .. m + 1
        PROVE  h[n] = IF n = 0 THEN Untouched(l) ELSE step(n, h[n - 1])
    <3>1. CASE n = m + 1
      <4>1. n # 0 /\ n - 1 = m /\ h[n - 1] = g[m]
        BY <2>3, <3>1
      <4> QED
        BY <2>3, <3>1, <4>1
    <3>2. CASE n = 0
      BY <2>2, <2>3, <3>2
    <3>3. CASE n \in 1 .. m
      <4>1. n \in 0 .. m /\ n - 1 \in 0 .. m /\ n # 0
        BY <3>3
      <4> QED
        BY <2>2, <2>3, <4>1
    <3> QED
      BY <3>1, <3>2, <3>3
  <2>6. Ok(m + 1, h)
    BY <2>4, <2>5
  <2> QED
    BY <2>6
<1>4. \E g : Ok(N, g)
  <2>1. N \in Q
    <3> HIDE DEF Q, N
    <3> QED
      BY <1>1, <1>2, <1>3, NatSetInduction
  <2> HIDE DEF Ok
  <2> QED
    BY <2>1
<1> DEFINE J == TextsAfter(l, ps)
<1>5. Ok(N, J)
  BY <1>4 DEF TextsAfter, Untouched
<1>6. J[0] = Untouched(l) /\ \A n \in 1 .. N : J[n] = step(n, J[n - 1])
  <2> HIDE DEF step, J, N
  <2> QED
    BY <1>1, <1>5
<1> QED
  BY <1>6

\* copy_properties with a mapper, after each pair (builder.hpp:488-506).
LEMMA MappedUnfold ==
  ASSUME NEW l, NEW tags, Len(tags) \in Nat
  PROVE  /\ MappedAfter(l, tags)[0] = UntouchedWithCache(l)
         /\ \A n \in 1 .. Len(tags) \div 2 : MappedAfter(l, tags)[n] =
              AddMapped(MappedAfter(l, tags)[n - 1], tags[2 * n - 1], tags[2 * n])
<1> DEFINE N == Len(tags) \div 2
           step(n, x) == AddMapped(x, tags[2 * n - 1], tags[2 * n])
           Ok(m, g) == g = [n \in 0 .. m |-> IF n = 0 THEN UntouchedWithCache(l) ELSE step(n, g[n - 1])]
           Q == {m \in Nat : \E g : Ok(m, g)}
<1>1. N \in Nat
  OBVIOUS
<1>2. 0 \in Q
  <2> DEFINE g == [n \in 0 .. 0 |-> UntouchedWithCache(l)]
  <2> HIDE DEF step
  <2>1. \A n \in 0 .. 0 : n = 0
    OBVIOUS
  <2>2. Ok(0, g)
    BY <2>1
  <2> QED
    BY <2>2
<1>3. ASSUME NEW m \in Nat, m \in Q PROVE m + 1 \in Q
  <2> HIDE DEF step
  <2>1. PICK g : Ok(m, g)
    BY <1>3
  <2> DEFINE h == [n \in 0 .. m + 1 |-> IF n = m + 1 THEN step(m + 1, g[m]) ELSE g[n]]
  <2>2. \A n \in 0 .. m : g[n] = IF n = 0 THEN UntouchedWithCache(l) ELSE step(n, g[n - 1])
    BY <2>1
  <2>3. h[m + 1] = step(m + 1, g[m]) /\ \A n \in 0 .. m : h[n] = g[n]
    OBVIOUS
  <2>4. h = [n \in 0 .. m + 1 |-> h[n]]
    OBVIOUS
  <2> HIDE DEF h
  <2>5. ASSUME NEW n \in 0 .. m + 1
        PROVE  h[n] = IF n = 0 THEN UntouchedWithCache(l) ELSE step(n, h[n - 1])
    <3>1. CASE n = m + 1
      <4>1. n # 0 /\ n - 1 = m /\ h[n - 1] = g[m]
        BY <2>3, <3>1
      <4> QED
        BY <2>3, <3>1, <4>1
    <3>2. CASE n = 0
      BY <2>2, <2>3, <3>2
    <3>3. CASE n \in 1 .. m
      <4>1. n \in 0 .. m /\ n - 1 \in 0 .. m /\ n # 0
        BY <3>3
      <4> QED
        BY <2>2, <2>3, <4>1
    <3> QED
      BY <3>1, <3>2, <3>3
  <2>6. Ok(m + 1, h)
    BY <2>4, <2>5
  <2> QED
    BY <2>6
<1>4. \E g : Ok(N, g)
  <2>1. N \in Q
    <3> HIDE DEF Q, N
    <3> QED
      BY <1>1, <1>2, <1>3, NatSetInduction
  <2> HIDE DEF Ok
  <2> QED
    BY <2>1
<1> DEFINE J == MappedAfter(l, tags)
<1>5. Ok(N, J)
  BY <1>4 DEF MappedAfter, UntouchedWithCache
<1>6. J[0] = UntouchedWithCache(l) /\ \A n \in 1 .. N : J[n] = step(n, J[n - 1])
  <2> HIDE DEF step, J, N
  <2> QED
    BY <1>1, <1>5
<1> QED
  BY <1>6

\* The tables of layer old have become these.
TablesGrew(old, keys, values) ==
  /\ TableOK(keys) /\ TableOK(values)
  /\ Extends(old.keys.texts, keys.texts) /\ Extends(old.values.texts, values.texts)

\* A key and a value that were put in their tables are one more property.
LEMMA PutBoth ==
  ASSUME NEW old, IsSeq(old.keys.texts), IsSeq(old.values.texts),
         NEW keys, NEW values, TablesGrew(old, keys, values),
         NEW tags, NEW ps, TagsOK(tags, ps, keys.texts, values.texts),
         NEW p, NEW kt, NEW ki, Puts(keys, p[1], kt, ki), NEW vt, NEW vi, Puts(values, p[2], vt, vi)
  PROVE  /\ TablesGrew(old, kt, vt)
         /\ TagsOK(tags \o <<ki, vi>>, Append(ps, p), kt.texts, vt.texts)
<1>1. /\ IsSeq(keys.texts) /\ IsSeq(values.texts) /\ IsSeq(kt.texts) /\ IsSeq(vt.texts)
      /\ Extends(keys.texts, kt.texts) /\ Extends(values.texts, vt.texts)
      /\ TableOK(kt) /\ TableOK(vt)
  BY DEF TablesGrew, TableOK, Puts
<1>2. Extends(old.keys.texts, kt.texts)
  BY <1>1, ExtendsTrans DEF TablesGrew
<1>3. Extends(old.values.texts, vt.texts)
  BY <1>1, ExtendsTrans DEF TablesGrew
<1>4. TagsOK(tags, ps, kt.texts, vt.texts)
  BY <1>1, TagsKeep
<1>5. /\ ki \in Nat /\ ki < Len(kt.texts) /\ kt.texts[ki + 1] = p[1]
      /\ vi \in Nat /\ vi < Len(vt.texts) /\ vt.texts[vi + 1] = p[2]
  <2>1. Len(kt.texts) \in Nat /\ Len(vt.texts) \in Nat
    BY <1>1, SeqIs
  <2> QED
    BY <2>1 DEF Puts
<1>6. TagsOK(tags \o <<ki, vi>>, Append(ps, p), kt.texts, vt.texts)
  BY <1>1, <1>4, <1>5, TagsGrow
<1> QED
  BY <1>1, <1>2, <1>3, <1>6 DEF TablesGrew

\* What has been made of layer old for the properties ps.
Written(old, r, ps) ==
  TablesGrew(old, r.keys, r.values) /\ TagsOK(r.tags, ps, r.keys.texts, r.values.texts)

\* add_property() with texts writes the property (builder.hpp:508-526).
LEMMA AddBothIs ==
  ASSUME NEW old, IsSeq(old.keys.texts), IsSeq(old.values.texts),
         NEW r, NEW ps, Written(old, r, ps), NEW p
  PROVE  Written(old, AddBoth(r, p), Append(ps, p))
<1> DEFINE k == AddText(r.keys, p[1])
           v == AddText(r.values, p[2])
<1>1. Puts(r.keys, p[1], k.table, k.index)
  BY AddTextIs DEF Written, TablesGrew
<1>2. Puts(r.values, p[2], v.table, v.index)
  BY AddTextIs DEF Written, TablesGrew
<1>3. /\ AddBoth(r, p).keys = k.table /\ AddBoth(r, p).values = v.table
      /\ AddBoth(r, p).tags = r.tags \o <<k.index, v.index>>
  BY DEF AddBoth
<1> HIDE DEF k, v
<1>4. /\ TablesGrew(old, k.table, v.table)
      /\ TagsOK(r.tags \o <<k.index, v.index>>, Append(ps, p), k.table.texts, v.table.texts)
  BY <1>1, <1>2, PutBoth DEF Written
<1> QED
  BY <1>3, <1>4 DEF Written

\* Before anything is written.
LEMMA UntouchedIs ==
  ASSUME NEW l, TableOK(layers[l].keys), TableOK(layers[l].values), NEW r,
         r.keys = layers[l].keys, r.values = layers[l].values, r.tags = <<>>
  PROVE  Written(layers[l], r, <<>>)
<1>1. Extends(r.keys.texts, r.keys.texts) /\ Extends(r.values.texts, r.values.texts)
  BY ExtendsSelf DEF TableOK
<1> QED
  BY <1>1, NoTagsAreOK DEF Written, TablesGrew

\* copy_properties() writes what for_each_property reads (builder.hpp:473-487).
LEMMA TextsAre ==
  ASSUME NEW l, TableOK(layers[l].keys), TableOK(layers[l].values), NEW ps, IsSeq(ps)
  PROVE  Written(layers[l], AddTexts(l, ps), ps)
<1> DEFINE N == Len(ps)
           J == TextsAfter(l, ps)
           old == layers[l]
           Q == {n \in Nat : n <= N => Written(old, J[n], SubSeq(ps, 1, n))}
<1>1. /\ N \in Nat /\ IsSeq(old.keys.texts) /\ IsSeq(old.values.texts)
      /\ SubSeq(ps, 1, 0) = <<>> /\ SubSeq(ps, 1, N) = ps
  <2>1. ps \in Seq(ToSet(ps))
    BY DEF IsSeq
  <2> QED
    BY <2>1 DEF TableOK
<1>2. J[0] = Untouched(l) /\ \A n \in 1 .. N : J[n] = AddBoth(J[n - 1], ps[n])
  BY <1>1, TextsUnfold
<1>3. 0 \in Q
  <2>1. Written(old, Untouched(l), <<>>)
    BY UntouchedIs DEF Untouched
  <2> HIDE DEF J
  <2> QED
    BY <1>1, <1>2, <2>1
<1> HIDE DEF J, old, N
<1>4. ASSUME NEW n \in Nat, n \in Q PROVE n + 1 \in Q
  <2> SUFFICES ASSUME n + 1 <= N PROVE Written(old, J[n + 1], SubSeq(ps, 1, n + 1))
    OBVIOUS
  <2>1. n + 1 \in 1 .. N /\ (n + 1) - 1 = n /\ Written(old, J[n], SubSeq(ps, 1, n))
    BY <1>1, <1>4
  <2>2. J[n + 1] = AddBoth(J[n], ps[n + 1])
    BY <1>2, <2>1
  <2>3. SubSeq(ps, 1, n + 1) = Append(SubSeq(ps, 1, n), ps[n + 1])
    BY <2>1, OneMore DEF N
  <2> QED
    BY <1>1, <2>1, <2>2, <2>3, AddBothIs
<1>5. N \in Q
  <2> HIDE DEF Q
  <2> QED
    BY <1>1, <1>3, <1>4, NatSetInduction
<1>6. Written(old, J[N], SubSeq(ps, 1, N))
  <2>1. N <= N
    BY <1>1
  <2> QED
    BY <1>5, <2>1, Zenon
<1> QED
  BY <1>1, <1>6 DEF AddTexts, J, N, old

-----------------------------------------------------------------------------
CacheParts == {"keys", "values", "mappedKeys", "mappedValues"}
SameText(S) == [x \in S |-> x]
TextOf(j, tag) == [i \in Nat |-> All(j.data, tag)[i + 1]]

\* What key_index, value_index and property_mapper remember.
CachesOK(j, c, keys, values) ==
  /\ DOMAIN c = CacheParts
  /\ CacheOK(c.keys, keys.texts, SameText(j.keys))
  /\ CacheOK(c.values, values.texts, SameText(j.values))
  /\ CacheOK(c.mappedKeys, keys.texts, TextOf(j, "keys"))
  /\ CacheOK(c.mappedValues, values.texts, TextOf(j, "values"))

\* Indexes and mappers stay right when the tables of their layer grow.
LEMMA CachesKeep ==
  ASSUME NEW j, NEW c, NEW old, TableOK(old.keys), TableOK(old.values), CachesOK(j, c, old.keys, old.values),
         NEW keys, NEW values, TablesGrew(old, keys, values)
  PROVE  CachesOK(j, c, keys, values)
<1>1. /\ IsSeq(old.keys.texts) /\ IsSeq(old.values.texts) /\ IsSeq(keys.texts) /\ IsSeq(values.texts)
      /\ Extends(old.keys.texts, keys.texts) /\ Extends(old.values.texts, values.texts)
  BY DEF TablesGrew, TableOK
<1>2. CacheOK(c.keys, keys.texts, SameText(j.keys))
  BY <1>1, CacheKeeps DEF CachesOK
<1>3. CacheOK(c.values, values.texts, SameText(j.values))
  BY <1>1, CacheKeeps DEF CachesOK
<1>4. CacheOK(c.mappedKeys, keys.texts, TextOf(j, "keys"))
  BY <1>1, CacheKeeps DEF CachesOK
<1>5. CacheOK(c.mappedValues, values.texts, TextOf(j, "values"))
  BY <1>1, CacheKeeps DEF CachesOK
<1> QED
  BY <1>2, <1>3, <1>4, <1>5 DEF CachesOK

\* property_mapper writes the property that its layer has there (property_mapper.hpp:31-99).
LEMMA AddMappedIs ==
  ASSUME NEW old, TableOK(old.keys), TableOK(old.values),
         NEW r, NEW ps, Written(old, r, ps), CachesOK(job, r.cache, r.keys, r.values),
         NEW ki \in Nat, NEW vi \in Nat, TablesInv(Source), Source.data = job.data,
         Property(Source, ki, vi).error = "none"
  PROVE  LET q == AddMapped(r, ki, vi)
             p == Property(Source, ki, vi)
         IN Written(old, q, Append(ps, <<p.key, p.value>>)) /\ CachesOK(job, q.cache, q.keys, q.values)
<1> DEFINE p == Property(Source, ki, vi)
           pair == <<p.key, p.value>>
           k == AddCached(r.cache.mappedKeys, ki, r.keys, p.key)
           v == AddCached(r.cache.mappedValues, vi, r.values, p.value)
           q == AddMapped(r, ki, vi)
           c == [r.cache EXCEPT !.mappedKeys = k.cache, !.mappedValues = v.cache]
<1>1. p.key = TextOf(job, "keys")[ki] /\ p.value = TextOf(job, "values")[vi]
  BY PropertyIs DEF TextOf
<1>2. pair[1] = p.key /\ pair[2] = p.value
  OBVIOUS
<1>3. q.keys = k.table /\ q.values = v.table /\ q.tags = r.tags \o <<k.index, v.index>> /\ q.cache = c
  BY DEF AddMapped
<1> HIDE DEF p, q
<1>4. /\ Puts(r.keys, pair[1], k.table, k.index)
      /\ CacheOK(k.cache, k.table.texts, TextOf(job, "keys"))
  BY <1>1, <1>2, AddCachedIs DEF Written, TablesGrew, CachesOK
<1>5. /\ Puts(r.values, pair[2], v.table, v.index)
      /\ CacheOK(v.cache, v.table.texts, TextOf(job, "values"))
  BY <1>1, <1>2, AddCachedIs DEF Written, TablesGrew, CachesOK
<1> HIDE DEF k, v, pair
<1>6. IsSeq(old.keys.texts) /\ IsSeq(old.values.texts) /\ TableOK(r.keys) /\ TableOK(r.values)
  BY DEF TableOK, Written, TablesGrew
<1>7. /\ TablesGrew(old, k.table, v.table)
      /\ TagsOK(r.tags \o <<k.index, v.index>>, Append(ps, pair), k.table.texts, v.table.texts)
  BY <1>4, <1>5, <1>6, PutBoth DEF Written
<1>8. TablesGrew(r, k.table, v.table)
  BY <1>4, <1>5 DEF Puts, TablesGrew
<1>9. CachesOK(job, r.cache, k.table, v.table)
  BY <1>6, <1>8, CachesKeep
<1>10. /\ DOMAIN c = CacheParts /\ c.keys = r.cache.keys /\ c.values = r.cache.values
       /\ c.mappedKeys = k.cache /\ c.mappedValues = v.cache
  BY <1>9 DEF CachesOK, CacheParts
<1> HIDE DEF c
<1>11. CachesOK(job, c, k.table, v.table)
  BY <1>4, <1>5, <1>9, <1>10 DEF CachesOK
<1> QED
  BY <1>3, <1>7, <1>11 DEF Written, q, p, pair

\* copy_properties() with a mapper writes what for_each_property reads (builder.hpp:488-506).
LEMMA MappedAre ==
  ASSUME NEW l, TableOK(layers[l].keys), TableOK(layers[l].values),
         CachesOK(job, caches[l], layers[l].keys, layers[l].values),
         TablesInv(Source), Source.data = job.data, NEW tags \in Seq(Nat),
         NEW read, ReadsPairs(Source, tags, Len(tags) \div 2, read), read.error = "none"
  PROVE  LET r == MappedAfter(l, tags)[Len(tags) \div 2]
         IN Written(layers[l], r, read.properties) /\ CachesOK(job, r.cache, r.keys, r.values)
<1> DEFINE N == Len(tags) \div 2
           J == MappedAfter(l, tags)
           old == layers[l]
           ps == read.properties
           Good(r, n) == Written(old, r, SubSeq(ps, 1, n)) /\ CachesOK(job, r.cache, r.keys, r.values)
           Q == {n \in Nat : n <= N => Good(J[n], n)}
<1>1. /\ N \in Nat /\ IsSeq(old.keys.texts) /\ IsSeq(old.values.texts) /\ IsSeq(ps) /\ Len(ps) = N
      /\ SubSeq(ps, 1, 0) = <<>> /\ SubSeq(ps, 1, N) = ps
  <2>1. ps \in Seq(ToSet(ps)) /\ Len(ps) = N
    BY DEF IsSeq, ReadsPairs
  <2>2. N \in Nat
    OBVIOUS
  <2>3. IsSeq(ps) /\ IsSeq(old.keys.texts) /\ IsSeq(old.values.texts)
    BY DEF TableOK, ReadsPairs
  <2> HIDE DEF ps, N
  <2> QED
    BY <2>1, <2>2, <2>3
<1>2. /\ J[0] = UntouchedWithCache(l)
      /\ \A n \in 1 .. N : J[n] = AddMapped(J[n - 1], tags[2 * n - 1], tags[2 * n])
  BY MappedUnfold
<1>3. 0 \in Q
  <2>1. Good(UntouchedWithCache(l), 0)
    BY <1>1, UntouchedIs DEF UntouchedWithCache
  <2> HIDE DEF J, Good
  <2> QED
    BY <1>1, <1>2, <2>1
<1>4. ASSUME NEW n \in 1 .. N
      PROVE  LET p == Property(Source, tags[2 * n - 1], tags[2 * n])
             IN p.error = "none" /\ ps[n] = <<p.key, p.value>>
                /\ tags[2 * n - 1] \in Nat /\ tags[2 * n] \in Nat
  <2>1. tags[2 * n - 1] \in Nat /\ tags[2 * n] \in Nat
    OBVIOUS
  <2> QED
    BY <2>1 DEF ReadsPairs
<1> HIDE DEF J, old, N, ps
<1>5. ASSUME NEW n \in Nat, n \in Q PROVE n + 1 \in Q
  <2> HIDE DEF Good
  <2> SUFFICES ASSUME n + 1 <= N PROVE Good(J[n + 1], n + 1)
    OBVIOUS
  <2> USE DEF Good
  <2>1. n + 1 \in 1 .. N /\ (n + 1) - 1 = n /\ Good(J[n], n)
    BY <1>1, <1>5
  <2> DEFINE ki == tags[2 * (n + 1) - 1]
             vi == tags[2 * (n + 1)]
  <2>2. J[n + 1] = AddMapped(J[n], ki, vi)
    BY <1>2, <2>1
  <2>3. SubSeq(ps, 1, n + 1) = Append(SubSeq(ps, 1, n), ps[n + 1])
    BY <1>1, <2>1, OneMore
  <2>4. /\ ki \in Nat /\ vi \in Nat /\ Property(Source, ki, vi).error = "none"
        /\ ps[n + 1] = <<Property(Source, ki, vi).key, Property(Source, ki, vi).value>>
    BY <1>4, <2>1
  <2> HIDE DEF ki, vi
  <2>5. TableOK(old.keys) /\ TableOK(old.values)
    BY DEF old
  <2> DEFINE p == Property(Source, ki, vi)
             before == SubSeq(ps, 1, n)
             q == AddMapped(J[n], ki, vi)
  <2>6. Written(old, J[n], before) /\ CachesOK(job, J[n].cache, J[n].keys, J[n].values)
    BY <2>1
  <2>7. Written(old, q, Append(before, <<p.key, p.value>>)) /\ CachesOK(job, q.cache, q.keys, q.values)
    <3> HIDE DEF before, Good
    <3> QED
      BY <2>4, <2>5, <2>6, AddMappedIs
  <2> HIDE DEF p, q
  <2> QED
    BY <2>2, <2>3, <2>4, <2>7 DEF p, q
<1>6. N \in Q
  <2> HIDE DEF Q
  <2> QED
    BY <1>1, <1>3, <1>5, NatSetInduction
<1>7. Good(J[N], N)
  <2>1. N <= N
    BY <1>1
  <2> HIDE DEF Good
  <2> QED
    BY <1>6, <2>1, Zenon
<1> QED
  BY <1>1, <1>7 DEF J, N, old, ps

-----------------------------------------------------------------------------
(* The layers of a tile that is built.                                     *)

LayerParts == {"existing", "data", "keys", "values", "numFeatures"}
PromiseParts == {"name", "version", "extent", "features"}

LayerOK(l) == DOMAIN l = LayerParts /\ IsLayer(l.data) /\ TableOK(l.keys) /\ TableOK(l.values)

LayersInv(j, ls, cs) ==
  /\ IsSeq(ls) /\ IsSeq(cs) /\ Len(cs) = Len(ls)
  /\ \A l \in 1 .. Len(ls) : LayerOK(ls[l]) /\ CachesOK(j, cs[l], ls[l].keys, ls[l].values)

BuiltInv(ls, bs) ==
  /\ IsSeq(bs) /\ Len(bs) = Len(ls)
  /\ \A l \in 1 .. Len(bs) : DOMAIN bs[l] = PromiseParts /\ IsSeq(bs[l].features)

\* Layers only grow, by the features that are built.
LayerGrows(l, m, b, d) ==
  /\ Extends(l.keys.texts, m.keys.texts) /\ Extends(l.values.texts, m.values.texts)
  /\ Extends(l.data, m.data)
  /\ Len(m.data) - Len(l.data) = Len(d.features) - Len(b.features)
GrowTo(ls, bs, ms, ds) ==
  Len(ls) <= Len(ms) /\ \A l \in 1 .. Len(ls) : LayerGrows(ls[l], ms[l], bs[l], ds[l])

\* The three together, before and after.
Good(j, ls, cs, bs) == LayersInv(j, ls, cs) /\ BuiltInv(ls, bs)
GoodStep(j, ls, cs, bs, ms, es, ds) == Good(j, ms, es, ds) /\ GrowTo(ls, bs, ms, ds)

\* A sequence with one element replaced.
LEMMA Changed ==
  ASSUME NEW s, IsSeq(s), NEW l \in 1 .. Len(s), NEW x
  PROVE  /\ IsSeq([s EXCEPT ![l] = x]) /\ Len([s EXCEPT ![l] = x]) = Len(s)
         /\ \A i \in 1 .. Len(s) : [s EXCEPT ![l] = x][i] = IF i = l THEN x ELSE s[i]
<1> DEFINE t == [s EXCEPT ![l] = x]
           S == ToSet(s) \cup {x}
<1>1. s \in Seq(S) /\ x \in S /\ Len(s) \in Nat
  BY SeqIs DEF IsSeq
<1>2. t \in Seq(S) /\ Len(t) = Len(s) /\ \A i \in 1 .. Len(s) : t[i] = IF i = l THEN x ELSE s[i]
  <2> HIDE DEF S
  <2> QED
    BY <1>1
<1> QED
  BY <1>2, SeqOfIsSeq

\* A layer that stays has grown by nothing.
LEMMA SelfGrows ==
  ASSUME NEW l, LayerOK(l)
  PROVE  /\ Extends(l.keys.texts, l.keys.texts) /\ Extends(l.values.texts, l.values.texts)
         /\ Extends(l.data, l.data) /\ Len(l.data) \in Nat
BY ExtendsSelf, SeqIs DEF LayerOK, TableOK, IsLayer

\* Any change of one layer, of its caches and of the features that were asked for.
LEMMA OneLayer ==
  ASSUME NEW j, NEW ls, NEW cs, NEW bs, Good(j, ls, cs, bs), NEW l \in 1 .. Len(ls),
         NEW m, NEW c, NEW d, LayerOK(m), CachesOK(j, c, m.keys, m.values),
         TablesGrew(ls[l], m.keys, m.values), Extends(ls[l].data, m.data),
         DOMAIN d = PromiseParts, IsSeq(d.features),
         Len(m.data) - Len(ls[l].data) = Len(d.features) - Len(bs[l].features)
  PROVE  GoodStep(j, ls, cs, bs, [ls EXCEPT ![l] = m], [cs EXCEPT ![l] = c], [bs EXCEPT ![l] = d])
<1> DEFINE ms == [ls EXCEPT ![l] = m]
           es == [cs EXCEPT ![l] = c]
           ds == [bs EXCEPT ![l] = d]
           n == Len(ls)
<1>1. /\ IsSeq(ls) /\ IsSeq(cs) /\ IsSeq(bs) /\ Len(cs) = n /\ Len(bs) = n /\ n \in Nat
  BY SeqIs DEF Good, LayersInv, BuiltInv
<1>2. IsSeq(ms) /\ Len(ms) = n /\ \A i \in 1 .. n : ms[i] = IF i = l THEN m ELSE ls[i]
  <2>1. IsSeq(ms)
    BY <1>1, Changed
  <2>2. Len(ms) = n
    BY <1>1, Changed
  <2>3. \A i \in 1 .. n : ms[i] = IF i = l THEN m ELSE ls[i]
    BY <1>1, Changed
  <2> QED
    BY <2>1, <2>2, <2>3
<1>3. IsSeq(es) /\ Len(es) = n /\ \A i \in 1 .. n : es[i] = IF i = l THEN c ELSE cs[i]
  BY <1>1, Changed
<1>4. IsSeq(ds) /\ Len(ds) = n /\ \A i \in 1 .. n : ds[i] = IF i = l THEN d ELSE bs[i]
  BY <1>1, Changed
<1> HIDE DEF ms, es, ds
<1>5. LayersInv(j, ms, es)
  BY <1>1, <1>2, <1>3 DEF Good, LayersInv
<1>6. BuiltInv(ms, ds)
  BY <1>1, <1>2, <1>4 DEF Good, BuiltInv
<1>7. ASSUME NEW i \in 1 .. n
      PROVE  LayerGrows(ls[i], ms[i], bs[i], ds[i])
  <2>1. CASE i = l
    <3>1. ms[i] = m /\ ds[i] = d
      BY <1>2, <1>4, <2>1
    <3> QED
      BY <2>1, <3>1 DEF TablesGrew, LayerGrows
  <2>2. CASE i # l
    <3>1. ms[i] = ls[i] /\ ds[i] = bs[i] /\ LayerOK(ls[i]) /\ IsSeq(bs[i].features)
      BY <1>1, <1>2, <1>4, <2>2 DEF Good, LayersInv, BuiltInv
    <3>2. Len(bs[i].features) \in Nat
      BY <3>1, SeqIs
    <3>3. Len(ls[i].data) \in Nat
      BY <3>1, SelfGrows
    <3>4. Len(ls[i].data) - Len(ls[i].data) = Len(bs[i].features) - Len(bs[i].features)
      BY <3>2, <3>3
    <3> QED
      BY <3>1, <3>4, SelfGrows DEF LayerGrows
  <2> QED
    BY <2>1, <2>2
<1>8. GrowTo(ls, bs, ms, ds)
  BY <1>1, <1>2, <1>7 DEF GrowTo
<1> QED
  BY <1>5, <1>6, <1>8 DEF GoodStep, Good, ms, es, ds

\* Nothing changes.
LEMMA NoLayerChanges ==
  ASSUME NEW j, NEW ls, NEW cs, NEW bs, Good(j, ls, cs, bs)
  PROVE  GoodStep(j, ls, cs, bs, ls, cs, bs)
<1>1. Len(ls) \in Nat
  BY SeqIs DEF Good, LayersInv
<1>2. ASSUME NEW i \in 1 .. Len(ls)
      PROVE  LayerGrows(ls[i], ls[i], bs[i], bs[i])
  <2>1. LayerOK(ls[i]) /\ IsSeq(bs[i].features)
    BY DEF Good, LayersInv, BuiltInv
  <2>2. Len(ls[i].data) \in Nat /\ Len(bs[i].features) \in Nat
    BY <2>1, SelfGrows, SeqIs
  <2>3. Len(ls[i].data) - Len(ls[i].data) = Len(bs[i].features) - Len(bs[i].features)
    BY <2>2
  <2> QED
    BY <2>1, <2>3, SelfGrows DEF LayerGrows
<1> QED
  BY <1>1, <1>2 DEF GoodStep, GrowTo

\* A layer is added.
LEMMA LayerAdded ==
  ASSUME NEW j, NEW ls, NEW cs, NEW bs, Good(j, ls, cs, bs), NEW m, LayerOK(m),
         NEW d, DOMAIN d = PromiseParts, IsSeq(d.features)
  PROVE  GoodStep(j, ls, cs, bs, Append(ls, m), Append(cs, NoCache), Append(bs, d))
<1> DEFINE ms == Append(ls, m)
           es == Append(cs, NoCache)
           ds == Append(bs, d)
           n == Len(ls)
<1>1. IsSeq(ls) /\ IsSeq(cs) /\ IsSeq(bs) /\ Len(cs) = n /\ Len(bs) = n /\ n \in Nat
  BY SeqIs DEF Good, LayersInv, BuiltInv
<1>2. IsSeq(ms) /\ Len(ms) = n + 1 /\ ms[n + 1] = m /\ \A i \in 1 .. n : ms[i] = ls[i]
  BY <1>1, Grown DEF Extends
<1>3. IsSeq(es) /\ Len(es) = n + 1 /\ es[n + 1] = NoCache /\ \A i \in 1 .. n : es[i] = cs[i]
  BY <1>1, Grown DEF Extends
<1>4. IsSeq(ds) /\ Len(ds) = n + 1 /\ ds[n + 1] = d /\ \A i \in 1 .. n : ds[i] = bs[i]
  BY <1>1, Grown DEF Extends
<1> HIDE DEF ms, es, ds
<1>5. CachesOK(j, NoCache, m.keys, m.values)
  <2>1. DOMAIN <<>> = {}
    OBVIOUS
  <2> QED
    BY <2>1 DEF CachesOK, CacheOK, NoCache, CacheParts
<1>6. \A i \in 1 .. n + 1 : i \in 1 .. n \/ i = n + 1
  BY <1>1
<1>7. LayersInv(j, ms, es)
  BY <1>1, <1>2, <1>3, <1>5, <1>6 DEF Good, LayersInv
<1>8. BuiltInv(ms, ds)
  BY <1>1, <1>2, <1>4, <1>6 DEF Good, BuiltInv
<1>9. GrowTo(ls, bs, ls, bs)
  BY NoLayerChanges DEF GoodStep
<1>10. GrowTo(ls, bs, ms, ds)
  BY <1>1, <1>2, <1>4, <1>9 DEF GrowTo
<1> QED
  BY <1>7, <1>8, <1>10 DEF GoodStep, Good, ms, es, ds

\* Tables of a layer, and its caches.
LEMMA TablesChanged ==
  ASSUME NEW j, NEW ls, NEW cs, NEW bs, Good(j, ls, cs, bs), NEW l \in 1 .. Len(ls),
         NEW keys, NEW values, NEW c, TablesGrew(ls[l], keys, values), CachesOK(j, c, keys, values)
  PROVE  GoodStep(j, ls, cs, bs, [ls EXCEPT ![l].keys = keys, ![l].values = values],
                  [cs EXCEPT ![l] = c], bs)
<1> DEFINE a == [ls[l] EXCEPT !.keys = keys]
           m == [a EXCEPT !.values = values]
           ms == [ls EXCEPT ![l] = m]
<1>1. IsSeq(ls) /\ IsSeq(bs) /\ Len(bs) = Len(ls) /\ LayerOK(ls[l]) /\ DOMAIN bs[l] = PromiseParts
      /\ IsSeq(bs[l].features)
  BY DEF Good, LayersInv, BuiltInv
<1>2. DOMAIN ls = 1 .. Len(ls) /\ DOMAIN bs = 1 .. Len(bs)
  BY <1>1, SeqIs
<1>3. DOMAIN ls[l] = LayerParts
  BY <1>1 DEF LayerOK
<1>4. DOMAIN m = LayerParts /\ m.data = ls[l].data /\ m.keys = keys /\ m.values = values
  BY <1>3 DEF LayerParts
<1>5. [ls EXCEPT ![l].keys = keys, ![l].values = values] = ms
  <2>1. [ls EXCEPT ![l].keys = keys] = [ls EXCEPT ![l] = a]
    BY <1>2
  <2>2. [[ls EXCEPT ![l] = a] EXCEPT ![l].values = values] = [ls EXCEPT ![l] = m]
    <3> HIDE DEF a
    <3> QED
      BY <1>2
  <2> QED
    BY <2>1, <2>2
<1>6. [bs EXCEPT ![l] = bs[l]] = bs
  <2>1. \A i \in DOMAIN bs : [bs EXCEPT ![l] = bs[l]][i] = bs[i]
    BY <1>2
  <2> QED
    BY <1>1, <2>1 DEF IsSeq
<1> HIDE DEF m
<1>7. LayerOK(m)
  BY <1>1, <1>4 DEF LayerOK, TablesGrew
<1>8. Extends(ls[l].data, m.data) /\ Len(m.data) - Len(ls[l].data) = Len(bs[l].features) - Len(bs[l].features)
  <2>1. Len(ls[l].data) \in Nat /\ Len(bs[l].features) \in Nat
    BY <1>1, SelfGrows, SeqIs
  <2> QED
    BY <1>1, <1>4, <2>1, SelfGrows
<1>9. GoodStep(j, ls, cs, bs, ms, [cs EXCEPT ![l] = c], [bs EXCEPT ![l] = bs[l]])
  BY <1>1, <1>4, <1>7, <1>8, OneLayer
<1> QED
  BY <1>5, <1>6, <1>9

-----------------------------------------------------------------------------
(* Fields of features, and the builder of one.                             *)

\* Two sequences, one behind the other.
LEMMA JoinIs ==
  ASSUME NEW s, IsSeq(s), NEW t, IsSeq(t)
  PROVE  IsSeq(s \o t) /\ \A x \in ToSet(s \o t) : x \in ToSet(s) \/ x \in ToSet(t)
<1> DEFINE S == ToSet(s) \cup ToSet(t)
           u == s \o t
<1>1. s \in Seq(S) /\ t \in Seq(S)
  BY DEF IsSeq
<1> HIDE DEF S
<1>2. u \in Seq(S)
  BY <1>1
<1> HIDE DEF u
<1>3. \A x \in ToSet(u) : x \in S
  BY <1>2 DEF ToSet
<1>4. IsSeq(u)
  BY <1>2, SeqOfIsSeq
<1> QED
  BY <1>3, <1>4 DEF u, S

\* Fields of features, one behind the other.
LEMMA FeatureJoin ==
  ASSUME NEW s, IsFeature(s), NEW t, IsFeature(t)
  PROVE  IsFeature(s \o t)
BY JoinIs DEF IsFeature

\* A sequence of one element.
LEMMA OneIsSeq ==
  ASSUME NEW x
  PROVE  IsSeq(<<x>>) /\ ToSet(<<x>>) = {x}
<1>1. <<x>> \in Seq({x})
  OBVIOUS
<1>2. ToSet(<<x>>) = {x}
  BY DEF ToSet
<1> QED
  BY <1>1, <1>2 DEF IsSeq

NumberField(x) == x[1] \in {"id", "type"} /\ x[2] \in Nat
ListField(x) == x[1] \in {"tags", "geometry"} /\ x[2] \in Seq(Nat)

\* A feature of one field.
LEMMA FieldIs ==
  ASSUME NEW x, NumberField(x) \/ ListField(x)
  PROVE  IsFeature(<<x>>)
<1>1. /\ x[1] \in {"id", "type"} => x[2] \in Nat
      /\ x[1] \in {"tags", "geometry"} => x[2] \in Seq(Nat)
  BY DEF NumberField, ListField
<1> QED
  BY <1>1, OneIsSeq DEF IsFeature

\* One more field of a feature.
LEMMA FieldAdded ==
  ASSUME NEW s, IsFeature(s), NEW x, NumberField(x) \/ ListField(x)
  PROVE  IsFeature(Append(s, x))
<1>1. /\ x[1] \in {"id", "type"} => x[2] \in Nat
      /\ x[1] \in {"tags", "geometry"} => x[2] \in Seq(Nat)
  BY DEF NumberField, ListField
<1>2. IsSeq(Append(s, x)) /\ ToSet(Append(s, x)) = ToSet(s) \cup {x}
  BY Grown DEF IsFeature
<1> QED
  BY <1>1, <1>2 DEF IsFeature

\* The fields that a feature builder writes (feature_builder_impl.hpp:30-103).
LEMMA FieldsAre ==
  /\ IsFeature(<<>>)
  /\ \A n \in Nat : NumberField(<<"id", n>>) /\ NumberField(<<"type", n>>)
  /\ \A s \in Seq(Nat) : ListField(<<"tags", s>>) /\ ListField(<<"geometry", s>>)
<1>1. IsSeq(<<>>) /\ ToSet(<<>>) = {}
  BY DEF IsSeq, ToSet
<1> QED
  BY <1>1 DEF IsFeature, NumberField, ListField

\* A type and a geometry.
LEMMA TwoFields ==
  ASSUME NEW x, NumberField(x), NEW y, ListField(y)
  PROVE  IsFeature(<<x, y>>)
<1>1. <<x, y>> \in Seq({x, y}) /\ ToSet(<<x, y>>) = {x, y}
  <2>1. DOMAIN <<x, y>> = {1, 2}
    OBVIOUS
  <2> QED
    BY <2>1 DEF ToSet
<1>2. \A f \in {x, y} : /\ f[1] \in {"id", "type"} => f[2] \in Nat
                        /\ f[1] \in {"tags", "geometry"} => f[2] \in Seq(Nat)
  BY DEF NumberField, ListField
<1> QED
  BY <1>1, <1>2 DEF IsFeature, IsSeq

\* A feature is added to a layer.
LEMMA CommittedIs ==
  ASSUME NEW l, LayerOK(l), NEW f, IsFeature(f)
  PROVE  /\ LayerOK(Committed(l, f)) /\ Extends(l.data, Committed(l, f).data)
         /\ Len(Committed(l, f).data) = Len(l.data) + 1
         /\ Committed(l, f).keys = l.keys /\ Committed(l, f).values = l.values
<1> DEFINE x == <<"features", f>>
           d == Append(l.data, x)
           m == Committed(l, f)
<1>1. IsLayer(l.data) /\ IsSeq(l.data) /\ DOMAIN l = LayerParts
  BY DEF LayerOK, IsLayer
<1>2. /\ IsSeq(d) /\ Extends(l.data, d) /\ Len(d) = Len(l.data) + 1
      /\ ToSet(d) = ToSet(l.data) \cup {x}
  BY <1>1, Grown
<1>3. x[2] = f
  OBVIOUS
<1> HIDE DEF d, x
<1>4. IsLayer(d)
  BY <1>1, <1>2, <1>3 DEF IsLayer
<1>5. DOMAIN m = LayerParts /\ m.data = d /\ m.keys = l.keys /\ m.values = l.values
  BY <1>1 DEF Committed, LayerParts, d, x
<1> HIDE DEF m
<1>6. LayerOK(m)
  BY <1>4, <1>5 DEF LayerOK
<1> QED
  BY <1>2, <1>5, <1>6 DEF m

-----------------------------------------------------------------------------
BuilderParts == {"kind", "layer", "fields", "geometryOpen", "geometry", "tagsOpen", "tags",
                 "numPoints", "start", "first", "cursor", "sound", "asked"}
AskedParts == {"hasId", "id", "type", "parts", "properties"}

\* A builder that is alive: what it has is well-formed, the count at the start
\* of a line or ring is that of more than one point, and its tags mean what the
\* program asked for.
BuilderOK(b, ls) ==
  /\ DOMAIN b = BuilderParts /\ DOMAIN b.asked = AskedParts
  /\ b.layer \in 1 .. Len(ls)
  /\ IsFeature(b.fields) /\ b.geometry \in Seq(Nat)
  /\ b.numPoints \in Nat /\ (b.start => b.numPoints >= 2 /\ b.kind # "point")
  /\ b.cursor \in Int \X Int
  /\ TagsOK(b.tags, b.asked.properties, ls[b.layer].keys.texts, ls[b.layer].values.texts)

\* The numbers that are written for a point.
LEMMA DeltaIs ==
  ASSUME NEW p \in Int \X Int, NEW q \in Int \X Int
  PROVE  Delta(p, q) \in Seq(Nat)
<1>1. \A v \in Int : Int32(v) \in Int
  BY GeometryAssumption DEF Int32
<1>2. \A v \in Int : EncodeZigzag(v) \in Nat
  BY DEF EncodeZigzag
<1>3. p[1] \in Int /\ p[2] \in Int /\ q[1] \in Int /\ q[2] \in Int
  OBVIOUS
<1>4. p[1] - q[1] \in Int /\ p[2] - q[2] \in Int
  BY <1>3
<1>5. /\ EncodeZigzag(Int32(p[1] - q[1])) \in Nat
      /\ EncodeZigzag(Int32(p[2] - q[2])) \in Nat
  BY <1>1, <1>2, <1>4
<1> QED
  BY <1>5 DEF Delta

\* Commands are numbers (geometry.hpp:91-105).
LEMMA CommandIs ==
  ASSUME NEW n \in Nat
  PROVE  /\ <<Command(MOVE_TO, n)>> \in Seq(Nat) /\ <<Command(LINE_TO, n)>> \in Seq(Nat)
         /\ Command(CLOSE_PATH, n) \in Nat
BY DEF Command, MOVE_TO, LINE_TO, CLOSE_PATH

\* A new builder.
LEMMA NewBuilderIs ==
  ASSUME NEW ls, NEW l \in 1 .. Len(ls), NEW kind \in {"point", "linestring", "polygon", "geometry"}
  PROVE  BuilderOK(NewBuilder(l, kind), ls)
<1> DEFINE b == NewBuilder(l, kind)
           fs == IF kind = "geometry" THEN <<>> ELSE <<<<"type", GeomTypeOf(kind)>>>>
<1>1. GeomTypeOf(kind) \in Nat
  BY DEF GeomTypeOf, POINT, LINESTRING, POLYGON, UNKNOWN
<1>2. IsFeature(fs)
  BY <1>1, FieldsAre, FieldIs
<1>3. /\ DOMAIN b = BuilderParts /\ DOMAIN b.asked = AskedParts /\ b.layer = l /\ b.fields = fs
      /\ b.geometry = <<>> /\ b.numPoints = 0 /\ b.start = FALSE /\ b.cursor = Origin
      /\ b.tags = <<>> /\ b.asked.properties = <<>>
  BY DEF NewBuilder, BuilderParts, AskedParts
<1>4. Origin \in Int \X Int /\ <<>> \in Seq(Nat)
  BY DEF Origin
<1> HIDE DEF b, fs
<1> QED
  BY <1>2, <1>3, <1>4, NoTagsAreOK DEF BuilderOK, b

\* A builder that goes on with the same tags.
LEMMA GoesOn ==
  ASSUME NEW ls, NEW a, BuilderOK(a, ls), NEW b, DOMAIN b = BuilderParts, DOMAIN b.asked = AskedParts,
         b.layer = a.layer, b.tags = a.tags, b.asked.properties = a.asked.properties,
         IsFeature(b.fields), b.geometry \in Seq(Nat), b.numPoints \in Nat,
         b.start => b.numPoints >= 2 /\ b.kind # "point", b.cursor \in Int \X Int
  PROVE  BuilderOK(b, ls)
BY DEF BuilderOK

\* A builder in layers that have grown.
LEMMA StillOK ==
  ASSUME NEW j, NEW ls, NEW cs, NEW bs, Good(j, ls, cs, bs), NEW ms, NEW es, NEW ds,
         GoodStep(j, ls, cs, bs, ms, es, ds), NEW b, BuilderOK(b, ls)
  PROVE  BuilderOK(b, ms)
<1> DEFINE l == b.layer
<1>1. l \in 1 .. Len(ls) /\ Len(ls) \in Nat /\ Len(ms) \in Nat /\ Len(ls) <= Len(ms)
  BY SeqIs DEF BuilderOK, Good, GoodStep, LayersInv, GrowTo
<1>2. l \in 1 .. Len(ms)
  BY <1>1
<1>3. LayerOK(ls[l]) /\ LayerOK(ms[l]) /\ LayerGrows(ls[l], ms[l], bs[l], ds[l])
  BY <1>1, <1>2 DEF Good, GoodStep, LayersInv, GrowTo
<1>4. TagsOK(b.tags, b.asked.properties, ms[l].keys.texts, ms[l].values.texts)
  BY <1>3, TagsKeep DEF BuilderOK, LayerOK, TableOK, LayerGrows
<1> QED
  BY <1>2, <1>4 DEF BuilderOK

-----------------------------------------------------------------------------
(* The steps of a program that builds.                                     *)

BuildInv ==
  /\ status # "foreign" => job \in Jobs
  /\ LayersInv(job, layers, caches)
  /\ status = "building" => BuiltInv(layers, built)
  /\ Alive => BuilderOK(builder, layers)
  /\ IsTile(tile)

\* What is kept by every step of the builders.
Grows == status' = "building" => GrowTo(layers, built, layers', built')
KeepsBuilding == BuildInv' /\ Grows

\* What a program that builds may use.
LEMMA JobIs ==
  ASSUME BuildInv, status = "building"
  PROVE  /\ IsJob(job) /\ Good(job, layers, caches, built)
         /\ TablesInv(Source) /\ Source.data = job.data
         /\ \A i \in DOMAIN job.contents : SourceFeature(i) \in Features
<1>1. IsJob(job) /\ Good(job, layers, caches, built)
  BY TileBuilderAssumption DEF BuildInv, Good
<1>2. IsLayer(job.data) /\ IsSeq(job.contents) /\ Len(job.contents) <= Len(All(job.data, "features"))
  BY <1>1 DEF IsJob
<1>3. TablesInv(Source) /\ Source.data = job.data
  BY <1>2, ReadLayerIs DEF Source
<1>4. ASSUME NEW i \in DOMAIN job.contents PROVE SourceFeature(i) \in Features
  <2>1. Len(All(job.data, "features")) \in Nat /\ Len(job.contents) \in Nat /\ i \in 1 .. Len(job.contents)
    BY <1>2, AllElements, SeqIs DEF IsLayer
  <2>2. i \in 1 .. Len(All(job.data, "features"))
    BY <1>2, <2>1
  <2>3. IsFeature(All(job.data, "features")[i])
    BY <1>2, <2>2, FeaturesAreFeatures
  <2> QED
    BY <2>3, ReadFeatureIs DEF SourceFeature
<1> QED
  BY <1>1, <1>3, <1>4

\* A step keeps BuildInv if layers, caches, promises and the builder are in order after it.
LEMMA StepKeeps ==
  ASSUME BuildInv, status = "building", UNCHANGED <<job, status, tile>>,
         GoodStep(job, layers, caches, built, layers', caches', built'),
         builder'.kind # "none" => BuilderOK(builder', layers')
  PROVE  KeepsBuilding
<1>1. LayersInv(job', layers', caches') /\ BuiltInv(layers', built')
  BY DEF GoodStep, Good
<1>2. GrowTo(layers, built, layers', built')
  BY DEF GoodStep
<1> QED
  BY <1>1, <1>2 DEF BuildInv, KeepsBuilding, Grows, Alive

\* A step that changes the builder only.
LEMMA SetKeeps ==
  ASSUME BuildInv, status = "building",
         UNCHANGED <<job, layers, caches, status, tile, built, whole>>,
         builder'.kind # "none" => BuilderOK(builder', layers)
  PROVE  KeepsBuilding
<1>1. GoodStep(job, layers, caches, built, layers, caches, built)
  BY NoLayerChanges DEF BuildInv, Good
<1> QED
  BY <1>1, StepKeeps

\* A step that ends in an assertion (builder.hpp:312-357).
LEMMA AssertionKeeps ==
  ASSUME BuildInv, status = "building", NEW broken, Assertion(broken)
  PROVE  KeepsBuilding
BY DEF Assertion, BuildInv, KeepsBuilding, Grows, Alive

\* Adding layers.
LEMMA AddALayerKeeps ==
  ASSUME BuildInv, NEW l, NEW d, LayerOK(l), DOMAIN d = PromiseParts, IsSeq(d.features),
         AddALayer(l, d)
  PROVE  KeepsBuilding
<1>1. /\ status = "building" /\ builder' = builder /\ builder.kind = "none" /\ UNCHANGED <<job, status, tile>>
      /\ layers' = Append(layers, l) /\ caches' = Append(caches, NoCache) /\ built' = Append(built, d)
  BY DEF AddALayer, Between
<1>2. GoodStep(job, layers, caches, built, layers', caches', built')
  BY <1>1, LayerAdded DEF BuildInv, Good
<1> QED
  BY <1>1, <1>2, StepKeeps

\* A layer that was added (builder_impl.hpp:150-169).
LEMMA NewLayerIs ==
  ASSUME NEW name, NEW version, NEW extent
  PROVE  LayerOK(NewLayer(name, version, extent))
<1> DEFINE x == <<"version", version>>
           y == <<"name", name>>
           z == <<"extent", extent>>
           d == <<x, y, z>>
           l == NewLayer(name, version, extent)
<1>1. d \in Seq({x, y, z})
  <2> HIDE DEF x, y, z
  <2> QED
    OBVIOUS
<1>2. IsSeq(d) /\ \A f \in ToSet(d) : f \in {x, y, z}
  <2> HIDE DEF x, y, z
  <2>1. IsSeq(d)
    BY <1>1, SeqOfIsSeq
  <2> QED
    BY <1>1, <2>1 DEF ToSet
<1>3. x[1] # "features" /\ y[1] # "features" /\ z[1] # "features"
  OBVIOUS
<1>4. l.data = d /\ DOMAIN l = LayerParts /\ l.keys = EmptyTable /\ l.values = EmptyTable
  BY DEF NewLayer, LayerParts
<1> HIDE DEF x, y, z, d, l
<1>5. IsLayer(d)
  BY <1>2, <1>3 DEF IsLayer
<1>6. LayerOK(l)
  BY <1>4, <1>5, EmptyTableIs DEF LayerOK
<1> QED
  BY <1>6 DEF l

\* What is promised of a layer that was added.
LEMMA PromiseIs ==
  ASSUME NEW name, NEW version, NEW extent
  PROVE  DOMAIN Promise(name, version, extent) = PromiseParts
         /\ IsSeq(Promise(name, version, extent).features)
<1>1. IsSeq(<<>>)
  BY DEF IsSeq, ToSet
<1> QED
  BY <1>1 DEF Promise, PromiseParts

\* layer_builder (builder.hpp:205-220).
LEMMA AddLayerKeeps == BuildInv /\ AddLayer => KeepsBuilding
<1> SUFFICES ASSUME BuildInv, NEW name \in job.names,
                    AddALayer(NewLayer(name, 2, 4096), Promise(name, 2, 4096))
             PROVE  KeepsBuilding
  BY DEF AddLayer
<1> QED
  BY NewLayerIs, PromiseIs, AddALayerKeeps

\* layer_builder like a layer that exists (builder.hpp:190-205).
LEMMA AddLayerLikeKeeps == BuildInv /\ AddLayerLike => KeepsBuilding
<1> SUFFICES ASSUME BuildInv, AddLayerLike PROVE KeepsBuilding
  OBVIOUS
<1> DEFINE s == Source
<1>1. AddALayer(NewLayer(s.name, s.version, s.extent), Promise(s.name, s.version, s.extent))
  BY DEF AddLayerLike
<1> QED
  BY <1>1, NewLayerIs, PromiseIs, AddALayerKeeps

\* add_existing_layer (builder.hpp:110-133).
LEMMA AddExistingLayerKeeps == BuildInv /\ AddExistingLayer => KeepsBuilding
<1> SUFFICES ASSUME BuildInv, AddExistingLayer PROVE KeepsBuilding
  OBVIOUS
<1> DEFINE s == Source
           n == NewLayer(s.name, s.version, s.extent)
           l == [n EXCEPT !.existing = TRUE, !.data = s.data]
           p == Promise(s.name, s.version, s.extent)
           d == [p EXCEPT !.features = job.contents]
<1>1. AddALayer(l, d) /\ status = "building"
  BY DEF AddExistingLayer, Between
<1>2. IsLayer(s.data) /\ IsSeq(job.contents)
  BY <1>1, JobIs DEF IsJob
<1>3. LayerOK(n) /\ DOMAIN p = PromiseParts
  BY NewLayerIs, PromiseIs
<1> HIDE DEF n, p, s
<1>4. LayerOK(l)
  <2>1. DOMAIN n = LayerParts
    BY <1>3 DEF LayerOK
  <2>2. DOMAIN l = LayerParts /\ l.data = s.data /\ l.keys = n.keys /\ l.values = n.values
    BY <2>1 DEF LayerParts
  <2> HIDE DEF l
  <2> QED
    BY <1>2, <1>3, <2>2 DEF LayerOK
<1>5. DOMAIN d = PromiseParts /\ d.features = job.contents
  BY <1>3 DEF PromiseParts
<1> HIDE DEF l, d
<1> QED
  BY <1>1, <1>2, <1>4, <1>5, AddALayerKeeps

\* A feature builder is constructed (builder.hpp:303-374, 567-600).
LEMMA StartFeatureKeeps == BuildInv /\ StartFeature => KeepsBuilding
<1> SUFFICES ASSUME BuildInv, StartFeature PROVE KeepsBuilding
  OBVIOUS
<1>1. PICK l \in DOMAIN layers, kind \in job.kinds : Set(NewBuilder(l, kind))
  BY DEF StartFeature
<1>2. status = "building"
  BY DEF StartFeature, Between
<1>3. l \in 1 .. Len(layers) /\ kind \in {"point", "linestring", "polygon", "geometry"}
  BY <1>2, JobIs, SeqIs DEF IsJob, Good, LayersInv
<1>4. BuilderOK(NewBuilder(l, kind), layers)
  BY <1>3, NewBuilderIs
<1> QED
  BY <1>1, <1>2, <1>4, SetKeeps DEF Set

-----------------------------------------------------------------------------
(* The geometry of a feature.                                              *)

\* What goes on with the tags it has.
SameTags(c, b) ==
  /\ DOMAIN c = BuilderParts /\ DOMAIN c.asked = AskedParts /\ c.kind = b.kind
  /\ c.layer = b.layer /\ c.tags = b.tags /\ c.asked.properties = b.asked.properties

\* The builder that is alive is in order.
LEMMA AliveIs ==
  ASSUME BuildInv, Alive
  PROVE  /\ status = "building" /\ BuilderOK(builder, layers) /\ SameTags(builder, builder)
         /\ IsJob(job) /\ LayersInv(job, layers, caches)
BY JobIs DEF BuildInv, Alive, BuilderOK, SameTags

\* A step of the builder that neither ends it nor concerns properties.
LEMMA GoOnKeeps ==
  ASSUME BuildInv, Alive, NEW b, Set(b), SameTags(b, builder), IsFeature(b.fields),
         b.geometry \in Seq(Nat), b.numPoints \in Nat,
         b.start => b.numPoints >= 2 /\ b.kind # "point", b.cursor \in Int \X Int
  PROVE  KeepsBuilding
<1>1. BuilderOK(b, layers)
  BY AliveIs, GoesOn DEF SameTags
<1> QED
  BY <1>1, AliveIs, SetKeeps DEF Set

\* A point is added to what was asked for.
LEMMA AddToLastIs ==
  ASSUME NEW a, NEW b, SameTags(b, a), NEW p
  PROVE  /\ SameTags(AddToLast(b, p), a)
         /\ AddToLast(b, p).fields = b.fields /\ AddToLast(b, p).geometry = b.geometry
         /\ AddToLast(b, p).numPoints = b.numPoints /\ AddToLast(b, p).start = b.start
         /\ AddToLast(b, p).cursor = b.cursor
<1> DEFINE l == Len(b.asked.parts)
           q == [b.asked.parts EXCEPT ![l] = Append(@, p)]
           d == [b.asked EXCEPT !.parts = q]
           c == AddToLast(b, p)
<1>1. DOMAIN b = BuilderParts /\ DOMAIN b.asked = AskedParts
  BY DEF SameTags
<1>2. c = [b EXCEPT !.asked = d]
  BY <1>1 DEF AddToLast, BuilderParts, AskedParts
<1> HIDE DEF q, c
<1>3. DOMAIN d = AskedParts /\ d.properties = b.asked.properties
  BY <1>1 DEF AskedParts
<1> HIDE DEF d
<1>4. /\ DOMAIN c = BuilderParts /\ c.asked = d /\ c.kind = b.kind /\ c.layer = b.layer /\ c.tags = b.tags
      /\ c.fields = b.fields /\ c.geometry = b.geometry /\ c.numPoints = b.numPoints
      /\ c.start = b.start /\ c.cursor = b.cursor
  BY <1>1, <1>2 DEF BuilderParts
<1> QED
  BY <1>3, <1>4 DEF SameTags, c

\* What set_point writes (builder.hpp:846-860).
LEMMA DrawIs ==
  ASSUME BuildInv, Alive, builder.numPoints > 0, NEW ns \in Seq(Nat), NEW p
  PROVE  /\ SameTags(Draw(ns, p), builder)
         /\ Draw(ns, p).fields = builder.fields /\ Draw(ns, p).geometry \in Seq(Nat)
         /\ Draw(ns, p).numPoints \in Nat /\ Draw(ns, p).start = builder.start
         /\ Draw(ns, p).cursor = p
<1> DEFINE c == Draw(ns, p)
<1>1. DOMAIN builder = BuilderParts /\ builder.geometry \in Seq(Nat) /\ builder.numPoints \in Nat
  BY AliveIs DEF BuilderOK
<1>2. /\ DOMAIN c = BuilderParts /\ c.asked = builder.asked /\ c.kind = builder.kind /\ c.layer = builder.layer
      /\ c.tags = builder.tags /\ c.fields = builder.fields /\ c.geometry = builder.geometry \o ns
      /\ c.numPoints = builder.numPoints - 1 /\ c.start = builder.start /\ c.cursor = p
  BY <1>1 DEF Draw, BuilderParts
<1> HIDE DEF c
<1>3. c.geometry \in Seq(Nat) /\ c.numPoints \in Nat
  BY <1>1, <1>2
<1>4. SameTags(c, builder)
  BY <1>2, AliveIs DEF SameTags
<1> QED
  BY <1>2, <1>3, <1>4 DEF c

\* The points that a program may set.
LEMMA ItemsAre ==
  ASSUME BuildInv, Alive, NEW p \in job.points
  PROVE  p \in Int \X Int /\ Items(p) \in Seq(Nat)
<1>1. p \in Int \X Int /\ builder.cursor \in Int \X Int
  BY AliveIs DEF IsJob, BuilderOK
<1> QED
  BY <1>1, DeltaIs DEF Items

\* A point that is drawn behind the first.
LEMMA DrawnKeeps ==
  ASSUME BuildInv, Alive, builder.numPoints > 0, ~builder.start, NEW p \in job.points,
         Set(AddToLast(Draw(Items(p), p), p))
  PROVE  KeepsBuilding
<1> DEFINE b == Draw(Items(p), p)
           c == AddToLast(b, p)
<1>1. Items(p) \in Seq(Nat) /\ p \in Int \X Int
  BY ItemsAre
<1>2. /\ SameTags(b, builder) /\ b.fields = builder.fields /\ b.geometry \in Seq(Nat)
      /\ b.numPoints \in Nat /\ b.start = builder.start /\ b.cursor = p
  BY <1>1, DrawIs
<1>3. /\ SameTags(c, builder) /\ c.fields = b.fields /\ c.geometry = b.geometry
      /\ c.numPoints = b.numPoints /\ c.start = b.start /\ c.cursor = b.cursor
  BY <1>2, AddToLastIs
<1>4. Set(c) /\ IsFeature(builder.fields)
  BY AliveIs DEF BuilderOK
<1> HIDE DEF b, c
<1> QED
  BY <1>1, <1>2, <1>3, <1>4, GoOnKeeps

\* set_point throws and leaves what it has written (builder.hpp:842-856).
LEMMA SetPointThrowsKeeps ==
  ASSUME BuildInv, Alive, builder.numPoints > 0, ~builder.start, SetPointThrows
  PROVE  KeepsBuilding
<1> DEFINE b == [builder EXCEPT !.numPoints = @ - 1, !.sound = FALSE]
<1>1. BuilderOK(builder, layers) /\ SameTags(builder, builder) /\ Set(b)
  BY AliveIs DEF SetPointThrows
<1>2. /\ DOMAIN b = BuilderParts /\ b.asked = builder.asked /\ b.kind = builder.kind /\ b.layer = builder.layer
      /\ b.tags = builder.tags /\ b.fields = builder.fields /\ b.geometry = builder.geometry
      /\ b.numPoints = builder.numPoints - 1 /\ b.start = builder.start /\ b.cursor = builder.cursor
  BY <1>1 DEF SameTags, BuilderParts
<1> HIDE DEF b
<1>3. b.numPoints \in Nat
  BY <1>1, <1>2 DEF BuilderOK
<1>4. SameTags(b, builder)
  BY <1>1, <1>2 DEF SameTags
<1>5. /\ IsFeature(b.fields) /\ b.geometry \in Seq(Nat) /\ ~b.start /\ b.cursor \in Int \X Int
  BY <1>1, <1>2 DEF BuilderOK
<1> QED
  BY <1>1, <1>3, <1>4, <1>5, GoOnKeeps

\* set_id (builder.hpp:418-457).
LEMMA SetIdKeeps == BuildInv /\ SetId => KeepsBuilding
<1> SUFFICES ASSUME BuildInv, SetId PROVE KeepsBuilding
  OBVIOUS
<1> DEFINE B(n) == [builder EXCEPT !.fields = Append(@, <<"id", n>>),
                                   !.asked.hasId = TRUE, !.asked.id = n]
<1>1. Alive /\ \E n \in job.ids : Set(B(n))
  BY DEF SetId
<1>2. PICK n \in job.ids : Set(B(n))
  BY <1>1
<1>3. BuilderOK(builder, layers) /\ SameTags(builder, builder) /\ n \in Nat
  BY <1>1, AliveIs DEF IsJob
<1> DEFINE x == <<"id", n>>
           fs == Append(builder.fields, x)
           d == [builder.asked EXCEPT !.hasId = TRUE, !.id = n]
           b == [builder EXCEPT !.fields = fs, !.asked = d]
<1>4. IsFeature(fs)
  BY <1>3, FieldsAre, FieldAdded DEF BuilderOK
<1>5. Set(b)
  <2>1. B(n) = b
    BY <1>3 DEF SameTags, BuilderParts, AskedParts
  <2> QED
    BY <1>2, <2>1
<1> HIDE DEF fs, x, B
<1>6. DOMAIN d = AskedParts /\ d.properties = builder.asked.properties
  BY <1>3 DEF SameTags, AskedParts
<1> HIDE DEF d
<1>7. /\ DOMAIN b = BuilderParts /\ b.asked = d /\ b.kind = builder.kind /\ b.layer = builder.layer
      /\ b.tags = builder.tags /\ b.fields = fs /\ b.geometry = builder.geometry
      /\ b.numPoints = builder.numPoints /\ b.start = builder.start /\ b.cursor = builder.cursor
  BY <1>3 DEF SameTags, BuilderParts
<1> HIDE DEF b
<1>8. SameTags(b, builder)
  BY <1>3, <1>6, <1>7 DEF SameTags
<1> QED
  BY <1>1, <1>3, <1>4, <1>5, <1>7, <1>8, GoOnKeeps DEF BuilderOK

\* add_point (builder.hpp:600-648).
LEMMA AddPointKeeps == BuildInv /\ AddPoint => KeepsBuilding
<1> SUFFICES ASSUME BuildInv, AddPoint PROVE KeepsBuilding
  OBVIOUS
<1> DEFINE G(p) == <<Command(MOVE_TO, 1)>> \o Delta(p, Origin)
           B(p) == [builder EXCEPT !.geometryOpen = TRUE, !.geometry = G(p),
                                   !.asked.parts = <<<<p>>>>]
<1>1. Alive /\ \E p \in job.points : Set(B(p))
  BY DEF AddPoint
<1>2. PICK p \in job.points : Set(B(p))
  BY <1>1
<1>3. BuilderOK(builder, layers) /\ SameTags(builder, builder) /\ p \in Int \X Int
  BY <1>1, AliveIs DEF IsJob
<1> DEFINE g == G(p)
           d == [builder.asked EXCEPT !.parts = <<<<p>>>>]
           b == [builder EXCEPT !.geometryOpen = TRUE, !.geometry = g, !.asked = d]
<1>4. g \in Seq(Nat)
  <2>1. Delta(p, Origin) \in Seq(Nat)
    BY <1>3, DeltaIs DEF Origin
  <2>2. <<Command(MOVE_TO, 1)>> \in Seq(Nat)
    BY CommandIs
  <2> QED
    BY <2>1, <2>2
<1>5. Set(b)
  <2>1. B(p) = b
    <3> HIDE DEF G
    <3> QED
      BY <1>3 DEF SameTags, BuilderParts, AskedParts
  <2> QED
    BY <1>2, <2>1
<1> HIDE DEF g, B, G
<1>6. DOMAIN d = AskedParts /\ d.properties = builder.asked.properties
  BY <1>3 DEF SameTags, AskedParts
<1> HIDE DEF d
<1>7. /\ DOMAIN b = BuilderParts /\ b.asked = d /\ b.kind = builder.kind /\ b.layer = builder.layer
      /\ b.tags = builder.tags /\ b.fields = builder.fields /\ b.geometry = g
      /\ b.numPoints = builder.numPoints /\ b.start = builder.start /\ b.cursor = builder.cursor
  BY <1>3 DEF SameTags, BuilderParts
<1> HIDE DEF b
<1>8. SameTags(b, builder)
  BY <1>3, <1>6, <1>7 DEF SameTags
<1> QED
  BY <1>1, <1>3, <1>4, <1>5, <1>7, <1>8, GoOnKeeps DEF BuilderOK

\* add_points (builder.hpp:648-673).
LEMMA AddPointsKeeps == BuildInv /\ AddPoints => KeepsBuilding
<1> SUFFICES ASSUME BuildInv, AddPoints PROVE KeepsBuilding
  OBVIOUS
<1> DEFINE G(n) == <<Command(MOVE_TO, n)>>
           B(n) == [builder EXCEPT !.geometryOpen = TRUE, !.numPoints = n,
                                   !.geometry = G(n), !.asked.parts = <<<<>>>>]
<1>1. Alive /\ builder.kind = "point" /\ \E n \in job.counts : Set(B(n))
  BY DEF AddPoints
<1>2. PICK n \in job.counts : Set(B(n))
  BY <1>1
<1>3. BuilderOK(builder, layers) /\ SameTags(builder, builder) /\ n \in Nat
  BY <1>1, AliveIs DEF IsJob
<1> DEFINE g == G(n)
           d == [builder.asked EXCEPT !.parts = <<<<>>>>]
           b == [builder EXCEPT !.geometryOpen = TRUE, !.numPoints = n, !.geometry = g, !.asked = d]
<1>4. g \in Seq(Nat)
  BY <1>3, CommandIs
<1>5. Set(b)
  <2>1. B(n) = b
    <3> HIDE DEF G
    <3> QED
      BY <1>3 DEF SameTags, BuilderParts, AskedParts
  <2> QED
    BY <1>2, <2>1
<1> HIDE DEF g, B, G
<1>6. DOMAIN d = AskedParts /\ d.properties = builder.asked.properties
  BY <1>3 DEF SameTags, AskedParts
<1> HIDE DEF d
<1>7. /\ DOMAIN b = BuilderParts /\ b.asked = d /\ b.kind = builder.kind /\ b.layer = builder.layer
      /\ b.tags = builder.tags /\ b.fields = builder.fields /\ b.geometry = g
      /\ b.numPoints = n /\ b.start = builder.start /\ b.cursor = builder.cursor
  BY <1>3 DEF SameTags, BuilderParts
<1> HIDE DEF b
<1>8. SameTags(b, builder)
  BY <1>3, <1>6, <1>7 DEF SameTags
<1>9. ~b.start
  BY <1>1, <1>3, <1>7 DEF BuilderOK
<1> QED
  BY <1>1, <1>3, <1>4, <1>5, <1>7, <1>8, <1>9, GoOnKeeps DEF BuilderOK

\* add_linestring and add_ring (builder.hpp:794-818).
LEMMA AddPartKeeps == BuildInv /\ AddPart => KeepsBuilding
<1> SUFFICES ASSUME BuildInv, AddPart PROVE KeepsBuilding
  OBVIOUS
<1> DEFINE Q == Append(builder.asked.parts, <<>>)
           S == builder.sound /\ builder.numPoints = 0
           B(n) == [builder EXCEPT !.geometryOpen = TRUE, !.numPoints = n, !.start = TRUE,
                                   !.asked.parts = Q, !.sound = S]
<1>1. /\ Alive /\ status = "building" /\ builder.kind \in {"linestring", "polygon"}
      /\ \/ Assertion(builder.numPoints # 0)
         \/ \E n \in job.counts : n > (IF builder.kind = "linestring" THEN 1 ELSE 3) /\ Set(B(n))
  BY DEF AddPart, Alive
<1>2. CASE Assertion(builder.numPoints # 0)
  BY <1>1, <1>2, AssertionKeeps
<1>3. CASE \E n \in job.counts : n > (IF builder.kind = "linestring" THEN 1 ELSE 3) /\ Set(B(n))
  <2>1. PICK n \in job.counts : n > (IF builder.kind = "linestring" THEN 1 ELSE 3) /\ Set(B(n))
    BY <1>3
  <2>2. BuilderOK(builder, layers) /\ SameTags(builder, builder) /\ n \in Nat
    BY <1>1, AliveIs DEF IsJob
  <2>3. n >= 2
    BY <2>1, <2>2
  <2> DEFINE d == [builder.asked EXCEPT !.parts = Q]
             b == [builder EXCEPT !.geometryOpen = TRUE, !.numPoints = n, !.start = TRUE,
                                  !.asked = d, !.sound = S]
  <2>4. Set(b)
    <3>1. B(n) = b
      <4> HIDE DEF Q, S
      <4> QED
        BY <2>2 DEF SameTags, BuilderParts, AskedParts
    <3> QED
      BY <2>1, <3>1
  <2> HIDE DEF Q, B, S
  <2>5. DOMAIN d = AskedParts /\ d.properties = builder.asked.properties
    BY <2>2 DEF SameTags, AskedParts
  <2> HIDE DEF d
  <2>6. /\ DOMAIN b = BuilderParts /\ b.asked = d /\ b.kind = builder.kind /\ b.layer = builder.layer
        /\ b.tags = builder.tags /\ b.fields = builder.fields /\ b.geometry = builder.geometry
        /\ b.numPoints = n /\ b.cursor = builder.cursor
    BY <2>2 DEF SameTags, BuilderParts
  <2> HIDE DEF b
  <2>7. SameTags(b, builder)
    BY <2>2, <2>5, <2>6 DEF SameTags
  <2>8. b.kind # "point"
    BY <1>1, <2>6
  <2> QED
    BY <1>1, <2>2, <2>3, <2>4, <2>6, <2>7, <2>8, GoOnKeeps DEF BuilderOK
<1> QED
  BY <1>1, <1>2, <1>3

\* set_point of points (builder.hpp:673-754).
LEMMA SetPointOfPointsKeeps == BuildInv /\ SetPointOfPoints => KeepsBuilding
<1> SUFFICES ASSUME BuildInv, SetPointOfPoints PROVE KeepsBuilding
  OBVIOUS
<1>1. Alive /\ builder.kind = "point" /\ builder.numPoints > 0
  BY DEF SetPointOfPoints, Setting
<1>2. PICK p \in job.points : Set(AddToLast(Draw(Items(p), p), p))
  BY DEF SetPointOfPoints
<1>3. ~builder.start
  BY <1>1, AliveIs DEF BuilderOK
<1> QED
  BY <1>1, <1>2, <1>3, DrawnKeeps

\* The first point of a line or a ring.
LEMMA StartedKeeps ==
  ASSUME BuildInv, Alive, builder.numPoints > 0, NEW p \in job.points, NEW ns \in Seq(Nat),
         NEW b, Set(AddToLast(b, p)), DOMAIN b = BuilderParts, b.asked = Draw(ns, p).asked,
         b.kind = Draw(ns, p).kind, b.layer = Draw(ns, p).layer, b.tags = Draw(ns, p).tags,
         b.fields = Draw(ns, p).fields, b.geometry = Draw(ns, p).geometry,
         b.numPoints = Draw(ns, p).numPoints, b.cursor = Draw(ns, p).cursor, ~b.start
  PROVE  KeepsBuilding
<1> DEFINE a == Draw(ns, p)
           c == AddToLast(b, p)
<1>1. /\ SameTags(a, builder) /\ a.fields = builder.fields /\ a.geometry \in Seq(Nat)
      /\ a.numPoints \in Nat /\ a.cursor = p
  BY DrawIs
<1>2. p \in Int \X Int
  BY ItemsAre
<1>3. SameTags(b, builder)
  BY <1>1 DEF SameTags
<1>4. /\ SameTags(c, builder) /\ c.fields = b.fields /\ c.geometry = b.geometry
      /\ c.numPoints = b.numPoints /\ c.start = b.start /\ c.cursor = b.cursor
  BY <1>3, AddToLastIs
<1>5. Set(c) /\ IsFeature(builder.fields)
  BY AliveIs DEF BuilderOK
<1> HIDE DEF a, c
<1> QED
  BY <1>1, <1>2, <1>4, <1>5, GoOnKeeps DEF a

\* The items of a first point: there are still n to come.
LEMMA StartIs ==
  ASSUME BuildInv, Alive, NEW p \in job.points, NEW n \in Nat
  PROVE  <<Command(MOVE_TO, 1)>> \o Items(p) \o <<Command(LINE_TO, n)>> \in Seq(Nat)
<1>1. Items(p) \in Seq(Nat) /\ <<Command(MOVE_TO, 1)>> \in Seq(Nat) /\ <<Command(LINE_TO, n)>> \in Seq(Nat)
  BY ItemsAre, CommandIs
<1> QED
  BY <1>1

\* set_point of a line (builder.hpp:819-927).
LEMMA SetPointOfLineKeeps == BuildInv /\ SetPointOfLine => KeepsBuilding
<1> SUFFICES ASSUME BuildInv, SetPointOfLine PROVE KeepsBuilding
  OBVIOUS
<1> DEFINE N(p) == <<Command(MOVE_TO, 1)>> \o Items(p) \o <<Command(LINE_TO, builder.numPoints - 1)>>
           B(p) == [Draw(N(p), p) EXCEPT !.start = FALSE]
<1>1. Alive /\ builder.numPoints > 0
  BY DEF SetPointOfLine, Setting
<1>2. PICK p \in job.points : IF builder.start THEN Set(AddToLast(B(p), p))
                              ELSE IF p = builder.cursor THEN SetPointThrows
                              ELSE Set(AddToLast(Draw(Items(p), p), p))
  BY DEF SetPointOfLine
<1>3. CASE builder.start
  <2>1. builder.numPoints - 1 \in Nat /\ SameTags(builder, builder)
    BY <1>1, <1>3, AliveIs DEF BuilderOK
  <2> DEFINE ns == N(p)
             a == Draw(ns, p)
             b == B(p)
  <2>2. ns \in Seq(Nat)
    BY <1>1, <2>1, StartIs
  <2>3. Set(AddToLast(b, p)) /\ b = [a EXCEPT !.start = FALSE]
    BY <1>2, <1>3
  <2> HIDE DEF ns, b, B, N
  <2>4. DOMAIN a = BuilderParts
    BY <1>1, <2>2, DrawIs DEF SameTags
  <2>5. /\ DOMAIN b = BuilderParts /\ b.asked = a.asked /\ b.kind = a.kind /\ b.layer = a.layer
        /\ b.tags = a.tags /\ b.fields = a.fields /\ b.geometry = a.geometry
        /\ b.numPoints = a.numPoints /\ b.cursor = a.cursor /\ ~b.start
    <3> HIDE DEF a
    <3> QED
      BY <2>3, <2>4 DEF BuilderParts
  <2> QED
    BY <1>1, <2>2, <2>3, <2>5, StartedKeeps
<1>4. CASE ~builder.start /\ p = builder.cursor
  BY <1>1, <1>2, <1>4, SetPointThrowsKeeps
<1>5. CASE ~builder.start /\ p # builder.cursor
  <2>1. Set(AddToLast(Draw(Items(p), p), p))
    BY <1>2, <1>5
  <2> QED
    BY <1>1, <1>5, <2>1, DrawnKeeps
<1> QED
  BY <1>3, <1>4, <1>5

\* The end of a ring.
LEMMA ClosedKeeps ==
  ASSUME BuildInv, Alive, NEW p,
         Set(AddToLast([builder EXCEPT !.geometry = Append(@, Command(CLOSE_PATH, 1)),
                                       !.numPoints = 0], p)),
         builder.numPoints = 1
  PROVE  KeepsBuilding
<1> DEFINE g == Append(builder.geometry, Command(CLOSE_PATH, 1))
           b == [builder EXCEPT !.geometry = g, !.numPoints = 0]
           c == AddToLast(b, p)
<1>1. BuilderOK(builder, layers) /\ SameTags(builder, builder) /\ Set(c)
  BY AliveIs
<1>2. g \in Seq(Nat)
  BY <1>1, CommandIs DEF BuilderOK
<1>3. ~builder.start
  BY <1>1 DEF BuilderOK
<1> HIDE DEF g
<1>4. /\ DOMAIN b = BuilderParts /\ b.asked = builder.asked /\ b.kind = builder.kind /\ b.layer = builder.layer
      /\ b.tags = builder.tags /\ b.fields = builder.fields /\ b.geometry = g
      /\ b.numPoints = 0 /\ b.start = builder.start /\ b.cursor = builder.cursor
  BY <1>1 DEF SameTags, BuilderParts
<1> HIDE DEF b
<1>5. SameTags(b, builder)
  BY <1>1, <1>4 DEF SameTags
<1>6. /\ SameTags(c, builder) /\ c.fields = b.fields /\ c.geometry = b.geometry
      /\ c.numPoints = b.numPoints /\ c.start = b.start /\ c.cursor = b.cursor
  BY <1>5, AddToLastIs
<1> HIDE DEF c
<1>7. c.numPoints \in Nat /\ ~c.start
  BY <1>3, <1>4, <1>6
<1> QED
  BY <1>1, <1>2, <1>4, <1>6, <1>7, GoOnKeeps DEF BuilderOK

\* close_ring (builder.hpp:1090-1114).
LEMMA CloseRingOfBuilderKeeps == BuildInv /\ CloseRingOfBuilder => KeepsBuilding
<1> SUFFICES ASSUME BuildInv, CloseRingOfBuilder PROVE KeepsBuilding
  OBVIOUS
<1>1. Alive /\ builder.numPoints = 1
      /\ Set(AddToLast([builder EXCEPT !.geometry = Append(@, Command(CLOSE_PATH, 1)),
                                       !.numPoints = 0], builder.first))
  BY DEF CloseRingOfBuilder, Setting
<1> QED
  BY <1>1, ClosedKeeps

\* set_point of a ring (builder.hpp:991-1140).
LEMMA SetPointOfRingKeeps == BuildInv /\ SetPointOfRing => KeepsBuilding
<1> SUFFICES ASSUME BuildInv, SetPointOfRing PROVE KeepsBuilding
  OBVIOUS
<1> DEFINE N(p) == <<Command(MOVE_TO, 1)>> \o Items(p) \o <<Command(LINE_TO, builder.numPoints - 2)>>
           B(p) == [Draw(N(p), p) EXCEPT !.start = FALSE, !.first = p]
           C == [builder EXCEPT !.geometry = Append(@, Command(CLOSE_PATH, 1)), !.numPoints = 0]
<1>1. Alive /\ builder.numPoints > 0
  BY DEF SetPointOfRing, Setting
<1>2. PICK p \in job.points :
        IF builder.start THEN Set(AddToLast(B(p), p))
        ELSE IF builder.numPoints = 1
        THEN IF p # builder.first THEN SetPointThrows ELSE Set(AddToLast(C, p))
        ELSE IF p = builder.cursor THEN SetPointThrows
        ELSE Set(AddToLast(Draw(Items(p), p), p))
  BY DEF SetPointOfRing
<1>3. CASE builder.start
  <2>1. builder.numPoints - 2 \in Nat /\ SameTags(builder, builder)
    BY <1>1, <1>3, AliveIs DEF BuilderOK
  <2> DEFINE ns == N(p)
             a == Draw(ns, p)
             b == B(p)
  <2>2. ns \in Seq(Nat)
    BY <1>1, <2>1, StartIs
  <2>3. Set(AddToLast(b, p)) /\ b = [a EXCEPT !.start = FALSE, !.first = p]
    BY <1>2, <1>3
  <2> HIDE DEF ns, b, B, N
  <2>4. DOMAIN a = BuilderParts
    BY <1>1, <2>2, DrawIs DEF SameTags
  <2>5. /\ DOMAIN b = BuilderParts /\ b.asked = a.asked /\ b.kind = a.kind /\ b.layer = a.layer
        /\ b.tags = a.tags /\ b.fields = a.fields /\ b.geometry = a.geometry
        /\ b.numPoints = a.numPoints /\ b.cursor = a.cursor /\ ~b.start
    <3> HIDE DEF a
    <3> QED
      BY <2>3, <2>4 DEF BuilderParts
  <2> QED
    BY <1>1, <2>2, <2>3, <2>5, StartedKeeps
<1>4. CASE ~builder.start /\ SetPointThrows
  BY <1>1, <1>4, SetPointThrowsKeeps
<1>5. CASE builder.numPoints = 1 /\ Set(AddToLast(C, p))
  BY <1>1, <1>5, ClosedKeeps
<1>6. CASE ~builder.start /\ Set(AddToLast(Draw(Items(p), p), p))
  BY <1>1, <1>6, DrawnKeeps
<1> HIDE DEF B, C
<1> QED
  BY <1>2, <1>3, <1>4, <1>5, <1>6

\* set_geometry (builder.hpp:1143-1249).
LEMMA SetGeometryKeeps == BuildInv /\ SetGeometry => KeepsBuilding
<1> SUFFICES ASSUME BuildInv, SetGeometry PROVE KeepsBuilding
  OBVIOUS
<1> DEFINE T(i) == <<"type", SourceFeature(i).type>>
           G(i) == <<"geometry", SourceFeature(i).geometry>>
           B(i) == [builder EXCEPT !.fields = @ \o <<T(i), G(i)>>,
                                   !.tagsOpen = TRUE, !.asked.type = SourceFeature(i).type,
                                   !.asked.parts = job.contents[i].parts]
<1>1. Alive /\ status = "building" /\ \E i \in DOMAIN job.contents : Set(B(i))
  BY DEF SetGeometry, Alive
<1>2. PICK i \in DOMAIN job.contents : Set(B(i))
  BY <1>1
<1>3. BuilderOK(builder, layers) /\ SameTags(builder, builder) /\ SourceFeature(i) \in Features
  BY <1>1, AliveIs, JobIs
<1> DEFINE fs == builder.fields \o <<T(i), G(i)>>
           s == SourceFeature(i).type
           q == job.contents[i].parts
           d == [builder.asked EXCEPT !.type = s, !.parts = q]
           b == [builder EXCEPT !.fields = fs, !.tagsOpen = TRUE, !.asked = d]
<1>4. IsFeature(fs)
  <2>1. SourceFeature(i).type \in Nat /\ SourceFeature(i).geometry \in Seq(Nat)
    BY <1>3 DEF Features, UNKNOWN, POLYGON
  <2>2. NumberField(T(i)) /\ ListField(G(i))
    BY <2>1, FieldsAre
  <2>3. IsFeature(<<T(i), G(i)>>)
    BY <2>2, TwoFields
  <2> HIDE DEF T, G
  <2> QED
    BY <1>3, <2>3, FeatureJoin DEF BuilderOK
<1>5. Set(b)
  <2>1. B(i) = b
    <3> HIDE DEF T, G
    <3> QED
      BY <1>3 DEF SameTags, BuilderParts, AskedParts
  <2> QED
    BY <1>2, <2>1
<1> HIDE DEF fs, B, s, q
<1>6. DOMAIN d = AskedParts /\ d.properties = builder.asked.properties
  BY <1>3 DEF SameTags, AskedParts
<1> HIDE DEF d
<1>7. /\ DOMAIN b = BuilderParts /\ b.asked = d /\ b.kind = builder.kind /\ b.layer = builder.layer
      /\ b.tags = builder.tags /\ b.fields = fs /\ b.geometry = builder.geometry
      /\ b.numPoints = builder.numPoints /\ b.start = builder.start /\ b.cursor = builder.cursor
  BY <1>3 DEF SameTags, BuilderParts
<1> HIDE DEF b
<1>8. SameTags(b, builder)
  BY <1>3, <1>6, <1>7 DEF SameTags
<1> QED
  BY <1>1, <1>3, <1>4, <1>5, <1>7, <1>8, GoOnKeeps DEF BuilderOK

-----------------------------------------------------------------------------
(* The properties of a feature.                                            *)

\* prepare_to_add_property() leaves the tags alone (builder.hpp:384-394).
LEMMA PreparedIs ==
  ASSUME NEW ls, NEW b, BuilderOK(b, ls)
  PROVE  /\ BuilderOK(Prepared(b), ls) /\ Prepared(b).layer = b.layer /\ Prepared(b).kind = b.kind
         /\ Prepared(b).tags = b.tags /\ Prepared(b).asked = b.asked
<1>1. CASE b.kind = "geometry"
  BY <1>1 DEF Prepared
<1>2. CASE b.kind # "geometry"
  <2> DEFINE x == <<"geometry", b.geometry>>
             fs == IF b.geometryOpen /\ b.geometry # <<>> THEN Append(b.fields, x) ELSE b.fields
             s == b.sound /\ b.numPoints = 0
             c == Prepared(b)
  <2>1. IsFeature(fs)
    <3>1. ListField(x)
      BY FieldsAre DEF BuilderOK
    <3>2. IsFeature(Append(b.fields, x)) /\ IsFeature(b.fields)
      <4> HIDE DEF x
      <4> QED
        BY <3>1, FieldAdded DEF BuilderOK
    <3> HIDE DEF x
    <3> QED
      BY <3>2
  <2>2. DOMAIN b = BuilderParts
    BY DEF BuilderOK
  <2>3. c = [b EXCEPT !.fields = fs, !.geometryOpen = FALSE, !.tagsOpen = TRUE, !.sound = s]
    BY <1>2, <2>2 DEF Prepared, BuilderParts
  <2> HIDE DEF fs, s, c
  <2>4. /\ DOMAIN c = BuilderParts /\ c.asked = b.asked /\ c.kind = b.kind /\ c.layer = b.layer
        /\ c.tags = b.tags /\ c.fields = fs /\ c.geometry = b.geometry
        /\ c.numPoints = b.numPoints /\ c.start = b.start /\ c.cursor = b.cursor
    BY <2>2, <2>3 DEF BuilderParts
  <2>5. BuilderOK(c, ls)
    BY <2>1, <2>4 DEF BuilderOK
  <2> QED
    BY <2>4, <2>5 DEF c
<1> QED
  BY <1>1, <1>2

\* A builder with other tags that mean other properties.
LEMMA RetaggedOK ==
  ASSUME NEW ls, NEW a, BuilderOK(a, ls), NEW ms, Len(ms) = Len(ls), NEW ts, NEW ps,
         TagsOK(ts, ps, ms[a.layer].keys.texts, ms[a.layer].values.texts)
  PROVE  BuilderOK([a EXCEPT !.tags = ts, !.asked.properties = ps], ms)
<1> DEFINE d == [a.asked EXCEPT !.properties = ps]
           b == [a EXCEPT !.tags = ts, !.asked.properties = ps]
<1>1. DOMAIN a = BuilderParts /\ DOMAIN a.asked = AskedParts
  BY DEF BuilderOK
<1>2. b = [a EXCEPT !.tags = ts, !.asked = d]
  BY <1>1 DEF BuilderParts, AskedParts
<1>3. DOMAIN d = AskedParts /\ d.properties = ps
  BY <1>1 DEF AskedParts
<1> HIDE DEF b, d
<1>4. /\ DOMAIN b = BuilderParts /\ b.asked = d /\ b.kind = a.kind /\ b.layer = a.layer
      /\ b.tags = ts /\ b.fields = a.fields /\ b.geometry = a.geometry
      /\ b.numPoints = a.numPoints /\ b.start = a.start /\ b.cursor = a.cursor
  BY <1>1, <1>2 DEF BuilderParts
<1>5. BuilderOK(b, ms)
  BY <1>3, <1>4 DEF BuilderOK
<1> QED
  BY <1>5 DEF b

\* What a change of tables does.
LEMMA ChangesAre ==
  ASSUME BuildInv, status = "building", NEW l \in 1 .. Len(layers), NEW keys, NEW values, NEW c,
         TablesGrew(layers[l], keys, values), CachesOK(job, c, keys, values),
         Changes(l, keys, values, c), UNCHANGED built
  PROVE  /\ GoodStep(job, layers, caches, built, layers', caches', built')
         /\ Len(layers') = Len(layers) /\ layers'[l].keys = keys /\ layers'[l].values = values
<1>1. Good(job, layers, caches, built) /\ IsSeq(layers) /\ LayerOK(layers[l])
  BY DEF BuildInv, Good, LayersInv
<1>2. GoodStep(job, layers, caches, built, layers', caches', built')
  <2>1. GoodStep(job, layers, caches, built, [layers EXCEPT ![l].keys = keys, ![l].values = values],
                 [caches EXCEPT ![l] = c], built)
    BY <1>1, TablesChanged
  <2> QED
    BY <2>1 DEF Changes
<1> DEFINE a == [layers[l] EXCEPT !.keys = keys]
           m == [a EXCEPT !.values = values]
<1>3. layers' = [layers EXCEPT ![l] = m]
  <2>1. DOMAIN layers = 1 .. Len(layers)
    BY <1>1, SeqIs
  <2>2. [layers EXCEPT ![l].keys = keys] = [layers EXCEPT ![l] = a]
    BY <2>1
  <2>3. [[layers EXCEPT ![l] = a] EXCEPT ![l].values = values] = [layers EXCEPT ![l] = m]
    <3> HIDE DEF a
    <3> QED
      BY <2>1
  <2> QED
    BY <2>2, <2>3 DEF Changes
<1>4. m.keys = keys /\ m.values = values
  BY <1>1 DEF LayerOK, LayerParts
<1> HIDE DEF m
<1>5. Len(layers') = Len(layers) /\ layers'[l] = m
  BY <1>1, <1>3, Changed
<1> QED
  BY <1>2, <1>4, <1>5

\* The layer of the builder that adds a property.
LEMMA BuilderLayer ==
  ASSUME BuildInv, MayAddProperty
  PROVE  /\ status = "building" /\ Alive /\ BuilderOK(builder, layers)
         /\ builder.layer \in 1 .. Len(layers) /\ LayerOK(layers[builder.layer])
         /\ CachesOK(job, caches[builder.layer], layers[builder.layer].keys,
                     layers[builder.layer].values)
<1>1. Alive
  BY DEF MayAddProperty
<1> QED
  BY <1>1, AliveIs DEF LayersInv, BuilderOK

\* The builder gets properties, and its layer their texts.
LEMMA PropertiesKeep ==
  ASSUME BuildInv, MayAddProperty, NEW keys, NEW values, NEW c, NEW ts, NEW ps,
         TablesGrew(layers[builder.layer], keys, values), CachesOK(job, c, keys, values),
         Changes(builder.layer, keys, values, c), TagsOK(ts, ps, keys.texts, values.texts),
         builder' = [Prepared(builder) EXCEPT !.tags = ts, !.asked.properties = ps],
         UNCHANGED <<job, status, tile, built, whole>>
  PROVE  KeepsBuilding
<1> DEFINE l == builder.layer
<1>1. l \in 1 .. Len(layers) /\ status = "building" /\ BuilderOK(builder, layers)
  BY BuilderLayer
<1>2. /\ GoodStep(job, layers, caches, built, layers', caches', built')
      /\ Len(layers') = Len(layers) /\ layers'[l].keys = keys /\ layers'[l].values = values
  BY <1>1, ChangesAre
<1>3. BuilderOK(Prepared(builder), layers) /\ Prepared(builder).layer = l
  BY <1>1, PreparedIs
<1>4. BuilderOK(builder', layers')
  BY <1>2, <1>3, RetaggedOK
<1> QED
  BY <1>1, <1>2, <1>4, StepKeeps

\* One property.
LEMMA AddedKeeps ==
  ASSUME BuildInv, MayAddProperty, NEW c, NEW kt, NEW vt, NEW ki, NEW vi, NEW key, NEW value,
         Puts(layers[builder.layer].keys, key, kt, ki),
         Puts(layers[builder.layer].values, value, vt, vi), CachesOK(job, c, kt, vt),
         Added(builder, builder.layer, c, kt, vt, ki, vi, key, value)
  PROVE  KeepsBuilding
<1> DEFINE l == builder.layer
           p == <<key, value>>
           old == layers[l]
           ts == builder.tags \o <<ki, vi>>
           ps == Append(builder.asked.properties, p)
           a == Prepared(builder)
<1>1. status = "building" /\ BuilderOK(builder, layers) /\ LayerOK(old)
  BY BuilderLayer
<1>2. CASE Assertion(builder.geometryOpen /\ builder.numPoints # 0)
  BY <1>1, <1>2, AssertionKeeps
<1>3. CASE /\ Changes(l, kt, vt, c) /\ builder' = WithProperty(a, ki, vi, key, value)
           /\ UNCHANGED <<job, status, tile, built, whole>>
  <2>1. a.tags = builder.tags /\ a.asked = builder.asked /\ BuilderOK(a, layers)
    BY <1>1, PreparedIs
  <2>2. builder' = [a EXCEPT !.tags = ts, !.asked.properties = ps]
    <3>1. DOMAIN a = BuilderParts /\ DOMAIN a.asked = AskedParts
      BY <2>1 DEF BuilderOK
    <3> HIDE DEF a, p
    <3>2. WithProperty(a, ki, vi, key, value) = [a EXCEPT !.tags = ts, !.asked.properties = ps]
      BY <2>1, <3>1 DEF WithProperty, BuilderParts, AskedParts, p
    <3> QED
      BY <1>3, <3>2
  <2>3. IsSeq(old.keys.texts) /\ IsSeq(old.values.texts)
    BY <1>1 DEF LayerOK, TableOK
  <2>4. TablesGrew(old, old.keys, old.values)
    BY <1>1, SelfGrows DEF LayerOK, TablesGrew
  <2>5. p[1] = key /\ p[2] = value
    OBVIOUS
  <2>6. TagsOK(builder.tags, builder.asked.properties, old.keys.texts, old.values.texts)
    BY <1>1 DEF BuilderOK
  <2> HIDE DEF p
  <2>7. TablesGrew(old, kt, vt)
    BY <2>3, <2>4, <2>5, <2>6, PutBoth
  <2>8. TagsOK(ts, ps, kt.texts, vt.texts)
    BY <2>3, <2>4, <2>5, <2>6, PutBoth
  <2> HIDE DEF ts, ps
  <2> QED
    BY <1>3, <2>2, <2>7, <2>8, PropertiesKeep
<1> QED
  BY <1>2, <1>3 DEF Added

\* add_property with texts (builder.hpp:508-526).
LEMMA AddPropertyKeeps == BuildInv /\ AddProperty => KeepsBuilding
<1> SUFFICES ASSUME BuildInv, AddProperty PROVE KeepsBuilding
  OBVIOUS
<1> DEFINE l == builder.layer
           k(key) == AddText(layers[l].keys, key)
           v(value) == AddText(layers[l].values, value)
<1>1. MayAddProperty /\ \E key \in job.keys, value \in job.values :
        Added(builder, l, caches[l], k(key).table, v(value).table, k(key).index, v(value).index, key, value)
  BY DEF AddProperty
<1>2. PICK key \in job.keys, value \in job.values :
        Added(builder, l, caches[l], k(key).table, v(value).table, k(key).index, v(value).index, key, value)
  BY <1>1
<1>3. LayerOK(layers[l]) /\ CachesOK(job, caches[l], layers[l].keys, layers[l].values)
  BY <1>1, BuilderLayer
<1>4. /\ Puts(layers[l].keys, key, k(key).table, k(key).index)
      /\ Puts(layers[l].values, value, v(value).table, v(value).index)
  BY <1>3, AddTextIs DEF LayerOK
<1>5. TablesGrew(layers[l], k(key).table, v(value).table)
  BY <1>4 DEF TablesGrew, Puts
<1>6. CachesOK(job, caches[l], k(key).table, v(value).table)
  BY <1>3, <1>5, CachesKeep DEF LayerOK
<1> HIDE DEF k, v
<1> QED
  BY <1>1, <1>2, <1>4, <1>6, AddedKeeps

\* add_property with indexes (builder.hpp:458-472).
LEMMA AddPropertyByIndexKeeps == BuildInv /\ AddPropertyByIndex => KeepsBuilding
<1> SUFFICES ASSUME BuildInv, AddPropertyByIndex PROVE KeepsBuilding
  OBVIOUS
<1> DEFINE l == builder.layer
           ks == layers[l].keys
           vs == layers[l].values
<1>1. MayAddProperty /\ \E ki \in DOMAIN ks.texts, vi \in DOMAIN vs.texts :
        Added(builder, l, caches[l], ks, vs, ki - 1, vi - 1, ks.texts[ki], vs.texts[vi])
  BY DEF AddPropertyByIndex
<1>2. PICK ki \in DOMAIN ks.texts, vi \in DOMAIN vs.texts :
        Added(builder, l, caches[l], ks, vs, ki - 1, vi - 1, ks.texts[ki], vs.texts[vi])
  BY <1>1
<1>3. LayerOK(layers[l]) /\ CachesOK(job, caches[l], ks, vs)
  BY <1>1, BuilderLayer
<1>4. TableOK(ks) /\ TableOK(vs) /\ IsSeq(ks.texts) /\ IsSeq(vs.texts)
  BY <1>3 DEF LayerOK, TableOK
<1> HIDE DEF ks, vs
<1>5. ki \in 1 .. Len(ks.texts) /\ vi \in 1 .. Len(vs.texts) /\ Len(ks.texts) \in Nat /\ Len(vs.texts) \in Nat
  BY <1>2, <1>4, SeqIs
<1>6. Puts(ks, ks.texts[ki], ks, ki - 1)
  <2>1. ki - 1 \in 0 .. Len(ks.texts) - 1 /\ (ki - 1) + 1 = ki
    BY <1>5
  <2> QED
    BY <1>4, <2>1, ExtendsSelf DEF Puts
<1>7. Puts(vs, vs.texts[vi], vs, vi - 1)
  <2>1. vi - 1 \in 0 .. Len(vs.texts) - 1 /\ (vi - 1) + 1 = vi
    BY <1>5
  <2> QED
    BY <1>4, <2>1, ExtendsSelf DEF Puts
<1> QED
  BY <1>1, <1>2, <1>3, <1>6, <1>7, AddedKeeps DEF ks, vs

\* add_property with the indexes of key_index and value_index (index.hpp:90-239).
LEMMA AddPropertyByCacheKeeps == BuildInv /\ AddPropertyByCache => KeepsBuilding
<1> SUFFICES ASSUME BuildInv, AddPropertyByCache PROVE KeepsBuilding
  OBVIOUS
<1> DEFINE l == builder.layer
           c == caches[l]
           ks == layers[l].keys
           vs == layers[l].values
           k(key) == AddCached(c.keys, key, ks, key)
           v(value) == AddCached(c.values, value, vs, value)
           d(key, value) == [c EXCEPT !.keys = k(key).cache, !.values = v(value).cache]
<1>1. MayAddProperty /\ \E key \in job.keys, value \in job.values :
        Added(builder, l, d(key, value), k(key).table, v(value).table,
              k(key).index, v(value).index, key, value)
  BY DEF AddPropertyByCache
<1>2. PICK key \in job.keys, value \in job.values :
        Added(builder, l, d(key, value), k(key).table, v(value).table,
              k(key).index, v(value).index, key, value)
  BY <1>1
<1>3. LayerOK(layers[l]) /\ CachesOK(job, c, ks, vs)
  BY <1>1, BuilderLayer
<1>4. TableOK(ks) /\ TableOK(vs) /\ IsSeq(ks.texts) /\ IsSeq(vs.texts)
  BY <1>3 DEF LayerOK, TableOK
<1>5. SameText(job.keys)[key] = key /\ SameText(job.values)[value] = value
  BY DEF SameText
<1>6. Puts(ks, key, k(key).table, k(key).index)
      /\ CacheOK(k(key).cache, k(key).table.texts, SameText(job.keys))
  BY <1>3, <1>4, <1>5, AddCachedIs DEF CachesOK
<1>7. Puts(vs, value, v(value).table, v(value).index)
      /\ CacheOK(v(value).cache, v(value).table.texts, SameText(job.values))
  BY <1>3, <1>4, <1>5, AddCachedIs DEF CachesOK
<1>8. CachesOK(job, c, k(key).table, v(value).table)
  <2>1. TablesGrew(layers[l], k(key).table, v(value).table)
    BY <1>6, <1>7 DEF TablesGrew, Puts
  <2> QED
    BY <1>3, <1>4, <2>1, CachesKeep
<1> HIDE DEF k, v
<1>9. CachesOK(job, d(key, value), k(key).table, v(value).table)
  <2>1. DOMAIN c = CacheParts
    BY <1>3 DEF CachesOK
  <2>2. /\ DOMAIN d(key, value) = CacheParts
        /\ d(key, value).keys = k(key).cache /\ d(key, value).values = v(value).cache
        /\ d(key, value).mappedKeys = c.mappedKeys /\ d(key, value).mappedValues = c.mappedValues
    <3> HIDE DEF c
    <3> QED
      BY <2>1 DEF CacheParts
  <2> HIDE DEF d
  <2> QED
    BY <1>6, <1>7, <1>8, <2>2 DEF CachesOK
<1> HIDE DEF d
<1> QED
  BY <1>1, <1>2, <1>6, <1>7, <1>9, AddedKeeps

\* add_key and add_value of a layer (builder.hpp:221-295).
LEMMA AddKeyOrValueKeeps == BuildInv /\ AddKeyOrValue => KeepsBuilding
<1> SUFFICES ASSUME BuildInv, AddKeyOrValue PROVE KeepsBuilding
  OBVIOUS
<1> DEFINE Unchecked(t, s) == [AddWithoutDupCheck(t, s).table EXCEPT !.checked = FALSE]
           ks(l) == layers[l].keys
           vs(l) == layers[l].values
           AnyOf(l, key, value) ==
             \/ Changes(l, AddText(ks(l), key).table, vs(l), caches[l])
             \/ Changes(l, ks(l), AddText(vs(l), value).table, caches[l])
             \/ Changes(l, Unchecked(ks(l), key), vs(l), caches[l])
             \/ Changes(l, ks(l), Unchecked(vs(l), value), caches[l])
<1>1. status = "building" /\ UNCHANGED <<job, builder, status, tile, built, whole>>
  BY DEF AddKeyOrValue
<1>2. \E l \in DOMAIN layers, key \in job.keys, value \in job.values : AnyOf(l, key, value)
  BY DEF AddKeyOrValue
<1>3. PICK l \in DOMAIN layers, key \in job.keys, value \in job.values : AnyOf(l, key, value)
  BY <1>2
<1>4. Good(job, layers, caches, built) /\ l \in 1 .. Len(layers)
  BY <1>1, JobIs, SeqIs DEF Good, LayersInv
<1>5. LayerOK(layers[l]) /\ CachesOK(job, caches[l], ks(l), vs(l))
  BY <1>4 DEF Good, LayersInv
<1>6. TableOK(ks(l)) /\ TableOK(vs(l)) /\ TablesGrew(layers[l], ks(l), vs(l))
  BY <1>5, SelfGrows DEF LayerOK, TablesGrew
<1>7. \E kt, vt : TablesGrew(layers[l], kt, vt) /\ Changes(l, kt, vt, caches[l])
  <2>1. CASE Changes(l, AddText(ks(l), key).table, vs(l), caches[l])
    <3>1. TablesGrew(layers[l], AddText(ks(l), key).table, vs(l))
      BY <1>6, AddTextIs DEF TablesGrew, Puts
    <3> QED
      BY <2>1, <3>1
  <2>2. CASE Changes(l, ks(l), AddText(vs(l), value).table, caches[l])
    <3>1. TablesGrew(layers[l], ks(l), AddText(vs(l), value).table)
      BY <1>6, AddTextIs DEF TablesGrew, Puts
    <3> QED
      BY <2>2, <3>1
  <2>3. CASE Changes(l, Unchecked(ks(l), key), vs(l), caches[l])
    <3>1. TablesGrew(layers[l], Unchecked(ks(l), key), vs(l))
      BY <1>6, UncheckedIs DEF TablesGrew, Puts
    <3> QED
      BY <2>3, <3>1
  <2>4. CASE Changes(l, ks(l), Unchecked(vs(l), value), caches[l])
    <3>1. TablesGrew(layers[l], ks(l), Unchecked(vs(l), value))
      BY <1>6, UncheckedIs DEF TablesGrew, Puts
    <3> QED
      BY <2>4, <3>1
  <2> QED
    BY <1>3, <2>1, <2>2, <2>3, <2>4
<1>8. PICK kt, vt : TablesGrew(layers[l], kt, vt) /\ Changes(l, kt, vt, caches[l])
  BY <1>7
<1>9. CachesOK(job, caches[l], kt, vt)
  BY <1>5, <1>6, <1>8, CachesKeep
<1>10. GoodStep(job, layers, caches, built, layers', caches', built')
  BY <1>1, <1>4, <1>8, <1>9, ChangesAre
<1>11. builder'.kind # "none" => BuilderOK(builder', layers')
  <2> SUFFICES ASSUME builder'.kind # "none" PROVE BuilderOK(builder', layers')
    OBVIOUS
  <2>1. builder' = builder /\ BuilderOK(builder, layers)
    BY <1>1 DEF BuildInv, Alive
  <2>2. BuilderOK(builder, layers')
    BY <1>4, <1>10, <2>1, StillOK
  <2> QED
    BY <2>1, <2>2
<1> QED
  BY <1>1, <1>10, <1>11, StepKeeps

\* Properties that are copied: what has been written, behind what there was.
LEMMA CopiedKeeps ==
  ASSUME BuildInv, MayAddProperty, NEW r, NEW ps, NEW c,
         Written(layers[builder.layer], r, ps), CachesOK(job, c, r.keys, r.values),
         Changes(builder.layer, r.keys, r.values, c),
         builder' = [Prepared(builder) EXCEPT !.tags = @ \o r.tags, !.asked.properties = @ \o ps],
         UNCHANGED <<job, status, tile, built, whole>>
  PROVE  KeepsBuilding
<1> DEFINE l == builder.layer
           a == Prepared(builder)
           ts == builder.tags \o r.tags
           qs == builder.asked.properties \o ps
<1>1. BuilderOK(builder, layers) /\ LayerOK(layers[l])
  BY BuilderLayer
<1>2. a.tags = builder.tags /\ a.asked = builder.asked /\ BuilderOK(a, layers)
  BY <1>1, PreparedIs
<1>3. builder' = [a EXCEPT !.tags = ts, !.asked.properties = qs]
  <2>1. DOMAIN a = BuilderParts /\ DOMAIN a.asked = AskedParts
    BY <1>2 DEF BuilderOK
  <2>2. builder' = [a EXCEPT !.tags = @ \o r.tags, !.asked.properties = @ \o ps]
    OBVIOUS
  <2> HIDE DEF a
  <2> QED
    BY <1>2, <2>1, <2>2 DEF BuilderParts, AskedParts
<1>4. TagsOK(ts, qs, r.keys.texts, r.values.texts)
  <2>1. /\ IsSeq(layers[l].keys.texts) /\ IsSeq(layers[l].values.texts)
        /\ IsSeq(r.keys.texts) /\ IsSeq(r.values.texts)
        /\ Extends(layers[l].keys.texts, r.keys.texts) /\ Extends(layers[l].values.texts, r.values.texts)
    BY <1>1 DEF LayerOK, TableOK, Written, TablesGrew
  <2>2. TagsOK(builder.tags, builder.asked.properties, r.keys.texts, r.values.texts)
    BY <1>1, <2>1, TagsKeep DEF BuilderOK
  <2>3. TagsOK(r.tags, ps, r.keys.texts, r.values.texts)
    BY DEF Written
  <2> QED
    BY <2>1, <2>2, <2>3, TagsJoin
<1>5. TablesGrew(layers[l], r.keys, r.values)
  BY DEF Written
<1> HIDE DEF ts, qs, a
<1> QED
  BY <1>3, <1>4, <1>5, PropertiesKeep DEF a

\* copy_properties (builder.hpp:473-487, 1282-1294).
LEMMA CopyPropertiesKeeps == BuildInv /\ CopyProperties => KeepsBuilding
<1> SUFFICES ASSUME BuildInv, CopyProperties PROVE KeepsBuilding
  OBVIOUS
<1> DEFINE l == builder.layer
           read(i) == ForEachProperty(Source, SourceFeature(i).tags)
           r(i) == AddTexts(l, read(i).properties)
           a == Prepared(builder)
           b(i) == [a EXCEPT !.tags = @ \o r(i).tags, !.asked.properties = @ \o read(i).properties]
<1>1. /\ MayAddProperty
      /\ \/ Assertion(builder.geometryOpen /\ builder.numPoints # 0)
         \/ \E i \in DOMAIN job.contents : Copied(l, r(i), b(i))
  BY DEF CopyProperties
<1>2. status = "building" /\ LayerOK(layers[l]) /\ CachesOK(job, caches[l], layers[l].keys, layers[l].values)
  BY <1>1, BuilderLayer
<1>3. CASE Assertion(builder.geometryOpen /\ builder.numPoints # 0)
  BY <1>2, <1>3, AssertionKeeps
<1>4. CASE \E i \in DOMAIN job.contents : Copied(l, r(i), b(i))
  <2>1. PICK i \in DOMAIN job.contents : Copied(l, r(i), b(i))
    BY <1>4
  <2>2. SourceFeature(i) \in Features
    BY <1>2, JobIs
  <2>3. SourceFeature(i).tags \in Seq(Nat)
    BY <2>2 DEF Features
  <2> DEFINE ps == read(i).properties
             s == r(i)
  <2>4. IsSeq(ps)
    BY <2>3, ForEachIs DEF ReadsPairs
  <2>5. Written(layers[l], s, ps)
    <3> HIDE DEF read
    <3> QED
      BY <1>2, <2>4, TextsAre DEF LayerOK
  <2>6. /\ Changes(l, s.keys, s.values, caches[l]) /\ builder' = b(i)
        /\ UNCHANGED <<job, status, tile, built, whole>>
    BY <2>1 DEF Copied
  <2>7. builder' = [a EXCEPT !.tags = @ \o s.tags, !.asked.properties = @ \o ps]
    BY <2>6
  <2> HIDE DEF s, ps, a, r, read, b
  <2>8. TablesGrew(layers[l], s.keys, s.values)
    BY <2>5 DEF Written
  <2>9. CachesOK(job, caches[l], s.keys, s.values)
    BY <1>2, <2>8, CachesKeep DEF LayerOK
  <2> QED
    BY <1>1, <2>5, <2>6, <2>7, <2>9, CopiedKeeps DEF a
<1> QED
  BY <1>1, <1>3, <1>4

\* copy_properties with a mapper (builder.hpp:488-506).
LEMMA CopyPropertiesMappedKeeps == BuildInv /\ CopyPropertiesMapped => KeepsBuilding
<1> SUFFICES ASSUME BuildInv, CopyPropertiesMapped PROVE KeepsBuilding
  OBVIOUS
<1> DEFINE l == builder.layer
           tags(i) == SourceFeature(i).tags
           read(i) == ForEachProperty(Source, tags(i))
           r(i) == MappedAfter(l, tags(i))[Len(tags(i)) \div 2]
           a == Prepared(builder)
           b(i) == [a EXCEPT !.tags = @ \o r(i).tags, !.asked.properties = @ \o read(i).properties]
           Does(i) == /\ Changes(l, r(i).keys, r(i).values, r(i).cache) /\ builder' = b(i)
                      /\ UNCHANGED <<job, status, tile, built, whole>>
<1>1. /\ MayAddProperty
      /\ \E i \in DOMAIN job.contents :
           /\ read(i).error = "none"
           /\ \/ Assertion(builder.geometryOpen /\ builder.numPoints # 0)
              \/ Does(i)
  BY DEF CopyPropertiesMapped
<1>2. status = "building" /\ LayerOK(layers[l]) /\ CachesOK(job, caches[l], layers[l].keys, layers[l].values)
  BY <1>1, BuilderLayer
<1>3. PICK i \in DOMAIN job.contents :
        read(i).error = "none" /\ (Assertion(builder.geometryOpen /\ builder.numPoints # 0) \/ Does(i))
  BY <1>1
<1>4. CASE Assertion(builder.geometryOpen /\ builder.numPoints # 0)
  BY <1>2, <1>4, AssertionKeeps
<1>5. CASE Does(i)
  <2>1. SourceFeature(i) \in Features /\ TablesInv(Source) /\ Source.data = job.data
    BY <1>2, JobIs
  <2>2. tags(i) \in Seq(Nat)
    BY <2>1 DEF Features
  <2> DEFINE ps == read(i).properties
             s == r(i)
  <2>3. ReadsPairs(Source, tags(i), Len(tags(i)) \div 2, read(i)) /\ read(i).error = "none"
    BY <1>3, <2>2, ForEachIs
  <2>4. builder' = [a EXCEPT !.tags = @ \o s.tags, !.asked.properties = @ \o ps]
    BY <1>5
  <2>5. /\ Changes(l, s.keys, s.values, s.cache) /\ UNCHANGED <<job, status, tile, built, whole>>
    BY <1>5
  <2>6. Written(layers[l], s, ps) /\ CachesOK(job, s.cache, s.keys, s.values)
    <3> HIDE DEF read, tags
    <3> QED
      BY <1>2, <2>1, <2>2, <2>3, MappedAre DEF LayerOK
  <2> HIDE DEF s, ps, a, r, read, b, Does
  <2> QED
    BY <1>1, <2>4, <2>5, <2>6, CopiedKeeps DEF a
<1> QED
  BY <1>3, <1>4, <1>5

-----------------------------------------------------------------------------
(* Committing features.                                                    *)

\* What a builder has written when it commits is a feature.
LEMMA FinishedIs ==
  ASSUME NEW ls, NEW b, BuilderOK(b, ls)
  PROVE  IsFeature(Finished(b))
<1> DEFINE g == <<"geometry", b.geometry>>
           t == <<"tags", b.tags>>
           x == IF b.geometryOpen /\ b.geometry # <<>> THEN <<g>> ELSE <<>>
           y == IF b.tags # <<>> THEN <<t>> ELSE <<>>
<1>1. IsFeature(b.fields) /\ b.geometry \in Seq(Nat) /\ b.tags \in Seq(Nat)
  BY DEF BuilderOK, TagsOK
<1>2. ListField(g) /\ ListField(t)
  BY <1>1, FieldsAre
<1>3. IsFeature(<<g>>) /\ IsFeature(<<t>>) /\ IsFeature(<<>>)
  <2> HIDE DEF g, t
  <2> QED
    BY <1>2, FieldIs, FieldsAre
<1>4. IsFeature(x) /\ IsFeature(y)
  <2> HIDE DEF g, t
  <2> QED
    BY <1>3
<1>5. Finished(b) = b.fields \o x \o y
  BY DEF Finished
<1> HIDE DEF x, y
<1>6. IsFeature(b.fields \o x)
  BY <1>1, <1>4, FeatureJoin
<1> QED
  BY <1>4, <1>5, <1>6, FeatureJoin

\* A layer that gets a feature, and texts.
LEMMA CommitGood ==
  ASSUME BuildInv, status = "building", NEW l \in 1 .. Len(layers), NEW m, NEW f, NEW a,
         LayerOK(m), TablesGrew(layers[l], m.keys, m.values), m.data = layers[l].data, IsFeature(f)
  PROVE  GoodStep(job, layers, caches, built, [layers EXCEPT ![l] = Committed(m, f)], caches,
                  [built EXCEPT ![l].features = Append(@, a)])
<1> DEFINE n == Committed(m, f)
           fs == Append(built[l].features, a)
           d == [built[l] EXCEPT !.features = fs]
<1>1. Good(job, layers, caches, built)
  BY JobIs
<1>2. /\ IsSeq(layers) /\ IsSeq(caches) /\ IsSeq(built) /\ Len(caches) = Len(layers) /\ Len(built) = Len(layers)
      /\ LayerOK(layers[l]) /\ CachesOK(job, caches[l], layers[l].keys, layers[l].values)
      /\ DOMAIN built[l] = PromiseParts /\ IsSeq(built[l].features)
  BY <1>1 DEF Good, LayersInv, BuiltInv
<1>3. /\ LayerOK(n) /\ Extends(m.data, n.data) /\ Len(n.data) = Len(m.data) + 1
      /\ n.keys = m.keys /\ n.values = m.values
  BY CommittedIs
<1> HIDE DEF n
<1>4. CachesOK(job, caches[l], n.keys, n.values)
  BY <1>2, <1>3, CachesKeep DEF LayerOK
<1>5. DOMAIN d = PromiseParts /\ d.features = fs
  <2> HIDE DEF fs
  <2> QED
    BY <1>2 DEF PromiseParts
<1>6. IsSeq(fs) /\ Len(fs) = Len(built[l].features) + 1
  BY <1>2, Grown
<1>7. [built EXCEPT ![l].features = Append(@, a)] = [built EXCEPT ![l] = d]
  BY <1>2, SeqIs
<1> HIDE DEF fs, d
<1>8. Len(n.data) - Len(layers[l].data) = Len(d.features) - Len(built[l].features)
  <2>1. Len(layers[l].data) \in Nat /\ Len(built[l].features) \in Nat
    BY <1>2, SelfGrows, SeqIs
  <2> QED
    BY <1>3, <1>5, <1>6, <2>1
<1>9. GoodStep(job, layers, caches, built, [layers EXCEPT ![l] = n], [caches EXCEPT ![l] = caches[l]],
               [built EXCEPT ![l] = d])
  BY <1>1, <1>3, <1>4, <1>5, <1>6, <1>8, OneLayer
<1>10. [caches EXCEPT ![l] = caches[l]] = caches
  <2>1. \A i \in DOMAIN caches : [caches EXCEPT ![l] = caches[l]][i] = caches[i]
    OBVIOUS
  <2> QED
    BY <1>2, <2>1 DEF IsSeq
<1> QED
  BY <1>7, <1>9, <1>10 DEF n

\* commit (builder.hpp:527-546).
LEMMA CommitKeeps == BuildInv /\ Commit => KeepsBuilding
<1> SUFFICES ASSUME BuildInv, Commit PROVE KeepsBuilding
  OBVIOUS
<1> DEFINE l == builder.layer
           f == Finished(builder)
<1>1. Alive /\ status = "building"
  BY DEF Commit, Alive
<1>2. CASE Assertion(builder.numPoints # 0)
  BY <1>1, <1>2, AssertionKeeps
<1>3. CASE ~Assertion(builder.numPoints # 0)
  <2>1. /\ layers' = [layers EXCEPT ![l] = Committed(layers[l], f)]
        /\ built' = [built EXCEPT ![l].features = Append(@, builder.asked)]
        /\ builder' = NoBuilder /\ UNCHANGED <<job, caches, status, tile>>
    BY <1>3 DEF Commit
  <2>2. BuilderOK(builder, layers) /\ IsFeature(f)
    BY <1>1, AliveIs, FinishedIs
  <2>3. l \in 1 .. Len(layers) /\ LayerOK(layers[l])
    BY <1>1, <2>2, AliveIs DEF BuilderOK, LayersInv
  <2>4. TablesGrew(layers[l], layers[l].keys, layers[l].values)
    BY <2>3, SelfGrows DEF LayerOK, TablesGrew
  <2> HIDE DEF f
  <2>5. GoodStep(job, layers, caches, built, [layers EXCEPT ![l] = Committed(layers[l], f)], caches,
                 [built EXCEPT ![l].features = Append(@, builder.asked)])
    BY <1>1, <2>2, <2>3, <2>4, CommitGood
  <2>6. GoodStep(job, layers, caches, built, layers', caches', built')
    BY <2>1, <2>5
  <2>7. builder'.kind = "none"
    BY <2>1 DEF NoBuilder
  <2> QED
    BY <1>1, <2>1, <2>6, <2>7, StepKeeps
<1> QED
  BY <1>2, <1>3

\* rollback, and a builder that is destroyed (builder.hpp:395-417, 547-566).
LEMMA RollbackKeeps == BuildInv /\ Rollback => KeepsBuilding
<1> SUFFICES ASSUME BuildInv, Rollback PROVE KeepsBuilding
  OBVIOUS
<1>1. status = "building" /\ (Assertion(builder.numPoints # 0) \/ Set(NoBuilder))
  BY DEF Rollback, Alive
<1>2. CASE Assertion(builder.numPoints # 0)
  BY <1>1, <1>2, AssertionKeeps
<1>3. CASE Set(NoBuilder)
  BY <1>1, <1>3, SetKeeps DEF Set, NoBuilder
<1> QED
  BY <1>1, <1>2, <1>3

-----------------------------------------------------------------------------
(* Serializing.                                                            *)

\* Sequences over a set, one behind the other, are a sequence over it.
LEMMA FlattenIs ==
  ASSUME NEW F, NEW seqs, IsSeq(seqs), \A n \in 1 .. Len(seqs) : seqs[n] \in Seq(F)
  PROVE  FlattenSeq(seqs) \in Seq(F)
<1> DEFINE N == Len(seqs)
           S == Seq(F)
           step(n, x) == IF n = 1 THEN seqs[n] ELSE x \o seqs[n]
           G == [p \in (1 .. N) \X S |-> step(p[1], p[2])]
           flat(f) == f = [n \in 1 .. N |-> step(n, f[n - 1])]
           J == CHOOSE f : flat(f)
<1>1. N \in Nat /\ <<>> \in S
  BY SeqIs
<1>2. \A n \in 1 .. N : \A x \in S : step(n, x) \in S /\ G[<<n, x>>] = step(n, x)
  OBVIOUS
<1>3. PICK g : IsRun(g, N, S, <<>>, G)
  <2>1. StepsStay(N, S, G)
    BY <1>2, Zenon DEF StepsStay
  <2> HIDE DEF G, N, S
  <2> QED
    BY <1>1, <2>1, Recursion, Zenon
<1>4. ASSUME NEW n \in 1 .. N PROVE g[n] = step(n, g[n - 1])
  <2> HIDE DEF G, S, step
  <2>1. g[n - 1] \in S
    BY <1>1, <1>3 DEF IsRun
  <2>2. g[n] = G[<<n, g[n - 1]>>]
    BY <1>3 DEF IsRun
  <2>3. G[<<n, g[n - 1]>>] = step(n, g[n - 1])
    BY <1>2, <2>1
  <2> QED
    BY <2>2, <2>3
<1> DEFINE h == [n \in 1 .. N |-> g[n]]
<1>5. flat(h)
  <2>1. ASSUME NEW n \in 1 .. N PROVE h[n] = step(n, h[n - 1])
    <3>1. CASE n = 1
      BY <1>4, <3>1
    <3>2. CASE n # 1
      <4>1. n - 1 \in 1 .. N
        BY <1>1, <3>2
      <4>2. h[n] = g[n] /\ h[n - 1] = g[n - 1]
        BY <4>1
      <4> HIDE DEF h, step
      <4> QED
        BY <1>4, <4>2
    <3> QED
      BY <3>1, <3>2
  <2>2. h = [n \in 1 .. N |-> h[n]]
    OBVIOUS
  <2> HIDE DEF h, step
  <2> QED
    BY <2>1, <2>2
<1>6. flat(J)
  <2> HIDE DEF flat
  <2> QED
    BY <1>5
<1>7. \A n \in 1 .. N : J[n] = step(n, J[n - 1])
  <2> HIDE DEF step, J
  <2> QED
    BY <1>6
<1> DEFINE Q == {n \in Nat : n + 1 <= N => J[n + 1] \in S}
<1>8. \A n \in Nat : n \in Q
  <2>1. 0 \in Q
    <3> SUFFICES ASSUME 1 <= N PROVE J[1] \in S
      OBVIOUS
    <3>1. 1 \in 1 .. N
      BY <1>1
    <3> HIDE DEF J
    <3> QED
      BY <1>7, <3>1
  <2>2. ASSUME NEW n \in Nat, n \in Q PROVE n + 1 \in Q
    <3> SUFFICES ASSUME (n + 1) + 1 <= N PROVE J[(n + 1) + 1] \in S
      OBVIOUS
    <3>1. n + 1 \in 1 .. N /\ (n + 1) + 1 \in 1 .. N /\ ((n + 1) + 1) - 1 = n + 1
      BY <1>1
    <3> HIDE DEF J, S, step
    <3>2. J[n + 1] \in S
      BY <1>1, <2>2, <3>1
    <3> QED
      BY <1>2, <1>7, <3>1, <3>2
  <2> HIDE DEF Q
  <2> QED
    BY <2>1, <2>2, NatSetInduction
<1>9. CASE N = 0
  BY <1>9 DEF FlattenSeq
<1>10. CASE N # 0
  <2>1. FlattenSeq(seqs) = J[N]
    <3>1. J = CHOOSE f : f = [i \in 1 .. Len(seqs) |-> IF i = 1 THEN seqs[i] ELSE f[i - 1] \o seqs[i]]
      OBVIOUS
    <3> HIDE DEF J
    <3> QED
      BY <1>10, <3>1 DEF FlattenSeq
  <2>2. N - 1 \in Nat /\ (N - 1) + 1 = N
    BY <1>1, <1>10
  <2>3. N - 1 \in Q
    BY <1>8, <2>2
  <2>4. J[N] \in S
    <3> HIDE DEF J, S
    <3> QED
      BY <1>1, <2>2, <2>3
  <2> QED
    BY <2>1, <2>4
<1> QED
  BY <1>9, <1>10

\* The tables of a layer that is serialized (builder_impl.hpp:225-259).
LEMMA TextFieldsAre ==
  ASSUME NEW t, IsSeq(t.texts), NEW tag \in {"keys", "values"}, NEW s,
         s = [i \in DOMAIN t.texts |-> <<tag, t.texts[i]>>]
  PROVE  IsLayer(s)
<1> DEFINE n == Len(t.texts)
           S == {<<tag, t.texts[i]>> : i \in 1 .. n}
<1>1. n \in Nat /\ DOMAIN t.texts = 1 .. n
  BY SeqIs
<1>2. s \in Seq(S)
  <2>1. s = [i \in 1 .. n |-> <<tag, t.texts[i]>>]
    BY <1>1
  <2>2. \A i \in 1 .. n : <<tag, t.texts[i]>> \in S
    OBVIOUS
  <2> HIDE DEF S
  <2> QED
    BY <1>1, <2>1, <2>2
<1>3. IsSeq(s) /\ \A f \in ToSet(s) : f \in S
  <2> HIDE DEF S
  <2>1. IsSeq(s)
    BY <1>2, SeqOfIsSeq
  <2>2. \A f \in ToSet(s) : f \in S
    BY <1>2 DEF ToSet
  <2> QED
    BY <2>1, <2>2
<1>4. \A f \in S : f[1] # "features"
  OBVIOUS
<1> HIDE DEF S
<1> QED
  BY <1>3, <1>4 DEF IsLayer

\* Fields of layers, one behind the other.
LEMMA LayerJoin ==
  ASSUME NEW s, IsLayer(s), NEW t, IsLayer(t)
  PROVE  IsLayer(s \o t)
BY JoinIs DEF IsLayer

\* A layer that is serialized (builder_impl.hpp:225-259).
LEMMA LayerFieldsAre ==
  ASSUME NEW l, LayerOK(l)
  PROVE  IsTile(LayerFields(l))
<1> DEFINE k == [i \in DOMAIN l.keys.texts |-> <<"keys", l.keys.texts[i]>>]
           v == [i \in DOMAIN l.values.texts |-> <<"values", l.values.texts[i]>>]
           d == l.data \o k \o v
           x == <<"layers", l.data>>
           y == <<"layers", d>>
<1>1. IsLayer(l.data) /\ IsSeq(l.keys.texts) /\ IsSeq(l.values.texts)
  BY DEF LayerOK, TableOK
<1>2. IsLayer(k) /\ IsLayer(v)
  BY <1>1, TextFieldsAre
<1>3. LayerFields(l) = IF l.existing THEN <<x>> ELSE IF l.numFeatures = 0 THEN <<>> ELSE <<y>>
  BY DEF LayerFields
<1> HIDE DEF k, v
<1>4. IsLayer(d)
  BY <1>1, <1>2, LayerJoin
<1>5. x[2] = l.data /\ y[2] = d
  OBVIOUS
<1> HIDE DEF d, x, y
<1>6. IsTile(<<x>>) /\ IsTile(<<y>>)
  BY <1>1, <1>4, <1>5, OneIsSeq DEF IsTile
<1>7. IsTile(<<>>)
  BY DEF IsTile, IsSeq, ToSet
<1> QED
  BY <1>3, <1>6, <1>7

\* Layers, one behind the other, are a tile.
LEMMA TilesJoin ==
  ASSUME NEW seqs, IsSeq(seqs), \A n \in 1 .. Len(seqs) : IsTile(seqs[n])
  PROVE  IsTile(FlattenSeq(seqs))
<1> DEFINE T == {ToSet(seqs[n]) : n \in 1 .. Len(seqs)}
           F == UNION T
           u == FlattenSeq(seqs)
<1>1. ASSUME NEW n \in 1 .. Len(seqs) PROVE seqs[n] \in Seq(F)
  <2>1. seqs[n] \in Seq(ToSet(seqs[n])) /\ ToSet(seqs[n]) \in T
    BY DEF IsTile, IsSeq
  <2>2. ToSet(seqs[n]) \subseteq F
    <3> HIDE DEF T
    <3> QED
      BY <2>1
  <2> HIDE DEF F
  <2> QED
    BY <2>1, <2>2
<1>2. u \in Seq(F)
  <2> HIDE DEF F
  <2> QED
    BY <1>1, FlattenIs
<1>3. \A f \in F : f[1] = "layers" => IsLayer(f[2])
  BY DEF IsTile
<1> HIDE DEF F, u
<1>4. IsSeq(u)
  BY <1>2, SeqOfIsSeq
<1>5. \A f \in ToSet(u) : f \in F
  BY <1>2 DEF ToSet
<1> QED
  BY <1>3, <1>4, <1>5 DEF IsTile, u

\* serialize (builder.hpp:134-170).
LEMMA SerializeKeeps == BuildInv /\ Serialize => KeepsBuilding
<1> SUFFICES ASSUME BuildInv, Serialize PROVE KeepsBuilding
  OBVIOUS
<1> DEFINE s == [l \in DOMAIN layers |-> LayerFields(layers[l])]
           n == Len(layers)
<1>1. /\ status = "building" /\ status' = "serialized" /\ tile' = FlattenSeq(s)
      /\ UNCHANGED <<job, layers, builder, caches, built, whole>>
  BY DEF Serialize, Between
<1>2. IsSeq(layers) /\ \A l \in 1 .. n : LayerOK(layers[l])
  BY DEF BuildInv, LayersInv
<1>3. n \in Nat /\ DOMAIN layers = 1 .. n
  BY <1>2, SeqIs
<1>4. IsSeq(s) /\ Len(s) = n /\ \A l \in 1 .. n : s[l] = LayerFields(layers[l])
  <2> DEFINE S == {LayerFields(layers[l]) : l \in 1 .. n}
  <2>1. s = [l \in 1 .. n |-> LayerFields(layers[l])]
    BY <1>3
  <2>2. \A l \in 1 .. n : LayerFields(layers[l]) \in S
    OBVIOUS
  <2> HIDE DEF S
  <2>3. s \in Seq(S) /\ Len(s) = n /\ \A l \in 1 .. n : s[l] = LayerFields(layers[l])
    BY <1>3, <2>1, <2>2
  <2> HIDE DEF s
  <2> QED
    BY <2>3, SeqOfIsSeq
<1> HIDE DEF s
<1>5. \A l \in 1 .. Len(s) : IsTile(s[l])
  BY <1>2, <1>4, LayerFieldsAre
<1>6. IsTile(tile')
  BY <1>1, <1>4, <1>5, TilesJoin
<1> QED
  BY <1>1, <1>6 DEF BuildInv, KeepsBuilding, Grows, Alive

-----------------------------------------------------------------------------
\* A feature that is copied as a whole.
LEMMA AddFeatureKeeps == BuildInv /\ AddFeature => KeepsBuilding
<1> SUFFICES ASSUME BuildInv, AddFeature PROVE KeepsBuilding
  OBVIOUS
<1> DEFINE f(i) == SourceFeature(i)
           read(i) == ForEachProperty(Source, f(i).tags)
           r(l, i) == AddTexts(l, read(i).properties)
           a(i) == IF f(i).hasId THEN <<<<"id", f(i).id>>>> ELSE <<>>
           b(i) == <<<<"type", f(i).type>>, <<"geometry", f(i).geometry>>>>
           c(l, i) == IF r(l, i).tags # <<>> THEN <<<<"tags", r(l, i).tags>>>> ELSE <<>>
           fields(l, i) == a(i) \o b(i) \o c(l, i)
           m(l, i) == [layers[l] EXCEPT !.keys = r(l, i).keys, !.values = r(l, i).values]
<1>1. /\ status = "building" /\ builder.kind = "none" /\ UNCHANGED <<job, builder, caches, status, tile>>
      /\ \E l \in DOMAIN layers, i \in DOMAIN job.contents :
           /\ layers' = [layers EXCEPT ![l] = IF read(i).error = "none"
                                              THEN Committed(m(l, i), fields(l, i)) ELSE m(l, i)]
           /\ built' = IF read(i).error = "none"
                       THEN [built EXCEPT ![l].features = Append(@, job.contents[i])] ELSE built
  BY DEF AddFeature, Between
<1>2. PICK l \in DOMAIN layers, i \in DOMAIN job.contents :
        /\ layers' = [layers EXCEPT ![l] = IF read(i).error = "none"
                                           THEN Committed(m(l, i), fields(l, i)) ELSE m(l, i)]
        /\ built' = IF read(i).error = "none"
                    THEN [built EXCEPT ![l].features = Append(@, job.contents[i])] ELSE built
  BY <1>1
<1>3. /\ Good(job, layers, caches, built) /\ SourceFeature(i) \in Features /\ l \in 1 .. Len(layers)
  BY <1>1, JobIs, SeqIs DEF Good, LayersInv
<1>4. LayerOK(layers[l]) /\ CachesOK(job, caches[l], layers[l].keys, layers[l].values)
  BY <1>3 DEF Good, LayersInv
<1>5. f(i).tags \in Seq(Nat) /\ f(i).geometry \in Seq(Nat) /\ f(i).id \in Nat /\ f(i).type \in Nat
  BY <1>3 DEF Features, UNKNOWN, POLYGON
<1>6. IsSeq(read(i).properties)
  BY <1>5, ForEachIs DEF ReadsPairs
<1>7. Written(layers[l], r(l, i), read(i).properties)
  <2> HIDE DEF read
  <2> QED
    BY <1>4, <1>6, TextsAre DEF LayerOK
<1> HIDE DEF r
<1>8. TablesGrew(layers[l], r(l, i).keys, r(l, i).values) /\ r(l, i).tags \in Seq(Nat)
  BY <1>7 DEF Written, TagsOK
<1>9. IsFeature(fields(l, i))
  <2>1. IsFeature(a(i))
    <3> DEFINE x == <<"id", f(i).id>>
    <3>1. NumberField(x)
      BY <1>5, FieldsAre
    <3> HIDE DEF x
    <3>2. IsFeature(<<x>>) /\ IsFeature(<<>>)
      BY <3>1, FieldIs, FieldsAre
    <3> QED
      BY <3>2 DEF x
  <2>2. IsFeature(b(i))
    <3> DEFINE x == <<"type", f(i).type>>
               y == <<"geometry", f(i).geometry>>
    <3>1. NumberField(x) /\ ListField(y)
      BY <1>5, FieldsAre
    <3> HIDE DEF x, y
    <3>2. IsFeature(<<x, y>>)
      BY <3>1, TwoFields
    <3> QED
      BY <3>2 DEF x, y
  <2>3. IsFeature(c(l, i))
    <3> DEFINE x == <<"tags", r(l, i).tags>>
    <3>1. ListField(x)
      BY <1>8, FieldsAre
    <3> HIDE DEF x
    <3>2. IsFeature(<<x>>) /\ IsFeature(<<>>)
      BY <3>1, FieldIs, FieldsAre
    <3> QED
      BY <3>2 DEF x
  <2> HIDE DEF a, b, c
  <2>4. IsFeature(a(i) \o b(i))
    BY <2>1, <2>2, FeatureJoin
  <2> QED
    BY <2>3, <2>4, FeatureJoin
<1> HIDE DEF fields
<1>10. /\ LayerOK(m(l, i)) /\ m(l, i).data = layers[l].data
       /\ m(l, i).keys = r(l, i).keys /\ m(l, i).values = r(l, i).values
  <2>1. DOMAIN layers[l] = LayerParts
    BY <1>4 DEF LayerOK
  <2>2. /\ DOMAIN m(l, i) = LayerParts /\ m(l, i).data = layers[l].data
        /\ m(l, i).keys = r(l, i).keys /\ m(l, i).values = r(l, i).values
    BY <2>1 DEF LayerParts
  <2> HIDE DEF m
  <2> QED
    BY <1>4, <1>8, <2>2 DEF LayerOK, TablesGrew
<1>11. CASE read(i).error = "none"
  <2>1. /\ layers' = [layers EXCEPT ![l] = Committed(m(l, i), fields(l, i))]
        /\ built' = [built EXCEPT ![l].features = Append(@, job.contents[i])]
    BY <1>2, <1>11
  <2> HIDE DEF m
  <2>2. GoodStep(job, layers, caches, built, [layers EXCEPT ![l] = Committed(m(l, i), fields(l, i))], caches,
                 [built EXCEPT ![l].features = Append(@, job.contents[i])])
    BY <1>1, <1>3, <1>8, <1>9, <1>10, CommitGood
  <2>3. GoodStep(job, layers, caches, built, layers', caches', built')
    BY <1>1, <2>1, <2>2
  <2> QED
    BY <1>1, <2>3, StepKeeps
<1>12. CASE read(i).error # "none"
  <2>1. layers' = [layers EXCEPT ![l] = m(l, i)] /\ built' = built
    BY <1>2, <1>12
  <2>2. [layers EXCEPT ![l] = m(l, i)] = [layers EXCEPT ![l].keys = r(l, i).keys, ![l].values = r(l, i).values]
    <3> DEFINE q == [layers[l] EXCEPT !.keys = r(l, i).keys]
    <3>1. m(l, i) = [q EXCEPT !.values = r(l, i).values]
      OBVIOUS
    <3>2. [layers EXCEPT ![l].keys = r(l, i).keys] = [layers EXCEPT ![l] = q]
      BY <1>2
    <3>3. [[layers EXCEPT ![l] = q] EXCEPT ![l].values = r(l, i).values]
          = [layers EXCEPT ![l] = [q EXCEPT !.values = r(l, i).values]]
      <4> HIDE DEF q
      <4> QED
        BY <1>2
    <3> QED
      BY <3>1, <3>2, <3>3
  <2>3. CachesOK(job, caches[l], r(l, i).keys, r(l, i).values)
    BY <1>4, <1>8, CachesKeep DEF LayerOK
  <2>4. Changes(l, r(l, i).keys, r(l, i).values, caches[l])
    <3>1. [caches EXCEPT ![l] = caches[l]] = caches
      <4>1. \A j \in DOMAIN caches : [caches EXCEPT ![l] = caches[l]][j] = caches[j]
        OBVIOUS
      <4>2. IsSeq(caches)
        BY <1>3 DEF Good, LayersInv
      <4> QED
        BY <4>1, <4>2 DEF IsSeq
    <3> QED
      BY <1>1, <2>1, <2>2, <3>1 DEF Changes
  <2>5. GoodStep(job, layers, caches, built, layers', caches', built')
    BY <1>1, <1>3, <1>8, <2>1, <2>3, <2>4, ChangesAre
  <2> QED
    BY <1>1, <2>5, StepKeeps
<1> QED
  BY <1>11, <1>12

\* Every step of the builders.
LEMMA BuilderKeeps == BuildInv /\ BuilderNext => KeepsBuilding
BY AddLayerKeeps, AddLayerLikeKeeps, AddExistingLayerKeeps, StartFeatureKeeps, SetIdKeeps,
   AddPointKeeps, AddPointsKeeps, AddPartKeeps, SetPointOfPointsKeeps, SetPointOfLineKeeps,
   SetPointOfRingKeeps, CloseRingOfBuilderKeeps, SetGeometryKeeps, AddPropertyKeeps,
   AddPropertyByIndexKeeps, AddPropertyByCacheKeeps, AddKeyOrValueKeeps, CopyPropertiesKeeps,
   CopyPropertiesMappedKeeps, CommitKeeps, RollbackKeeps, AddFeatureKeeps, SerializeKeeps
   DEF BuilderNext

-----------------------------------------------------------------------------
(* The invariant of the two programs.                                      *)

VectorTileInv == BuildInv /\ ReaderInv /\ DecoderInv

\* Before the first step.
LEMMA StartInv ==
  ASSUME Init
  PROVE  VectorTileInv
<1>1. IsSeq(<<>>) /\ Len(<<>>) = 0
  BY DEF IsSeq, ToSet
<1>2. /\ layers = <<>> /\ caches = <<>> /\ built = <<>> /\ builder = NoBuilder /\ tile = <<>> /\ Idle
      /\ (status = "foreign" \/ job \in Jobs)
      /\ (reading = "no" /\ text = <<>>) \/ (reading = "tile" /\ text \in Foreign)
  BY DEF Init
<1>3. BuildInv
  BY <1>1, <1>2, NoTileIs DEF BuildInv, LayersInv, BuiltInv, Alive, NoBuilder
<1>4. ReaderInv
  <2>1. IsTile(text)
    BY <1>2, NoTileIs, VectorTileAssumption
  <2>2. TablesInv(layer)
    BY <1>2, NoLayerIs DEF Idle
  <2>3. tileAt = 0 /\ layerAt = 0
    BY <1>2 DEF Idle
  <2>4. WalkInv
    BY <1>2, <2>1, <2>3, CountIs DEF WalkInv
  <2> QED
    BY <1>2, <2>1, <2>2, <2>4 DEF ReaderInv, LayerInv, FeatureInv, Walking, InFeature
<1>5. DecoderInv
  <2>1. Decoder(<<>>, 0, UNKNOWN)
    BY <1>2 DEF Idle
  <2>2. <<>> \in Seq(Nat) /\ UNKNOWN \in UNKNOWN .. POLYGON
    BY DEF UNKNOWN, POLYGON
  <2> QED
    BY <2>1, <2>2, DecoderStarts
<1> QED
  BY <1>3, <1>4, <1>5 DEF VectorTileInv

\* A decoder that begins.
LEMMA DecoderBegins ==
  ASSUME items' \in Seq(Nat), limit' \in Nat, type' \in UNKNOWN .. POLYGON,
         place' = "type", it' = 0, cursor' = Origin, count' = 0, area' = 0, parts' = <<>>
  PROVE  DecoderInv'
<1> USE DEF UNKNOWN, POINT, LINESTRING, POLYGON
<1>1. TypeOK'
  BY DEF TypeOK, Places, Points, Origin, Parts
<1>2. CountMatchesPlace'
  BY DEF CountMatchesPlace
<1>3. PartsComplete'
  BY DEF PartsComplete
<1> QED
  BY <1>1, <1>2, <1>3 DEF DecoderInv

\* A feature that is delivered begins with its geometry.
LEMMA NextFeatureBegins == ReaderInv /\ DecoderInv /\ NextFeature => DecoderInv'
<1> SUFFICES ASSUME ReaderInv, DecoderInv, NextFeature PROVE DecoderInv'
  OBVIOUS
<1> DEFINE d == All(layer.data, "features")
           f == ReadFeature(d[layerAt + 1])
<1>1. f \in Features
  <2>1. /\ reading = "layer" /\ layerAt < layer.numFeatures /\ layerAt \in Nat /\ TablesInv(layer)
        /\ layer.numFeatures = Len(All(layer.data, "features"))
    BY DEF NextFeature, ReaderInv, WalkInv, LayerInv, Walking, Delivered
  <2>2. Len(d) \in Nat
    BY <2>1, FeaturesCount
  <2>3. layerAt + 1 \in 1 .. Len(d)
    BY <2>1, <2>2
  <2>4. IsFeature(d[layerAt + 1])
    BY <2>1, <2>3, FeaturesAreFeatures DEF TablesInv
  <2> QED
    BY <2>4, ReadFeatureIs
<1>2. CASE f.error # "none"
  <2>1. UNCHANGED decoderVars
    BY <1>2 DEF NextFeature
  <2> QED
    BY <2>1, DecoderStepKeeps
<1>3. CASE f.error = "none"
  <2>1. f.geometry \in Seq(Nat) /\ f.type \in UNKNOWN .. POLYGON /\ BytesOf(f.geometry) \in Nat
    BY <1>1, BytesAreNumbers DEF Features
  <2>2. /\ items' = f.geometry /\ limit' = BytesOf(f.geometry) \div 2 /\ type' = f.type
        /\ place' = "type" /\ it' = 0 /\ cursor' = Origin
        /\ count' = 0 /\ area' = 0 /\ parts' = <<>>
    BY <1>3 DEF NextFeature
  <2> HIDE DEF f
  <2>3. limit' \in Nat
    BY <2>1, <2>2
  <2> QED
    BY <2>1, <2>2, <2>3, DecoderBegins
<1> QED
  BY <1>2, <1>3

\* Every step of a reader keeps the invariant of the decoder.
LEMMA DecoderKeeps == ReaderInv /\ DecoderInv /\ ReaderNext => DecoderInv'
<1> SUFFICES ASSUME ReaderInv, DecoderInv, ReaderNext PROVE DecoderInv'
  OBVIOUS
<1>1. CASE NextFeature
  BY <1>1, NextFeatureBegins
<1>2. CASE GeometryDecoded
  <2>1. /\ items' = <<>> /\ limit' = 0 /\ type' = UNKNOWN
        /\ place' = "type" /\ it' = 0 /\ cursor' = Origin /\ count' = 0 /\ area' = 0 /\ parts' = <<>>
    BY <1>2 DEF GeometryDecoded, NoDecoder
  <2>2. items' \in Seq(Nat) /\ limit' \in Nat /\ type' \in UNKNOWN .. POLYGON
    BY <2>1 DEF UNKNOWN, POLYGON
  <2> QED
    BY <2>1, <2>2, DecoderBegins
<1>3. CASE DecodeStep
  BY <1>3, DecoderStepKeeps DEF DecodeStep
<1>4. CASE UNCHANGED decoderVars
  BY <1>4, DecoderStepKeeps
<1> QED
  BY <1>1, <1>2, <1>3, <1>4
     DEF ReaderNext, NextLayer, NoMoreLayers, ResetLayer, NoMoreFeatures, ResetFeature,
         LookAtTables, NextProperty, EachProperty, ResetProperty, NoMoreProperties

\* The builders while a tile is read.
LEMMA BuildStays ==
  ASSUME BuildInv, UNCHANGED builderVars
  PROVE  BuildInv'
BY DEF BuildInv, builderVars, Alive

\* The reader while a tile is built.
LEMMA ReaderStays ==
  ASSUME ReaderInv, UNCHANGED readerVars
  PROVE  ReaderInv'
BY DEF ReaderInv, readerVars, WalkInv, LayerInv, FeatureInv, Walking, InFeature

\* What serialize made is read.
LEMMA HandOverKeeps == VectorTileInv /\ HandOver => VectorTileInv'
<1> SUFFICES ASSUME VectorTileInv, HandOver PROVE VectorTileInv'
  OBVIOUS
<1>1. /\ status = "serialized" /\ reading = "no" /\ text' = tile /\ reading' = "tile"
      /\ layers' = <<>> /\ caches' = <<>> /\ tile' = <<>>
      /\ UNCHANGED <<job, builder, status, built, whole>>
      /\ UNCHANGED <<decoderVars, tileAt, layerAt, layer>>
  BY DEF HandOver, position
<1>2. IsSeq(<<>>) /\ Len(<<>>) = 0
  BY DEF IsSeq, ToSet
<1>3. BuildInv'
  BY <1>1, <1>2, NoTileIs DEF VectorTileInv, BuildInv, LayersInv, Alive
<1>4. ReaderInv'
  <2>1. IsTile(text)' /\ TablesInv(layer)' /\ tileAt' = 0 /\ layerAt' \in Nat
    BY <1>1 DEF VectorTileInv, BuildInv, ReaderInv, WalkInv
  <2>2. CountLayers(text)' \in Nat
    <3>1. CountLayers(tile) \in Nat
      BY AllElements DEF VectorTileInv, BuildInv, IsTile, CountLayers
    <3> QED
      BY <1>1, <3>1
  <2>3. WalkInv'
    BY <1>1, <2>1, <2>2 DEF WalkInv
  <2> QED
    BY <1>1, <2>1, <2>3 DEF ReaderInv, LayerInv, FeatureInv, Walking, InFeature
<1>5. DecoderInv'
  BY <1>1, DecoderStepKeeps DEF VectorTileInv
<1> QED
  BY <1>3, <1>4, <1>5 DEF VectorTileInv

\* Every step of the two programs.
LEMMA NextKeeps == VectorTileInv /\ [Next]_vars => VectorTileInv'
<1> SUFFICES ASSUME VectorTileInv, [Next]_vars PROVE VectorTileInv'
  OBVIOUS
<1>1. CASE Build
  <2>1. BuildInv'
    BY <1>1, BuilderKeeps DEF Build, KeepsBuilding, VectorTileInv
  <2>2. ReaderInv'
    BY <1>1, ReaderStays DEF Build, VectorTileInv
  <2>3. DecoderInv'
    BY <1>1, DecoderStepKeeps DEF Build, VectorTileInv
  <2> QED
    BY <2>1, <2>2, <2>3 DEF VectorTileInv
<1>2. CASE HandOver
  BY <1>2, HandOverKeeps
<1>3. CASE ReadOn
  <2>1. BuildInv'
    BY <1>3, BuildStays DEF ReadOn, VectorTileInv
  <2>2. ReaderInv'
    BY <1>3, ReaderKeeps DEF ReadOn, VectorTileInv
  <2>3. DecoderInv'
    BY <1>3, DecoderKeeps DEF ReadOn, VectorTileInv
  <2> QED
    BY <2>1, <2>2, <2>3 DEF VectorTileInv
<1>4. CASE UNCHANGED vars
  <2>1. BuildInv'
    BY <1>4, BuildStays DEF vars, VectorTileInv
  <2>2. ReaderInv'
    BY <1>4, ReaderStays DEF vars, VectorTileInv
  <2>3. DecoderInv'
    BY <1>4, DecoderStepKeeps DEF vars, VectorTileInv
  <2> QED
    BY <2>1, <2>2, <2>3 DEF VectorTileInv
<1> QED
  BY <1>1, <1>2, <1>3, <1>4 DEF Next, Ended

\* Whatever programs do and whatever tiles they read, layers, tables, caches and
\* the builder that is alive are in order, the reader is where it was left, and
\* so is the decoder.
THEOREM VectorTileInvariant == Spec => []VectorTileInv
<1>1. Init => VectorTileInv
  BY StartInv
<1> QED
  BY <1>1, NextKeeps, PTL DEF Spec

\* The tables of a layer are filled by the first call that needs them and are
\* then those of the data, and their sizes are right at any time
\* (layer.hpp:69-90, 226-284).
THEOREM TablesAreFilledOnce == Spec => []TablesFilledOnce
<1>1. VectorTileInv => TablesFilledOnce
  BY TablesSay DEF VectorTileInv, ReaderInv, TablesFilledOnce
<1> QED
  BY <1>1, VectorTileInvariant, PTL

\* A table to which texts are added through its index never holds a text twice,
\* however many there are (builder_impl.hpp:90-149).
THEOREM TextsStayDistinct == Spec => []NoDuplicateTexts
<1>1. VectorTileInv => NoDuplicateTexts
  <2> SUFFICES ASSUME VectorTileInv, NEW l \in DOMAIN layers, NEW t \in {layers[l].keys, layers[l].values},
                      t.checked
               PROVE  \A i, j \in DOMAIN t.texts : t.texts[i] = t.texts[j] => i = j
    BY DEF NoDuplicateTexts
  <2>1. IsSeq(layers) /\ \A m \in 1 .. Len(layers) : LayerOK(layers[m])
    BY DEF VectorTileInv, BuildInv, LayersInv
  <2>2. LayerOK(layers[l])
    BY <2>1, SeqIs
  <2> QED
    BY <2>2 DEF LayerOK, TableOK, Distinct
<1> QED
  BY <1>1, VectorTileInvariant, PTL

\* The tags of every feature that was committed name the keys and the values
\* that were asked for, whichever of the indexes, caches and mappers gave their
\* numbers (builder.hpp:375-394, index.hpp:36-239, property_mapper.hpp:31-99).
THEOREM TagsMeanWhatWasAsked == Spec => []TagsMean
<1>1. VectorTileInv => TagsMean
  <2> SUFFICES ASSUME VectorTileInv, Alive PROVE TagsMean
    BY DEF TagsMean
  <2>1. TagsOK(builder.tags, builder.asked.properties, layers[builder.layer].keys.texts,
               layers[builder.layer].values.texts)
    BY DEF VectorTileInv, BuildInv, BuilderOK
  <2>2. DOMAIN builder.asked.properties = 1 .. Len(builder.asked.properties)
    BY <2>1, SeqIs DEF TagsOK
  <2> QED
    BY <2>1, <2>2 DEF TagsMean, TagsOK
<1> QED
  BY <1>1, VectorTileInvariant, PTL

\* A step adds whole features at the end of a layer or none: a builder that is
\* lost or throws leaves nothing in it (builder.hpp:527-566).
THEOREM LayersGrow == Spec => GrowsByWholeFeatures
<1> DEFINE Kept == status' = "building" => \A l \in DOMAIN layers :
       /\ IsPrefix(layers[l].keys.texts, layers'[l].keys.texts)
       /\ IsPrefix(layers[l].values.texts, layers'[l].values.texts)
       /\ IsPrefix(layers[l].data, layers'[l].data)
       /\ Len(layers'[l].data) - Len(layers[l].data)
          = Len(built'[l].features) - Len(built[l].features)
<1>1. VectorTileInv /\ VectorTileInv' /\ [Next]_vars => [Kept]_vars
  <2> SUFFICES ASSUME VectorTileInv, VectorTileInv', [Next]_vars, status' = "building", NEW l \in DOMAIN layers
               PROVE  /\ IsPrefix(layers[l].keys.texts, layers'[l].keys.texts)
                      /\ IsPrefix(layers[l].values.texts, layers'[l].values.texts)
                      /\ IsPrefix(layers[l].data, layers'[l].data)
                      /\ Len(layers'[l].data) - Len(layers[l].data)
                         = Len(built'[l].features) - Len(built[l].features)
    OBVIOUS
  <2>1. GrowTo(layers, built, layers', built')
    <3>1. CASE Build
      BY <3>1, BuilderKeeps DEF Build, VectorTileInv, KeepsBuilding, Grows
    <3>2. CASE HandOver
      BY <3>2 DEF HandOver
    <3>3. CASE UNCHANGED builderVars
      <4>1. /\ Good(job, layers, caches, built) /\ layers' = layers /\ built' = built
        BY <3>3 DEF builderVars, VectorTileInv, BuildInv, Good
      <4>2. GrowTo(layers, built, layers, built)
        BY <4>1, NoLayerChanges DEF GoodStep
      <4> QED
        BY <4>1, <4>2
    <3> QED
      BY <3>1, <3>2, <3>3 DEF Next, ReadOn, Ended, vars
  <2>2. IsSeq(layers) /\ \A m \in 1 .. Len(layers) : LayerOK(layers[m])
    BY DEF VectorTileInv, BuildInv, LayersInv
  <2>3. IsSeq(layers') /\ \A m \in 1 .. Len(layers') : LayerOK(layers'[m])
    BY DEF VectorTileInv, BuildInv, LayersInv
  <2>4. l \in 1 .. Len(layers) /\ l \in 1 .. Len(layers')
    <3>1. l \in 1 .. Len(layers) /\ Len(layers) \in Nat /\ Len(layers') \in Nat
      BY <2>2, <2>3, SeqIs
    <3> QED
      BY <2>1, <3>1 DEF GrowTo
  <2>5. LayerGrows(layers[l], layers'[l], built[l], built'[l])
    BY <2>1, <2>4 DEF GrowTo
  <2>6. LayerOK(layers[l]) /\ LayerOK(layers'[l])
    BY <2>2, <2>3, <2>4
  <2>7. /\ IsSeq(layers[l].keys.texts) /\ IsSeq(layers[l].values.texts) /\ IsSeq(layers[l].data)
        /\ IsSeq(layers'[l].keys.texts) /\ IsSeq(layers'[l].values.texts) /\ IsSeq(layers'[l].data)
    BY <2>6 DEF LayerOK, TableOK, IsLayer
  <2> QED
    BY <2>5, <2>7, PrefixOfExtended DEF LayerGrows
<1>2. Spec => [][Kept]_vars
  <2> HIDE DEF Kept
  <2> QED
    BY <1>1, VectorTileInvariant, PTL DEF Spec
<1> QED
  BY <1>2 DEF GrowsByWholeFeatures

\* In whatever order a program reads, no item behind the last one is read, and
\* the assertions of next_command and next_point hold (geometry.hpp:195-251).
THEOREM DecoderInvariant == Spec => []DecoderInv
<1>1. VectorTileInv => DecoderInv
  BY DEF VectorTileInv
<1> QED
  BY <1>1, VectorTileInvariant, PTL

\* For any items, the number of points that a handler is told is bounded by the
\* size of the data and is the number that it gets (geometry.hpp:253-357).
THEOREM AnnouncementsFit == Spec => []AnnouncesWhatFits
<1>1. VectorTileInv => AnnouncesWhatFits
  BY WhatHandlersAreTold DEF VectorTileInv
<1> QED
  BY <1>1, VectorTileInvariant, PTL

-----------------------------------------------------------------------------
(* Looking for a layer or a feature.                                       *)

\* The least hit is the first element of s that is in Q, and the only one.
LEMMA LeastHit ==
  ASSUME NEW s, IsSeq(s), NEW hits, hits # {}, hits \subseteq DOMAIN s, NEW Q,
         \A i \in DOMAIN s : i \in hits <=> s[i] \in Q
  PROVE  LET c == CHOOSE i \in hits : \A j \in hits : i <= j
             IsFirst(x) == x \in DOMAIN s /\ s[x] \in Q /\ \A j \in 1 .. x - 1 : s[j] \notin Q
         IN IsFirst(c) /\ \A x : IsFirst(x) => x = c
<1> DEFINE c == CHOOSE i \in hits : \A j \in hits : i <= j
           IsFirst(x) == x \in DOMAIN s /\ s[x] \in Q /\ \A j \in 1 .. x - 1 : s[j] \notin Q
<1>1. DOMAIN s = 1 .. Len(s) /\ Len(s) \in Nat
  BY SeqIs
<1>2. \E x \in hits : \A j \in hits : x <= j
  BY <1>1, LeastNumber
<1>3. c \in hits /\ \A j \in hits : c <= j
  BY <1>2
<1> HIDE DEF c
<1>4. c \in DOMAIN s /\ s[c] \in Q /\ c \in 1 .. Len(s)
  BY <1>1, <1>3
<1>5. IsFirst(c)
  <2>1. ASSUME NEW j \in 1 .. c - 1, s[j] \in Q PROVE FALSE
    <3>1. j \in 1 .. Len(s) /\ j < c
      BY <1>1, <1>4
    <3>2. j \in hits
      BY <1>1, <2>1, <3>1
    <3>3. c <= j
      BY <1>3, <3>2
    <3> QED
      BY <1>1, <1>4, <3>1, <3>3
  <2> QED
    BY <1>4, <2>1
<1>6. ASSUME NEW x, IsFirst(x) PROVE x = c
  <2>1. x \in hits /\ x \in Nat /\ c \in Nat
    BY <1>1, <1>4, <1>6
  <2>2. c <= x
    BY <1>3, <2>1
  <2>3. ~(c < x)
    <3> SUFFICES ASSUME c < x PROVE FALSE
      OBVIOUS
    <3>1. c \in 1 .. x - 1
      BY <1>4, <2>1, <2>2
    <3> QED
      BY <1>4, <1>6, <3>1
  <2> QED
    BY <2>1, <2>2, <2>3
<1> QED
  BY <1>5, <1>6 DEF c

\* A sequence of at most one element.
LEMMA OneElement ==
  ASSUME NEW s, IsSeq(s), Len(s) <= 1, s # <<>>
  PROVE  Len(s) = 1 /\ s = <<s[1]>>
<1>1. s \in Seq(ToSet(s)) /\ Len(s) \in Nat
  BY SeqIs DEF IsSeq
<1> DEFINE S == ToSet(s)
<1> HIDE DEF S
<1>2. s \in Seq(S) /\ Len(s) \in Nat
  BY <1>1 DEF S
<1>3. Len(s) # 0
  BY <1>2
<1> DEFINE n == Len(s)
<1>4. n = 1
  <2>1. n \in Nat /\ n <= 1 /\ n # 0
    BY <1>1, <1>3
  <2> HIDE DEF n
  <2> QED
    BY <2>1
<1> QED
  BY <1>2, <1>4

\* By name: the first layer that has it.
LEMMA NameFindsFirst ==
  ASSUME VectorTileInv, reading = "layer", \A d \in ToSet(All(text, "layers")) : Len(All(d, "name")) = 1
  PROVE  LET s == All(text, "layers")
             named(d) == All(d, "name") = <<layer.name>>
         IN GetLayerByName(text, layer.name) = Found(s[FirstWith(s, named)])
<1> DEFINE s == All(text, "layers")
           name == layer.name
           named(d) == All(d, "name") = <<name>>
           Q == {d \in ToSet(s) : named(d)}
           hits == {i \in DOMAIN s : LET n == All(s[i], "name") IN n = <<>> \/ n[1] = name}
           c == CHOOSE i \in hits : \A j \in hits : i <= j
           x == FirstWith(s, named)
<1>1. IsTile(text) /\ tileAt \in 1 .. CountLayers(text) /\ Delivered(layer, s[tileAt])
  <2>1. /\ IsTile(text) /\ tileAt \in Nat /\ tileAt <= CountLayers(text) /\ tileAt > 0
        /\ Delivered(layer, s[tileAt])
    BY DEF VectorTileInv, ReaderInv, WalkInv, LayerInv, Walking
  <2> QED
    BY <2>1, CountIs
<1>2. IsSeq(s) /\ DOMAIN s = 1 .. CountLayers(text) /\ Len(s) = CountLayers(text)
  BY <1>1, AllIs, AllElements DEF IsTile, CountLayers
<1> HIDE DEF s
<1>3. \A i \in DOMAIN s : s[i] \in ToSet(s)
  BY <1>2, SeqIs
<1>4. ASSUME NEW i \in DOMAIN s
      PROVE  All(s[i], "name") # <<>> /\ All(s[i], "name") = <<All(s[i], "name")[1]>>
  <2> DEFINE n == All(s[i], "name")
  <2>1. IsSeq(n)
    <3>1. IsLayer(s[i])
      BY <1>1, <1>2, LayersAreLayers DEF s
    <3> QED
      BY <3>1, AllIs DEF IsLayer
  <2>2. Len(n) = 1
    BY <1>3 DEF s
  <2> HIDE DEF n
  <2>3. Len(<<>>) = 0
    OBVIOUS
  <2>4. n # <<>>
    BY <2>2, <2>3
  <2>5. n = <<n[1]>>
    <3>1. Len(n) <= 1
      BY <2>2
    <3> QED
      BY <2>1, <2>4, <3>1, OneElement
  <2> QED
    BY <2>4, <2>5 DEF n
<1>5. \A i \in DOMAIN s : i \in hits <=> s[i] \in Q
  <2> TAKE i \in DOMAIN s
  <2> DEFINE n == All(s[i], "name")
  <2>1. n # <<>> /\ n = <<n[1]>> /\ s[i] \in ToSet(s)
    BY <1>3, <1>4
  <2>2. n[1] = name <=> n = <<name>>
    <3> HIDE DEF n, name
    <3> QED
      BY <2>1
  <2>3. i \in hits <=> n[1] = name
    BY <2>1
  <2>4. s[i] \in Q <=> n = <<name>>
    BY <2>1
  <2> QED
    BY <2>2, <2>3, <2>4
<1>6. tileAt \in hits
  <2>1. name = LastOr(All(s[tileAt], "name"), "") /\ tileAt \in DOMAIN s
    BY <1>1, <1>2 DEF Delivered
  <2> DEFINE n == All(s[tileAt], "name")
  <2>2. n # <<>> /\ n = <<n[1]>>
    BY <1>4, <2>1
  <2>3. name = n[1]
    <3>1. name = n[Len(n)]
      BY <2>1, <2>2 DEF LastOr, Last
    <3> HIDE DEF n, name
    <3> QED
      BY <2>2, <3>1
  <2> QED
    BY <2>1, <2>3
<1>7. hits \subseteq DOMAIN s /\ hits # {}
  BY <1>6
<1> DEFINE IsFirst(y) == y \in DOMAIN s /\ s[y] \in Q /\ \A j \in 1 .. y - 1 : s[j] \notin Q
<1>8. IsFirst(c) /\ \A y : IsFirst(y) => y = c
  <2> HIDE DEF hits, Q, name
  <2> QED
    BY <1>2, <1>5, <1>7, LeastHit
<1> HIDE DEF c
<1>9. \A y : IsFirst(y) <=> y \in DOMAIN s /\ named(s[y]) /\ \A j \in 1 .. y - 1 : ~named(s[j])
  <2> SUFFICES ASSUME NEW y \in DOMAIN s
               PROVE  IsFirst(y) <=> named(s[y]) /\ \A j \in 1 .. y - 1 : ~named(s[j])
    OBVIOUS
  <2>1. \A j \in 1 .. y - 1 : j \in DOMAIN s
    BY <1>1, <1>2, CountIs
  <2> QED
    BY <1>3, <2>1
<1>10. x = c
  <2>1. c \in DOMAIN s /\ named(s[c]) /\ \A j \in 1 .. c - 1 : ~named(s[j])
    BY <1>8, <1>9
  <2>2. x \in DOMAIN s /\ named(s[x]) /\ \A j \in 1 .. x - 1 : ~named(s[j])
    <3> HIDE DEF named
    <3> QED
      BY <2>1 DEF FirstWith
  <2> HIDE DEF x, named, IsFirst
  <2> QED
    BY <1>8, <1>9, <2>2
<1>11. GetLayerByName(text, name) = Found(s[c])
  <2>1. All(s[c], "name") # <<>>
    BY <1>4, <1>8
  <2> HIDE DEF name
  <2> QED
    BY <1>7, <2>1 DEF GetLayerByName, s, c
<1> QED
  BY <1>10, <1>11 DEF s

\* By id: the first feature that has it.
LEMMA IdFindsFirst ==
  ASSUME VectorTileInv, reading = "geometry", feature.hasId,
         \A d \in ToSet(All(layer.data, "features")) : Len(All(d, "id")) <= 1
  PROVE  LET s == All(layer.data, "features")
             identified(d) == All(d, "id") = <<feature.id>>
         IN GetFeatureById(layer, feature.id).data = s[FirstWith(s, identified)]
<1> DEFINE s == All(layer.data, "features")
           id == feature.id
           identified(d) == All(d, "id") = <<id>>
           Q == {d \in ToSet(s) : identified(d)}
           hits == {i \in DOMAIN s : FirstOr(All(s[i], "id"), -1) = id}
           c == CHOOSE i \in hits : \A j \in hits : i <= j
           x == FirstWith(s, identified)
<1>1. /\ TablesInv(layer) /\ layerAt \in Nat /\ layerAt > 0 /\ layerAt <= layer.numFeatures
      /\ layer.numFeatures = Len(s) /\ feature.error = "none" /\ feature = ReadFeature(s[layerAt])
  BY DEF VectorTileInv, ReaderInv, WalkInv, LayerInv, FeatureInv, Walking, InFeature, Delivered
<1>2. IsSeq(s) /\ DOMAIN s = 1 .. Len(s) /\ Len(s) \in Nat
  BY <1>1, AllIs, AllElements DEF TablesInv, IsLayer
<1>3. \A i \in DOMAIN s : s[i] \in ToSet(s) /\ IsFeature(s[i])
  <2>1. \A i \in 1 .. Len(s) : IsFeature(s[i])
    BY <1>1, FeaturesAreFeatures DEF TablesInv
  <2>2. \A i \in 1 .. Len(s) : s[i] \in ToSet(s)
    <3> HIDE DEF s
    <3> QED
      BY <1>2, SeqIs
  <2> QED
    BY <1>2, <2>1, <2>2
<1>4. layerAt \in DOMAIN s
  BY <1>1, <1>2
<1>5. id \in Nat /\ All(s[layerAt], "id") # <<>> /\ id = All(s[layerAt], "id")[Len(All(s[layerAt], "id"))]
  <2>1. IsFeature(s[layerAt])
    BY <1>3, <1>4
  <2>2. feature \in Features
    BY <1>1, <2>1, ReadFeatureIs
  <2>3. All(s[layerAt], "id") # <<>> /\ id = All(s[layerAt], "id")[Len(All(s[layerAt], "id"))]
    BY <1>1, <2>1, ReadFeatureIs
  <2> QED
    BY <2>2, <2>3 DEF Features
<1>6. ASSUME NEW i \in DOMAIN s
      PROVE  All(s[i], "id") # <<>> => Len(All(s[i], "id")) = 1 /\ All(s[i], "id") = <<All(s[i], "id")[1]>>
  <2> DEFINE n == All(s[i], "id")
  <2>1. IsSeq(n)
    BY <1>3, AllIs DEF IsFeature
  <2>2. Len(n) <= 1
    BY <1>3
  <2> HIDE DEF n
  <2>3. n # <<>> => Len(n) = 1 /\ n = <<n[1]>>
    BY <2>1, <2>2, OneElement
  <2> QED
    BY <2>3 DEF n
<1> HIDE DEF s, id
<1>7. \A i \in DOMAIN s : i \in hits <=> s[i] \in Q
  <2> TAKE i \in DOMAIN s
  <2> DEFINE n == All(s[i], "id")
  <2>1. s[i] \in ToSet(s) /\ (n # <<>> => n = <<n[1]>>)
    BY <1>3, <1>6
  <2>2. i \in hits <=> FirstOr(n, -1) = id
    OBVIOUS
  <2>3. s[i] \in Q <=> n = <<id>>
    BY <2>1
  <2>4. FirstOr(n, -1) = id <=> n = <<id>>
    <3> HIDE DEF n
    <3>1. CASE n = <<>>
      <4>1. -1 # id /\ FirstOr(n, -1) = -1
        BY <1>5, <3>1 DEF FirstOr
      <4>2. <<>> # <<id>>
        OBVIOUS
      <4> QED
        BY <3>1, <4>1, <4>2
    <3>2. CASE n # <<>>
      <4>1. FirstOr(n, -1) = n[1] /\ n = <<n[1]>>
        BY <2>1, <3>2 DEF FirstOr
      <4>2. n[1] = id <=> n = <<id>>
        BY <4>1
      <4> QED
        BY <4>1, <4>2
    <3> QED
      BY <3>1, <3>2
  <2> QED
    BY <2>2, <2>3, <2>4
<1>8. layerAt \in hits
  <2> DEFINE n == All(s[layerAt], "id")
  <2>1. n # <<>> /\ id = n[Len(n)] /\ Len(n) = 1
    BY <1>4, <1>5, <1>6
  <2>2. FirstOr(n, -1) = id
    <3> HIDE DEF n
    <3> QED
      BY <2>1 DEF FirstOr
  <2> QED
    BY <1>4, <2>2
<1>9. hits \subseteq DOMAIN s /\ hits # {}
  BY <1>8
<1> DEFINE IsFirst(y) == y \in DOMAIN s /\ s[y] \in Q /\ \A j \in 1 .. y - 1 : s[j] \notin Q
<1>10. IsFirst(c) /\ \A y : IsFirst(y) => y = c
  <2> HIDE DEF hits, Q
  <2> QED
    BY <1>2, <1>7, <1>9, LeastHit
<1> HIDE DEF c
<1>11. \A y : IsFirst(y) <=> y \in DOMAIN s /\ identified(s[y]) /\ \A j \in 1 .. y - 1 : ~identified(s[j])
  <2> SUFFICES ASSUME NEW y \in DOMAIN s
               PROVE  IsFirst(y) <=> identified(s[y]) /\ \A j \in 1 .. y - 1 : ~identified(s[j])
    OBVIOUS
  <2>1. \A j \in 1 .. y - 1 : j \in DOMAIN s
    BY <1>2
  <2> QED
    BY <1>3, <2>1
<1>12. x = c
  <2>1. c \in DOMAIN s /\ identified(s[c]) /\ \A j \in 1 .. c - 1 : ~identified(s[j])
    BY <1>10, <1>11
  <2>2. x \in DOMAIN s /\ identified(s[x]) /\ \A j \in 1 .. x - 1 : ~identified(s[j])
    <3> HIDE DEF identified
    <3> QED
      BY <2>1 DEF FirstWith
  <2> HIDE DEF x, identified, IsFirst
  <2> QED
    BY <1>10, <1>11, <2>2
<1>13. GetFeatureById(layer, id).data = s[c]
  BY <1>9 DEF GetFeatureById, s, c
<1> QED
  BY <1>12, <1>13 DEF s, id

\* Looking for a layer by its number or name and for a feature by its id finds
\* the one that the walk over the same data finds (vector_tile.hpp:173-271,
\* layer.hpp:387-421).
THEOREM LookupsFindWhatTheWalkFinds == Spec => []LookupsAgree
<1>1. VectorTileInv => LookupsAgree
  <2> SUFFICES ASSUME VectorTileInv PROVE LookupsAgree
    OBVIOUS
  <2>1. ASSUME reading = "layer" PROVE GetLayer(text, tileAt - 1) = Found(layer.data)
    <3> DEFINE s == All(text, "layers")
    <3>1. /\ IsTile(text) /\ tileAt \in Nat /\ tileAt <= CountLayers(text) /\ tileAt > 0
          /\ layer.data = s[tileAt]
      BY <2>1 DEF VectorTileInv, ReaderInv, WalkInv, LayerInv, Walking, Delivered
    <3>2. CountLayers(text) \in Nat
      BY <3>1, CountIs
    <3>3. tileAt - 1 < CountLayers(text) /\ (tileAt - 1) + 1 = tileAt
      BY <3>1, <3>2
    <3> QED
      BY <3>1, <3>3 DEF GetLayer
  <2> QED
    BY <2>1, NameFindsFirst, IdFindsFirst DEF LookupsAgree
<1> QED
  BY <1>1, VectorTileInvariant, PTL

=============================================================================
