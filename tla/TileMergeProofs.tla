---------------------------- MODULE TileMergeProofs ----------------------------
(***************************************************************************)
(* The merged tile is the concatenation of the inputs' layers, and the     *)
(* views of the builder stay valid, for every number of inputs, all tiles  *)
(* and every slack of the buffer.                                          *)
(***************************************************************************)
EXTENDS TileMerge, TLAPS

LEMMA AppendFacts ==
  ASSUME NEW S, NEW s \in Seq(S), NEW e \in S
  PROVE  /\ Append(s, e) \in Seq(S) /\ Len(s) \in Nat /\ DOMAIN s = 1 .. Len(s)
         /\ Len(Append(s, e)) = Len(s) + 1
         /\ DOMAIN Append(s, e) = 1 .. Len(s) + 1
         /\ \A k \in 1 .. Len(s) : Append(s, e)[k] = s[k]
         /\ Append(s, e)[Len(s) + 1] = e
OBVIOUS

LEMMA TileType ==
  ASSUME TypeOK, NEW m \in 1 .. Count
  PROVE  /\ tile[m].gzip \in BOOLEAN /\ tile[m].packed \in Nat \ {0}
         /\ tile[m].size \in Nat /\ tile[m].text \in Seq(Kind)
<1>1. tile[m] \in [gzip : BOOLEAN, packed : Nat \ {0}, size : Nat, text : Seq(Kind)]
  BY TileMergeAssumption DEF TypeOK
<1> QED  BY <1>1

\* Where next_layer() reads: the last string is the current input's tile.
LEMMA TopIsTile ==
  ASSUME IInv, pc = "layers"
  PROVE  /\ match \in 1 .. Count /\ Len(strs) = match /\ match \in DOMAIN strs
         /\ Top.at = match /\ Top.text = tile[match].text
         /\ tile[match].text \in Seq(Kind) /\ Len(tile[match].text) \in Nat
         /\ DOMAIN tile[match].text = 1 .. Len(tile[match].text)
         /\ pos \in 1 .. Len(tile[match].text) + 1
<1>1. /\ match \in 1 .. Count /\ Len(strs) = match /\ DOMAIN strs = 1 .. Len(strs)
      /\ pos \in Nat \ {0} /\ pos <= Len(tile[match].text) + 1
  BY TileMergeAssumption DEF IInv, TypeOK, StrsInv
<1>2. match \in DOMAIN strs
  BY <1>1
<1>3. strs[match] = [at |-> match, match |-> match, text |-> tile[match].text]
  BY <1>2 DEF IInv, StrsInv
<1>4. tile[match].text \in Seq(Kind)
  BY <1>1, TileType DEF IInv
<1>5. /\ Len(tile[match].text) \in Nat
      /\ DOMAIN tile[match].text = 1 .. Len(tile[match].text)
  BY <1>4
<1> QED  BY <1>1, <1>2, <1>3, <1>4, <1>5 DEF Top

-----------------------------------------------------------------------------
THEOREM InitIInv == Init => IInv
<1> SUFFICES ASSUME Init PROVE IInv
  OBVIOUS
<1>1. Len(strs) = 0 /\ DOMAIN strs = {} /\ DOMAIN views = {}
  BY DEF Init
<1>2. TypeOK
  BY <1>1, TileMergeAssumption DEF Init, TypeOK
<1>3. StrsInv
  BY <1>1, TileMergeAssumption DEF Init, StrsInv
<1>4. ViewsInv
  BY <1>1 DEF Init, ViewsInv, Passed
<1>5. SoundInv /\ BufferBounded /\ MergedInv
  BY DEF Init, SoundInv, BufferBounded, MergedInv
<1> QED  BY <1>2, <1>3, <1>4, <1>5 DEF IInv

\* The steps that only change pc, match and the buffer.
LEMMA QuietStep ==
  ASSUME IInv, UNCHANGED <<tile, strs, fresh, views, merged>>,
         TypeOK', StrsInv', SoundInv', BufferBounded',
         pc' # "saved",
         pc' # "thrown" =>
           /\ pc # "thrown"
           /\ \A m \in 1 .. Count : \A i \in DOMAIN tile[m].text :
                IsLayer(m, i) => (Passed(m, i)' <=> Passed(m, i))
  PROVE  IInv'
<1>1. \A m, i : IsLayer(m, i)' <=> IsLayer(m, i)
  BY DEF IsLayer
<1>2. \A k \in DOMAIN views : IsLayer(views[k].at, views[k].field) =>
        views[k].at \in 1 .. Count /\ views[k].field \in DOMAIN tile[views[k].at].text
  BY DEF IsLayer
<1>3. ViewsInv'
  BY <1>1, <1>2 DEF IInv, ViewsInv, Name
<1>4. MergedInv'
  BY DEF MergedInv
<1> QED  BY <1>3, <1>4 DEF IInv

LEMMA NextIInv ==
  ASSUME IInv, [Next]_vars
  PROVE  IInv'
<1> USE TileMergeAssumption
<1>a. TypeOK /\ StrsInv /\ ViewsInv /\ SoundInv /\ BufferBounded /\ MergedInv
  BY DEF IInv
<1>b. match <= Count => match \in 1 .. Count
  BY <1>a DEF TypeOK
<1>1. CASE ReadTile
  <2>1. /\ match \in 1 .. Count /\ room' = tile[match].packed
        /\ pc = "read" /\ pc' = "inflate"
        /\ UNCHANGED <<tile, match, strs, fresh, pos, views, merged>>
    BY <1>1, <1>b DEF ReadTile
  <2>2. TypeOK'
    BY <1>a, <2>1, TileType DEF TypeOK
  <2>3. StrsInv'
    BY <1>a, <2>1 DEF StrsInv
  <2>4. SoundInv' /\ BufferBounded'
    BY <1>a, <2>1, TileType DEF SoundInv, BufferBounded, Sound, TypeOK
  <2> QED  BY <2>1, <2>2, <2>3, <2>4, QuietStep DEF Passed
<1>2. CASE GrowBuffer
  <2>1. /\ room < tile[match].size /\ room' = (room + Slack) * 2
        /\ pc = "inflate" /\ pc' = "inflate"
        /\ UNCHANGED <<tile, match, strs, fresh, pos, views, merged>>
    BY <1>2 DEF GrowBuffer, Double
  <2>2. match \in 1 .. Count /\ tile[match].size \in Nat /\ room \in Nat
    BY <1>a, <1>b, <2>1, TileType DEF StrsInv, TypeOK
  <2>3. TypeOK'
    BY <1>a, <2>1, <2>2 DEF TypeOK
  <2>4. StrsInv'
    BY <1>a, <2>1 DEF StrsInv
  <2>5. SoundInv'
    BY <1>a, <2>1 DEF SoundInv, Sound
  <2>6. BufferBounded'
    BY <2>1, <2>2 DEF BufferBounded
  <2> QED  BY <2>1, <2>3, <2>4, <2>5, <2>6, QuietStep DEF Passed
<1>3. CASE Inflate
  <2>1. /\ tile[match].gzip /\ room' = tile[match].size
        /\ pc = "inflate" /\ pc' = "push"
        /\ UNCHANGED <<tile, match, strs, fresh, pos, views, merged>>
    BY <1>3 DEF Inflate, Inflates
  <2>2. match \in 1 .. Count /\ tile[match].size \in Nat
    BY <1>a, <1>b, <2>1, TileType DEF StrsInv
  <2>3. TypeOK'
    BY <1>a, <2>1, <2>2 DEF TypeOK
  <2>4. StrsInv'
    BY <1>a, <2>1 DEF StrsInv
  <2>5. SoundInv' /\ BufferBounded'
    BY <1>a, <2>1 DEF SoundInv, Sound, BufferBounded
  <2> QED  BY <2>1, <2>3, <2>4, <2>5, QuietStep DEF Passed
<1>4. CASE InflateThrows
  <2>1. /\ ~tile[match].gzip /\ pc = "inflate" /\ pc' = "thrown"
        /\ UNCHANGED <<tile, match, room, strs, fresh, pos, views, merged>>
    BY <1>4 DEF InflateThrows
  <2>2. match \in 1 .. Count
    BY <1>a, <1>b, <2>1 DEF StrsInv
  <2>3. TypeOK' /\ StrsInv'
    BY <1>a, <2>1 DEF TypeOK, StrsInv
  <2>4. SoundInv' /\ BufferBounded'
    BY <1>a, <2>1, <2>2 DEF SoundInv, Sound, BufferBounded
  <2> QED  BY <2>1, <2>3, <2>4, QuietStep
<1>5. CASE Push
  <2>1. /\ pc = "push" /\ pc' = "layers" /\ pos' = 1
        /\ strs' = Append(strs, Copy) /\ fresh' = fresh + 1
        /\ UNCHANGED <<tile, match, room, views, merged>>
    BY <1>5 DEF Push, Store
  <2>2. /\ match \in 1 .. Count /\ fresh = match /\ Len(strs) = match - 1
        /\ tile[match].text \in Seq(Kind)
        /\ DOMAIN strs = 1 .. Len(strs)
    BY <1>a, <1>b, <2>1, TileType DEF StrsInv, TypeOK
  <2> DEFINE Str == [at : Nat, match : 1 .. Count, text : Seq(Kind)]
  <2>3. Copy \in Str /\ strs \in Seq(Str)
    BY <1>a, <2>2 DEF Copy, TypeOK
  <2> HIDE DEF Str
  <2>4. /\ strs' \in Seq(Str)
        /\ Len(strs') = match /\ DOMAIN strs' = 1 .. match
        /\ \A k \in 1 .. match - 1 : strs'[k] = strs[k]
        /\ strs'[match] = Copy
    BY <2>1, <2>2, <2>3, AppendFacts
  <2>5. TypeOK'
    <3>1. strs' \in Seq([at : Nat, match : 1 .. Count, text : Seq(Kind)])
      BY <2>4 DEF Str
    <3>2. fresh' \in Nat /\ pos' \in Nat \ {0}
      BY <2>1, <2>2
    <3>3. UNCHANGED <<tile, match, room, views, merged>> /\ pc' = "layers"
      BY <2>1
    <3> QED  BY <1>a, <3>1, <3>2, <3>3 DEF TypeOK
  <2>6. \A k \in DOMAIN strs' :
          strs'[k] = [at |-> k, match |-> k, text |-> tile[k].text]
    <3> SUFFICES ASSUME NEW k \in DOMAIN strs'
                 PROVE  strs'[k] = [at |-> k, match |-> k, text |-> tile[k].text]
      OBVIOUS
    <3>1. CASE k = match
      BY <2>2, <2>4, <3>1 DEF Copy
    <3>2. CASE k # match
      <4>1. k \in 1 .. match - 1 /\ k \in DOMAIN strs
        BY <2>2, <2>4, <3>2
      <4>2. strs[k] = [at |-> k, match |-> k, text |-> tile[k].text]
        BY <1>a, <4>1 DEF StrsInv
      <4> QED  BY <2>4, <4>1, <4>2
    <3> QED  BY <3>1, <3>2
  <2>7. StrsInv'
    BY <1>a, <2>1, <2>2, <2>4, <2>6 DEF StrsInv
  <2>8. ViewsInv'
    <3>1. \A m, i : IsLayer(m, i)' <=> IsLayer(m, i)
      BY <2>1 DEF IsLayer
    <3>2. \A m \in 1 .. Count : \A i \in DOMAIN tile[m].text :
            IsLayer(m, i) => (Passed(m, i)' <=> Passed(m, i))
      BY <1>a, <2>1, TileType DEF Passed
    <3>3. \A k \in DOMAIN views : IsLayer(views[k].at, views[k].field) =>
            views[k].at \in 1 .. Count /\ views[k].field \in DOMAIN tile[views[k].at].text
      BY DEF IsLayer
    <3>4. DOMAIN strs \subseteq DOMAIN strs'
      BY <2>2, <2>4
    <3> QED  BY <1>a, <2>1, <3>1, <3>2, <3>3, <3>4 DEF ViewsInv, Name
  <2>9. SoundInv' /\ BufferBounded' /\ MergedInv'
    BY <1>a, <2>1, <2>2 DEF SoundInv, Sound, BufferBounded, MergedInv
  <2> QED  BY <2>5, <2>7, <2>8, <2>9 DEF IInv
<1>6. CASE NextLayer
  <2>0. pc = "layers"
    BY <1>6 DEF NextLayer
  <2>1. PICK i \in pos .. Len(Top.text) :
          /\ Others(i) /\ Top.text[i] = "layer"
          /\ views' = Append(views, [at |-> Top.at, field |-> i])
          /\ pos' = i + 1
    BY <1>6 DEF NextLayer
  <2>2. UNCHANGED <<tile, pc, match, room, strs, fresh, merged>>
    BY <1>6 DEF NextLayer
  <2> DEFINE text == tile[match].text
             new == [at |-> match, field |-> i]
  <2>3. /\ match \in 1 .. Count /\ match \in DOMAIN strs /\ Len(strs) = match
        /\ Top.at = match /\ Top.text = text
        /\ Len(text) \in Nat /\ DOMAIN text = 1 .. Len(text)
        /\ pos \in 1 .. Len(text) + 1
    BY <2>0, TopIsTile
  <2>4. /\ i \in DOMAIN text /\ i \in Nat /\ pos <= i /\ text[i] = "layer"
        /\ \A j \in pos .. i - 1 : text[j] = "other"
    BY <2>1, <2>3 DEF Others
  <2>5. new \in View /\ views \in Seq(View)
    BY <1>a, <2>3, <2>4 DEF View, TypeOK
  <2>6. /\ views' \in Seq(View) /\ Len(views) \in Nat
        /\ DOMAIN views = 1 .. Len(views) /\ DOMAIN views' = 1 .. Len(views) + 1
        /\ \A k \in DOMAIN views : views'[k] = views[k]
        /\ views'[Len(views) + 1] = new
    BY <2>1, <2>3, <2>5, AppendFacts
  <2>7. TypeOK'
    <3>1. views' \in Seq(View)
      BY <2>6
    <3>2. pos' \in Nat \ {0}
      BY <2>1, <2>4
    <3> QED  BY <1>a, <2>2, <3>1, <3>2 DEF TypeOK
  <2>8. StrsInv'
    BY <1>a, <2>0, <2>1, <2>2, <2>3, <2>4 DEF StrsInv
  <2>9. ViewsInv'
    <3>1. \A m, j : IsLayer(m, j)' <=> IsLayer(m, j)
      BY <2>2 DEF IsLayer
    <3>2. \A k \in DOMAIN views :
            /\ views[k].at \in DOMAIN strs /\ IsLayer(views[k].at, views[k].field)
            /\ views[k].at \in Nat /\ views[k].field \in Nat
            /\ views[k].at < match \/ (views[k].at = match /\ views[k].field < pos)
      <4>1. \A k \in DOMAIN views : views[k] \in View
        BY <2>5, <2>6
      <4>2. \A k \in DOMAIN views : views[k].at \in Nat /\ views[k].field \in Nat
        BY <4>1 DEF View
      <4>3. \A k \in DOMAIN views :
              /\ views[k].at \in DOMAIN strs /\ IsLayer(views[k].at, views[k].field)
              /\ Passed(views[k].at, views[k].field)
        BY <1>a, <2>0 DEF ViewsInv
      <4> QED  BY <2>0, <4>2, <4>3 DEF Passed
    <3>3. \A k \in DOMAIN views' :
            /\ (views[k].at \in DOMAIN strs)' /\ IsLayer(views[k].at, views[k].field)'
            /\ Passed(views[k].at, views[k].field)'
      <4> SUFFICES ASSUME NEW k \in DOMAIN views'
                   PROVE  /\ (views[k].at \in DOMAIN strs)'
                          /\ IsLayer(views[k].at, views[k].field)'
                          /\ Passed(views[k].at, views[k].field)'
        OBVIOUS
      <4>1. CASE k \in DOMAIN views
        <5>1. views'[k] = views[k]
          BY <2>6, <4>1
        <5>2. Passed(views[k].at, views[k].field)'
          BY <2>0, <2>1, <2>2, <2>3, <2>4, <3>2, <4>1 DEF Passed
        <5> QED  BY <2>2, <3>1, <3>2, <4>1, <5>1, <5>2
      <4>2. CASE k = Len(views) + 1
        <5>1. views'[k] = new
          BY <2>6, <4>2
        <5>2. IsLayer(match, i) /\ Passed(match, i)'
          BY <2>0, <2>1, <2>2, <2>3, <2>4 DEF IsLayer, Passed
        <5> QED  BY <2>2, <2>3, <3>1, <5>1, <5>2
      <4> QED  BY <2>6, <4>1, <4>2
    <3>4. \A j, k \in DOMAIN views' :
            j < k => Before(Name(views'[j]), Name(views'[k]))
      <4> SUFFICES ASSUME NEW j \in DOMAIN views', NEW k \in DOMAIN views', j < k
                   PROVE  Before(Name(views'[j]), Name(views'[k]))
        OBVIOUS
      <4>1. j \in DOMAIN views /\ views'[j] = views[j]
        BY <2>6
      <4>2. CASE k \in DOMAIN views
        BY <1>a, <2>6, <4>1, <4>2 DEF ViewsInv
      <4>3. CASE k = Len(views) + 1
        <5>1. views'[k] = new
          BY <2>6, <4>3
        <5>2. views[j].at < match \/ (views[j].at = match /\ views[j].field < i)
          BY <2>3, <2>4, <3>2, <4>1
        <5>3. /\ Name(views'[j]) = <<views[j].at, views[j].field>>
              /\ Name(views'[k]) = <<match, i>>
          BY <4>1, <5>1 DEF Name
        <5> QED  BY <5>2, <5>3 DEF Before
      <4> QED  BY <2>6, <4>2, <4>3
    <3>5. ASSUME NEW m \in 1 .. Count, NEW j \in DOMAIN tile[m].text,
                 IsLayer(m, j), Passed(m, j)'
          PROVE  \E k \in DOMAIN views' : views'[k] = [at |-> m, field |-> j]
      <4>1. CASE m = match /\ j = i
        BY <2>6, <4>1
      <4>2. CASE ~(m = match /\ j = i)
        <5>1. m < match \/ (m = match /\ j <= i)
          BY <2>1, <2>2, <2>3, <2>4, <3>5, SMTT(30) DEF Passed
        <5>2. m = match => j \in 1 .. Len(text)
          BY <2>3
        <5>3. m = match => j < pos
          BY <2>3, <2>4, <3>5, <4>2, <5>1, <5>2 DEF IsLayer
        <5>4. Passed(m, j)
          BY <2>0, <5>1, <5>3 DEF Passed
        <5>5. PICK k \in DOMAIN views : views[k] = [at |-> m, field |-> j]
          BY <1>a, <2>0, <3>5, <5>4 DEF ViewsInv
        <5> QED  BY <2>6, <5>5
      <4> QED  BY <4>1, <4>2
    <3> QED  BY <2>2, <3>1, <3>3, <3>4, <3>5 DEF ViewsInv
  <2>10. SoundInv'
    <3>1. \A j \in 1 .. pos' - 1 : text[j] # "broken"
      BY <1>a, <2>0, <2>1, <2>3, <2>4 DEF SoundInv
    <3> QED  BY <1>a, <2>0, <2>2, <3>1 DEF SoundInv, Sound
  <2>11. BufferBounded' /\ MergedInv'
    BY <2>0, <2>2 DEF BufferBounded, MergedInv
  <2> QED  BY <2>7, <2>8, <2>9, <2>10, <2>11 DEF IInv
<1>7. CASE LayerThrows
  <2>1. /\ pc = "layers" /\ pc' = "thrown"
        /\ \E i \in pos .. Len(Top.text) : Top.text[i] = "broken"
        /\ UNCHANGED <<tile, match, room, strs, fresh, pos, views, merged>>
    BY <1>7 DEF LayerThrows
  <2>2. match \in 1 .. Count /\ ~Sound(match)
    BY <2>1, TopIsTile DEF Sound
  <2>3. TypeOK' /\ StrsInv'
    BY <1>a, <2>1 DEF TypeOK, StrsInv
  <2>4. SoundInv' /\ BufferBounded'
    BY <1>a, <2>1, <2>2 DEF SoundInv, Sound, BufferBounded
  <2> QED  BY <2>1, <2>3, <2>4, QuietStep
<1>8. CASE NextTile
  <2> DEFINE text == tile[match].text
  <2>1. /\ pc = "layers" /\ pc' = "read" /\ match' = match + 1 /\ room' = 0
        /\ Others(Len(Top.text) + 1)
        /\ UNCHANGED <<tile, strs, fresh, pos, views, merged>>
    BY <1>8 DEF NextTile, NoMoreLayers
  <2>2. /\ match \in 1 .. Count /\ Len(strs) = match /\ Top.text = text
        /\ Len(text) \in Nat /\ DOMAIN text = 1 .. Len(text)
        /\ pos \in 1 .. Len(text) + 1
    BY <2>1, TopIsTile
  <2>3. \A j \in pos .. Len(text) : text[j] = "other"
    BY <2>1, <2>2 DEF Others
  <2>4. TypeOK' /\ StrsInv'
    BY <1>a, <2>1, <2>2 DEF TypeOK, StrsInv
  <2>5. Sound(match)
    BY <1>a, <2>1, <2>2, <2>3 DEF SoundInv, Sound
  <2>6. SoundInv' /\ BufferBounded'
    BY <1>a, <2>1, <2>2, <2>5 DEF SoundInv, Sound, BufferBounded
  <2>7. \A m \in 1 .. Count : \A i \in DOMAIN tile[m].text :
          IsLayer(m, i) => (Passed(m, i)' <=> Passed(m, i))
    <3> SUFFICES ASSUME NEW m \in 1 .. Count, NEW i \in DOMAIN tile[m].text, IsLayer(m, i)
                 PROVE  Passed(m, i)' <=> Passed(m, i)
      OBVIOUS
    <3>1. m = match => i < pos
      BY <2>2, <2>3 DEF IsLayer
    <3> QED  BY <2>1, <2>2, <3>1 DEF Passed
  <2> QED  BY <2>1, <2>4, <2>6, <2>7, QuietStep
<1>9. CASE Serialize
  <2>1. /\ pc = "read" /\ pc' = "saved" /\ match > Count
        /\ merged' = [k \in DOMAIN views |-> Shown(views[k])]
        /\ UNCHANGED <<tile, match, room, strs, fresh, pos, views>>
    BY <1>9 DEF Serialize
  <2>2. \A k \in DOMAIN views : Shown(views[k]) = Name(views[k])
    <3> SUFFICES ASSUME NEW k \in DOMAIN views
                 PROVE  Shown(views[k]) = Name(views[k])
      OBVIOUS
    <3> DEFINE a == views[k].at
    <3>1. a \in DOMAIN strs
      BY <1>a DEF ViewsInv
    <3>2. /\ strs[a].at = a /\ strs[a].match = a
          /\ \A s \in {strs[n] : n \in DOMAIN strs} : s.at = a => s = strs[a]
      BY <1>a, <3>1 DEF StrsInv
    <3>3. (CHOOSE s \in {strs[n] : n \in DOMAIN strs} : s.at = a) = strs[a]
      BY <3>1, <3>2
    <3> QED  BY <3>1, <3>2, <3>3 DEF Shown, Name
  <2>3. merged' = [k \in DOMAIN views |-> Name(views[k])]
    BY <2>1, <2>2
  <2>4. merged' \in Seq(Nat \X Nat)
    <3>1. views \in Seq(View)
      BY <1>a DEF TypeOK
    <3>2. DOMAIN views = 1 .. Len(views) /\ Len(views) \in Nat
      BY <3>1
    <3>3. \A k \in DOMAIN views : views[k] \in View
      BY <3>1, <3>2
    <3>4. \A k \in DOMAIN views : Name(views[k]) \in Nat \X Nat
      BY <3>3 DEF View, Name
    <3> QED  BY <2>3, <3>2, <3>4
  <2>5. TypeOK'
    BY <1>a, <2>1, <2>4 DEF TypeOK
  <2>6. StrsInv' /\ SoundInv' /\ BufferBounded' /\ MergedInv'
    BY <1>a, <2>1, <2>3 DEF StrsInv, SoundInv, Sound, BufferBounded, MergedInv, TypeOK
  <2>7. ViewsInv'
    <3>1. \A m, i : (IsLayer(m, i)' <=> IsLayer(m, i)) /\ (Passed(m, i)' <=> Passed(m, i))
      BY <2>1 DEF IsLayer, Passed
    <3> QED  BY <1>a, <2>1, <3>1 DEF ViewsInv, Name
  <2> QED  BY <2>5, <2>6, <2>7 DEF IInv
<1>10. CASE UNCHANGED vars
  <2>1. UNCHANGED <<tile, pc, match, room, strs, fresh, pos, views, merged>>
    BY <1>10 DEF vars
  <2>2. TypeOK' /\ StrsInv'
    BY <1>a, <2>1 DEF TypeOK, StrsInv
  <2>3. ViewsInv'
    <3>1. \A m, i : (IsLayer(m, i)' <=> IsLayer(m, i)) /\ (Passed(m, i)' <=> Passed(m, i))
      BY <2>1 DEF IsLayer, Passed
    <3> QED  BY <1>a, <2>1, <3>1 DEF ViewsInv, Name
  <2>4. SoundInv' /\ BufferBounded' /\ MergedInv'
    BY <1>a, <2>1 DEF SoundInv, Sound, BufferBounded, MergedInv, Name
  <2> QED  BY <2>2, <2>3, <2>4 DEF IInv
<1> QED
  BY <1>1, <1>2, <1>3, <1>4, <1>5, <1>6, <1>7, <1>8, <1>9, <1>10 DEF Next, Step, Ended

\* What the deque, the views, the buffer and the checks that have been made
\* amount to at every step of the loops.
THEOREM Inductive == Spec => []IInv
BY InitIInv, NextIInv, PTL DEF Spec

\* Type correctness: no index or size leaves its range.
THEOREM TypeCorrect == Spec => []TypeOK
<1>1. IInv => TypeOK
  BY DEF IInv
<1> QED  BY <1>1, Inductive, PTL

\* The views that the builder holds until serialize() never dangle.
THEOREM ViewsStayAlive == Spec => []ViewsAlive
<1>1. IInv => ViewsAlive
  <2> SUFFICES ASSUME IInv, NEW k \in DOMAIN views
               PROVE  \E n \in DOMAIN strs :
                        /\ strs[n].at = views[k].at
                        /\ views[k].field \in DOMAIN strs[n].text
                        /\ strs[n].text[views[k].field] = "layer"
    BY DEF ViewsAlive
  <2> DEFINE n == views[k].at
  <2>1. n \in DOMAIN strs /\ IsLayer(n, views[k].field)
    BY DEF IInv, ViewsInv
  <2>2. strs[n].at = n /\ strs[n].text = tile[n].text
    BY <2>1 DEF IInv, StrsInv
  <2> QED  BY <2>1, <2>2 DEF IsLayer
<1> QED  BY <1>1, Inductive, PTL

\* The tile that is saved has exactly the layers of the inputs' tiles, in
\* their order.
THEOREM SavedIsConcatenation == Spec => []ConcatExact
<1>1. IInv => ConcatExact
  <2> SUFFICES ASSUME IInv, pc = "saved" PROVE ConcatExact
    BY DEF ConcatExact
  <2>1. /\ DOMAIN merged = DOMAIN views
        /\ \A k \in DOMAIN views : merged[k] = <<views[k].at, views[k].field>>
    BY DEF IInv, MergedInv, Name
  <2>2. \A j, k \in DOMAIN merged : j < k => Before(merged[j], merged[k])
    BY <2>1 DEF IInv, ViewsInv, Name
  <2>3. \A k \in DOMAIN merged : IsLayer(merged[k][1], merged[k][2])
    BY <2>1 DEF IInv, ViewsInv
  <2>4. ASSUME NEW m \in 1 .. Count, NEW i \in DOMAIN tile[m].text, IsLayer(m, i)
        PROVE  \E k \in DOMAIN merged : merged[k] = <<m, i>>
    <3>1. Passed(m, i)
      BY TileMergeAssumption DEF IInv, StrsInv, Passed
    <3>2. PICK k \in DOMAIN views : views[k] = [at |-> m, field |-> i]
      BY <2>4, <3>1 DEF IInv, ViewsInv
    <3> QED  BY <2>1, <3>2
  <2> QED  BY <2>2, <2>3, <2>4 DEF ConcatExact
<1> QED  BY <1>1, Inductive, PTL

\* A cell is saved if all of its tiles are sound, and aborts the process only
\* if one is not.
THEOREM SavedAllOrNothing == Spec => []AllOrNothing
<1>1. IInv => AllOrNothing
  BY TileMergeAssumption DEF IInv, StrsInv, SoundInv, AllOrNothing
<1> QED  BY <1>1, Inductive, PTL

\* However well a tile is compressed, the buffer stays below twice its length
\* and slack, or is as long as the compressed tile.
THEOREM BufferStaysBounded == Spec => []BufferBounded
<1>1. IInv => BufferBounded
  BY DEF IInv
<1> QED  BY <1>1, Inductive, PTL

=============================================================================
