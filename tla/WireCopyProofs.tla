------------------------------ MODULE WireCopyProofs ------------------------------
(***************************************************************************)
(* That readers give back what writers have written, for any schema, calls *)
(* and ways to read.                                                       *)
(*                                                                         *)
(* First the texts that a writer has made without an interruption, and that *)
(* the open messages are such texts; then what is at the front of such a   *)
(* text, and that each way to read it gives that back; at the end the      *)
(* invariant of the writer, the reader and what is between them.           *)
(***************************************************************************)
EXTENDS WireProofs

-----------------------------------------------------------------------------
(* Texts that a writer has made without being interrupted: messages with   *)
(* the fields of the schema, and packed fields with elements of a kind.    *)

Kinds == {"message"} \cup PackedKinds

IsElement(kind, e) ==
  \/ kind \in {"ints", "sints"} /\ \E u \in 0 .. Word - 1 : e = EncodeVarint(u)
  \/ kind \in {"fixeds32", "fixeds64"} /\ e \in Seq(Byte) /\ Len(e) = ElementSize(kind)

\* A payload for the tag t and the type y; those of submessages go by M.
IsPayload(M, t, y, p) ==
  \/ Schema[t] \in {"int", "sint"} /\ y = VarintType /\ \E u \in 0 .. Word - 1 : p = EncodeVarint(u)
  \/ Schema[t] = "bool" /\ y = VarintType /\ p \in {<<0>>, <<1>>}
  \/ Schema[t] = "fixed32" /\ y = Fixed32Type /\ Len(p) = Fixed32
  \/ Schema[t] = "fixed64" /\ y = Fixed64Type /\ Len(p) = Fixed64
  \/ Schema[t] = "bytes" /\ y = LengthDelimited /\ Len(p) < ShortWord
  \/ Schema[t] \in Kinds /\ y = LengthDelimited /\ Len(p) < ShortWord /\ <<Schema[t], p>> \in M

\* Kinds and texts that can be made longer, by any element or field.
Closed(M) ==
  /\ \A k \in Kinds : <<k, <<>>>> \in M
  /\ \A k \in PackedKinds : \A a, e \in Seq(Byte) :
       <<k, a>> \in M /\ IsElement(k, e) => <<k, a \o e>> \in M
  /\ \A a, p \in Seq(Byte) : \A t \in Tag : \A y \in WireTypes :
       <<"message", a>> \in M /\ IsPayload(M, t, y, p) => <<"message", a \o Field(t, y, p)>> \in M

\* No others than those that can be made.
Whole(kind) == {s \in Seq(Byte) : \A M : Closed(M) => <<kind, s>> \in M}
AllWhole == {x \in Kinds \X Seq(Byte) : x[2] \in Whole(x[1])}
WholePayload(t, y, p) == p \in Seq(Byte) /\ IsPayload(AllWhole, t, y, p)

LEMMA WholeIs ==
  ASSUME NEW k \in Kinds, NEW s
  PROVE  <<k, s>> \in AllWhole <=> s \in Whole(k)
<1>1. s \in Whole(k) => s \in Seq(Byte)
  BY DEF Whole
<1> QED
  BY <1>1 DEF AllWhole

LEMMA ElementIs ==
  ASSUME NEW k, NEW e, IsElement(k, e)
  PROVE  e \in Seq(Byte) /\ Len(e) > 0
<1>1. ASSUME NEW u \in 0 .. Word - 1, e = EncodeVarint(u) PROVE e \in Seq(Byte) /\ Len(e) > 0
  <2>1. e \in Seq(Byte) /\ IsVarint(e)
    BY <1>1, EncodeIs
  <2> QED
    BY <2>1 DEF IsVarint
<1>2. CASE e \in Seq(Byte) /\ Len(e) = ElementSize(k)
  <2>1. ElementSize(k) > 0
    BY ElementSizeIs
  <2> QED
    BY <1>2, <2>1
<1> QED
  BY <1>1, <1>2 DEF IsElement

LEMMA FieldIs ==
  ASSUME NEW t \in Tag, NEW y \in WireTypes, NEW p \in Seq(Byte),
         y = LengthDelimited => Len(p) < ShortWord
  PROVE  /\ Field(t, y, p) \in Seq(Byte)
         /\ EncodeVarint(Key(t, y)) \in Seq(Byte)
         /\ y # LengthDelimited => Field(t, y, p) = EncodeVarint(Key(t, y)) \o p
         /\ y = LengthDelimited =>
              /\ EncodeVarint(Len(p)) \in Seq(Byte)
              /\ Field(t, y, p) = (EncodeVarint(Key(t, y)) \o EncodeVarint(Len(p))) \o p
<1> DEFINE h == EncodeVarint(Key(t, y))
           l == EncodeVarint(Len(p))
<1>1. h \in Seq(Byte)
  BY KeyText
<1>2. CASE y # LengthDelimited
  <2>1. Field(t, y, p) = (h \o <<>>) \o p
    BY <1>2 DEF Field, FieldBytes
  <2>2. h \o <<>> = h
    BY <1>1, ConcatEmptySeq
  <2> HIDE DEF h
  <2>3. Field(t, y, p) = h \o p
    BY <2>1, <2>2
  <2>4. h \o p \in Seq(Byte)
    BY <1>1, Join
  <2> QED
    BY <1>1, <1>2, <2>3, <2>4 DEF h
<1>3. CASE y = LengthDelimited
  <2>1. Field(t, y, p) = (h \o l) \o p
    BY <1>3 DEF Field, FieldBytes
  <2>2. Len(p) \in 0 .. ShortWord - 1
    BY <1>3, LenProperties, Sizes
  <2>3. l \in Seq(Byte)
    BY <2>2, LengthText
  <2> HIDE DEF h, l
  <2>4. h \o l \in Seq(Byte)
    BY <1>1, <2>3, Join
  <2>5. (h \o l) \o p \in Seq(Byte)
    BY <2>4, Join
  <2> QED
    BY <1>1, <1>3, <2>1, <2>3, <2>5 DEF h, l
<1> QED
  BY <1>2, <1>3

LEMMA PayloadIs ==
  ASSUME NEW t \in Tag, NEW y, NEW p, WholePayload(t, y, p)
  PROVE  /\ p \in Seq(Byte) /\ y \in WireTypes
         /\ y = LengthDelimited => Len(p) < ShortWord
<1>1. y = LengthDelimited => Len(p) < ShortWord
  BY WireTypesDiffer DEF WholePayload, IsPayload
<1> QED
  BY <1>1, TypesAre DEF WholePayload, IsPayload

LEMMA EmptyIsWhole ==
  ASSUME NEW k \in Kinds
  PROVE  <<>> \in Whole(k)
<1>1. <<>> \in Seq(Byte)
  BY EmptySeq
<1>2. ASSUME NEW M, Closed(M) PROVE <<k, <<>>>> \in M
  BY <1>2 DEF Closed
<1> QED
  BY <1>1, <1>2 DEF Whole

LEMMA ElementAdded ==
  ASSUME NEW k \in PackedKinds, NEW a \in Whole(k), NEW e, IsElement(k, e)
  PROVE  a \o e \in Whole(k)
<1>1. a \in Seq(Byte) /\ e \in Seq(Byte)
  BY ElementIs DEF Whole
<1>2. a \o e \in Seq(Byte)
  BY <1>1, Join
<1>3. ASSUME NEW M, Closed(M) PROVE <<k, a \o e>> \in M
  <2>1. <<k, a>> \in M
    BY <1>3 DEF Whole
  <2> QED
    BY <1>1, <1>3, <2>1 DEF Closed
<1> QED
  BY <1>2, <1>3 DEF Whole

LEMMA FieldAdded ==
  ASSUME NEW a \in Whole("message"), NEW t \in Tag, NEW y, NEW p, WholePayload(t, y, p)
  PROVE  a \o Field(t, y, p) \in Whole("message")
<1>1. /\ a \in Seq(Byte) /\ p \in Seq(Byte) /\ y \in WireTypes
      /\ y = LengthDelimited => Len(p) < ShortWord
  BY PayloadIs DEF Whole
<1>2. Field(t, y, p) \in Seq(Byte)
  BY <1>1, FieldIs
<1> DEFINE f == Field(t, y, p)
<1> HIDE DEF f
<1>3. a \o f \in Seq(Byte)
  BY <1>1, <1>2, Join DEF f
<1>4. ASSUME NEW M, Closed(M) PROVE <<"message", a \o f>> \in M
  <2>1. <<"message", a>> \in M
    BY <1>4 DEF Whole
  <2>2. AllWhole \subseteq M
    <3> SUFFICES ASSUME NEW x \in AllWhole PROVE x \in M
      OBVIOUS
    <3>1. x = <<x[1], x[2]>> /\ x[2] \in Whole(x[1])
      BY DEF AllWhole
    <3> QED
      BY <1>4, <3>1 DEF Whole
  <2>3. IsPayload(M, t, y, p)
    BY <2>2 DEF WholePayload, IsPayload
  <2> QED
    BY <1>1, <1>4, <2>1, <2>3 DEF Closed, f
<1> QED
  BY <1>3, <1>4 DEF Whole, f

\* What such a text can begin with.
IsHead(k, x) ==
  IF k = "message"
  THEN \E t \in Tag : \E y, p : WholePayload(t, y, p) /\ x = Field(t, y, p)
  ELSE IsElement(k, x)

Headed(k, s) == s = <<>> \/ \E x, r \in Seq(Byte) : IsHead(k, x) /\ r \in Whole(k) /\ s = x \o r

LEMMA HeadAdded ==
  ASSUME NEW k \in Kinds, NEW a \in Whole(k), NEW x, IsHead(k, x)
  PROVE  a \o x \in Whole(k) /\ x \in Seq(Byte) /\ a \in Seq(Byte)
<1>0. a \in Seq(Byte)
  BY DEF Whole
<1>1. CASE k = "message"
  <2>0. PICK t \in Tag : \E y, p : WholePayload(t, y, p) /\ x = Field(t, y, p)
    BY <1>1 DEF IsHead
  <2>1. PICK y, p : WholePayload(t, y, p) /\ x = Field(t, y, p)
    BY <2>0
  <2>2. a \o x \in Whole(k)
    BY <1>1, <2>1, FieldAdded
  <2>3. p \in Seq(Byte) /\ y \in WireTypes /\ (y = LengthDelimited => Len(p) < ShortWord)
    BY <2>1, PayloadIs
  <2>4. x \in Seq(Byte)
    BY <2>1, <2>3, FieldIs
  <2> QED
    BY <1>0, <2>2, <2>4
<1>2. CASE k # "message"
  <2>1. k \in PackedKinds /\ IsElement(k, x)
    BY <1>2 DEF Kinds, IsHead
  <2> QED
    BY <1>0, <2>1, ElementAdded, ElementIs
<1> QED
  BY <1>1, <1>2

LEMMA HeadedGrows ==
  ASSUME NEW k \in Kinds, NEW a \in Whole(k), Headed(k, a), NEW e, IsHead(k, e)
  PROVE  Headed(k, a \o e)
<1>0. e \in Seq(Byte) /\ a \in Seq(Byte)
  BY HeadAdded
<1>1. CASE a = <<>>
  <2>1. a \o e = e /\ e \o <<>> = e
    BY <1>0, <1>1, ConcatEmptySeq
  <2>2. <<>> \in Whole(k) /\ <<>> \in Seq(Byte)
    BY EmptyIsWhole, EmptySeq
  <2>3. a \o e = e \o <<>>
    BY <2>1
  <2> QED
    BY <1>0, <2>2, <2>3 DEF Headed
<1>2. CASE a # <<>>
  <2>1. PICK x, r \in Seq(Byte) : IsHead(k, x) /\ r \in Whole(k) /\ a = x \o r
    BY <1>2 DEF Headed
  <2> DEFINE q == r \o e
  <2>2. q \in Whole(k) /\ q \in Seq(Byte)
    BY <2>1, HeadAdded DEF Whole
  <2>3. (x \o r) \o e = x \o (r \o e)
    BY <1>0, <2>1, JoinAssociative
  <2>4. a \o e = x \o q
    BY <2>1, <2>3
  <2> HIDE DEF q
  <2> QED
    BY <2>1, <2>2, <2>4 DEF Headed
<1> QED
  BY <1>1, <1>2

\* A text is empty, or begins with a field or an element and goes on with a text.
LEMMA WholeHasHead ==
  ASSUME NEW k \in Kinds, NEW s \in Whole(k)
  PROVE  Headed(k, s)
<1> DEFINE M == {x \in Kinds \X Seq(Byte) : x[2] \in Whole(x[1]) /\ Headed(x[1], x[2])}
<1>1. ASSUME NEW j \in Kinds, NEW b
      PROVE  <<j, b>> \in M <=> b \in Whole(j) /\ Headed(j, b)
  <2>1. b \in Whole(j) => b \in Seq(Byte)
    BY DEF Whole
  <2> QED
    BY <2>1
<1>2. M \subseteq AllWhole
  BY DEF AllWhole
<1> HIDE DEF M
<1>3. "message" \in Kinds /\ PackedKinds \subseteq Kinds
  BY DEF Kinds
<1>4. ASSUME NEW j \in Kinds, NEW b, <<j, b>> \in M, NEW e, IsHead(j, e) PROVE <<j, b \o e>> \in M
  <2>1. b \in Whole(j) /\ Headed(j, b)
    BY <1>1, <1>4
  <2>2. b \o e \in Whole(j)
    BY <1>4, <2>1, HeadAdded
  <2>3. Headed(j, b \o e)
    BY <1>4, <2>1, HeadedGrows
  <2> DEFINE c == b \o e
  <2> HIDE DEF c
  <2>4. <<j, c>> \in M
    BY <1>1, <2>2, <2>3 DEF c
  <2> QED
    BY <2>4 DEF c
<1>5. Closed(M)
  <2>1. ASSUME NEW j \in Kinds PROVE <<j, <<>>>> \in M
    <3>1. <<>> \in Whole(j) /\ Headed(j, <<>>)
      BY EmptyIsWhole DEF Headed
    <3> QED
      BY <1>1, <3>1
  <2>2. ASSUME NEW j \in PackedKinds, NEW a \in Seq(Byte), NEW e \in Seq(Byte),
               <<j, a>> \in M, IsElement(j, e)
        PROVE  <<j, a \o e>> \in M
    <3>1. j \in Kinds /\ j # "message"
      BY <1>3 DEF PackedKinds
    <3>2. IsHead(j, e)
      BY <2>2, <3>1 DEF IsHead
    <3> QED
      BY <1>4, <2>2, <3>1, <3>2
  <2>3. ASSUME NEW a \in Seq(Byte), NEW p \in Seq(Byte), NEW t \in Tag, NEW y \in WireTypes,
               <<"message", a>> \in M, IsPayload(M, t, y, p)
        PROVE  <<"message", a \o Field(t, y, p)>> \in M
    <3>1. WholePayload(t, y, p)
      BY <1>2, <2>3 DEF IsPayload, WholePayload
    <3> DEFINE f == Field(t, y, p)
    <3>2. IsHead("message", f)
      BY <3>1 DEF IsHead
    <3> HIDE DEF f
    <3>3. <<"message", a \o f>> \in M
      BY <1>3, <1>4, <2>3, <3>2
    <3> QED
      BY <3>3 DEF f
  <2> QED
    BY <2>1, <2>2, <2>3 DEF Closed
<1>6. <<k, s>> \in M
  BY <1>5 DEF Whole
<1> QED
  BY <1>1, <1>6

-----------------------------------------------------------------------------
(* The open messages of a writer that was never interrupted.               *)

TagIs(f, kind) == f.tag \in Tag /\ Schema[f.tag] = kind

\* A message with a header, and n bytes of elements behind it.
SizedBytes(s, n, kind) ==
  \E t \in Tag : \E a \in Whole("message") : \E b \in Whole(kind) :
    /\ Schema[t] = kind /\ kind \in {"fixeds32", "fixeds64"}
    /\ s = (a \o HeaderOf(t)) \o b /\ Len(b) = n

LastWell(d, ws, s) ==
  IF DepthOf(ws) + 1 = Len(ws) THEN s \in Whole(ws[Len(ws)].kind)
  ELSE SizedBytes(s, Len(d) - ws[Len(ws) - 1].pos, ws[Len(ws)].kind)

WellWritten(fs, d, ws) ==
  /\ \A i \in 1 .. Len(fs) - 1 : fs[i].bytes \in Whole("message")
  /\ \A i \in 2 .. Len(fs) : TagIs(fs[i], ws[i].kind)
  /\ LastWell(d, ws, fs[Len(fs)].bytes)

LEMMA AlterKeeps ==
  ASSUME NEW fs, NEW fs2, NEW n, NEW f, AltersAt(fs, fs2, n, f),
         NEW d, NEW ws, NEW d2, NEW ws2, WellWritten(fs, d, ws),
         \A i \in 1 .. n : ws2[i].kind = ws[i].kind,
         LastWell(d2, ws2, fs[n].bytes \o f)
  PROVE  WellWritten(fs2, d2, ws2)
<1>1. Len(fs2) = n /\ n \in 1 .. Len(fs) /\ Len(fs) \in Nat /\ \A i \in 1 .. n - 1 : fs2[i] = fs[i]
  BY DEF AltersAt
<1>2. fs2[n].bytes = fs[n].bytes \o f
  BY AlteredIs
<1>3. fs2[n].tag = fs[n].tag
  BY DEF AltersAt, FrameOf
<1>4. LastWell(d2, ws2, fs2[Len(fs2)].bytes)
  BY <1>1, <1>2
<1>5. ASSUME NEW i \in 1 .. Len(fs2) - 1 PROVE fs2[i].bytes \in Whole("message")
  <2>1. i \in 1 .. n - 1 /\ i \in 1 .. Len(fs) - 1
    BY <1>1
  <2> QED
    BY <1>1, <2>1 DEF WellWritten
<1>6. ASSUME NEW i \in 2 .. Len(fs2) PROVE TagIs(fs2[i], ws2[i].kind)
  <2>1. i \in 2 .. Len(fs) /\ i \in 1 .. n /\ (i = n \/ i \in 1 .. n - 1)
    BY <1>1
  <2>2. TagIs(fs[i], ws[i].kind)
    BY <2>1 DEF WellWritten
  <2>3. fs2[i].tag = fs[i].tag
    BY <1>1, <1>3, <2>1
  <2> QED
    BY <2>1, <2>2, <2>3 DEF TagIs
<1> QED
  BY <1>4, <1>5, <1>6 DEF WellWritten

LEMMA KindIs ==
  ASSUME WriterInv(data, writers)
  PROVE  /\ Writer.kind \in Kinds /\ Writer = writers[Len(writers)]
         /\ Len(Frames) = DepthOf(writers) + 1 /\ Len(Frames) \in Nat /\ Len(Frames) >= 1
         /\ DepthOf(writers) \in Nat /\ Len(writers) = Top /\ Top \in Nat
<1>1. Writer \in WriterType /\ Len(writers) = Top /\ Top \in Nat
  BY TopIs
<1>2. DepthOf(writers) \in Nat
  BY DepthIs
<1>3. Len(Frames) = DepthOf(writers) + 1
  BY FramesLength
<1> QED
  BY <1>1, <1>2, <1>3 DEF WriterType, Kinds, Writer

LEMMA AddsWell ==
  ASSUME WriterInv(data, writers), WriterInv(data', writers'), WellWritten(Frames, data, writers),
         NEW s, IsHead(Writer.kind, s), Adds(s), outcome' = "fine"
  PROVE  WellWritten(Frames', data', writers')
<1> DEFINE fs == Frames
           k == Writer.kind
           n == Len(fs)
           old == fs[n].bytes
           m == DepthOf(writers)
<1>1. s \in Seq(Byte) /\ data' = data \o s /\ writers' = writers
  <2>1. PICK j : GrowsBy(s, j)
    BY DEF Adds
  <2>2. j = Len(s) /\ data' = data \o Slice(s, 0, j)
    BY <2>1 DEF GrowsBy
  <2>3. Slice(s, 0, j) = s
    BY <2>2, SliceAll DEF Adds
  <2> QED
    BY <2>2, <2>3 DEF Adds
<1>2. k \in Kinds /\ k = writers[Len(writers)].kind
  BY KindIs
<1>3. AltersAt(Frames, Frames', Len(Frames), s)
  <2>1. m = DepthOf(writers) /\ DepthOf(writers') = m /\ \A j \in 1 .. m : writers'[j] = writers[j]
    BY <1>1
  <2> HIDE DEF m
  <2> QED
    BY <1>1, <2>1, GrowsFrames
<1>4. LastWell(data, writers, old)
  BY DEF WellWritten
<1> HIDE DEF fs, old
<1>5. LastWell(data', writers', old \o s)
  <2>1. CASE m + 1 = Len(writers)
    <3>1. old \in Whole(k)
      BY <1>2, <1>4, <2>1 DEF LastWell
    <3> HIDE DEF k
    <3>2. old \o s \in Whole(k)
      BY <1>2, <3>1, HeadAdded DEF k
    <3> QED
      BY <1>1, <1>2, <2>1, <3>2 DEF LastWell
  <2>2. CASE m + 1 # Len(writers)
    <3> DEFINE p == writers[Len(writers) - 1].pos
    <3>1. PICK t \in Tag, a \in Whole("message"), b \in Whole(k) :
            /\ Schema[t] = k /\ k \in {"fixeds32", "fixeds64"}
            /\ old = (a \o HeaderOf(t)) \o b /\ Len(b) = Len(data) - p
      BY <1>2, <1>4, <2>2 DEF LastWell, SizedBytes
    <3> DEFINE c == b \o s
               h == a \o HeaderOf(t)
    <3>2. c \in Whole(k) /\ b \in Seq(Byte)
      BY <1>2, <3>1, HeadAdded
    <3>3. h \in Seq(Byte)
      <4>1. a \in Seq(Byte)
        BY DEF Whole
      <4>2. HeaderOf(t) \in Seq(Byte)
        BY LengthText, WidthIs DEF HeaderOf
      <4> QED
        BY <4>1, <4>2, Join
    <3>4. Len(c) = Len(b) + Len(s) /\ Len(data') = Len(data) + Len(s)
      BY <1>1, <3>2, Join, TopIs
    <3>5. p \in Nat /\ Len(data) \in Nat /\ Len(s) \in Nat
      <4>1. Len(writers) - 1 \in 1 .. Top
        <5>1. Len(writers) = Top /\ Top \in Nat /\ m \in Nat /\ Top >= 1
          BY KindIs, TopIs
        <5>2. Top # 1
          BY <2>2, <5>1 DEF DepthOf
        <5> QED
          BY <5>1, <5>2
      <4>2. writers[Len(writers) - 1] \in WriterType
        BY <4>1, TopIs
      <4> QED
        BY <1>1, <4>2, TopIs DEF WriterType
    <3>6. Len(c) = Len(data') - p
      <4> HIDE DEF c, p
      <4> QED
        BY <3>1, <3>4, <3>5
    <3>7. old \o s = h \o c
      <4> HIDE DEF h
      <4>1. (h \o b) \o s = h \o (b \o s)
        BY <1>1, <3>2, <3>3, JoinAssociative
      <4> QED
        BY <3>1, <4>1 DEF h
    <3> HIDE DEF c, p, k
    <3>8. SizedBytes(old \o s, Len(data') - p, k)
      BY <3>1, <3>2, <3>6, <3>7 DEF SizedBytes, h
    <3> QED
      BY <1>1, <1>2, <2>2, <3>8 DEF LastWell, p
  <2> QED
    BY <2>1, <2>2
<1> HIDE DEF n
<1>6. AltersAt(Frames, Frames', n, s) /\ LastWell(data', writers', Frames[n].bytes \o s)
  BY <1>3, <1>5 DEF n, old, fs
<1>7. \A i \in 1 .. n : writers'[i].kind = writers[i].kind
  BY <1>1
<1> QED
  BY <1>6, <1>7, AlterKeeps

LEMMA MarkLessWell ==
  ASSUME WriterInv(data, writers), WellWritten(Frames, data, writers), DepthOf(writers) = Top - 1
  PROVE  /\ Frames[Top].bytes \in Whole(Writer.kind) /\ Len(Frames) = Top
         /\ Top > 1 => TagIs(Frames[Top], Writer.kind)
<1>1. Len(Frames) = Top /\ Len(writers) = Top /\ Top \in Nat /\ Top >= 1 /\ Writer = writers[Len(writers)]
      /\ DepthOf(writers) + 1 = Len(writers)
  BY KindIs
<1>2. LastWell(data, writers, Frames[Len(Frames)].bytes)
  BY DEF WellWritten
<1>3. Frames[Top].bytes \in Whole(Writer.kind)
  BY <1>1, <1>2 DEF LastWell
<1>4. Top > 1 => Top \in 2 .. Len(Frames)
  BY <1>1
<1> QED
  BY <1>1, <1>3, <1>4 DEF WellWritten

LEMMA OpensWell ==
  ASSUME WriterInv(data, writers), WriterInv(data', writers'), WellWritten(Frames, data, writers),
         NEW t \in SubmessageTags, Writer.kind = "message", Opens(t)
  PROVE  WellWritten(Frames', data', writers')
<1>1. OpensFrame(t)
  BY OpensFrames
<1>2. Top \in Nat /\ Top >= 1 /\ Len(writers) = Top /\ DepthOf(writers) = Top - 1
  BY KindIs, TopIs, DepthIs DEF Writer
<1>3. Frames[Top].bytes \in Whole("message") /\ Len(Frames) = Top
  BY <1>2, MarkLessWell
<1>4. Schema[t] \in Kinds /\ t \in Tag
  BY DEF SubmessageTags, TagsOf, Kinds
<1>5. /\ Len(Frames') = Top + 1 /\ Frames'[Top + 1] = FrameOf(t, <<>>)
      /\ Len(writers') = Top + 1 /\ DepthOf(writers') = Top /\ writers'[Top + 1].kind = Schema[t]
      /\ \A i \in 1 .. Top : Frames'[i] = Frames[i]
      /\ \A i \in 1 .. Top : writers'[i].kind = writers[i].kind
  BY <1>1 DEF OpensFrame
<1>6. FrameOf(t, <<>>).bytes = <<>> /\ FrameOf(t, <<>>).tag = t
  BY DEF FrameOf
<1>7. LastWell(data', writers', Frames'[Len(Frames')].bytes)
  <2>1. <<>> \in Whole(Schema[t])
    BY <1>4, EmptyIsWhole
  <2> QED
    BY <1>2, <1>5, <1>6, <2>1 DEF LastWell
<1>8. ASSUME NEW i \in 1 .. Len(Frames') - 1 PROVE Frames'[i].bytes \in Whole("message")
  <2>1. i \in 1 .. Top /\ (i = Top \/ i \in 1 .. Len(Frames) - 1)
    BY <1>2, <1>3, <1>5
  <2> QED
    BY <1>3, <1>5, <2>1 DEF WellWritten
<1>9. ASSUME NEW i \in 2 .. Len(Frames') PROVE TagIs(Frames'[i], writers'[i].kind)
  <2>1. i = Top + 1 \/ (i \in 2 .. Len(Frames) /\ i \in 1 .. Top)
    BY <1>2, <1>3, <1>5
  <2>2. CASE i = Top + 1
    BY <1>4, <1>5, <1>6, <2>2 DEF TagIs
  <2>3. CASE i \in 2 .. Len(Frames) /\ i \in 1 .. Top
    BY <1>5, <2>3 DEF WellWritten, TagIs
  <2> QED
    BY <2>1, <2>2, <2>3
<1> QED
  BY <1>7, <1>8, <1>9 DEF WellWritten

LEMMA KnownOpensWell ==
  ASSUME WriterInv(data, writers), WriterInv(data', writers'), WellWritten(Frames, data, writers),
         NEW t \in Tag, Schema[t] \in {"fixeds32", "fixeds64"}, HeaderOf(t) \in Seq(Byte),
         Writer.kind = "message", KnownOpens(t)
  PROVE  WellWritten(Frames', data', writers')
<1> DEFINE n == Len(Frames)
           s == HeaderOf(t)
           k == Schema[t]
<1>1. OpensSized(t)
  BY KnownOpensFrames
<1>2. Top \in Nat /\ Top >= 1 /\ DepthOf(writers) = Top - 1
  BY <1>1, TopIs DEF OpensSized
<1>3. Frames[n].bytes \in Whole("message") /\ n = Top
  BY <1>2, MarkLessWell
<1>4. Len(writers') = Top + 1 /\ DepthOf(writers') = Top - 1 /\ writers'[Top + 1].kind = k
      /\ writers'[Top].pos = Len(data') /\ AltersAt(Frames, Frames', n, s)
      /\ \A i \in 1 .. Top : writers'[i].kind = writers[i].kind
  BY <1>1 DEF OpensSized
<1> DEFINE a == Frames[n].bytes
<1> HIDE DEF n
<1>5. LastWell(data', writers', a \o s)
  <2>1. k \in Kinds /\ <<>> \in Whole(k)
    <3>1. k \in Kinds
      BY DEF Kinds, PackedKinds
    <3> QED
      BY <3>1, EmptyIsWhole
  <2>2. a \o s = (a \o s) \o <<>>
    <3>1. a \in Seq(Byte)
      BY <1>3 DEF Whole
    <3> HIDE DEF a, s
    <3>2. a \o s \in Seq(Byte)
      BY <3>1, Join DEF s
    <3> QED
      BY <3>2, ConcatEmptySeq
  <2>3. Len(data') - writers'[Top].pos = 0 /\ Len(<<>>) = 0
    BY <1>4, TopIs DEF WriterInv
  <2> HIDE DEF a, k
  <2>4. SizedBytes(a \o s, 0, k)
    BY <1>3, <2>1, <2>2, <2>3 DEF SizedBytes, k, a
  <2>5. DepthOf(writers') + 1 # Len(writers') /\ Len(writers') - 1 = Top
    BY <1>2, <1>4
  <2> QED
    BY <1>4, <2>3, <2>4, <2>5 DEF LastWell
<1> HIDE DEF s
<1> QED
  BY <1>3, <1>4, <1>5, AlterKeeps

LEMMA ClosesWell ==
  ASSUME WriterInv(data, writers), WriterInv(data', writers'), WellWritten(Frames, data, writers),
         Top > 1, HasMark(data, writers, Top - 1), NEW f, Closes(f),
         \A a \in Whole("message") : a \o f \in Whole("message")
  PROVE  WellWritten(Frames', data', writers')
<1> DEFINE n == Len(Frames) - 1
           w == [Parent EXCEPT !.pos = 0]
<1>1. AltersAt(Frames, Frames', n, f)
  BY ClosesFrames
<1>2. DepthOf(writers) = Top - 1
  BY MarkedDepth
<1>3. Len(Frames) = Top /\ Top \in Nat
  BY <1>2, KindIs
<1>4. Popped(writers', w) /\ w \in WriterType /\ w.kind = "message"
  <2>1. Parent \in WriterType /\ Parent.kind = "message" /\ 0 \in Nat /\ 0 \in Int
    BY ParentIs
  <2> DEFINE v == Parent
  <2> HIDE DEF v, w
  <2>2. w = [v EXCEPT !.pos = 0] /\ v \in WriterType /\ v.kind = "message"
    BY <2>1 DEF v, w
  <2>3. [v EXCEPT !.pos = 0] \in WriterType /\ [v EXCEPT !.pos = 0].kind = v.kind
    BY <2>1, <2>2, RecordsAre
  <2> QED
    BY <2>2, <2>3 DEF Closes, Leave, Popped, w
<1> HIDE DEF w
<1>5. Len(writers') = Top - 1 /\ writers'[Top - 1] = w /\ \A k \in 1 .. Top - 2 : writers'[k] = writers[k]
  BY <1>4, PopWriter
<1>6. DepthOf(writers') = Top - 2
  BY <1>4, PoppedDepth
<1>7. \A i \in 1 .. n : writers'[i].kind = writers[i].kind
  <2> SUFFICES ASSUME NEW i \in 1 .. n PROVE writers'[i].kind = writers[i].kind
    OBVIOUS
  <2>1. i = Top - 1 \/ i \in 1 .. Top - 2
    BY <1>3
  <2>2. writers[Top - 1].kind = "message"
    BY ParentIs DEF Parent
  <2> QED
    BY <1>4, <1>5, <2>1, <2>2
<1>8. LastWell(data', writers', Frames[n].bytes \o f)
  <2>1. n \in 1 .. Len(Frames) - 1
    BY <1>3
  <2>2. Frames[n].bytes \in Whole("message")
    BY <2>1 DEF WellWritten
  <2>3. Frames[n].bytes \o f \in Whole("message")
    BY <2>2
  <2>4. DepthOf(writers') + 1 = Len(writers') /\ writers'[Len(writers')].kind = "message"
    BY <1>3, <1>4, <1>5, <1>6
  <2> QED
    BY <2>3, <2>4 DEF LastWell
<1> HIDE DEF n
<1> QED
  BY <1>1, <1>7, <1>8, AlterKeeps

\* All that a writer adds at once is a field of the schema, or an element.
LEMMA PieceIsField ==
  ASSUME NEW s \in FieldPieces
  PROVE  IsHead("message", s)
<1> DEFINE A1 == {Field(t, VarintType, EncodeVarint(VarintOf(Schema[t], v))) :
                    t \in TagsOf({"int", "sint"}), v \in Ints}
           A2 == {Field(t, VarintType, <<b>>) : t \in TagsOf({"bool"}), b \in {0, 1}}
           A3 == UNION {{Field(t, FixedType(Schema[t]), v) : v \in FixedValues(Width(Schema[t]))} :
                          t \in TagsOf({"fixed32", "fixed64"})}
           A4 == {Field(t, LengthDelimited, s0) : t \in TagsOf({"bytes"}), s0 \in Contents}
           A5 == {Field(t, LengthDelimited, s1 \o s2) :
                    t \in TagsOf({"bytes"}), s1 \in Contents, s2 \in Contents}
           A6 == UNION {{Field(t, LengthDelimited, v \o v) : v \in FixedValues(Width(Schema[t]))} :
                          t \in TagsOf({"fixeds32", "fixeds64"})}
<1>1. FieldPieces = UNION {A1, A2, A3, A4, A5, A6}
  BY DEF FieldPieces
<1>2. ASSUME NEW t \in Tag, NEW y, NEW p, WholePayload(t, y, p), s = Field(t, y, p)
      PROVE  IsHead("message", s)
  BY <1>2 DEF IsHead
<1>3. CASE s \in A1
  <2>1. PICK t \in TagsOf({"int", "sint"}), v \in Ints :
          s = Field(t, VarintType, EncodeVarint(VarintOf(Schema[t], v)))
    BY <1>3
  <2>2. t \in Tag /\ Schema[t] \in {"int", "sint"}
    BY DEF TagsOf
  <2> DEFINE u == VarintOf(Schema[t], v)
             p == EncodeVarint(u)
  <2>3. u \in 0 .. Word - 1 /\ p \in Seq(Byte)
    BY VarintOfIs
  <2> HIDE DEF u
  <2>4. WholePayload(t, VarintType, p)
    BY <2>2, <2>3 DEF WholePayload, IsPayload
  <2> QED
    BY <1>2, <2>1, <2>2, <2>4 DEF u
<1>4. CASE s \in A2
  <2>1. PICK t \in TagsOf({"bool"}), b \in {0, 1} : s = Field(t, VarintType, <<b>>)
    BY <1>4
  <2>2. t \in Tag /\ Schema[t] = "bool"
    BY DEF TagsOf
  <2>3. <<b>> \in Seq(Byte)
    <3>1. b \in Byte
      BY Widths DEF Byte
    <3> QED
      BY <3>1
  <2>4. WholePayload(t, VarintType, <<b>>)
    BY <2>2, <2>3 DEF WholePayload, IsPayload
  <2> QED
    BY <1>2, <2>1, <2>2, <2>4
<1>5. CASE s \in A3
  <2>1. PICK t \in TagsOf({"fixed32", "fixed64"}) :
          s \in {Field(t, FixedType(Schema[t]), v) : v \in FixedValues(Width(Schema[t]))}
    BY <1>5
  <2>2. PICK v \in FixedValues(Width(Schema[t])) : s = Field(t, FixedType(Schema[t]), v)
    BY <2>1
  <2>3. t \in Tag /\ Schema[t] \in {"fixed32", "fixed64"}
    BY DEF TagsOf
  <2>4. v \in Seq(Byte) /\ Len(v) = Width(Schema[t])
    BY WidthIs, FixedValuesAre
  <2>5. WholePayload(t, FixedType(Schema[t]), v)
    BY <2>3, <2>4 DEF WholePayload, IsPayload, FixedType, Width
  <2> QED
    BY <1>2, <2>2, <2>3, <2>5
<1>6. CASE s \in A4
  <2>1. PICK t \in TagsOf({"bytes"}), s0 \in Contents : s = Field(t, LengthDelimited, s0)
    BY <1>6
  <2>2. t \in Tag /\ Schema[t] = "bytes"
    BY DEF TagsOf
  <2>3. s0 \in Seq(Byte) /\ Len(s0) < ShortWord
    <3>1. s0 \in Seq(Byte) /\ Len(s0) + Len(s0) < ShortWord
      BY WriterAssumption
    <3> QED
      BY <3>1, LenProperties, Sizes
  <2>4. WholePayload(t, LengthDelimited, s0)
    BY <2>2, <2>3 DEF WholePayload, IsPayload
  <2> QED
    BY <1>2, <2>1, <2>2, <2>4
<1>7. CASE s \in A5
  <2>1. PICK t \in TagsOf({"bytes"}), s1 \in Contents, s2 \in Contents :
          s = Field(t, LengthDelimited, s1 \o s2)
    BY <1>7
  <2>2. t \in Tag /\ Schema[t] = "bytes"
    BY DEF TagsOf
  <2> DEFINE p == s1 \o s2
  <2>3. p \in Seq(Byte) /\ Len(p) < ShortWord
    <3>1. s1 \in Seq(Byte) /\ s2 \in Seq(Byte) /\ Len(s1) + Len(s2) < ShortWord
      BY WriterAssumption
    <3> QED
      BY <3>1, Join
  <2> HIDE DEF p
  <2>4. WholePayload(t, LengthDelimited, p)
    BY <2>2, <2>3 DEF WholePayload, IsPayload
  <2> QED
    BY <1>2, <2>1, <2>2, <2>4 DEF p
<1>8. CASE s \in A6
  <2>1. PICK t \in TagsOf({"fixeds32", "fixeds64"}) :
          s \in {Field(t, LengthDelimited, v \o v) : v \in FixedValues(Width(Schema[t]))}
    BY <1>8
  <2>2. PICK v \in FixedValues(Width(Schema[t])) : s = Field(t, LengthDelimited, v \o v)
    BY <2>1
  <2> DEFINE k == Schema[t]
             p == v \o v
  <2>3. t \in Tag /\ k \in {"fixeds32", "fixeds64"} /\ k \in PackedKinds /\ k \in Kinds
    BY DEF TagsOf, PackedKinds, Kinds
  <2>4. v \in Seq(Byte) /\ Len(v) = Width(k) /\ Width(k) \in Nat /\ 2 * Width(k) < ShortWord
    BY WidthIs, FixedValuesAre, Sizes
  <2>5. Len(v) = ElementSize(k)
    BY <2>3, <2>4 DEF Width, ElementSize
  <2> HIDE DEF k
  <2>6. IsElement(k, v)
    BY <2>3, <2>4, <2>5 DEF IsElement
  <2>7. v \in Whole(k)
    <3>1. <<>> \in Whole(k)
      BY <2>3, EmptyIsWhole
    <3>2. <<>> \o v \in Whole(k)
      BY <2>3, <2>6, <3>1, ElementAdded
    <3>3. <<>> \o v = v
      BY <2>4, ConcatEmptySeq
    <3> QED
      BY <3>2, <3>3
  <2>8. p \in Whole(k)
    BY <2>3, <2>6, <2>7, ElementAdded
  <2>9. p \in Seq(Byte) /\ Len(p) < ShortWord
    <3>1. p \in Seq(Byte) /\ Len(p) = Len(v) + Len(v)
      BY <2>4, Join
    <3> HIDE DEF p
    <3> QED
      BY <2>4, <3>1
  <2> HIDE DEF p
  <2>10. <<k, p>> \in AllWhole
    BY <2>3, <2>8, WholeIs
  <2>11. WholePayload(t, LengthDelimited, p)
    BY <2>3, <2>9, <2>10 DEF WholePayload, IsPayload, k
  <2> QED
    BY <1>2, <2>2, <2>3, <2>11 DEF p
<1> HIDE DEF A1, A2, A3, A4, A5, A6
<1> QED
  BY <1>1, <1>3, <1>4, <1>5, <1>6, <1>7, <1>8

LEMMA PieceIsHead ==
  ASSUME NEW kind \in Kinds, NEW s \in PiecesOf(kind)
  PROVE  IsHead(kind, s)
<1>1. CASE kind = "message"
  BY <1>1, PieceIsField DEF PiecesOf
<1>2. CASE kind # "message" /\ kind \in {"ints", "sints"}
  <2>1. PICK v \in Ints : s = EncodeVarint(VarintOf(kind, v))
    BY <1>2 DEF PiecesOf
  <2>2. VarintOf(kind, v) \in 0 .. Word - 1
    BY VarintOfIs
  <2> QED
    BY <1>2, <2>1, <2>2 DEF IsHead, IsElement
<1>3. CASE kind # "message" /\ kind \notin {"ints", "sints"}
  <2>1. s \in FixedValues(Width(kind)) /\ kind \in {"fixeds32", "fixeds64"}
    BY <1>3 DEF PiecesOf, Kinds, PackedKinds
  <2>2. s \in Seq(Byte) /\ Len(s) = Width(kind)
    BY <2>1, WidthIs, FixedValuesAre
  <2>3. Len(s) = ElementSize(kind)
    BY <2>1, <2>2 DEF Width, ElementSize
  <2> QED
    BY <1>3, <2>1, <2>2, <2>3 DEF IsHead, IsElement
<1> QED
  BY <1>1, <1>2, <1>3

LEMMA BuffersAreShort ==
  ASSUME WriterInv(data, writers)
  PROVE  Len(data) < ShortWord
<1> DEFINE v == ShortWord - 1
           r == ReserveBytes
<1>1. Len(data) \in Nat /\ Len(data) <= Capacity /\ Capacity \in Nat /\ Capacity < Power[r - 1]
      /\ r \in 1 .. MaxVarintLength
  BY TopIs, CapacityIs
<1>2. v \in 0 .. Word - 1 /\ ShortWord \in Nat /\ ShortWord > 0
  BY Sizes, Widths
<1>3. v \in Nat /\ v < Power[MaxVarintLength]
  BY <1>2, LengthOfWord
<1>4. r = LengthOfVarint(v)
  BY WriterAssumption
<1> HIDE DEF v, r
<1>5. r = 1 \/ v >= Power[r - 1]
  BY <1>3, <1>4, LengthIs
<1>6. CASE r = 1
  <2>1. Power[r - 1] = 1
    BY <1>6, PowerIs
  <2> QED
    BY <1>1, <1>2, <2>1
<1>7. CASE v >= Power[r - 1]
  <2>1. Power[r - 1] \in Nat
    BY <1>1, Widths
  <2> QED
    BY <1>1, <1>2, <1>7, <2>1 DEF v
<1> QED
  BY <1>5, <1>6, <1>7

LEMMA SubmessageAdded ==
  ASSUME NEW a \in Whole("message"), NEW t \in Tag, NEW k \in Kinds, Schema[t] = k,
         NEW p \in Whole(k), Len(p) < ShortWord
  PROVE  a \o Field(t, LengthDelimited, p) \in Whole("message")
<1>1. <<k, p>> \in AllWhole /\ p \in Seq(Byte)
  BY WholeIs DEF Whole
<1>2. WholePayload(t, LengthDelimited, p)
  BY <1>1 DEF WholePayload, IsPayload
<1> QED
  BY <1>2, FieldAdded

LEMMA CommitsWell ==
  ASSUME WriterInv(data, writers), WriterInv(data', writers'), WellWritten(Frames, data, writers),
         Top > 1, NEW t \in SubmessageTags, CommitsAs(t)
  PROVE  WellWritten(Frames', data', writers')
<1> DEFINE p == Payload
           f == Field(t, LengthDelimited, p)
           k == Writer.kind
<1>1. Marked(data, writers, Top - 1, t) /\ Closes(f) /\ Len(p) = Len(data) - Parent.pos
  BY DEF CommitsAs
<1>2. HasMark(data, writers, Top - 1)
  BY <1>1 DEF HasMark
<1>3. DepthOf(writers) = Top - 1
  BY <1>2, MarkedDepth
<1>4. Frames[Top].bytes \in Whole(k) /\ TagIs(Frames[Top], k)
  BY <1>3, MarkLessWell
<1>5. Len(Frames) = Top /\ Frames[Len(Frames)].tag = t /\ Frames[Len(Frames)].bytes = p
  BY <1>1, InnermostFrame
<1>6. k \in Kinds /\ t \in Tag /\ Schema[t] = k /\ p \in Whole(k)
  BY <1>4, <1>5, KindIs DEF TagIs
<1>7. Len(p) < ShortWord
  <2>1. Len(data) < ShortWord /\ Len(data) \in Nat /\ ShortWord \in Nat
    BY BuffersAreShort, TopIs, Sizes
  <2>2. Parent.pos \in Nat
    BY ParentIs DEF WriterType
  <2> HIDE DEF p
  <2> QED
    BY <1>1, <2>1, <2>2
<1> HIDE DEF p, k
<1>8. \A a \in Whole("message") : a \o f \in Whole("message")
  BY <1>6, <1>7, SubmessageAdded
<1> HIDE DEF f
<1> QED
  BY <1>1, <1>2, <1>8, ClosesWell

LEMMA RollbackWell ==
  ASSUME WriterInv(data, writers), WriterInv(data', writers'), WellWritten(Frames, data, writers),
         Top > 1, HasMark(data, writers, Top - 1), Closes(<<>>)
  PROVE  WellWritten(Frames', data', writers')
<1>1. ASSUME NEW a \in Whole("message") PROVE a \o <<>> \in Whole("message")
  <2>1. a \in Seq(Byte)
    BY DEF Whole
  <2>2. a \o <<>> = a
    BY <2>1, ConcatEmptySeq
  <2> QED
    BY <2>2
<1> QED
  BY <1>1, ClosesWell

\* A packed field that has the size it was opened with is a field.
LEMMA SizedWell ==
  ASSUME WriterInv(data, writers), WriterInv(data', writers'), WellWritten(Frames, data, writers),
         Top > 1, IsSized(writers, Top - 1), data' = data, Leave(Parent), ~PromiseBroken
  PROVE  WellWritten(Frames', data', writers')
<1> DEFINE k == Writer.kind
           n == Len(Frames)
           s == Frames[n].bytes
           z == Parent.pos
<1>1. /\ Frames' = Frames /\ DepthOf(writers) = Top - 2 /\ DepthOf(writers') = Top - 2
      /\ Len(writers') = Top - 1 /\ \A j \in 1 .. Top - 1 : writers'[j] = writers[j]
  BY SizedFrames
<1>2. Top \in Nat /\ Len(writers) = Top /\ n = Top - 1 /\ k = writers[Top].kind /\ k \in Kinds
  BY <1>1, KindIs
<1>3. SizedBytes(s, Len(data) - z, k)
  <2>1. LastWell(data, writers, s)
    BY DEF WellWritten
  <2>2. DepthOf(writers) + 1 # Len(writers)
    BY <1>1, <1>2
  <2> QED
    BY <1>2, <2>1, <2>2 DEF LastWell, Parent
<1>4. Len(data) = z + Width(k)
  <2>1. Len(writers') < Top
    BY <1>1, <1>2
  <2>2. Parent.rollbackPos = SizeIsKnown
    BY DEF IsSized, Parent
  <2> QED
    BY <2>1, <2>2 DEF PromiseBroken
<1>5. PICK t \in Tag, a \in Whole("message"), b \in Whole(k) :
        /\ Schema[t] = k /\ s = (a \o HeaderOf(t)) \o b /\ Len(b) = Len(data) - z
  BY <1>3 DEF SizedBytes
<1>6. Len(b) = Width(k) /\ Len(b) < ShortWord
  <2>1. Width(k) \in Nat /\ Width(k) < ShortWord
    BY WidthIs, Sizes
  <2>2. z \in Nat
    BY ParentIs DEF WriterType
  <2> HIDE DEF z, k
  <2> QED
    BY <1>4, <1>5, <2>1, <2>2
<1> DEFINE f == Field(t, LengthDelimited, b)
           h == HeaderOf(t)
<1>7. a \o f \in Whole("message")
  BY <1>2, <1>5, <1>6, SubmessageAdded
<1>8. s = a \o f
  <2>1. a \in Seq(Byte) /\ b \in Seq(Byte)
    BY DEF Whole
  <2>2. f = (EncodeVarint(Key(t, LengthDelimited)) \o EncodeVarint(Len(b))) \o b
    BY <1>6, <2>1, FieldIs, TypesAre
  <2>3. h = EncodeVarint(Key(t, LengthDelimited)) \o EncodeVarint(Len(b))
    BY <1>5, <1>6 DEF HeaderOf
  <2>4. h \in Seq(Byte)
    BY LengthText, WidthIs DEF HeaderOf
  <2> HIDE DEF h, f
  <2>5. f = h \o b
    BY <2>2, <2>3
  <2>6. (a \o h) \o b = a \o (h \o b)
    BY <2>1, <2>4, JoinAssociative
  <2>7. s = (a \o h) \o b
    BY <1>5 DEF h
  <2> QED
    BY <2>5, <2>6, <2>7
<1>9. s \in Whole("message")
  BY <1>7, <1>8
<1>10. LastWell(data', writers', s)
  <2>1. DepthOf(writers') + 1 = Len(writers')
    BY <1>1, <1>2
  <2>2. writers'[Len(writers')].kind = "message"
    BY <1>1, <1>2, ParentIs DEF Parent
  <2> QED
    BY <1>9, <2>1, <2>2 DEF LastWell
<1>11. ASSUME NEW i \in 2 .. n PROVE TagIs(Frames[i], writers'[i].kind)
  <2>1. i \in 1 .. Top - 1
    BY <1>2
  <2> QED
    BY <1>1, <2>1 DEF WellWritten
<1>12. \A i \in 1 .. n - 1 : Frames[i].bytes \in Whole("message")
  BY DEF WellWritten
<1> QED
  BY <1>1, <1>10, <1>11, <1>12 DEF WellWritten

LEMMA CloseWell ==
  ASSUME WriterInv(data, writers), WriterInv(data', writers'), WellWritten(Frames, data, writers),
         Top > 1, CloseSubmessage, ~PromiseBroken
  PROVE  WellWritten(Frames', data', writers')
BY CloseIs, SizedWell, RollbackWell, CommitsWell

\* Of the writer's steps, those that go well.
LEMMA WriterStepWell ==
  ASSUME WriterInv(data, writers), WriterInv(data', writers'), WellWritten(Frames, data, writers),
         WriterNext, outcome = "fine", outcome' = "fine", ~PromiseBroken
  PROVE  WellWritten(Frames', data', writers')
<1>1. ASSUME NEW s \in PiecesOf(Writer.kind), Adds(s) PROVE WellWritten(Frames', data', writers')
  <2>1. IsHead(Writer.kind, s)
    BY KindIs, PieceIsHead
  <2> QED
    BY <1>1, <2>1, AddsWell
<1>0. data \in Seq(Byte) /\ Len(data) <= Capacity
  BY TopIs
<1>2. ASSUME NEW t \in Tag, \/ AddVarint(t) \/ AddBool(t) \/ AddFixed(t)
                            \/ AddBytes(t) \/ AddBytesVectored(t) \/ AddPackedFixed(t)
      PROVE  WellWritten(Frames', data', writers')
  <2>1. \E s \in PiecesOf(Writer.kind) : Adds(s)
    BY <1>0, <1>2, AddVarintIs, AddBoolIs, AddFixedIs, AddBytesIs, AddBytesVectoredIs, AddPackedFixedIs
  <2> QED
    BY <1>1, <2>1
<1>3. CASE AddElement
  <2>1. \E s \in PiecesOf(Writer.kind) : Adds(s)
    BY <1>0, <1>3, AddElementIs
  <2> QED
    BY <1>1, <2>1
<1>4. ASSUME NEW t \in Tag, OpenPacked(t) \/ OpenMessage(t) PROVE WellWritten(Frames', data', writers')
  <2>1. t \in SubmessageTags /\ OpenSubmessage(t)
    BY <1>4 DEF OpenPacked, OpenMessage, SubmessageTags, TagsOf
  <2>2. Writer.kind = "message" /\ Opens(t)
    BY <2>1, OpenIs DEF OpenFails
  <2> QED
    BY <2>1, <2>2, OpensWell
<1>5. ASSUME NEW t \in Tag, OpenKnownSize(t, 1) PROVE WellWritten(Frames', data', writers')
  <2>1. /\ Writer.kind = "message" /\ KnownOpens(t) /\ Schema[t] \in {"fixeds32", "fixeds64"}
        /\ HeaderOf(t) \in Seq(Byte)
    BY <1>5, OpenKnownIs DEF KnownFails
  <2> QED
    BY <2>1, KnownOpensWell
<1>6. CASE Destroy
  BY <1>6, CloseWell DEF Destroy
<1>7. CASE Commit
  BY <1>7, CloseWell DEF Commit, Assertion
<1>8. CASE Rollback
  <2>1. Top > 1 /\ Parent.rollbackPos # SizeIsKnown /\ RollbackSubmessage
    BY <1>8 DEF Rollback, Assertion
  <2>2. HasMark(data, writers, Top - 1)
    BY <2>1, ParentIs DEF IsSized, Parent
  <2>3. Closes(<<>>)
    BY <2>1, <2>2, RollbackIs
  <2> QED
    BY <2>1, <2>2, <2>3, RollbackWell
<1>9. CASE Catch
  BY <1>9 DEF Catch
<1> QED
  BY <1>2, <1>3, <1>4, <1>5, <1>6, <1>7, <1>8, <1>9 DEF WriterNext

-----------------------------------------------------------------------------
(* What a reader finds in such a text.                                     *)

LEMMA PartsOf ==
  ASSUME NEW u \in Seq(Byte), NEW v \in Seq(Byte), NEW x, x = u \o v,
         NEW k, k = Len(u), NEW n, n = Len(u) + Len(v)
  PROVE  /\ k \in Nat /\ n \in Nat /\ k <= n /\ Len(x) = n /\ x \in Seq(Byte)
         /\ SubSeq(x, 1, k) = u /\ SubSeq(x, k + 1, n) = v
<1>1. Len(u) \in Nat /\ Len(v) \in Nat
  OBVIOUS
<1>2. k \in Nat /\ n \in Nat /\ k <= n /\ k \in 0 .. Len(u) /\ k <= k /\ 0 <= k
  BY <1>1
<1>3. Len(x) = n /\ x \in Seq(Byte)
  BY Join
<1>4. Slice(u \o v, k, n) = v
  BY <1>2, SliceOfJoin
<1>5. Slice(u \o v, 0, k) = u
  <2>1. SamePrefix(u, u \o v, k)
    BY <1>2, SamePrefixOfJoin
  <2>2. Slice(u, 0, k) = Slice(u \o v, 0, k)
    <3>1. SamePrefix(u, x, k) /\ 0 \in Nat
      BY <2>1
    <3>2. Slice(u, 0, k) = Slice(x, 0, k)
      BY ONLY <1>2, <1>3, <3>1, SameSlices, u \in Seq(Byte)
    <3> QED
      BY <3>2
  <2>3. Slice(u, 0, k) = u
    BY SliceAll
  <2> QED
    BY <2>2, <2>3
<1>6. SubSeq(x, 1, k) = u /\ SubSeq(x, k + 1, n) = v
  BY <1>4, <1>5 DEF Slice
<1> QED
  BY <1>2, <1>3, <1>6

IsJoin(t, a, b, u, v) ==
  /\ t \in Seq(Byte) /\ a \in Nat /\ b \in Nat /\ a <= b /\ b <= Len(t)
  /\ u \in Seq(Byte) /\ v \in Seq(Byte) /\ Slice(t, a, b) = u \o v

LEMMA SliceOfParts ==
  ASSUME NEW t, NEW a, NEW b, NEW u, NEW v, IsJoin(t, a, b, u, v), NEW m, m = a + Len(u)
  PROVE  /\ m \in Nat /\ a <= m /\ m <= b /\ b = m + Len(v)
         /\ Slice(t, a, m) = u /\ Slice(t, m, b) = v
<1>0. /\ t \in Seq(Byte) /\ a \in Nat /\ b \in Nat /\ a <= b /\ b <= Len(t)
      /\ u \in Seq(Byte) /\ v \in Seq(Byte) /\ Slice(t, a, b) = u \o v
  BY DEF IsJoin
<1> DEFINE k == Len(u)
           n == Len(u) + Len(v)
           x == Slice(t, a, b)
           j == Len(v)
<1>1. x = u \o v /\ k = Len(u) /\ n = Len(u) + Len(v) /\ n = k + j /\ m = a + k
  BY <1>0
<1>2. Len(x) = b - a
  BY <1>0, SliceIs
<1>7. j \in Nat
  BY <1>0
<1> HIDE DEF k, n, x, j
<1>3. /\ k \in Nat /\ n \in Nat /\ k <= n /\ Len(x) = n
      /\ SubSeq(x, 1, k) = u /\ SubSeq(x, k + 1, n) = v
  BY <1>0, <1>1, PartsOf
<1>4. n = b - a
  BY <1>2, <1>3
<1>5. m \in Nat /\ a <= m /\ m <= b /\ k \in 0 .. b - a /\ b = m + j /\ a + k = m
  <2>1. a \in Nat /\ b \in Nat /\ a <= b /\ j \in Nat
    BY <1>0, <1>7
  <2>2. k \in Nat /\ n \in Nat /\ n = k + j /\ m = a + k
    BY <1>1, <1>3
  <2>3. k + j = b - a
    BY <1>4, <2>2
  <2>4. m \in Nat /\ a <= m
    BY ONLY <2>1, <2>2
  <2>5. b = a + k + j
    BY ONLY <2>1, <2>2, <2>3
  <2> QED
    BY ONLY <2>1, <2>2, <2>4, <2>5
<1>6. SubSeq(x, 1, k) = Slice(t, a, m) /\ SubSeq(x, k + 1, n) = Slice(t, m, b)
  <2>1. SubSeq(Slice(t, a, b), 1, k) = Slice(t, a, a + k)
    BY <1>0, <1>5, SlicePrefix
  <2>2. SubSeq(Slice(t, a, b), k + 1, b - a) = Slice(t, a + k, b)
    BY <1>0, <1>5, SliceRest
  <2> QED
    BY <1>4, <1>5, <2>1, <2>2 DEF x
<1> QED
  BY <1>3, <1>5, <1>6 DEF j

LEMMA BodyUnique ==
  ASSUME NEW t \in Seq(Byte), NEW y, NEW k \in Nat, NEW n \in Nat, NEW m, NEW n2 \in Nat, NEW m2,
         k <= n, n <= Len(t), k <= n2, n2 <= Len(t),
         BodyAt(t, y, k, n, m), BodyAt(t, y, k, n2, m2)
  PROVE  n = n2 /\ m = m2
<1>1. CASE y = VarintType
  <2>1. VarintAt(t, k, n) /\ VarintAt(t, k, n2) /\ m = n - k /\ m2 = n2 - k
    BY <1>1, WireTypesDiffer DEF BodyAt
  <2> QED
    BY <2>1, VarintUnique
<1>2. CASE y = Fixed32Type
  BY <1>2, Sizes, WireTypesDiffer DEF BodyAt
<1>3. CASE y = Fixed64Type
  BY <1>3, Sizes, WireTypesDiffer DEF BodyAt
<1>4. CASE y = LengthDelimited
  <2>1. DelimitedAt(t, k, n, m) /\ DelimitedAt(t, k, n2, m2)
    BY <1>4, WireTypesDiffer DEF BodyAt
  <2>2. PICK j \in k + 1 .. n : VarintAt(t, k, j) /\ Value32(t, k, j) = m /\ m = n - j
    BY <2>1 DEF DelimitedAt
  <2>3. PICK j2 \in k + 1 .. n2 : VarintAt(t, k, j2) /\ Value32(t, k, j2) = m2 /\ m2 = n2 - j2
    BY <2>1 DEF DelimitedAt
  <2>4. j = j2
    <3>1. /\ j \in Nat /\ j2 \in Nat /\ k <= j /\ j <= Len(t) /\ k <= j2 /\ j2 <= Len(t)
          /\ VarintAt(t, k, j) /\ VarintAt(t, k, j2)
      BY <2>2, <2>3
    <3> QED
      BY <3>1, VarintUnique
  <2> QED
    BY <2>2, <2>3, <2>4
<1> QED
  BY <1>1, <1>2, <1>3, <1>4 DEF BodyAt

\* The field t has between a and b: its key ends at k, its payload is p.
FieldParts(t, a, b, g, y, p, k) ==
  /\ k \in Nat /\ a < k /\ k <= b
  /\ VarintAt(t, a, k) /\ Value32(t, a, k) \div 8 = g /\ Value32(t, a, k) % 8 = y
  /\ y \in WireTypes /\ ValidTag(g)
  /\ BodyAt(t, y, k, b, Len(p))
  /\ b - Len(p) \in Nat /\ k <= b - Len(p) /\ Slice(t, b - Len(p), b) = p
  /\ y # LengthDelimited => Slice(t, k, b) = p

LEMMA KeyBack ==
  ASSUME NEW t \in Seq(Byte), NEW a \in Nat, NEW k \in Nat, a <= k, k <= Len(t),
         NEW g \in Tag, NEW y \in WireTypes, Slice(t, a, k) = EncodeVarint(Key(g, y))
  PROVE  /\ VarintAt(t, a, k) /\ Value32(t, a, k) \div 8 = g /\ Value32(t, a, k) % 8 = y
         /\ ValidTag(g)
<1> DEFINE v == Key(g, y)
<1>1. v \in 0 .. ShortWord - 1 /\ v \in 0 .. Word - 1
  BY KeyIs
<1>2. v = 8 * g + y /\ g \in Nat /\ y \in 0 .. 7 /\ v \in Nat
  <2>1. g \in 1 .. ShortWord \div 8 - 1 /\ ShortWord \div 8 - 1 \in Int
    BY WriterAssumption, Sizes
  <2>2. g \in Nat
    BY <2>1
  <2>3. y \in 0 .. 7
    BY DEF WireTypes, VarintType, Fixed64Type, LengthDelimited, Fixed32Type
  <2> QED
    BY <2>2, <2>3 DEF Key
<1> HIDE DEF v
<1>3. v \div 8 = g /\ v % 8 = y
  BY <1>2, Quotient
<1>4. VarintAt(t, a, k) /\ ValueOf(Slice(t, a, k)) = v
  BY <1>1, EncodeIs, EncodeValue DEF VarintAt, v
<1>5. Value32(t, a, k) = v
  <2>1. v % ShortWord = v
    BY <1>1, Sizes
  <2> QED
    BY <1>4, <2>1 DEF Value32
<1>6. ValidTag(g)
  BY WriterAssumption
<1> QED
  BY <1>3, <1>4, <1>5, <1>6

LEMMA BoolText ==
  ASSUME NEW b \in {0, 1}, NEW p, p = <<b>>
  PROVE  p \in Seq(Byte) /\ IsVarint(p) /\ Len(p) = 1
<1>1. b \in Byte /\ ~Continues(b) /\ 1 \in 1 .. MaxVarintLength
  BY Widths DEF Byte, Continues
<1> HIDE DEF Byte
<1>2. Len(p) = 1 /\ p \in Seq(Byte) /\ p[1] = b /\ DOMAIN p = {1}
  BY <1>1
<1>3. \A i \in DOMAIN p : Continues(p[i]) <=> i < Len(p)
  BY <1>1, <1>2
<1>4. IsVarint(p)
  BY <1>1, <1>2, <1>3 DEF IsVarint
<1> QED
  BY <1>2, <1>4

LEMMA PayloadBody ==
  ASSUME NEW g \in Tag, NEW y, NEW p, WholePayload(g, y, p), y # LengthDelimited
  PROVE  \/ y = VarintType /\ IsVarint(p)
         \/ y = Fixed32Type /\ Len(p) = Fixed32
         \/ y = Fixed64Type /\ Len(p) = Fixed64
<1>1. ASSUME NEW u \in 0 .. Word - 1, p = EncodeVarint(u) PROVE IsVarint(p)
  BY <1>1, EncodeIs
<1>2. ASSUME NEW b \in {0, 1}, p = <<b>> PROVE IsVarint(p)
  BY <1>2, BoolText
<1> QED
  BY <1>1, <1>2 DEF WholePayload, IsPayload

\* What a field is made of can be found again.
LEMMA FieldFound ==
  ASSUME NEW t \in Seq(Byte), NEW a \in Nat, NEW b \in Nat, a <= b, b <= Len(t),
         NEW g \in Tag, NEW y, NEW p, WholePayload(g, y, p), Slice(t, a, b) = Field(g, y, p)
  PROVE  \E k : FieldParts(t, a, b, g, y, p, k)
<1> DEFINE h == EncodeVarint(Key(g, y))
           l == EncodeVarint(Len(p))
           f == Field(g, y, p)
           n == Len(p)
<1>1. p \in Seq(Byte) /\ y \in WireTypes /\ (y = LengthDelimited => Len(p) < ShortWord)
  BY PayloadIs
<1>2. /\ h \in Seq(Byte)
      /\ y # LengthDelimited => f = h \o p
      /\ y = LengthDelimited => l \in Seq(Byte) /\ f = (h \o l) \o p
  BY <1>1, FieldIs
<1>3. n \in Nat /\ n = Len(p)
  BY <1>1
<1>4. CASE y # LengthDelimited
  <2> DEFINE k == a + Len(h)
  <2>1. Slice(t, a, b) = h \o p /\ k = a + Len(h)
    BY <1>2, <1>4
  <2> HIDE DEF h, l, f, n, k
  <2>2. k \in Nat /\ a <= k /\ k <= b /\ b = k + Len(p) /\ Slice(t, a, k) = h /\ Slice(t, k, b) = p
    <3>1. IsJoin(t, a, b, h, p)
      BY <1>1, <1>2, <2>1 DEF IsJoin
    <3>2. k = a + Len(h)
      BY <2>1
    <3> QED
      BY ONLY <3>1, <3>2, SliceOfParts
  <2>3. k <= Len(t)
    BY <2>2
  <2>4. /\ VarintAt(t, a, k) /\ Value32(t, a, k) \div 8 = g /\ Value32(t, a, k) % 8 = y
        /\ ValidTag(g)
    BY <1>1, <2>2, <2>3, KeyBack DEF h
  <2>5. a < k
    <3>1. a + 1 <= k
      BY <2>2, <2>3, <2>4, VarintNotEmpty
    <3> QED
      BY <2>2, <3>1
  <2>6. BodyAt(t, y, k, b, n)
    <3>1. b = k + n
      BY <1>3, <2>2
    <3>2. n = b - k
      BY ONLY <1>3, <2>2, <3>1, b \in Nat
    <3>3. \/ y = VarintType /\ VarintAt(t, k, b)
          \/ y = Fixed32Type /\ n = Fixed32
          \/ y = Fixed64Type /\ n = Fixed64
      BY <1>3, <1>4, <2>2, PayloadBody DEF VarintAt
    <3> QED
      BY <3>2, <3>3 DEF BodyAt
  <2>7. b - n \in Nat /\ b - n = k
    BY <1>3, <2>2
  <2>8. FieldParts(t, a, b, g, y, p, k)
    BY <1>1, <1>3, <2>2, <2>4, <2>5, <2>6, <2>7 DEF FieldParts
  <2> QED
    BY <2>8
<1>5. CASE y = LengthDelimited
  <2> DEFINE x == h \o l
             j == a + Len(x)
             k == a + Len(h)
  <2>1. Slice(t, a, b) = x \o p /\ j = a + Len(x) /\ k = a + Len(h) /\ l \in Seq(Byte) /\ x = h \o l
    BY <1>2, <1>5
  <2>2. x \in Seq(Byte)
    BY <1>2, <2>1, Join
  <2> HIDE DEF h, l, f, n, x, j, k
  <2>3. j \in Nat /\ a <= j /\ j <= b /\ b = j + Len(p) /\ Slice(t, a, j) = x /\ Slice(t, j, b) = p
    <3>1. IsJoin(t, a, b, x, p)
      BY <1>1, <2>1, <2>2 DEF IsJoin
    <3>2. j = a + Len(x)
      BY <2>1
    <3> QED
      BY ONLY <3>1, <3>2, SliceOfParts
  <2>4. j <= Len(t) /\ Slice(t, a, j) = h \o l
    BY <2>1, <2>3
  <2>5. k \in Nat /\ a <= k /\ k <= j /\ Slice(t, a, k) = h /\ Slice(t, k, j) = l
    <3>1. IsJoin(t, a, j, h, l)
      BY <1>2, <2>1, <2>3, <2>4 DEF IsJoin
    <3>2. k = a + Len(h)
      BY <2>1
    <3> QED
      BY ONLY <3>1, <3>2, SliceOfParts
  <2>6. k <= Len(t)
    BY <2>4, <2>5, <2>3
  <2>7. /\ VarintAt(t, a, k) /\ Value32(t, a, k) \div 8 = g /\ Value32(t, a, k) % 8 = y
        /\ ValidTag(g)
    BY <1>1, <2>5, <2>6, KeyBack DEF h
  <2>8. a < k
    <3>1. a + 1 <= k
      BY <2>5, <2>6, <2>7, VarintNotEmpty
    <3> QED
      BY <2>5, <3>1
  <2>9. VarintAt(t, k, j) /\ Value32(t, k, j) = n
    <3>1. n \in 0 .. ShortWord - 1 /\ n \in 0 .. Word - 1
      <4>1. n < ShortWord
        BY <1>1, <1>3, <1>5
      <4>2. ShortWord \in Nat /\ ShortWord <= Word /\ Word \in Nat
        BY Sizes, Widths
      <4> QED
        BY ONLY <1>3, <4>1, <4>2
    <3>2. VarintAt(t, k, j) /\ ValueOf(Slice(t, k, j)) = n
      BY <2>5, <3>1, EncodeIs, EncodeValue DEF VarintAt, l, n
    <3>3. n % ShortWord = n
      BY <3>1, Sizes
    <3> QED
      BY <3>2, <3>3 DEF Value32
  <2>10. BodyAt(t, y, k, b, n)
    <3>1. k + 1 <= j
      BY <2>3, <2>4, <2>5, <2>9, VarintNotEmpty
    <3>2. j \in k + 1 .. b /\ n = b - j
      BY <1>3, <2>3, <2>5, <3>1
    <3>3. DelimitedAt(t, k, b, n)
      BY <2>9, <3>2 DEF DelimitedAt
    <3> QED
      BY <1>5, <3>3 DEF BodyAt
  <2>11. b - n \in Nat /\ b - n = j /\ k <= b
    BY <1>3, <2>3, <2>5
  <2>12. FieldParts(t, a, b, g, y, p, k)
    BY <1>1, <1>3, <1>5, <2>3, <2>5, <2>7, <2>8, <2>10, <2>11 DEF FieldParts
  <2> QED
    BY <2>12
<1> QED
  BY <1>4, <1>5

-----------------------------------------------------------------------------
\* What sequences of bytes come to, one behind the other.
Joins(h, s) ==
  /\ h[0] = <<>>
  /\ \A n \in 1 .. Len(s) : h[n - 1] \in Seq(Byte) /\ h[n] = h[n - 1] \o s[n]

LEMMA JoinsExist ==
  ASSUME NEW s \in Seq(Seq(Byte))
  PROVE  \E h : Joins(h, s)
<1> DEFINE N == Len(s)
           S == Seq(Byte)
           step(n, x) == x \o s[n]
           G == [p \in (1 .. N) \X S |-> step(p[1], p[2])]
<1>0. N \in Nat /\ <<>> \in S
  BY EmptySeq
<1>1. \A n \in 1 .. N : \A x \in S : step(n, x) \in S /\ G[<<n, x>>] = step(n, x)
  <2> SUFFICES ASSUME NEW n \in 1 .. N, NEW x \in S PROVE step(n, x) \in S /\ G[<<n, x>>] = step(n, x)
    OBVIOUS
  <2>1. s[n] \in Seq(Byte)
    <3> HIDE DEF Byte
    <3> QED
      BY ElementOfSeq
  <2>2. x \o s[n] \in Seq(Byte)
    BY <2>1, Join
  <2> QED
    BY <2>2
<1>2. StepsStay(N, S, G)
  BY <1>1, Zenon DEF StepsStay
<1>4. PICK g : IsRun(g, N, S, <<>>, G)
  <2> HIDE DEF G, N, S
  <2> QED
    BY <1>0, <1>2, Recursion, Zenon
<1>5. \A n \in 1 .. N : g[n - 1] \in S /\ g[n] = G[<<n, g[n - 1]>>]
  <2> HIDE DEF G, S, N
  <2> QED
    BY <1>0, <1>4 DEF IsRun
<1>6. \A n \in 1 .. N : g[n - 1] \in S /\ g[n] = step(n, g[n - 1])
  <2> HIDE DEF G, S, N, step
  <2> QED
    BY <1>1, <1>5
<1>7. g[0] = <<>>
  BY <1>4 DEF IsRun
<1>8. Joins(g, s)
  BY <1>6, <1>7 DEF Joins
<1> QED
  BY <1>8

LEMMA FlattenIs ==
  ASSUME NEW s \in Seq(Seq(Byte)), NEW h, Joins(h, s)
  PROVE  FlattenSeq(s) = h[Len(s)]
<1> DEFINE N == Len(s)
           first(f) == f = [i \in 1 .. Len(s) |-> IF i = 1 THEN s[i] ELSE f[i - 1] \o s[i]]
           J == CHOOSE f : first(f)
<1>0. N \in Nat /\ \A n \in 1 .. N : s[n] \in Seq(Byte)
  <2> HIDE DEF Byte
  <2> QED
    BY ElementOfSeq
<1>1. CASE N = 0
  <2>1. s = <<>>
    BY <1>1
  <2> QED
    BY <1>1, <2>1 DEF FlattenSeq, Joins
<1>2. CASE N # 0
  <2>1. FlattenSeq(s) = J[N]
    BY <1>2 DEF FlattenSeq
  <2>2. h[0] = <<>> /\ \A n \in 1 .. N : h[n - 1] \in Seq(Byte) /\ h[n] = h[n - 1] \o s[n]
    BY DEF Joins
  <2>3. N >= 1 => h[1] = s[1]
    <3>1. ASSUME N >= 1 PROVE h[1] = s[1]
      <4>1. h[1] = <<>> \o s[1] /\ s[1] \in Seq(Byte)
        <5>1. 1 \in 1 .. N /\ 1 - 1 = 0
          BY <1>0, <3>1
        <5> HIDE DEF N
        <5> QED
          BY <1>0, <2>2, <5>1
      <4> QED
        BY <4>1, ConcatEmptySeq
    <3> QED
      BY <3>1
  <2> DEFINE k == [i \in 1 .. N |-> h[i]]
  <2>4. first(k)
    <3>1. ASSUME NEW i \in 1 .. N PROVE k[i] = IF i = 1 THEN s[i] ELSE k[i - 1] \o s[i]
      <4>1. CASE i = 1
        BY <1>0, <2>3, <4>1
      <4>2. CASE i # 1
        <5>1. i - 1 \in 1 .. N
          BY <1>0, <4>2
        <5>2. k[i] = h[i] /\ k[i - 1] = h[i - 1] /\ h[i] = h[i - 1] \o s[i]
          BY <2>2, <5>1
        <5> QED
          BY <4>2, <5>2
      <4> QED
        BY <4>1, <4>2
    <3> QED
      BY <3>1, Zenon
  <2>5. first(J)
    <3>1. \E f : first(f)
      BY <2>4
    <3> QED
      BY <3>1
  <2>6. \A n \in 1 .. N : J[n] = IF n = 1 THEN s[n] ELSE J[n - 1] \o s[n]
    <3> HIDE DEF J
    <3> QED
      BY <2>5
  <2> HIDE DEF J, k, first
  <2>7. \A n \in Nat : n \in {m \in Nat : m \in 1 .. N => J[m] = h[m]}
    <3> DEFINE Q == {m \in Nat : m \in 1 .. N => J[m] = h[m]}
    <3>1. 0 \in Q
      OBVIOUS
    <3>2. ASSUME NEW n \in Nat, n \in Q PROVE n + 1 \in Q
      <4> SUFFICES ASSUME n + 1 \in 1 .. N PROVE J[n + 1] = h[n + 1]
        OBVIOUS
      <4>1. CASE n = 0
        <5>1. J[1] = s[1] /\ N >= 1 /\ n + 1 = 1
          BY <1>0, <2>6, <4>1
        <5> QED
          BY <2>3, <5>1
      <4>2. CASE n # 0
        <5>1. n \in 1 .. N /\ (n + 1) - 1 = n /\ n + 1 # 1
          BY <1>0, <4>2
        <5>2. J[n] = h[n]
          BY <3>2, <5>1
        <5>3. J[n + 1] = J[n] \o s[n + 1]
          BY <2>6, <5>1
        <5>4. h[n + 1] = h[n] \o s[n + 1]
          BY <2>2, <5>1
        <5> QED
          BY <5>2, <5>3, <5>4
      <4> QED
        BY <4>1, <4>2
    <3> HIDE DEF Q
    <3>3. \A n \in Nat : n \in Q
      BY <3>1, <3>2, NatSetInduction
    <3> QED
      BY <3>3 DEF Q
  <2>8. N \in 1 .. N
    BY <1>0, <1>2
  <2> QED
    BY <1>0, <2>1, <2>7, <2>8
<1> QED
  BY <1>1, <1>2

LEMMA FlattenEmpty ==
  FlattenSeq(<<>>) = <<>>
BY EmptySeq DEF FlattenSeq

LEMMA FlattenAppend ==
  ASSUME NEW s \in Seq(Seq(Byte)), NEW x \in Seq(Byte), NEW s2, s2 = Append(s, x)
  PROVE  /\ s2 \in Seq(Seq(Byte)) /\ FlattenSeq(s) \in Seq(Byte)
         /\ FlattenSeq(s2) = FlattenSeq(s) \o x
<1> DEFINE S == Seq(Byte)
<1>1. /\ s2 \in Seq(S) /\ Len(s2) = Len(s) + 1 /\ s2[Len(s) + 1] = x
      /\ \A i \in 1 .. Len(s) : s2[i] = s[i]
  <2> HIDE DEF S
  <2>1. s \in Seq(S) /\ x \in S
    BY DEF S
  <2> QED
    BY <2>1, AppendProperties
<1>2. PICK h : Joins(h, s2)
  BY <1>1, JoinsExist
<1> DEFINE N == Len(s)
<1>3. N \in Nat
  OBVIOUS
<1>4. /\ h[0] = <<>> /\ \A n \in 1 .. N + 1 : h[n - 1] \in Seq(Byte) /\ h[n] = h[n - 1] \o s2[n]
  BY <1>1, <1>2 DEF Joins
<1>5. Joins(h, s)
  <2>1. \A n \in 1 .. N : h[n - 1] \in Seq(Byte) /\ h[n] = h[n - 1] \o s[n]
    <3> SUFFICES ASSUME NEW n \in 1 .. N PROVE h[n - 1] \in Seq(Byte) /\ h[n] = h[n - 1] \o s[n]
      OBVIOUS
    <3>1. n \in 1 .. N + 1
      BY <1>3
    <3>2. h[n - 1] \in Seq(Byte) /\ h[n] = h[n - 1] \o s2[n]
      BY <1>4, <3>1
    <3>3. s2[n] = s[n]
      BY <1>1
    <3> QED
      BY <3>2, <3>3
  <2> QED
    BY <1>4, <2>1 DEF Joins
<1>6. FlattenSeq(s) = h[N] /\ FlattenSeq(s2) = h[N + 1]
  BY <1>1, <1>2, <1>5, FlattenIs
<1>7. h[N] \in Seq(Byte) /\ h[N + 1] = h[N] \o x
  <2>1. N + 1 \in 1 .. N + 1 /\ (N + 1) - 1 = N
    BY <1>3
  <2>2. h[(N + 1) - 1] \in Seq(Byte) /\ h[N + 1] = h[(N + 1) - 1] \o s2[N + 1]
    BY <1>4, <2>1
  <2> QED
    BY <1>1, <2>1, <2>2
<1> QED
  BY <1>1, <1>6, <1>7

-----------------------------------------------------------------------------
\* The fields that were got are s when they are written again.
Rewritten(got, s) == (\A i \in DOMAIN got : FieldBytes(got[i]) \in Seq(Byte)) /\ AllBytes(got) = s

TextOf(got) == [i \in DOMAIN got |-> FieldBytes(got[i])]

LEMMA NothingGot ==
  ASSUME NEW got, got = <<>>
  PROVE  Rewritten(got, <<>>)
<1>1. DOMAIN got = {}
  OBVIOUS
<1>2. [i \in DOMAIN got |-> FieldBytes(got[i])] = <<>>
  BY <1>1
<1>3. AllBytes(got) = <<>>
  BY <1>2, FlattenEmpty DEF AllBytes
<1> QED
  BY <1>1, <1>3 DEF Rewritten

LEMMA OneMoreGot ==
  ASSUME NEW S, NEW got \in Seq(S), NEW s, Rewritten(got, s), NEW f \in S, FieldBytes(f) \in Seq(Byte),
         NEW got2, got2 = Append(got, f)
  PROVE  s \in Seq(Byte) /\ Rewritten(got2, s \o FieldBytes(f))
<1> DEFINE x == FieldBytes(f)
           b == TextOf(got)
           b2 == TextOf(got2)
           n == Len(got)
<1>1. n \in Nat /\ DOMAIN got = 1 .. n
  OBVIOUS
<1>2. /\ got2 \in Seq(S) /\ DOMAIN got2 = 1 .. n + 1 /\ got2[n + 1] = f
      /\ \A i \in 1 .. n : got2[i] = got[i]
  <2>1. /\ got2 \in Seq(S) /\ Len(got2) = n + 1 /\ got2[n + 1] = f
        /\ \A i \in 1 .. n : got2[i] = got[i]
    BY AppendProperties
  <2> QED
    BY <2>1
<1>3. \A i \in 1 .. n : FieldBytes(got[i]) \in Seq(Byte)
  BY <1>1 DEF Rewritten
<1>4. x \in Seq(Byte)
  OBVIOUS
<1> HIDE DEF x, n
<1>5. b \in Seq(Seq(Byte)) /\ Len(b) = n /\ DOMAIN b = 1 .. n /\ \A i \in 1 .. n : b[i] = FieldBytes(got[i])
  <2> DEFINE Z == Seq(Byte)
  <2>1. \A i \in 1 .. n : FieldBytes(got[i]) \in Z
    BY <1>3
  <2>2. b = [i \in 1 .. n |-> FieldBytes(got[i])]
    BY <1>1 DEF TextOf
  <2> HIDE DEF Z
  <2>3. b \in Seq(Z) /\ Len(b) = n /\ DOMAIN b = 1 .. n
    BY <1>1, <2>1, <2>2
  <2>4. \A i \in 1 .. n : b[i] = FieldBytes(got[i])
    BY <2>2
  <2> QED
    BY <2>3, <2>4 DEF Z
<1>6. b2 = Append(b, x)
  <2>1. b2 = [i \in 1 .. n + 1 |-> FieldBytes(got2[i])]
    BY <1>2 DEF TextOf
  <2>2. \A i \in 1 .. n : FieldBytes(got2[i]) = b[i]
    BY <1>2, <1>5
  <2>3. FieldBytes(got2[n + 1]) = x
    BY <1>2 DEF x
  <2> DEFINE Z == Seq(Byte)
  <2>4. b2 \in Seq(Z) /\ Len(b2) = n + 1 /\ \A i \in 1 .. n + 1 : b2[i] = FieldBytes(got2[i])
    <3> HIDE DEF b
    <3>1. \A i \in 1 .. n + 1 : FieldBytes(got2[i]) \in Z
      <4> SUFFICES ASSUME NEW i \in 1 .. n + 1 PROVE FieldBytes(got2[i]) \in Z
        OBVIOUS
      <4>1. CASE i = n + 1
        BY <1>4, <2>3, <4>1
      <4>2. CASE i # n + 1
        <5>1. i \in 1 .. n
          BY <1>1, <4>2
        <5> QED
          BY <1>2, <1>3, <5>1
      <4> QED
        BY <4>1, <4>2
    <3> HIDE DEF Z
    <3> QED
      BY <1>1, <2>1, <3>1
  <2> HIDE DEF b, b2
  <2>5. b \in Seq(Z) /\ x \in Z
    BY <1>4, <1>5
  <2> HIDE DEF Z
  <2> DEFINE c == Append(b, x)
  <2>6. c \in Seq(Z) /\ Len(c) = n + 1 /\ c[n + 1] = x /\ \A i \in 1 .. n : c[i] = b[i]
    BY <1>5, <2>5, AppendProperties
  <2> HIDE DEF c
  <2>7. \A i \in 1 .. n + 1 : b2[i] = c[i]
    <3> SUFFICES ASSUME NEW i \in 1 .. n + 1 PROVE b2[i] = c[i]
      OBVIOUS
    <3>1. CASE i = n + 1
      BY <2>3, <2>4, <2>6, <3>1
    <3>2. CASE i # n + 1
      <4>1. i \in 1 .. n
        BY <1>1, <3>2
      <4> QED
        BY <2>2, <2>4, <2>6, <4>1
    <3> QED
      BY <3>1, <3>2
  <2>8. b2 = c
    BY <2>4, <2>6, <2>7, SeqEqual
  <2> QED
    BY <2>8 DEF c
<1> HIDE DEF b, b2
<1>7. FlattenSeq(b) \in Seq(Byte) /\ FlattenSeq(b2) = FlattenSeq(b) \o x
  BY <1>4, <1>5, <1>6, FlattenAppend
<1>8. AllBytes(got) = FlattenSeq(b) /\ AllBytes(got2) = FlattenSeq(b2)
  BY DEF AllBytes, TextOf, b, b2
<1>9. \A i \in DOMAIN got2 : FieldBytes(got2[i]) \in Seq(Byte)
  <2> SUFFICES ASSUME NEW i \in 1 .. n + 1 PROVE FieldBytes(got2[i]) \in Seq(Byte)
    BY <1>2
  <2>1. CASE i = n + 1
    BY <1>2, <1>4, <2>1 DEF x
  <2>2. CASE i # n + 1
    <3>1. i \in 1 .. n
      BY <1>1, <2>2
    <3> QED
      BY <1>2, <1>3, <3>1
  <2> QED
    BY <2>1, <2>2
<1>10. AllBytes(got) = s
  BY DEF Rewritten
<1> QED
  BY <1>7, <1>8, <1>9, <1>10 DEF Rewritten, x

-----------------------------------------------------------------------------
\* The field between a and e, and behind it a text that goes on to b.
FieldAhead(t, a, b, g, y, p, k, e) ==
  /\ g \in Tag /\ WholePayload(g, y, p) /\ e \in Nat /\ a <= e /\ e <= b
  /\ FieldParts(t, a, e, g, y, p, k) /\ Slice(t, a, e) = Field(g, y, p)
  /\ Slice(t, e, b) \in Whole("message")

LEMMA NextIsField ==
  ASSUME NEW t \in Seq(Byte), NEW a \in Nat, NEW b \in Nat, a <= b, b <= Len(t), a # b,
         Slice(t, a, b) \in Whole("message")
  PROVE  \E g, y, p, k, e : FieldAhead(t, a, b, g, y, p, k, e)
<1> DEFINE s == Slice(t, a, b)
<1>1. s \in Whole("message") /\ "message" \in Kinds
  BY DEF Kinds
<1>2. Headed("message", s)
  BY <1>1, WholeHasHead
<1>3. s # <<>>
  <2>1. Len(s) = b - a
    BY SliceIs
  <2> HIDE DEF s
  <2>2. Len(s) # 0
    BY <2>1
  <2> QED
    BY <2>2
<1>4. PICK x, q \in Seq(Byte) : IsHead("message", x) /\ q \in Whole("message") /\ s = x \o q
  BY <1>2, <1>3 DEF Headed
<1>t. PICK g \in Tag : \E y, p : WholePayload(g, y, p) /\ x = Field(g, y, p)
  BY <1>4 DEF IsHead
<1>5. PICK y, p : WholePayload(g, y, p) /\ x = Field(g, y, p)
  BY <1>t
<1> DEFINE e == a + Len(x)
<1>6. IsJoin(t, a, b, x, q)
  BY <1>4 DEF IsJoin
<1>7. e \in Nat /\ a <= e /\ e <= b /\ Slice(t, a, e) = x /\ Slice(t, e, b) = q
  <2>1. e = a + Len(x)
    OBVIOUS
  <2> HIDE DEF e
  <2> QED
    BY ONLY <1>6, <2>1, SliceOfParts
<1> HIDE DEF e
<1>8. e <= Len(t) /\ Slice(t, a, e) = Field(g, y, p)
  BY <1>5, <1>7
<1>9. PICK k : FieldParts(t, a, e, g, y, p, k)
  BY <1>5, <1>7, <1>8, FieldFound
<1>10. FieldAhead(t, a, b, g, y, p, k, e)
  BY <1>4, <1>5, <1>7, <1>8, <1>9 DEF FieldAhead
<1> QED
  BY <1>10

\* The place up to which a reader has got or skipped everything.
Start(r) == IF r.due THEN r.from ELSE r.at

\* What it has got is what was written, and so is all that comes.
ReadsOn(t, r) ==
  /\ Slice(t, Start(r), r.end) \in Whole("message")
  /\ Rewritten(r.got, Slice(t, r.begin, Start(r)))

\* The field behind the key of a reader, with the payload p, up to e.
FieldDue(t, r, p, e) ==
  /\ r.tag \in Tag /\ WholePayload(r.tag, r.type, p)
  /\ e \in Nat /\ r.at <= e /\ e <= r.end /\ BodyAt(t, r.type, r.at, e, Len(p))
  /\ e - Len(p) \in Nat /\ r.at <= e - Len(p) /\ Slice(t, e - Len(p), e) = p
  /\ r.type # LengthDelimited => Slice(t, r.at, e) = p
  /\ Slice(t, r.from, e) = Field(r.tag, r.type, p)
  /\ Slice(t, e, r.end) \in Whole("message")

LEMMA FieldIsDue ==
  ASSUME NEW t \in Seq(Byte), NEW r, Placed(t, r), HasKey(t, r), r.due, ReadsOn(t, r)
  PROVE  \E p, e : FieldDue(t, r, p, e)
<1> DEFINE a == r.from
           b == r.end
           j == r.at
<1>1. /\ a \in Nat /\ b \in Nat /\ j \in Nat /\ a <= j /\ j <= b /\ b <= Len(t) /\ j <= Len(t)
  BY ReaderPlace
<1>2. VarintAt(t, a, j) /\ Value32(t, a, j) \div 8 = r.tag /\ Value32(t, a, j) % 8 = r.type
  BY DEF HasKey
<1>3. Slice(t, a, b) \in Whole("message")
  BY DEF ReadsOn, Start
<1> HIDE DEF a, b, j
<1>4. a # b
  <2>1. a + 1 <= j
    BY <1>1, <1>2, VarintNotEmpty
  <2> QED
    BY <1>1, <2>1
<1>5. a <= b
  BY <1>1
<1>6. PICK g, y, p, k, e : FieldAhead(t, a, b, g, y, p, k, e)
  BY <1>1, <1>3, <1>4, <1>5, NextIsField
<1>7. /\ k \in Nat /\ a < k /\ k <= e /\ e <= b /\ VarintAt(t, a, k) /\ e \in Nat
      /\ Value32(t, a, k) \div 8 = g /\ Value32(t, a, k) % 8 = y
  BY <1>6 DEF FieldAhead, FieldParts
<1>8. k <= Len(t) /\ a <= k
  BY <1>1, <1>7
<1>9. k = j
  BY <1>1, <1>2, <1>7, <1>8, VarintUnique
<1>10. g = r.tag /\ y = r.type
  BY <1>2, <1>7, <1>9
<1>11. FieldDue(t, r, p, e)
  BY <1>6, <1>7, <1>9, <1>10 DEF FieldAhead, FieldParts, FieldDue, a, b, j
<1> QED
  BY <1>11

\* Whichever way the field is read, the reader is behind it.
LEMMA DueFound ==
  ASSUME NEW t \in Seq(Byte), NEW r, Placed(t, r), HasKey(t, r), NEW p, NEW e, FieldDue(t, r, p, e),
         NEW x, ReadsBody(t, r, x)
  PROVE  x.error = "none" /\ x.at = e /\ FieldAt(t, r.from, e, Len(p))
<1> DEFINE n == Len(p)
           j == r.at
           y == r.type
           b == r.end
           a == r.from
<1>1. /\ b \in Nat /\ j \in Nat /\ j <= b /\ b <= Len(t) /\ a \in Nat /\ a <= j
      /\ Len(t) \in Nat
  BY ReaderPlace
<1>2. e \in Nat /\ j <= e /\ e <= b /\ BodyAt(t, y, j, e, n)
  BY DEF FieldDue
<1> HIDE DEF n, j, y, b, a
<1>3. e \in j .. b /\ e <= Len(t) /\ e \in a .. b
  BY <1>1, <1>2
<1>4. FieldAt(t, a, e, n)
  BY <1>2, <1>3, BodyIsField DEF j, b, y, a
<1>5. ~NoField(t, r)
  BY <1>3, <1>4 DEF NoField, a, b
<1>6. x.error = "none" /\ x.at \in j .. b /\ \E m : FieldAt(t, a, x.at, m)
  BY <1>5 DEF ReadsBody, j, b, a
<1>7. PICK m : FieldAt(t, a, x.at, m)
  BY <1>6
<1> DEFINE q == x.at
<1>8. q \in Nat /\ j <= q /\ q <= b /\ q \in a .. b /\ q <= Len(t) /\ FieldAt(t, a, q, m)
  BY <1>1, <1>6, <1>7
<1> HIDE DEF q
<1>9. BodyAt(t, y, j, q, m)
  BY <1>8, FieldIsBody DEF j, b, y, a
<1>10. q = e
  BY <1>1, <1>2, <1>3, <1>8, <1>9, BodyUnique
<1> QED
  BY <1>4, <1>6, <1>10 DEF q, a, n

\* For a length-delimited field, its length is known then.
LEMMA DueDelimited ==
  ASSUME NEW t \in Seq(Byte), NEW r, Placed(t, r), HasKey(t, r), NEW p, NEW e, FieldDue(t, r, p, e),
         NEW x, ReadsDelimited(t, r, x)
  PROVE  x.error = "none" /\ x.at = e /\ x.value = Len(p)
<1>1. x.error = "none" /\ x.at = e /\ FieldAt(t, r.from, e, Len(p))
  BY DelimitedReads, DueFound
<1>2. e \in r.from .. r.end
  <2>1. r.from \in Nat /\ r.from <= r.at /\ r.at \in Nat /\ r.end \in Nat
    BY ReaderPlace
  <2>2. e \in Nat /\ r.at <= e /\ e <= r.end
    BY DEF FieldDue
  <2> QED
    BY <2>1, <2>2
<1>3. \A to \in r.from .. r.end : \A n : FieldAt(t, r.from, to, n) => n = x.value /\ to = x.at
  BY <1>1 DEF ReadsDelimited
<1> QED
  BY <1>1, <1>2, <1>3

-----------------------------------------------------------------------------
ReadersOn(t, rs) == \A k \in 1 .. Len(rs) : ReadsOn(t, rs[k])

\* The last field that the innermost reader has got has the payload y.
HasLast(rs, y) == rs # <<>> /\ rs[Len(rs)].got # <<>> /\ Last(rs[Len(rs)].got).payload = y

\* The elements that were delivered are those written, and so are all that come.
PackedOn(t, rs, p) ==
  p.kind # "none" => \E b \in Nat, y \in Seq(Byte) :
    /\ HasLast(rs, y) /\ b = p.end - Len(y) /\ b <= p.at /\ p.kind \in PackedKinds
    /\ FlattenSeq(p.elements) = Slice(t, b, p.at)
    /\ Slice(t, p.at, p.end) \in Whole(p.kind)

CopyOn(t, rs, p, f) == f = "none" /\ ReadersOn(t, rs) /\ PackedOn(t, rs, p)

LEMMA OnTurned ==
  ASSUME NEW t, NEW rs, rs \in Seq(ReaderType), rs # <<>>, ReadersOn(t, rs),
         NEW r, r \in ReaderType, ReadsOn(t, r), NEW rs2, Turned(rs, rs2, r)
  PROVE  ReadersOn(t, rs2)
<1>1. /\ Len(rs2) = Len(rs) /\ rs2[Len(rs)] = r /\ \A k \in 1 .. Len(rs) - 1 : rs2[k] = rs[k]
  <2> HIDE DEF ReaderType
  <2> QED
    BY TopTurned
<1>2. Len(rs) \in Nat
  OBVIOUS
<1> SUFFICES ASSUME NEW k \in 1 .. Len(rs) PROVE ReadsOn(t, rs2[k])
  BY <1>1 DEF ReadersOn
<1>3. CASE k = Len(rs)
  BY <1>1, <1>3
<1>4. CASE k # Len(rs)
  <2>1. k \in 1 .. Len(rs) - 1 /\ ReadsOn(t, rs[k])
    BY <1>2, <1>4 DEF ReadersOn
  <2>2. rs2[k] = rs[k]
    BY <1>1, <2>1
  <2> QED
    BY <2>1, <2>2
<1> QED
  BY <1>3, <1>4

LEMMA OnNested ==
  ASSUME NEW t, NEW rs, rs \in Seq(ReaderType), rs # <<>>, ReadersOn(t, rs),
         NEW p, p \in ReaderType, ReadsOn(t, p), NEW r, r \in ReaderType, ReadsOn(t, r),
         NEW rs2, Nested(rs, rs2, p, r)
  PROVE  ReadersOn(t, rs2)
<1>1. /\ Len(rs2) = Len(rs) + 1 /\ rs2[Len(rs)] = p /\ rs2[Len(rs) + 1] = r
      /\ \A k \in 1 .. Len(rs) - 1 : rs2[k] = rs[k]
  <2> HIDE DEF ReaderType
  <2> QED
    BY ReaderNested
<1>2. Len(rs) \in Nat
  OBVIOUS
<1> SUFFICES ASSUME NEW k \in 1 .. Len(rs) + 1 PROVE ReadsOn(t, rs2[k])
  BY <1>1 DEF ReadersOn
<1>3. CASE k = Len(rs)
  BY <1>1, <1>3
<1>4. CASE k = Len(rs) + 1
  BY <1>1, <1>4
<1>5. CASE k # Len(rs) /\ k # Len(rs) + 1
  <2>1. k \in 1 .. Len(rs) - 1 /\ ReadsOn(t, rs[k])
    BY <1>2, <1>5 DEF ReadersOn
  <2>2. rs2[k] = rs[k]
    BY <1>1, <2>1
  <2> QED
    BY <2>1, <2>2
<1> QED
  BY <1>3, <1>4, <1>5

LEMMA OnFront ==
  ASSUME NEW t, NEW rs, rs \in Seq(ReaderType), rs # <<>>, ReadersOn(t, rs)
  PROVE  ReadersOn(t, Front(rs))
<1>1. /\ Len(Front(rs)) = Len(rs) - 1 /\ \A k \in 1 .. Len(rs) - 1 : Front(rs)[k] = rs[k]
  <2> HIDE DEF ReaderType
  <2> QED
    BY FrontIs
<1>2. Len(rs) \in Nat
  OBVIOUS
<1> SUFFICES ASSUME NEW k \in 1 .. Len(rs) - 1 PROVE ReadsOn(t, Front(rs)[k])
  BY <1>1 DEF ReadersOn
<1>3. ReadsOn(t, rs[k])
  BY <1>2 DEF ReadersOn
<1> QED
  BY <1>1, <1>3

\* A reader in front of a text, as it is made.
LEMMA NewReaderOn ==
  ASSUME NEW t \in Seq(Byte), NEW b \in Nat, NEW e \in Nat, b <= e, e <= Len(t),
         Slice(t, b, e) \in Whole("message"), NEW v, v = NewReader(b, e)
  PROVE  ReadsOn(t, v)
<1>1. ~v.due /\ v.at = b /\ v.begin = b /\ v.end = e /\ v.got = <<>>
  BY DEF NewReader
<1>2. Start(v) = b
  BY <1>1 DEF Start
<1>3. Slice(t, b, b) = <<>>
  <2>1. b <= b /\ b <= Len(t)
    OBVIOUS
  <2>2. Slice(t, b, b) \in Seq(Byte) /\ Len(Slice(t, b, b)) = b - b
    BY <2>1, SliceIs
  <2> DEFINE s == Slice(t, b, b)
  <2>3. s \in Seq(Byte) /\ Len(s) = 0
    BY <2>2
  <2> HIDE DEF s
  <2>4. s = <<>>
    BY <2>3
  <2> QED
    BY <2>4 DEF s
<1>4. Rewritten(v.got, <<>>)
  BY <1>1, NothingGot
<1> QED
  BY <1>1, <1>2, <1>3, <1>4 DEF ReadsOn

Taken(f, r, p) == f = [tag |-> r.tag, type |-> r.type, payload |-> p]

\* The reader that has got the field that was due.
LEMMA GotOn ==
  ASSUME NEW t, t \in Seq(Byte), NEW r, r \in ReaderType, Placed(t, r), r.due, ReadsOn(t, r),
         NEW p, NEW e, FieldDue(t, r, p, e),
         NEW f, Taken(f, r, p), NEW tag, tag \in Nat,
         NEW v, GotAs(v, r, e, tag, f)
  PROVE  /\ v \in ReaderType /\ ReadsOn(t, v)
         /\ v.got # <<>> /\ Last(v.got).payload = p /\ p \in Seq(Byte)
<1>1. /\ r.begin \in Nat /\ r.from \in Nat /\ r.end \in Nat /\ r.begin <= r.from /\ r.from <= r.at
      /\ r.at \in Nat /\ r.end <= Len(t) /\ Len(t) \in Nat
  BY ReaderPlace
<1>2. /\ e \in Nat /\ r.at <= e /\ e <= r.end /\ WholePayload(r.tag, r.type, p) /\ r.tag \in Tag
      /\ Slice(t, r.from, e) = Field(r.tag, r.type, p) /\ Slice(t, e, r.end) \in Whole("message")
  BY DEF FieldDue
<1>3. p \in Seq(Byte) /\ r.type \in WireTypes /\ (r.type = LengthDelimited => Len(p) < ShortWord)
  BY <1>2, PayloadIs
<1>4. f \in Fields
  BY <1>3 DEF Fields, ReaderType, Taken
<1>5. /\ v \in ReaderType /\ v.at = e /\ v.begin = r.begin /\ v.from = r.from /\ v.end = r.end
      /\ ~v.due
  <2>1. r \in ReaderType /\ e \in Nat /\ tag \in Nat /\ GotAs(v, r, e, tag, f)
    BY <1>2
  <2> QED
    BY ONLY <1>4, <2>1, HasGot
<1>6. v.got = Append(r.got, f) /\ r.got \in Seq(Fields)
  BY DEF GotAs, ReaderType
<1>7. FieldBytes(f) = Field(r.tag, r.type, p) /\ FieldBytes(f) \in Seq(Byte)
  <2>1. FieldBytes(f) = Field(r.tag, r.type, p)
    BY DEF Field, Taken
  <2>2. Field(r.tag, r.type, p) \in Seq(Byte)
    BY <1>2, <1>3, FieldIs
  <2> QED
    BY <2>1, <2>2
<1> DEFINE a == r.begin
           m == r.from
           s == Slice(t, a, m)
           x == FieldBytes(f)
           got == r.got
           got2 == v.got
<1>8. Rewritten(got, s) /\ Start(v) = e
  BY <1>5 DEF ReadsOn, Start
<1>9. s \o x = Slice(t, a, e)
  <2>1. a \in Nat /\ m \in Nat /\ a <= m /\ m <= e /\ e <= Len(t)
    BY <1>1, <1>2
  <2>2. x = Slice(t, m, e)
    BY <1>2, <1>7
  <2> HIDE DEF a, m, x
  <2>3. Slice(t, a, m) \o Slice(t, m, e) = Slice(t, a, e)
    BY <1>2, <2>1, SliceJoin
  <2> QED
    BY <2>2, <2>3
<1>10. got \in Seq(Fields) /\ got2 = Append(got, f) /\ x \in Seq(Byte)
  BY <1>6, <1>7
<1> HIDE DEF s, x, got, got2, Fields, ReaderType
<1>11. Rewritten(got2, s \o x)
  BY <1>4, <1>8, <1>10, OneMoreGot DEF x
<1>12. ReadsOn(t, v)
  BY <1>2, <1>5, <1>8, <1>9, <1>11 DEF ReadsOn, got2, a
<1>13. got2 # <<>> /\ Last(got2) = f
  <2>1. /\ got2 \in Seq(Fields) /\ Len(got2) = Len(got) + 1 /\ got2[Len(got) + 1] = f
    BY <1>4, <1>10, AppendProperties
  <2>2. Len(got) \in Nat
    BY <1>10
  <2>3. got2 # <<>>
    BY <2>1, <2>2
  <2> QED
    BY <2>1, <2>3 DEF Last
<1>14. f.payload = p
  BY DEF Taken
<1> QED
  BY <1>3, <1>5, <1>12, <1>13, <1>14 DEF got2

LEMMA CopyDue ==
  ASSUME ReaderInv(text, readers, packed, fault), CopyOn(text, readers, packed, fault),
         Walking, Reader.due
  PROVE  /\ text \in Seq(Byte) /\ Reader \in ReaderType /\ Placed(text, Reader)
         /\ HasKey(text, Reader) /\ ReadsOn(text, Reader) /\ fault = "none" /\ readers # <<>>
         /\ packed.kind = "none" /\ readers \in Seq(ReaderType) /\ ReadersOn(text, readers)
         /\ \E p, e : FieldDue(text, Reader, p, e)
<1>1. /\ readers # <<>> /\ packed.kind = "none" /\ fault = "none" /\ text \in Seq(Byte)
      /\ Reader \in ReaderType /\ Placed(text, Reader) /\ HasKey(text, Reader)
  BY WalkingIs, DueIs
<1>2. readers \in Seq(ReaderType)
  BY DEF ReaderInv
<1>3. ReadersOn(text, readers) /\ ReadsOn(text, Reader)
  <2>1. Len(readers) \in 1 .. Len(readers)
    <3>1. Len(readers) \in Nat /\ Len(readers) >= 1
      BY <1>1, ReaderIs
    <3> QED
      BY <3>1
  <2> QED
    BY <2>1 DEF CopyOn, ReadersOn, Reader
<1>4. \E p, e : FieldDue(text, Reader, p, e)
  BY <1>1, <1>3, FieldIsDue
<1> QED
  BY <1>1, <1>2, <1>3, <1>4

\* Getting the field that is due, with its payload.
LEMMA GotCopies ==
  ASSUME ReaderInv(text, readers, packed, fault), CopyOn(text, readers, packed, fault),
         Walking, Reader.due, NEW p, NEW e, FieldDue(text, Reader, p, e),
         NEW x, x.error = "none", x.at = e, NEW payload, payload = p, Got(x, payload)
  PROVE  /\ text' = text /\ fault' = "none" /\ ReadersOn(text, readers') /\ HasLast(readers', p)
         /\ p \in Seq(Byte)
<1> DEFINE t == text
           q == Reader
           f == [tag |-> q.tag, type |-> q.type, payload |-> payload]
           k == IF q.type = VarintType THEN q.tag ELSE 0
           v == [q EXCEPT !.at = x.at, !.due = FALSE, !.tag = k, !.got = Append(@, f)]
<1>1. /\ t \in Seq(Byte) /\ q \in ReaderType /\ Placed(t, q) /\ ReadsOn(t, q)
      /\ fault = "none" /\ readers # <<>> /\ readers \in Seq(ReaderType) /\ ReadersOn(t, readers)
  BY CopyDue
<1>2. text' = text /\ fault' = "none" /\ Turned(readers, readers', v)
  BY <1>1 DEF Got, Update, Turned
<1>3. GotAs(v, q, e, k, f)
  <2>1. GotAs(v, q, x.at, k, f)
    BY DEF GotAs
  <2> HIDE DEF v, q, k, f
  <2> QED
    BY <2>1
<1>4. Taken(f, q, p) /\ k \in Nat /\ q.due /\ FieldDue(t, q, p, e)
  BY <1>1 DEF ReaderType, Taken
<1> HIDE DEF t, q, f, k, v, ReaderType
<1>5. v \in ReaderType /\ ReadsOn(t, v) /\ v.got # <<>> /\ Last(v.got).payload = p /\ p \in Seq(Byte)
  BY ONLY <1>1, <1>3, <1>4, GotOn
<1>6. ReadersOn(t, readers')
  BY <1>1, <1>2, <1>5, OnTurned
<1>7. readers'[Len(readers')] = v /\ readers' # <<>>
  BY <1>1, <1>2, <1>5, TopTurned
<1> QED
  BY <1>2, <1>5, <1>6, <1>7 DEF HasLast, t

LEMMA GotAloneCopies ==
  ASSUME ReaderInv(text, readers, packed, fault), CopyOn(text, readers, packed, fault),
         Walking, Reader.due, NEW p, NEW e, FieldDue(text, Reader, p, e),
         NEW x, x.error = "none", x.at = e, NEW payload, payload = p, Got(x, payload),
         packed' = packed
  PROVE  CopyOn(text', readers', packed', fault')
<1>1. text' = text /\ fault' = "none" /\ ReadersOn(text, readers')
  BY GotCopies
<1>2. packed'.kind = "none"
  BY CopyDue
<1> QED
  BY <1>1, <1>2 DEF CopyOn, PackedOn

\* The payload of a field that is due, as bytes in front of its end.
LEMMA PayloadBehind ==
  ASSUME NEW r, NEW p, NEW e, FieldDue(text, r, p, e), NEW n, n = Len(p)
  PROVE  Behind(e, n) = p
BY DEF FieldDue, Behind, Slice

LEMMA SkipCopies ==
  ASSUME ReaderInv(text, readers, packed, fault), CopyOn(text, readers, packed, fault), Skip
  PROVE  CopyOn(text', readers', packed', fault')
<1> DEFINE x == SkipResult
           payload == IF Reader.type = LengthDelimited THEN Behind(x.at, x.value)
                      ELSE SubSeq(text, Reader.at + 1, x.at)
<1>1. Walking /\ Reader.due /\ Got(x, payload) /\ packed' = packed
  BY DEF Skip
<1>2. ReadsBody(text, Reader, x) /\ (Reader.type = LengthDelimited => ReadsDelimited(text, Reader, x))
  BY <1>1, DueIs, SkipResultIs
<1> HIDE DEF x
<1>3. PICK p, e : FieldDue(text, Reader, p, e)
  BY <1>1, CopyDue
<1>4. x.error = "none" /\ x.at = e
  BY <1>1, <1>2, <1>3, CopyDue, DueFound
<1>5. payload = p
  <2>1. CASE Reader.type = LengthDelimited
    <3>1. x.value = Len(p)
      BY <1>1, <1>2, <1>3, <2>1, CopyDue, DueDelimited
    <3>2. Behind(e, x.value) = p
      BY <1>3, <3>1, PayloadBehind
    <3> QED
      BY <1>4, <2>1, <3>2
  <2>2. CASE Reader.type # LengthDelimited
    <3>1. SubSeq(text, Reader.at + 1, e) = p
      BY <1>3, <2>2 DEF FieldDue, Slice
    <3> QED
      BY <1>4, <2>2, <3>1
  <2> QED
    BY <2>1, <2>2
<1> HIDE DEF payload
<1> QED
  BY <1>1, <1>3, <1>4, <1>5, GotAloneCopies

LEMMA GetViewCopies ==
  ASSUME ReaderInv(text, readers, packed, fault), CopyOn(text, readers, packed, fault), GetView
  PROVE  CopyOn(text', readers', packed', fault')
<1> DEFINE x == LenAndSkip
           payload == Behind(x.at, x.value)
<1>1. Due(LengthDelimited) /\ Got(x, payload) /\ packed' = packed
  BY DEF GetView
<1>2. Walking /\ Reader.due /\ ReadsDelimited(text, Reader, x)
  BY <1>1, LenReads
<1> HIDE DEF x
<1>3. PICK p, e : FieldDue(text, Reader, p, e)
  BY <1>2, CopyDue
<1>4. x.error = "none" /\ x.at = e /\ x.value = Len(p)
  BY <1>2, <1>3, CopyDue, DueDelimited
<1>5. payload = p
  BY <1>3, <1>4, PayloadBehind
<1> HIDE DEF payload
<1> QED
  BY <1>1, <1>2, <1>3, <1>4, <1>5, GotAloneCopies

LEMMA GetFixedCopies ==
  ASSUME ReaderInv(text, readers, packed, fault), CopyOn(text, readers, packed, fault), GetFixed
  PROVE  CopyOn(text', readers', packed', fault')
<1> DEFINE n == IF Reader.type = Fixed32Type THEN Fixed32 ELSE Fixed64
           x == SkipBytes(Reader.at, n)
           payload == Behind(x.at, n)
<1>1. (Due(Fixed32Type) \/ Due(Fixed64Type)) /\ Got(x, payload) /\ packed' = packed
  BY DEF GetFixed
<1>2. Walking /\ Reader.due /\ Reader.type \in {Fixed32Type, Fixed64Type}
  BY <1>1, DueOf
<1>w. OfWidth(Reader.type, n)
  BY <1>2, WireTypesDiffer DEF OfWidth
<1>3. ReadsBody(text, Reader, x)
  BY <1>2, <1>w, DueIs, SkipBytesIs
<1>4. PICK p, e : FieldDue(text, Reader, p, e)
  BY <1>2, CopyDue
<1>5. n = Len(p)
  <2>1. WholePayload(Reader.tag, Reader.type, p)
    BY <1>4 DEF FieldDue
  <2> QED
    BY <1>2, <2>1, WireTypesDiffer DEF WholePayload, IsPayload
<1> HIDE DEF x, n
<1>6. x.error = "none" /\ x.at = e
  BY <1>2, <1>3, <1>4, CopyDue, DueFound
<1>7. payload = p
  BY <1>4, <1>5, <1>6, PayloadBehind
<1> HIDE DEF payload
<1> QED
  BY <1>1, <1>2, <1>4, <1>6, <1>7, GotAloneCopies

\* The program that reads knows the tag.
LEMMA KindDue ==
  ASSUME NEW t, NEW r, NEW p, NEW e, FieldDue(t, r, p, e)
  PROVE  KindOf(r) = Schema[r.tag] /\ r.tag \in Tag /\ WholePayload(r.tag, r.type, p)
<1>1. r.tag \in Tag /\ WholePayload(r.tag, r.type, p)
  BY DEF FieldDue
<1>2. r.tag \in DOMAIN Expected /\ Expected[r.tag] = Schema[r.tag]
  BY <1>1, WireAssumption
<1> QED
  BY <1>1, <1>2 DEF KindOf

LEMMA VarintDue ==
  ASSUME NEW t \in Seq(Byte), NEW r, Placed(t, r), NEW p, NEW e, FieldDue(t, r, p, e),
         r.type = VarintType, NEW x, x = DecodeVarint(t, r.at, r.end), x.error = "none", x.at = e
  PROVE  x.value = ValueOf(p)
<1>1. r.at \in Nat /\ r.end \in Nat /\ r.at <= r.end /\ r.end <= Len(t)
  BY ReaderPlace
<1>2. x.value = ValueOf(Slice(t, r.at, e))
  BY <1>1, DecodeIs
<1>3. Slice(t, r.at, e) = p
  BY WireTypesDiffer DEF FieldDue
<1> QED
  BY <1>2, <1>3

LEMMA GetVarintCopies ==
  ASSUME ReaderInv(text, readers, packed, fault), CopyOn(text, readers, packed, fault), GetVarint
  PROVE  CopyOn(text', readers', packed', fault')
<1> DEFINE x == DecodeVarint(text, Reader.at, Reader.end)
           payload == EncodeVarint(x.value)
<1>1. Due(VarintType) /\ Got(x, payload) /\ packed' = packed /\ KindOf(Reader) = "int"
  BY DEF GetVarint
<1>2. Walking /\ Reader.due /\ Reader.type = VarintType
  BY <1>1, DueOf
<1>3. ReadsBody(text, Reader, x) /\ x = DecodeVarint(text, Reader.at, Reader.end)
  BY <1>2, DueIs, DecodeReads
<1>4. PICK p, e : FieldDue(text, Reader, p, e)
  BY <1>2, CopyDue
<1> HIDE DEF x
<1>5. x.error = "none" /\ x.at = e
  BY <1>2, <1>3, <1>4, CopyDue, DueFound
<1>6. PICK u \in 0 .. Word - 1 : p = EncodeVarint(u)
  <2>1. Schema[Reader.tag] = "int" /\ WholePayload(Reader.tag, Reader.type, p)
    BY <1>1, <1>4, KindDue
  <2> QED
    BY <1>2, <2>1, WireTypesDiffer DEF WholePayload, IsPayload
<1>7. x.value = u
  <2>1. x.value = ValueOf(p)
    BY <1>2, <1>3, <1>4, <1>5, CopyDue, VarintDue
  <2>2. ValueOf(EncodeVarint(u)) = u
    BY EncodeValue
  <2> QED
    BY <1>6, <2>1, <2>2
<1>8. payload = p
  BY <1>6, <1>7
<1> HIDE DEF payload
<1> QED
  BY <1>1, <1>2, <1>4, <1>5, <1>8, GotAloneCopies

LEMMA GetSvarintCopies ==
  ASSUME ReaderInv(text, readers, packed, fault), CopyOn(text, readers, packed, fault), GetSvarint
  PROVE  CopyOn(text', readers', packed', fault')
<1> DEFINE x == DecodeVarint(text, Reader.at, Reader.end)
           payload == EncodeVarint(EncodeZigzag(DecodeZigzag(x.value)))
<1>1. Due(VarintType) /\ Got(x, payload) /\ packed' = packed /\ KindOf(Reader) = "sint"
  BY DEF GetSvarint
<1>2. Walking /\ Reader.due /\ Reader.type = VarintType
  BY <1>1, DueOf
<1>3. ReadsBody(text, Reader, x) /\ x = DecodeVarint(text, Reader.at, Reader.end)
  BY <1>2, DueIs, DecodeReads
<1>4. PICK p, e : FieldDue(text, Reader, p, e)
  BY <1>2, CopyDue
<1> HIDE DEF x
<1>5. x.error = "none" /\ x.at = e
  BY <1>2, <1>3, <1>4, CopyDue, DueFound
<1>6. PICK u \in 0 .. Word - 1 : p = EncodeVarint(u)
  <2>1. Schema[Reader.tag] = "sint" /\ WholePayload(Reader.tag, Reader.type, p)
    BY <1>1, <1>4, KindDue
  <2> QED
    BY <1>2, <2>1, WireTypesDiffer DEF WholePayload, IsPayload
<1>7. x.value = u /\ u \in Nat
  <2>1. x.value = ValueOf(p)
    BY <1>2, <1>3, <1>4, <1>5, CopyDue, VarintDue
  <2>2. ValueOf(EncodeVarint(u)) = u
    BY EncodeValue
  <2>3. u \in Nat
    BY Widths
  <2> QED
    BY <1>6, <2>1, <2>2, <2>3
<1>8. EncodeZigzag(DecodeZigzag(u)) = u
  BY <1>7, ZigzagBack
<1>9. payload = p
  BY <1>6, <1>7, <1>8
<1> HIDE DEF payload
<1> QED
  BY <1>1, <1>2, <1>4, <1>5, <1>9, GotAloneCopies

LEMMA GetBoolCopies ==
  ASSUME ReaderInv(text, readers, packed, fault), CopyOn(text, readers, packed, fault), GetBool
  PROVE  CopyOn(text', readers', packed', fault')
<1> DEFINE x == SkipVarint(text, Reader.at, Reader.end)
           b == IF Reader.at < Reader.end /\ text[Reader.at + 1] # 0 THEN 1 ELSE 0
           payload == <<b>>
<1>1. Due(VarintType) /\ Got(x, payload) /\ packed' = packed /\ KindOf(Reader) = "bool"
  BY DEF GetBool
<1>2. Walking /\ Reader.due /\ Reader.type = VarintType
  BY <1>1, DueOf
<1>3. ReadsBody(text, Reader, x)
  BY <1>2, DueIs, SkipReads
<1>4. PICK p, e : FieldDue(text, Reader, p, e)
  BY <1>2, CopyDue
<1> HIDE DEF x
<1>5. x.error = "none" /\ x.at = e
  BY <1>2, <1>3, <1>4, CopyDue, DueFound
<1>6. PICK c \in {0, 1} : p = <<c>>
  <2>1. Schema[Reader.tag] = "bool" /\ WholePayload(Reader.tag, Reader.type, p)
    BY <1>1, <1>4, KindDue
  <2> QED
    BY <1>2, <2>1, WireTypesDiffer DEF WholePayload, IsPayload
<1>7. b = c
  <2> DEFINE i == Reader.at
             n == Reader.end
             d == Len(text)
  <2>1. i \in Nat /\ n \in Nat /\ i <= n /\ n <= d /\ text \in Seq(Byte) /\ d \in Nat /\ d = Len(text)
    BY <1>2, DueIs
  <2>2. e \in Nat /\ i <= e /\ e <= n /\ Slice(text, i, e) = p
    BY <1>2, <1>4, WireTypesDiffer DEF FieldDue
  <2> HIDE DEF i, n, d
  <2>3. e <= Len(text)
    BY <2>1, <2>2
  <2>4. Len(p) = e - i /\ \A j \in 1 .. e - i : p[j] = text[i + j]
    BY <2>1, <2>2, <2>3, SliceIs
  <2>5. Len(p) = 1 /\ p[1] = c
    BY <1>6
  <2>6. e - i = 1
    BY <2>4, <2>5
  <2>7. 1 \in 1 .. e - i
    BY <2>6
  <2>8. text[i + 1] = c
    BY <2>4, <2>5, <2>7
  <2>9. i < n
    BY <2>1, <2>2, <2>6
  <2> QED
    BY <2>8, <2>9 DEF i, n
<1>8. payload = p
  BY <1>6, <1>7
<1> HIDE DEF payload
<1> QED
  BY <1>1, <1>2, <1>4, <1>5, <1>8, GotAloneCopies

LEMMA GetMessageCopies ==
  ASSUME ReaderInv(text, readers, packed, fault), CopyOn(text, readers, packed, fault), GetMessage
  PROVE  CopyOn(text', readers', packed', fault')
<1> DEFINE x == LenAndSkip
           q == Reader
           t == text
           f == [tag |-> q.tag, type |-> q.type, payload |-> Behind(x.at, x.value)]
           w == [q EXCEPT !.at = x.at, !.due = FALSE, !.tag = 0, !.got = Append(@, f)]
           v == NewReader(x.at - x.value, x.at)
<1>1. /\ Due(LengthDelimited) /\ text' = text /\ packed' = packed /\ KindOf(Reader) = "message"
      /\ x.error = "none" => Nested(readers, readers', w, v) /\ fault' = fault
  BY DEF GetMessage, Nested
<1>2. Walking /\ Reader.due /\ ReadsDelimited(text, Reader, x) /\ Reader.type = LengthDelimited
  BY <1>1, LenReads, DueOf
<1>3. PICK p, e : FieldDue(text, Reader, p, e)
  BY <1>2, CopyDue
<1>4. /\ t \in Seq(Byte) /\ q \in ReaderType /\ Placed(t, q) /\ ReadsOn(t, q) /\ packed.kind = "none"
      /\ fault = "none" /\ readers # <<>> /\ readers \in Seq(ReaderType) /\ ReadersOn(t, readers)
  BY <1>2, CopyDue
<1> HIDE DEF x
<1>5. x.error = "none" /\ x.at = e /\ x.value = Len(p)
  BY <1>2, <1>3, <1>4, DueIs, DueDelimited
<1>6. Nested(readers, readers', w, v) /\ fault' = "none"
  BY <1>1, <1>4, <1>5
<1>7. Taken(f, q, p)
  <2>1. Behind(x.at, x.value) = p
    BY <1>3, <1>5, PayloadBehind
  <2> QED
    BY <2>1 DEF Taken
<1>8. GotAs(w, q, e, 0, f)
  <2>1. GotAs(w, q, x.at, 0, f)
    BY DEF GotAs
  <2> HIDE DEF w, q, f
  <2> QED
    BY <1>5, <2>1
<1>9. p \in Whole("message")
  <2>1. Schema[Reader.tag] = "message" /\ WholePayload(Reader.tag, Reader.type, p)
    BY <1>1, <1>3, KindDue
  <2>2. <<"message", p>> \in AllWhole
    BY <1>2, <2>1, WireTypesDiffer DEF WholePayload, IsPayload
  <2> QED
    BY <2>2, WholeIs DEF Kinds
<1> DEFINE b == e - Len(p)
<1>10. /\ e \in Nat /\ b \in Nat /\ b <= e /\ e <= Len(t) /\ Slice(t, b, e) = p /\ v = NewReader(b, e)
  <2>1. /\ e \in Nat /\ e <= q.end /\ b \in Nat /\ Slice(t, b, e) = p /\ q.end <= Len(t) /\ q.end \in Nat
    BY <1>3, <1>4 DEF FieldDue, Placed
  <2>2. Len(p) \in Nat /\ Len(t) \in Nat
    BY <1>4, <1>9 DEF Whole
  <2> QED
    BY <1>5, <2>1, <2>2
<1>11. FieldDue(t, q, p, e) /\ q.due /\ 0 \in Nat
  BY <1>2, <1>3
<1> HIDE DEF t, q, f, w, v, b, ReaderType
<1>12. w \in ReaderType /\ ReadsOn(t, w)
  BY ONLY <1>4, <1>7, <1>8, <1>11, GotOn
<1>13. v \in ReaderType /\ ReadsOn(t, v)
  <2>1. v \in ReaderType
    BY <1>4, <1>10, NewReaderIs
  <2>2. Slice(t, b, e) \in Whole("message")
    BY <1>9, <1>10
  <2>3. ReadsOn(t, v)
    BY <1>4, <1>10, <2>2, NewReaderOn
  <2> QED
    BY <2>1, <2>3
<1>14. ReadersOn(t, readers')
  BY <1>4, <1>6, <1>12, <1>13, OnNested
<1> QED
  BY <1>1, <1>4, <1>6, <1>14 DEF CopyOn, PackedOn, t

LEMMA TopOn ==
  ASSUME ReaderInv(text, readers, packed, fault), CopyOn(text, readers, packed, fault), readers # <<>>
  PROVE  /\ ReadsOn(text, Reader) /\ ReadersOn(text, readers) /\ readers \in Seq(ReaderType)
         /\ text \in Seq(Byte) /\ Reader \in ReaderType /\ Placed(text, Reader) /\ fault = "none"
<1>1. ReadersOn(text, readers) /\ fault = "none"
  BY DEF CopyOn
<1>2. readers \in Seq(ReaderType) /\ text \in Seq(Byte)
  BY DEF ReaderInv
<1>3. /\ Len(readers) \in Nat /\ Len(readers) >= 1
      /\ readers[Len(readers)] \in ReaderType /\ Placed(text, readers[Len(readers)])
  BY ReaderIs
<1>4. Len(readers) \in 1 .. Len(readers)
  BY <1>3
<1> QED
  BY <1>1, <1>2, <1>3, <1>4 DEF ReadersOn, Reader

\* A key is decoded that is there.
LEMMA KeyDecoded ==
  ASSUME NEW t \in Seq(Byte), NEW a \in Nat, NEW b \in Nat, a <= b, b <= Len(t), a # b,
         Slice(t, a, b) \in Whole("message"), NEW k, k = DecodeVarint(t, a, b)
  PROVE  /\ k.error = "none" /\ k.at \in Nat
         /\ (k.value % ShortWord) \div 8 \in Nat /\ ValidTag((k.value % ShortWord) \div 8)
         /\ k.value % 8 \in WireTypes /\ k.value % 8 \in Nat
<1>1. PICK g, y, p, j, e : FieldAhead(t, a, b, g, y, p, j, e)
  BY NextIsField
<1>2. /\ j \in Nat /\ a < j /\ j <= e /\ e <= b /\ e \in Nat /\ VarintAt(t, a, j)
      /\ Value32(t, a, j) \div 8 = g /\ Value32(t, a, j) % 8 = y /\ y \in WireTypes /\ ValidTag(g)
  BY <1>1 DEF FieldAhead, FieldParts
<1>3. j \in a .. b /\ a <= j /\ j <= Len(t)
  BY <1>2
<1>4. /\ k = [error |-> "none", at |-> k.at, value |-> k.value]
      /\ k.at \in a + 1 .. b /\ VarintAt(t, a, k.at)
      /\ k.value = ValueOf(Slice(t, a, k.at)) /\ k.value \in 0 .. Word - 1
  BY <1>2, <1>3, DecodeIs
<1>5. k.error = "none"
  BY <1>4
<1> HIDE DEF DecodeVarint
<1> DEFINE n == k.at
           u == k.value
<1>6. /\ n \in Nat /\ a <= n /\ n <= Len(t) /\ VarintAt(t, a, n)
      /\ u = ValueOf(Slice(t, a, n)) /\ u \in 0 .. Word - 1
  BY <1>4
<1> HIDE DEF n, u
<1>7. n = j
  BY <1>2, <1>3, <1>6, VarintUnique
<1>8. u \in Nat
  BY <1>6, Widths
<1>9. Value32(t, a, j) = u % ShortWord /\ u % ShortWord \in Nat
  BY <1>6, <1>7, <1>8, Sizes, Division DEF Value32
<1>10. (u % ShortWord) \div 8 = g /\ (u % ShortWord) \div 8 \in Nat
  BY <1>2, <1>9, Division
<1>11. u % 8 = y /\ u % 8 \in Nat
  <2>1. (u % ShortWord) % 8 = u % 8
    BY <1>8, TypeOfKey
  <2>2. u % 8 \in Nat
    BY <1>8, Division
  <2> QED
    BY <1>2, <1>9, <2>1, <2>2
<1>12. n \in Nat /\ k.error = "none"
  BY <1>5, <1>6
<1> QED
  BY <1>2, <1>10, <1>11, <1>12 DEF n, u

LEMMA ReadAsOn ==
  ASSUME NEW t, NEW r, r \in ReaderType, ~r.due, ReadsOn(t, r),
         NEW at, at \in Nat, NEW tag, tag \in Nat, NEW type, type \in Nat,
         NEW from, from = r.at, NEW v, ReadAs(v, r, at, tag, from, type)
  PROVE  v \in ReaderType /\ ReadsOn(t, v)
<1>1. v.got = r.got
  BY DEF ReaderType, ReadAs
<1>2. from \in Nat
  BY DEF ReaderType
<1>3. /\ v \in ReaderType /\ v.begin = r.begin /\ v.from = from /\ v.end = r.end /\ v.due
  BY <1>2 DEF ReadAs, ReaderType
<1>4. Start(v) = Start(r)
  BY <1>3 DEF Start
<1> QED
  BY <1>1, <1>3, <1>4 DEF ReadsOn

LEMMA NextFieldCopies ==
  ASSUME ReaderInv(text, readers, packed, fault), CopyOn(text, readers, packed, fault), NextField
  PROVE  CopyOn(text', readers', packed', fault')
<1> DEFINE t == text
           q == Reader
           a == q.at
           b == q.end
           k == DecodeVarint(t, a, b)
           tag == (k.value % ShortWord) \div 8
           type == k.value % 8
           y == IF ValidTag(tag) THEN type ELSE q.type
           v == [q EXCEPT !.at = k.at, !.tag = tag, !.from = a, !.type = y, !.due = TRUE]
<1>1. Walking /\ ~q.due /\ a # b /\ text' = text /\ packed' = packed
  BY DEF NextField, Idle
<1>2. readers # <<>> /\ packed.kind = "none"
  BY <1>1 DEF Walking
<1>3. /\ t \in Seq(Byte) /\ q \in ReaderType /\ Placed(t, q) /\ ReadsOn(t, q)
      /\ fault = "none" /\ readers \in Seq(ReaderType) /\ ReadersOn(t, readers)
  BY <1>2, TopOn
<1>4. a \in Nat /\ b \in Nat /\ a <= b /\ b <= Len(t)
  BY <1>3, ReaderPlace
<1>5. Slice(t, a, b) \in Whole("message")
  BY <1>1, <1>3 DEF ReadsOn, Start
<1>6. k = DecodeVarint(t, a, b)
  OBVIOUS
<1>7. k.error = "none" /\ ValidTag(tag) /\ type \in WireTypes =>
        Turned(readers, readers', v) /\ fault' = fault
  BY DEF NextField, Update, Turned, Throw
<1>8. ReadAs(v, q, k.at, tag, a, y)
  BY DEF ReadAs
<1> HIDE DEF k, v, t, b
<1>9. /\ k.error = "none" /\ k.at \in Nat /\ tag \in Nat /\ ValidTag(tag)
      /\ type \in WireTypes /\ type \in Nat
  <2> HIDE DEF a, q
  <2> QED
    BY <1>1, <1>3, <1>4, <1>5, <1>6, KeyDecoded
<1>10. y \in Nat
  BY <1>9
<1> DEFINE n == k.at
<1>11. ReadAs(v, q, n, tag, a, y) /\ n \in Nat /\ a = q.at /\ ~q.due
  BY <1>1, <1>8, <1>9
<1>12. Turned(readers, readers', v) /\ fault' = "none" /\ tag \in Nat
  BY <1>3, <1>7, <1>9
<1> HIDE DEF tag, type, y, a, q, n, ReaderType
<1>13. v \in ReaderType /\ ReadsOn(t, v)
  BY ONLY <1>3, <1>10, <1>11, <1>12, ReadAsOn
<1>14. ReadersOn(t, readers')
  BY <1>2, <1>3, <1>12, <1>13, OnTurned
<1> QED
  BY <1>1, <1>2, <1>12, <1>14 DEF CopyOn, PackedOn, t

LEMMA ReturnCopies ==
  ASSUME ReaderInv(text, readers, packed, fault), CopyOn(text, readers, packed, fault),
         NextReturnsFalse
  PROVE  CopyOn(text', readers', packed', fault')
<1>1. Walking /\ readers' = Front(readers) /\ text' = text /\ packed' = packed /\ fault' = fault
  BY DEF NextReturnsFalse, Idle
<1>2. readers # <<>> /\ packed.kind = "none"
  BY <1>1 DEF Walking
<1>3. ReadersOn(text, Front(readers)) /\ fault = "none"
  BY <1>2, TopOn, OnFront
<1> QED
  BY <1>1, <1>2, <1>3 DEF CopyOn, PackedOn

LEMMA SeekCopies ==
  ASSUME CopyOn(text, readers, packed, fault), Seek \/ Found
  PROVE  CopyOn(text', readers', packed', fault')
BY DEF Seek, Found

-----------------------------------------------------------------------------
(* Packed fields that are read.                                            *)

FixedKinds == {"fixeds32", "fixeds64"}

\* A packed field of fixed size has room for whole elements only.
LEMMA FixedsFit ==
  ASSUME NEW k \in FixedKinds, NEW s \in Whole(k)
  PROVE  Len(s) \in Nat /\ Len(s) % ElementSize(k) = 0
<1> DEFINE Ok(j, b) == j \in FixedKinds => \E m \in Nat : Len(b) = ElementSize(j) * m
           M == {x \in Kinds \X Seq(Byte) : Ok(x[1], x[2])}
<1>1. ASSUME NEW j \in Kinds, NEW b PROVE <<j, b>> \in M <=> b \in Seq(Byte) /\ Ok(j, b)
  <2> HIDE DEF Ok
  <2> QED
    OBVIOUS
<1>2. "message" \in Kinds /\ PackedKinds \subseteq Kinds /\ FixedKinds \subseteq PackedKinds
      /\ "message" \notin FixedKinds
  BY DEF Kinds, FixedKinds, PackedKinds
<1>3. ASSUME NEW j \in Kinds PROVE <<j, <<>>>> \in M
  <2>1. Len(<<>>) = ElementSize(j) * 0 /\ <<>> \in Seq(Byte)
    BY ElementSizeIs, EmptySeq
  <2>2. Ok(j, <<>>)
    BY <2>1
  <2> QED
    BY <1>1, <2>1, <2>2
<1>4. ASSUME NEW j \in PackedKinds, NEW a \in Seq(Byte), NEW e \in Seq(Byte),
             <<j, a>> \in M, IsElement(j, e)
      PROVE  <<j, a \o e>> \in M
  <2>1. j \in Kinds /\ Ok(j, a)
    BY <1>1, <1>2, <1>4
  <2>2. a \o e \in Seq(Byte) /\ Len(a \o e) = Len(a) + Len(e)
    BY Join
  <2>3. ASSUME j \in FixedKinds PROVE \E m \in Nat : Len(a \o e) = ElementSize(j) * m
    <3>1. PICK m \in Nat : Len(a) = ElementSize(j) * m
      BY <2>1, <2>3
    <3>2. Len(e) = ElementSize(j)
      BY <1>4, <2>3 DEF IsElement, FixedKinds
    <3> DEFINE n == ElementSize(j)
               d == Len(a \o e)
    <3>3. n \in Nat /\ d = n * m + n
      BY <2>2, <3>1, <3>2, ElementSizeIs
    <3> HIDE DEF n, d
    <3>4. d = n * (m + 1)
      BY <3>3
    <3>5. m + 1 \in Nat
      OBVIOUS
    <3> QED
      BY <3>4, <3>5 DEF n, d
  <2> DEFINE c == a \o e
  <2>4. Ok(j, c)
    BY <2>3
  <2> HIDE DEF c, Ok
  <2>5. <<j, c>> \in M
    BY <1>1, <2>1, <2>2, <2>4 DEF c
  <2> QED
    BY <2>5 DEF c
<1>5. ASSUME NEW a \in Seq(Byte), NEW p \in Seq(Byte), NEW t \in Tag, NEW y \in WireTypes,
             <<"message", a>> \in M, IsPayload(M, t, y, p)
      PROVE  <<"message", a \o Field(t, y, p)>> \in M
  <2> DEFINE c == a \o Field(t, y, p)
  <2>1. y = LengthDelimited => Len(p) < ShortWord
    BY <1>5, WireTypesDiffer DEF IsPayload
  <2>2. c \in Seq(Byte)
    BY <2>1, FieldIs, Join
  <2>3. Ok("message", c)
    BY <1>2
  <2> HIDE DEF c, Ok
  <2>4. <<"message", c>> \in M
    BY <1>1, <1>2, <2>2, <2>3
  <2> QED
    BY <2>4 DEF c
<1> HIDE DEF M
<1>6. Closed(M)
  BY <1>3, <1>4, <1>5 DEF Closed
<1>7. <<k, s>> \in M
  BY <1>6 DEF Whole
<1>8. k \in Kinds /\ s \in Seq(Byte) /\ Ok(k, s)
  BY <1>1, <1>2, <1>7 DEF Whole
<1>9. PICK m \in Nat : Len(s) = ElementSize(k) * m
  BY <1>8
<1>10. Len(s) \in Nat
  BY <1>8
<1> DEFINE n == ElementSize(k)
           d == Len(s)
<1>11. n \in Nat /\ n > 0 /\ d \in Nat /\ d = n * m + 0 /\ 0 \in 0 .. n - 1
  BY <1>9, <1>10, ElementSizeIs
<1> HIDE DEF n, d
<1>12. d % n = 0
  BY <1>11, Quotient
<1> QED
  BY <1>10, <1>12 DEF n, d

\* The payload of a packed field or a message.
LEMMA WholeDue ==
  ASSUME NEW t, NEW r, NEW p, NEW e, FieldDue(t, r, p, e), KindOf(r) \in PackedKinds
  PROVE  p \in Whole(KindOf(r))
<1>1. KindOf(r) = Schema[r.tag] /\ WholePayload(r.tag, r.type, p)
  BY KindDue
<1>2. Schema[r.tag] \in Kinds
  BY <1>1 DEF Kinds
<1>3. <<Schema[r.tag], p>> \in AllWhole
  BY <1>1, <1>2 DEF WholePayload, IsPayload, PackedKinds
<1> QED
  BY <1>1, <1>2, <1>3, WholeIs

\* The iterators over a packed field that has just been got.
LEMMA PackedStarts ==
  ASSUME NEW t \in Seq(Byte), NEW r, Placed(t, r), NEW p, NEW e, FieldDue(t, r, p, e),
         NEW kind, kind \in PackedKinds, p \in Whole(kind), NEW rs, HasLast(rs, p),
         NEW b, b = e - Len(p), NEW size, NEW pk, Fresh(pk, kind, b, e, size)
  PROVE  PackedOn(t, rs, pk)
<1>1. pk.kind = kind /\ pk.at = b /\ pk.end = e /\ pk.elements = <<>>
  BY DEF Fresh
<1>2. b \in Nat /\ e \in Nat /\ Slice(t, b, e) = p /\ e <= r.end
  BY DEF FieldDue
<1>3. p \in Seq(Byte) /\ Len(p) \in Nat
  BY DEF Whole
<1>4. b <= b /\ b <= Len(t)
  <2>1. r.end \in Nat /\ r.end <= Len(t) /\ Len(t) \in Nat
    BY ReaderPlace
  <2> QED
    BY <1>2, <1>3, <2>1
<1>5. Slice(t, b, b) = <<>>
  <2> DEFINE s == Slice(t, b, b)
  <2>1. s \in Seq(Byte) /\ Len(s) = b - b
    BY <1>2, <1>4, SliceIs
  <2> HIDE DEF s
  <2>2. Len(s) = 0
    BY <1>2, <2>1
  <2>3. s = <<>>
    BY <2>1, <2>2
  <2> QED
    BY <2>3 DEF s
<1>6. FlattenSeq(pk.elements) = Slice(t, b, pk.at)
  BY <1>1, <1>5, FlattenEmpty
<1>7. Slice(t, pk.at, pk.end) \in Whole(pk.kind) /\ b = pk.end - Len(p) /\ b <= pk.at
  BY <1>1, <1>2, <1>4
<1> QED
  BY <1>1, <1>2, <1>3, <1>6, <1>7 DEF PackedOn

LEMMA GetPackedVarintsCopies ==
  ASSUME ReaderInv(text, readers, packed, fault), CopyOn(text, readers, packed, fault),
         GetPackedVarints
  PROVE  CopyOn(text', readers', packed', fault')
<1> DEFINE x == LenAndSkip
           payload == Behind(x.at, x.value)
           s == CountVarints(x.at - x.value, x.at)
           kind == KindOf(Reader)
<1>1. Due(LengthDelimited) /\ kind \in {"ints", "sints"} /\ Got(x, payload)
      /\ (x.error = "none" => Fresh(packed', kind, x.at - x.value, x.at, s))
  BY DEF GetPackedVarints, Fresh
<1>2. Walking /\ Reader.due /\ ReadsDelimited(text, Reader, x)
  BY <1>1, LenReads
<1> HIDE DEF x, s
<1>3. PICK p, e : FieldDue(text, Reader, p, e)
  BY <1>2, CopyDue
<1>4. x.error = "none" /\ x.at = e /\ x.value = Len(p)
  BY <1>2, <1>3, CopyDue, DueDelimited
<1>5. payload = p
  BY <1>3, <1>4, PayloadBehind
<1> HIDE DEF payload, kind
<1>6. text' = text /\ fault' = "none" /\ ReadersOn(text, readers') /\ HasLast(readers', p)
  BY <1>1, <1>2, <1>3, <1>4, <1>5, GotCopies
<1>7. kind \in PackedKinds
  BY <1>1 DEF PackedKinds
<1>8. p \in Whole(kind)
  BY <1>3, <1>7, WholeDue DEF kind
<1> DEFINE b == e - Len(p)
<1>9. Fresh(packed', kind, b, e, s) /\ b = e - Len(p)
  BY <1>1, <1>4
<1>10. text \in Seq(Byte) /\ Placed(text, Reader)
  BY <1>2, CopyDue
<1> HIDE DEF b
<1>11. PackedOn(text, readers', packed')
  BY <1>3, <1>6, <1>7, <1>8, <1>9, <1>10, PackedStarts
<1> QED
  BY <1>6, <1>11 DEF CopyOn

LEMMA GetPackedFixedCopies ==
  ASSUME ReaderInv(text, readers, packed, fault), CopyOn(text, readers, packed, fault),
         GetPackedFixed
  PROVE  CopyOn(text', readers', packed', fault')
<1> DEFINE l == LenAndSkip
           kind == KindOf(Reader)
           n == ElementSize(kind)
           x == IF l.error = "none" /\ l.value % n # 0 THEN [l EXCEPT !.error = "invalid_length"] ELSE l
           payload == Behind(x.at, x.value)
           s == x.value \div n
<1>1. Due(LengthDelimited) /\ kind \in FixedKinds /\ Got(x, payload)
      /\ (x.error = "none" => Fresh(packed', kind, x.at - x.value, x.at, s))
  BY DEF GetPackedFixed, Fresh, FixedKinds
<1>2. Walking /\ Reader.due /\ ReadsDelimited(text, Reader, l)
  BY <1>1, LenReads
<1> HIDE DEF l
<1>3. PICK p, e : FieldDue(text, Reader, p, e)
  BY <1>2, CopyDue
<1>4. l.error = "none" /\ l.at = e /\ l.value = Len(p)
  BY <1>2, <1>3, CopyDue, DueDelimited
<1>5. kind \in PackedKinds
  BY <1>1 DEF PackedKinds, FixedKinds
<1>6. p \in Whole(kind)
  BY <1>3, <1>5, WholeDue
<1>7. l.value % n = 0
  BY <1>1, <1>4, <1>6, FixedsFit
<1>8. x = l
  BY <1>7
<1> HIDE DEF s, kind, x
<1>9. x.error = "none" /\ x.at = e /\ x.value = Len(p)
  BY <1>4, <1>8
<1>10. payload = p
  BY <1>3, <1>9, PayloadBehind
<1> HIDE DEF payload
<1>11. text' = text /\ fault' = "none" /\ ReadersOn(text, readers') /\ HasLast(readers', p)
  BY <1>1, <1>2, <1>3, <1>9, <1>10, GotCopies
<1> DEFINE b == e - Len(p)
<1>12. Fresh(packed', kind, b, e, s) /\ b = e - Len(p)
  BY <1>1, <1>9
<1>13. text \in Seq(Byte) /\ Placed(text, Reader)
  BY <1>2, CopyDue
<1> HIDE DEF b
<1>14. PackedOn(text, readers', packed')
  BY <1>3, <1>5, <1>6, <1>11, <1>12, <1>13, PackedStarts
<1> QED
  BY <1>11, <1>14 DEF CopyOn

-----------------------------------------------------------------------------
(* The elements of a packed field.                                         *)

\* The element in front of an iterator that is not at the end.
LEMMA NextIsElement ==
  ASSUME NEW t \in Seq(Byte), NEW a \in Nat, NEW b \in Nat, a <= b, b <= Len(t), a # b,
         NEW k \in PackedKinds, Slice(t, a, b) \in Whole(k)
  PROVE  \E x \in Seq(Byte), m \in Nat :
           /\ IsElement(k, x) /\ m = a + Len(x) /\ a < m /\ m <= b
           /\ Slice(t, a, m) = x /\ Slice(t, m, b) \in Whole(k)
<1> DEFINE s == Slice(t, a, b)
<1>1. s \in Whole(k) /\ k \in Kinds /\ k # "message"
  BY DEF Kinds, PackedKinds
<1>2. Headed(k, s)
  BY <1>1, WholeHasHead
<1>3. s # <<>>
  <2>1. Len(s) = b - a
    BY SliceIs
  <2> HIDE DEF s
  <2>2. Len(s) # 0
    BY <2>1
  <2> QED
    BY <2>2
<1>4. PICK x, q \in Seq(Byte) : IsHead(k, x) /\ q \in Whole(k) /\ s = x \o q
  BY <1>2, <1>3 DEF Headed
<1>5. IsElement(k, x)
  BY <1>1, <1>4 DEF IsHead
<1> DEFINE m == a + Len(x)
<1>6. IsJoin(t, a, b, x, q)
  BY <1>4 DEF IsJoin
<1>7. m \in Nat /\ m <= b /\ Slice(t, a, m) = x /\ Slice(t, m, b) = q
  <2>1. m = a + Len(x)
    OBVIOUS
  <2> HIDE DEF m
  <2> QED
    BY ONLY <1>6, <2>1, SliceOfParts
<1>8. a < m
  <2>1. Len(x) > 0 /\ Len(x) \in Nat
    BY <1>5, ElementIs
  <2> QED
    BY <2>1
<1>9. m = a + Len(x)
  OBVIOUS
<1> HIDE DEF m, s
<1> QED
  BY <1>4, <1>5, <1>7, <1>8, <1>9

LEMMA ElementOn ==
  ASSUME NEW t \in Seq(Byte), NEW rs, NEW p, p \in PackedType, p.kind # "none", PackedOn(t, rs, p),
         NEW a, a = p.at, NEW b, b = p.end, a \in Nat, b \in Nat, b <= Len(t),
         NEW x, x \in Seq(Byte), NEW m, m \in Nat, a <= m, m <= b,
         Slice(t, a, m) = x, Slice(t, m, b) \in Whole(p.kind),
         NEW p2, Longer(p2, p, m, x)
  PROVE  PackedOn(t, rs, p2)
<1>1. PICK c \in Nat, y \in Seq(Byte) :
        /\ HasLast(rs, y) /\ c = p.end - Len(y) /\ c <= p.at /\ p.kind \in PackedKinds
        /\ FlattenSeq(p.elements) = Slice(t, c, p.at)
  BY DEF PackedOn
<1>2. p2.kind = p.kind /\ p2.at = m /\ p2.end = p.end
  BY DEF Longer, PackedType
<1> DEFINE s == p.elements
           s2 == p2.elements
<1>3. s \in Seq(Seq(Byte)) /\ s2 = Append(s, x)
  BY DEF Longer, PackedType
<1>4. FlattenSeq(s) = Slice(t, c, a)
  BY <1>1
<1> HIDE DEF s, s2
<1>5. FlattenSeq(s2) = FlattenSeq(s) \o x
  BY <1>3, FlattenAppend
<1>6. Slice(t, c, a) \o Slice(t, a, m) = Slice(t, c, m)
  <2>1. c \in Nat /\ a \in Nat /\ m \in Nat /\ c <= a /\ a <= m /\ m <= Len(t) /\ t \in Seq(Byte)
    BY <1>1
  <2> QED
    BY ONLY <2>1, SliceJoin
<1>7. FlattenSeq(s2) = Slice(t, c, m)
  BY <1>4, <1>5, <1>6
<1>8. FlattenSeq(p2.elements) = Slice(t, c, p2.at)
  BY <1>2, <1>7 DEF s2
<1>9. c = p2.end - Len(y) /\ c <= p2.at /\ p2.kind \in PackedKinds
  BY <1>1, <1>2
<1>10. Slice(t, p2.at, p2.end) \in Whole(p2.kind)
  BY <1>2
<1> QED
  BY <1>1, <1>8, <1>9, <1>10 DEF PackedOn

LEMMA NextVarintCopies ==
  ASSUME ReaderInv(text, readers, packed, fault), CopyOn(text, readers, packed, fault), NextVarint
  PROVE  CopyOn(text', readers', packed', fault')
<1> DEFINE t == text
           p == packed
           a == p.at
           b == p.end
           r == DecodeVarint(t, a, b)
           s == SkipVarint(t, a, b)
           v == IF p.kind = "sints" THEN EncodeZigzag(DecodeZigzag(r.value)) ELSE r.value
           e == EncodeVarint(v)
<1>1. /\ fault = "none" /\ p.kind \in {"ints", "sints"} /\ text' = text /\ readers' = readers
      /\ a # b
      /\ IF r.error # "none" THEN fault' = r.error /\ packed' = packed
         ELSE Longer(packed', p, s.at, e) /\ fault' = s.error
  BY DEF NextVarint, Throw, Longer
<1>2. t \in Seq(Byte) /\ p \in PackedType /\ a \in Nat /\ b \in Nat /\ a <= b /\ b <= Len(t)
  BY <1>1, PackedIs
<1>3. ReadersOn(t, readers) /\ PackedOn(t, readers, p)
  BY DEF CopyOn
<1>4. \/ /\ r.error = "none" /\ r.at \in a + 1 .. b /\ VarintAt(t, a, r.at)
         /\ r.value = ValueOf(Slice(t, a, r.at)) /\ r.value \in 0 .. Word - 1
      \/ \A n \in a .. b : ~VarintAt(t, a, n)
  <2> DEFINE x == r
  <2>1. x = DecodeVarint(t, a, b)
    OBVIOUS
  <2> HIDE DEF x, a, b, t
  <2>2. \/ /\ x = [error |-> "none", at |-> x.at, value |-> x.value]
           /\ x.at \in a + 1 .. b /\ VarintAt(t, a, x.at)
           /\ x.value = ValueOf(Slice(t, a, x.at)) /\ x.value \in 0 .. Word - 1
        \/ /\ x.error \in {"varint_too_long", "end_of_buffer"} /\ x.at = a
           /\ \A n \in a .. b : ~VarintAt(t, a, n)
    BY ONLY <1>2, <2>1, DecodeIs
  <2>3. x = [error |-> "none", at |-> x.at, value |-> x.value] => x.error = "none"
    OBVIOUS
  <2> QED
    BY <2>2, <2>3 DEF x
<1>5. \/ s.error = "none" /\ s.at \in a + 1 .. b /\ VarintAt(t, a, s.at)
      \/ \A n \in a .. b : ~VarintAt(t, a, n)
  <2> DEFINE x == s
  <2>1. x = SkipVarint(t, a, b)
    OBVIOUS
  <2> HIDE DEF x, a, b, t
  <2>2. \/ /\ x = [error |-> "none", at |-> x.at, value |-> 0]
           /\ x.at \in a + 1 .. b /\ VarintAt(t, a, x.at)
        \/ /\ x.error \in {"varint_too_long", "end_of_buffer"} /\ x.at = a
           /\ \A n \in a .. b : ~VarintAt(t, a, n)
    BY ONLY <1>2, <2>1, SkipIs
  <2>3. x = [error |-> "none", at |-> x.at, value |-> 0] => x.error = "none"
    OBVIOUS
  <2> QED
    BY <2>2, <2>3 DEF x
<1> DEFINE k == p.kind
<1>6. k \in PackedKinds /\ Slice(t, a, b) \in Whole(k)
  BY <1>1, <1>3 DEF PackedOn
<1>7. k \in {"ints", "sints"} /\ a = p.at /\ b = p.end
  BY <1>1
<1> HIDE DEF t, p, a, b, r, s, e, v, k
<1>8. PICK x \in Seq(Byte), m \in Nat :
        /\ IsElement(k, x) /\ m = a + Len(x) /\ a < m /\ m <= b
        /\ Slice(t, a, m) = x /\ Slice(t, m, b) \in Whole(k)
  BY ONLY <1>1, <1>2, <1>6, NextIsElement
<1>9. PICK u \in 0 .. Word - 1 : x = EncodeVarint(u)
  BY <1>7, <1>8 DEF IsElement
<1>10. VarintAt(t, a, m) /\ ValueOf(x) = u
  <2>1. IsVarint(x)
    BY <1>9, EncodeIs
  <2> QED
    BY <1>8, <1>9, <2>1, EncodeValue DEF VarintAt
<1>11. m \in a .. b /\ a <= m /\ m <= Len(t)
  BY <1>2, <1>8
<1>12. r.error = "none" /\ r.value = u
  <2>1. /\ r.error = "none" /\ r.at \in a + 1 .. b /\ VarintAt(t, a, r.at)
        /\ r.value = ValueOf(Slice(t, a, r.at))
    BY <1>4, <1>10, <1>11
  <2>2. r.at \in Nat /\ a <= r.at /\ r.at <= Len(t)
    BY <1>2, <2>1
  <2>3. r.at = m
    BY <1>2, <1>10, <1>11, <2>1, <2>2, VarintUnique
  <2> QED
    BY <1>8, <1>10, <2>1, <2>3
<1>13. s.error = "none" /\ s.at = m
  <2>1. s.error = "none" /\ s.at \in a + 1 .. b /\ VarintAt(t, a, s.at)
    BY <1>5, <1>10, <1>11
  <2>2. s.at \in Nat /\ a <= s.at /\ s.at <= Len(t)
    BY <1>2, <2>1
  <2>3. s.at = m
    BY <1>2, <1>10, <1>11, <2>1, <2>2, VarintUnique
  <2> QED
    BY <2>1, <2>3
<1>14. v = u
  <2>1. u \in Nat
    BY Widths
  <2>2. EncodeZigzag(DecodeZigzag(u)) = u
    BY <2>1, ZigzagBack
  <2> QED
    BY <1>12, <2>2 DEF v
<1>15. e = x
  BY <1>9, <1>14 DEF e
<1> DEFINE q == packed'
<1>16. Longer(q, p, m, x) /\ fault' = "none"
  BY <1>1, <1>12, <1>13, <1>15
<1>17. p.kind # "none" /\ p.kind = k
  BY <1>1 DEF k
<1> HIDE DEF q
<1>18. PackedOn(t, readers, q)
  BY <1>2, <1>3, <1>7, <1>8, <1>11, <1>16, <1>17, ElementOn
<1> QED
  BY <1>1, <1>3, <1>16, <1>18 DEF CopyOn, q, t

LEMMA NextFixedCopies ==
  ASSUME ReaderInv(text, readers, packed, fault), CopyOn(text, readers, packed, fault), NextFixed
  PROVE  CopyOn(text', readers', packed', fault')
<1> DEFINE t == text
           p == packed
           k == p.kind
           n == ElementSize(k)
           a == p.at
           b == p.end
           j == p.at + n
           e == SubSeq(t, p.at + 1, p.at + n)
           q == packed'
<1>1. /\ fault = "none" /\ k \in {"fixeds32", "fixeds64"} /\ text' = text /\ readers' = readers
      /\ fault' = fault /\ Longer(q, p, j, e) /\ a # b
  BY DEF NextFixed, Longer
<1>2. t \in Seq(Byte) /\ p \in PackedType /\ a \in Nat /\ b \in Nat /\ a <= b /\ b <= Len(t)
  BY <1>1, PackedIs
<1>3. ReadersOn(t, readers) /\ PackedOn(t, readers, p)
  BY DEF CopyOn
<1>4. k \in PackedKinds /\ Slice(t, a, b) \in Whole(k) /\ p.kind # "none" /\ p.kind = k
  BY <1>1, <1>3 DEF PackedOn
<1>5. e = Slice(t, a, j) /\ j = a + n /\ n = ElementSize(k) /\ a = p.at /\ b = p.end
  BY DEF Slice
<1> HIDE DEF t, p, k, n, a, b, j, e, q
<1>6. PICK x \in Seq(Byte), m \in Nat :
        /\ IsElement(k, x) /\ m = a + Len(x) /\ a < m /\ m <= b
        /\ Slice(t, a, m) = x /\ Slice(t, m, b) \in Whole(k)
  BY ONLY <1>1, <1>2, <1>4, NextIsElement
<1>7. Len(x) = n
  BY <1>1, <1>5, <1>6 DEF IsElement
<1>8. m = j /\ e = x
  BY <1>5, <1>6, <1>7
<1>9. Longer(q, p, m, x)
  BY <1>1, <1>8
<1>10. a <= m
  BY <1>2, <1>6
<1>11. PackedOn(t, readers, q)
  BY <1>2, <1>3, <1>4, <1>5, <1>6, <1>9, <1>10, ElementOn
<1> QED
  BY <1>1, <1>3, <1>11 DEF CopyOn, q, t

LEMMA PackedDoneCopies ==
  ASSUME CopyOn(text, readers, packed, fault), PackedDone
  PROVE  CopyOn(text', readers', packed', fault')
BY DEF PackedDone, CopyOn, PackedOn, NoPacked

LEMMA ReaderStepCopies ==
  ASSUME ReaderInv(text, readers, packed, fault), CopyOn(text, readers, packed, fault), ReaderNext
  PROVE  CopyOn(text', readers', packed', fault')
BY NextFieldCopies, ReturnCopies, SeekCopies, SkipCopies, GetVarintCopies, GetSvarintCopies,
   GetBoolCopies, GetFixedCopies, GetViewCopies, GetMessageCopies, GetPackedVarintsCopies,
   GetPackedFixedCopies, NextVarintCopies, NextFixedCopies, PackedDoneCopies
   DEF ReaderNext

-----------------------------------------------------------------------------
(* From the writer to the reader.                                          *)

\* As long as nothing was thrown and every promise kept, the messages that are
\* open are well written; after that, the readers copy.
CopyInv ==
  whole =>
    /\ CopyOn(text, readers, packed, fault)
    /\ outcome \in {"fine", "closed"}
    /\ outcome = "fine" => WellWritten(Frames, data, writers) /\ writers[1].kind = "message"

LEMMA OutermostStays ==
  ASSUME WriterInv(data, writers), WriterInv(data', writers'), writers[1].kind = "message",
         WriterNext, outcome = "fine", outcome' = "fine"
  PROVE  writers'[1].kind = "message"
<1>0. data \in Seq(Byte) /\ Len(data) <= Capacity /\ Top \in Nat /\ Top >= 1 /\ Len(writers) = Top
  BY TopIs
<1>1. CASE writers' = writers
  BY <1>1
<1>2. CASE Len(writers') > 1
  <2>1. Len(writers') \in Nat
    BY DEF WriterInv
  <2>2. 1 \in 1 .. Len(writers') - 1
    BY <1>2, <2>1
  <2> QED
    BY <2>2 DEF WriterInv
<1>3. ASSUME NEW p, Leave(p), p.kind = "message", Top > 1, Len(writers') = 1
      PROVE  writers'[1].kind = "message"
  <2>1. Len(Front(writers)) = Top - 1 /\ Front(writers) \in Seq(WriterType)
    <3>1. writers \in Seq(WriterType) /\ writers # <<>>
      BY <1>0, TopIs
    <3> HIDE DEF WriterType
    <3> QED
      BY <1>0, <3>1, FrontIs
  <2> DEFINE ws == Front(writers)
             ws2 == writers'
  <2> HIDE DEF ws, ws2, WriterType
  <2>2. ws2 = [ws EXCEPT ![Top - 1] = p]
    BY <1>3 DEF Leave, ws, ws2
  <2>3. ws \in Seq(WriterType) /\ Len(ws) = Top - 1
    BY <2>1 DEF ws
  <2>4. DOMAIN ws = 1 .. Top - 1 /\ Len(ws2) = Top - 1
    BY <2>2, <2>3
  <2>5. Top - 1 = 1
    BY <1>0, <1>3, <2>4 DEF ws2
  <2>6. ws2[1] = p
    BY <2>2, <2>4, <2>5
  <2> QED
    BY <1>3, <2>6 DEF ws2
<1>4. ASSUME NEW s, Adds(s) PROVE writers' = writers
  BY <1>4 DEF Adds
<1>5. ASSUME NEW t \in Tag, \/ AddVarint(t) \/ AddBool(t) \/ AddFixed(t)
                            \/ AddBytes(t) \/ AddBytesVectored(t) \/ AddPackedFixed(t)
      PROVE  writers' = writers
  BY <1>0, <1>4, <1>5, AddVarintIs, AddBoolIs, AddFixedIs, AddBytesIs, AddBytesVectoredIs, AddPackedFixedIs
<1>6. CASE AddElement
  BY <1>0, <1>1, <1>4, <1>6, AddElementIs
<1>7. ASSUME NEW t \in Tag, OpenPacked(t) \/ OpenMessage(t) PROVE Len(writers') > 1
  <2>1. t \in SubmessageTags /\ OpenSubmessage(t)
    BY <1>7 DEF OpenPacked, OpenMessage, SubmessageTags, TagsOf
  <2>2. Writer.kind = "message" /\ Opens(t)
    BY <2>1, OpenIs DEF OpenFails
  <2>3. Len(writers') = Top + 1
    BY <2>1, <2>2, OpensFrames DEF OpensFrame
  <2> QED
    BY <1>0, <2>3
<1>8. ASSUME NEW t \in Tag, OpenKnownSize(t, 1) PROVE Len(writers') > 1
  <2>1. KnownOpens(t)
    BY <1>8, OpenKnownIs DEF KnownFails
  <2> DEFINE ws == writers
             v == [[Writer EXCEPT !.rollbackPos = SizeIsKnown] EXCEPT !.pos = Len(data) + Len(HeaderOf(t))]
             x == NewWriter(Schema[t])
             w == [ws EXCEPT ![Top] = v]
  <2>2. writers' = w \o <<x>>
    BY <2>1 DEF KnownOpens
  <2> HIDE DEF v, x
  <2>3. ws \in Seq(WriterType) /\ Len(ws) = Top
    BY TopIs
  <2> HIDE DEF WriterType, ws
  <2>4. DOMAIN w = 1 .. Top /\ Len(w) = Top
    BY <1>0, <2>3
  <2> HIDE DEF w
  <2>5. Len(w \o <<x>>) = Top + 1
    BY <1>0, <2>4
  <2> QED
    BY <1>0, <2>2, <2>5
<1>9. ASSUME Top > 1, CloseSubmessage \/ RollbackSubmessage PROVE writers'[1].kind = "message"
  <2>1. Parent \in WriterType /\ Parent.kind = "message"
    BY <1>9, ParentIs
  <2>2. [Parent EXCEPT !.pos = 0].kind = "message"
    BY <2>1 DEF WriterType
  <2>3. Leave(Parent) \/ Leave([Parent EXCEPT !.pos = 0])
    BY <1>9 DEF CloseSubmessage, RollbackSubmessage, CommitSubmessage
  <2>4. Len(writers') = 1 \/ Len(writers') > 1
    <3> DEFINE n == Len(writers')
    <3>1. n \in Nat /\ n >= 1
      BY DEF WriterInv
    <3> HIDE DEF n
    <3>2. n = 1 \/ n > 1
      BY <3>1
    <3> QED
      BY <3>2 DEF n
  <2> QED
    BY <1>2, <1>3, <1>9, <2>1, <2>2, <2>3, <2>4
<1>10. CASE Destroy \/ Commit \/ Rollback
  BY <1>9, <1>10 DEF Destroy, Commit, Rollback, Assertion
<1>11. CASE Catch
  BY <1>11 DEF Catch
<1> QED
  BY <1>1, <1>2, <1>5, <1>6, <1>7, <1>8, <1>10, <1>11 DEF WriterNext

LEMMA InitCopies ==
  ASSUME Init, WireInv
  PROVE  CopyInv
<1> SUFFICES ASSUME whole PROVE CopyInv
  BY DEF CopyInv
<1>1. /\ outcome = "fine" /\ text = <<>> /\ readers = <<>> /\ packed = NoPacked /\ fault = "none"
      /\ data = <<>> /\ writers = <<NewWriter("message")>>
  BY DEF Init
<1>2. CopyOn(text, readers, packed, fault)
  BY <1>1 DEF CopyOn, ReadersOn, PackedOn, NoPacked
<1>3. writers[1].kind = "message" /\ Len(writers) = 1
  BY <1>1 DEF NewWriter
<1>4. Frames = <<[tag |-> 0, bytes |-> <<>>]>>
  BY InitInTree, Zenon DEF Tree!Init, Tree!Outermost
<1>5. Len(Frames) = 1 /\ Frames[1].bytes = <<>>
  BY <1>4
<1>6. DepthOf(writers) = 0
  BY <1>3 DEF DepthOf
<1>7. <<>> \in Whole("message")
  BY EmptyIsWhole DEF Kinds
<1>8. LastWell(data, writers, Frames[Len(Frames)].bytes)
  BY <1>3, <1>5, <1>6, <1>7 DEF LastWell
<1>9. WellWritten(Frames, data, writers)
  <2>1. 1 .. Len(Frames) - 1 = {} /\ 2 .. Len(Frames) = {}
    BY <1>5
  <2> QED
    BY <1>8, <2>1 DEF WellWritten
<1> QED
  BY <1>1, <1>2, <1>3, <1>9 DEF CopyInv

\* What is handed over is a whole message.
LEMMA HandedOver ==
  ASSUME WriterInv(data, writers), WellWritten(Frames, data, writers), writers[1].kind = "message",
         Top = 1
  PROVE  data \in Whole("message")
<1>1. /\ Len(writers) = 1 /\ data \in Seq(Byte) /\ Len(data) \in Nat /\ Writer = writers[1]
  BY TopIs DEF Writer
<1>2. DepthOf(writers) = 0
  BY <1>1 DEF DepthOf
<1>3. Frames[1].bytes \in Whole("message")
  BY <1>1, <1>2, MarkLessWell
<1> DEFINE d == data
           ws == writers
           n == Len(data)
<1>4. Frames[1] = FrameOf(TagOf(d, ws, 1), Slice(d, StartOf(ws, 1), StopOf(d, ws, 1)))
  <2>1. 1 \in 1 .. DepthOf(ws) + 1
    BY <1>2
  <2> QED
    BY <2>1, FramesAre, FramesOfIs
<1>5. StartOf(ws, 1) = 0 /\ StopOf(d, ws, 1) = n
  BY <1>2 DEF StartOf, StopOf
<1>6. Slice(d, 0, n) = d
  BY <1>1, SliceAll
<1> HIDE DEF d, ws, n
<1>7. Frames[1].bytes = d
  BY <1>4, <1>5, <1>6 DEF FrameOf
<1> QED
  BY <1>3, <1>7 DEF d

LEMMA StepCopies ==
  ASSUME WireInv, WireInv', CopyInv, [Step]_vars
  PROVE  CopyInv'
<1>0. /\ WriterInv(data, writers) /\ ReaderInv(text, readers, packed, fault)
      /\ WriterInv(data', writers') /\ ReaderInv(text', readers', packed', fault')
  BY DEF WireInv
<1>1. CASE Write
  <2> SUFFICES ASSUME whole' PROVE CopyInv'
    BY DEF CopyInv
  <2>1. WriterNext /\ UNCHANGED readerVars /\ whole /\ outcome' = "fine" /\ ~PromiseBroken
    BY <1>1 DEF Write
  <2>2. outcome = "fine"
    BY <2>1, WriterActs DEF CopyInv
  <2>3. CopyOn(text, readers, packed, fault) /\ WellWritten(Frames, data, writers)
        /\ writers[1].kind = "message"
    BY <2>1, <2>2 DEF CopyInv
  <2>4. text' = text /\ readers' = readers /\ packed' = packed /\ fault' = fault
    BY <2>1 DEF readerVars
  <2>5. CopyOn(text', readers', packed', fault')
    BY <2>3, <2>4
  <2>6. WellWritten(Frames', data', writers')
    BY <1>0, <2>1, <2>2, <2>3, WriterStepWell
  <2>7. writers'[1].kind = "message"
    BY <1>0, <2>1, <2>2, <2>3, OutermostStays
  <2> QED
    BY <2>1, <2>5, <2>6, <2>7 DEF CopyInv
<1>2. CASE HandOver
  <2> SUFFICES ASSUME whole' PROVE CopyInv'
    BY DEF CopyInv
  <2>1. /\ outcome = "fine" /\ Top = 1 /\ outcome' = "closed" /\ text' = data /\ whole
        /\ readers' = <<NewReader(0, Len(data))>> /\ packed' = packed /\ fault' = fault
    BY <1>2 DEF HandOver
  <2>2. packed = NoPacked /\ fault = "none"
    BY <2>1 DEF WireInv
  <2>3. data \in Whole("message")
    BY <1>0, <2>1, HandedOver DEF CopyInv
  <2> DEFINE d == data
             n == Len(data)
             v == NewReader(0, n)
  <2>4. d \in Seq(Byte) /\ n \in Nat
    BY <1>0 DEF WriterInv
  <2>5. Slice(d, 0, n) = d
    BY <2>4, SliceAll
  <2>6. ReadsOn(d, v)
    <3>1. 0 \in Nat /\ 0 <= n /\ n <= Len(d) /\ Slice(d, 0, n) \in Whole("message") /\ v = NewReader(0, n)
      BY <2>3, <2>4, <2>5
    <3> HIDE DEF v, n, d
    <3> QED
      BY <2>4, <3>1, NewReaderOn
  <2>7. readers' = <<v>> /\ text' = d
    BY <2>1
  <2> HIDE DEF v, d, n
  <2>8. ReadersOn(text', readers')
    BY <2>6, <2>7 DEF ReadersOn
  <2>9. PackedOn(text', readers', packed')
    BY <2>1, <2>2 DEF PackedOn, NoPacked
  <2> QED
    BY <2>1, <2>2, <2>8, <2>9 DEF CopyInv, CopyOn
<1>3. CASE ReadOn
  <2> SUFFICES ASSUME whole' PROVE CopyInv'
    BY DEF CopyInv
  <2>1. ReaderNext /\ whole /\ outcome' = outcome
    BY <1>3 DEF ReadOn, writerVars
  <2>2. outcome = "closed"
    BY <2>1, ReaderActs DEF WireInv, NoPacked
  <2>3. CopyOn(text', readers', packed', fault')
    BY <1>0, <2>1, ReaderStepCopies DEF CopyInv
  <2> QED
    BY <2>1, <2>2, <2>3 DEF CopyInv
<1>4. CASE UNCHANGED vars
  <2>1. /\ data' = data /\ writers' = writers /\ outcome' = outcome /\ text' = text
        /\ readers' = readers /\ packed' = packed /\ fault' = fault /\ (whole' <=> whole)
    BY <1>4 DEF vars, writerVars, readerVars
  <2>2. Frames' = Frames
    BY <1>0, <2>1, FramesAre DEF Frames, Depth, Top
  <2> QED
    BY <2>1, <2>2 DEF CopyInv
<1> QED
  BY <1>1, <1>2, <1>3, <1>4 DEF Step, Ended

LEMMA CopiesAreRead ==
  ASSUME WireInv, CopyInv
  PROVE  ReadsWhatWasWritten
<1> SUFFICES ASSUME whole
             PROVE  /\ fault = "none"
                    /\ \A r \in ToSet(readers) :
                         ~r.due => AllBytes(r.got) = SubSeq(text, r.begin + 1, r.at)
                    /\ packed.kind # "none" =>
                         FlattenSeq(packed.elements) =
                           SubSeq(text, packed.end - Len(Last(Reader.got).payload) + 1, packed.at)
  BY DEF ReadsWhatWasWritten
<1>1. fault = "none" /\ ReadersOn(text, readers) /\ PackedOn(text, readers, packed)
  BY DEF CopyInv, CopyOn
<1>2. ASSUME NEW r \in ToSet(readers), ~r.due
      PROVE  AllBytes(r.got) = SubSeq(text, r.begin + 1, r.at)
  <2>1. PICK k \in 1 .. Len(readers) : r = readers[k]
    <3>1. DOMAIN readers = 1 .. Len(readers)
      BY DEF WireInv, ReaderInv
    <3> QED
      BY <3>1 DEF ToSet
  <2>2. ReadsOn(text, r)
    BY <1>1, <2>1 DEF ReadersOn
  <2> QED
    BY <1>2, <2>2 DEF ReadsOn, Start, Rewritten, Slice
<1>3. ASSUME packed.kind # "none"
      PROVE  FlattenSeq(packed.elements) =
               SubSeq(text, packed.end - Len(Last(Reader.got).payload) + 1, packed.at)
  <2>1. PICK b \in Nat, y \in Seq(Byte) :
          /\ HasLast(readers, y) /\ b = packed.end - Len(y)
          /\ FlattenSeq(packed.elements) = Slice(text, b, packed.at)
    BY <1>1, <1>3 DEF PackedOn
  <2>2. Last(Reader.got).payload = y
    BY <2>1 DEF HasLast, Reader
  <2> QED
    BY <2>1, <2>2 DEF Slice
<1> QED
  BY <1>1, <1>2, <1>3

\* Whatever is written without an exception and with the promised sizes, and in
\* whichever way it is read, nothing is thrown, and the fields that were got,
\* written again, are the bytes that were read (basic_pbf_writer.hpp,
\* pbf_reader.hpp, iterators.hpp).
THEOREM ReadingGivesBack == Spec => []ReadsWhatWasWritten
<1>1. Init => CopyInv
  BY InitInv, InitCopies
<1>2. WireInv /\ WireInv' /\ CopyInv /\ [Step]_vars => CopyInv'
  BY StepCopies
<1>3. WireInv /\ CopyInv => ReadsWhatWasWritten
  BY CopiesAreRead
<1> QED
  BY <1>1, <1>2, <1>3, WireInvariant, PTL DEF Spec

===============================================================================
