--------------------------------- MODULE Wire ---------------------------------
(***************************************************************************)
(* A writer and a reader: what a pbf_writer has put into its buffer, or    *)
(* the text of some other program, is read by a pbf_reader.                *)
(***************************************************************************)
EXTENDS PbfWriter, PbfReader

CONSTANT Foreign  \* texts of other programs

\* The program that reads a message has its schema.
ASSUME WireAssumption ==
  /\ Foreign \subseteq Seq(Byte)
  /\ \A t \in Tag : t \in DOMAIN Expected /\ Expected[t] = Schema[t]

VARIABLE whole  \* nothing was thrown, and packed fields have the size they were opened with

vars == <<writerVars, readerVars, whole>>

\* A packed field of a known size that is left with another one.
PromiseBroken ==
  /\ Len(writers') < Top
  /\ Parent.rollbackPos = SizeIsKnown
  /\ Len(data) # Parent.pos + Width(Writer.kind)

Write ==
  /\ WriterNext
  /\ whole' = (whole /\ outcome' = "fine" /\ ~PromiseBroken)
  /\ UNCHANGED readerVars

HandOver ==
  /\ outcome = "fine" /\ Top = 1
  /\ outcome' = "closed"
  /\ text' = data /\ readers' = <<NewReader(0, Len(data))>>
  /\ UNCHANGED <<data, writers, wanted, packed, fault, whole>>

ReadOn == ReaderNext /\ UNCHANGED <<writerVars, whole>>

Init ==
  /\ data = <<>> /\ writers = <<NewWriter("message")>>
  /\ wanted = Anything /\ packed = NoPacked /\ fault = "none"
  /\ \/ outcome = "fine" /\ text = <<>> /\ readers = <<>> /\ whole = TRUE
     \/ /\ outcome = "closed" /\ text \in Foreign /\ whole = FALSE
        /\ readers = <<NewReader(0, Len(text))>>

Ended ==
  /\ \/ outcome = "aborted"
     \/ outcome = "closed" /\ (readers = <<>> \/ fault # "none")
  /\ UNCHANGED vars

Step == Write \/ HandOver \/ ReadOn \/ Ended

Spec == Init /\ [][Step]_vars

-----------------------------------------------------------------------------
\* The writers with a submessage that has reserved bytes: all but the innermost
\* one, and not the one around it if that knows the size.
Depth == IF Top > 1 /\ writers[Top - 1].rollbackPos = SizeIsKnown THEN Top - 2 ELSE Top - 1

\* The open messages, as if each was in a string of its own.
Frames ==
  [i \in 1 .. Depth + 1 |->
     LET outer == IF i = 1 THEN NewWriter("message") ELSE writers[i - 1]
         key == DecodeVarint(data, outer.rollbackPos, Len(data)).value
     IN [tag |-> IF i = 1 THEN 0 ELSE key \div 8,
         bytes |-> SubSeq(data, outer.pos + 1,
                          IF i > Depth THEN Len(data) ELSE writers[i].rollbackPos)]]

TagsOf(kinds) == {t \in Tag : Schema[t] \in kinds}
Field(t, type, payload) == FieldBytes([tag |-> t, type |-> type, payload |-> payload])

FieldPieces ==
  UNION {
    {Field(t, VarintType, EncodeVarint(VarintOf(Schema[t], v))) :
       t \in TagsOf({"int", "sint"}), v \in Ints},
    {Field(t, VarintType, <<b>>) : t \in TagsOf({"bool"}), b \in {0, 1}},
    UNION {{Field(t, FixedType(Schema[t]), v) : v \in FixedValues(Width(Schema[t]))} :
             t \in TagsOf({"fixed32", "fixed64"})},
    {Field(t, LengthDelimited, s) : t \in TagsOf({"bytes"}), s \in Contents},
    {Field(t, LengthDelimited, s1 \o s2) : t \in TagsOf({"bytes"}), s1 \in Contents, s2 \in Contents},
    UNION {{Field(t, LengthDelimited, v \o v) : v \in FixedValues(Width(Schema[t]))} :
             t \in TagsOf({"fixeds32", "fixeds64"})}}

ElementPieces ==
  FixedValues(Fixed32) \cup FixedValues(Fixed64) \cup
  UNION {{EncodeVarint(VarintOf(kind, v)) : v \in Ints} : kind \in {"ints", "sints"}}

\* A size that is known is written at once.
HeaderPieces ==
  {EncodeVarint(Key(t, LengthDelimited)) \o EncodeVarint(Width(Schema[t])) :
     t \in TagsOf({"fixeds32", "fixeds64"})}

AllPieces == FieldPieces \cup ElementPieces \cup HeaderPieces
SubmessageTags == TagsOf(PackedKinds \cup {"message"})

Tree == INSTANCE MessageTree WITH
  frames <- Frames, Pieces <- AllPieces, Tags <- SubmessageTags

\* The one buffer with its reserved bytes, remembered positions and erasures
\* holds what strings of their own would, in whatever order submessages are
\* opened, filled, committed, rolled back, destroyed or torn by an exception
\* (basic_pbf_writer.hpp:175-221, 299-377).
ImplementsTree == Tree!Spec

AllBytes(fields) == FlattenSeq([i \in DOMAIN fields |-> FieldBytes(fields[i])])

\* What has been read of a written message, in whichever way, is what was
\* written, and reading it throws nothing: written again it gives the same
\* bytes (basic_pbf_writer.hpp, pbf_reader.hpp, iterators.hpp).
ReadsWhatWasWritten ==
  whole =>
    /\ fault = "none"
    /\ \A r \in ToSet(readers) :
         ~r.due => AllBytes(r.got) = SubSeq(text, r.begin + 1, r.at)
    /\ packed.kind # "none" =>
         FlattenSeq(packed.elements) =
           SubSeq(text, packed.end - Len(Last(Reader.got).payload) + 1, packed.at)

-----------------------------------------------------------------------------
\* The grammar of the wire format.
IsVarint(s) ==
  /\ Len(s) \in 1 .. MaxVarintLength
  /\ \A i \in DOMAIN s : Continues(s[i]) <=> i < Len(s)
Values(s) ==  \* of the last bytes
  LET value[n \in 0 .. Len(s)] ==
        IF n = 0 THEN 0 ELSE (s[Len(s) - n + 1] % Group) + Group * value[n - 1]
  IN value
ValueOf(s) == Values(s)[Len(s)] % Word

From(s, k) == SubSeq(s, k, Len(s))
\* A length and n bytes.
IsDelimited(s, n) ==
  \E k \in DOMAIN s : LET l == SubSeq(s, 1, k) IN
    IsVarint(l) /\ ValueOf(l) % ShortWord = n /\ n = Len(s) - k
\* A field whose payload has n bytes.
HasField(s, n) ==
  \E k \in DOMAIN s :
    LET key == SubSeq(s, 1, k)
        value == ValueOf(key) % ShortWord
        rest == From(s, k + 1)
    IN /\ IsVarint(key) /\ ValidTag(value \div 8)
       /\ \/ value % 8 = VarintType /\ IsVarint(rest) /\ n = Len(rest)
          \/ value % 8 = Fixed32Type /\ n = Fixed32 /\ n = Len(rest)
          \/ value % 8 = Fixed64Type /\ n = Fixed64 /\ n = Len(rest)
          \/ value % 8 = LengthDelimited /\ IsDelimited(rest, n)
IsField(s) == \E n \in 0 .. Len(s) : HasField(s, n)

\* In any text, a reader is between two fields whenever it has got or skipped
\* one: all ways to read a field end at the same place, and within the view
\* (pbf_reader.hpp:76-140, 284-480).
ConsumesAField ==
  \A r \in ToSet(readers) :
    /\ r.begin <= r.at /\ r.at <= r.end
    /\ ~r.due /\ fault = "none" /\ r.got # <<>> => IsField(SubSeq(text, r.from + 1, r.at))

\* A text is only refused where it has no field, or no element of a packed
\* field, or where the length of a packed field is not a multiple of the size
\* of its elements (pbf_reader.hpp:88-97, 115-120, 284-307).
ThrowsForCause ==
  fault # "none" =>
    IF packed.kind # "none"
    THEN \A n \in packed.at .. packed.end : ~IsVarint(SubSeq(text, packed.at + 1, n))
    ELSE \A to \in Reader.from .. Reader.end : \A n \in 0 .. to :
           HasField(SubSeq(text, Reader.from + 1, to), n) =>
             fault = "invalid_length" /\ n % ElementSize(KindOf(Reader)) # 0

\* The size() of a packed field, taken from its bytes before any element has
\* been decoded, is the number of elements that the iteration will deliver
\* unless it throws, and never less (iterators.hpp:107-109, 309-321).
PackedSizeExact ==
  packed.kind # "none" =>
    /\ Len(packed.elements) <= packed.size
    /\ packed.at = packed.end /\ fault = "none" => Len(packed.elements) = packed.size

=============================================================================
