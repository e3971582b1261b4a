------------------------------ MODULE PbfReader -------------------------------
(***************************************************************************)
(* pbf_reader: a program walks over the fields of a message, gets or skips *)
(* each of them, and opens submessages and packed fields, which are views  *)
(* of the same text.  pbf_message is the same with tags of an enum type.   *)
(*                                                                         *)
(* The text may be anything.  What is thrown ends the walk.  A program     *)
(* knows which type it may ask for: it looks at tag_and_type() and skips   *)
(* what it does not know.                                                  *)
(***************************************************************************)
EXTENDS WireFormat

CONSTANTS
  Expected,  \* Tag |-> the kind of its field, for the tags the program knows
  Sought     \* what it calls next() with: a tag and the types it may have

VARIABLES
  text,     \* what the readers are views of
  readers,  \* the readers in use, each one for a submessage of the one before it
  wanted,   \* what next(next_tag) or next(next_tag, type) is looking for, or Anything
  packed,   \* the iterator over a packed field that is in use, if there is one
  fault     \* what was thrown, or "none"

readerVars == <<text, readers, wanted, packed, fault>>

\* m_data, m_end, m_tag and m_wire_type; from is where the present field
\* begins, due says that it has not been got or skipped yet, and got are the
\* fields that were.
NewReader(begin, end) ==
  [begin |-> begin, at |-> begin, end |-> end, tag |-> 0, type |-> 99,
   from |-> begin, due |-> FALSE, got |-> <<>>]
Anything == [tag |-> 0, types |-> WireTypes]
NoPacked == [kind |-> "none"]

Reader == readers[Len(readers)]
Update(r) == readers' = [readers EXCEPT ![Len(readers)] = r]

Walking == fault = "none" /\ packed.kind = "none" /\ readers # <<>>
Idle == Walking /\ ~Reader.due
Due(type) == Walking /\ Reader.due /\ wanted = Anything /\ Reader.type = type
Throw(e) == fault' = e

Matches == Reader.tag = wanted.tag /\ Reader.type \in wanted.types

KindOf(r) == IF r.tag \in DOMAIN Expected THEN Expected[r.tag] ELSE "unknown"

-----------------------------------------------------------------------------
\* next() on a message that has an end: the key is read as 32 bits.
NextField ==
  /\ Idle /\ Reader.at # Reader.end
  /\ LET r == DecodeVarint(text, Reader.at, Reader.end)
         tag == (r.value % ShortWord) \div 8
         type == r.value % 8
     IN IF r.error # "none"
        THEN /\ Update([Reader EXCEPT !.from = Reader.at])
             /\ Throw(r.error)
        ELSE /\ Update([Reader EXCEPT !.at = r.at, !.tag = tag, !.from = Reader.at,
                                      !.type = IF ValidTag(tag) THEN type ELSE @,
                                      !.due = TRUE])
             /\ IF ~ValidTag(tag) THEN Throw("invalid_tag")
                ELSE IF type \notin WireTypes THEN Throw("unknown_pbf_wire_type")
                ELSE UNCHANGED fault
  /\ UNCHANGED <<text, wanted, packed>>

\* next() at the end returns FALSE: the program is done with this reader.
NextReturnsFalse ==
  /\ Idle /\ Reader.at = Reader.end
  /\ readers' = Front(readers)
  /\ wanted' = Anything
  /\ UNCHANGED <<text, packed, fault>>

\* next(next_tag) and next(next_tag, type): calls of next() and skip() until the
\* field is found.
Seek ==
  /\ Idle /\ wanted = Anything
  /\ wanted' \in Sought
  /\ UNCHANGED <<text, readers, packed, fault>>

Found ==
  /\ Walking /\ Reader.due /\ Matches
  /\ wanted' = Anything
  /\ UNCHANGED <<text, readers, packed, fault>>

-----------------------------------------------------------------------------
\* What reading a field comes to: the reader is at r.at or has thrown.
Got(r, payload) ==
  /\ IF r.error = "none"
     THEN /\ Update([Reader EXCEPT !.at = r.at, !.due = FALSE,
                       !.tag = IF Reader.type = VarintType THEN @ ELSE 0,
                       !.got = Append(@, [tag |-> Reader.tag, type |-> Reader.type,
                                          payload |-> payload])])
          /\ UNCHANGED fault
     ELSE Update([Reader EXCEPT !.at = r.at]) /\ Throw(r.error)
  /\ UNCHANGED text

SkipBytes(p, n) == IF Reader.end - p < n THEN Fails("end_of_buffer", p) ELSE Read(p + n, 0)

\* get_len_and_skip, or get_length and skip_bytes: the value is the length.
\* When the text is too short the reader stays behind the length.
LenAndSkip ==
  LET l == DecodeVarint(text, Reader.at, Reader.end)
      n == l.value % ShortWord
  IN IF l.error # "none" THEN l
     ELSE IF Reader.end - l.at < n THEN Fails("end_of_buffer", l.at)
     ELSE Read(l.at + n, n)

\* The last n bytes in front of p.
Behind(p, n) == SubSeq(text, p - n + 1, p)

\* Mutant: a field of eight bytes is skipped like one of four.
SkipNarrow ==
  CASE Reader.type = VarintType -> SkipVarint(text, Reader.at, Reader.end)
    [] Reader.type = Fixed64Type -> SkipBytes(Reader.at, Fixed32)
    [] Reader.type = LengthDelimited -> LenAndSkip
    [] Reader.type = Fixed32Type -> SkipBytes(Reader.at, Fixed32)

SkipResult ==
  CASE Reader.type = VarintType -> SkipVarint(text, Reader.at, Reader.end)
    [] Reader.type = Fixed64Type -> SkipBytes(Reader.at, Fixed64)
    [] Reader.type = LengthDelimited -> LenAndSkip
    [] Reader.type = Fixed32Type -> SkipBytes(Reader.at, Fixed32)

Skip ==
  /\ Walking /\ Reader.due /\ ~Matches
  /\ LET r == SkipResult IN
     Got(r, IF Reader.type = LengthDelimited THEN Behind(r.at, r.value)
            ELSE SubSeq(text, Reader.at + 1, r.at))
  /\ UNCHANGED <<wanted, packed>>

\* get_int32, get_uint64, get_enum and so on; the payload is what a writer
\* makes of the value.
GetVarint ==
  /\ Due(VarintType) /\ KindOf(Reader) = "int"
  /\ LET r == DecodeVarint(text, Reader.at, Reader.end) IN Got(r, EncodeVarint(r.value))
  /\ UNCHANGED <<wanted, packed>>

GetSvarint ==
  /\ Due(VarintType) /\ KindOf(Reader) = "sint"
  /\ LET r == DecodeVarint(text, Reader.at, Reader.end)
         v == DecodeZigzag(r.value)
     IN Got(r, EncodeVarint(EncodeZigzag(v)))
  /\ UNCHANGED <<wanted, packed>>

\* The value is looked at before it is known that there is one; what follows
\* the message does not matter, as skip_varint then throws.
GetBool ==
  /\ Due(VarintType) /\ KindOf(Reader) = "bool"
  /\ LET r == SkipVarint(text, Reader.at, Reader.end) IN
     Got(r, <<IF Reader.at < Reader.end /\ text[Reader.at + 1] # 0 THEN 1 ELSE 0>>)
  /\ UNCHANGED <<wanted, packed>>

\* get_fixed32, get_sfixed64, get_float, get_double and so on.
GetFixed ==
  /\ \/ Due(Fixed32Type) /\ KindOf(Reader) = "fixed32"
     \/ Due(Fixed64Type) /\ KindOf(Reader) = "fixed64"
  /\ LET n == IF Reader.type = Fixed32Type THEN Fixed32 ELSE Fixed64
         r == SkipBytes(Reader.at, n)
     IN Got(r, Behind(r.at, n))
  /\ UNCHANGED <<wanted, packed>>

\* get_view, get_data, get_bytes and get_string.
GetView ==
  /\ Due(LengthDelimited) /\ KindOf(Reader) = "bytes"
  /\ LET r == LenAndSkip IN Got(r, Behind(r.at, r.value))
  /\ UNCHANGED <<wanted, packed>>

\* get_message: a reader for the view.
GetMessage ==
  /\ Due(LengthDelimited) /\ KindOf(Reader) = "message"
  /\ LET r == LenAndSkip
         p == [Reader EXCEPT !.at = r.at, !.due = FALSE, !.tag = 0,
                             !.got = Append(@, [tag |-> Reader.tag, type |-> Reader.type,
                                                payload |-> Behind(r.at, r.value)])]
     IN IF r.error = "none"
        THEN /\ readers' = Append(Front(readers), p) \o <<NewReader(r.at - r.value, r.at)>>
             /\ UNCHANGED fault
        ELSE Update([Reader EXCEPT !.at = r.at]) /\ Throw(r.error)
  /\ UNCHANGED <<text, wanted, packed>>

-----------------------------------------------------------------------------
ElementSize(kind) == IF kind = "fixeds32" THEN Fixed32 ELSE Fixed64

\* Mutant: every byte counts.
CountBytes(begin, end) == end - begin

\* const_varint_iterator::distance: the bytes without continuation bit.
CountVarints(begin, end) == Cardinality({p \in begin .. end - 1 : ~Continues(text[p + 1])})

\* get_packed: iterators over the view, whose size() is known before any of
\* its elements has been looked at.
GetPackedVarints ==
  /\ Due(LengthDelimited) /\ KindOf(Reader) \in {"ints", "sints"}
  /\ LET r == LenAndSkip IN
     /\ Got(r, Behind(r.at, r.value))
     /\ packed' = IF r.error # "none" THEN packed
                  ELSE [kind |-> KindOf(Reader), at |-> r.at - r.value, end |-> r.at,
                        size |-> CountVarints(r.at - r.value, r.at), elements |-> <<>>]
  /\ UNCHANGED wanted

\* packed_fixed, which throws if the length is not a multiple of the size.
GetPackedFixed ==
  /\ Due(LengthDelimited) /\ KindOf(Reader) \in {"fixeds32", "fixeds64"}
  /\ LET l == LenAndSkip
         n == ElementSize(KindOf(Reader))
         r == IF l.error = "none" /\ l.value % n # 0
              THEN [l EXCEPT !.error = "invalid_length"] ELSE l
     IN /\ Got(r, Behind(r.at, r.value))
        /\ packed' = IF r.error # "none" THEN packed
                     ELSE [kind |-> KindOf(Reader), at |-> r.at - r.value, end |-> r.at,
                           size |-> r.value \div n, elements |-> <<>>]
  /\ UNCHANGED wanted

\* Dereferencing a varint iterator and incrementing it.
NextVarint ==
  /\ fault = "none" /\ packed.kind \in {"ints", "sints"} /\ packed.at # packed.end
  /\ LET r == DecodeVarint(text, packed.at, packed.end)
         v == IF packed.kind = "sints" THEN EncodeZigzag(DecodeZigzag(r.value)) ELSE r.value
         s == SkipVarint(text, packed.at, packed.end)
     IN IF r.error # "none" THEN Throw(r.error) /\ UNCHANGED packed
        ELSE /\ packed' = [packed EXCEPT !.at = s.at,
                                         !.elements = Append(@, EncodeVarint(v))]
             /\ fault' = s.error
  /\ UNCHANGED <<text, readers, wanted>>

\* The same for a fixed iterator, which looks at no end.
NextFixed ==
  /\ fault = "none" /\ packed.kind \in {"fixeds32", "fixeds64"} /\ packed.at # packed.end
  /\ LET n == ElementSize(packed.kind) IN
     packed' = [packed EXCEPT !.at = @ + n,
                              !.elements = Append(@, SubSeq(text, packed.at + 1, packed.at + n))]
  /\ UNCHANGED <<text, readers, wanted, fault>>

\* The iterator equals end().
PackedDone ==
  /\ fault = "none" /\ packed.kind # "none" /\ packed.at = packed.end
  /\ packed' = NoPacked
  /\ UNCHANGED <<text, readers, wanted, fault>>

-----------------------------------------------------------------------------
ReaderNext ==
  \/ NextField \/ NextReturnsFalse \/ Seek \/ Found
  \/ Skip \/ GetVarint \/ GetSvarint \/ GetBool \/ GetFixed \/ GetView \/ GetMessage
  \/ GetPackedVarints \/ GetPackedFixed \/ NextVarint \/ NextFixed \/ PackedDone

=============================================================================
