------------------------------ MODULE PbfWriter -------------------------------
(***************************************************************************)
(* basic_pbf_writer: how fields, packed fields and submessages inside each *)
(* other are written into one buffer from front to back.  The length of a  *)
(* submessage is not known when it is opened, so bytes are reserved for it *)
(* and those it does not need are erased when it is closed.                *)
(*                                                                         *)
(* The buffer has a fixed capacity (fixed_size_buffer_adaptor): whatever   *)
(* is added is appended in chunks, and the first one that does not fit     *)
(* throws std::length_error.  The writers that are destroyed while it      *)
(* unwinds still close their submessages.                                  *)
(*                                                                         *)
(* A program calls only the writer that was opened last.  pbf_builder is   *)
(* the same with tags of an enum type.                                     *)
(***************************************************************************)
EXTENDS WireFormat

CONSTANTS
  Schema,        \* Tag |-> the kind of its field
  Ints,          \* the integers that are written
  Contents,      \* the strings that are written
  Capacity,      \* of the buffer
  ReserveBytes   \* reserve_bytes, 5: enough for the longest length

Tag == DOMAIN Schema
ScalarKinds == {"int", "sint", "bool", "fixed32", "fixed64", "bytes"}
PackedKinds == {"ints", "sints", "fixeds32", "fixeds64"}

\* Tags have 29 bits, integers and their zigzags 64, and lengths 32.
\* erase_range of a fixed-size buffer asserts that there is something to erase:
\* a length that needs all of the reserved bytes is beyond the capacity.
ASSUME WriterAssumption ==
  /\ Tag \subseteq 1 .. ShortWord \div 8 - 1
  /\ \A t \in Tag : ValidTag(t) /\ Schema[t] \in ScalarKinds \cup PackedKinds \cup {"message"}
  /\ Ints \subseteq 0 - Word \div 2 .. Word \div 2 - 1
  /\ Contents \subseteq Seq(Byte)
  /\ \A s1, s2 \in Contents : Len(s1) + Len(s2) < ShortWord
  /\ 2 * Fixed32 < ShortWord /\ 2 * Fixed64 < ShortWord
  /\ Capacity \in Nat /\ Capacity < Power[ReserveBytes - 1]
  /\ ReserveBytes = LengthOfVarint(ShortWord - 1)

VARIABLES
  data,     \* the bytes in the buffer
  writers,  \* the writers that are alive, each one open in the one before it
  outcome   \* "fine", "threw" while an exception unwinds, or "aborted"

writerVars == <<data, writers, outcome>>

SizeIsKnown == -1  \* as a m_rollback_pos

NewWriter(kind) == [rollbackPos |-> 0, pos |-> 0, kind |-> kind]
Top == Len(writers)
Writer == writers[Top]

-----------------------------------------------------------------------------
\* What is appended at once, all of it or nothing.
Chunks(bytes) == [i \in DOMAIN bytes |-> <<bytes[i]>>]
KeyChunks(t, type) == Chunks(EncodeVarint(Key(t, type)))
LengthChunks(t, n) == KeyChunks(t, LengthDelimited) \o Chunks(EncodeVarint(n))

\* append, append_zeros and push_back, one after the other.
Appended(chunks) ==
  LET buffer[n \in 0 .. Len(chunks)] ==
        IF n = 0 THEN [bytes |-> data, full |-> FALSE]
        ELSE IF buffer[n - 1].full \/ Len(buffer[n - 1].bytes) + Len(chunks[n]) > Capacity
        THEN [buffer[n - 1] EXCEPT !.full = TRUE]
        ELSE [buffer[n - 1] EXCEPT !.bytes = @ \o chunks[n]]
  IN buffer
AppendAll(chunks) == Appended(chunks)[Len(chunks)]

\* All functions that write assert that m_pos is 0.  It is not if a submessage
\* is open, nor if one was opened with a known size (close_submessage keeps the
\* m_pos of such a one).  A build without assertions goes on.
Assertion(broken) == broken /\ outcome' = "aborted" /\ UNCHANGED <<data, writers>>
Stale == Writer.pos # 0

AddChunks(kind, chunks) ==
  /\ outcome = "fine" /\ Writer.kind = kind
  /\ \/ Assertion(Stale)
     \/ /\ data' = AppendAll(chunks).bytes
        /\ outcome' = IF AppendAll(chunks).full THEN "threw" ELSE "fine"
        /\ UNCHANGED writers

-----------------------------------------------------------------------------
\* The elements of fixed size, little-endian.
FixedValues(n) == {[i \in 1 .. n |-> IF i = 1 THEN v % Group ELSE 0] : v \in Ints}
Width(kind) == IF kind \in {"fixed32", "fixeds32"} THEN Fixed32 ELSE Fixed64
FixedType(kind) == IF kind = "fixed32" THEN Fixed32Type ELSE Fixed64Type

\* add_tagged_varint: add_int32, add_uint64, add_enum and so on; the signed
\* ones are converted to uint64_t or by zigzag.
VarintOf(kind, v) == IF kind \in {"sint", "sints"} THEN EncodeZigzag(v) ELSE Unsigned(v)
AddVarint(t) ==
  /\ Schema[t] \in {"int", "sint"}
  /\ \E v \in Ints :
       AddChunks("message", KeyChunks(t, VarintType)
                            \o Chunks(EncodeVarint(VarintOf(Schema[t], v))))

AddBool(t) ==
  /\ Schema[t] = "bool"
  /\ \E b \in {0, 1} : AddChunks("message", KeyChunks(t, VarintType) \o <<<<b>>>>)

AddFixed(t) ==
  /\ Schema[t] \in {"fixed32", "fixed64"}
  /\ \E v \in FixedValues(Width(Schema[t])) :
       AddChunks("message", KeyChunks(t, FixedType(Schema[t])) \o <<v>>)

\* add_bytes, add_string and add_message.
AddBytes(t) ==
  /\ Schema[t] = "bytes"
  /\ \E s \in Contents : AddChunks("message", LengthChunks(t, Len(s)) \o <<s>>)

AddBytesVectored(t) ==
  /\ Schema[t] = "bytes"
  /\ \E s1, s2 \in Contents :
       AddChunks("message", LengthChunks(t, Len(s1) + Len(s2)) \o <<s1, s2>>)

\* add_packed_fixed for forward iterators, which knows the length beforehand.
AddPackedFixed(t) ==
  /\ Schema[t] \in {"fixeds32", "fixeds64"}
  /\ LET w == Width(Schema[t]) IN
     \E l \in {<<v, v>> : v \in FixedValues(w)} :
       AddChunks("message", LengthChunks(t, 2 * w) \o l)

\* packed_field::add_element
AddElement ==
  \/ \E kind \in {"ints", "sints"}, v \in Ints :
       AddChunks(kind, Chunks(EncodeVarint(VarintOf(kind, v))))
  \/ \E kind \in {"fixeds32", "fixeds64"} : \E v \in FixedValues(Width(kind)) :
       AddChunks(kind, <<v>>)

-----------------------------------------------------------------------------
Zeros == [i \in 1 .. ReserveBytes |-> 0]

\* The constructor with a parent, and its open_submessage.  If it throws there
\* is no new writer, but m_rollback_pos of the parent has changed.
OpenSubmessage(t) ==
  /\ outcome = "fine" /\ Writer.kind = "message"
  /\ \/ Assertion(Stale)
     \/ LET b == AppendAll(KeyChunks(t, LengthDelimited) \o <<Zeros>>)
            w == [Writer EXCEPT !.rollbackPos = Len(data)]
        IN /\ data' = b.bytes
           /\ IF b.full
              THEN outcome' = "threw" /\ writers' = [writers EXCEPT ![Top] = w]
              ELSE /\ writers' = [writers EXCEPT ![Top] = [w EXCEPT !.pos = Len(b.bytes)]]
                                 \o <<NewWriter(Schema[t])>>
                   /\ UNCHANGED outcome

\* add_packed_bool, add_packed_int32, add_packed_sint64 and so on open a writer,
\* give it the elements and destroy it, as a program does with a packed_field;
\* add_packed_fixed does so for input iterators.
OpenPacked(t) == Schema[t] \in PackedKinds /\ OpenSubmessage(t)

OpenMessage(t) == Schema[t] = "message" /\ OpenSubmessage(t)

\* The same for a size that is known: only packed_field_fixed passes one.
OpenKnownSize(t, n) ==
  /\ outcome = "fine" /\ Writer.kind = "message"
  /\ Schema[t] \in {"fixeds32", "fixeds64"}
  /\ \/ Assertion(Stale)
     \/ LET b == AppendAll(LengthChunks(t, n * Width(Schema[t])))
            w == [Writer EXCEPT !.rollbackPos = SizeIsKnown]
        IN /\ data' = b.bytes
           /\ IF b.full
              THEN outcome' = "threw" /\ writers' = [writers EXCEPT ![Top] = w]
              ELSE /\ writers' = [writers EXCEPT ![Top] = [w EXCEPT !.pos = Len(b.bytes)]]
                                 \o <<NewWriter(Schema[t])>>
                   /\ UNCHANGED outcome

\* The innermost writer goes, and p is its parent as it will be.
Leave(p) == writers' = [Front(writers) EXCEPT ![Top - 1] = p]
Parent == writers[Top - 1]

RollbackSubmessage ==
  /\ data' = SubSeq(data, 1, Parent.rollbackPos)
  /\ Leave([Parent EXCEPT !.pos = 0])

\* Mutant: all of the reserved bytes stay.
CommitUnerased ==
  LET at == Parent.pos - ReserveBytes
      length == EncodeVarint(Len(data) - Parent.pos)
  IN /\ data' = SubSeq(data, 1, at) \o length
                \o SubSeq(data, at + Len(length) + 1, Len(data))
     /\ Leave([Parent EXCEPT !.pos = 0])

\* The length goes to the front of the reserved bytes, the others are erased.
CommitSubmessage ==
  LET at == Parent.pos - ReserveBytes
      length == EncodeVarint(Len(data) - Parent.pos)
  IN /\ data' = SubSeq(data, 1, at) \o length \o SubSeq(data, Parent.pos + 1, Len(data))
     /\ Leave([Parent EXCEPT !.pos = 0])

CloseSubmessage ==
  IF Parent.pos = 0 \/ Parent.rollbackPos = SizeIsKnown
  THEN UNCHANGED data /\ Leave(Parent)
  ELSE IF Len(data) = Parent.pos THEN RollbackSubmessage ELSE CommitSubmessage

\* ~basic_pbf_writer, also while an exception unwinds.
Destroy ==
  /\ outcome \in {"fine", "threw"} /\ Top > 1
  /\ CloseSubmessage
  /\ UNCHANGED outcome

\* commit() is the same for a program that has not left an assertion behind.
Commit ==
  /\ outcome = "fine" /\ Top > 1
  /\ Assertion(Stale) \/ (CloseSubmessage /\ UNCHANGED outcome)

\* rollback() of a submessage with a known size asserts, or resizes to size_t's
\* maximum, which throws.
Rollback ==
  /\ outcome = "fine" /\ Top > 1
  /\ \/ Assertion(Stale \/ Parent.rollbackPos = SizeIsKnown)
     \/ /\ Parent.rollbackPos = SizeIsKnown
        /\ outcome' = "threw" /\ UNCHANGED <<data, writers>>
     \/ /\ Parent.rollbackPos # SizeIsKnown
        /\ RollbackSubmessage /\ UNCHANGED outcome

\* The program catches the exception where the innermost writer lives.
Catch ==
  /\ outcome = "threw"
  /\ outcome' = "fine"
  /\ UNCHANGED <<data, writers>>

-----------------------------------------------------------------------------
WriterInit == data = <<>> /\ writers = <<NewWriter("message")>> /\ outcome = "fine"

WriterNext ==
  \/ \E t \in Tag :
       \/ AddVarint(t) \/ AddBool(t) \/ AddFixed(t)
       \/ AddBytes(t) \/ AddBytesVectored(t) \/ AddPackedFixed(t)
       \/ OpenPacked(t) \/ OpenMessage(t) \/ OpenKnownSize(t, 1)
  \/ AddElement
  \/ Destroy \/ Commit \/ Rollback \/ Catch

=============================================================================
