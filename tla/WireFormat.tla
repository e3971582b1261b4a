------------------------------ MODULE WireFormat ------------------------------
(***************************************************************************)
(* The protobuf wire format as protozero's reader and writer share it: the *)
(* key of a field and its wire type.  A field of a message is a record of  *)
(* its tag, its wire type and its payload, the bytes behind the key and,   *)
(* for a length-delimited field, behind the length.                        *)
(***************************************************************************)
EXTENDS Varint, SequencesExt

CONSTANTS
  Fixed32, Fixed64,  \* the bytes of a fixed field, 4 and 8
  ReservedTags       \* 19000 .. 19999

\* pbf_wire_type
VarintType == 0
Fixed64Type == 1
LengthDelimited == 2
Fixed32Type == 5
WireTypes == {VarintType, Fixed64Type, LengthDelimited, Fixed32Type}

ASSUME WireFormatAssumption ==
  /\ Fixed32 \in Nat \ {0} /\ Fixed64 \in Nat \ {0}
  /\ ReservedTags \subseteq Nat
  /\ ShortWord % 8 = 0

ValidTag(t) == t > 0 /\ t \notin ReservedTags
Key(tag, type) == tag * 8 + type

FieldBytes(f) ==
  EncodeVarint(Key(f.tag, f.type))
  \o (IF f.type = LengthDelimited THEN EncodeVarint(Len(f.payload)) ELSE <<>>)
  \o f.payload

=============================================================================
