-------------------------------- MODULE Varint --------------------------------
(***************************************************************************)
(* The integers of the wire format: varints, as protozero's varint.hpp     *)
(* computes them.  A text is a sequence of bytes; a position is the number *)
(* of bytes in front of it, so that the byte at p is text[p + 1], and      *)
(* m_end is a position, too.                                               *)
(*                                                                         *)
(* In the code a byte carries 7 bits, a varint holds 64 in at most 10      *)
(* bytes, the last one a single bit, and tags and lengths have 32.         *)
(***************************************************************************)
EXTENDS Zigzag, Sequences

CONSTANTS
  Group,            \* 2^7: what a byte holds beside its continuation bit
  MaxVarintLength,  \* max_varint_length, 10
  Word,             \* 2^64
  ShortWord         \* 2^32

\* What n groups can hold.
Power[n \in 0 .. MaxVarintLength] == IF n = 0 THEN 1 ELSE Group * Power[n - 1]

\* The last byte of the longest varint has less than a whole group.
ASSUME VarintAssumption ==
  /\ Group \in Nat /\ Group > 1
  /\ MaxVarintLength \in Nat \ {0, 1}
  /\ Word \in Nat /\ ShortWord \in Nat \ {0}
  /\ Power[MaxVarintLength - 1] < Word
  /\ Word % Power[MaxVarintLength - 1] = 0
  /\ Word <= Power[MaxVarintLength]
  /\ ShortWord <= Word

Byte == 0 .. 2 * Group - 1
Continues(b) == b >= Group

-----------------------------------------------------------------------------
LengthOfVarint(v) ==
  CHOOSE n \in 1 .. MaxVarintLength : v < Power[n] /\ (n = 1 \/ v >= Power[n - 1])

\* write_varint and add_varint_to_buffer: the low groups first, all but the
\* last one with the continuation bit.
EncodeVarint(v) ==
  LET n == LengthOfVarint(v) IN
  [i \in 1 .. n |-> IF i < n
                    THEN Group + ((v \div Power[i - 1]) % Group)
                    ELSE v \div Power[i - 1]]

-----------------------------------------------------------------------------
\* What reading at a position comes to: the position afterwards, which is the
\* old one after an exception, and the value.
Read(at, v) == [error |-> "none", at |-> at, value |-> v]
Fails(e, at) == [error |-> e, at |-> at, value |-> 0]

\* The first byte at or after p without continuation bit; end if there is none.
LastByte(text, p, end) ==
  CHOOSE q \in p .. end :
    /\ q = end \/ ~Continues(text[q + 1])
    /\ \A r \in p .. q - 1 : Continues(text[r + 1])

\* The groups of the bytes p .. q, the tenth one cut to the bits that are left.
GroupAt(text, p, i) ==
  text[p + i + 1] % (IF i = MaxVarintLength - 1 THEN Word \div Power[i] ELSE Group)
Sums(text, p, n) ==  \* of the first bytes
  LET sum[i \in 0 .. n] == IF i = 0 THEN 0 ELSE sum[i - 1] + GroupAt(text, p, i - 1) * Power[i - 1]
  IN sum
Groups(text, p, q) == Sums(text, p, q - p + 1)[q - p + 1]

\* decode_varint: a fast path if the longest varint fits into what is left,
\* a slow one that looks at the end otherwise.
DecodeVarint(text, p, end) ==
  LET q == LastByte(text, p, end) IN
  IF end - p >= MaxVarintLength
  THEN IF q - p < MaxVarintLength
       THEN Read(q + 1, Groups(text, p, q)) ELSE Fails("varint_too_long", p)
  ELSE IF q = end THEN Fails("end_of_buffer", p)
       ELSE Read(q + 1, Groups(text, p, q))

\* Mutant: the longest varints are taken for too long.
SkipShorter(text, p, end) ==
  LET q == LastByte(text, p, end) IN
  IF q - p >= MaxVarintLength - 1 THEN Fails("varint_too_long", p)
  ELSE IF q = end THEN Fails("end_of_buffer", p)
  ELSE Read(q + 1, 0)

\* skip_varint looks for the last byte without decoding.
SkipVarint(text, p, end) ==
  LET q == LastByte(text, p, end) IN
  IF q - p >= MaxVarintLength THEN Fails("varint_too_long", p)
  ELSE IF q = end THEN Fails("end_of_buffer", p)
  ELSE Read(q + 1, 0)

\* The conversion of a signed value to uint64_t.
Unsigned(v) == v % Word

=============================================================================
