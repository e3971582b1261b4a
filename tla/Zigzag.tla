-------------------------------- MODULE Zigzag --------------------------------
(***************************************************************************)
(* Signed integers as unsigned ones, small absolute values first.          *)
(***************************************************************************)
EXTENDS Integers

\* encode_zigzag32/64: (v << 1) ^ (v >> 31), for v in two's complement.
EncodeZigzag(v) == IF v >= 0 THEN 2 * v ELSE (0 - 2 * v) - 1

\* Mutant: without the complement of negative numbers.
DecodeZigzagPlain(u) == IF u % 2 = 0 THEN u \div 2 ELSE 0 - u \div 2

\* decode_zigzag32/64: (u >> 1) ^ -(u & 1)
DecodeZigzag(u) == IF u % 2 = 0 THEN u \div 2 ELSE (0 - u \div 2) - 1

=============================================================================
