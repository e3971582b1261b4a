------------------------------- MODULE Geometry -------------------------------
(***************************************************************************)
(* The geometry of a feature as vtzero writes and reads it: a sequence of  *)
(* unsigned integers, its items.  An item is a command with a count, or a  *)
(* coordinate of a point relative to the point before it.                  *)
(***************************************************************************)
EXTENDS Zigzag, Sequences

CONSTANT HalfRange  \* 2^31: coordinates are -HalfRange .. HalfRange - 1

ASSUME GeometryAssumption == HalfRange \in Nat \ {0}

\* GeomType
UNKNOWN == 0
POINT == 1
LINESTRING == 2
POLYGON == 3

MOVE_TO == 1
LINE_TO == 2
CLOSE_PATH == 7

Command(id, count) == id + 8 * count
CommandId(item) == item % 8
CommandCount(item) == item \div 8

Origin == <<0, 0>>

\* An int32_t that has overflowed.
Int32(v) == ((v + HalfRange) % (2 * HalfRange)) - HalfRange

\* What is written for p when the last point was cursor: the difference is one
\* of int32_t's.  It is undefined behaviour if it overflows; the builds wrap.
Delta(p, cursor) ==
  <<EncodeZigzag(Int32(p[1] - cursor[1])), EncodeZigzag(Int32(p[2] - cursor[2]))>>

\* The point that two items lead to.
Move(cursor, dx, dy) ==
  <<Int32(cursor[1] + DecodeZigzag(dx)), Int32(cursor[2] + DecodeZigzag(dy))>>

Det(a, b) == a[1] * b[2] - b[1] * a[2]

\* An int64_t that has overflowed, 2^63 being 2 * HalfRange^2.  A determinant
\* never does; a sum of them is undefined behaviour if it does, and the builds
\* wrap.
Int64(v) ==
  ((v + 2 * HalfRange * HalfRange) % (4 * HalfRange * HalfRange)) - 2 * HalfRange * HalfRange

=============================================================================
