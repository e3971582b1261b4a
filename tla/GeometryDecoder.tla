---------------------------- MODULE GeometryDecoder ---------------------------
(***************************************************************************)
(* decode_geometry: the items of a geometry are read once, from front to   *)
(* back, and a handler is told of points, lines and rings.  It is told     *)
(* beforehand how many points will come (and may reserve memory for them). *)
(*                                                                         *)
(* The items may be anything.  What is thrown ends the decoding.           *)
(***************************************************************************)
EXTENDS Geometry

VARIABLES
  items,   \* the integers between m_it and m_end at the beginning
  limit,   \* m_max_count: half of the bytes of the items
  type,    \* the type of the geometry
  place,   \* what comes next in the decoding
  it,      \* the number of items that have been read
  cursor,  \* m_cursor
  count,   \* m_count: points that are left of the present command
  area,    \* sum, an int64_t: twice the signed area of the ring so far
  parts    \* what the handler was told: counts and points, one part after the other

decoderVars == <<items, limit, type, place, it, cursor, count, area, parts>>
given == <<items, limit, type>>

Part == parts[Len(parts)]
AddToPart(p) == parts' = [parts EXCEPT ![Len(parts)].points = Append(@, p)]

\* points_begin, linestring_begin or ring_begin, and the first point.
Begin(n, points) ==
  parts' = Append(parts, [announced |-> n, points |-> points, ring |-> "none"])

Throw ==
  /\ place' = "threw"
  /\ UNCHANGED <<given, it, cursor, count, area, parts>>

-----------------------------------------------------------------------------
AtEnd == it = Len(items)
Item == items[it + 1]

\* Mutant: the count of a command is not compared with the size of the data.
AcceptsUnbounded(id) ==
  /\ ~AtEnd /\ CommandId(Item) = id
  /\ id = CLOSE_PATH => CommandCount(Item) = 1

\* next_command(id) returns TRUE; otherwise, unless there are no more items, it
\* throws.
Accepts(id) ==
  /\ ~AtEnd /\ CommandId(Item) = id
  /\ IF id = CLOSE_PATH THEN CommandCount(Item) = 1 ELSE CommandCount(Item) <= limit

\* next_point() throws if there are less than two items.
TooFew == it + 2 > Len(items)
Next2 == Move(cursor, items[it + 1], items[it + 2])

-----------------------------------------------------------------------------
\* decode_geometry looks at the type.
DecodeGeometry ==
  /\ place = "type"
  /\ IF type \in {POINT, LINESTRING, POLYGON}
     THEN place' = "MoveTo" /\ UNCHANGED <<given, it, cursor, count, area, parts>>
     ELSE Throw

\* The MoveTo command of decode_point.
BeginPoints ==
  /\ place = "MoveTo" /\ type = POINT
  /\ IF Accepts(MOVE_TO) /\ CommandCount(Item) > 0
     THEN /\ place' = "points" /\ it' = it + 1 /\ count' = CommandCount(Item)
          /\ Begin(CommandCount(Item), <<>>)
          /\ UNCHANGED <<given, cursor, area>>
     ELSE Throw

\* The loops of decode_linestring and decode_polygon: the end, or the MoveTo
\* command and the first point.
BeginPart ==
  /\ place = "MoveTo" /\ type \in {LINESTRING, POLYGON}
  /\ IF AtEnd
     THEN place' = "done" /\ UNCHANGED <<given, it, cursor, count, area, parts>>
     ELSE IF Accepts(MOVE_TO) /\ CommandCount(Item) = 1 /\ it + 3 <= Len(items)
     THEN /\ place' = "LineTo" /\ it' = it + 3
          /\ cursor' = Move(cursor, items[it + 2], items[it + 3])
          /\ UNCHANGED <<given, count, area, parts>>
     ELSE Throw

\* The LineTo command.  A ring has its first point once more at its end.
BeginLine ==
  /\ place = "LineTo"
  /\ IF Accepts(LINE_TO) /\ (type = LINESTRING => CommandCount(Item) > 0)
     THEN /\ place' = "points" /\ it' = it + 1 /\ count' = CommandCount(Item)
          /\ Begin(CommandCount(Item) + (IF type = LINESTRING THEN 1 ELSE 2), <<cursor>>)
          /\ area' = 0
          /\ UNCHANGED <<given, cursor>>
     ELSE Throw

NextPoint ==
  /\ place = "points" /\ count > 0
  /\ IF TooFew THEN Throw
     ELSE /\ it' = it + 2 /\ cursor' = Next2 /\ count' = count - 1
          /\ area' = IF type = POLYGON THEN Int64(area + Det(cursor, Next2)) ELSE area
          /\ AddToPart(Next2)
          /\ UNCHANGED <<given, place>>

\* Mutant: items behind the last point are not looked at.
EndOfPointsEarly ==
  /\ place = "points" /\ count = 0
  /\ place' = CASE type = POINT -> "done"
                [] type = LINESTRING -> "MoveTo"
                [] type = POLYGON -> "ClosePath"
  /\ UNCHANGED <<given, it, cursor, count, area, parts>>

EndOfPoints ==
  /\ place = "points" /\ count = 0
  /\ IF type = POINT /\ ~AtEnd THEN Throw
     ELSE /\ place' = CASE type = POINT -> "done"
                        [] type = LINESTRING -> "MoveTo"
                        [] type = POLYGON -> "ClosePath"
          /\ UNCHANGED <<given, it, cursor, count, area, parts>>

RingType(a) == IF a > 0 THEN "outer" ELSE IF a < 0 THEN "inner" ELSE "invalid"

CloseRing ==
  /\ place = "ClosePath"
  /\ IF Accepts(CLOSE_PATH)
     THEN LET start == Part.points[1] IN
          /\ place' = "MoveTo" /\ it' = it + 1
          /\ parts' = [parts EXCEPT ![Len(parts)] =
                         [announced |-> Part.announced, points |-> Append(Part.points, start),
                          ring |-> RingType(Int64(area + Det(cursor, start)))]]
          /\ UNCHANGED <<given, cursor, count, area>>
     ELSE Throw

-----------------------------------------------------------------------------
\* A decoder for a geometry.
Decoder(s, n, t) ==
  /\ items = s /\ limit = n /\ type = t
  /\ place = "type" /\ it = 0 /\ cursor = Origin /\ count = 0 /\ area = 0 /\ parts = <<>>

DecoderNext ==
  \/ DecodeGeometry \/ BeginPoints \/ BeginPart \/ BeginLine
  \/ NextPoint \/ EndOfPoints \/ CloseRing

-----------------------------------------------------------------------------
\* The handler may trust the number it is told, whatever the items are: it is
\* bounded by the size of the data, no more points come, and in a geometry that
\* is accepted not fewer (geometry.hpp:195-251, 265, 301, 332).
AnnouncesWhatFits ==
  \A k \in DOMAIN parts :
    /\ parts[k].announced <= limit + 2
    /\ Len(parts[k].points) <= parts[k].announced
    /\ k < Len(parts) \/ place = "done" => Len(parts[k].points) = parts[k].announced

-----------------------------------------------------------------------------
(* The invariant of the decoder, for the proofs of VectorTileProofs.       *)

Places == {"type", "MoveTo", "LineTo", "points", "ClosePath", "done", "threw"}
Points == Int \X Int
Parts == [announced : Nat, points : Seq(Points), ring : {"none", "outer", "inner", "invalid"}]

TypeOK ==
  /\ items \in Seq(Nat) /\ limit \in Nat /\ type \in UNKNOWN .. POLYGON
  /\ place \in Places /\ it \in 0 .. Len(items)
  /\ cursor \in Points /\ count \in Nat /\ area \in Int /\ parts \in Seq(Parts)

\* next_command() and next_point() assert this (geometry.hpp:196, 228).
CountMatchesPlace ==
  /\ place \in {"type", "MoveTo", "LineTo", "ClosePath", "done"} => count = 0
  /\ place \in {"points", "LineTo", "ClosePath"} => type # UNKNOWN
  /\ place = "LineTo" => type # POINT
  /\ place = "ClosePath" => type = POLYGON

IsComplete(p) == Len(p.points) = p.announced

\* The points that are still to come for the last part.
Outstanding ==
  CASE place = "points" -> count + (IF type = POLYGON THEN 1 ELSE 0)
    [] place = "ClosePath" -> 1
    [] OTHER -> 0

PartsComplete ==
  /\ \A k \in DOMAIN parts : parts[k].announced <= limit + 2
  /\ \A k \in DOMAIN parts : k < Len(parts) => IsComplete(parts[k])
  /\ place \in {"points", "ClosePath"} => parts # <<>>
  /\ place \in {"points", "ClosePath"} /\ type = POLYGON => Part.points # <<>>
  /\ parts # <<>> => IF place = "threw" THEN Len(Part.points) <= Part.announced
                     ELSE Len(Part.points) + Outstanding = Part.announced
  /\ place = "type" => parts = <<>>

DecoderInv == TypeOK /\ CountMatchesPlace /\ PartsComplete

=============================================================================
