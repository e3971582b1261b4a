------------------------------ MODULE Sharding ------------------------------
(***************************************************************************)
(* How the tiles of a merge are divided among the tile-smush processes     *)
(* that tile-smush-parallel launches (SHARDS of them, each with its SHARD).*)
(*                                                                         *)
(* The loops of main() visit the candidate tiles zoom by zoom, column by   *)
(* column, row by row.  That visiting order is the same in every process,  *)
(* so a candidate is identified here by its position in it: a Cell.  What  *)
(* the tile at a cell contains is the subject of module TileLoop.          *)
(***************************************************************************)
EXTENDS Integers

CONSTANTS
  Shards,     \* the environment variable SHARDS
  CellCount,  \* how many candidate tiles the loops visit
  Owner,      \* Owner[c]: the shard for which cell c passes the modulo test
  Tiles       \* the cells at which at least one input has a tile

Shard == 0 .. Shards - 1
Cell  == 1 .. CellCount

ASSUME ShardingAssumption ==
  /\ Shards \in Nat \ {0}
  /\ CellCount \in Nat
  /\ Owner \in [Cell -> Shard]
  /\ Tiles \subseteq Cell

\* The rows shard p has to contribute to merged.mbtiles.
Work(p) == {c \in Tiles : Owner[c] = p}

\* The part of that work that lies before position n of the loops.
WorkBelow(p, n) == {c \in Work(p) : c < n}

=============================================================================
