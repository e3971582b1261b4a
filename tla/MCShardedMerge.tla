--------------------------- MODULE MCShardedMerge ---------------------------
(***************************************************************************)
(* Small instances of ShardedMerge: the candidate tiles of the zooms 0 and *)
(* 1 and the first ones of zoom 2, in the order in which main() visits     *)
(* them.  Of three shards one has three tiles, one two and one a tile.     *)
(***************************************************************************)
EXTENDS ShardedMerge

\* Position |-> <<zoom, x, y>>.
MCGrid == <<<<0, 0, 0>>, <<1, 0, 0>>, <<1, 0, 1>>, <<1, 1, 0>>, <<1, 1, 1>>,
            <<2, 0, 0>>, <<2, 0, 1>>>>

\* The expression of tile-smush.cpp:255.
MCOwner ==
  [c \in 1 .. CellCount |->
     (MCGrid[c][2] * 2 ^ MCGrid[c][1] + MCGrid[c][3]) % Shards]

\* Every candidate but <<1, 0, 0>> exists in some input.
MCTiles == {1, 3, 4, 5, 6, 7} \cap 1 .. CellCount

=============================================================================
