----------------------------- MODULE MCTileLoop -----------------------------
(***************************************************************************)
(* Small instances of TileLoop, for every combination of rows in the       *)
(* inputs.                                                                 *)
(***************************************************************************)
EXTENDS TileLoop

MCSide == [z \in Zoom |-> 2 ^ z]

\* The five tiles of the zooms 0 and 1, and two rows outside of their grid:
\* one that shares the bit of <<1, 1, 0>>, one whose bit does not exist.
MCLegal == {<<0, 0, 0>>, <<1, 0, 0>>, <<1, 0, 1>>, <<1, 1, 0>>, <<1, 1, 1>>}
MCNames == (MCLegal \ {<<1, 0, 1>>}) \cup {<<1, 0, 2>>, <<1, 2, 0>>}

\* Of the three tiles of shard 0, one is blank and one is corrupt in input 1.
MCBlank == {<<1, <<1, 1, 0>>>>}
MCCorrupt == {<<1, <<1, 0, 0>>>>}

=============================================================================
