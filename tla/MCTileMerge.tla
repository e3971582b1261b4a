------------------------------ MODULE MCTileMerge ------------------------------
(***************************************************************************)
(* Tiles with every sequence of up to two fields, in buffers that fit at   *)
(* once, after one growth or after several.                                *)
(***************************************************************************)
EXTENDS TileMerge, SequencesExt

MCTiles ==
  {[gzip |-> TRUE, packed |-> 3, size |-> 17 * Len(t), text |-> t] : t \in SeqOf(Kind, 2)}
  \cup {[gzip |-> g, packed |-> 2, size |-> 30, text |-> <<"layer">>] : g \in BOOLEAN}
  \cup {[gzip |-> FALSE, packed |-> 1, size |-> 0, text |-> <<>>]}

=============================================================================
