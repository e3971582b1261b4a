-------------------------------- MODULE MCWire --------------------------------
(***************************************************************************)
(* Bytes of five bits and a continuation bit, varints of up to three bytes *)
(* for 11 bits, keys and lengths of 7 bits in up to two bytes.             *)
(***************************************************************************)
EXTENDS Wire

MCSchema ==
  (1 :> "message") @@ (2 :> "int") @@ (3 :> "ints") @@ (4 :> "bytes")
  @@ (6 :> "sint") @@ (7 :> "bool") @@ (8 :> "fixed32") @@ (11 :> "fixeds32")

\* Other programs may use more.
MCExpected == MCSchema @@ (9 :> "sints") @@ (10 :> "fixed64") @@ (12 :> "fixeds64")

MCSought == {[tag |-> 2, types |-> {0, 1, 2, 5}], [tag |-> 3, types |-> {2}]}

MCInts == {1, -1}
MCContents == {<<>>, <<33>>}

\* Keys with tags that are known, unknown and invalid, all kinds of types,
\* short lengths, and varints that are cut off, too long or longer than
\* necessary; and fields of each kind whose key has two bytes.
MCForeign ==
  BoundedSeq({0, 2, 10, 16, 19, 26, 32, 63}, 4)
  \cup {EncodeVarint(Key(k[1], k[2])) \o s :
          k \in {<<4, 2>>, <<5, 0>>, <<6, 0>>, <<7, 0>>, <<8, 5>>, <<9, 2>>,
                 <<10, 1>>, <<11, 2>>, <<12, 2>>},
          s \in BoundedSeq({0, 2, 3, 33}, 4)}

=============================================================================
