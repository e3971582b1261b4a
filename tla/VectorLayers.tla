---------------------------- MODULE VectorLayers ----------------------------
(***************************************************************************)
(* How main() takes the layers out of an input's `json' metadata: a scan   *)
(* for matching braces from behind `"vector_layers":[' to the first `]',   *)
(* and how it prints all layers it found into the merged `json'.  Module   *)
(* Metadata says when.                                                     *)
(*                                                                         *)
(* A text is a sequence of tokens: the braces, the closing bracket and the *)
(* comma, which the scan or the print tell apart, and letters for the      *)
(* rest.  The text begins behind the opening bracket.  A `json' value is   *)
(* the list of the objects it was made of and the tail behind the bracket: *)
(* the scan sees only its text.                                            *)
(***************************************************************************)
EXTENDS SequencesExt

CONSTANTS
  Letters,  \* what else is in a text
  Objects,  \* the layer objects an input may have, as texts
  Tails     \* what may follow the closing bracket

Tokens == {"{", "}", "]", ","} \cup Letters
Texts == Seq(Tokens)

\* README.md and the comments call the scan a hack that fails if there are
\* braces in strings.  These are the objects on which it is meant to work:
\* balanced, and without a bracket.
Count(s, t) == Cardinality({i \in DOMAIN s : s[i] = t})
Balanced(s) ==
  /\ s # <<>> /\ s[1] = "{"
  /\ \A n \in DOMAIN s : LET p == SubSeq(s, 1, n) IN
       (Count(p, "{") = Count(p, "}")) <=> n = Len(s)

ASSUME VectorLayersAssumption ==
  /\ \A o \in Objects : o \in Texts /\ Balanced(o) /\ Count(o, "]") = 0
  /\ Tails \subseteq Texts

VARIABLES
  text,    \* what is scanned
  pos,     \* `vectorLayers'
  start,   \* 0 for NULL
  braces,
  layers   \* the keys of the map of that name

\* A list of texts with commas between them, up to the closing bracket.
Piece(l, n) == IF n > 1 THEN <<",">> \o l[n] ELSE l[n]
Joined(l) ==
  LET first[n \in 0 .. Len(l)] == IF n = 0 THEN <<>> ELSE first[n - 1] \o Piece(l, n)
  IN first
Commas(l) == Joined(l)[Len(l)] \o <<"]">>

Text(json) == Commas(json.list) \o json.tail

-----------------------------------------------------------------------------
StartScan(json) == text' = Text(json) /\ pos' = 1 /\ start' = 0 /\ braces' = 0

Scanning == pos \in DOMAIN text /\ text[pos] # "]"

\* Mutant: a layer ends at its first closing brace.
ScanFirstBrace ==
  LET t == text[pos]
      s == IF start = 0 /\ t = "{" THEN pos ELSE start
      b == braces + (IF t = "{" THEN 1 ELSE IF t = "}" THEN -1 ELSE 0)
      end == s # 0 /\ t = "}"
  IN /\ Scanning
     /\ layers' = IF end THEN layers \cup {SubSeq(text, s, pos)} ELSE layers
     /\ start' = IF end THEN 0 ELSE s
     /\ braces' = b
     /\ pos' = pos + 1
     /\ UNCHANGED text

\* One iteration of the while loop.
Scan ==
  LET t == text[pos]
      s == IF start = 0 /\ t = "{" THEN pos ELSE start
      b == braces + (IF t = "{" THEN 1 ELSE IF t = "}" THEN -1 ELSE 0)
      end == s # 0 /\ b = 0
  IN /\ Scanning
     /\ layers' = IF end THEN layers \cup {SubSeq(text, s, pos)} ELSE layers
     /\ start' = IF end THEN 0 ELSE s
     /\ braces' = b
     /\ pos' = pos + 1
     /\ UNCHANGED text

\* The merged json: the keys of the map, in its order.
PrintJson(set) == [list |-> SetToSeq(set), tail |-> <<"}">>]

=============================================================================
