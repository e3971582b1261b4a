--------------------------- MODULE MetadataProofs ---------------------------
(***************************************************************************)
(* Theorems about module Metadata, for any number of inputs, any tables    *)
(* they may have, and any layer objects in them.                           *)
(*                                                                         *)
(* First the scan of module VectorLayers: where the objects of a list are  *)
(* in its text, and that a step of the scan goes from one place among them *)
(* to the next (ScanStep).  Then IInv, for what a process that throws or   *)
(* is killed leaves behind, and MInv, for what the finished table says.    *)
(***************************************************************************)
EXTENDS Metadata, WellFoundedInduction, SequenceTheorems, FiniteSetTheorems, TLAPS

-----------------------------------------------------------------------------
\* The order of the numbers is well-founded.
LEMMA NatWellFounded ==
  \E R : IsWellFoundedOn(R, Nat) /\ \A x, y \in Nat : y < x => <<y, x>> \in R
<1> DEFINE R == OpToRel(<, Nat)
<1>1. IsWellFoundedOn(R, Nat)
  BY NatLessThanWellFounded
<1>2. \A x, y \in Nat : y < x => <<y, x>> \in R
  BY DEF OpToRel
<1> HIDE DEF R
<1> QED
  BY <1>1, <1>2

\* Induction for a set: the library's theorem takes the property as an operator,
\* which the provers cannot instantiate, but a set of numbers they can.
LEMMA NatSetInduction ==
  ASSUME NEW S, 0 \in S, \A n \in Nat : n \in S => n + 1 \in S
  PROVE  \A n \in Nat : n \in S
<1> SUFFICES ASSUME NEW m \in Nat, m \notin S PROVE FALSE
  OBVIOUS
<1> DEFINE T == Nat \ S
<1>1. PICK R : IsWellFoundedOn(R, Nat) /\ \A x, y \in Nat : y < x => <<y, x>> \in R
  BY NatWellFounded
<1>2. T \subseteq Nat /\ T # {}
  OBVIOUS
<1>3. PICK x \in T : \A y \in T : ~(<<y, x>> \in R)
  <2> HIDE DEF T
  <2> QED
    BY <1>1, <1>2, WFMin
<1>4. x \in Nat /\ x \notin S /\ x # 0 /\ x - 1 \in Nat /\ x - 1 < x
  OBVIOUS
<1>5. x - 1 \notin T
  BY <1>4, <1>1, <1>3
<1> QED
  BY <1>4, <1>5

-----------------------------------------------------------------------------
(* The text of a list of layers.                                           *)

LEMMA ObjectsAreTexts == Objects \subseteq Texts
BY VectorLayersAssumption DEF Texts

\* A token in front of a text.
LEMMA Prefixed ==
  ASSUME NEW c \in Tokens, NEW s \in Seq(Tokens)
  PROVE  /\ <<c>> \o s \in Seq(Tokens) /\ Len(<<c>> \o s) = Len(s) + 1 /\ (<<c>> \o s)[1] = c
         /\ \A k \in 1 .. Len(s) : (<<c>> \o s)[k + 1] = s[k]
OBVIOUS

\* A text behind a text.
LEMMA Joining ==
  ASSUME NEW u \in Texts, NEW v \in Texts
  PROVE  /\ u \o v \in Texts /\ Len(u) \in Nat /\ Len(v) \in Nat
         /\ Len(u \o v) = Len(u) + Len(v)
         /\ \A k \in 1 .. Len(u) : (u \o v)[k] = u[k]
         /\ \A k \in 1 .. Len(v) : (u \o v)[Len(u) + k] = v[k]
BY DEF Texts

\* A piece is an object, with a comma before it unless it is the first.
Lead(n) == IF n > 1 THEN 1 ELSE 0

LEMMA PieceIs ==
  ASSUME NEW l \in Seq(Objects), NEW n \in 1 .. Len(l)
  PROVE  /\ l[n] \in Objects /\ l[n] \in Texts /\ Piece(l, n) \in Texts
         /\ Len(l[n]) \in Nat /\ Len(Piece(l, n)) = Lead(n) + Len(l[n])
         /\ \A k \in 1 .. Len(l[n]) : Piece(l, n)[Lead(n) + k] = l[n][k]
<1>1. l[n] \in Objects /\ l[n] \in Texts /\ n \in Nat
  BY ObjectsAreTexts, ElementOfSeq
<1>2. Len(l[n]) \in Nat /\ \A k \in 1 .. Len(l[n]) : 1 + k = k + 1 /\ 0 + k = k
  BY <1>1 DEF Texts
<1>3. CASE n > 1
  <2>1. Piece(l, n) = <<",">> \o l[n] /\ Lead(n) = 1
    BY <1>3, Zenon DEF Piece, Lead
  <2>2. PICK c \in Tokens : c = ","
    BY DEF Tokens
  <2>3. Piece(l, n) = <<c>> \o l[n]
    BY <2>1, <2>2, Zenon
  <2>4. /\ <<c>> \o l[n] \in Texts /\ Len(<<c>> \o l[n]) = Len(l[n]) + 1
        /\ \A k \in 1 .. Len(l[n]) : (<<c>> \o l[n])[k + 1] = l[n][k]
    BY <1>1, Prefixed, Zenon DEF Texts
  <2>5. Len(Piece(l, n)) = 1 + Len(l[n])
    BY <1>2, <2>3, <2>4
  <2>6. \A k \in 1 .. Len(l[n]) : Piece(l, n)[1 + k] = l[n][k]
    BY <1>2, <2>3, <2>4, Zenon
  <2>7. Lead(n) = 1 /\ Piece(l, n) \in Texts
    BY <2>1, <2>3, <2>4, Zenon
  <2> QED
    BY <1>1, <1>2, <2>5, <2>6, <2>7, Zenon
<1>4. CASE ~(n > 1)
  <2>1. Piece(l, n) = l[n] /\ Lead(n) = 0
    BY <1>4 DEF Piece, Lead
  <2> QED
    BY <1>1, <1>2, <2>1
<1> QED
  BY <1>3, <1>4

\* The comma between an object and the one before it.
LEMMA CommaLeads ==
  ASSUME NEW l \in Seq(Objects), NEW n \in 1 .. Len(l), n > 1
  PROVE  Piece(l, n)[1] = ","
<1>1. Piece(l, n) = <<",">> \o l[n]
  BY Zenon DEF Piece
<1>2. "," \in Tokens /\ l[n] \in Seq(Tokens)
  BY PieceIs DEF Texts, Tokens
<1>3. (<<",">> \o l[n])[1] = ","
  BY <1>2, Prefixed, Zenon
<1> QED
  BY <1>1, <1>3, Zenon

\* The recursion that joins the objects of a list has a value for every list.
LEMMA JoinedUnfolds ==
  ASSUME NEW l \in Seq(Objects)
  PROVE  /\ Joined(l) \in [0 .. Len(l) -> Texts]
         /\ Joined(l)[0] = <<>>
         /\ \A n \in 1 .. Len(l) : Joined(l)[n] = Joined(l)[n - 1] \o Piece(l, n)
<1> DEFINE Ok(n, f) == f = [i \in 0 .. n |-> IF i = 0 THEN <<>> ELSE f[i - 1] \o Piece(l, i)]
           S == {n \in Nat : \E f : Ok(n, f)}
<1>1. 0 \in S
  <2> DEFINE f == [i \in 0 .. 0 |-> <<>>]
  <2>1. Ok(0, f)
    OBVIOUS
  <2> QED
    BY <2>1
<1>2. ASSUME NEW n \in Nat, n \in S PROVE n + 1 \in S
  <2>1. PICK f : Ok(n, f)
    BY <1>2
  <2> DEFINE g == [i \in 0 .. n + 1 |-> IF i = n + 1 THEN f[n] \o Piece(l, n + 1) ELSE f[i]]
  <2>2. \A i \in 0 .. n : f[i] = IF i = 0 THEN <<>> ELSE f[i - 1] \o Piece(l, i)
    BY <2>1
  <2>3. \A i \in 0 .. n : g[i] = f[i]
    OBVIOUS
  <2>4. g[n + 1] = g[n] \o Piece(l, n + 1)
    BY <2>3
  <2>5. \A i \in 0 .. n + 1 : g[i] = IF i = 0 THEN <<>> ELSE g[i - 1] \o Piece(l, i)
    <3> HIDE DEF g
    <3> TAKE i \in 0 .. n + 1
    <3>1. CASE i = n + 1
      <4>1. i # 0 /\ i - 1 = n
        BY <3>1
      <4> QED
        BY <2>4, <3>1, <4>1
    <3>2. CASE i # n + 1
      <4>1. i \in 0 .. n /\ (i # 0 => i - 1 \in 0 .. n)
        BY <3>2
      <4> QED
        BY <2>2, <2>3, <4>1
    <3> QED
      BY <3>1, <3>2
  <2>6. g = [i \in 0 .. n + 1 |-> g[i]]
    OBVIOUS
  <2>7. Ok(n + 1, g)
    <3> HIDE DEF g
    <3> QED
      BY <2>5, <2>6
  <2> HIDE DEF Ok
  <2> QED
    BY <2>7
<1>3. \E f : Ok(Len(l), f)
  <2>1. Len(l) \in S
    <3> HIDE DEF S
    <3> QED
      BY <1>1, <1>2, NatSetInduction
  <2> HIDE DEF Ok
  <2> QED
    BY <2>1
<1>4. Ok(Len(l), Joined(l))
  BY <1>3 DEF Joined
<1> DEFINE N == Len(l)
           J == Joined(l)
<1>5. N \in Nat
  OBVIOUS
<1>6. /\ DOMAIN J = 0 .. N /\ J = [i \in 0 .. N |-> J[i]]
      /\ \A i \in 0 .. N : J[i] = IF i = 0 THEN <<>> ELSE J[i - 1] \o Piece(l, i)
  <2> HIDE DEF J
  <2> QED
    BY <1>4 DEF J
<1>7. \A i \in 1 .. N : Piece(l, i) \in Texts
  BY PieceIs
<1>8. \A n \in 0 .. N : J[n] \in Texts
  <2> HIDE DEF J, N
  <2> DEFINE Q == {n \in Nat : n <= N => J[n] \in Texts}
  <2>1. 0 \in Q
    <3>1. 0 \in 0 .. N /\ <<>> \in Texts
      BY <1>5 DEF Texts
    <3> QED
      BY <1>6, <3>1
  <2>2. ASSUME NEW n \in Nat, n \in Q PROVE n + 1 \in Q
    <3> SUFFICES ASSUME n + 1 <= N PROVE J[n + 1] \in Texts
      OBVIOUS
    <3>1. J[n] \in Texts /\ Piece(l, n + 1) \in Texts /\ J[n + 1] = J[n] \o Piece(l, n + 1)
      BY <1>5, <1>6, <1>7, <2>2
    <3> QED
      BY <3>1, ConcatProperties DEF Texts
  <2>3. \A n \in Nat : n \in Q
    <3> HIDE DEF Q
    <3> QED
      BY <2>1, <2>2, NatSetInduction
  <2> QED
    BY <1>5, <2>3
<1> QED
  <2> HIDE DEF J
  <2>1. J \in [0 .. N -> Texts]
    BY <1>6, <1>8
  <2> QED
    BY <1>5, <1>6, <2>1 DEF J


\* Where an object of a list begins and ends in its text.
End(l, n) == Len(Joined(l)[n])
Begin(l, n) == End(l, n) - Len(l[n])

\* Where the texts of the first n objects end.
LEMMA Places ==
  ASSUME NEW l \in Seq(Objects)
  PROVE  /\ Len(l) \in Nat /\ Joined(l)[0] = <<>> /\ End(l, 0) = 0
         /\ \A n \in 0 .. Len(l) : Joined(l)[n] \in Texts /\ End(l, n) \in Nat
<1>1. Len(l) \in Nat /\ Joined(l)[0] = <<>>
  BY JoinedUnfolds
<1>2. \A n \in 0 .. Len(l) : Joined(l)[n] \in Texts
  BY <1>1, JoinedUnfolds
<1>3. \A n \in 0 .. Len(l) : End(l, n) \in Nat
  BY <1>2 DEF End, Texts
<1> QED
  BY <1>1, <1>2, <1>3 DEF End

\* What an object adds to the text of those before it.
LEMMA Adds ==
  ASSUME NEW l \in Seq(Objects), NEW n \in Nat, n + 1 \in 1 .. Len(l)
  PROVE  /\ End(l, n + 1) = Begin(l, n + 1) + Len(l[n + 1])
         /\ Begin(l, n + 1) = End(l, n) + Lead(n + 1)
         /\ \A k \in 1 .. End(l, n) : Joined(l)[n + 1][k] = Joined(l)[n][k]
         /\ \A k \in 1 .. Len(l[n + 1]) : Joined(l)[n + 1][Begin(l, n + 1) + k] = l[n + 1][k]
         /\ n > 0 => Joined(l)[n + 1][End(l, n) + 1] = ","
<1> DEFINE u == Joined(l)[n]
           v == Piece(l, n + 1)
           o == l[n + 1]
<1>1. (n + 1) - 1 = n /\ n \in 0 .. Len(l) /\ n + 1 \in 0 .. Len(l)
  BY Places
<1>2. Joined(l)[n + 1] = u \o v /\ u \in Texts
  <2>1. Joined(l)[n + 1] = Joined(l)[(n + 1) - 1] \o Piece(l, n + 1)
    BY JoinedUnfolds, Zenon
  <2> QED
    BY <1>1, <2>1, Places
<1>3. /\ v \in Texts /\ Len(o) \in Nat /\ Len(v) = Lead(n + 1) + Len(o)
      /\ \A k \in 1 .. Len(o) : v[Lead(n + 1) + k] = o[k]
  BY PieceIs
<1>4. Lead(n + 1) \in Nat /\ (n > 0 => Lead(n + 1) = 1)
  BY DEF Lead
<1>5. /\ Len(u) \in Nat /\ Len(u \o v) = Len(u) + Len(v)
      /\ \A k \in 1 .. Len(u) : (u \o v)[k] = u[k]
      /\ \A k \in 1 .. Len(v) : (u \o v)[Len(u) + k] = v[k]
  BY <1>2, <1>3, Joining
<1>6. End(l, n + 1) = Len(u) + Len(v) /\ End(l, n) = Len(u)
  BY <1>2, <1>5 DEF End
<1> HIDE DEF u, v, o
<1>7. Begin(l, n + 1) = Len(u) + Lead(n + 1)
  BY <1>3, <1>4, <1>5, <1>6 DEF Begin, o
<1>8. ASSUME NEW k \in 1 .. Len(o) PROVE (u \o v)[Begin(l, n + 1) + k] = o[k]
  <2>1. /\ Lead(n + 1) + k \in 1 .. Len(v)
        /\ Len(u) + (Lead(n + 1) + k) = Begin(l, n + 1) + k
    BY <1>3, <1>4, <1>5, <1>7
  <2>2. (u \o v)[Len(u) + (Lead(n + 1) + k)] = v[Lead(n + 1) + k]
    BY <1>5, <2>1
  <2> QED
    BY <1>3, <2>1, <2>2
<1>9. ASSUME n > 0 PROVE (u \o v)[Len(u) + 1] = ","
  <2>1. 1 \in 1 .. Len(v) /\ n + 1 > 1
    BY <1>3, <1>4, <1>9
  <2>2. v[1] = ","
    BY <2>1, CommaLeads, Zenon DEF v
  <2> QED
    BY <1>5, <2>1, <2>2, Zenon
<1>10. End(l, n + 1) = Begin(l, n + 1) + Len(o) /\ Begin(l, n + 1) = End(l, n) + Lead(n + 1)
  BY <1>3, <1>4, <1>5, <1>6, <1>7
<1> QED
  <2>1. \A k \in 1 .. End(l, n) : Joined(l)[n + 1][k] = Joined(l)[n][k]
    BY <1>2, <1>5, <1>6 DEF u
  <2>2. \A k \in 1 .. Len(l[n + 1]) : Joined(l)[n + 1][Begin(l, n + 1) + k] = l[n + 1][k]
    BY <1>2, <1>8 DEF o
  <2>3. n > 0 => Joined(l)[n + 1][End(l, n) + 1] = ","
    BY <1>2, <1>6, <1>9, Zenon
  <2> QED
    BY <1>10, <2>1, <2>2, <2>3, Zenon DEF o

\* What has been joined stays in front of what is joined to it.
LEMMA PrefixStays ==
  ASSUME NEW l \in Seq(Objects), NEW n \in 0 .. Len(l)
  PROVE  \A m \in 0 .. Len(l) : n <= m =>
           End(l, n) <= End(l, m) /\ \A k \in 1 .. End(l, n) : Joined(l)[m][k] = Joined(l)[n][k]
<1> DEFINE Q == {m \in Nat : n <= m /\ m <= Len(l) =>
                   /\ End(l, n) <= End(l, m)
                   /\ \A k \in 1 .. End(l, n) : Joined(l)[m][k] = Joined(l)[n][k]}
<1>1. Len(l) \in Nat /\ n \in Nat /\ \A m \in 0 .. Len(l) : End(l, m) \in Nat
  BY Places
<1>2. 0 \in Q
  BY <1>1
<1>3. ASSUME NEW m \in Nat, m \in Q PROVE m + 1 \in Q
  <2> SUFFICES ASSUME n <= m + 1, m + 1 <= Len(l), n # m + 1
               PROVE  /\ End(l, n) <= End(l, m + 1)
                      /\ \A k \in 1 .. End(l, n) : Joined(l)[m + 1][k] = Joined(l)[n][k]
    BY <1>1
  <2>1. n <= m /\ m \in 0 .. Len(l) /\ m + 1 \in 1 .. Len(l)
    BY <1>1
  <2>2. End(l, n) <= End(l, m) /\ \A k \in 1 .. End(l, n) : Joined(l)[m][k] = Joined(l)[n][k]
    BY <1>3, <2>1
  <2>3. /\ End(l, m + 1) = End(l, m) + Lead(m + 1) + Len(l[m + 1])
        /\ \A k \in 1 .. End(l, m) : Joined(l)[m + 1][k] = Joined(l)[m][k]
    BY <2>1, Adds
  <2>4. Lead(m + 1) \in Nat /\ Len(l[m + 1]) \in Nat
    BY <2>1, PieceIs DEF Lead
  <2>5. End(l, m) \in Nat /\ End(l, n) \in Nat
    BY <1>1, <2>1
  <2> QED
    BY <2>2, <2>3, <2>4, <2>5
<1>4. \A m \in Nat : m \in Q
  <2> HIDE DEF Q
  <2> QED
    BY <1>2, <1>3, NatSetInduction
<1> QED
  BY <1>1, <1>4

\* The marks the scan passes between the objects, and the one it ends at.
Marked(t, l) ==
  /\ \A n \in 1 .. Len(l) : n < Len(l) => t[End(l, n) + 1] = ","
  /\ t[End(l, Len(l)) + 1] = "]"

\* The text of a list: its objects, with a comma behind each but the last, and
\* the bracket behind that.
LEMMA Shape ==
  ASSUME NEW l \in Seq(Objects), NEW v \in Texts, NEW t, t = Commas(l) \o v
  PROVE  /\ t \in Texts
         /\ \A n \in 0 .. Len(l) : End(l, n) + 1 \in DOMAIN t
         /\ \A n \in 1 .. Len(l) : \A k \in 1 .. Len(l[n]) : t[Begin(l, n) + k] = l[n][k]
         /\ Marked(t, l)
<1> DEFINE N == Len(l)
           u == Joined(l)[N]
<1>1. /\ N \in Nat /\ N \in 0 .. N /\ u \in Texts /\ End(l, N) = Len(u)
      /\ \A n \in 0 .. N : End(l, n) \in Nat
  <2>1. N \in Nat /\ \A n \in 0 .. N : Joined(l)[n] \in Texts /\ End(l, n) \in Nat
    BY Places
  <2> QED
    BY <2>1 DEF End
<1>2. PICK b \in Tokens : b = "]"
  BY DEF Tokens
<1>3. t = (u \o <<b>>) \o v
  BY <1>2, Zenon DEF Commas
<1>4. /\ t \in Texts /\ Len(t) = Len(u) + 1 + Len(v) /\ Len(v) \in Nat /\ DOMAIN t = 1 .. Len(t)
      /\ \A k \in 1 .. Len(u) : t[k] = u[k]
      /\ t[Len(u) + 1] = b
  <2> HIDE DEF u
  <2>1. u \in Seq(Tokens) /\ v \in Seq(Tokens)
    BY <1>1 DEF Texts
  <2> QED
    BY <1>3, <2>1 DEF Texts
<1>5. \A n \in 0 .. N : End(l, n) <= End(l, N) /\ \A k \in 1 .. End(l, n) : t[k] = Joined(l)[n][k]
  <2> TAKE n \in 0 .. N
  <2>1. End(l, n) <= End(l, N) /\ \A k \in 1 .. End(l, n) : u[k] = Joined(l)[n][k]
    BY <1>1, PrefixStays
  <2> HIDE DEF u
  <2> QED
    BY <1>1, <1>4, <2>1
<1>6. \A n \in 0 .. N : End(l, n) + 1 \in DOMAIN t
  <2> HIDE DEF u
  <2> QED
    BY <1>1, <1>4, <1>5
<1>7. ASSUME NEW n \in Nat, n + 1 \in 1 .. N
      PROVE  /\ \A k \in 1 .. Len(l[n + 1]) : t[Begin(l, n + 1) + k] = l[n + 1][k]
             /\ n > 0 => t[End(l, n) + 1] = ","
  <2>1. n \in 0 .. N /\ n + 1 \in 0 .. N
    BY <1>1, <1>7
  <2>2. /\ End(l, n) \in Nat /\ End(l, n + 1) \in Nat /\ Len(l[n + 1]) \in Nat
        /\ Lead(n + 1) \in Nat /\ (n > 0 => Lead(n + 1) = 1)
        /\ End(l, n + 1) = End(l, n) + Lead(n + 1) + Len(l[n + 1])
        /\ Begin(l, n + 1) = End(l, n) + Lead(n + 1)
    <3>1. Lead(n + 1) \in Nat /\ (n > 0 => Lead(n + 1) = 1) /\ Len(l[n + 1]) \in Nat
      BY <1>7, PieceIs DEF Lead
    <3>2. /\ End(l, n + 1) = Begin(l, n + 1) + Len(l[n + 1])
          /\ Begin(l, n + 1) = End(l, n) + Lead(n + 1)
      BY <1>7, Adds
    <3> QED
      BY <1>1, <2>1, <3>1, <3>2
  <2>3. ASSUME NEW k \in 1 .. Len(l[n + 1]) PROVE t[Begin(l, n + 1) + k] = l[n + 1][k]
    <3>1. Begin(l, n + 1) + k \in 1 .. End(l, n + 1)
      BY <2>2
    <3> QED
      BY <1>5, <1>7, <2>1, <3>1, Adds
  <2>4. ASSUME n > 0 PROVE t[End(l, n) + 1] = ","
    <3>2. Len(l[n + 1]) # 0
      <4>1. l[n + 1] \in Texts /\ l[n + 1] # <<>>
        BY <1>7, PieceIs, VectorLayersAssumption DEF Balanced
      <4> QED
        BY <4>1 DEF Texts
    <3>1. End(l, n) + 1 \in 1 .. End(l, n + 1)
      BY <2>2, <2>4, <3>2
    <3>3. t[End(l, n) + 1] = Joined(l)[n + 1][End(l, n) + 1]
      BY <1>5, <2>1, <3>1
    <3> QED
      BY <1>7, <2>4, <3>3, Adds, Zenon
  <2> QED
    BY <2>3, <2>4
<1>8. t[End(l, N) + 1] = "]"
  BY <1>1, <1>2, <1>4, Zenon
<1>9. \A n \in 1 .. N : \A k \in 1 .. Len(l[n]) : t[Begin(l, n) + k] = l[n][k]
  <2> TAKE n \in 1 .. N
  <2>1. n - 1 \in Nat /\ (n - 1) + 1 = n
    OBVIOUS
  <2>2. \A k \in 1 .. Len(l[(n - 1) + 1]) : t[Begin(l, (n - 1) + 1) + k] = l[(n - 1) + 1][k]
    BY <1>7, <2>1
  <2> QED
    BY <2>1, <2>2
<1>10. ASSUME NEW n \in 1 .. N, n < N PROVE t[End(l, n) + 1] = ","
  <2>1. n \in Nat /\ n + 1 \in 1 .. N /\ n > 0
    BY <1>1, <1>10
  <2> QED
    BY <1>7, <2>1, Zenon
<1>11. Marked(t, l)
  BY <1>8, <1>10, Zenon DEF Marked
<1> QED
  BY <1>4, <1>6, <1>9, <1>11, Zenon

-----------------------------------------------------------------------------
\* How many braces are open behind the first k tokens of an object.
Depth(o, k) == Count(SubSeq(o, 1, k), "{") - Count(SubSeq(o, 1, k), "}")
Delta(c) == IF c = "{" THEN 1 ELSE IF c = "}" THEN -1 ELSE 0

\* How often a token is among the first k of an object ...
LEMMA CountOfPrefix ==
  ASSUME NEW o \in Texts, NEW k \in 0 .. Len(o), NEW c
  PROVE  /\ Count(SubSeq(o, 1, k), c) = Cardinality({i \in 1 .. k : o[i] = c})
         /\ Count(SubSeq(o, 1, k), c) \in Nat /\ IsFiniteSet({i \in 1 .. k : o[i] = c})
<1> DEFINE p == SubSeq(o, 1, k)
<1>1. DOMAIN p = 1 .. k /\ \A i \in 1 .. k : p[i] = o[i]
  BY DEF Texts
<1> HIDE DEF p
<1>2. {i \in DOMAIN p : p[i] = c} = {i \in 1 .. k : o[i] = c}
  BY <1>1
<1>3. IsFiniteSet({i \in 1 .. k : o[i] = c})
  <2>1. IsFiniteSet(1 .. k)
    BY FS_Interval
  <2> QED
    BY <2>1, FS_Subset
<1> QED
  BY <1>2, <1>3, FS_CardinalityType DEF Count, p

\* ... and among the first k + 1.
LEMMA CountGrows ==
  ASSUME NEW o \in Texts, NEW k \in Nat, k + 1 \in 1 .. Len(o), NEW c
  PROVE  Count(SubSeq(o, 1, k + 1), c) =
           Count(SubSeq(o, 1, k), c) + (IF o[k + 1] = c THEN 1 ELSE 0)
<1> DEFINE U == {i \in 1 .. k : o[i] = c}
           V == {i \in 1 .. k + 1 : o[i] = c}
<1>1. /\ Count(SubSeq(o, 1, k), c) = Cardinality(U) /\ Cardinality(U) \in Nat /\ IsFiniteSet(U)
      /\ Count(SubSeq(o, 1, k + 1), c) = Cardinality(V)
  <2>1. k \in 0 .. Len(o) /\ k + 1 \in 0 .. Len(o)
    BY DEF Texts
  <2>2. Cardinality(U) \in Nat
    BY <2>1, CountOfPrefix, FS_CardinalityType
  <2> QED
    BY <2>1, <2>2, CountOfPrefix
<1>2. k + 1 \notin U
  OBVIOUS
<1>3. V = IF o[k + 1] = c THEN U \cup {k + 1} ELSE U
  OBVIOUS
<1> HIDE DEF U, V
<1>4. Cardinality(U \cup {k + 1}) = Cardinality(U) + 1
  BY <1>1, <1>2, FS_AddElement
<1> QED
  BY <1>1, <1>3, <1>4

\* The braces of an object are balanced at its end and not before.
LEMMA DepthOfObject ==
  ASSUME NEW o \in Objects
  PROVE  /\ Len(o) \in Nat /\ Len(o) > 1 /\ Depth(o, 1) = 1
         /\ \A k \in 1 .. Len(o) : Depth(o, k) \in Int /\ (Depth(o, k) = 0 <=> k = Len(o))
         /\ \A k \in Nat : k + 1 \in 1 .. Len(o) =>
              Depth(o, k + 1) = Depth(o, k) + Delta(o[k + 1])
<1>1. o \in Texts /\ o # <<>>
  BY VectorLayersAssumption DEF Balanced
<1>2. DOMAIN o = 1 .. Len(o) /\ Len(o) \in Nat /\ Len(o) >= 1
  BY <1>1 DEF Texts
<1>3. \A k \in 0 .. Len(o) : \A c : Count(SubSeq(o, 1, k), c) \in Nat
  BY <1>1, CountOfPrefix
<1>4. ASSUME NEW k \in 1 .. Len(o) PROVE Depth(o, k) \in Int /\ (Depth(o, k) = 0 <=> k = Len(o))
  <2>1. Count(SubSeq(o, 1, k), "{") = Count(SubSeq(o, 1, k), "}") <=> k = Len(o)
    BY <1>2, VectorLayersAssumption DEF Balanced
  <2>2. k \in 0 .. Len(o)
    BY <1>2
  <2> DEFINE a == Count(SubSeq(o, 1, k), "{")
             b == Count(SubSeq(o, 1, k), "}")
  <2>3. a \in Nat /\ b \in Nat
    BY <1>3, <2>2, Zenon
  <2>4. Depth(o, k) = a - b
    BY Zenon DEF Depth
  <2> HIDE DEF a, b
  <2>5. a = b <=> k = Len(o)
    BY <2>1 DEF a, b
  <2> QED
    BY <2>3, <2>4, <2>5
<1>5. ASSUME NEW k \in Nat, k + 1 \in 1 .. Len(o)
      PROVE  /\ Depth(o, k + 1) = Depth(o, k) + Delta(o[k + 1])
             /\ k = 0 => Depth(o, k) = 0
  <2>1. k \in 0 .. Len(o)
    BY <1>2, <1>5
  <2>2. \A c : Count(SubSeq(o, 1, k + 1), c) =
                 Count(SubSeq(o, 1, k), c) + (IF o[k + 1] = c THEN 1 ELSE 0)
    BY <1>1, <1>5, CountGrows
  <2> DEFINE a == Count(SubSeq(o, 1, k), "{")
             b == Count(SubSeq(o, 1, k), "}")
             open == IF o[k + 1] = "{" THEN 1 ELSE 0
             close == IF o[k + 1] = "}" THEN 1 ELSE 0
  <2>3. Count(SubSeq(o, 1, k + 1), "{") = a + open /\ Count(SubSeq(o, 1, k + 1), "}") = b + close
    BY <2>2, Zenon
  <2>4. Depth(o, k + 1) = (a + open) - (b + close)
    BY <2>3, Zenon DEF Depth
  <2>5. a \in Nat /\ b \in Nat
    BY <1>3, <2>1, Zenon
  <2>6. Delta(o[k + 1]) = open - close /\ open \in Nat /\ close \in Nat
    <3>1. CASE o[k + 1] = "{"
      <4>1. o[k + 1] # "}"
        BY <3>1
      <4>2. Delta(o[k + 1]) = 1 /\ open = 1 /\ close = 0
        BY <3>1, <4>1, Zenon DEF Delta
      <4> HIDE DEF open, close
      <4> QED
        BY <4>2
    <3>2. CASE o[k + 1] = "}"
      <4>1. o[k + 1] # "{"
        BY <3>2
      <4>2. Delta(o[k + 1]) = -1 /\ open = 0 /\ close = 1
        BY <3>2, <4>1, Zenon DEF Delta
      <4> HIDE DEF open, close
      <4> QED
        BY <4>2
    <3>3. CASE o[k + 1] # "{" /\ o[k + 1] # "}"
      <4>1. Delta(o[k + 1]) = 0 /\ open = 0 /\ close = 0
        BY <3>3, Zenon DEF Delta
      <4> HIDE DEF open, close
      <4> QED
        BY <4>1
    <3> QED
      BY <3>1, <3>2, <3>3, Zenon
  <2>7. Depth(o, k) = a - b
    BY Zenon DEF Depth
  <2>8. k = 0 => a = b
    <3> SUFFICES ASSUME k = 0 PROVE a = 0 /\ b = 0
      BY Zenon
    <3>1. \A c : {i \in 1 .. k : o[i] = c} = {}
      OBVIOUS
    <3>2. \A c : Count(SubSeq(o, 1, k), c) = 0
      BY <1>1, <2>1, <3>1, CountOfPrefix, FS_EmptySet
    <3> QED
      BY <3>2, Zenon
  <2> HIDE DEF a, b, open, close
  <2> QED
    BY <2>4, <2>5, <2>6, <2>7, <2>8
<1>6. Depth(o, 1) = 1
  <2>1. 0 + 1 \in 1 .. Len(o) /\ 0 \in Nat /\ 0 + 1 = 1
    BY <1>2
  <2>2. Depth(o, 1) = 0 + Delta(o[1])
    BY <1>5, <2>1
  <2>3. o[1] = "{"
    BY VectorLayersAssumption DEF Balanced
  <2>4. Delta(o[1]) = 1
    BY <2>3, Zenon DEF Delta
  <2> QED
    BY <2>2, <2>4
<1>7. Len(o) # 1
  <2>1. 1 \in 1 .. Len(o)
    BY <1>2
  <2>2. Depth(o, 1) = 0 <=> 1 = Len(o)
    BY <1>4, <2>1
  <2> QED
    BY <1>6, <2>2
<1>8. Len(o) \in Nat /\ Len(o) > 1
  BY <1>2, <1>7
<1> QED
  BY <1>4, <1>5, <1>6, <1>8

\* The scan never meets a bracket in an object.
LEMMA NoBracket ==
  ASSUME NEW o \in Objects, NEW k \in 1 .. Len(o)
  PROVE  o[k] # "]"
<1>1. o \in Texts /\ DOMAIN o = 1 .. Len(o) /\ Len(o) \in Nat /\ Count(o, "]") = 0
  <2>1. o \in Texts /\ Count(o, "]") = 0
    BY VectorLayersAssumption
  <2> QED
    BY <2>1 DEF Texts
<1> DEFINE B == {i \in 1 .. Len(o) : o[i] = "]"}
<1>2. IsFiniteSet(B) /\ Cardinality(B) = 0
  <2>1. IsFiniteSet(1 .. Len(o))
    BY <1>1, FS_Interval
  <2>2. IsFiniteSet(B)
    BY <2>1, FS_Subset
  <2> QED
    BY <1>1, <2>2 DEF Count
<1>3. B = {}
  <2> HIDE DEF B
  <2> QED
    BY <1>2, FS_EmptySet
<1> QED
  BY <1>3


-----------------------------------------------------------------------------
\* The elements of a part of a sequence.
LEMMA ElementsOfSubSeq ==
  ASSUME NEW s, NEW m \in Int, NEW n \in Int
  PROVE  \A i \in 1 .. n - m + 1 : SubSeq(s, m, n)[i] = s[m + i - 1]
OBVIOUS

\* Where the scan of a list is when it has taken the first n objects out of it:
\* behind them, in front of the next one, or behind some tokens of that.
ScanAt(l, n, before) ==
  /\ n \in 0 .. Len(l) /\ layers = before \cup {l[i] : i \in 1 .. n}
  /\ \/ start = 0 /\ braces = 0 /\ pos = End(l, n) + 1
     \/ start = 0 /\ braces = 0 /\ n < Len(l) /\ pos = Begin(l, n + 1) + 1
     \/ /\ n < Len(l) /\ start = Begin(l, n + 1) + 1
        /\ \E k \in 1 .. Len(l[n + 1]) - 1 :
             pos = Begin(l, n + 1) + 1 + k /\ braces = Depth(l[n + 1], k)

\* A step of the scan stays among the objects of the list, the layers being
\* those it has passed: commas inside an object, inner objects and what is
\* behind the list do not mislead it (tile-smush.cpp:170-199).
LEMMA ScanStep ==
  ASSUME NEW l \in Seq(Objects), NEW v \in Texts, text = Commas(l) \o v,
         NEW n, NEW before, ScanAt(l, n, before), Scan
  PROVE  \E m \in {n, n + 1} : ScanAt(l, m, before)'
<1>1. /\ Len(l) \in Nat /\ n \in Nat /\ n <= Len(l) /\ End(l, n) \in Nat
      /\ n = 0 => End(l, n) = 0
  BY Places DEF ScanAt
<1>2. /\ text \in Texts /\ Marked(text, l)
      /\ n < Len(l) => \A k \in 1 .. Len(l[n + 1]) : text[Begin(l, n + 1) + k] = l[n + 1][k]
  <2>1. n < Len(l) => n + 1 \in 1 .. Len(l)
    BY <1>1
  <2> QED
    BY <2>1, Shape
<1>3. /\ text[pos] # "]" /\ UNCHANGED text /\ pos' = pos + 1
  BY DEF Scan, Scanning
<1>4. n < Len(l) =>
        /\ l[n + 1] \in Objects /\ Len(l[n + 1]) \in Nat /\ Len(l[n + 1]) > 1
        /\ Begin(l, n + 1) \in Nat /\ Begin(l, n + 1) = End(l, n) + Lead(n + 1)
        /\ End(l, n + 1) = Begin(l, n + 1) + Len(l[n + 1])
        /\ (n > 0 => Lead(n + 1) = 1) /\ (n = 0 => Lead(n + 1) = 0)
  <2> SUFFICES ASSUME n < Len(l)
               PROVE  /\ l[n + 1] \in Objects /\ Len(l[n + 1]) \in Nat /\ Len(l[n + 1]) > 1
                      /\ Begin(l, n + 1) \in Nat /\ Begin(l, n + 1) = End(l, n) + Lead(n + 1)
                      /\ End(l, n + 1) = Begin(l, n + 1) + Len(l[n + 1])
                      /\ (n > 0 => Lead(n + 1) = 1) /\ (n = 0 => Lead(n + 1) = 0)
    BY Zenon
  <2>1. n + 1 \in 1 .. Len(l)
    BY <1>1
  <2>2. /\ Begin(l, n + 1) = End(l, n) + Lead(n + 1)
        /\ End(l, n + 1) = Begin(l, n + 1) + Len(l[n + 1])
    BY <1>1, <2>1, Adds
  <2>3. Lead(n + 1) \in Nat /\ (n > 0 => Lead(n + 1) = 1) /\ (n = 0 => Lead(n + 1) = 0)
    BY <1>1 DEF Lead
  <2>4. l[n + 1] \in Objects /\ Len(l[n + 1]) \in Nat /\ Len(l[n + 1]) > 1
    BY <2>1, PieceIs, DepthOfObject
  <2> QED
    BY <1>1, <2>2, <2>3, <2>4
\* behind an object, and the first object is not there yet: a comma
<1>5. CASE start = 0 /\ braces = 0 /\ pos = End(l, n) + 1 /\ n > 0
  <2>1. n < Len(l)
    <3>1. n # Len(l)
      BY <1>2, <1>3, <1>5, Zenon DEF Marked
    <3> QED
      BY <1>1, <3>1
  <2>2. text[pos] = ","
    <3>1. n \in 1 .. Len(l)
      BY <1>1, <1>5
    <3> QED
      BY <1>2, <1>5, <2>1, <3>1, Zenon DEF Marked
  <2>3. start' = 0 /\ braces' = 0 /\ layers' = layers
    <3>1. text[pos] # "{" /\ text[pos] # "}"
      BY <2>2
    <3>2. braces + 0 = 0
      BY <1>5
    <3> QED
      BY <1>5, <3>1, <3>2, Zenon DEF Scan
  <2>4. pos' = Begin(l, n + 1) + 1
    BY <1>1, <1>3, <1>4, <1>5, <2>1
  <2> QED
    BY <1>1, <2>1, <2>3, <2>4 DEF ScanAt
\* in front of an object: its first brace
<1>6. ASSUME start = 0, braces = 0, n < Len(l), pos = Begin(l, n + 1) + 1
      PROVE  ScanAt(l, n, before)'
  <2> DEFINE o == l[n + 1]
  <2>1. o \in Objects /\ Len(o) > 1 /\ Len(o) \in Nat /\ Depth(o, 1) = 1 /\ 1 \in 1 .. Len(o) - 1
    BY <1>4, <1>6, DepthOfObject
  <2>2. text[pos] = "{"
    <3>1. o[1] = "{"
      BY <2>1, VectorLayersAssumption DEF Balanced
    <3>2. 1 \in 1 .. Len(o)
      BY <2>1
    <3>3. text[pos] = o[1]
      BY <1>2, <1>6, <3>2, Zenon
    <3> QED
      BY <3>1, <3>3, Zenon
  <2>3. start' = pos /\ braces' = 1 /\ layers' = layers
    <3>1. braces + 1 = 1 /\ 1 # 0
      BY <1>6
    <3> QED
      BY <1>6, <2>2, <3>1, Zenon DEF Scan
  <2>4. pos' = Begin(l, n + 1) + 1 + 1
    BY <1>3, <1>6
  <2> HIDE DEF o
  <2>5. /\ n < Len(l) /\ start' = Begin(l, n + 1) + 1
        /\ \E k \in 1 .. Len(o) - 1 :
             pos' = Begin(l, n + 1) + 1 + k /\ braces' = Depth(o, k)
    BY <1>6, <2>1, <2>3, <2>4
  <2> QED
    BY <2>3, <2>5 DEF ScanAt, o
\* within an object
<1>7. ASSUME n < Len(l), start = Begin(l, n + 1) + 1,
             NEW k \in 1 .. Len(l[n + 1]) - 1,
             pos = Begin(l, n + 1) + 1 + k, braces = Depth(l[n + 1], k)
      PROVE  \E m \in {n, n + 1} : ScanAt(l, m, before)'
  <2> DEFINE o == l[n + 1]
             d == Depth(o, k + 1)
             b == Begin(l, n + 1)
             c == text[pos]
  <2>1. /\ o \in Objects /\ Len(o) \in Nat /\ k \in Nat /\ k + 1 \in 1 .. Len(o)
        /\ d = braces + Delta(o[k + 1]) /\ (d = 0 <=> k + 1 = Len(o))
        /\ b \in Nat /\ pos = b + (k + 1)
    <3>1. o \in Objects /\ Len(o) \in Nat /\ b \in Nat
      BY <1>4, <1>7
    <3>2. k \in Nat /\ k + 1 \in 1 .. Len(o) /\ pos = b + (k + 1)
      BY <1>7, <3>1
    <3> QED
      BY <1>7, <3>1, <3>2, DepthOfObject
  <2>2. c = o[k + 1]
    BY <1>2, <1>7, <2>1, Zenon
  <2>3. start # 0 /\ start = b + 1
    BY <1>7, <2>1
  <2>4. braces' = d
    <3>1. braces' = braces + Delta(c)
      BY DEF Scan, Delta
    <3> QED
      BY <2>1, <2>2, <3>1, Zenon
  <2>5. /\ layers' = IF d = 0 THEN layers \cup {SubSeq(text, start, pos)} ELSE layers
        /\ start' = IF d = 0 THEN 0 ELSE start
    BY <2>3, <2>4, Zenon DEF Scan
  <2>6. CASE k + 1 = Len(o)
    <3>1. SubSeq(text, start, pos) = o
      <4>1. o \in Seq(Tokens) /\ text \in Seq(Tokens)
        BY <1>2, <2>1, ObjectsAreTexts DEF Texts
      <4>2. \A i \in 1 .. Len(o) : text[b + i] = o[i]
        BY <1>2, <1>7
      <4>3. End(l, n + 1) + 1 \in DOMAIN text
        <5>1. n + 1 \in 0 .. Len(l)
          BY <1>1, <1>7
        <5> QED
          BY <5>1, Shape
      <4>4. b + Len(o) <= Len(text)
        BY <1>4, <1>7, <2>1, <4>1, <4>3
      <4> HIDE DEF o, b, d, c
      <4> DEFINE p == SubSeq(text, start, pos)
      <4>5. /\ start = b + 1 /\ pos = b + Len(o) /\ b \in Nat /\ Len(o) \in Nat
        BY <2>1, <2>3, <2>6
      <4>6. \A i \in start .. pos : i \in 1 .. Len(text) /\ text[i] \in Tokens
        BY <4>1, <4>4, <4>5
      <4>7. /\ p \in Seq(Tokens) /\ Len(p) = pos - start + 1
            /\ \A i \in 1 .. pos - start + 1 : p[i] = text[start + i - 1]
        <5>1. start \in Int /\ pos \in Int /\ start <= pos
          BY <2>1, <4>5
        <5>2. \A i \in start .. pos : text[i] \in Tokens
          BY <4>6
        <5>3. p \in Seq(Tokens)
          BY <5>1, <5>2, SubSeqProperties, Zenon
        <5>4. Len(p) = pos - start + 1
          BY <5>1
        <5>5. \A i \in 1 .. pos - start + 1 : p[i] = text[start + i - 1]
          BY <5>1, ElementsOfSubSeq, Zenon
        <5> QED
          BY <5>3, <5>4, <5>5
      <4>8. \A i \in 1 .. Len(o) : p[i] = o[i]
        <5> TAKE i \in 1 .. Len(o)
        <5>1. i \in 1 .. pos - start + 1 /\ start + i - 1 = b + i
          BY <4>5
        <5> QED
          BY <4>2, <4>7, <5>1
      <4>9. Len(p) = Len(o)
        BY <4>5, <4>7
      <4> HIDE DEF p
      <4>10. p = o
        BY <4>1, <4>7, <4>8, <4>9, SeqEqual
      <4> QED
        BY <4>10 DEF p
    <3>2. layers' = layers \cup {o} /\ start' = 0 /\ braces' = 0
      BY <2>1, <2>4, <2>5, <2>6, <3>1
    <3>3. pos' = End(l, n + 1) + 1
      BY <1>3, <1>4, <1>7, <2>1, <2>6
    <3>4. layers' = before \cup {l[i] : i \in 1 .. n + 1} /\ n + 1 \in 0 .. Len(l)
      <4>1. layers' = (before \cup {l[i] : i \in 1 .. n}) \cup {l[n + 1]}
        BY <3>2 DEF ScanAt
      <4>2. 1 .. n + 1 = (1 .. n) \cup {n + 1}
        BY <1>1
      <4> QED
        BY <1>1, <1>7, <4>1, <4>2
    <3> QED
      BY <3>2, <3>3, <3>4 DEF ScanAt
  <2>7. CASE k + 1 # Len(o)
    <3>1. layers' = layers /\ start' = b + 1 /\ braces' = d /\ pos' = b + 1 + (k + 1)
      BY <1>3, <2>1, <2>3, <2>4, <2>5, <2>7
    <3>2. k + 1 \in 1 .. Len(o) - 1
      BY <2>1, <2>7
    <3>3. \E j \in 1 .. Len(o) - 1 : pos' = b + 1 + j /\ braces' = Depth(o, j)
      BY <3>1, <3>2, Zenon
    <3> QED
      BY <1>7, <3>1, <3>3 DEF ScanAt
  <2> QED
    BY <2>6, <2>7
<1>8. CASE start = 0 /\ braces = 0 /\ pos = End(l, n) + 1 /\ n = 0
  <2>1. n < Len(l)
    <3>1. n # Len(l)
      BY <1>2, <1>3, <1>8, Zenon DEF Marked
    <3> QED
      BY <1>1, <3>1
  <2>2. pos = Begin(l, n + 1) + 1
    BY <1>1, <1>4, <1>8, <2>1
  <2> QED
    BY <1>6, <1>8, <2>1, <2>2
<1> QED
  <2>1. n > 0 \/ n = 0
    BY <1>1
  <2> QED
    BY <1>5, <1>6, <1>7, <1>8, <2>1 DEF ScanAt

\* When the scan ends it has all objects.
\* When the scan ends at the list's bracket it has taken all objects out of it.
LEMMA ScanEnd ==
  ASSUME NEW l \in Seq(Objects), NEW v \in Texts, text = Commas(l) \o v,
         NEW n, NEW before, ScanAt(l, n, before), ~Scanning
  PROVE  layers = before \cup ToSet(l)
<1>1. Len(l) \in Nat /\ n \in Nat /\ n <= Len(l) /\ DOMAIN l = 1 .. Len(l)
  BY DEF ScanAt
<1>2. /\ text \in Texts /\ \A m \in 0 .. Len(l) : End(l, m) + 1 \in DOMAIN text
      /\ Marked(text, l)
      /\ \A m \in 1 .. Len(l) : \A k \in 1 .. Len(l[m]) : text[Begin(l, m) + k] = l[m][k]
  <2>1. text \in Texts /\ \A m \in 0 .. Len(l) : End(l, m) + 1 \in DOMAIN text
    BY Shape
  <2>2. Marked(text, l)
    BY Shape
  <2>3. ASSUME NEW m \in 1 .. Len(l), NEW k \in 1 .. Len(l[m])
        PROVE  text[Begin(l, m) + k] = l[m][k]
    BY Shape
  <2> QED
    BY <2>1, <2>2, <2>3
<1>3. n < Len(l) => Scanning
  <2> SUFFICES ASSUME n < Len(l) PROVE Scanning
    BY Zenon
  <2> DEFINE o == l[n + 1]
  <2>1. /\ n \in 0 .. Len(l) /\ n + 1 \in 1 .. Len(l) /\ n + 1 \in 0 .. Len(l)
        /\ o \in Objects /\ Len(o) \in Nat /\ Len(o) > 1
        /\ Begin(l, n + 1) \in Int /\ End(l, n + 1) = Begin(l, n + 1) + Len(o)
        /\ End(l, n) \in Nat /\ Begin(l, n + 1) >= End(l, n)
    <3>1. n \in 0 .. Len(l) /\ n + 1 \in 1 .. Len(l) /\ n + 1 \in 0 .. Len(l)
      BY <1>1
    <3>2. o \in Objects /\ Len(o) \in Nat /\ Len(o) > 1
      BY <3>1, PieceIs, DepthOfObject
    <3>3. End(l, n) \in Nat /\ Begin(l, n + 1) = End(l, n) + Lead(n + 1) /\ Lead(n + 1) \in Nat
      BY <1>1, <3>1, Places, Adds DEF Lead
    <3>4. End(l, n + 1) = Begin(l, n + 1) + Len(o)
      BY <1>1, <3>1, Adds
    <3> QED
      BY <3>1, <3>2, <3>3, <3>4
  <2>2. \A k \in 1 .. Len(o) : /\ Begin(l, n + 1) + k \in DOMAIN text
                                 /\ text[Begin(l, n + 1) + k] # "]"
    <3> TAKE k \in 1 .. Len(o)
    <3>1. Begin(l, n + 1) + k \in DOMAIN text
      <4>1. text \in Seq(Tokens) /\ End(l, n + 1) + 1 \in DOMAIN text
        BY <1>2, <2>1 DEF Texts
      <4> QED
        BY <2>1, <4>1
    <3>2. text[Begin(l, n + 1) + k] = o[k]
      BY <1>2, <2>1
    <3> QED
      BY <2>1, <3>1, <3>2, NoBracket
  <2>3. CASE pos = End(l, n) + 1 /\ n > 0
    <3>3. n \in 1 .. Len(l)
      BY <1>1, <2>3
    <3>1. text[pos] = ","
      BY <1>2, <2>3, <3>3, Zenon DEF Marked
    <3>2. pos \in DOMAIN text
      BY <1>2, <2>1, <2>3
    <3> QED
      BY <3>1, <3>2 DEF Scanning
  <2>5. ASSUME NEW k \in 1 .. Len(o), pos = Begin(l, n + 1) + k PROVE Scanning
    BY <2>2, <2>5, Zenon DEF Scanning
  <2>6. CASE pos = End(l, n) + 1 /\ n = 0
    <3>1. Begin(l, n + 1) = End(l, n)
      <4>1. Begin(l, n + 1) = End(l, n) + Lead(n + 1)
        BY <1>1, <2>1, Adds
      <4>2. Lead(n + 1) = 0
        BY <2>6 DEF Lead
      <4> QED
        BY <2>1, <4>1, <4>2
    <3>2. 1 \in 1 .. Len(o)
      BY <2>1
    <3> QED
      BY <2>5, <2>6, <3>1, <3>2, Zenon
  <2>7. CASE pos = Begin(l, n + 1) + 1
    <3>1. 1 \in 1 .. Len(o)
      BY <2>1
    <3> QED
      BY <2>5, <2>7, <3>1, Zenon
  <2>8. ASSUME NEW k \in 1 .. Len(o) - 1, pos = Begin(l, n + 1) + 1 + k PROVE Scanning
    <3>1. k + 1 \in 1 .. Len(o) /\ pos = Begin(l, n + 1) + (k + 1)
      BY <2>1, <2>8
    <3> QED
      BY <2>5, <3>1, Zenon
  <2>9. n > 0 \/ n = 0
    BY <1>1
  <2> QED
    BY <2>3, <2>6, <2>7, <2>8, <2>9, Zenon DEF ScanAt
<1>4. n = Len(l)
  <2>1. n < Len(l) => FALSE
    BY <1>3, Zenon
  <2>2. Len(l) \in Nat /\ n \in Nat /\ n <= Len(l)
    BY <1>1
  <2> QED
    BY <2>1, <2>2
<1> QED
  BY <1>1, <1>4 DEF ScanAt, ToSet

-----------------------------------------------------------------------------
(* What has been gathered, and what is written of it.                      *)

LEMMA SomeInputs == Inputs \in Nat \ {0}
BY MetadataAssumption

USE SomeInputs DEF Input

Reading == phase \in {"gather", "scan"}
Writing == phase \in {"dump", "minzoom", "maxzoom", "json", "done"}

PlaceInv ==
  /\ Reading \/ Writing \/ phase = "threw"
  /\ DOMAIN meta = Input /\ current \in Input
  /\ unread \subseteq DOMAIN meta[current]
  /\ Writing => current = Inputs /\ unread = {}

\* An entry that main() has looked at.
Read(i, n) == n \in DOMAIN meta[i] /\ (i < current \/ (i = current /\ n \notin unread))

\* Each gathered entry is that of the last input in which it was met ...
GatheredInv ==
  \A n \in DOMAIN metadata :
    \E i \in Input : /\ Read(i, n) /\ metadata[n] = meta[i][n]
                     /\ \A j \in Input : Read(j, n) => j <= i

\* ... and nothing is written while there is something left to be looked at.
Sound(i, n) == n = "json" => meta[i][n] # NoLayers
SoundInv ==
  phase # "threw" =>
    /\ \A i \in Input : \A n \in DOMAIN meta[i] : Read(i, n) => Sound(i, n)
    /\ \A i \in Input : i < current \/ Writing => "bounds" \in DOMAIN meta[i]
Faulty ==
  \E i \in Input : \/ "bounds" \notin DOMAIN meta[i]
                   \/ "json" \in DOMAIN meta[i] /\ meta[i]["json"] = NoLayers

IInv ==
  /\ PlaceInv /\ GatheredInv /\ SoundInv /\ EntriesWhole
  /\ ~Writing => table = <<>>
  /\ phase = "threw" => Faulty

-----------------------------------------------------------------------------
LEMMA Empty == DOMAIN <<>> = {}
OBVIOUS

\* The value of an entry in the last input that has it.
LEMMA LastIs ==
  ASSUME NEW i \in Input, NEW n \in DOMAIN meta[i],
         \A j \in Input : n \in DOMAIN meta[j] => j <= i
  PROVE  Having(n) # {} /\ LastValue(n) = meta[i][n]
<1> DEFINE IsLast(k) == \A j \in Having(n) : j <= k
           last == CHOOSE k \in Having(n) : IsLast(k)
<1>1. i \in Having(n) /\ IsLast(i)
  BY DEF Having
<1>2. last \in Having(n) /\ IsLast(last)
  <2> HIDE DEF IsLast
  <2> QED
    BY <1>1
<1>3. last = i
  <2> HIDE DEF last
  <2>1. last <= i /\ i <= last /\ last \in Input
    BY <1>1, <1>2 DEF Having
  <2> QED
    BY <2>1
<1> QED
  BY <1>1, <1>3 DEF LastValue

LEMMA Initial == Init => IInv
<1> SUFFICES ASSUME Init PROVE IInv
  OBVIOUS
<1>1. /\ phase = "gather" /\ current = 1 /\ unread = DOMAIN meta[1]
      /\ metadata = <<>> /\ table = <<>> /\ DOMAIN meta = Input
  BY DEF Init
<1>2. PlaceInv /\ ~Writing /\ phase # "threw"
  BY <1>1 DEF PlaceInv, Reading, Writing
<1>3. \A i \in Input : \A n : ~Read(i, n)
  BY <1>1 DEF Read
<1>4. GatheredInv
  BY <1>1, Empty DEF GatheredInv
<1>5. SoundInv
  BY <1>1, <1>2, <1>3 DEF SoundInv
<1>6. EntriesWhole
  BY <1>1, Empty DEF EntriesWhole
<1> QED
  BY <1>1, <1>2, <1>4, <1>5, <1>6 DEF IInv

\* As long as nothing is written there is nothing to say of the table.
LEMMA NothingWritten == table = <<>> => EntriesWhole
BY Empty DEF EntriesWhole

-----------------------------------------------------------------------------
LEMMA ReadEntryKeeps == IInv /\ ReadEntry => IInv'
<1> SUFFICES ASSUME IInv, ReadEntry PROVE IInv'
  OBVIOUS
<1>1. /\ phase = "gather" /\ UNCHANGED <<meta, current, table>>
      /\ table = <<>> /\ current \in Input /\ unread \subseteq DOMAIN meta[current]
      /\ DOMAIN meta = Input
  BY DEF ReadEntry, IInv, PlaceInv, Writing
<1>2. PICK n \in unread :
        /\ unread' = unread \ {n}
        /\ metadata' = With(metadata, n, meta[current][n])
        /\ IF n # "json" THEN phase' = phase
           ELSE IF meta[current][n] = NoLayers THEN phase' = "threw" ELSE phase' = "scan"
  BY DEF ReadEntry
<1>3. n \in DOMAIN meta[current] /\ phase' \in {"gather", "scan", "threw"}
  BY <1>1, <1>2
<1>4. \A i \in Input : \A m : Read(i, m)' <=> Read(i, m) \/ (i = current /\ m = n)
  BY <1>1, <1>2, <1>3 DEF Read
<1>5. PlaceInv' /\ ~Writing'
  BY <1>1, <1>2, <1>3 DEF PlaceInv, Reading, Writing
<1>6. GatheredInv'
  <2>3. /\ DOMAIN metadata' = DOMAIN metadata \cup {n} /\ metadata'[n] = meta[current][n]
        /\ \A k \in DOMAIN metadata \ {n} : metadata'[k] = metadata[k]
    BY <1>2 DEF With
  <2> SUFFICES ASSUME NEW m \in DOMAIN metadata'
               PROVE  \E i \in Input : /\ Read(i, m)' /\ metadata'[m] = meta[i][m]
                                       /\ \A j \in Input : Read(j, m)' => j <= i
    BY <1>1 DEF GatheredInv
  <2>1. CASE m = n
    <3>1. metadata'[m] = meta[current][m]
      BY <2>1, <2>3
    <3>2. Read(current, m)'
      BY <1>1, <1>4, <2>1
    <3>3. \A j \in Input : Read(j, m)' => j <= current
      BY <1>1 DEF Read
    <3> QED
      BY <1>1, <3>1, <3>2, <3>3
  <2>2. CASE m # n
    <3>1. m \in DOMAIN metadata /\ metadata'[m] = metadata[m]
      BY <2>2, <2>3
    <3>2. \A i \in Input : Read(i, m)' <=> Read(i, m)
      BY <1>4, <2>2, <3>1
    <3> QED
      BY <3>1, <3>2 DEF IInv, GatheredInv
  <2> QED
    BY <2>1, <2>2
<1>7. SoundInv'
  <2> SUFFICES ASSUME phase' # "threw" PROVE SoundInv'
    BY DEF SoundInv
  <2>1. Sound(current, n)
    BY <1>2 DEF Sound
  <2>2. \A i \in Input : \A m \in DOMAIN meta[i] : Read(i, m)' => Sound(i, m)
    BY <1>1, <1>4, <2>1 DEF IInv, SoundInv
  <2>3. \A i \in Input : i < current => "bounds" \in DOMAIN meta[i]
    BY <1>1 DEF IInv, SoundInv
  <2> QED
    BY <1>1, <1>5, <2>2, <2>3 DEF SoundInv, Sound
<1>8. EntriesWhole' /\ table' = <<>>
  BY <1>1, NothingWritten, Empty DEF EntriesWhole
<1>9. phase' = "threw" => Faulty'
  BY <1>1, <1>2, <1>3 DEF Faulty
<1> QED
  BY <1>5, <1>6, <1>7, <1>8, <1>9 DEF IInv

\* The steps that change the place only.
LEMMA PlaceKeeps ==
  ASSUME IInv, Reading, Reading', UNCHANGED <<meta, current, unread, metadata, table>>
  PROVE  IInv'
<1>1. table' = <<>> /\ ~Writing' /\ ~Writing /\ phase' # "threw" /\ phase # "threw"
  BY DEF IInv, Reading, Writing
<1>2. PlaceInv'
  BY <1>1 DEF IInv, PlaceInv
<1>3. GatheredInv' /\ SoundInv'
  BY <1>1 DEF IInv, GatheredInv, SoundInv, Sound, Read
<1>4. EntriesWhole'
  BY <1>1, Empty DEF EntriesWhole
<1> QED
  BY <1>1, <1>2, <1>3, <1>4 DEF IInv

LEMMA ScanJsonKeeps == IInv /\ ScanJson => IInv'
BY PlaceKeeps DEF ScanJson, gathered, Reading

LEMMA ScanEndsKeeps == IInv /\ ScanEnds => IInv'
BY PlaceKeeps DEF ScanEnds, gathered, Reading

LEMMA ReadBoundsKeeps == IInv /\ ReadBounds => IInv'
<1> SUFFICES ASSUME IInv, ReadBounds PROVE IInv'
  OBVIOUS
<1>1. /\ phase = "gather" /\ unread = {} /\ "bounds" \in DOMAIN meta[current]
      /\ Advance(current) /\ UNCHANGED <<meta, metadata, table>>
      /\ current \in Input /\ DOMAIN meta = Input /\ table = <<>>
  BY DEF ReadBounds, IInv, PlaceInv, Writing
<1>2. EntriesWhole' /\ table' = <<>>
  BY <1>1, Empty DEF EntriesWhole
<1>3. \A i \in Input : i <= current => "bounds" \in DOMAIN meta[i]
  BY <1>1 DEF IInv, SoundInv
<1>4. CASE current < Inputs
  <2>1. current' = current + 1 /\ unread' = DOMAIN meta[current + 1] /\ phase' = phase
    BY <1>1, <1>4 DEF Advance
  <2>2. \A i \in Input : \A m : Read(i, m)' <=> Read(i, m)
    BY <1>1, <2>1 DEF Read
  <2>3. PlaceInv' /\ ~Writing'
    BY <1>1, <1>4, <2>1 DEF PlaceInv, Reading, Writing
  <2>4. GatheredInv'
    BY <1>1, <2>2 DEF IInv, GatheredInv
  <2>5. SoundInv'
    BY <1>1, <1>3, <2>1, <2>2, <2>3 DEF IInv, SoundInv, Sound
  <2> QED
    BY <1>1, <1>2, <2>1, <2>3, <2>4, <2>5 DEF IInv
<1>5. CASE ~(current < Inputs)
  <2>1. current = Inputs /\ phase' = "dump" /\ UNCHANGED <<current, unread>>
    BY <1>1, <1>5 DEF Advance
  <2>2. PlaceInv'
    BY <1>1, <2>1 DEF PlaceInv, Writing
  <2>3. GatheredInv'
    BY <1>1, <2>1 DEF IInv, GatheredInv, Read
  <2>4. SoundInv'
    BY <1>1, <1>3, <2>1 DEF IInv, SoundInv, Sound, Read
  <2> QED
    BY <1>2, <2>1, <2>2, <2>3, <2>4 DEF IInv
<1> QED
  BY <1>4, <1>5

LEMMA NoBoundsKeeps == IInv /\ NoBounds => IInv'
<1> SUFFICES ASSUME IInv, NoBounds PROVE IInv'
  OBVIOUS
<1>1. /\ phase = "gather" /\ "bounds" \notin DOMAIN meta[current] /\ phase' = "threw"
      /\ UNCHANGED <<meta, current, unread, metadata, table>>
      /\ current \in Input /\ table = <<>>
  BY DEF NoBounds, gathered, IInv, PlaceInv, Writing
<1>2. PlaceInv' /\ GatheredInv' /\ SoundInv'
  BY <1>1 DEF IInv, PlaceInv, Writing, GatheredInv, Read, SoundInv
<1>3. EntriesWhole' /\ Faulty'
  BY <1>1, Empty DEF EntriesWhole, Faulty
<1> QED
  BY <1>1, <1>2, <1>3 DEF IInv

-----------------------------------------------------------------------------
\* What a write must write.
Right(n, v) ==
  \/ Having(n) # {} /\ v = LastValue(n)
  \/ n \in Computed /\ v = MergedValue(n)

\* A step that writes an entry, or none.
LEMMA WriteKeeps ==
  ASSUME IInv, Writing, Writing', UNCHANGED <<meta, gathered, scan>>,
         \/ table' = table
         \/ \E n, v : Right(n, v) /\ table' = With(table, n, v)
  PROVE  IInv'
<1>1. UNCHANGED <<meta, current, unread, metadata, minzoom, maxzoom, box, layers>>
  BY DEF gathered, scan
<1>2. \A n : Having(n)' = Having(n) /\ LastValue(n)' = LastValue(n) /\ MergedValue(n)' = MergedValue(n)
  BY <1>1 DEF Having, LastValue, MergedValue
<1>3. phase # "threw" /\ phase' # "threw"
  BY DEF Writing
<1>4. PlaceInv' /\ GatheredInv' /\ SoundInv'
  BY <1>1, <1>3 DEF IInv, PlaceInv, GatheredInv, Read, SoundInv, Sound
<1>5. EntriesWhole'
  <2> SUFFICES ASSUME NEW m \in DOMAIN table' PROVE Right(m, table'[m])
    BY <1>2 DEF EntriesWhole, Right
  <2>1. CASE table' = table
    BY <2>1 DEF IInv, EntriesWhole, Right
  <2>2. ASSUME NEW n, NEW v, Right(n, v), table' = With(table, n, v)
        PROVE  Right(m, table'[m])
    <3>3. /\ DOMAIN table' = DOMAIN table \cup {n} /\ table'[n] = v
          /\ \A k \in DOMAIN table \ {n} : table'[k] = table[k]
      BY <2>2 DEF With
    <3>1. m = n => table'[m] = v
      BY <3>3
    <3>2. m # n => m \in DOMAIN table /\ table'[m] = table[m]
      BY <3>3
    <3> QED
      BY <2>2, <3>1, <3>2 DEF IInv, EntriesWhole, Right
  <2> QED
    BY <2>1, <2>2
<1> QED
  BY <1>3, <1>4, <1>5 DEF IInv

\* When everything has been looked at, what was gathered of an entry is what
\* the last input says.
LEMMA GatheredIsLast ==
  ASSUME IInv, Writing, NEW n \in DOMAIN metadata
  PROVE  Having(n) # {} /\ metadata[n] = LastValue(n)
<1>1. current = Inputs /\ unread = {}
  BY DEF IInv, PlaceInv
<1>2. PICK i \in Input : /\ Read(i, n) /\ metadata[n] = meta[i][n]
                         /\ \A j \in Input : Read(j, n) => j <= i
  BY DEF IInv, GatheredInv
<1>3. \A j \in Input : n \in DOMAIN meta[j] => j <= i
  BY <1>1, <1>2 DEF Read
<1>4. n \in DOMAIN meta[i]
  BY <1>2 DEF Read
<1> QED
  BY <1>2, <1>3, <1>4, LastIs

LEMMA DumpKeeps == IInv /\ Dump => IInv'
<1> SUFFICES ASSUME IInv, Dump PROVE IInv'
  OBVIOUS
<1>1. phase = "dump" /\ UNCHANGED <<phase, meta, gathered, scan>>
  BY DEF Dump
<1>2. Writing /\ Writing'
  BY <1>1 DEF Writing
<1>3. CASE Names[next] \in DOMAIN metadata
  <2>1. table' = With(table, Names[next], metadata[Names[next]])
    BY <1>3 DEF Dump, WriteMetadata
  <2>2. Right(Names[next], metadata[Names[next]])
    BY <1>2, <1>3, GatheredIsLast DEF Right
  <2> QED
    BY <1>1, <1>2, <2>1, <2>2, WriteKeeps
<1>4. CASE Names[next] \notin DOMAIN metadata
  BY <1>1, <1>2, <1>4, WriteKeeps DEF Dump
<1> QED
  BY <1>3, <1>4

LEMMA OverwriteKeeps ==
  ASSUME NEW from \in {"dump", "minzoom", "maxzoom", "json"}, NEW n \in Computed,
         NEW to \in {"minzoom", "maxzoom", "json", "done"}
  PROVE  IInv /\ Overwrite(from, n, to) => IInv'
<1> SUFFICES ASSUME IInv, Overwrite(from, n, to) PROVE IInv'
  OBVIOUS
<1>1. Writing /\ Writing' /\ UNCHANGED <<meta, gathered, scan>>
  BY DEF Overwrite, Writing
<1>2. Right(n, MergedValue(n)) /\ table' = With(table, n, MergedValue(n))
  BY DEF Right, Overwrite, WriteMetadata
<1> QED
  BY <1>1, <1>2, WriteKeeps

LEMMA WritesKeep == IInv /\ (WriteBounds \/ WriteMinzoom \/ WriteMaxzoom \/ WriteJson) => IInv'
BY OverwriteKeeps DEF WriteBounds, WriteMinzoom, WriteMaxzoom, WriteJson, Computed

LEMMA MergeAgainKeeps == IInv /\ MergeAgain => IInv'
<1> SUFFICES ASSUME IInv, MergeAgain PROVE IInv'
  OBVIOUS
<1>1. /\ phase' = "gather" /\ current' = 1 /\ unread' = DOMAIN table
      /\ meta' = [meta EXCEPT ![1] = table] /\ metadata' = <<>> /\ table' = <<>>
  BY DEF MergeAgain
<1>2. DOMAIN meta' = Input /\ unread' = DOMAIN meta'[1] /\ 1 \in Input
  BY <1>1 DEF IInv, PlaceInv
<1>3. PlaceInv' /\ ~Writing' /\ phase' # "threw"
  BY <1>1, <1>2 DEF PlaceInv, Reading, Writing
<1>4. \A i \in Input : \A n : ~Read(i, n)'
  BY <1>1, <1>2 DEF Read
<1>5. GatheredInv' /\ EntriesWhole'
  BY <1>1, Empty DEF GatheredInv, EntriesWhole
<1>6. SoundInv'
  BY <1>1, <1>3, <1>4 DEF SoundInv
<1> QED
  BY <1>1, <1>3, <1>5, <1>6 DEF IInv

LEMMA NextKeeps == IInv /\ [Next]_vars => IInv'
<1> SUFFICES ASSUME IInv, [Next]_vars PROVE IInv'
  OBVIOUS
<1>1. CASE UNCHANGED vars
  <2>1. UNCHANGED <<phase, meta, current, unread, metadata, minzoom, maxzoom, box, layers, table>>
    BY <1>1 DEF vars, gathered, scan
  <2>2. PlaceInv' /\ GatheredInv' /\ SoundInv' /\ (phase' = "threw" => Faulty')
    BY <2>1 DEF IInv, PlaceInv, Reading, Writing, GatheredInv, Read, SoundInv, Sound, Faulty
  <2>3. EntriesWhole'
    BY <2>1 DEF IInv, EntriesWhole, Having, LastValue, MergedValue
  <2>4. ~Writing' => table' = <<>>
    BY <2>1 DEF IInv, Writing
  <2> QED
    BY <2>2, <2>3, <2>4 DEF IInv
<1>2. CASE Next
  BY <1>2, <1>1, ReadEntryKeeps, ScanJsonKeeps, ScanEndsKeeps, ReadBoundsKeeps, NoBoundsKeeps,
     DumpKeeps, WritesKeep, MergeAgainKeeps DEF Next, Step, Ended
<1> QED
  BY <1>1, <1>2

LEMMA Inductive == Spec => []IInv
<1>1. IInv /\ [Next]_vars => IInv'
  BY NextKeeps
<1> QED
  BY Initial, <1>1, PTL DEF Spec

-----------------------------------------------------------------------------
\* All inputs are read before anything is written, and the process throws if and
\* only if one of them lacks what it needs (tile-smush.cpp:164-166,
\* mbtiles.cpp:181-187).
THEOREM NothingHalfWritten == Spec => []ThrowsBeforeWriting
<1>1. IInv => ThrowsBeforeWriting
  <2> SUFFICES ASSUME IInv PROVE ThrowsBeforeWriting
    OBVIOUS
  <2>1. phase \in {"gather", "scan", "threw"} => table = <<>>
    BY DEF IInv, Writing
  <2>2. phase = "threw" => Faulty
    BY DEF IInv
  <2>3. ASSUME phase = "done" PROVE ~Faulty
    <3>1. Writing /\ current = Inputs /\ unread = {}
      BY <2>3 DEF IInv, PlaceInv, Writing
    <3>2. \A i \in Input : "bounds" \in DOMAIN meta[i]
      BY <2>3, <3>1 DEF IInv, SoundInv
    <3>3. \A i \in Input : "json" \in DOMAIN meta[i] => Read(i, "json")
      BY <3>1 DEF Read
    <3>4. \A i \in Input : "json" \in DOMAIN meta[i] => meta[i]["json"] # NoLayers
      BY <2>3, <3>3 DEF IInv, SoundInv, Sound
    <3> QED
      BY <3>2, <3>4 DEF Faulty
  <2> QED
    BY <2>1, <2>2, <2>3 DEF ThrowsBeforeWriting, Faulty
<1> QED
  BY Inductive, <1>1, PTL

\* Whenever the process is killed, an entry that is there is the merged one or the
\* last input's, never a mixture (tile-smush.cpp:211-238).
THEOREM NoMixture == Spec => []EntriesWhole
<1>1. IInv => EntriesWhole
  BY DEF IInv
<1> QED
  BY Inductive, <1>1, PTL

-----------------------------------------------------------------------------
(***************************************************************************)
(* What the merged table says of the inputs.  The invariant has a part for *)
(* the layers, one for the zooms, one for the bounds and one for the       *)
(* entries written; and the tables are those the module assumes, also the  *)
(* one that an earlier merge has written.                                  *)
(***************************************************************************)

LayersOf(S) == UNION {ToSet(meta[i]["json"].list) : i \in S}
LayersInv ==
  /\ IsFiniteSet(layers) /\ layers \subseteq Objects
  /\ phase = "gather" \/ Writing => layers = LayersOf(Scanned)
  /\ phase = "scan" =>
       /\ Read(current, "json") /\ meta[current]["json"] # NoLayers
       /\ text = Text(meta[current]["json"])
       /\ \E n \in 0 .. Len(meta[current]["json"].list) :
            ScanAt(meta[current]["json"].list, n, LayersOf({i \in Having("json") : i < current}))

\* The zooms cover those that were met.
ZoomsInv ==
  /\ minzoom \in Nat /\ maxzoom \in Nat
  /\ \A i \in Input : /\ Read(i, "minzoom") => minzoom <= meta[i]["minzoom"]
                      /\ Read(i, "maxzoom") => meta[i]["maxzoom"] <= maxzoom

\* So does the box, and it is no larger than necessary but for what it starts with.
Covers(b, c) ==
  b.minLon <= c.minLon /\ b.minLat <= c.minLat /\ c.maxLon <= b.maxLon /\ c.maxLat <= b.maxLat
BoundsRead(i) == i < current \/ Writing
Reached(d, start0) ==
  box[d] = start0 \/ \E i \in Input : BoundsRead(i) /\ meta[i]["bounds"][d] = box[d]
BoxInv ==
  /\ box \in [minLon : Int, minLat : Int, maxLon : Int, maxLat : Int]
  /\ \A i \in Input : BoundsRead(i) => Covers(box, meta[i]["bounds"])
  /\ Reached("minLon", Big) /\ Reached("minLat", Big)
  /\ Reached("maxLon", Tiny) /\ Reached("maxLat", Tiny)

\* What has been written at which place.
Written(n) == n \in DOMAIN table /\ table[n] = MergedValue(n)
TableInv ==
  /\ \A n : n \in DOMAIN metadata <=> \E i \in Input : Read(i, n)
  /\ next \in Nat \ {0} /\ (~Writing /\ phase # "threw" => next = 1)
  /\ DOMAIN table \subseteq DOMAIN metadata \cup Computed
  /\ phase = "dump" =>
       \A k \in 1 .. Len(Names) : k < next /\ Names[k] \in DOMAIN metadata => Names[k] \in DOMAIN table
  /\ Writing /\ phase # "dump" => DOMAIN metadata \subseteq DOMAIN table
  /\ phase \in {"minzoom", "maxzoom", "json", "done"} => Written("bounds")
  /\ phase \in {"maxzoom", "json", "done"} => Written("minzoom")
  /\ phase \in {"json", "done"} => Written("maxzoom")
  /\ phase = "done" => Written("json")
FormInv == \A i \in Input : IsMeta(meta[i])

LEMMA Numbers == Tiny \in Nat \ {0} /\ Big \in Nat /\ Tiny < Big
BY MetadataAssumption

MInv == IInv /\ FormInv /\ LayersInv /\ ZoomsInv /\ BoxInv /\ TableInv

LEMMA InitialM == Init => MInv
<1> SUFFICES ASSUME Init PROVE MInv
  OBVIOUS
<1>1. /\ phase = "gather" /\ current = 1 /\ unread = DOMAIN meta[1] /\ meta \in [Input -> Metas]
      /\ metadata = <<>> /\ table = <<>> /\ layers = {} /\ next = 1 /\ 1 \in Input
      /\ minzoom = 100 /\ maxzoom = 0 /\ box = NoBox
  BY DEF Init
<1>2. ~Writing /\ \A i \in Input : \A n : ~Read(i, n)
  BY <1>1 DEF Read, Writing
<1>3. FormInv
  BY <1>1, MetadataAssumption DEF FormInv
<1>4. LayersInv
  <2>1. Scanned = {}
    BY <1>1 DEF Scanned, Having
  <2>2. LayersOf(Scanned) = {}
    BY <2>1 DEF LayersOf
  <2> QED
    BY <1>1, <1>2, <2>2, FS_EmptySet DEF LayersInv
<1>5. ZoomsInv
  BY <1>1, <1>2 DEF ZoomsInv
<1>6. BoxInv
  <2>1. /\ box.minLon = Big /\ box.minLat = Big /\ box.maxLon = Tiny /\ box.maxLat = Tiny
        /\ box \in [minLon : Int, minLat : Int, maxLon : Int, maxLat : Int]
    BY <1>1, Numbers DEF NoBox
  <2>2. \A i \in Input : ~BoundsRead(i)
    BY <1>1, <1>2 DEF BoundsRead
  <2> QED
    BY <2>1, <2>2 DEF BoxInv, Reached
<1>7. TableInv
  BY <1>1, <1>2, Empty DEF TableInv
<1> QED
  BY <1>3, <1>4, <1>5, <1>6, <1>7, Initial DEF MInv

\* The steps that only move on or write.
Calm ==
  /\ UNCHANGED <<meta, current, unread, metadata, minzoom, maxzoom, box>>
  /\ UNCHANGED <<text, pos, start, braces, layers>>
  /\ Writing' <=> Writing
  /\ phase' = phase \/ Writing' \/ phase' = "threw" \/ ScanEnds

LEMMA Kinds ==
  ASSUME [Next]_vars
  PROVE  ReadEntry \/ ScanJson \/ ReadBounds \/ MergeAgain \/ Calm
<1>1. CASE ScanEnds \/ NoBounds \/ Dump
  BY <1>1 DEF ScanEnds, NoBounds, Dump, Calm, gathered, scan, Writing
<1>2. CASE WriteBounds \/ WriteMinzoom \/ WriteMaxzoom \/ WriteJson
  BY <1>2 DEF WriteBounds, WriteMinzoom, WriteMaxzoom, WriteJson, Overwrite, Calm, gathered, scan,
     Writing
<1>3. CASE UNCHANGED vars
  BY <1>3 DEF vars, Calm, gathered, scan, Writing
<1> QED
  BY <1>1, <1>2, <1>3 DEF Next, Step, Ended

LEMMA ReadSame == IInv /\ ReadBounds => \A i \in Input : \A n : Read(i, n)' <=> Read(i, n)
<1> SUFFICES ASSUME IInv, ReadBounds PROVE \A i \in Input : \A n : Read(i, n)' <=> Read(i, n)
  OBVIOUS
<1>1. /\ unread = {} /\ Advance(current) /\ UNCHANGED meta /\ current \in Input
  BY DEF ReadBounds, IInv, PlaceInv
<1>2. CASE current < Inputs
  BY <1>1, <1>2 DEF Advance, Read
<1>3. CASE ~(current < Inputs)
  BY <1>1, <1>3 DEF Advance, Read
<1> QED
  BY <1>2, <1>3

LEMMA ReadMore ==
  ASSUME IInv, ReadEntry
  PROVE  \E n \in DOMAIN meta[current] :
           /\ n \in unread /\ unread' = unread \ {n}
           /\ metadata' = With(metadata, n, meta[current][n])
           /\ minzoom' = IF n = "minzoom" /\ meta[current][n] < minzoom THEN meta[current][n] ELSE minzoom
           /\ maxzoom' = IF n = "maxzoom" /\ meta[current][n] > maxzoom THEN meta[current][n] ELSE maxzoom
           /\ IF n # "json" THEN phase' = phase
              ELSE IF meta[current][n] = NoLayers THEN phase' = "threw"
              ELSE phase' = "scan" /\ StartScan(meta[current][n])
           /\ \A i \in Input : \A m : Read(i, m)' <=> Read(i, m) \/ (i = current /\ m = n)
<1>1. unread \subseteq DOMAIN meta[current] /\ current \in Input
  BY DEF IInv, PlaceInv
<1>2. PICK n \in unread :
        /\ unread' = unread \ {n}
        /\ metadata' = With(metadata, n, meta[current][n])
        /\ minzoom' = IF n = "minzoom" /\ meta[current][n] < minzoom THEN meta[current][n] ELSE minzoom
        /\ maxzoom' = IF n = "maxzoom" /\ meta[current][n] > maxzoom THEN meta[current][n] ELSE maxzoom
        /\ IF n # "json" THEN phase' = phase
           ELSE IF meta[current][n] = NoLayers THEN phase' = "threw"
           ELSE phase' = "scan" /\ StartScan(meta[current][n])
  BY Zenon DEF ReadEntry
<1>3. UNCHANGED <<meta, current>>
  BY DEF ReadEntry
<1>4. \A i \in Input : \A m : Read(i, m)' <=> Read(i, m) \/ (i = current /\ m = n)
  BY <1>1, <1>2, <1>3 DEF Read
<1> QED
  BY <1>1, <1>2, <1>4, Zenon

LEMMA ZoomsKeep == MInv /\ [Next]_vars => ZoomsInv'
<1> SUFFICES ASSUME MInv, [Next]_vars PROVE ZoomsInv'
  OBVIOUS
<1>1. minzoom \in Nat /\ maxzoom \in Nat /\ IInv /\ ZoomsInv /\ FormInv
  BY DEF MInv, ZoomsInv
<1>2. CASE ReadEntry
  <2>1. UNCHANGED meta /\ current \in Input
    BY <1>1, <1>2 DEF ReadEntry, IInv, PlaceInv
  <2>2. PICK n \in DOMAIN meta[current] :
          /\ minzoom' = IF n = "minzoom" /\ meta[current][n] < minzoom THEN meta[current][n] ELSE minzoom
          /\ maxzoom' = IF n = "maxzoom" /\ meta[current][n] > maxzoom THEN meta[current][n] ELSE maxzoom
          /\ \A i \in Input : \A m : Read(i, m)' <=> Read(i, m) \/ (i = current /\ m = n)
    BY <1>1, <1>2, ReadMore, Zenon
  <2>3. \A i \in Input : /\ "minzoom" \in DOMAIN meta[i] => meta[i]["minzoom"] \in Nat
                         /\ "maxzoom" \in DOMAIN meta[i] => meta[i]["maxzoom"] \in Nat
    BY <1>1 DEF FormInv, IsMeta
  <2>4. \A i \in Input : \A m : Read(i, m) => m \in DOMAIN meta[i]
    BY DEF Read
  <2>5. \A i \in Input : /\ Read(i, "minzoom") => minzoom <= meta[i]["minzoom"]
                         /\ Read(i, "maxzoom") => meta[i]["maxzoom"] <= maxzoom
    BY <1>1 DEF ZoomsInv
  <2>6. minzoom' \in Nat /\ minzoom' <= minzoom /\ (n = "minzoom" => minzoom' <= meta[current][n])
    BY <1>1, <2>1, <2>2, <2>3
  <2>7. maxzoom' \in Nat /\ maxzoom <= maxzoom' /\ (n = "maxzoom" => meta[current][n] <= maxzoom')
    BY <1>1, <2>1, <2>2, <2>3
  <2>8. ASSUME NEW i \in Input, Read(i, "minzoom")' PROVE minzoom' <= meta[i]["minzoom"]
    BY <1>1, <2>1, <2>2, <2>3, <2>4, <2>5, <2>6, <2>8
  <2>9. ASSUME NEW i \in Input, Read(i, "maxzoom")' PROVE meta[i]["maxzoom"] <= maxzoom'
    BY <1>1, <2>1, <2>2, <2>3, <2>4, <2>5, <2>7, <2>9
  <2> QED
    BY <2>1, <2>6, <2>7, <2>8, <2>9 DEF ZoomsInv
<1>3. CASE ReadBounds
  <2>1. UNCHANGED <<meta, minzoom, maxzoom>>
    BY <1>3 DEF ReadBounds
  <2> QED
    BY <1>1, <1>3, <2>1, ReadSame DEF ZoomsInv
<1>4. CASE MergeAgain
  <2>1. minzoom' = 100 /\ maxzoom' = 0 /\ \A i \in Input : \A n : ~Read(i, n)'
    <3>1. current' = 1 /\ unread' = DOMAIN meta'[1] /\ minzoom' = 100 /\ maxzoom' = 0
      BY <1>1, <1>4 DEF MergeAgain, IInv, PlaceInv
    <3> QED
      BY <3>1 DEF Read
  <2> QED
    BY <2>1 DEF ZoomsInv
<1>5. CASE ScanJson
  BY <1>1, <1>5 DEF ScanJson, gathered, ZoomsInv, Read
<1>6. CASE Calm
  BY <1>1, <1>6 DEF Calm, ZoomsInv, Read
<1> QED
  BY <1>2, <1>3, <1>4, <1>5, <1>6, Kinds

IntBoxes == [minLon : Int, minLat : Int, maxLon : Int, maxLat : Int]

LEMMA BoxesAreInts == Boxes \subseteq IntBoxes
BY DEF Boxes, IntBoxes, Degrees

\* The union of two boxes encloses both, and each side is that of one of them.
LEMMA UnionIs ==
  ASSUME NEW b \in IntBoxes, NEW c \in IntBoxes
  PROVE  LET u == Union(b, c)
         IN  /\ u \in IntBoxes /\ Covers(u, c)
             /\ \A e \in IntBoxes : Covers(b, e) => Covers(u, e)
             /\ u["minLon"] \in {b["minLon"], c["minLon"]}
             /\ u["minLat"] \in {b["minLat"], c["minLat"]}
             /\ u["maxLon"] \in {b["maxLon"], c["maxLon"]}
             /\ u["maxLat"] \in {b["maxLat"], c["maxLat"]}
BY DEF IntBoxes, Union, Covers

LEMMA BoxKeeps == MInv /\ [Next]_vars => BoxInv'
<1> SUFFICES ASSUME MInv, [Next]_vars PROVE BoxInv'
  OBVIOUS
<1>1. IInv /\ BoxInv /\ FormInv /\ box \in IntBoxes
  BY DEF MInv, BoxInv, IntBoxes
<1>2. ASSUME UNCHANGED <<meta, current, box>>, Writing' <=> Writing
      PROVE  BoxInv'
  BY <1>1, <1>2 DEF BoxInv, BoundsRead, Reached
<1>3. CASE ReadBounds
  <2> DEFINE c == meta[current]["bounds"]
  <2>1. /\ current \in Input /\ UNCHANGED meta /\ Advance(current) /\ phase = "gather"
        /\ "bounds" \in DOMAIN meta[current] /\ box' = Union(box, c)
    BY <1>1, <1>3 DEF ReadBounds, IInv, PlaceInv
  <2>2. \A i \in Input : BoundsRead(i)' <=> BoundsRead(i) \/ i = current
    <3>1. CASE current < Inputs
      BY <2>1, <3>1 DEF Advance, BoundsRead, Writing
    <3>2. CASE ~(current < Inputs)
      BY <2>1, <3>2 DEF Advance, BoundsRead, Writing
    <3> QED
      BY <3>1, <3>2
  <2>3. \A i \in Input : BoundsRead(i) => meta[i]["bounds"] \in IntBoxes
    <3> TAKE i \in Input
    <3>1. BoundsRead(i) => "bounds" \in DOMAIN meta[i]
      BY <1>1, <2>1 DEF IInv, SoundInv, BoundsRead
    <3>2. "bounds" \in DOMAIN meta[i] => meta[i]["bounds"] \in Boxes
      BY <1>1 DEF FormInv, IsMeta
    <3> QED
      BY <3>1, <3>2, BoxesAreInts
  <2>4. c \in IntBoxes
    BY <1>1, <2>1, BoxesAreInts DEF FormInv, IsMeta
  <2>5. /\ box' \in IntBoxes /\ Covers(box', c)
        /\ \A e \in IntBoxes : Covers(box, e) => Covers(box', e)
        /\ box'["minLon"] \in {box["minLon"], c["minLon"]}
        /\ box'["minLat"] \in {box["minLat"], c["minLat"]}
        /\ box'["maxLon"] \in {box["maxLon"], c["maxLon"]}
        /\ box'["maxLat"] \in {box["maxLat"], c["maxLat"]}
    BY <1>1, <2>1, <2>4, UnionIs
  <2>6. \A i \in Input : BoundsRead(i)' => Covers(box', meta[i]["bounds"])
    BY <1>1, <2>2, <2>3, <2>5 DEF BoxInv
  <2>7. ASSUME NEW d, NEW s, Reached(d, s), box'[d] \in {box[d], c[d]} PROVE Reached(d, s)'
    BY <2>1, <2>2, <2>7 DEF Reached
  <2> HIDE DEF c
  <2>8. /\ Reached("minLon", Big)' /\ Reached("minLat", Big)'
        /\ Reached("maxLon", Tiny)' /\ Reached("maxLat", Tiny)'
    BY <1>1, <2>5, <2>7, Zenon DEF BoxInv
  <2> QED
    BY <2>1, <2>5, <2>6, <2>8 DEF BoxInv, IntBoxes
<1>4. CASE MergeAgain
  <2>1. phase' = "gather" /\ current' = 1 /\ box' = NoBox
    BY <1>4 DEF MergeAgain
  <2>2. \A i \in Input : ~BoundsRead(i)'
    BY <2>1 DEF BoundsRead, Writing
  <2>3. /\ box'.minLon = Big /\ box'.minLat = Big /\ box'.maxLon = Tiny /\ box'.maxLat = Tiny
        /\ box' \in [minLon : Int, minLat : Int, maxLon : Int, maxLat : Int]
    BY <2>1, Numbers DEF NoBox
  <2> QED
    BY <2>2, <2>3 DEF BoxInv, Reached
<1>5. CASE ReadEntry
  <2>1. UNCHANGED <<meta, current, box>> /\ phase = "gather"
    BY <1>5 DEF ReadEntry
  <2>2. phase' \in {"gather", "scan", "threw"}
    BY <1>1, <1>5, <2>1, ReadMore
  <2> QED
    BY <1>2, <2>1, <2>2 DEF Writing
<1>6. CASE ScanJson
  BY <1>2, <1>6 DEF ScanJson, gathered, Writing
<1>7. CASE Calm
  BY <1>2, <1>7 DEF Calm
<1> QED
  BY <1>3, <1>4, <1>5, <1>6, <1>7, Kinds

LEMMA LayersKeep == MInv /\ [Next]_vars => LayersInv'
<1> SUFFICES ASSUME MInv, [Next]_vars PROVE LayersInv'
  OBVIOUS
<1> DEFINE json == meta[current]["json"]
           before == LayersOf({i \in Having("json") : i < current})
<1>1. /\ IInv /\ LayersInv /\ FormInv /\ current \in Input
      /\ IsFiniteSet(layers) /\ layers \subseteq Objects
      /\ unread \subseteq DOMAIN meta[current]
  BY DEF MInv, LayersInv, IInv, PlaceInv
<1>2. "json" \in DOMAIN meta[current] /\ json # NoLayers =>
        json.list \in Seq(Objects) /\ json.tail \in Texts
  BY <1>1, VectorLayersAssumption DEF FormInv, IsMeta
\* steps that keep what has been scanned
<1>3. ASSUME UNCHANGED <<meta, layers>>, \A i \in Input : Read(i, "json")' <=> Read(i, "json"),
             phase \in {"gather"} \/ Writing, phase' # "scan"
      PROVE  LayersInv'
  <2>1. Scanned' = Scanned
    BY <1>3 DEF Scanned, Having, Read
  <2>2. layers = LayersOf(Scanned)
    BY <1>1, <1>3 DEF LayersInv
  <2>3. layers' = LayersOf(Scanned)'
    BY <1>3, <2>1, <2>2 DEF LayersOf
  <2> QED
    BY <1>1, <1>3, <2>3 DEF LayersInv
<1>4. CASE ReadEntry
  <2>1. UNCHANGED <<meta, current, layers>> /\ phase = "gather"
    BY <1>4 DEF ReadEntry
  <2>2. PICK n \in DOMAIN meta[current] :
           /\ n \in unread /\ unread' = unread \ {n}
           /\ IF n # "json" THEN phase' = phase
              ELSE IF meta[current][n] = NoLayers THEN phase' = "threw"
              ELSE phase' = "scan" /\ StartScan(meta[current][n])
           /\ \A i \in Input : \A m : Read(i, m)' <=> Read(i, m) \/ (i = current /\ m = n)
    BY <1>1, <1>4, ReadMore, Zenon
  <2>3. CASE n # "json"
    BY <1>3, <2>1, <2>2, <2>3
  <2>4. CASE n = "json" /\ json = NoLayers
    <3>1. phase' = "threw"
      BY <2>2, <2>4
    <3> QED
      BY <1>1, <2>1, <3>1 DEF LayersInv, Writing
  <2>5. CASE n = "json" /\ json # NoLayers
    <3>1. phase' = "scan" /\ StartScan(json) /\ json' = json
      BY <2>1, <2>2, <2>5
    <3>2. Read(current, "json")'
      BY <2>1, <2>2, <2>5 DEF Read
    <3>3. Scanned = {i \in Having("json") : i < current}
      <4>1. "json" \in unread
        BY <2>2, <2>5
      <4> QED
        BY <1>1, <4>1 DEF Scanned, Having
    <3>4. layers = before
      BY <1>1, <2>1, <3>3 DEF LayersInv
    <3>5. before' = before
      BY <2>1 DEF LayersOf, Having
    <3>6. PICK l \in Seq(Objects), b \in {before} : l = json.list
      BY <1>2, <2>2, <2>5
    <3>7. 0 \in 0 .. Len(l) /\ End(l, 0) = 0
      BY Places
    <3>8. ScanAt(l, 0, b)'
      <4>1. {l[i] : i \in 1 .. 0} = {}
        OBVIOUS
      <4>2. start' = 0 /\ braces' = 0 /\ pos' = 1 /\ layers' = b
        BY <2>1, <3>1, <3>4, <3>6 DEF StartScan
      <4> QED
        BY <3>7, <4>1, <4>2 DEF ScanAt, End
    <3>9. (\E m \in 0 .. Len(json.list) : ScanAt(json.list, m, before))'
      <4>1. json.list' = l /\ before' = b
        BY <3>1, <3>5, <3>6
      <4> HIDE DEF json, before
      <4> QED
        BY <3>8, <3>7, <4>1 DEF ScanAt
    <3>10. text' = Text(json)
      BY <3>1 DEF StartScan
    <3> QED
      BY <1>1, <2>1, <2>5, <3>1, <3>2, <3>10, <3>9 DEF LayersInv, Writing
  <2> QED
    BY <2>3, <2>4, <2>5
<1>5. CASE ScanJson
  <2>1. /\ phase = "scan" /\ Scan /\ UNCHANGED <<phase, meta, current, unread, text>>
    BY <1>5 DEF ScanJson, gathered, Scan
  <2>2. PICK n \in 0 .. Len(json.list) : ScanAt(json.list, n, before)
    BY <1>1, <2>1 DEF LayersInv
  <2>3. /\ Read(current, "json") /\ json # NoLayers /\ text = Text(json)
    BY <1>1, <2>1 DEF LayersInv
  <2>4. /\ json.list \in Seq(Objects) /\ json.tail \in Texts
        /\ text = Commas(json.list) \o json.tail
    BY <1>2, <2>3 DEF Read, Text
  <2>5. PICK l \in Seq(Objects), v \in Texts, b \in {before} : l = json.list /\ v = json.tail
    BY <2>4
  <2>6. PICK m \in {n, n + 1} : ScanAt(l, m, b)'
    <3>1. ScanAt(l, n, b) /\ text = Commas(l) \o v /\ Scan
      BY <2>1, <2>2, <2>4, <2>5
    <3> QED
      BY <3>1, ScanStep
  <2>7. json' = json /\ before' = before
    BY <2>1 DEF LayersOf, Having
  <2>8. (\E k \in 0 .. Len(json.list) : ScanAt(json.list, k, before))'
    <3>1. json.list' = l /\ before' = b
      BY <2>5, <2>7
    <3> HIDE DEF json, before
    <3> QED
      BY <2>6, <3>1 DEF ScanAt
  <2>9. IsFiniteSet(layers') /\ layers' \subseteq Objects
    <3>1. \E o : layers' = layers \/ layers' = layers \cup {o}
      BY <2>1, Zenon DEF Scan
    <3>2. IsFiniteSet(layers')
      <4>1. PICK o : layers' = layers \/ layers' = layers \cup {o}
        BY <3>1
      <4>2. IsFiniteSet(layers \cup {o})
        BY <1>1, FS_AddElement
      <4> QED
        BY <1>1, <4>1, <4>2
    <3>3. before \subseteq Objects
      <4>1. before \subseteq layers
        BY <2>2 DEF ScanAt
      <4> QED
        BY <1>1, <4>1
    <3>4. layers' = b \cup {l[i] : i \in 1 .. m} /\ m \in 0 .. Len(l)
      BY <2>6 DEF ScanAt
    <3>5. \A i \in 1 .. m : l[i] \in Objects
      BY <3>4, ElementOfSeq
    <3> QED
      BY <2>5, <3>2, <3>3, <3>4, <3>5
  <2>10. Read(current, "json")' /\ json' # NoLayers /\ text' = Text(json')
    BY <2>1, <2>3, <2>7 DEF Read
  <2> QED
    BY <2>1, <2>8, <2>9, <2>10 DEF LayersInv, Writing
<1>6. CASE ReadBounds
  <2>1. UNCHANGED <<meta, layers>> /\ phase = "gather" /\ phase' \in {"gather", "dump"}
    BY <1>6 DEF ReadBounds, Advance, scan
  <2> QED
    BY <1>1, <1>3, <1>6, <2>1, ReadSame
<1>7. CASE MergeAgain
  <2>1. phase' = "gather" /\ layers' = {} /\ current' = 1 /\ unread' = DOMAIN meta'[1]
    BY <1>1, <1>7 DEF MergeAgain, IInv, PlaceInv
  <2>2. Scanned' = {}
    BY <2>1 DEF Scanned, Having
  <2>3. LayersOf(Scanned)' = {}
    BY <2>2 DEF LayersOf
  <2> QED
    BY <2>1, <2>3, FS_EmptySet DEF LayersInv, Writing
<1>8. CASE ScanEnds
  <2>1. /\ phase = "scan" /\ phase' = "gather" /\ ~Scanning
        /\ UNCHANGED <<meta, current, unread, layers>>
    BY <1>8 DEF ScanEnds, gathered, scan
  <2>2. /\ Read(current, "json") /\ json # NoLayers /\ text = Text(json)
    BY <1>1, <2>1 DEF LayersInv
  <2>3. PICK n \in 0 .. Len(json.list) : ScanAt(json.list, n, before)
    BY <1>1, <2>1 DEF LayersInv
  <2>4. /\ json.list \in Seq(Objects) /\ json.tail \in Texts
        /\ text = Commas(json.list) \o json.tail
    BY <1>2, <2>2 DEF Read, Text
  <2>5. layers = before \cup ToSet(json.list)
    BY <2>1, <2>3, <2>4, ScanEnd
  <2>6. Scanned = {i \in Having("json") : i < current} \cup {current}
    BY <1>1, <2>2 DEF Scanned, Having, Read
  <2>7. layers = LayersOf(Scanned)
    BY <2>5, <2>6 DEF LayersOf
  <2>8. Scanned' = Scanned /\ LayersOf(Scanned)' = LayersOf(Scanned)
    BY <2>1 DEF Scanned, Having, LayersOf
  <2> QED
    BY <1>1, <2>1, <2>7, <2>8 DEF LayersInv, Writing
<1>9. CASE Calm
  <2>1. UNCHANGED <<meta, current, unread, layers, text, pos, start, braces>>
    BY <1>9 DEF Calm
  <2>2. Read(current, "json")' <=> Read(current, "json")
    BY <2>1 DEF Read
  <2>3. Scanned' = Scanned /\ LayersOf(Scanned)' = LayersOf(Scanned) /\ json' = json /\ before' = before
    BY <2>1 DEF Scanned, Having, LayersOf
  <2>4. CASE phase' = phase
    <3>1. phase = "scan" =>
            (\E n \in 0 .. Len(json.list) : ScanAt(json.list, n, before))'
      <4> SUFFICES ASSUME phase = "scan"
                   PROVE  (\E n \in 0 .. Len(json.list) : ScanAt(json.list, n, before))'
        OBVIOUS
      <4>1. PICK n \in 0 .. Len(json.list) : ScanAt(json.list, n, before)
        BY <1>1 DEF LayersInv
      <4>2. PICK l, b : l = json.list /\ b = before
        OBVIOUS
      <4>3. ScanAt(l, n, b)'
        BY <2>1, <4>1, <4>2 DEF ScanAt
      <4>4. json.list' = l /\ before' = b
        BY <2>3, <4>2
      <4> HIDE DEF json, before
      <4> QED
        BY <4>1, <4>2, <4>3, <4>4 DEF ScanAt
    <3>2. phase = "scan" => Read(current, "json")' /\ json' # NoLayers /\ text' = Text(json')
      BY <1>1, <2>1, <2>2, <2>3 DEF LayersInv
    <3> QED
      BY <1>1, <2>1, <2>3, <2>4, <3>1, <3>2 DEF LayersInv, Writing
  <2>5. CASE Writing'
    BY <1>1, <1>9, <2>1, <2>3, <2>5 DEF LayersInv, Writing, Calm
  <2>6. CASE phase' = "threw"
    BY <1>1, <2>1, <2>6 DEF LayersInv, Writing
  <2> QED
    BY <1>8, <1>9, <2>4, <2>5, <2>6 DEF Calm
<1> QED
  BY <1>4, <1>5, <1>6, <1>7, <1>8, <1>9, Kinds

LEMMA NamesAreListed == Len(Names) \in Nat /\ DOMAIN Names = 1 .. Len(Names)
<1>1. Names \in Seq(STRING)
  BY MetadataAssumption, Zenon
<1> QED
  BY <1>1

LEMMA NamesAre == \A n \in NameSet : \E k \in 1 .. Len(Names) : Names[k] = n
<1>1. DOMAIN Names = 1 .. Len(Names)
  BY NamesAreListed
<1> QED
  BY <1>1 DEF NameSet

\* An overwriting step, of which there are four.
LEMMA OverwriteIs ==
  ASSUME TableInv, NEW from \in {"dump", "minzoom", "maxzoom", "json"}, NEW n \in Computed,
         NEW to \in {"minzoom", "maxzoom", "json", "done"}, Overwrite(from, n, to)
  PROVE  /\ phase = from /\ phase' = to /\ UNCHANGED <<meta, current, unread, metadata, next>>
         /\ DOMAIN table' = DOMAIN table \cup {n}
         /\ Written(n)'
         /\ \A m \in Computed : Written(m) => Written(m)'
<1>1. /\ phase = from /\ phase' = to
      /\ UNCHANGED <<meta, current, unread, metadata, minzoom, maxzoom, box, layers, next>>
      /\ table' = With(table, n, MergedValue(n))
  BY DEF Overwrite, WriteMetadata, gathered, scan
<1>2. /\ DOMAIN table' = DOMAIN table \cup {n} /\ table'[n] = MergedValue(n)
      /\ \A k \in DOMAIN table : k # n => table'[k] = table[k]
  BY <1>1 DEF With
<1>3. \A m : MergedValue(m)' = MergedValue(m)
  BY <1>1 DEF MergedValue
<1>4. Written(n)'
  BY <1>2, <1>3 DEF Written
<1>5. \A m : Written(m) => Written(m)'
  BY <1>2, <1>3 DEF Written
<1> QED
  BY <1>1, <1>2, <1>4, <1>5

LEMMA GatheredAreNames == TableInv /\ FormInv => DOMAIN metadata \subseteq NameSet
<1> SUFFICES ASSUME TableInv, FormInv PROVE DOMAIN metadata \subseteq NameSet
  OBVIOUS
<1>1. \A i \in Input : DOMAIN meta[i] \subseteq NameSet
  BY DEF FormInv, IsMeta
<1>2. \A n : n \in DOMAIN metadata <=> \E i \in Input : Read(i, n)
  BY DEF TableInv
<1> QED
  BY <1>1, <1>2 DEF Read

LEMMA TableKeeps == MInv /\ [Next]_vars => TableInv'
<1> SUFFICES ASSUME MInv, [Next]_vars PROVE TableInv'
  OBVIOUS
<1> DEFINE Met == \A n : n \in DOMAIN metadata <=> \E i \in Input : Read(i, n)
<1>1. IInv /\ TableInv /\ FormInv /\ Met /\ current \in Input
  BY DEF MInv, TableInv, IInv, PlaceInv
<1>2. Reading /\ phase # "threw" => table = <<>> /\ next = 1 /\ ~Writing
  BY <1>1 DEF IInv, TableInv, Reading, Writing
\* steps before the first write
<1>3. ASSUME Reading, ~Writing', UNCHANGED <<next, table>>, Met' PROVE TableInv'
  <2>1. DOMAIN table' = {} /\ next' = 1
    BY <1>2, <1>3, Empty DEF Reading
  <2> QED
    BY <1>3, <2>1 DEF TableInv, Writing
<1>4. CASE ReadEntry
  <2>1. UNCHANGED <<meta, current, next, table>> /\ phase = "gather"
    BY <1>4 DEF ReadEntry
  <2>2. PICK n \in DOMAIN meta[current] :
           /\ metadata' = With(metadata, n, meta[current][n])
           /\ \A i \in Input : \A m : Read(i, m)' <=> Read(i, m) \/ (i = current /\ m = n)
    BY <1>1, <1>4, ReadMore, Zenon
  <2>3. phase' \in {"gather", "scan", "threw"}
    BY <1>1, <1>4, <2>1, ReadMore
  <2>4. DOMAIN metadata' = DOMAIN metadata \cup {n}
    BY <2>2 DEF With
  <2>5. Met'
    BY <1>1, <2>2, <2>4
  <2> QED
    BY <1>3, <2>1, <2>3, <2>5 DEF Reading, Writing
<1>5. CASE ScanJson \/ ScanEnds \/ NoBounds
  <2>1. UNCHANGED <<meta, current, unread, metadata, next, table>> /\ Reading /\ ~Writing'
    BY <1>5 DEF ScanJson, ScanEnds, NoBounds, gathered, Reading, Writing
  <2>2. Met'
    BY <1>1, <2>1 DEF Read
  <2> QED
    BY <1>3, <2>1, <2>2
<1>6. CASE ReadBounds
  <2>1. UNCHANGED <<meta, metadata, next, table>> /\ phase = "gather" /\ phase' \in {"gather", "dump"}
    BY <1>6 DEF ReadBounds, Advance
  <2>2. Met'
    BY <1>1, <1>6, <2>1, ReadSame
  <2>3. DOMAIN table' = {} /\ next' = 1
    BY <1>2, <2>1, Empty DEF Reading
  <2> QED
    BY <2>1, <2>2, <2>3 DEF TableInv, Writing
<1>7. CASE Dump
  <2>1. /\ phase = "dump" /\ phase' = "dump" /\ UNCHANGED <<meta, current, unread, metadata>>
        /\ next' = next + 1 /\ next <= Len(Names) /\ next \in Nat \ {0}
        /\ DOMAIN table \subseteq DOMAIN metadata \cup Computed
        /\ \A k \in 1 .. Len(Names) : k < next /\ Names[k] \in DOMAIN metadata => Names[k] \in DOMAIN table
    BY <1>1, <1>7 DEF Dump, gathered, TableInv
  <2>2. Met'
    BY <1>1, <2>1 DEF Read
  <2>3. DOMAIN table' = DOMAIN table \cup ({Names[next]} \cap DOMAIN metadata)
    BY <1>7 DEF Dump, WriteMetadata, With
  <2>4. DOMAIN table' \subseteq DOMAIN metadata' \cup Computed
    BY <2>1, <2>3
  <2>5. \A k \in 1 .. Len(Names) : k < next' /\ Names[k] \in DOMAIN metadata' => Names[k] \in DOMAIN table'
    <3> TAKE k \in 1 .. Len(Names)
    <3>1. k < next + 1 => k < next \/ k = next
      BY <2>1
    <3> QED
      BY <2>1, <2>3, <3>1
  <2> QED
    BY <2>1, <2>2, <2>4, <2>5 DEF TableInv, Writing
<1>8. ASSUME NEW from \in {"dump", "minzoom", "maxzoom", "json"}, NEW n \in Computed,
             NEW to \in {"minzoom", "maxzoom", "json", "done"}, Overwrite(from, n, to)
      PROVE  /\ Met' /\ next' \in Nat \ {0} /\ Writing' /\ Writing
             /\ DOMAIN table' \subseteq DOMAIN metadata' \cup Computed
             /\ DOMAIN metadata' \subseteq DOMAIN table'
  <2>1. /\ phase = from /\ phase' = to /\ UNCHANGED <<meta, current, unread, metadata, next>>
        /\ DOMAIN table' = DOMAIN table \cup {n}
    BY <1>1, <1>8, OverwriteIs
  <2>2. Met' /\ next' \in Nat \ {0}
    BY <1>1, <2>1 DEF Read, TableInv
  <2>3. DOMAIN table' \subseteq DOMAIN metadata' \cup Computed
    BY <1>1, <2>1 DEF TableInv
  <2>4. DOMAIN metadata \subseteq DOMAIN table
    <3>1. CASE from = "dump"
      <4>1. next > Len(Names) /\ next \in Nat
        BY <1>1, <1>8, <3>1 DEF Overwrite, TableInv
      <4>2. \A k \in 1 .. Len(Names) : k < next
        BY <4>1, NamesAreListed
      <4>3. DOMAIN metadata \subseteq NameSet
        BY <1>1, GatheredAreNames
      <4>4. \A k \in 1 .. Len(Names) : Names[k] \in DOMAIN metadata => Names[k] \in DOMAIN table
        BY <1>1, <2>1, <3>1, <4>2 DEF TableInv
      <4> QED
        BY <4>3, <4>4, NamesAre
    <3>2. CASE from # "dump"
      BY <1>1, <2>1, <3>2 DEF TableInv, Writing
    <3> QED
      BY <3>1, <3>2
  <2> QED
    BY <2>1, <2>2, <2>3, <2>4 DEF Writing
<1>9. CASE WriteBounds
  <2>1. Overwrite("dump", "bounds", "minzoom") /\ "bounds" \in Computed
    BY <1>9 DEF WriteBounds, Computed
  <2>2. /\ phase = "dump" /\ phase' = "minzoom" /\ Written("bounds")'
        /\ \A m \in Computed : Written(m) => Written(m)'
    BY <1>1, <2>1, OverwriteIs
  <2> QED
    BY <1>1, <1>8, <2>1, <2>2 DEF TableInv, Computed
<1>10. CASE WriteMinzoom
  <2>1. Overwrite("minzoom", "minzoom", "maxzoom") /\ "minzoom" \in Computed
    BY <1>10 DEF WriteMinzoom, Computed
  <2>2. /\ phase = "minzoom" /\ phase' = "maxzoom" /\ Written("minzoom")'
        /\ \A m \in Computed : Written(m) => Written(m)'
    BY <1>1, <2>1, OverwriteIs
  <2> QED
    BY <1>1, <1>8, <2>1, <2>2 DEF TableInv, Computed
<1>11. CASE WriteMaxzoom
  <2>1. Overwrite("maxzoom", "maxzoom", "json") /\ "maxzoom" \in Computed
    BY <1>11 DEF WriteMaxzoom, Computed
  <2>2. /\ phase = "maxzoom" /\ phase' = "json" /\ Written("maxzoom")'
        /\ \A m \in Computed : Written(m) => Written(m)'
    BY <1>1, <2>1, OverwriteIs
  <2> QED
    BY <1>1, <1>8, <2>1, <2>2 DEF TableInv, Computed
<1>12. CASE WriteJson
  <2>1. Overwrite("json", "json", "done") /\ "json" \in Computed
    BY <1>12 DEF WriteJson, Computed
  <2>2. /\ phase = "json" /\ phase' = "done" /\ Written("json")'
        /\ \A m \in Computed : Written(m) => Written(m)'
    BY <1>1, <2>1, OverwriteIs
  <2> QED
    BY <1>1, <1>8, <2>1, <2>2 DEF TableInv, Computed
<1>13. CASE MergeAgain
  <2>1. /\ phase' = "gather" /\ current' = 1 /\ unread' = DOMAIN meta'[1] /\ metadata' = <<>>
        /\ next' = 1 /\ table' = <<>>
    BY <1>1, <1>13 DEF MergeAgain, IInv, PlaceInv
  <2>2. Met'
    BY <2>1, Empty DEF Read
  <2>3. DOMAIN table' = {}
    BY <2>1, Empty
  <2> QED
    BY <2>1, <2>2, <2>3 DEF TableInv, Writing
<1>14. CASE Ended \/ UNCHANGED vars
  <2>1. /\ UNCHANGED <<phase, meta, current, unread, metadata, next, table>>
        /\ UNCHANGED <<minzoom, maxzoom, box, layers>>
    BY <1>14 DEF Ended, vars, gathered, scan
  <2>2. Met'
    BY <1>1, <2>1 DEF Read
  <2>3. \A n : Written(n)' <=> Written(n)
    BY <2>1 DEF Written, MergedValue
  <2> QED
    BY <1>1, <2>1, <2>2, <2>3 DEF TableInv, Writing
<1> QED
  BY <1>4, <1>5, <1>6, <1>7, <1>9, <1>10, <1>11, <1>12, <1>13, <1>14 DEF Next, Step

-----------------------------------------------------------------------------
\* A list of a finite set has its elements and no others.
LEMMA ListOfSet ==
  ASSUME NEW S, IsFiniteSet(S)
  PROVE  SetToSeq(S) \in Seq(S) /\ ToSet(SetToSeq(S)) = S
<1> DEFINE n == Cardinality(S)
           F == [1 .. n -> S]
           f == CHOOSE g \in F : IsInjective(g)
<1>1. n \in Nat /\ ExistsBijection(1 .. n, S)
  BY FS_CardinalityType
<1>2. \E g \in F : IsInjective(g)
  BY <1>1, Zenon DEF ExistsBijection, Bijection, Injection
<1>3. f \in F /\ IsInjective(f)
  <2> HIDE DEF F
  <2> QED
    BY <1>2
<1>4. SetToSeq(S) = f
  BY DEF SetToSeq
<1> HIDE DEF f
<1>5. f \in Surjection(1 .. n, S)
  <2>1. f \in Injection(1 .. n, S)
    BY <1>3 DEF Injection
  <2>2. IsFiniteSet(1 .. n) /\ Cardinality(1 .. n) = n
    BY <1>1, FS_Interval
  <2> QED
    BY <2>1, <2>2, FS_Injection
<1>6. ToSet(f) = S
  BY <1>3, <1>5 DEF ToSet, Surjection
<1>7. f \in Seq(S)
  BY <1>1, <1>3
<1> QED
  BY <1>4, <1>6, <1>7

\* What is printed is at most half a unit away, and on the same side of every
\* multiple of the unit, zero and the largest double among them.
LEMMA UnitIs ==
  /\ Tiny \in Nat \ {0} /\ Big \in Nat /\ Tiny < Big
  /\ Unit \in Nat \ {0} /\ 2 * Tiny < Unit /\ Big % Unit = 0
BY MetadataAssumption

LEMMA NearestIs ==
  ASSUME NEW v \in Int
  PROVE  /\ Nearest(v) \in Int
         /\ 2 * Nearest(v) <= 2 * v + Unit /\ 2 * v <= 2 * Nearest(v) + Unit
<1> DEFINE r == v % Unit
           even == (v \div Unit) % 2 = 0
<1>1. r \in Int /\ 0 <= r /\ r < Unit /\ Unit \in Int
  BY UnitIs
<1>2. Nearest(v) = IF 2 * r < Unit \/ (2 * r = Unit /\ even) THEN v - r ELSE v - r + Unit
  BY DEF Nearest
<1> HIDE DEF r, even
<1> QED
  BY <1>1, <1>2

LEMMA NearestBelow ==
  ASSUME NEW v \in Int, NEW w \in Int, w % Unit = 0, v <= w
  PROVE  Nearest(v) <= w
<1> DEFINE r == v % Unit
           q == v \div Unit
           k == w \div Unit
           even == (v \div Unit) % 2 = 0
<1>1. r \in Int /\ 0 <= r /\ r < Unit /\ Unit \in Int /\ q \in Int /\ k \in Int
  BY UnitIs
<1>2. v = Unit * q + r
  BY UnitIs
<1>3. w = Unit * k
  BY UnitIs
<1>4. Nearest(v) = IF 2 * r < Unit \/ (2 * r = Unit /\ even) THEN v - r ELSE v - r + Unit
  BY DEF Nearest
<1> HIDE DEF r, q, k, even
<1>5. CASE r = 0
  BY <1>1, <1>4, <1>5
<1>6. CASE r # 0
  <2>1. Unit * q < Unit * k
    BY <1>1, <1>2, <1>3, <1>6
  <2>2. q < k
    BY <1>1, <2>1
  <2>3. Unit * (q + 1) <= Unit * k
    BY <1>1, <2>2
  <2>4. Unit * (q + 1) = Unit * q + Unit
    BY <1>1
  <2> QED
    BY <1>1, <1>2, <1>3, <1>4, <2>3, <2>4
<1> QED
  BY <1>5, <1>6

LEMMA TinyIsZero == Nearest(Tiny) = 0
<1>1. Tiny % Unit = Tiny /\ 2 * (Tiny % Unit) < Unit
  BY UnitIs
<1> QED
  BY <1>1, UnitIs DEF Nearest

LEMMA NearestDegree ==
  ASSUME NEW v \in Degrees
  PROVE  Nearest(v) \in Degrees
<1>1. v \in Int /\ v <= Big /\ Nearest(v) \in Int
  BY NearestIs DEF Degrees
<1>2. Nearest(v) <= Big
  BY <1>1, UnitIs, NearestBelow
<1>3. CASE v <= 0
  <2>1. 0 % Unit = 0
    BY UnitIs
  <2> QED
    BY <1>1, <1>2, <1>3, <2>1, NearestBelow DEF Degrees
<1>4. CASE v > 0
  <2>1. Nearest(v) <= 0 \/ Nearest(v) > Tiny
    <3> DEFINE r == v % Unit
               even == (v \div Unit) % 2 = 0
    <3>1. r \in Int /\ 0 <= r /\ r < Unit /\ Unit \in Int
      BY <1>1, UnitIs
    <3>2. v - r = 0 \/ v - r >= Unit
      <4> DEFINE q == v \div Unit
      <4>1. q \in Int /\ v = Unit * q + r
        BY <1>1, UnitIs
      <4> HIDE DEF r, q
      <4>2. Unit * q = 0 \/ Unit * q >= Unit
        BY <1>1, <1>4, <3>1, <4>1
      <4> QED
        BY <1>1, <3>1, <4>1, <4>2
    <3>3. Nearest(v) = IF 2 * r < Unit \/ (2 * r = Unit /\ even) THEN v - r ELSE v - r + Unit
      BY DEF Nearest
    <3> HIDE DEF r, even
    <3> QED
      BY <1>1, <3>1, <3>2, <3>3, UnitIs
  <2> QED
    BY <1>1, <1>2, <2>1 DEF Degrees
<1> QED
  BY <1>1, <1>3, <1>4

\* The sides of the box are degrees, or what it started with.
LEMMA SidesAre ==
  ASSUME IInv, BoxInv, FormInv, Writing, NEW d \in {"minLon", "minLat", "maxLon", "maxLat"}
  PROVE  /\ box[d] \in Int /\ (box[d] = Tiny \/ box[d] \in Degrees)
         /\ DOMAIN box = {"minLon", "minLat", "maxLon", "maxLat"}
         /\ Printed(box)[d] = Nearest(box[d])
         /\ \A i \in Input : /\ "bounds" \in DOMAIN meta[i] /\ meta[i]["bounds"] \in Boxes
                             /\ meta[i]["bounds"][d] \in Degrees
<1>1. \A i \in Input : "bounds" \in DOMAIN meta[i] /\ meta[i]["bounds"] \in Boxes
  <2>1. phase # "threw"
    BY DEF Writing
  <2> QED
    BY <2>1 DEF IInv, SoundInv, FormInv, IsMeta
<1>2. box[d] \in Int /\ DOMAIN box = {"minLon", "minLat", "maxLon", "maxLat"}
  BY DEF BoxInv
<1>3. Big \in Degrees
  BY Numbers DEF Degrees
<1>4. \A i \in Input : meta[i]["bounds"][d] \in Degrees
  BY <1>1 DEF Boxes
<1>5. box[d] \in {Big, Tiny} \/ \E i \in Input : meta[i]["bounds"][d] = box[d]
  BY DEF BoxInv, Reached
<1>6. Printed(box)[d] = Nearest(box[d])
  BY <1>2 DEF Printed
<1> QED
  BY <1>1, <1>2, <1>3, <1>4, <1>5, <1>6

\* The minima of the box are those of an input, its maxima too or Tiny.
LEMMA SidesTouch ==
  ASSUME IInv, BoxInv, FormInv, Writing
  PROVE  /\ \A d \in {"minLon", "minLat"} : \E i \in Input : meta[i]["bounds"][d] = box[d]
         /\ \A d \in {"maxLon", "maxLat"} :
              box[d] = Tiny \/ \E i \in Input : meta[i]["bounds"][d] = box[d]
<1>1. ASSUME NEW d \in {"minLon", "minLat"}
      PROVE  \E i \in Input : meta[i]["bounds"][d] = box[d]
  <2>1. Reached(d, Big)
    BY <1>1 DEF BoxInv
  <2>2. CASE box[d] = Big
    <3>1. 1 \in Input
      BY SomeInputs DEF Input
    <3>2. box[d] <= meta[1]["bounds"][d]
      BY <3>1 DEF BoxInv, BoundsRead, Covers
    <3>3. meta[1]["bounds"][d] \in Degrees
      BY <3>1, SidesAre
    <3>4. meta[1]["bounds"][d] = box[d]
      BY <2>2, <3>2, <3>3, Numbers DEF Degrees
    <3> QED
      BY <3>1, <3>4
  <2>3. CASE box[d] # Big
    BY <2>1, <2>3 DEF Reached
  <2> QED
    BY <2>2, <2>3
<1>2. ASSUME NEW d \in {"maxLon", "maxLat"}
      PROVE  box[d] = Tiny \/ \E i \in Input : meta[i]["bounds"][d] = box[d]
  BY <1>2 DEF BoxInv, Reached
<1> QED
  BY <1>1, <1>2

\* What is printed encloses all inputs but for the rounding, and its sides are
\* theirs as they are printed, or the zero that Tiny is printed as.
LEMMA PrintedSides ==
  ASSUME IInv, BoxInv, FormInv, Writing
  PROVE  /\ \A i \in Input : Encloses(Printed(box), meta[i]["bounds"])
         /\ \A d \in {"minLon", "minLat"} : Touches(Printed(box), d)
         /\ \A d \in {"maxLon", "maxLat"} : Printed(box)[d] = 0 \/ Touches(Printed(box), d)
<1> DEFINE Sides == {"minLon", "minLat", "maxLon", "maxLat"}
<1>1. \A d \in Sides : box[d] \in Int /\ Printed(box)[d] = Nearest(box[d])
  BY SidesAre
<1>2. \A d \in {"minLon", "minLat"} : Touches(Printed(box), d)
  BY <1>1, SidesTouch DEF Touches
<1>3. \A d \in {"maxLon", "maxLat"} : Printed(box)[d] = 0 \/ Touches(Printed(box), d)
  BY <1>1, SidesTouch, TinyIsZero DEF Touches
<1>4. ASSUME NEW i \in Input PROVE Encloses(Printed(box), meta[i]["bounds"])
  <2> DEFINE c == meta[i]["bounds"]
  <2>1. Covers(box, c) /\ \A d \in Sides : c[d] \in Int
    BY SidesAre DEF BoxInv, BoundsRead, Degrees
  <2>2. \A d \in Sides : /\ Printed(box)[d] \in Int
                        /\ 2 * Printed(box)[d] <= 2 * box[d] + Unit
                        /\ 2 * box[d] <= 2 * Printed(box)[d] + Unit
    BY <1>1, NearestIs
  <2> HIDE DEF c
  <2> QED
    BY <1>1, <2>1, <2>2, UnitIs DEF Covers, Encloses, c
<1> QED
  BY <1>2, <1>3, <1>4

\* The layers are printed as a list, with the brace that closes the text.
LEMMA PrintedJson ==
  /\ PrintJson(layers).list = SetToSeq(layers)
  /\ PrintJson(layers).tail = <<"}">>
<1> HIDE DEF SetToSeq
<1> QED
  BY DEF PrintJson

LEMMA TableIsMeta == MInv /\ phase = "done" => IsMeta(table)
<1> SUFFICES ASSUME MInv, phase = "done" PROVE IsMeta(table)
  OBVIOUS
<1>1. /\ IInv /\ FormInv /\ LayersInv /\ ZoomsInv /\ BoxInv /\ TableInv /\ Writing
      /\ Written("bounds") /\ Written("minzoom") /\ Written("maxzoom") /\ Written("json")
  BY DEF MInv, TableInv, Writing
<1>2. DOMAIN table \subseteq NameSet
  BY <1>1, GatheredAreNames, MetadataAssumption DEF TableInv
<1>3. table["minzoom"] \in Nat /\ table["maxzoom"] \in Nat
  BY <1>1 DEF Written, MergedValue, ZoomsInv
<1>4. table["json"].list \in Seq(Objects) /\ table["json"].tail \in Tails
  <2>1. table["json"] = PrintJson(layers)
    BY <1>1 DEF Written, MergedValue
  <2>2. SetToSeq(layers) \in Seq(layers) /\ layers \subseteq Objects
    BY <1>1, ListOfSet DEF LayersInv
  <2>3. SetToSeq(layers) \in Seq(Objects)
    BY <2>2
  <2>4. table["json"].list = SetToSeq(layers) /\ table["json"].tail = <<"}">>
    BY <2>1, PrintedJson
  <2>5. <<"}">> \in Tails
    BY MetadataAssumption, Zenon
  <2> QED
    BY <2>3, <2>4, <2>5, Zenon
<1>5. table["bounds"] \in Boxes
  <2>1. table["bounds"] = Printed(box)
    BY <1>1 DEF Written, MergedValue
  <2>2. 0 \in Degrees
    BY Numbers DEF Degrees
  <2>3. \A d \in {"minLon", "minLat", "maxLon", "maxLat"} : Printed(box)[d] \in Degrees
    BY <1>1, <2>2, SidesAre, TinyIsZero, NearestDegree
  <2>4. DOMAIN Printed(box) = {"minLon", "minLat", "maxLon", "maxLat"}
    BY <1>1, SidesAre DEF Printed
  <2>5. Printed(box) = [d \in {"minLon", "minLat", "maxLon", "maxLat"} |-> Printed(box)[d]]
    BY <2>4 DEF Printed
  <2> QED
    BY <2>1, <2>3, <2>5 DEF Boxes
<1> QED
  BY <1>2, <1>3, <1>4, <1>5 DEF IsMeta

LEMMA FormKeeps == MInv /\ [Next]_vars => FormInv'
<1> SUFFICES ASSUME MInv, [Next]_vars PROVE FormInv'
  OBVIOUS
<1>1. FormInv
  BY DEF MInv
<1>2. CASE MergeAgain
  <2>1. phase = "done" /\ meta' = [meta EXCEPT ![1] = table]
    BY <1>2 DEF MergeAgain
  <2>2. IsMeta(table)
    BY <2>1, TableIsMeta
  <2> QED
    BY <1>1, <2>1, <2>2 DEF FormInv
<1>3. CASE UNCHANGED meta
  BY <1>1, <1>3 DEF FormInv
<1> QED
  BY <1>2, <1>3, Kinds DEF ReadEntry, ScanJson, ReadBounds, Calm

LEMMA InductiveM == Spec => []MInv
<1>1. MInv /\ [Next]_vars => MInv'
  BY NextKeeps, FormKeeps, LayersKeep, ZoomsKeep, BoxKeeps, TableKeeps DEF MInv
<1> QED
  BY InitialM, <1>1, PTL DEF Spec

\* The layers are exactly those of the inputs whose json has been scanned: no
\* object is lost, cut or taken from the tail, whatever the lists of the inputs
\* are (tile-smush.cpp:168-199, 227-238).
THEOREM ScanFindsTheLayers == Spec => []ScanExact
<1>1. MInv => ScanExact
  BY DEF MInv, LayersInv, ScanExact, LayersOf
<1> QED
  BY InductiveM, <1>1, PTL

\* The table that has been written describes all inputs and nothing else, for
\* any number of inputs with any tables, and again if it becomes an input itself
\* (tile-smush.cpp:142-238).
THEOREM MergedTable == Spec => []TableIsMerge
<1>1. MInv => TableIsMerge
  <2> SUFFICES ASSUME MInv, phase = "done" PROVE TableIsMerge
    BY DEF TableIsMerge
  <2>1. /\ IInv /\ FormInv /\ LayersInv /\ ZoomsInv /\ BoxInv /\ TableInv /\ Writing
        /\ Written("bounds") /\ Written("minzoom") /\ Written("maxzoom") /\ Written("json")
    BY DEF MInv, TableInv, Writing
  <2>2. current = Inputs /\ unread = {}
    BY <2>1 DEF IInv, PlaceInv
  <2>3. \A i \in Input : \A n : Read(i, n) <=> n \in DOMAIN meta[i]
    BY <2>2 DEF Read
  <2>4. DOMAIN table = Computed \cup UNION {DOMAIN meta[i] : i \in Input}
    <3>1. \A n : n \in DOMAIN metadata <=> \E i \in Input : n \in DOMAIN meta[i]
      BY <2>1, <2>3 DEF TableInv
    <3>2. DOMAIN table \subseteq DOMAIN metadata \cup Computed /\ DOMAIN metadata \subseteq DOMAIN table
      BY <2>1 DEF TableInv
    <3>3. Computed \subseteq DOMAIN table
      BY <2>1 DEF Written, Computed
    <3> QED
      BY <3>1, <3>2, <3>3
  <2>5. \A n \in DOMAIN table \ Computed : table[n] = LastValue(n)
    BY <2>1 DEF IInv, EntriesWhole
  <2>6. /\ \A i \in Having("minzoom") : table["minzoom"] <= meta[i]["minzoom"]
        /\ \A i \in Having("maxzoom") : meta[i]["maxzoom"] <= table["maxzoom"]
    BY <2>1, <2>3 DEF ZoomsInv, Written, MergedValue, Having
  <2>7. ToSet(table["json"].list) = UNION {ToSet(meta[i]["json"].list) : i \in Having("json")}
    <3>1. Scanned = Having("json")
      BY <2>2 DEF Scanned, Having
    <3>2. layers = UNION {ToSet(meta[i]["json"].list) : i \in Having("json")}
      BY <2>1, <3>1 DEF LayersInv, LayersOf
    <3>3. table["json"].list = SetToSeq(layers)
      BY <2>1, PrintedJson DEF Written, MergedValue
    <3> QED
      BY <2>1, <3>2, <3>3, ListOfSet DEF LayersInv
  <2>8. table["bounds"] = Printed(box)
    BY <2>1 DEF Written, MergedValue
  <2>9. \A i \in Input : Encloses(table["bounds"], meta[i]["bounds"])
    BY <2>1, <2>8, PrintedSides
  <2>10. \A d \in {"minLon", "minLat"} : Touches(table["bounds"], d)
    BY <2>1, <2>8, PrintedSides DEF Touches
  <2>11. \A d \in {"maxLon", "maxLat"} :
           table["bounds"][d] = 0 \/ Touches(table["bounds"], d)
    BY <2>1, <2>8, PrintedSides DEF Touches
  <2> QED
    BY <2>4, <2>5, <2>6, <2>7, <2>9, <2>10, <2>11 DEF TableIsMerge
<1> QED
  BY InductiveM, <1>1, PTL

=============================================================================
