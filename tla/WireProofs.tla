------------------------------ MODULE WireProofs ------------------------------
(***************************************************************************)
(* Theorems about module Wire, for writers of any depth, any calls, any    *)
(* capacity of the buffer and any texts of other programs.                 *)
(*                                                                         *)
(* Numbers and varints come first, then what a field is and where it ends, *)
(* the buffer with its open submessages, the readers with their packed     *)
(* iterators, the invariant of both and what it implies, and at the end    *)
(* the strings that the buffer stands for.                                 *)
(***************************************************************************)
EXTENDS Wire, WellFoundedInduction, SequenceTheorems, FiniteSetTheorems, TLAPS

\* The order of the numbers is well-founded.
LEMMA NatWellFounded ==
  \E R : IsWellFoundedOn(R, Nat) /\ \A x, y \in Nat : y < x => <<y, x>> \in R
<1> DEFINE R == OpToRel(<, Nat)
<1>1. IsWellFoundedOn(R, Nat)
  BY NatLessThanWellFounded
<1>2. \A x, y \in Nat : y < x => <<y, x>> \in R
  BY DEF OpToRel
<1> HIDE DEF R
<1> QED
  BY <1>1, <1>2

\* Every set of numbers has a least one.
LEMMA LeastNumber ==
  ASSUME NEW T, T \subseteq Nat, T # {}
  PROVE  \E x \in T : \A y \in T : x <= y
<1>1. PICK R : IsWellFoundedOn(R, Nat) /\ \A x, y \in Nat : y < x => <<y, x>> \in R
  BY NatWellFounded
<1>2. PICK x \in T : \A y \in T : ~(<<y, x>> \in R)
  BY <1>1, WFMin
<1>3. ASSUME NEW y \in T PROVE x <= y
  <2>1. y \in Nat /\ x \in Nat /\ (y < x => <<y, x>> \in R)
    BY <1>1
  <2>2. ~(<<y, x>> \in R)
    BY <1>2
  <2> QED
    BY <2>1, <2>2
<1> QED
  BY <1>3

\* Induction for a set: the library's theorem takes the property as an operator,
\* which the provers cannot instantiate, but a set of numbers they can.
LEMMA NatSetInduction ==
  ASSUME NEW S, 0 \in S, \A n \in Nat : n \in S => n + 1 \in S
  PROVE  \A n \in Nat : n \in S
<1> SUFFICES ASSUME NEW m \in Nat, m \notin S PROVE FALSE
  OBVIOUS
<1>1. PICK x \in Nat \ S : \A y \in Nat \ S : x <= y
  BY LeastNumber
<1>2. x # 0 /\ x - 1 \in Nat /\ x - 1 < x
  BY <1>1
<1>3. x - 1 \in S
  BY <1>1, <1>2
<1> QED
  BY <1>1, <1>2, <1>3

\* What a step G makes of the value before it, and of b at first, is a function.
StepsStay(N, S, G) == \A n \in 1 .. N : \A x \in S : G[<<n, x>>] \in S
IsRun(g, N, S, b, G) ==
  g \in [0 .. N -> S] /\ g[0] = b /\ \A n \in 1 .. N : g[n] = G[<<n, g[n - 1]>>]

\* A recursive definition over 0 .. N whose steps stay in S has a solution in S.
LEMMA Recursion ==
  ASSUME NEW N \in Nat, NEW S, NEW b \in S, NEW G, StepsStay(N, S, G)
  PROVE  \E g : IsRun(g, N, S, b, G)
<1> USE DEF StepsStay
<1> DEFINE Ok(m, g) == g \in [0 .. m -> S] /\ g[0] = b
                       /\ \A n \in 1 .. m : g[n] = G[<<n, g[n - 1]>>]
           Q == {m \in Nat : m <= N => \E g : Ok(m, g)}
<1>1. 0 \in Q
  <2> DEFINE g == [i \in 0 .. 0 |-> b]
  <2>1. Ok(0, g)
    OBVIOUS
  <2> QED
    BY <2>1
<1>2. ASSUME NEW m \in Nat, m \in Q PROVE m + 1 \in Q
  <2> SUFFICES ASSUME m + 1 <= N PROVE \E g : Ok(m + 1, g)
    OBVIOUS
  <2>1. PICK g : Ok(m, g)
    BY <1>2
  <2> DEFINE v == G[<<m + 1, g[m]>>]
             h == [i \in 0 .. m + 1 |-> IF i = m + 1 THEN v ELSE g[i]]
  <2>2. v \in S
    BY <2>1
  <2>3. \A i \in 0 .. m : g[i] \in S /\ h[i] = g[i]
    BY <2>1
  <2>4. h[m + 1] = v /\ DOMAIN h = 0 .. m + 1
    OBVIOUS
  <2> HIDE DEF v
  <2>5. h \in [0 .. m + 1 -> S]
    <3>1. ASSUME NEW i \in 0 .. m + 1 PROVE (IF i = m + 1 THEN v ELSE g[i]) \in S
      <4>1. i # m + 1 => i \in 0 .. m
        OBVIOUS
      <4> QED
        BY <2>2, <2>3, <4>1
    <3> QED
      BY <3>1
  <2> HIDE DEF h
  <2>6. \A n \in 1 .. m + 1 : h[n] = G[<<n, h[n - 1]>>]
    <3> TAKE n \in 1 .. m + 1
    <3>1. CASE n = m + 1
      <4>1. n - 1 = m /\ h[n - 1] = g[m]
        BY <2>3, <3>1
      <4> QED
        BY <2>4, <3>1, <4>1 DEF v
    <3>2. CASE n # m + 1
      <4>1. n \in 1 .. m /\ n \in 0 .. m /\ n - 1 \in 0 .. m
        BY <3>2
      <4>2. g[n] = G[<<n, g[n - 1]>>]
        BY <2>1, <4>1
      <4> QED
        BY <2>3, <4>1, <4>2
    <3> QED
      BY <3>1, <3>2
  <2>7. h[0] = b
    BY <2>1, <2>3
  <2> QED
    BY <2>5, <2>6, <2>7
<1>3. N \in Q
  <2> HIDE DEF Q
  <2> QED
    BY <1>1, <1>2, NatSetInduction
<1>4. \E g : Ok(N, g)
  BY <1>3
<1> QED
  BY <1>4 DEF IsRun

\* A function that begins with b and goes on as G says stays in S.
LEMMA RunStays ==
  ASSUME NEW N \in Nat, NEW S, NEW b \in S, NEW G, StepsStay(N, S, G),
         NEW J, J = [n \in 0 .. N |-> J[n]], J[0] = b,
         \A n \in 1 .. N : J[n - 1] \in S => J[n] = G[<<n, J[n - 1]>>]
  PROVE  IsRun(J, N, S, b, G)
<1> DEFINE Q == {n \in Nat : n <= N => J[n] \in S}
<1>1. 0 \in Q
  OBVIOUS
<1>2. ASSUME NEW n \in Nat, n \in Q PROVE n + 1 \in Q
  <2> SUFFICES ASSUME n + 1 <= N PROVE J[n + 1] \in S
    OBVIOUS
  <2>1. n + 1 \in 1 .. N /\ (n + 1) - 1 = n /\ J[n] \in S
    BY <1>2
  <2>2. J[n + 1] = G[<<n + 1, J[n]>>]
    BY <2>1
  <2> QED
    BY <2>1, <2>2 DEF StepsStay
<1>3. \A n \in Nat : n \in Q
  <2> HIDE DEF Q
  <2> QED
    BY <1>1, <1>2, NatSetInduction
<1>4. \A n \in 0 .. N : J[n] \in S
  BY <1>3
<1>5. J \in [0 .. N -> S]
  BY <1>4
<1>6. \A n \in 1 .. N : J[n - 1] \in S
  BY <1>4
<1> QED
  BY <1>5, <1>6 DEF IsRun

-----------------------------------------------------------------------------
(* Arithmetic.                                                             *)

\* Quotient and remainder are what the division says they are.
LEMMA Quotient ==
  ASSUME NEW m \in Nat, m > 0, NEW b \in Nat, NEW r \in 0 .. m - 1, NEW v \in Nat, v = m * b + r
  PROVE  v \div m = b /\ v % m = r
OBVIOUS

LEMMA Division ==
  ASSUME NEW m \in Nat, m > 0, NEW v \in Nat
  PROVE  v \div m \in Nat /\ v % m \in 0 .. m - 1 /\ v = m * (v \div m) + (v % m)
OBVIOUS

LEMMA Products ==
  ASSUME NEW a \in Nat, NEW b \in Nat
  PROVE  a * b \in Nat /\ a * b = b * a /\ (a > 0 /\ b > 0 => a * b > 0) /\ (b > 0 => a * b >= a)
OBVIOUS

\* Dividing twice.
LEMMA DivideTwice ==
  ASSUME NEW v \in Nat, NEW p \in Nat, p > 0, NEW g \in Nat, g > 0
  PROVE  v \div (g * p) = (v \div p) \div g
<1> DEFINE a == v \div p
           r == v % p
           b == a \div g
           s == a % g
<1>1. a \in Nat /\ r \in 0 .. p - 1 /\ v = p * a + r
  BY Division
<1>2. b \in Nat /\ s \in 0 .. g - 1 /\ a = g * b + s
  BY <1>1, Division
<1> HIDE DEF a, r, b, s
<1>3. v = (g * p) * b + (p * s + r)
  BY <1>1, <1>2
<1>4. p * s + r \in 0 .. g * p - 1
  <2>1. p * s <= p * (g - 1)
    BY <1>2
  <2>2. p * s \in Nat /\ p * (g - 1) = g * p - p
    BY <1>2
  <2> QED
    BY <1>1, <2>1, <2>2
<1>5. g * p \in Nat /\ g * p > 0
  BY Products
<1> DEFINE m == g * p
           t == p * s + r
<1>6. v \div m = b
  <2>1. m \in Nat /\ m > 0 /\ b \in Nat /\ t \in 0 .. m - 1 /\ v = m * b + t
    BY <1>2, <1>3, <1>4, <1>5
  <2> HIDE DEF m, t
  <2> QED
    BY <2>1, Quotient
<1> QED
  BY <1>6 DEF a, b

-----------------------------------------------------------------------------
(* Powers.                                                                 *)

LEMMA PowerIs ==
  /\ Power \in [0 .. MaxVarintLength -> Nat \ {0}]
  /\ Power[0] = 1
  /\ \A n \in 1 .. MaxVarintLength : Power[n] = Group * Power[n - 1]
<1> DEFINE N == MaxVarintLength
           S == Nat \ {0}
           step(n, x) == Group * x
           G == [p \in (1 .. N) \X S |-> step(p[1], p[2])]
<1>0. Group \in Nat /\ Group > 1 /\ N \in Nat
  BY VarintAssumption
<1>1. \A n \in 1 .. N : \A x \in S : step(n, x) \in S /\ G[<<n, x>>] = step(n, x)
  BY <1>0, Products
<1>2. StepsStay(N, S, G)
  BY <1>1, Zenon DEF StepsStay
<1>3. 1 \in S
  OBVIOUS
<1>4. PICK g : IsRun(g, N, S, 1, G)
  <2> HIDE DEF G, N, S
  <2> QED
    BY <1>0, <1>2, <1>3, Recursion, Zenon
<1> DEFINE first(f) == f = [n \in 0 .. N |-> IF n = 0 THEN 1 ELSE step(n, f[n - 1])]
           J == Power
<1>5. first(g)
  <2>1. \A n \in 1 .. N : g[n] = step(n, g[n - 1])
    <3>1. \A n \in 1 .. N : g[n - 1] \in S /\ g[n] = G[<<n, g[n - 1]>>]
      <4> HIDE DEF G, S, N
      <4> QED
        BY <1>0, <1>4 DEF IsRun
    <3> HIDE DEF G, S, N, step
    <3> QED
      BY <1>1, <3>1
  <2> HIDE DEF step, S, G, N
  <2> QED
    BY <1>0, <1>4, <2>1 DEF IsRun
<1>6. first(J)
  <2>1. \E f : first(f)
    BY <1>5
  <2> QED
    BY <2>1 DEF Power
<1>7. J[0] = 1 /\ \A n \in 1 .. N : J[n] = step(n, J[n - 1])
  <2> HIDE DEF step, J, N
  <2> QED
    BY <1>0, <1>6
<1>8. J = [n \in 0 .. N |-> J[n]]
  <2> HIDE DEF step, J, N
  <2> QED
    BY <1>6
<1>9. IsRun(J, N, S, 1, G)
  <2>1. \A n \in 1 .. N : J[n - 1] \in S => J[n] = G[<<n, J[n - 1]>>]
    <3> HIDE DEF G, S, N, J, step
    <3> QED
      BY <1>1, <1>7
  <2> HIDE DEF G, S, N, J
  <2> QED
    BY <1>0, <1>2, <1>3, <1>7, <1>8, <2>1, RunStays
<1> QED
  BY <1>7, <1>9 DEF IsRun

\* A longer varint holds more.
LEMMA PowerGrows ==
  ASSUME NEW n \in 1 .. MaxVarintLength
  PROVE  Power[n] > Power[n - 1] /\ Power[n] >= Group
<1>1. /\ Power[n] = Group * Power[n - 1]
      /\ Power[n - 1] \in Nat /\ Power[n - 1] >= 1
      /\ Group \in Nat /\ Group > 1
  <2>1. Group \in Nat /\ Group > 1 /\ MaxVarintLength \in Nat
    BY VarintAssumption
  <2>2. Power[n] = Group * Power[n - 1]
    BY PowerIs
  <2>3. n - 1 \in 0 .. MaxVarintLength
    BY <2>1
  <2>4. Power[n - 1] \in Nat \ {0}
    BY PowerIs, <2>3
  <2> QED
    BY <2>1, <2>2, <2>4
<1> DEFINE g == Power[n - 1]
<1> HIDE DEF g
<1>2. g \in Nat /\ g >= 1 => Group * g > g /\ Group * g >= Group
  BY <1>1
<1> QED
  BY <1>1, <1>2 DEF g

LEMMA PowerMonotone ==
  ASSUME NEW m \in 0 .. MaxVarintLength, NEW n \in 0 .. MaxVarintLength, m <= n
  PROVE  Power[m] <= Power[n]
<1> DEFINE Q == {k \in Nat : m + k <= MaxVarintLength => Power[m] <= Power[m + k]}
<1>0. MaxVarintLength \in Nat /\ \A k \in 0 .. MaxVarintLength : Power[k] \in Nat
  BY VarintAssumption, PowerIs
<1>1. 0 \in Q
  BY <1>0
<1>2. ASSUME NEW k \in Nat, k \in Q PROVE k + 1 \in Q
  <2> SUFFICES ASSUME m + (k + 1) <= MaxVarintLength PROVE Power[m] <= Power[m + (k + 1)]
    OBVIOUS
  <2>1. m + (k + 1) \in 1 .. MaxVarintLength /\ (m + (k + 1)) - 1 = m + k
    BY <1>0
  <2>2. Power[m + (k + 1)] > Power[m + k]
    BY <2>1, PowerGrows
  <2>3. Power[m] <= Power[m + k]
    BY <1>2, <2>1, <1>0
  <2>4. Power[m] \in Nat /\ Power[m + k] \in Nat /\ Power[m + (k + 1)] \in Nat
    BY <1>0, <2>1
  <2> QED
    BY <2>2, <2>3, <2>4
<1>3. \A k \in Nat : k \in Q
  <2> HIDE DEF Q
  <2> QED
    BY <1>1, <1>2, NatSetInduction
<1>4. n - m \in Nat /\ m + (n - m) = n
  BY <1>0
<1> QED
  BY <1>0, <1>3, <1>4

-----------------------------------------------------------------------------
(* Varints.                                                                *)

LEMMA Widths ==
  /\ MaxVarintLength \in Nat /\ MaxVarintLength >= 2
  /\ Group \in Nat /\ Group > 1
  /\ Word \in Nat /\ Word > 0
  /\ \A k \in 0 .. MaxVarintLength : Power[k] \in Nat /\ Power[k] > 0
<1>1. MaxVarintLength \in Nat /\ MaxVarintLength >= 2 /\ Group \in Nat /\ Group > 1
      /\ Word \in Nat
  BY VarintAssumption
<1>2. \A k \in 0 .. MaxVarintLength : Power[k] \in Nat /\ Power[k] > 0
  BY PowerIs
<1>3. Power[MaxVarintLength - 1] < Word /\ MaxVarintLength - 1 \in 0 .. MaxVarintLength
  BY <1>1, VarintAssumption
<1> QED
  BY <1>1, <1>2, <1>3

LEMMA LengthIs ==
  ASSUME NEW v \in Nat, v < Power[MaxVarintLength]
  PROVE  /\ LengthOfVarint(v) \in 1 .. MaxVarintLength
         /\ v < Power[LengthOfVarint(v)]
         /\ LengthOfVarint(v) = 1 \/ v >= Power[LengthOfVarint(v) - 1]
<1> DEFINE T == {n \in 1 .. MaxVarintLength : v < Power[n]}
<1>0. MaxVarintLength \in Nat /\ MaxVarintLength >= 1
      /\ \A n \in 0 .. MaxVarintLength : Power[n] \in Nat
  BY Widths
<1>1. T \subseteq Nat /\ T # {}
  BY <1>0
<1>2. PICK n \in T : \A y \in T : n <= y
  BY <1>1, LeastNumber
<1>3. n = 1 \/ v >= Power[n - 1]
  BY <1>0, <1>2
<1> QED
  BY <1>2, <1>3 DEF LengthOfVarint

\* Integers of 64 bits have a varint, and those with few groups have a short one.
LEMMA LengthOfWord ==
  ASSUME NEW v \in 0 .. Word - 1
  PROVE  v \in Nat /\ v < Power[MaxVarintLength]
BY VarintAssumption, PowerIs

LEMMA LengthBound ==
  ASSUME NEW v \in Nat, NEW n \in 1 .. MaxVarintLength, v < Power[n]
  PROVE  LengthOfVarint(v) <= n
<1>0. MaxVarintLength \in Nat /\ \A k \in 0 .. MaxVarintLength : Power[k] \in Nat
  BY VarintAssumption, PowerIs
<1>1. v < Power[MaxVarintLength]
  BY <1>0, PowerMonotone
<1> DEFINE l == LengthOfVarint(v)
<1>2. l \in 1 .. MaxVarintLength /\ (l = 1 \/ v >= Power[l - 1])
  BY <1>1, LengthIs
<1> HIDE DEF l
<1>3. ASSUME l > n PROVE FALSE
  <2>1. l - 1 \in 0 .. MaxVarintLength /\ n <= l - 1 /\ n \in 0 .. MaxVarintLength
    BY <1>0, <1>2, <1>3
  <2>2. Power[n] <= Power[l - 1]
    BY <2>1, PowerMonotone
  <2>3. v >= Power[l - 1]
    BY <1>2, <1>3
  <2> QED
    BY <1>0, <2>1, <2>2, <2>3
<1> QED
  BY <1>0, <1>2, <1>3 DEF l

\* What add_varint_to_buffer writes is a varint (varint.hpp:135-176).
LEMMA EncodeIs ==
  ASSUME NEW v \in 0 .. Word - 1
  PROVE  /\ EncodeVarint(v) \in Seq(Byte)
         /\ Len(EncodeVarint(v)) = LengthOfVarint(v)
         /\ IsVarint(EncodeVarint(v))
<1> DEFINE n == LengthOfVarint(v)
           e == EncodeVarint(v)
<1>0. MaxVarintLength \in Nat /\ Group \in Nat /\ Group > 1
      /\ \A k \in 0 .. MaxVarintLength : Power[k] \in Nat /\ Power[k] > 0
  BY Widths
<1>1. v \in Nat /\ n \in 1 .. MaxVarintLength /\ v < Power[n]
  BY LengthOfWord, LengthIs
<1>2. e = [i \in 1 .. n |-> IF i < n THEN Group + ((v \div Power[i - 1]) % Group)
                            ELSE v \div Power[i - 1]]
  BY DEF EncodeVarint
<1> HIDE DEF n, e
<1>3. ASSUME NEW i \in 1 .. n, i < n
      PROVE  e[i] \in Byte /\ Continues(e[i])
  <2>1. i - 1 \in 0 .. MaxVarintLength
    BY <1>0, <1>1
  <2> DEFINE d == v \div Power[i - 1]
  <2>2. d \in Nat
    BY <1>0, <1>1, <2>1, Division
  <2>3. e[i] = Group + (d % Group)
    BY <1>2, <1>3
  <2> HIDE DEF d
  <2>4. d % Group \in 0 .. Group - 1
    BY <1>0, <2>2, Division
  <2> QED
    BY <1>0, <2>3, <2>4 DEF Byte, Continues
<1>4. e[n] \in Byte /\ ~Continues(e[n])
  <2> DEFINE p == Power[n - 1]
             d == v \div p
  <2>1. p \in Nat /\ p > 0 /\ Power[n] = Group * p
    BY <1>0, <1>1, PowerIs
  <2>2. d \in Nat /\ v % p \in 0 .. p - 1 /\ v = p * d + (v % p)
    BY <1>1, <2>1, Division
  <2>3. e[n] = d
    BY <1>1, <1>2
  <2> HIDE DEF p, d
  <2>4. d < Group
    <3> SUFFICES ASSUME d >= Group PROVE FALSE
      BY <1>0, <2>2
    <3>1. p * d >= p * Group
      BY <1>0, <2>1, <2>2
    <3> QED
      BY <1>0, <1>1, <2>1, <2>2, <3>1
  <2> QED
    BY <1>0, <2>2, <2>3, <2>4 DEF Byte, Continues
<1>5. e \in Seq(Byte) /\ Len(e) = n
  <2>1. \A i \in 1 .. n : e[i] \in Byte
    BY <1>1, <1>3, <1>4
  <2>2. n \in Nat /\ DOMAIN e = 1 .. n /\ e \in [1 .. n -> Byte]
    <3> HIDE DEF Byte
    <3> QED
    BY <1>0, <1>1, <1>2, <2>1
  <2> HIDE DEF Byte
  <2> QED
    BY <2>2
<1>6. IsVarint(e)
  BY <1>0, <1>1, <1>3, <1>4, <1>5 DEF IsVarint
<1> QED
  BY <1>5, <1>6 DEF n, e

\* The last byte of a varint that is longer than one byte is not zero, which
\* makes it the shortest one.
\* The sum of the groups, from the back, of a text (for ValueOf).
LEMMA ValuesAre ==
  ASSUME NEW s \in Seq(Byte)
  PROVE  /\ Values(s) \in [0 .. Len(s) -> Nat]
         /\ Values(s)[0] = 0
         /\ \A n \in 1 .. Len(s) :
              Values(s)[n] = (s[Len(s) - n + 1] % Group) + Group * Values(s)[n - 1]
<1> DEFINE N == Len(s)
           S == Nat
           step(n, x) == (s[Len(s) - n + 1] % Group) + Group * x
           G == [p \in (1 .. N) \X S |-> step(p[1], p[2])]
<1>0. Group \in Nat /\ Group > 1 /\ N \in Nat
  BY VarintAssumption
<1>1. \A n \in 1 .. N : \A x \in S : step(n, x) \in S /\ G[<<n, x>>] = step(n, x)
  <2> SUFFICES ASSUME NEW n \in 1 .. N, NEW x \in S PROVE step(n, x) \in S /\ G[<<n, x>>] = step(n, x)
    OBVIOUS
  <2>1. s[Len(s) - n + 1] \in Nat
    BY <1>0 DEF Byte
  <2>2. s[Len(s) - n + 1] % Group \in Nat
    BY <1>0, <2>1, Division
  <2>3. Group * x \in Nat
    BY <1>0, Products
  <2> QED
    BY <2>2, <2>3
<1>2. StepsStay(N, S, G)
  BY <1>1, Zenon DEF StepsStay
<1>4. PICK g : IsRun(g, N, S, 0, G)
  <2>1. 0 \in S
    OBVIOUS
  <2> HIDE DEF G, N, S
  <2> QED
    BY <1>0, <1>2, <2>1, Recursion, Zenon
<1> DEFINE first(f) == f = [n \in 0 .. N |-> IF n = 0 THEN 0 ELSE step(n, f[n - 1])]
           J == Values(s)
<1>5. first(g)
  <2>1. \A n \in 1 .. N : g[n] = step(n, g[n - 1])
    <3>1. \A n \in 1 .. N : g[n - 1] \in S /\ g[n] = G[<<n, g[n - 1]>>]
      <4> HIDE DEF G, S, N
      <4> QED
        BY <1>0, <1>4 DEF IsRun
    <3> HIDE DEF G, S, N, step
    <3> QED
      BY <1>1, <3>1
  <2> HIDE DEF step, S, G, N
  <2> QED
    BY <1>0, <1>4, <2>1 DEF IsRun
<1>6. first(J)
  <2>1. \E f : first(f)
    BY <1>5
  <2> QED
    BY <2>1 DEF Values
<1>7. J[0] = 0 /\ \A n \in 1 .. N : J[n] = step(n, J[n - 1])
  <2> HIDE DEF step, J, N
  <2> QED
    BY <1>0, <1>6
<1>8. J = [n \in 0 .. N |-> J[n]]
  <2> HIDE DEF step, J, N
  <2> QED
    BY <1>6
<1>9. IsRun(J, N, S, 0, G)
  <2>1. \A n \in 1 .. N : J[n - 1] \in S => J[n] = G[<<n, J[n - 1]>>]
    <3> HIDE DEF G, S, N, J, step
    <3> QED
      BY <1>1, <1>7
  <2>2. 0 \in S
    OBVIOUS
  <2> HIDE DEF G, S, N, J
  <2> QED
    BY <1>0, <1>2, <1>7, <1>8, <2>1, <2>2, RunStays
<1> QED
  BY <1>7, <1>9 DEF IsRun

\* A varint that was written stands for the integer.
LEMMA EncodeValue ==
  ASSUME NEW v \in 0 .. Word - 1
  PROVE  ValueOf(EncodeVarint(v)) = v
<1> DEFINE n == LengthOfVarint(v)
           e == EncodeVarint(v)
           V == Values(e)
           Q == {k \in Nat : k <= n => V[k] = v \div Power[n - k]}
<1>0. MaxVarintLength \in Nat /\ Group \in Nat /\ Group > 1 /\ Word \in Nat
      /\ \A k \in 0 .. MaxVarintLength : Power[k] \in Nat /\ Power[k] > 0
  BY Widths
<1>1. v \in Nat /\ n \in 1 .. MaxVarintLength /\ v < Power[n]
  BY LengthOfWord, LengthIs
<1>2. e = [i \in 1 .. n |-> IF i < n THEN Group + ((v \div Power[i - 1]) % Group)
                            ELSE v \div Power[i - 1]]
  BY DEF EncodeVarint
<1>3. e \in Seq(Byte) /\ Len(e) = n /\ IsVarint(e)
  BY EncodeIs
<1>4. V[0] = 0 /\ \A k \in 1 .. n : V[k] = (e[n - k + 1] % Group) + Group * V[k - 1]
  BY <1>3, ValuesAre
<1> HIDE DEF n, e, V
<1>5. ASSUME NEW k \in 1 .. n
      PROVE  e[n - k + 1] % Group = (v \div Power[n - k]) % Group
  <2> DEFINE d == v \div Power[n - k]
  <2>1. n - k + 1 \in 1 .. n /\ (n - k + 1) - 1 = n - k /\ n - k \in 0 .. MaxVarintLength
    BY <1>0, <1>1
  <2>2. d \in Nat
    BY <1>0, <1>1, <2>1, Division
  <2>3. e[n - k + 1] = IF n - k + 1 < n THEN Group + (d % Group) ELSE d
    BY <1>2, <2>1
  <2> HIDE DEF d
  <2>4. d % Group \in 0 .. Group - 1
    BY <1>0, <2>2, Division
  <2> DEFINE r == d % Group
  <2>5. (Group + r) % Group = r
    <3> HIDE DEF r
    <3>1. r \in 0 .. Group - 1
      BY <2>4 DEF r
    <3>2. Group + r \in Nat /\ Group + r = Group * 1 + r
      BY <1>0, <3>1
    <3> QED
      BY <1>0, <3>1, <3>2, Quotient
  <2> QED
    BY <2>3, <2>5 DEF d
<1>6. 0 \in Q
  <2>1. v \div Power[n] = 0
    <3>1. Power[n] \in Nat /\ Power[n] > 0 /\ v = Power[n] * 0 + v /\ v \in 0 .. Power[n] - 1
      BY <1>0, <1>1
    <3> QED
      BY <3>1, Quotient
  <2> QED
    BY <1>1, <1>4, <2>1
<1>7. ASSUME NEW k \in Nat, k \in Q PROVE k + 1 \in Q
  <2> SUFFICES ASSUME k + 1 <= n PROVE V[k + 1] = v \div Power[n - (k + 1)]
    OBVIOUS
  <2>1. k + 1 \in 1 .. n /\ (k + 1) - 1 = k /\ n - k = (n - (k + 1)) + 1
        /\ n - k \in 1 .. MaxVarintLength /\ n - (k + 1) = (n - k) - 1
    BY <1>0, <1>1
  <2> DEFINE p == Power[n - (k + 1)]
             d == v \div p
  <2>2. p \in Nat /\ p > 0 /\ Power[n - k] = Group * p
    BY <1>0, <2>1, PowerIs
  <2>3. V[k] = v \div (Group * p)
    <3>1. k <= n
      BY <2>1, <1>7, <1>1
    <3>2. V[k] = v \div Power[n - k]
      BY <1>7, <3>1
    <3> QED
      BY <3>2, <2>2
  <2>4. V[k] = d \div Group
    <3> HIDE DEF p
    <3> QED
      BY <1>0, <1>1, <2>2, <2>3, DivideTwice
  <2>5. d \in Nat
    BY <1>0, <1>1, <2>2, Division
  <2>6. V[k + 1] = (d % Group) + Group * V[k]
    BY <1>4, <1>5, <2>1
  <2> HIDE DEF d
  <2>7. d % Group \in Nat /\ d \div Group \in Nat /\ d = Group * (d \div Group) + (d % Group)
    BY <1>0, <2>5, Division
  <2>8. V[k + 1] = d
    BY <1>0, <2>4, <2>6, <2>7, Products
  <2> QED
    BY <2>8 DEF d
<1>8. \A k \in Nat : k \in Q
  <2> HIDE DEF Q
  <2> QED
    BY <1>6, <1>7, NatSetInduction
<1>9. V[n] = v
  <2>1. n \in Nat /\ n <= n /\ n - n = 0 /\ Power[0] = 1
    BY <1>1, PowerIs
  <2>2. V[n] = v \div 1
    BY <1>8, <2>1
  <2>3. v \div 1 = v
    BY <1>1
  <2> QED
    BY <2>2, <2>3
<1>10. v % Word = v
  BY <1>0
<1> QED
  BY <1>3, <1>9, <1>10 DEF ValueOf, V, e

-----------------------------------------------------------------------------
(* Reading a varint.                                                       *)

\* The bytes p + 1 .. n of a text.
Slice(t, p, n) == SubSeq(t, p + 1, n)

LEMMA SliceIs ==
  ASSUME NEW t \in Seq(Byte), NEW p \in Nat, NEW n \in Nat, p <= n, n <= Len(t)
  PROVE  /\ Slice(t, p, n) \in Seq(Byte)
         /\ Len(Slice(t, p, n)) = n - p
         /\ \A i \in 1 .. n - p : Slice(t, p, n)[i] = t[p + i]
<1>1. \A i \in p + 1 .. n : t[i] \in Byte
  OBVIOUS
<1> HIDE DEF Byte
<1> QED
  BY <1>1 DEF Slice

\* A slice of a slice.
LEMMA SliceOfSlice ==
  ASSUME NEW t \in Seq(Byte), NEW p \in Nat, NEW n \in Nat, p <= n, n <= Len(t),
         NEW a \in Nat, NEW b \in Nat, p <= a, a <= b, b <= n,
         NEW x \in Nat, NEW y \in Nat, x = a - p + 1, y = b - p
  PROVE  SubSeq(Slice(t, p, n), x, y) = Slice(t, a, b)
<1>1. /\ Len(Slice(t, p, n)) = n - p
      /\ \A k \in 1 .. n - p : Slice(t, p, n)[k] = t[p + k]
      /\ Slice(t, p, n) \in Seq(Byte)
  BY SliceIs
<1> DEFINE w == Slice(t, a, b)
           s == Slice(t, p, n)
           u == SubSeq(s, x, y)
<1>3. /\ Len(w) = b - a
      /\ \A k \in 1 .. b - a : w[k] = t[a + k]
      /\ w \in Seq(Byte)
  <2>1. b <= Len(t)
    OBVIOUS
  <2> QED
    BY <2>1, SliceIs
<1> HIDE DEF s, w, Byte
<1>4. /\ Len(u) = b - a /\ u \in Seq(Byte)
      /\ \A k \in 1 .. b - a : u[k] = s[x + k - 1]
  BY <1>1 DEF s
<1>5. ASSUME NEW k \in 1 .. b - a PROVE u[k] = t[a + k]
  <2>1. x + k - 1 \in 1 .. n - p /\ p + (x + k - 1) = a + k
    OBVIOUS
  <2>2. u[k] = s[x + k - 1] /\ s[x + k - 1] = t[p + (x + k - 1)]
    BY <1>1, <1>4, <2>1 DEF s
  <2> QED
    BY <2>1, <2>2
<1> HIDE DEF u
<1>7. u = w
  <2>1. Len(u) = Len(w) /\ \A k \in 1 .. Len(u) : u[k] = w[k]
    BY <1>3, <1>4, <1>5
  <2> QED
    BY <1>3, <1>4, <2>1, SeqEqual
<1> QED
  BY <1>7 DEF s, w, u

\* There is a varint between p and n.
VarintAt(t, p, n) == IsVarint(Slice(t, p, n))

LEMMA VarintAtIs ==
  ASSUME NEW t \in Seq(Byte), NEW p \in Nat, NEW n \in Nat, p <= n, n <= Len(t)
  PROVE  VarintAt(t, p, n) <=> /\ n - p \in 1 .. MaxVarintLength
                               /\ \A r \in p .. n - 2 : Continues(t[r + 1])
                               /\ ~Continues(t[n])
<1>1. /\ Len(Slice(t, p, n)) = n - p
      /\ \A i \in 1 .. n - p : Slice(t, p, n)[i] = t[p + i]
      /\ DOMAIN Slice(t, p, n) = 1 .. n - p
  <2>1. Slice(t, p, n) \in Seq(Byte) /\ Len(Slice(t, p, n)) = n - p
        /\ \A i \in 1 .. n - p : Slice(t, p, n)[i] = t[p + i]
    BY SliceIs
  <2>2. DOMAIN Slice(t, p, n) = 1 .. Len(Slice(t, p, n))
    BY <2>1
  <2> QED
    BY <2>1, <2>2
<1>2. VarintAt(t, p, n) <=> /\ n - p \in 1 .. MaxVarintLength
                            /\ \A i \in 1 .. n - p : Continues(t[p + i]) <=> i < n - p
  BY <1>1 DEF VarintAt, IsVarint
<1>3. ASSUME \A i \in 1 .. n - p : Continues(t[p + i]) <=> i < n - p, n - p \in 1 .. MaxVarintLength
      PROVE  (\A r \in p .. n - 2 : Continues(t[r + 1])) /\ ~Continues(t[n])
  <2>1. ASSUME NEW r \in p .. n - 2 PROVE Continues(t[r + 1])
    <3> DEFINE i == r + 1 - p
    <3>1. i \in 1 .. n - p /\ i < n - p /\ p + i = r + 1
      OBVIOUS
    <3> HIDE DEF i
    <3> QED
      BY <1>3, <3>1
  <2>2. ~Continues(t[n])
    <3> DEFINE i == n - p
    <3>1. i \in 1 .. n - p /\ ~(i < n - p) /\ p + i = n
      BY <1>3, Widths
    <3> HIDE DEF i
    <3> QED
      BY <1>3, <3>1
  <2> QED
    BY <2>1, <2>2
<1>4. ASSUME \A r \in p .. n - 2 : Continues(t[r + 1]), ~Continues(t[n])
      PROVE  \A i \in 1 .. n - p : Continues(t[p + i]) <=> i < n - p
  <2> SUFFICES ASSUME NEW i \in 1 .. n - p PROVE Continues(t[p + i]) <=> i < n - p
    OBVIOUS
  <2>1. CASE i < n - p
    <3>1. p + i - 1 \in p .. n - 2 /\ (p + i - 1) + 1 = p + i
      BY <2>1
    <3> QED
      BY <1>4, <2>1, <3>1
  <2>2. CASE i = n - p
    BY <1>4, <2>2
  <2> QED
    BY <2>1, <2>2
<1> QED
  BY <1>2, <1>3, <1>4

\* No two varints begin at the same place.
LEMMA VarintUnique ==
  ASSUME NEW t \in Seq(Byte), NEW p \in Nat, NEW m \in Nat, NEW n \in Nat,
         p <= m, m <= Len(t), p <= n, n <= Len(t), VarintAt(t, p, m), VarintAt(t, p, n)
  PROVE  m = n
<1>1. /\ m - p \in 1 .. MaxVarintLength /\ n - p \in 1 .. MaxVarintLength
      /\ \A r \in p .. m - 2 : Continues(t[r + 1])
      /\ \A r \in p .. n - 2 : Continues(t[r + 1])
      /\ ~Continues(t[m]) /\ ~Continues(t[n])
  BY VarintAtIs
<1>2. ASSUME m < n PROVE FALSE
  <2>1. m - 1 \in p .. n - 2 /\ (m - 1) + 1 = m
    BY <1>1, <1>2, Widths
  <2> QED
    BY <1>1, <2>1
<1>3. ASSUME n < m PROVE FALSE
  <2>1. n - 1 \in p .. m - 2 /\ (n - 1) + 1 = n
    BY <1>1, <1>3, Widths
  <2> QED
    BY <1>1, <2>1
<1> QED
  BY <1>2, <1>3

LEMMA LastByteIs ==
  ASSUME NEW t \in Seq(Byte), NEW p \in Nat, NEW end \in Nat, p <= end, end <= Len(t)
  PROVE  /\ LastByte(t, p, end) \in p .. end
         /\ LastByte(t, p, end) = end \/ ~Continues(t[LastByte(t, p, end) + 1])
         /\ \A r \in p .. LastByte(t, p, end) - 1 : Continues(t[r + 1])
<1> DEFINE T == {q \in p .. end : q = end \/ ~Continues(t[q + 1])}
           Ok(q) == /\ q = end \/ ~Continues(t[q + 1])
                    /\ \A r \in p .. q - 1 : Continues(t[r + 1])
<1>1. T \subseteq Nat /\ T # {}
  OBVIOUS
<1>2. PICK q \in T : \A y \in T : q <= y
  BY <1>1, LeastNumber
<1>3. \A r \in p .. q - 1 : Continues(t[r + 1])
  <2> SUFFICES ASSUME NEW r \in p .. q - 1, ~Continues(t[r + 1]) PROVE FALSE
    OBVIOUS
  <2>1. r \in T /\ r < q
    OBVIOUS
  <2> QED
    BY <1>2, <2>1
<1>4. \E x \in p .. end : Ok(x)
  BY <1>2, <1>3
<1>5. LastByte(t, p, end) = CHOOSE x \in p .. end : Ok(x)
  BY DEF LastByte
<1> HIDE DEF Ok, T
<1>6. LastByte(t, p, end) \in p .. end /\ Ok(LastByte(t, p, end))
  BY <1>4, <1>5
<1> QED
  BY <1>6 DEF Ok

\* The texts that decode_varint and skip_varint take are those with a varint.
LEMMA FindsVarint ==
  ASSUME NEW t \in Seq(Byte), NEW p \in Nat, NEW end \in Nat, p <= end, end <= Len(t),
         NEW q, q = LastByte(t, p, end)
  PROVE  /\ q # end /\ q - p < MaxVarintLength => VarintAt(t, p, q + 1)
         /\ q = end \/ q - p >= MaxVarintLength =>
              \A n \in p .. end : ~VarintAt(t, p, n)
<1>1. /\ q \in p .. end
      /\ q = end \/ ~Continues(t[q + 1])
      /\ \A r \in p .. q - 1 : Continues(t[r + 1])
  BY LastByteIs
<1>2. ASSUME q # end, q - p < MaxVarintLength PROVE VarintAt(t, p, q + 1)
  <2>1. q + 1 \in Nat /\ p <= q + 1 /\ q + 1 <= Len(t) /\ (q + 1) - p \in 1 .. MaxVarintLength
        /\ (q + 1) - 2 = q - 1
    BY <1>1, <1>2, Widths
  <2> QED
    BY <1>1, <1>2, <2>1, VarintAtIs
<1>3. ASSUME NEW n \in p .. end, VarintAt(t, p, n)
      PROVE  ~(q = end \/ q - p >= MaxVarintLength)
  <2>1. /\ n - p \in 1 .. MaxVarintLength /\ ~Continues(t[n])
        /\ n \in Nat /\ n <= Len(t) /\ p <= n
    BY <1>3, VarintAtIs
  <2>2. n - 1 \in p .. end /\ (n - 1) + 1 = n
    BY <2>1, Widths
  <2>3. ~(n - 1 \in p .. q - 1)
    BY <1>1, <2>1, <2>2
  <2> QED
    BY <1>1, <2>1, <2>2, <2>3, Widths
<1> QED
  BY <1>2, <1>3

\* The first groups of a text, added.
LEMMA SumsAre ==
  ASSUME NEW t \in Seq(Byte), NEW p \in Nat, NEW n \in 0 .. MaxVarintLength, p + n <= Len(t)
  PROVE  /\ \A i \in 1 .. n : GroupAt(t, p, i - 1) \in Nat
         /\ Sums(t, p, n) \in [0 .. n -> Nat]
         /\ Sums(t, p, n)[0] = 0
         /\ \A i \in 1 .. n :
              Sums(t, p, n)[i] = Sums(t, p, n)[i - 1] + GroupAt(t, p, i - 1) * Power[i - 1]
<1> DEFINE S == Nat
           step(i, x) == x + GroupAt(t, p, i - 1) * Power[i - 1]
           G == [c \in (1 .. n) \X S |-> step(c[1], c[2])]
<1>0. n \in Nat
  BY Widths
<1>1. \A i \in 1 .. n : GroupAt(t, p, i - 1) \in Nat /\ Power[i - 1] \in Nat
  <2> SUFFICES ASSUME NEW i \in 1 .. n PROVE GroupAt(t, p, i - 1) \in Nat /\ Power[i - 1] \in Nat
    OBVIOUS
  <2>1. i - 1 \in 0 .. MaxVarintLength /\ p + (i - 1) + 1 \in 1 .. Len(t)
    BY <1>0, Widths
  <2>2. t[p + (i - 1) + 1] \in Nat
    BY <2>1, Widths DEF Byte
  <2>3. Power[i - 1] \in Nat /\ Power[i - 1] > 0
    BY <2>1, Widths
  <2> DEFINE d == IF i - 1 = MaxVarintLength - 1 THEN Word \div Power[i - 1] ELSE Group
  <2>4. d \in Nat /\ d > 0
    <3>1. CASE i - 1 = MaxVarintLength - 1
      <4> DEFINE w == Power[i - 1]
      <4>1. w < Word
        BY <3>1, VarintAssumption
      <4>2. w \in Nat /\ w > 0 /\ Word \in Nat
        BY <2>3, Widths
      <4>3. d = Word \div w
        BY <3>1
      <4> HIDE DEF w, d
      <4>4. Word \div w \in Nat /\ Word % w \in 0 .. w - 1 /\ Word = w * (Word \div w) + (Word % w)
        BY <4>2, Division
      <4> DEFINE k == Word \div w
      <4> HIDE DEF k
      <4>5. k # 0
        <5> SUFFICES ASSUME k = 0 PROVE FALSE
          OBVIOUS
        <5>1. w * k = 0
          BY <4>2
        <5> QED
          BY <4>1, <4>2, <4>4, <5>1 DEF k
      <4> QED
        BY <4>3, <4>4, <4>5 DEF k
    <3>2. CASE i - 1 # MaxVarintLength - 1
      BY <3>2, Widths
    <3> QED
      BY <3>1, <3>2
  <2>5. GroupAt(t, p, i - 1) = t[p + (i - 1) + 1] % d
    BY DEF GroupAt
  <2> HIDE DEF d
  <2> QED
    BY <2>2, <2>3, <2>4, <2>5, Division
<1>2. \A i \in 1 .. n : \A x \in S : step(i, x) \in S /\ G[<<i, x>>] = step(i, x)
  <2> SUFFICES ASSUME NEW i \in 1 .. n, NEW x \in S PROVE step(i, x) \in S /\ G[<<i, x>>] = step(i, x)
    OBVIOUS
  <2>1. GroupAt(t, p, i - 1) * Power[i - 1] \in Nat
    BY <1>1, Products
  <2> QED
    BY <2>1
<1>3. StepsStay(n, S, G)
  BY <1>2, Zenon DEF StepsStay
<1>4. PICK g : IsRun(g, n, S, 0, G)
  <2>1. 0 \in S
    OBVIOUS
  <2> HIDE DEF G, S
  <2> QED
    BY <1>0, <1>3, <2>1, Recursion, Zenon
<1> DEFINE first(f) == f = [i \in 0 .. n |-> IF i = 0 THEN 0 ELSE step(i, f[i - 1])]
           J == Sums(t, p, n)
<1>5. first(g)
  <2>1. \A i \in 1 .. n : g[i] = step(i, g[i - 1])
    <3>1. \A i \in 1 .. n : g[i - 1] \in S /\ g[i] = G[<<i, g[i - 1]>>]
      <4> HIDE DEF G, S
      <4> QED
        BY <1>0, <1>4 DEF IsRun
    <3> HIDE DEF G, S, step
    <3> QED
      BY <1>2, <3>1
  <2> HIDE DEF step, S, G
  <2> QED
    BY <1>0, <1>4, <2>1 DEF IsRun
<1>6. first(J)
  <2>1. \E f : first(f)
    BY <1>5
  <2> QED
    BY <2>1 DEF Sums
<1>7. J[0] = 0 /\ \A i \in 1 .. n : J[i] = step(i, J[i - 1])
  <2> HIDE DEF step, J
  <2> QED
    BY <1>0, <1>6
<1>8. J = [i \in 0 .. n |-> J[i]]
  <2> HIDE DEF step, J
  <2> QED
    BY <1>6
<1>9. IsRun(J, n, S, 0, G)
  <2>1. \A i \in 1 .. n : J[i - 1] \in S => J[i] = G[<<i, J[i - 1]>>]
    <3> HIDE DEF G, S, J, step
    <3> QED
      BY <1>2, <1>7
  <2>2. 0 \in S
    OBVIOUS
  <2> HIDE DEF G, S, J
  <2> QED
    BY <1>0, <1>3, <1>7, <1>8, <2>1, <2>2, RunStays
<1> QED
  BY <1>1, <1>7, <1>9 DEF IsRun

\* What decode_varint makes of the bytes of a varint is its value: it cuts the
\* tenth byte, the grammar takes the whole sum modulo 2^64 (varint.hpp:33-64).
LEMMA GroupsAre ==
  ASSUME NEW t \in Seq(Byte), NEW p \in Nat, NEW q \in Nat, VarintAt(t, p, q + 1),
         p <= q, q + 1 <= Len(t)
  PROVE  Groups(t, p, q) = ValueOf(Slice(t, p, q + 1)) /\ Groups(t, p, q) \in 0 .. Word - 1
<1> DEFINE n == q - p + 1
           s == Slice(t, p, q + 1)
           V == Values(s)
           S == Sums(t, p, n)
           M == MaxVarintLength
           last == t[q + 1]
           Q == {i \in Nat : i < n /\ i < M => S[i] + Power[i] * V[n - i] = V[n] /\ S[i] < Power[i]}
<1>0. M \in Nat /\ M >= 2 /\ Group \in Nat /\ Group > 1 /\ Word \in Nat /\ Word > 0
      /\ \A k \in 0 .. M : Power[k] \in Nat /\ Power[k] > 0
  BY Widths
<1>1. n \in 1 .. M /\ ~Continues(last)
  <2>1. q + 1 \in Nat /\ p <= q + 1 /\ (q + 1) - p = n
    OBVIOUS
  <2> QED
    BY <2>1, VarintAtIs
<1>2. s \in Seq(Byte) /\ Len(s) = n /\ \A i \in 1 .. n : s[i] = t[p + i]
  <2>1. q + 1 \in Nat /\ p <= q + 1 /\ (q + 1) - p = n
    OBVIOUS
  <2> QED
    BY <2>1, SliceIs
<1>3. V \in [0 .. n -> Nat] /\ V[0] = 0
      /\ \A k \in 1 .. n : V[k] = (s[n - k + 1] % Group) + Group * V[k - 1]
  BY <1>2, ValuesAre
<1>4. /\ \A i \in 1 .. n : GroupAt(t, p, i - 1) \in Nat
      /\ S \in [0 .. n -> Nat] /\ S[0] = 0
      /\ \A i \in 1 .. n : S[i] = S[i - 1] + GroupAt(t, p, i - 1) * Power[i - 1]
  <2>1. n \in 0 .. M /\ p + n <= Len(t)
    BY <1>1
  <2> HIDE DEF n
  <2> QED
    BY <2>1, SumsAre
<1>5. \A i \in 1 .. n : t[p + i] \in 0 .. 2 * Group - 1
  <2>1. \A i \in 1 .. n : p + i \in 1 .. Len(t)
    BY <1>1
  <2>2. \A i \in 1 .. n : t[p + i] \in Byte
    BY <2>1, ElementOfSeq
  <2> QED
    BY <2>2 DEF Byte
<1>6. last \in 0 .. Group - 1 /\ p + n = q + 1
  <2>1. last \in 0 .. 2 * Group - 1
    <3>1. q + 1 \in 1 .. Len(t)
      OBVIOUS
    <3>2. last \in Byte
      BY <3>1, ElementOfSeq
    <3> QED
      BY <3>2 DEF Byte
  <2> QED
    BY <1>0, <1>1, <2>1 DEF Continues
<1>7. 0 \in Q
  <2>1. Power[0] = 1 /\ S[0] = 0
    BY <1>4, PowerIs
  <2>2. n - 0 = n /\ n \in 0 .. n /\ V[n] \in Nat
    BY <1>0, <1>1, <1>3
  <2> HIDE DEF V, S
  <2>3. 0 + 1 * V[n] = V[n]
    BY <2>2
  <2> QED
    BY <2>1, <2>2, <2>3
<1> HIDE DEF V, S, s, last
\* One more byte, unless it is the tenth.
<1>8. ASSUME NEW i \in Nat, i < n, i < M - 1, S[i] + Power[i] * V[n - i] = V[n], S[i] < Power[i]
      PROVE  S[i + 1] + Power[i + 1] * V[n - (i + 1)] = V[n] /\ S[i + 1] < Power[i + 1]
  <2> DEFINE g == GroupAt(t, p, i)
             P == Power[i]
             v == V[n - (i + 1)]
             x == S[i]
  <2>1. i + 1 \in 1 .. n /\ (i + 1) - 1 = i /\ n - i \in 1 .. n /\ (n - i) - 1 = n - (i + 1)
        /\ n - (i + 1) \in 0 .. n /\ i \in 0 .. M /\ i + 1 \in 1 .. M /\ n - (n - i) + 1 = i + 1
    BY <1>0, <1>1, <1>8
  <2>2. g = t[p + (i + 1)] % Group
    <3>1. i # M - 1 /\ p + i + 1 = p + (i + 1)
      BY <1>0, <1>8
    <3> QED
      BY <3>1 DEF GroupAt
  <2>3. g \in 0 .. Group - 1
    <3>1. t[p + (i + 1)] \in Nat
      <4>1. t[p + (i + 1)] \in 0 .. 2 * Group - 1
        <5> HIDE DEF n
        <5> QED
          BY <1>5, <2>1
      <4> QED
        BY <4>1, <1>0
    <3> QED
      BY <1>0, <2>2, <3>1, Division
  <2>4. V[n - i] = g + Group * v
    BY <1>2, <1>3, <2>1, <2>2
  <2>5. S[i + 1] = x + g * P
    BY <1>4, <2>1
  <2>6. Power[i + 1] = Group * P /\ P \in Nat /\ P > 0
    BY <1>0, <2>1, PowerIs
  <2>7. v \in Nat /\ x \in Nat /\ x < P /\ x + P * (g + Group * v) = V[n]
    BY <1>3, <1>4, <1>8, <2>1, <2>4
  <2> HIDE DEF g, P, v, x, n, M
  <2>8. S[i + 1] + (Group * P) * v = V[n]
    <3>1. P * (g + Group * v) = g * P + (Group * P) * v
      BY <1>0, <2>3, <2>6, <2>7
    <3>2. g * P \in Nat /\ (Group * P) * v \in Nat
      BY <1>0, <2>3, <2>6, <2>7, Products
    <3> QED
      BY <2>5, <2>7, <3>1, <3>2
  <2>9. S[i + 1] < Group * P
    <3>1. g * P <= (Group - 1) * P
      BY <1>0, <2>3, <2>6
    <3>2. (Group - 1) * P = Group * P - P /\ g * P \in Nat /\ Group * P \in Nat
      BY <1>0, <2>3, <2>6
    <3> QED
      BY <2>5, <2>6, <2>7, <3>1, <3>2
  <2> QED
    BY <2>6, <2>8, <2>9 DEF v
<1>9. ASSUME NEW i \in Nat, i \in Q PROVE i + 1 \in Q
  <2> SUFFICES ASSUME i + 1 < n, i + 1 < M
               PROVE  S[i + 1] + Power[i + 1] * V[n - (i + 1)] = V[n] /\ S[i + 1] < Power[i + 1]
    OBVIOUS
  <2>1. i < n /\ i < M /\ i < M - 1
    BY <1>0, <1>1
  <2>2. S[i] + Power[i] * V[n - i] = V[n] /\ S[i] < Power[i]
    BY <1>9, <2>1
  <2> HIDE DEF Q, n, M
  <2> QED
    BY <1>8, <2>1, <2>2
<1>10. \A i \in Nat : i \in Q
  <2> HIDE DEF Q
  <2> QED
    BY <1>7, <1>9, NatSetInduction
<1>11. n - 1 \in Nat /\ n - 1 < n /\ n - 1 < M /\ n - (n - 1) = 1 /\ (n - 1) + 1 = n
  BY <1>0, <1>1
<1> DEFINE x == S[n - 1]
           P == Power[n - 1]
<1>12. x + P * V[1] = V[n] /\ x < P /\ x \in Nat /\ P \in Nat /\ P > 0
  <2>1. x + P * V[1] = V[n] /\ x < P
    <3> HIDE DEF n, M
    <3> QED
      BY <1>10, <1>11
  <2>2. n - 1 \in 0 .. n /\ n - 1 \in 0 .. M
    BY <1>0, <1>1
  <2> QED
    BY <1>0, <1>4, <2>1, <2>2
<1>13. V[1] = last
  <2>1. 1 \in 1 .. n /\ n - 1 + 1 = n /\ n \in 1 .. n
    BY <1>0, <1>1
  <2>2. V[1] = (s[n] % Group) + Group * V[0]
    BY <1>3, <2>1
  <2>3. s[n] = last
    BY <1>2, <1>6, <2>1 DEF last
  <2>4. last % Group = last
    BY <1>0, <1>6
  <2>5. Group * V[0] = 0
    BY <1>0, <1>3
  <2> QED
    BY <1>6, <2>2, <2>3, <2>4, <2>5
<1>14. Groups(t, p, q) = S[n]
  BY DEF Groups, S
<1>15. ValueOf(s) = V[n] % Word
  BY <1>2 DEF ValueOf, V
<1>16. CASE n < M
  <2>1. S[n] + Power[n] * V[n - n] = V[n] /\ S[n] < Power[n]
    <3>1. n - 1 < M - 1
      BY <1>0, <1>1, <1>16
    <3>2. S[(n - 1) + 1] + Power[(n - 1) + 1] * V[n - ((n - 1) + 1)] = V[n]
          /\ S[(n - 1) + 1] < Power[(n - 1) + 1]
      <4>1. x + P * V[n - (n - 1)] = V[n]
        BY <1>11, <1>12
      <4> HIDE DEF n, M
      <4> QED
        BY <1>8, <1>11, <1>12, <3>1, <4>1
    <3> QED
      BY <1>11, <3>2
  <2>2. n - n = 0 /\ n \in 0 .. M /\ n \in 0 .. n /\ n <= M - 1 /\ M - 1 \in 0 .. M
    BY <1>0, <1>1, <1>16
  <2>3. Power[n] * V[0] = 0
    BY <1>0, <1>3, <2>2
  <2>4. S[n] \in Nat
    BY <1>4, <2>2
  <2>5. S[n] = V[n]
    BY <2>1, <2>2, <2>3, <2>4
  <2>6. Power[n] <= Power[M - 1]
    <3> HIDE DEF n
    <3> QED
      BY <2>2, PowerMonotone
  <2>7. Power[M - 1] < Word
    BY VarintAssumption
  <2>8. S[n] \in 0 .. Word - 1
    BY <1>0, <2>1, <2>2, <2>4, <2>6, <2>7
  <2>9. S[n] % Word = S[n]
    <3> DEFINE y == S[n]
    <3>1. y \in 0 .. Word - 1 /\ Word \in Nat
      BY <1>0, <2>8
    <3> HIDE DEF y
    <3>2. y % Word = y
      BY <3>1
    <3> QED
      BY <3>2 DEF y
  <2> QED
    BY <1>14, <1>15, <2>5, <2>8, <2>9 DEF s
<1>17. CASE n = M
  <2> DEFINE w == Word \div P
  <2>1. Word = P * w /\ w \in Nat /\ w > 0
    <3>1. Word % P = 0
      BY <1>17, VarintAssumption
    <3>2. w \in Nat /\ Word = P * w + (Word % P)
      <4> HIDE DEF P
      <4> QED
        BY <1>0, <1>12, Division
    <3> HIDE DEF w, P
    <3>3. Word = P * w
      BY <1>12, <3>1, <3>2, Products
    <3>4. w # 0
      BY <1>0, <1>12, <3>3
    <3> QED
      BY <3>2, <3>3, <3>4
  <2> DEFINE r == last % w
             k == last \div w
  <2>2. GroupAt(t, p, n - 1) = r
    <3>1. n - 1 = M - 1 /\ p + (n - 1) + 1 = q + 1
      BY <1>17, <1>1
    <3> QED
      BY <3>1 DEF GroupAt, last
  <2>3. S[n] = x + r * P
    <3>1. n \in 1 .. n
      BY <1>0, <1>1
    <3> QED
      BY <1>4, <2>2, <3>1
  <2>4. r \in 0 .. w - 1 /\ k \in Nat /\ last = w * k + r
    <3> HIDE DEF w
    <3>1. last \in Nat
      BY <1>0, <1>6
    <3> QED
      BY <2>1, <3>1, Division
  <2>5. V[n] = x + P * last
    BY <1>12, <1>13
  <2> HIDE DEF w, r, k, x, P, n, M
  <2>6. V[n] = Word * k + (x + r * P)
    <3>1. P * (w * k + r) = (P * w) * k + r * P
      BY <1>12, <2>1, <2>4
    <3>2. (P * w) * k \in Nat /\ r * P \in Nat
      BY <1>12, <2>1, <2>4, Products
    <3> QED
      BY <1>12, <2>1, <2>4, <2>5, <3>1, <3>2
  <2>7. x + r * P \in 0 .. Word - 1
    <3>1. r * P <= (w - 1) * P
      BY <1>12, <2>1, <2>4
    <3>2. (w - 1) * P = P * w - P /\ r * P \in Nat
      BY <1>12, <2>1, <2>4
    <3> QED
      BY <1>0, <1>12, <2>1, <3>1, <3>2
  <2> DEFINE y == x + r * P
  <2>8. V[n] % Word = y
    <3> DEFINE z == V[n]
    <3>1. z \in Nat
      <4>1. n \in 0 .. n
        BY <1>0, <1>1 DEF n, M
      <4> QED
        BY <1>3, <4>1
    <3>2. z = Word * k + y /\ y \in 0 .. Word - 1
      BY <2>6, <2>7 DEF y
    <3>3. Word \in Nat /\ Word > 0
      BY <1>0
    <3> HIDE DEF y, z
    <3>4. z % Word = y
      BY <2>4, <3>1, <3>2, <3>3, Quotient
    <3> QED
      BY <3>4 DEF z
  <2> QED
    BY <1>14, <1>15, <2>3, <2>7, <2>8 DEF s
<1> QED
  BY <1>0, <1>1, <1>16, <1>17

\* What decode_varint does (varint.hpp:76-99).
LEMMA DecodeIs ==
  ASSUME NEW t \in Seq(Byte), NEW p \in Nat, NEW end \in Nat, p <= end, end <= Len(t),
         NEW r, r = DecodeVarint(t, p, end)
  PROVE  \/ /\ r = [error |-> "none", at |-> r.at, value |-> r.value]
            /\ r.at \in p + 1 .. end /\ VarintAt(t, p, r.at)
            /\ r.value = ValueOf(Slice(t, p, r.at)) /\ r.value \in 0 .. Word - 1
         \/ /\ r.error \in {"varint_too_long", "end_of_buffer"} /\ r.at = p
            /\ \A n \in p .. end : ~VarintAt(t, p, n)
<1> DEFINE q == LastByte(t, p, end)
           v == Groups(t, p, q)
<1>1. q \in p .. end
  BY LastByteIs
<1>2. /\ q # end /\ q - p < MaxVarintLength => VarintAt(t, p, q + 1)
      /\ q = end \/ q - p >= MaxVarintLength => \A n \in p .. end : ~VarintAt(t, p, n)
  BY FindsVarint
<1>3. q # end /\ q - p < MaxVarintLength =>
        v = ValueOf(Slice(t, p, q + 1)) /\ v \in 0 .. Word - 1
  <2> SUFFICES ASSUME q # end, q - p < MaxVarintLength
               PROVE  v = ValueOf(Slice(t, p, q + 1)) /\ v \in 0 .. Word - 1
    OBVIOUS
  <2> HIDE DEF q
  <2>1. q \in Nat /\ p <= q /\ q + 1 <= Len(t)
    BY <1>1
  <2> QED
    BY <1>2, <2>1, GroupsAre
<1>4. r = IF end - p >= MaxVarintLength
          THEN IF q - p < MaxVarintLength THEN Read(q + 1, v) ELSE Fails("varint_too_long", p)
          ELSE IF q = end THEN Fails("end_of_buffer", p) ELSE Read(q + 1, v)
  BY DEF DecodeVarint
<1> HIDE DEF q, v
<1>5. CASE q # end /\ q - p < MaxVarintLength
  <2>1. r = Read(q + 1, v) /\ q + 1 \in p + 1 .. end
    BY <1>1, <1>4, <1>5
  <2> QED
    BY <1>2, <1>3, <1>5, <2>1 DEF Read
<1>6. CASE q = end \/ q - p >= MaxVarintLength
  <2>1. r = Fails("varint_too_long", p) \/ r = Fails("end_of_buffer", p)
    <3>1. CASE end - p >= MaxVarintLength
      <4>1. ~(q - p < MaxVarintLength)
        BY <1>1, <1>6, <3>1, Widths
      <4> QED
        BY <1>4, <3>1, <4>1
    <3>2. CASE ~(end - p >= MaxVarintLength)
      <4>1. q = end
        BY <1>1, <1>6, <3>2, Widths
      <4> QED
        BY <1>4, <3>2, <4>1
    <3> QED
      BY <3>1, <3>2
  <2> QED
    BY <1>2, <1>6, <2>1 DEF Fails
<1> QED
  BY <1>1, <1>5, <1>6, Widths

\* skip_varint ends where decode_varint does (varint.hpp:113-133).
LEMMA SkipIs ==
  ASSUME NEW t \in Seq(Byte), NEW p \in Nat, NEW end \in Nat, p <= end, end <= Len(t),
         NEW r, r = SkipVarint(t, p, end)
  PROVE  \/ /\ r = [error |-> "none", at |-> r.at, value |-> 0]
            /\ r.at \in p + 1 .. end /\ VarintAt(t, p, r.at)
         \/ /\ r.error \in {"varint_too_long", "end_of_buffer"} /\ r.at = p
            /\ \A n \in p .. end : ~VarintAt(t, p, n)
<1> DEFINE q == LastByte(t, p, end)
<1>1. q \in p .. end
  BY LastByteIs
<1>2. /\ q # end /\ q - p < MaxVarintLength => VarintAt(t, p, q + 1)
      /\ q = end \/ q - p >= MaxVarintLength => \A n \in p .. end : ~VarintAt(t, p, n)
  BY FindsVarint
<1>4. r = IF q - p >= MaxVarintLength THEN Fails("varint_too_long", p)
          ELSE IF q = end THEN Fails("end_of_buffer", p) ELSE Read(q + 1, 0)
  BY DEF SkipVarint
<1> HIDE DEF q
<1>5. CASE q # end /\ q - p < MaxVarintLength
  <2>1. r = Read(q + 1, 0) /\ q + 1 \in p + 1 .. end
    BY <1>1, <1>4, <1>5, Widths
  <2> QED
    BY <1>2, <1>5, <2>1 DEF Read
<1>6. CASE q = end \/ q - p >= MaxVarintLength
  <2>1. r = Fails("varint_too_long", p) \/ r = Fails("end_of_buffer", p)
    BY <1>4, <1>6
  <2> QED
    BY <1>2, <1>6, <2>1 DEF Fails
<1> QED
  BY <1>1, <1>5, <1>6, Widths

-----------------------------------------------------------------------------
(* Fields of a text, by their positions.                                   *)

LEMMA Sizes ==
  /\ Fixed32 \in Nat /\ Fixed32 > 0 /\ Fixed64 \in Nat /\ Fixed64 > 0
  /\ ShortWord \in Nat /\ ShortWord > 0 /\ ShortWord % 8 = 0 /\ ShortWord <= Word
BY WireFormatAssumption, VarintAssumption

Value32(t, p, n) == ValueOf(Slice(t, p, n)) % ShortWord

\* A length and m bytes between k and n.
DelimitedAt(t, k, n, m) ==
  \E j \in k + 1 .. n : VarintAt(t, k, j) /\ Value32(t, k, j) = m /\ m = n - j

\* What follows a key with that type between k and n, with a payload of m bytes.
BodyAt(t, type, k, n, m) ==
  \/ type = VarintType /\ VarintAt(t, k, n) /\ m = n - k
  \/ type = Fixed32Type /\ m = Fixed32 /\ m = n - k
  \/ type = Fixed64Type /\ m = Fixed64 /\ m = n - k
  \/ type = LengthDelimited /\ DelimitedAt(t, k, n, m)

FieldAt(t, p, n, m) ==
  \E k \in p + 1 .. n :
    /\ VarintAt(t, p, k) /\ ValidTag(Value32(t, p, k) \div 8)
    /\ BodyAt(t, Value32(t, p, k) % 8, k, n, m)

LEMMA SlicePrefix ==
  ASSUME NEW t \in Seq(Byte), NEW p \in Nat, NEW n \in Nat, p <= n, n <= Len(t), NEW k \in 0 .. n - p
  PROVE  SubSeq(Slice(t, p, n), 1, k) = Slice(t, p, p + k)
<1>1. \A b, x, y \in Nat : p <= b /\ b <= n /\ x = p - p + 1 /\ y = b - p =>
        SubSeq(Slice(t, p, n), x, y) = Slice(t, p, b)
  <2> SUFFICES ASSUME NEW b \in Nat, NEW x \in Nat, NEW y \in Nat,
                      p <= b, b <= n, x = p - p + 1, y = b - p
               PROVE  SubSeq(Slice(t, p, n), x, y) = Slice(t, p, b)
    OBVIOUS
  <2>1. p <= p
    OBVIOUS
  <2> QED
    BY <2>1, SliceOfSlice
<1>2. p + k \in Nat /\ 1 \in Nat /\ k \in Nat
      /\ p <= p + k /\ p + k <= n /\ 1 = p - p + 1 /\ k = p + k - p
  OBVIOUS
<1> QED
  BY <1>1, <1>2

LEMMA SliceRest ==
  ASSUME NEW t \in Seq(Byte), NEW p \in Nat, NEW n \in Nat, p <= n, n <= Len(t), NEW k \in 0 .. n - p
  PROVE  SubSeq(Slice(t, p, n), k + 1, n - p) = Slice(t, p + k, n)
<1>1. \A a, x, y \in Nat : p <= a /\ a <= n /\ x = a - p + 1 /\ y = n - p =>
        SubSeq(Slice(t, p, n), x, y) = Slice(t, a, n)
  <2> SUFFICES ASSUME NEW a \in Nat, NEW x \in Nat, NEW y \in Nat,
                      p <= a, a <= n, x = a - p + 1, y = n - p
               PROVE  SubSeq(Slice(t, p, n), x, y) = Slice(t, a, n)
    OBVIOUS
  <2>1. n <= n
    OBVIOUS
  <2> QED
    BY <2>1, SliceOfSlice
<1>2. p + k \in Nat /\ k + 1 \in Nat /\ n - p \in Nat
      /\ p <= p + k /\ p + k <= n /\ k + 1 = p + k - p + 1 /\ n - p = n - p
  OBVIOUS
<1> QED
  BY <1>1, <1>2

LEMMA DelimitedAtIs ==
  ASSUME NEW t \in Seq(Byte), NEW p \in Nat, NEW n \in Nat, p <= n, n <= Len(t), NEW m
  PROVE  IsDelimited(Slice(t, p, n), m) <=> DelimitedAt(t, p, n, m)
<1> DEFINE s == Slice(t, p, n)
<1>1. s \in Seq(Byte) /\ Len(s) = n - p /\ DOMAIN s = 1 .. n - p
  <2>1. s \in Seq(Byte) /\ Len(s) = n - p
    BY SliceIs
  <2> QED
    BY <2>1
<1>2. \A k \in 1 .. n - p : SubSeq(s, 1, k) = Slice(t, p, p + k)
  <2> SUFFICES ASSUME NEW k \in 1 .. n - p PROVE SubSeq(s, 1, k) = Slice(t, p, p + k)
    OBVIOUS
  <2>1. k \in 0 .. n - p
    OBVIOUS
  <2> QED
    BY <2>1, SlicePrefix, Zenon
<1>3. IsDelimited(s, m) <=>
        \E k \in 1 .. n - p : /\ VarintAt(t, p, p + k) /\ Value32(t, p, p + k) = m
                              /\ m = n - p - k
  <2> HIDE DEF s
  <2>1. IsDelimited(s, m) <=>
          \E k \in 1 .. n - p : /\ IsVarint(SubSeq(s, 1, k)) /\ ValueOf(SubSeq(s, 1, k)) % ShortWord = m
                                /\ m = n - p - k
    BY <1>1 DEF IsDelimited
  <2> QED
    BY <1>2, <2>1 DEF VarintAt, Value32
<1>4. ASSUME NEW k \in 1 .. n - p, VarintAt(t, p, p + k), Value32(t, p, p + k) = m, m = n - p - k
      PROVE  DelimitedAt(t, p, n, m)
  <2>1. p + k \in p + 1 .. n /\ m = n - (p + k)
    BY <1>4
  <2> QED
    BY <1>4, <2>1 DEF DelimitedAt
<1>5. ASSUME NEW j \in p + 1 .. n, VarintAt(t, p, j), Value32(t, p, j) = m, m = n - j
      PROVE  \E k \in 1 .. n - p : /\ VarintAt(t, p, p + k) /\ Value32(t, p, p + k) = m
                                   /\ m = n - p - k
  <2>1. j - p \in 1 .. n - p /\ p + (j - p) = j /\ m = n - p - (j - p)
    BY <1>5
  <2> QED
    BY <1>5, <2>1
<1> HIDE DEF s
<1> QED
  BY <1>3, <1>4, <1>5 DEF DelimitedAt, s

\* HasField in terms of positions.
LEMMA FieldAtIs ==
  ASSUME NEW t \in Seq(Byte), NEW p \in Nat, NEW n \in Nat, p <= n, n <= Len(t), NEW m
  PROVE  HasField(Slice(t, p, n), m) <=> FieldAt(t, p, n, m)
<1> DEFINE s == Slice(t, p, n)
           body(type, r) ==
             \/ type = VarintType /\ IsVarint(r) /\ m = Len(r)
             \/ type = Fixed32Type /\ m = Fixed32 /\ m = Len(r)
             \/ type = Fixed64Type /\ m = Fixed64 /\ m = Len(r)
             \/ type = LengthDelimited /\ IsDelimited(r, m)
<1>1. s \in Seq(Byte) /\ Len(s) = n - p /\ DOMAIN s = 1 .. n - p
  <2>1. s \in Seq(Byte) /\ Len(s) = n - p
    BY SliceIs
  <2> QED
    BY <2>1
<1>2. \A k \in 1 .. n - p : SubSeq(s, 1, k) = Slice(t, p, p + k)
  <2> SUFFICES ASSUME NEW k \in 1 .. n - p PROVE SubSeq(s, 1, k) = Slice(t, p, p + k)
    OBVIOUS
  <2>1. k \in 0 .. n - p
    OBVIOUS
  <2> QED
    BY <2>1, SlicePrefix, Zenon
<1>3. \A k \in 1 .. n - p : From(s, k + 1) = Slice(t, p + k, n)
  <2> SUFFICES ASSUME NEW k \in 1 .. n - p PROVE SubSeq(s, k + 1, n - p) = Slice(t, p + k, n)
    BY <1>1 DEF From
  <2>1. k \in 0 .. n - p
    OBVIOUS
  <2> QED
    BY <2>1, SliceRest, Zenon
<1>4. ASSUME NEW k \in 1 .. n - p, NEW type
      PROVE  body(type, Slice(t, p + k, n)) <=> BodyAt(t, type, p + k, n, m)
  <2>1. p + k \in Nat /\ p + k <= n
    OBVIOUS
  <2>2. Len(Slice(t, p + k, n)) = n - (p + k)
    <3> DEFINE a == p + k
    <3> HIDE DEF a
    <3> QED
      BY <2>1, SliceIs DEF a
  <2>3. IsDelimited(Slice(t, p + k, n), m) <=> DelimitedAt(t, p + k, n, m)
    BY <2>1, DelimitedAtIs
  <2> QED
    BY <2>2, <2>3 DEF BodyAt, VarintAt
<1>5. HasField(s, m) <=>
        \E k \in 1 .. n - p :
          /\ IsVarint(SubSeq(s, 1, k)) /\ ValidTag((ValueOf(SubSeq(s, 1, k)) % ShortWord) \div 8)
          /\ body((ValueOf(SubSeq(s, 1, k)) % ShortWord) % 8, From(s, k + 1))
  <2> HIDE DEF s
  <2> QED
    BY <1>1 DEF HasField
<1> HIDE DEF s, body
<1>6. HasField(s, m) <=>
        \E k \in 1 .. n - p :
          /\ VarintAt(t, p, p + k) /\ ValidTag(Value32(t, p, p + k) \div 8)
          /\ BodyAt(t, Value32(t, p, p + k) % 8, p + k, n, m)
  BY <1>2, <1>3, <1>4, <1>5 DEF VarintAt, Value32
<1>7. ASSUME NEW k \in 1 .. n - p, VarintAt(t, p, p + k), ValidTag(Value32(t, p, p + k) \div 8),
             BodyAt(t, Value32(t, p, p + k) % 8, p + k, n, m)
      PROVE  FieldAt(t, p, n, m)
  <2>1. p + k \in p + 1 .. n
    BY <1>7
  <2> QED
    BY <1>7, <2>1 DEF FieldAt
<1>8. ASSUME NEW j \in p + 1 .. n, VarintAt(t, p, j), ValidTag(Value32(t, p, j) \div 8),
             BodyAt(t, Value32(t, p, j) % 8, j, n, m)
      PROVE  \E k \in 1 .. n - p :
               /\ VarintAt(t, p, p + k) /\ ValidTag(Value32(t, p, p + k) \div 8)
               /\ BodyAt(t, Value32(t, p, p + k) % 8, p + k, n, m)
  <2>1. j - p \in 1 .. n - p /\ p + (j - p) = j
    BY <1>8
  <2> QED
    BY <1>8, <2>1
<1> QED
  BY <1>6, <1>7, <1>8 DEF FieldAt, s

\* Behind a key there is at most one body.
LEMMA FieldBehindKey ==
  ASSUME NEW t \in Seq(Byte), NEW p \in Nat, NEW k \in Nat, NEW n \in Nat,
         p <= k, p <= n, k <= Len(t), n <= Len(t), NEW m,
         VarintAt(t, p, k), FieldAt(t, p, n, m)
  PROVE  /\ k <= n /\ ValidTag(Value32(t, p, k) \div 8)
         /\ BodyAt(t, Value32(t, p, k) % 8, k, n, m)
<1>1. PICK j \in p + 1 .. n : /\ VarintAt(t, p, j) /\ ValidTag(Value32(t, p, j) \div 8)
                              /\ BodyAt(t, Value32(t, p, j) % 8, j, n, m)
  BY DEF FieldAt
<1>2. j = k
  <2>1. j \in Nat /\ p <= j /\ j <= Len(t)
    OBVIOUS
  <2> QED
    BY <1>1, <2>1, VarintUnique
<1> QED
  BY <1>1, <1>2

\* A varint has at least a byte.
LEMMA VarintNotEmpty ==
  ASSUME NEW t \in Seq(Byte), NEW p \in Nat, NEW k \in Nat, p <= k, k <= Len(t), VarintAt(t, p, k)
  PROVE  p + 1 <= k
BY VarintAtIs, Widths

\* A reader r is behind the key of a field, and can read it in the text t.
HasKey(t, r) ==
  /\ VarintAt(t, r.from, r.at)
  /\ Value32(t, r.from, r.at) \div 8 = r.tag /\ Value32(t, r.from, r.at) % 8 = r.type
  /\ ValidTag(r.tag) /\ r.type \in WireTypes

Placed(t, r) ==
  /\ r.begin \in Nat /\ r.from \in Nat /\ r.at \in Nat /\ r.end \in Nat
  /\ r.begin <= r.from /\ r.from <= r.at /\ r.at <= r.end /\ r.end <= Len(t)

NoField(t, r) == \A to \in r.from .. r.end : \A n : ~FieldAt(t, r.from, to, n)

\* A reader behind a key has the field that its body makes, and no other.
LEMMA BodyIsField ==
  ASSUME NEW t \in Seq(Byte), NEW r, Placed(t, r), HasKey(t, r), NEW n \in r.at .. r.end, NEW m,
         BodyAt(t, r.type, r.at, n, m)
  PROVE  FieldAt(t, r.from, n, m)
<1>1. r.at \in r.from + 1 .. n
  BY VarintNotEmpty DEF Placed, HasKey
<1> QED
  BY <1>1 DEF HasKey, FieldAt

LEMMA FieldIsBody ==
  ASSUME NEW t \in Seq(Byte), NEW r, Placed(t, r), HasKey(t, r), NEW n \in r.from .. r.end, NEW m,
         FieldAt(t, r.from, n, m)
  PROVE  r.at <= n /\ BodyAt(t, r.type, r.at, n, m)
<1>1. n \in Nat /\ n <= Len(t) /\ r.at <= Len(t)
  BY DEF Placed
<1>2. /\ r.at <= n /\ BodyAt(t, Value32(t, r.from, r.at) % 8, r.at, n, m)
  BY <1>1, FieldBehindKey DEF Placed, HasKey
<1> QED
  BY <1>2 DEF HasKey

\* x is what reading the body of r's field comes to.
ReadsBody(t, r, x) ==
  \/ x.error = "none" /\ x.at \in r.at .. r.end /\ \E m : FieldAt(t, r.from, x.at, m)
  \/ x.error \in {"varint_too_long", "end_of_buffer"} /\ x.at \in r.at .. r.end /\ NoField(t, r)

LEMMA WireTypesDiffer ==
  /\ VarintType # Fixed64Type /\ VarintType # LengthDelimited /\ VarintType # Fixed32Type
  /\ Fixed64Type # LengthDelimited /\ Fixed64Type # Fixed32Type /\ LengthDelimited # Fixed32Type
BY DEF VarintType, Fixed64Type, LengthDelimited, Fixed32Type

LEMMA VarintBody ==
  ASSUME NEW t \in Seq(Byte), NEW r, Placed(t, r), HasKey(t, r), r.type = VarintType,
         NEW x, \/ x.error = "none" /\ x.at \in r.at + 1 .. r.end /\ VarintAt(t, r.at, x.at)
                \/ /\ x.error \in {"varint_too_long", "end_of_buffer"} /\ x.at = r.at
                   /\ \A n \in r.at .. r.end : ~VarintAt(t, r.at, n)
  PROVE  ReadsBody(t, r, x)
<1>0. r.at \in Nat /\ r.end \in Nat /\ r.from \in Nat /\ r.from <= r.at /\ r.at <= r.end
  BY DEF Placed
<1>1. CASE x.error = "none" /\ x.at \in r.at + 1 .. r.end /\ VarintAt(t, r.at, x.at)
  <2>1. x.at \in r.at .. r.end
    BY <1>0, <1>1
  <2>2. BodyAt(t, r.type, r.at, x.at, x.at - r.at)
    BY <1>1 DEF BodyAt
  <2>3. FieldAt(t, r.from, x.at, x.at - r.at)
    BY <2>1, <2>2, BodyIsField
  <2> QED
    BY <1>1, <2>1, <2>3 DEF ReadsBody
<1>2. CASE /\ x.error \in {"varint_too_long", "end_of_buffer"} /\ x.at = r.at
           /\ \A n \in r.at .. r.end : ~VarintAt(t, r.at, n)
  <2>1. ASSUME NEW to \in r.from .. r.end, NEW n, FieldAt(t, r.from, to, n) PROVE FALSE
    <3>1. r.at <= to /\ BodyAt(t, r.type, r.at, to, n)
      BY <2>1, FieldIsBody
    <3>2. to \in r.at .. r.end
      BY <1>0, <3>1
    <3> QED
      BY <1>2, <3>1, <3>2, WireTypesDiffer DEF BodyAt
  <2>2. x.at \in r.at .. r.end
    BY <1>0, <1>2
  <2> QED
    BY <1>2, <2>1, <2>2 DEF ReadsBody, NoField
<1> QED
  BY <1>1, <1>2

OfWidth(type, w) ==
  (type = Fixed32Type /\ w = Fixed32) \/ (type = Fixed64Type /\ w = Fixed64)

LEMMA FixedBody ==
  ASSUME NEW t \in Seq(Byte), NEW r, Placed(t, r), HasKey(t, r),
         NEW w, OfWidth(r.type, w),
         NEW x, \/ x.error = "none" /\ x.at = r.at + w /\ x.at <= r.end
                \/ x.error \in {"varint_too_long", "end_of_buffer"} /\ x.at = r.at /\ r.end - r.at < w
  PROVE  ReadsBody(t, r, x)
<1>0. r.at \in Nat /\ r.end \in Nat /\ r.from \in Nat /\ r.from <= r.at /\ r.at <= r.end
      /\ w \in Nat
  BY Sizes DEF Placed, OfWidth
<1>1. CASE x.error = "none" /\ x.at = r.at + w /\ x.at <= r.end
  <2>1. x.at \in r.at .. r.end /\ w = x.at - r.at
    BY <1>0, <1>1
  <2>2. BodyAt(t, r.type, r.at, x.at, w)
    BY <2>1 DEF BodyAt, OfWidth
  <2>3. FieldAt(t, r.from, x.at, w)
    BY <2>1, <2>2, BodyIsField
  <2> QED
    BY <1>1, <2>1, <2>3 DEF ReadsBody
<1>2. CASE x.error \in {"varint_too_long", "end_of_buffer"} /\ x.at = r.at /\ r.end - r.at < w
  <2>1. ASSUME NEW to \in r.from .. r.end, NEW n, FieldAt(t, r.from, to, n) PROVE FALSE
    <3>1. r.at <= to /\ BodyAt(t, r.type, r.at, to, n)
      BY <2>1, FieldIsBody
    <3>2. w = to - r.at
      BY <3>1, WireTypesDiffer DEF BodyAt, OfWidth
    <3> QED
      BY <1>0, <1>2, <3>1, <3>2
  <2>2. x.at \in r.at .. r.end
    BY <1>0, <1>2
  <2> QED
    BY <1>2, <2>1, <2>2 DEF ReadsBody, NoField
<1> QED
  BY <1>1, <1>2

-----------------------------------------------------------------------------
(* Texts that begin alike.                                                 *)

LEMMA Join ==
  ASSUME NEW s \in Seq(Byte), NEW t \in Seq(Byte)
  PROVE  /\ s \o t \in Seq(Byte) /\ Len(s \o t) = Len(s) + Len(t)
         /\ \A i \in 1 .. Len(s) : (s \o t)[i] = s[i]
         /\ \A i \in 1 .. Len(t) : (s \o t)[Len(s) + i] = t[i]
<1> HIDE DEF Byte
<1>1. /\ s \o t \in Seq(Byte) /\ Len(s \o t) = Len(s) + Len(t)
      /\ \A i \in 1 .. Len(s) + Len(t) : (s \o t)[i] = IF i <= Len(s) THEN s[i] ELSE t[i - Len(s)]
  BY ConcatProperties
<1>2. ASSUME NEW i \in 1 .. Len(t) PROVE (s \o t)[Len(s) + i] = t[i]
  <2>1. Len(s) \in Nat /\ Len(s) + i \in 1 .. Len(s) + Len(t) /\ Len(s) + i - Len(s) = i /\ ~(Len(s) + i <= Len(s))
    OBVIOUS
  <2> QED
    BY <1>1, <2>1
<1>3. ASSUME NEW i \in 1 .. Len(s) PROVE (s \o t)[i] = s[i]
  BY <1>1
<1> QED
  BY <1>1, <1>2, <1>3

LEMMA SliceJoin ==
  ASSUME NEW t \in Seq(Byte), NEW p \in Nat, NEW m \in Nat, NEW n \in Nat,
         p <= m, m <= n, n <= Len(t)
  PROVE  Slice(t, p, m) \o Slice(t, m, n) = Slice(t, p, n)
<1> DEFINE a == Slice(t, p, m)
           b == Slice(t, m, n)
           c == Slice(t, p, n)
<1>1. /\ a \in Seq(Byte) /\ Len(a) = m - p /\ \A i \in 1 .. m - p : a[i] = t[p + i]
      /\ c \in Seq(Byte) /\ Len(c) = n - p /\ \A i \in 1 .. n - p : c[i] = t[p + i]
      /\ b \in Seq(Byte) /\ Len(b) = n - m /\ \A i \in 1 .. n - m : b[i] = t[m + i]
  <2>1. m <= Len(t) /\ p <= n
    OBVIOUS
  <2>2. a \in Seq(Byte) /\ Len(a) = m - p /\ \A i \in 1 .. m - p : a[i] = t[p + i]
    BY <2>1, SliceIs
  <2>3. b \in Seq(Byte) /\ Len(b) = n - m /\ \A i \in 1 .. n - m : b[i] = t[m + i]
    BY <2>1, SliceIs
  <2>4. c \in Seq(Byte) /\ Len(c) = n - p /\ \A i \in 1 .. n - p : c[i] = t[p + i]
    BY <2>1, SliceIs
  <2> HIDE DEF a, b, c
  <2> QED
    BY <2>2, <2>3, <2>4
<1> HIDE DEF a, b, c
<1>2. /\ a \o b \in Seq(Byte) /\ Len(a \o b) = Len(a) + Len(b)
      /\ \A i \in 1 .. Len(a) : (a \o b)[i] = a[i]
      /\ \A i \in 1 .. Len(b) : (a \o b)[Len(a) + i] = b[i]
  BY <1>1, Join
<1> DEFINE d == a \o b
<1> HIDE DEF d
<1>3. ASSUME NEW i \in 1 .. n - p PROVE d[i] = c[i]
  <2>1. CASE i <= m - p
    BY <1>1, <1>2, <2>1 DEF d
  <2>2. CASE i > m - p
    <3> DEFINE j == i - (m - p)
    <3>1. j \in 1 .. n - m /\ (m - p) + j = i /\ m + j = p + i
      BY <2>2
    <3> HIDE DEF j
    <3>2. d[(m - p) + j] = b[j] /\ b[j] = t[m + j]
      BY <1>1, <1>2, <3>1 DEF d
    <3> QED
      BY <1>1, <3>1, <3>2
  <2> QED
    BY <2>1, <2>2
<1>4. Len(d) = n - p /\ d \in Seq(Byte)
  BY <1>1, <1>2 DEF d
<1>5. d = c
  <2>1. Len(d) = Len(c) /\ \A i \in 1 .. Len(d) : d[i] = c[i]
    BY <1>1, <1>3, <1>4
  <2> QED
    BY <1>1, <1>4, <2>1, SeqEqual
<1> QED
  BY <1>5 DEF a, b, c, d

SamePrefix(s, t, q) ==
  q <= Len(s) /\ q <= Len(t) /\ \A i \in 1 .. q : s[i] = t[i]

LEMMA SameSlices ==
  ASSUME NEW s \in Seq(Byte), NEW t \in Seq(Byte), NEW q \in Nat, SamePrefix(s, t, q),
         NEW p \in Nat, NEW n \in Nat, p <= n, n <= q
  PROVE  Slice(s, p, n) = Slice(t, p, n)
<1> DEFINE a == Slice(s, p, n)
           b == Slice(t, p, n)
<1>1. n <= Len(s) /\ n <= Len(t)
  BY DEF SamePrefix
<1>2. /\ a \in Seq(Byte) /\ Len(a) = n - p /\ \A i \in 1 .. n - p : a[i] = s[p + i]
      /\ b \in Seq(Byte) /\ Len(b) = n - p /\ \A i \in 1 .. n - p : b[i] = t[p + i]
  BY <1>1, SliceIs
<1> HIDE DEF a, b
<1>3. ASSUME NEW i \in 1 .. n - p PROVE a[i] = b[i]
  <2>1. p + i \in 1 .. q
    OBVIOUS
  <2> QED
    BY <1>2, <2>1 DEF SamePrefix
<1>4. a = b
  <2>1. Len(a) = Len(b) /\ \A i \in 1 .. Len(a) : a[i] = b[i]
    BY <1>2, <1>3
  <2> QED
    BY <1>2, <2>1, SeqEqual
<1> QED
  BY <1>4 DEF a, b

LEMMA SamePrefixOfJoin ==
  ASSUME NEW s \in Seq(Byte), NEW t \in Seq(Byte), NEW q \in 0 .. Len(s)
  PROVE  SamePrefix(s, s \o t, q)
<1>1. Len(s) \in Nat /\ Len(t) \in Nat
  OBVIOUS
<1> QED
  BY <1>1, Join DEF SamePrefix

LEMMA SamePrefixOfSlice ==
  ASSUME NEW s \in Seq(Byte), NEW n \in 0 .. Len(s), NEW q \in 0 .. n
  PROVE  SamePrefix(s, Slice(s, 0, n), q)
<1>1. Len(s) \in Nat /\ n \in Nat /\ 0 <= n /\ n <= Len(s)
  OBVIOUS
<1>2. Len(Slice(s, 0, n)) = n - 0 /\ \A i \in 1 .. n - 0 : Slice(s, 0, n)[i] = s[0 + i]
  BY <1>1, SliceIs
<1> HIDE DEF Slice
<1> QED
  BY <1>1, <1>2 DEF SamePrefix

\* What is at the end of a text that was joined.
LEMMA SliceOfJoin ==
  ASSUME NEW s \in Seq(Byte), NEW t \in Seq(Byte), NEW p \in Nat, NEW n \in Nat,
         p = Len(s), n = Len(s) + Len(t)
  PROVE  Slice(s \o t, p, n) = t
<1> DEFINE j == s \o t
           a == Slice(j, p, n)
<1>1. /\ j \in Seq(Byte) /\ Len(j) = n /\ \A i \in 1 .. Len(t) : j[p + i] = t[i]
  BY Join
<1> HIDE DEF j
<1>2. p <= n /\ n <= Len(j) /\ n - p = Len(t)
  BY <1>1
<1>3. a \in Seq(Byte) /\ Len(a) = n - p /\ \A i \in 1 .. n - p : a[i] = j[p + i]
  BY <1>1, <1>2, SliceIs
<1> HIDE DEF a
<1>4. a = t
  <2>1. Len(a) = Len(t) /\ \A i \in 1 .. Len(a) : a[i] = t[i]
    BY <1>1, <1>2, <1>3
  <2> QED
    BY <1>3, <2>1, SeqEqual
<1> QED
  BY <1>4 DEF a, j

LEMMA SliceAll ==
  ASSUME NEW s \in Seq(Byte), NEW n, n = Len(s)
  PROVE  Slice(s, 0, n) = s
<1>1. SubSeq(s, 1, Len(s)) = s
  BY SubSeqFull
<1> QED
  BY <1>1 DEF Slice

-----------------------------------------------------------------------------
(* What is appended in chunks.                                             *)

\* The text s is cut at c into the chunks.
CutAt(chunks, s, c) ==
  /\ c \in [0 .. Len(chunks) -> 0 .. Len(s)]
  /\ c[0] = 0 /\ c[Len(chunks)] = Len(s)
  /\ \A i \in 1 .. Len(chunks) : c[i - 1] <= c[i] /\ chunks[i] = Slice(s, c[i - 1], c[i])

Cuts(chunks, s) ==
  /\ chunks \in Seq(Seq(Byte)) /\ s \in Seq(Byte)
  /\ \E c : CutAt(chunks, s, c)

LEMMA CutsOne ==
  ASSUME NEW s \in Seq(Byte)
  PROVE  Cuts(<<s>>, s)
<1> DEFINE c == [i \in 0 .. 1 |-> IF i = 0 THEN 0 ELSE Len(s)]
           w == <<s>>
<1>1. w \in Seq(Seq(Byte)) /\ Len(w) = 1 /\ w[1] = s
  <2> HIDE DEF Byte
  <2> QED
    OBVIOUS
<1>2. Len(s) \in Nat
  OBVIOUS
<1>3. c[0] = 0 /\ c[1] = Len(s) /\ c \in [0 .. 1 -> 0 .. Len(s)]
  BY <1>2
<1>4. Slice(s, 0, Len(s)) = s
  BY SliceAll
<1> HIDE DEF c, w
<1>5. CutAt(w, s, c)
  <2>1. ASSUME NEW i \in 1 .. 1 PROVE c[i - 1] <= c[i] /\ w[i] = Slice(s, c[i - 1], c[i])
    <3>1. i = 1 /\ i - 1 = 0
      OBVIOUS
    <3>2. c[i - 1] = 0 /\ c[i] = Len(s)
      BY <1>3, <3>1
    <3>3. w[i] = s
      BY <1>1, <3>1
    <3> QED
      BY <1>2, <1>4, <3>2, <3>3
  <2> QED
    BY <1>1, <1>3, <2>1 DEF CutAt
<1> QED
  BY <1>1, <1>5 DEF Cuts, w

LEMMA CutsBytes ==
  ASSUME NEW s \in Seq(Byte)
  PROVE  Cuts(Chunks(s), s)
<1> DEFINE c == [i \in 0 .. Len(s) |-> i]
           w == Chunks(s)
<1>1. Len(s) \in Nat /\ DOMAIN s = 1 .. Len(s)
  OBVIOUS
<1>2. \A i \in 1 .. Len(s) : s[i] \in Byte
  BY ElementOfSeq
<1>3. w = [i \in 1 .. Len(s) |-> <<s[i]>>]
  BY <1>1 DEF Chunks
<1> HIDE DEF w
<1>4. w \in Seq(Seq(Byte)) /\ Len(w) = Len(s) /\ \A i \in 1 .. Len(s) : w[i] = <<s[i]>>
  <2> HIDE DEF Byte
  <2>1. \A i \in 1 .. Len(s) : <<s[i]>> \in Seq(Byte)
    BY <1>2
  <2>2. w \in [1 .. Len(s) -> Seq(Byte)]
    BY <1>3, <2>1
  <2> QED
    BY <1>1, <1>3, <2>2
<1>5. ASSUME NEW i \in 1 .. Len(s) PROVE Slice(s, i - 1, i) = <<s[i]>>
  <2> DEFINE a == Slice(s, i - 1, i)
             b == <<s[i]>>
             p == i - 1
  <2>1. p \in Nat /\ i \in Nat /\ p <= i /\ i <= Len(s) /\ i - p = 1 /\ p + 1 = i
    BY <1>1
  <2> HIDE DEF p
  <2>2. Slice(s, p, i) \in Seq(Byte) /\ Len(Slice(s, p, i)) = i - p
        /\ \A k \in 1 .. i - p : Slice(s, p, i)[k] = s[p + k]
    BY <2>1, SliceIs
  <2>3. a \in Seq(Byte) /\ Len(a) = 1 /\ a[1] = s[i]
    <3> USE DEF p
    <3>1. a = Slice(s, p, i)
      OBVIOUS
    <3> HIDE DEF p, a
    <3> QED
      BY <2>1, <2>2, <3>1
  <2>4. b \in Seq(Byte) /\ Len(b) = 1 /\ b[1] = s[i]
    <3> HIDE DEF Byte
    <3> QED
      BY <1>2
  <2> HIDE DEF a, b
  <2>5. Len(a) = Len(b) /\ \A k \in 1 .. Len(a) : a[k] = b[k]
    BY <2>3, <2>4
  <2>6. a = b
    BY <2>3, <2>4, <2>5, SeqEqual
  <2> QED
    BY <2>6 DEF a, b
<1>6. c \in [0 .. Len(s) -> 0 .. Len(s)] /\ c[0] = 0 /\ c[Len(s)] = Len(s)
      /\ \A i \in 1 .. Len(s) : c[i] = i /\ c[i - 1] = i - 1
  BY <1>1
<1> HIDE DEF c
<1>7. CutAt(w, s, c)
  <2>1. ASSUME NEW i \in 1 .. Len(s)
        PROVE  c[i - 1] <= c[i] /\ w[i] = Slice(s, c[i - 1], c[i])
    <3>1. c[i] = i /\ c[i - 1] = i - 1 /\ w[i] = <<s[i]>>
      BY <1>4, <1>6
    <3> QED
      BY <1>1, <1>5, <3>1
  <2> QED
    BY <1>4, <1>6, <2>1 DEF CutAt
<1> QED
  BY <1>4, <1>7 DEF Cuts, w

\* A slice of the second of two texts.
LEMMA SliceBehind ==
  ASSUME NEW s \in Seq(Byte), NEW t \in Seq(Byte), NEW x \in Nat, NEW y \in Nat,
         x <= y, y <= Len(t), NEW p \in Nat, NEW n \in Nat, p = Len(s) + x, n = Len(s) + y
  PROVE  Slice(s \o t, p, n) = Slice(t, x, y)
<1> DEFINE j == s \o t
           a == Slice(j, p, n)
           b == Slice(t, x, y)
<1>1. /\ j \in Seq(Byte) /\ Len(j) = Len(s) + Len(t) /\ \A i \in 1 .. Len(t) : j[Len(s) + i] = t[i]
  BY Join
<1> HIDE DEF j
<1>2. p <= n /\ n <= Len(j) /\ n - p = y - x /\ Len(s) \in Nat
  BY <1>1
<1>3. a \in Seq(Byte) /\ Len(a) = n - p /\ \A i \in 1 .. n - p : a[i] = j[p + i]
  <2>1. j \in Seq(Byte) /\ p <= n /\ n <= Len(j)
    BY <1>1, <1>2
  <2> QED
    BY ONLY <2>1, p \in Nat, n \in Nat, SliceIs
<1>4. b \in Seq(Byte) /\ Len(b) = y - x /\ \A i \in 1 .. y - x : b[i] = t[x + i]
  BY SliceIs
<1> HIDE DEF a, b
<1>5. ASSUME NEW i \in 1 .. y - x PROVE a[i] = b[i]
  <2>1. x + i \in 1 .. Len(t) /\ Len(s) + (x + i) = p + i
    BY <1>2
  <2>2. j[Len(s) + (x + i)] = t[x + i]
    BY <1>1, <2>1
  <2> QED
    BY <1>2, <1>3, <1>4, <2>1, <2>2
<1>6. a = b
  <2>1. Len(a) = Len(b) /\ \A i \in 1 .. Len(a) : a[i] = b[i]
    BY <1>2, <1>3, <1>4, <1>5
  <2> QED
    BY <1>3, <1>4, <2>1, SeqEqual
<1> QED
  BY <1>6 DEF a, b, j

LEMMA CutsJoin ==
  ASSUME NEW v, NEW w, NEW s, NEW t, Cuts(v, s), Cuts(w, t)
  PROVE  Cuts(v \o w, s \o t)
<1>1. /\ v \in Seq(Seq(Byte)) /\ s \in Seq(Byte) /\ w \in Seq(Seq(Byte)) /\ t \in Seq(Byte)
  BY DEF Cuts
<1>2. PICK c : CutAt(v, s, c)
  BY DEF Cuts
<1>3. PICK d : CutAt(w, t, d)
  BY DEF Cuts
<1> DEFINE L == Len(s)
           M == Len(v)
           N == Len(w)
           u == v \o w
           j == s \o t
           e == [i \in 0 .. M + N |-> IF i <= M THEN c[i] ELSE L + d[i - M]]
<1>4. /\ L \in Nat /\ M \in Nat /\ N \in Nat /\ Len(t) \in Nat
  BY <1>1
<1>5. /\ u \in Seq(Seq(Byte)) /\ Len(u) = M + N
      /\ \A i \in 1 .. M + N : u[i] = IF i <= M THEN v[i] ELSE w[i - M]
  <2> HIDE DEF Byte
  <2> QED
    BY <1>1, ConcatProperties
<1>6. j \in Seq(Byte) /\ Len(j) = L + Len(t)
  BY <1>1, Join
<1>7. /\ c \in [0 .. M -> 0 .. L] /\ c[0] = 0 /\ c[M] = L
      /\ \A i \in 1 .. M : c[i - 1] <= c[i] /\ v[i] = Slice(s, c[i - 1], c[i])
  BY <1>2 DEF CutAt
<1>8. /\ d \in [0 .. N -> 0 .. Len(t)] /\ d[0] = 0 /\ d[N] = Len(t)
      /\ \A i \in 1 .. N : d[i - 1] <= d[i] /\ w[i] = Slice(t, d[i - 1], d[i])
  BY <1>3 DEF CutAt
<1>9. /\ \A i \in 0 .. M : e[i] = c[i]
      /\ \A i \in 0 .. N : e[M + i] = L + d[i]
  <2>1. \A i \in 0 .. M : i \in 0 .. M + N
    BY <1>4
  <2>2. \A i \in 0 .. M : e[i] = c[i]
    BY <2>1
  <2>3. ASSUME NEW i \in 0 .. N PROVE e[M + i] = L + d[i]
    <3>1. M + i \in 0 .. M + N /\ (M + i) - M = i
      BY <1>4
    <3>2. CASE i = 0
      BY <1>4, <1>7, <1>8, <2>2, <3>2
    <3>3. CASE i # 0
      BY <1>4, <3>1, <3>3
    <3> QED
      BY <3>2, <3>3
  <2> QED
    BY <2>2, <2>3
<1>10. e \in [0 .. M + N -> 0 .. L + Len(t)]
  <2>1. ASSUME NEW i \in 0 .. M + N PROVE e[i] \in 0 .. L + Len(t)
    <3>1. CASE i <= M
      <4>1. i \in 0 .. M
        BY <3>1
      <4>2. c[i] \in 0 .. L
        BY <1>7, <4>1
      <4> HIDE DEF e, L, M, N
      <4> QED
        BY <1>4, <1>9, <4>1, <4>2
    <3>2. CASE ~(i <= M)
      <4> DEFINE k == i - M
      <4>1. k \in 0 .. N /\ M + k = i
        BY <1>4, <3>2
      <4>2. d[k] \in 0 .. Len(t)
        BY <1>8, <4>1
      <4> HIDE DEF e, L, M, N, k
      <4>3. e[M + k] = L + d[k]
        BY <1>9, <4>1
      <4> QED
        BY <1>4, <4>1, <4>2, <4>3
    <3> QED
      BY <3>1, <3>2
  <2>2. e = [i \in 0 .. M + N |-> e[i]]
    OBVIOUS
  <2> HIDE DEF e, L, M, N
  <2> QED
    BY <2>1, <2>2
<1> HIDE DEF e, L, M, N, j, u
<1>11. ASSUME NEW i \in 1 .. M + N
       PROVE  e[i - 1] <= e[i] /\ u[i] = Slice(j, e[i - 1], e[i])
  <2>1. CASE i <= M
    <3> DEFINE x == c[i - 1]
               y == c[i]
    <3>1. i \in 1 .. M /\ i \in 0 .. M /\ i - 1 \in 0 .. M
      BY <1>4, <2>1
    <3>2. x \in 0 .. L /\ y \in 0 .. L /\ x <= y /\ v[i] = Slice(s, x, y)
      BY <1>7, <3>1
    <3>3. e[i - 1] = x /\ e[i] = y /\ u[i] = v[i]
      BY <1>5, <1>9, <2>1, <3>1
    <3>4. SamePrefix(s, j, L)
      <4>1. L \in 0 .. Len(s)
        BY <1>4 DEF L
      <4> QED
        BY <1>1, <4>1, SamePrefixOfJoin DEF j
    <3> HIDE DEF x, y
    <3>5. Slice(s, x, y) = Slice(j, x, y)
      <4>1. x \in Nat /\ y \in Nat /\ x <= y /\ y <= L /\ L \in Nat
        BY <1>4, <3>2
      <4> QED
        BY <1>1, <1>6, <3>4, <4>1, SameSlices
    <3> QED
      BY <3>2, <3>3, <3>5
  <2>2. CASE ~(i <= M)
    <3> DEFINE k == i - M
               x == d[k - 1]
               y == d[k]
               p == e[i - 1]
               n == e[i]
    <3>1. k \in 1 .. N /\ k \in 0 .. N /\ k - 1 \in 0 .. N /\ M + k = i /\ M + (k - 1) = i - 1
      BY <1>4, <2>2
    <3>2. x \in 0 .. Len(t) /\ y \in 0 .. Len(t) /\ x <= y /\ w[k] = Slice(t, x, y)
      BY <1>8, <3>1
    <3>3. p = L + x /\ n = L + y /\ u[i] = w[k]
      <4>1. u[i] = w[k]
        BY <1>5, <2>2
      <4>2. e[M + k] = L + y /\ e[M + (k - 1)] = L + x
        <5> HIDE DEF k
        <5> QED
          BY <1>9, <3>1
      <4> QED
        BY <3>1, <4>1, <4>2
    <3> HIDE DEF x, y, k, p, n
    <3>4. x \in Nat /\ y \in Nat /\ y <= Len(t) /\ p \in Nat /\ n \in Nat /\ p <= n
      BY <1>4, <3>2, <3>3
    <3>5. Slice(j, p, n) = Slice(t, x, y)
      BY <1>1, <3>2, <3>3, <3>4, SliceBehind DEF j, L
    <3> QED
      BY <3>2, <3>3, <3>4, <3>5 DEF p, n
  <2> QED
    BY <2>1, <2>2
<1>12. e[0] = 0 /\ e[M + N] = L + Len(t)
  <2>1. 0 \in 0 .. M /\ N \in 0 .. N
    BY <1>4
  <2> QED
    BY <1>7, <1>8, <1>9, <2>1
<1>13. CutAt(u, j, e)
  BY <1>5, <1>6, <1>10, <1>11, <1>12 DEF CutAt
<1> QED
  BY <1>5, <1>6, <1>13 DEF Cuts, u, j

Buffers == [bytes : Seq(Byte), full : BOOLEAN]

\* One chunk more.
Next1(x, chunk) ==
  IF x.full \/ Len(x.bytes) + Len(chunk) > Capacity
  THEN [x EXCEPT !.full = TRUE]
  ELSE [x EXCEPT !.bytes = @ \o chunk]

LEMMA AppendedAre ==
  ASSUME data \in Seq(Byte), NEW chunks \in Seq(Seq(Byte))
  PROVE  /\ \A n \in 0 .. Len(chunks) : Appended(chunks)[n] \in Buffers
         /\ Appended(chunks)[0] = [bytes |-> data, full |-> FALSE]
         /\ \A n \in 1 .. Len(chunks) :
              Appended(chunks)[n] = Next1(Appended(chunks)[n - 1], chunks[n])
<1> DEFINE N == Len(chunks)
           S == Buffers
           b == [bytes |-> data, full |-> FALSE]
           step(n, x) == Next1(x, chunks[n])
           G == [p \in (1 .. N) \X S |-> step(p[1], p[2])]
<1>0. N \in Nat /\ b \in S
  <2> HIDE DEF Byte
  <2> QED
    BY DEF Buffers
<1>1. \A n \in 1 .. N : \A x \in S : step(n, x) \in S /\ G[<<n, x>>] = step(n, x)
  <2> SUFFICES ASSUME NEW n \in 1 .. N, NEW x \in S PROVE step(n, x) \in S /\ G[<<n, x>>] = step(n, x)
    OBVIOUS
  <2>1. chunks[n] \in Seq(Byte)
    <3> HIDE DEF Byte
    <3> QED
      BY ElementOfSeq
  <2>2. x.bytes \in Seq(Byte) /\ x.full \in BOOLEAN /\ x = [bytes |-> x.bytes, full |-> x.full]
    <3> HIDE DEF Byte
    <3> QED
      BY DEF Buffers
  <2>3. x.bytes \o chunks[n] \in Seq(Byte)
    BY <2>1, <2>2, Join
  <2>4. step(n, x) \in S
    <3>1. [x EXCEPT !.full = TRUE] \in S
      <4> HIDE DEF Byte
      <4> QED
        BY <2>2 DEF Buffers
    <3>2. [x EXCEPT !.bytes = @ \o chunks[n]] \in S
      <4> DEFINE y == x.bytes \o chunks[n]
      <4>1. [x EXCEPT !.bytes = @ \o chunks[n]] = [x EXCEPT !.bytes = y]
        OBVIOUS
      <4> HIDE DEF Byte, y
      <4>2. [x EXCEPT !.bytes = y] \in S
        BY <2>2, <2>3 DEF Buffers, y
      <4> QED
        BY <4>1, <4>2
    <3> QED
      BY <3>1, <3>2, Zenon DEF Next1
  <2> QED
    BY <2>4
<1>2. StepsStay(N, S, G)
  BY <1>1, Zenon DEF StepsStay
<1>4. PICK g : IsRun(g, N, S, b, G)
  <2> HIDE DEF G, N, S, b
  <2> QED
    BY <1>0, <1>2, Recursion, Zenon
<1> DEFINE first(f) == f = [n \in 0 .. N |-> IF n = 0 THEN b ELSE step(n, f[n - 1])]
           J == Appended(chunks)
<1>5. first(g)
  <2>1. \A n \in 1 .. N : g[n] = step(n, g[n - 1])
    <3>1. \A n \in 1 .. N : g[n - 1] \in S /\ g[n] = G[<<n, g[n - 1]>>]
      <4> HIDE DEF G, S, N, b
      <4> QED
        BY <1>0, <1>4 DEF IsRun
    <3> HIDE DEF G, S, N, step
    <3> QED
      BY <1>1, <3>1
  <2> HIDE DEF step, S, G, N, b
  <2> QED
    BY <1>0, <1>4, <2>1 DEF IsRun
<1>6. first(J)
  <2>1. \E f : first(f)
    BY <1>5
  <2> QED
    BY <2>1 DEF Appended, Next1
<1>7. J[0] = b /\ \A n \in 1 .. N : J[n] = step(n, J[n - 1])
  <2> HIDE DEF step, J, N, b
  <2> QED
    BY <1>0, <1>6
<1>8. J = [n \in 0 .. N |-> J[n]]
  <2> HIDE DEF step, J, N, b
  <2> QED
    BY <1>6
<1>9. IsRun(J, N, S, b, G)
  <2>1. \A n \in 1 .. N : J[n - 1] \in S => J[n] = G[<<n, J[n - 1]>>]
    <3> HIDE DEF G, S, N, J, step
    <3> QED
      BY <1>1, <1>7
  <2> HIDE DEF G, S, N, J, step, b
  <2> QED
    BY <1>0, <1>2, <1>7, <1>8, <2>1, RunStays
<1>10. J \in [0 .. N -> S]
  BY <1>9 DEF IsRun
<1> QED
  BY <1>7, <1>10

\* The buffer gets the text, or a beginning of it if that does not fit
\* (basic_pbf_writer.hpp, buffer_fixed.hpp:98-131).
LEMMA AppendAllIs ==
  ASSUME data \in Seq(Byte), Len(data) <= Capacity, Capacity \in Nat,
         NEW chunks, NEW s, Cuts(chunks, s), NEW b, b = AppendAll(chunks)
  PROVE  \E n \in 0 .. Len(s) :
           /\ b.bytes = data \o Slice(s, 0, n) /\ Len(data) + n <= Capacity
           /\ b.full \in BOOLEAN
           /\ b.full => n < Len(s) /\ n + Len(chunks[Len(chunks)]) <= Len(s)
           /\ ~b.full => n = Len(s)
<1>1. chunks \in Seq(Seq(Byte)) /\ s \in Seq(Byte)
  BY DEF Cuts
<1>2. PICK c : CutAt(chunks, s, c)
  BY DEF Cuts
<1> DEFINE N == Len(chunks)
           J == Appended(chunks)
           Is(i, n) ==
             /\ n \in 0 .. c[i]
             /\ J[i].bytes = data \o Slice(s, 0, n) /\ Len(data) + n <= Capacity
             /\ J[i].full => n < c[i] /\ i \in 1 .. N /\ n <= c[i - 1]
             /\ ~J[i].full => n = c[i]
           Q == {i \in Nat : i <= N => \E n : Is(i, n)}
<1>3. N \in Nat /\ Len(s) \in Nat /\ Len(data) \in Nat
  BY <1>1
<1>4. /\ c \in [0 .. N -> 0 .. Len(s)] /\ c[0] = 0 /\ c[N] = Len(s)
      /\ \A i \in 1 .. N : c[i - 1] <= c[i] /\ chunks[i] = Slice(s, c[i - 1], c[i])
  BY <1>2 DEF CutAt
<1>5. /\ \A n \in 0 .. N : J[n] \in Buffers
      /\ J[0] = [bytes |-> data, full |-> FALSE]
      /\ \A n \in 1 .. N : J[n] = Next1(J[n - 1], chunks[n])
  BY <1>1, AppendedAre
<1> HIDE DEF J, N
<1>6. 0 \in Q
  <2>1. Slice(s, 0, 0) = <<>>
    BY DEF Slice
  <2>2. data \o <<>> = data
    <3> HIDE DEF Byte
    <3> QED
      BY ConcatEmptySeq
  <2>3. J[0].bytes = data /\ J[0].full = FALSE
    BY <1>5
  <2>4. J[0].bytes = data \o Slice(s, 0, 0)
    BY <2>1, <2>2, <2>3, Zenon
  <2> HIDE DEF Slice
  <2>5. Is(0, 0)
    <3>1. 0 \in 0 .. c[0] /\ 0 = c[0] /\ Len(data) + 0 <= Capacity
      BY <1>3, <1>4
    <3>2. J[0].full => 0 < c[0] /\ 0 \in 1 .. N /\ 0 <= c[0 - 1]
      BY <2>3
    <3> QED
      BY <2>4, <3>1, <3>2, Zenon
  <2> HIDE DEF Is
  <2> QED
    BY <2>5
<1>7. ASSUME NEW i \in Nat, i \in Q PROVE i + 1 \in Q
  <2> SUFFICES ASSUME i + 1 <= N PROVE \E n : Is(i + 1, n)
    <3> HIDE DEF Is
    <3> QED
      OBVIOUS
  <2>1. PICK n : Is(i, n)
    BY <1>3, <1>7
  <2> DEFINE k == i + 1
             x == J[i]
             y == J[k]
             p == c[i]
             q == c[k]
             h == chunks[k]
  <2>2. k \in 1 .. N /\ k \in 0 .. N /\ i \in 0 .. N /\ k - 1 = i
    BY <1>3
  <2>3. p \in 0 .. Len(s) /\ q \in 0 .. Len(s) /\ p <= q /\ h = Slice(s, p, q)
    BY <1>4, <2>2
  <2>4. y = Next1(x, h) /\ x \in Buffers
    BY <1>5, <2>2
  <2>5. /\ n \in 0 .. p /\ x.bytes = data \o Slice(s, 0, n) /\ Len(data) + n <= Capacity
        /\ x.full => n < p
        /\ ~x.full => n = p
    BY <2>1
  <2>6. ASSUME NEW m, m \in 0 .. q, y.bytes = data \o Slice(s, 0, m), Len(data) + m <= Capacity,
               y.full => m < q /\ m <= p, ~y.full => m = q
        PROVE  \E j : Is(i + 1, j)
    <3>1. Is(i + 1, m)
      BY <2>2, <2>6
    <3> HIDE DEF Is
    <3> QED
      BY <3>1
  <2> HIDE DEF Is, k, x, y, p, q, h, Q
  <2>7. x.bytes \in Seq(Byte) /\ x.full \in BOOLEAN /\ x = [bytes |-> x.bytes, full |-> x.full]
    <3> HIDE DEF Byte
    <3> QED
      BY <2>4 DEF Buffers
  <2>8. p \in Nat /\ q \in Nat /\ n \in Nat /\ n <= Len(s) /\ q <= Len(s)
    BY <1>3, <2>3, <2>5
  <2>9. /\ Slice(s, 0, n) \in Seq(Byte) /\ Len(Slice(s, 0, n)) = n
    <3>1. 0 \in Nat /\ 0 <= n /\ n - 0 = n
      BY <2>8
    <3> QED
      BY <1>1, <2>8, <3>1, SliceIs
  <2>10. Len(x.bytes) = Len(data) + n
    BY <2>5, <2>9, Join
  <2>11. h \in Seq(Byte) /\ Len(h) = q - p
    BY <1>1, <2>3, <2>8, SliceIs
  <2>12. CASE x.full
    <3>1. y.bytes = x.bytes /\ y.full
      BY <2>4, <2>7, <2>12 DEF Next1
    <3>2. n \in 0 .. q /\ n < q /\ n <= p
      BY <2>3, <2>5, <2>8, <2>12
    <3> QED
      BY <2>5, <2>6, <3>1, <3>2
  <2>13. CASE ~x.full /\ Len(x.bytes) + Len(h) > Capacity
    <3>1. y.bytes = x.bytes /\ y.full
      BY <2>4, <2>7, <2>13 DEF Next1
    <3>2. n \in 0 .. q /\ n < q /\ n <= p
      BY <1>3, <2>3, <2>5, <2>8, <2>10, <2>11, <2>13
    <3> QED
      BY <2>5, <2>6, <3>1, <3>2
  <2>14. CASE ~x.full /\ ~(Len(x.bytes) + Len(h) > Capacity)
    <3>1. y.bytes = x.bytes \o h /\ ~y.full
      BY <2>4, <2>7, <2>14 DEF Next1
    <3>2. n = p
      BY <2>5, <2>14
    <3>3. Slice(s, 0, p) \o Slice(s, p, q) = Slice(s, 0, q)
      <4>1. 0 \in Nat /\ 0 <= p
        BY <2>8
      <4> QED
        BY <1>1, <2>3, <2>8, <4>1, SliceJoin
    <3>4. (data \o Slice(s, 0, p)) \o h = data \o (Slice(s, 0, p) \o h)
      <4> HIDE DEF Byte
      <4> QED
        BY <2>9, <2>11, <3>2, ConcatAssociative
    <3>5. y.bytes = data \o Slice(s, 0, q)
      BY <2>3, <2>5, <3>1, <3>2, <3>3, <3>4, Zenon
    <3>6. Len(data) + q <= Capacity /\ q \in 0 .. q
      BY <1>3, <2>8, <2>10, <2>11, <2>14, <3>2
    <3> QED
      BY <2>6, <3>1, <3>5, <3>6
  <2> QED
    BY <2>7, <2>12, <2>13, <2>14
<1>8. N \in Q
  <2> HIDE DEF Q
  <2> QED
    BY <1>3, <1>6, <1>7, NatSetInduction
<1>9. PICK n : Is(N, n)
  BY <1>3, <1>8
<1>10. b = J[N] /\ J[N] \in Buffers
  BY <1>3, <1>5 DEF AppendAll, J, N
<1>11. b.full \in BOOLEAN
  BY <1>10 DEF Buffers
<1>12. n \in 0 .. Len(s)
  BY <1>4, <1>9
<1>13. ASSUME J[N].full PROVE n + Len(chunks[N]) <= Len(s)
  <2> DEFINE p == c[N - 1]
             q == c[N]
  <2>1. N \in 1 .. N /\ n <= p
    BY <1>9, <1>13
  <2>2. p \in 0 .. Len(s) /\ q \in 0 .. Len(s) /\ p <= q /\ q = Len(s) /\ chunks[N] = Slice(s, p, q)
    BY <1>3, <1>4, <2>1
  <2> HIDE DEF p, q
  <2>3. p \in Nat /\ q \in Nat /\ q <= Len(s)
    BY <1>3, <2>2
  <2>4. Len(Slice(s, p, q)) = q - p
    <3>1. p <= q
      BY <2>2
    <3> QED
      BY ONLY <1>1, <2>3, <3>1, SliceIs
  <2> QED
    BY <1>3, <1>12, <2>1, <2>2, <2>3, <2>4
<1>14. ASSUME b.full PROVE n < Len(s) /\ n + Len(chunks[Len(chunks)]) <= Len(s)
  BY <1>4, <1>9, <1>10, <1>13, <1>14 DEF N
<1> QED
  BY <1>4, <1>9, <1>10, <1>11, <1>12, <1>14

-----------------------------------------------------------------------------
(* What is written.                                                        *)

LEMMA KeyIs ==
  ASSUME NEW t \in Tag, NEW type \in WireTypes
  PROVE  Key(t, type) \in 0 .. ShortWord - 1 /\ Key(t, type) \in 0 .. Word - 1
<1>1. t \in Nat /\ t <= ShortWord \div 8 - 1
  <2>1. ShortWord \div 8 - 1 \in Int
    BY Sizes
  <2> QED
    BY <2>1, WriterAssumption
<1>2. type \in Nat /\ type < 8
  BY DEF WireTypes, VarintType, Fixed64Type, LengthDelimited, Fixed32Type
<1> QED
  BY <1>1, <1>2, Sizes, Widths DEF Key

LEMMA KeyText ==
  ASSUME NEW t \in Tag, NEW type \in WireTypes
  PROVE  /\ EncodeVarint(Key(t, type)) \in Seq(Byte)
         /\ Cuts(KeyChunks(t, type), EncodeVarint(Key(t, type)))
<1>1. EncodeVarint(Key(t, type)) \in Seq(Byte)
  BY KeyIs, EncodeIs
<1> QED
  BY <1>1, CutsBytes DEF KeyChunks

LEMMA TypesAre ==
  VarintType \in WireTypes /\ Fixed64Type \in WireTypes /\ LengthDelimited \in WireTypes
  /\ Fixed32Type \in WireTypes
BY DEF WireTypes

LEMMA LengthText ==
  ASSUME NEW t \in Tag, NEW n \in 0 .. ShortWord - 1
  PROVE  /\ EncodeVarint(n) \in Seq(Byte)
         /\ EncodeVarint(Key(t, LengthDelimited)) \o EncodeVarint(n) \in Seq(Byte)
         /\ Cuts(LengthChunks(t, n), EncodeVarint(Key(t, LengthDelimited)) \o EncodeVarint(n))
<1>1. n \in 0 .. Word - 1
  BY Sizes, Widths
<1>2. EncodeVarint(n) \in Seq(Byte)
  BY <1>1, EncodeIs
<1>3. Cuts(Chunks(EncodeVarint(n)), EncodeVarint(n))
  BY <1>2, CutsBytes
<1>4. EncodeVarint(Key(t, LengthDelimited)) \in Seq(Byte)
      /\ Cuts(KeyChunks(t, LengthDelimited), EncodeVarint(Key(t, LengthDelimited)))
  BY TypesAre, KeyText
<1>5. Cuts(LengthChunks(t, n), EncodeVarint(Key(t, LengthDelimited)) \o EncodeVarint(n))
  BY <1>3, <1>4, CutsJoin DEF LengthChunks
<1> QED
  BY <1>2, <1>4, <1>5, Join

LEMMA Remainder ==
  ASSUME NEW v \in Int, NEW m \in Nat, m > 0
  PROVE  v % m \in 0 .. m - 1
OBVIOUS

LEMMA VarintOfIs ==
  ASSUME NEW kind, NEW v \in Ints
  PROVE  /\ VarintOf(kind, v) \in 0 .. Word - 1
         /\ EncodeVarint(VarintOf(kind, v)) \in Seq(Byte)
         /\ Cuts(Chunks(EncodeVarint(VarintOf(kind, v))), EncodeVarint(VarintOf(kind, v)))
<1>1. v \in Int /\ 0 - Word \div 2 <= v /\ v <= Word \div 2 - 1
  <2>1. Word \div 2 \in Int
    BY Widths
  <2> QED
    BY <2>1, WriterAssumption
<1>2. EncodeZigzag(v) \in 0 .. Word - 1
  BY <1>1, Widths DEF EncodeZigzag
<1>3. Unsigned(v) \in 0 .. Word - 1
  BY <1>1, Widths, Remainder DEF Unsigned
<1>4. VarintOf(kind, v) \in 0 .. Word - 1
  BY <1>2, <1>3, Zenon DEF VarintOf
<1>5. EncodeVarint(VarintOf(kind, v)) \in Seq(Byte)
  BY <1>4, EncodeIs
<1> QED
  BY <1>4, <1>5, CutsBytes

LEMMA FixedValuesAre ==
  ASSUME NEW n \in Nat, NEW x \in FixedValues(n)
  PROVE  x \in Seq(Byte) /\ Len(x) = n
<1>1. PICK v \in Ints : x = [i \in 1 .. n |-> IF i = 1 THEN v % Group ELSE 0]
  BY DEF FixedValues
<1>2. v \in Int
  <2>1. Word \div 2 \in Int
    BY Widths
  <2> QED
    BY <2>1, WriterAssumption
<1>3. v % Group \in 0 .. Group - 1
  BY <1>2, Widths, Remainder
<1>4. v % Group \in Byte /\ 0 \in Byte
  BY <1>3, Widths DEF Byte
<1>5. x \in [1 .. n -> Byte]
  <2> HIDE DEF Byte
  <2> QED
    BY <1>1, <1>4
<1> HIDE DEF Byte
<1> QED
  BY <1>1, <1>5

LEMMA WidthIs ==
  ASSUME NEW kind
  PROVE  /\ Width(kind) \in Nat /\ Width(kind) \in 0 .. ShortWord - 1
         /\ 2 * Width(kind) \in 0 .. ShortWord - 1
<1>1. 2 * Fixed32 < ShortWord /\ 2 * Fixed64 < ShortWord
  BY WriterAssumption
<1>2. Width(kind) = Fixed32 \/ Width(kind) = Fixed64
  BY Zenon DEF Width
<1> QED
  BY <1>1, <1>2, Sizes

\* The text of a field that has no length.
LEMMA ShortField ==
  ASSUME NEW t \in Tag, NEW type \in WireTypes, type # LengthDelimited, NEW chunks, NEW payload,
         Cuts(chunks, payload)
  PROVE  Cuts(KeyChunks(t, type) \o chunks, Field(t, type, payload))
<1> DEFINE key == EncodeVarint(Key(t, type))
<1>1. key \in Seq(Byte) /\ Cuts(KeyChunks(t, type), key)
  BY KeyText
<1>2. Field(t, type, payload) = (key \o <<>>) \o payload
  BY DEF Field, FieldBytes
<1>3. key \o <<>> = key
  <2> HIDE DEF key, Byte
  <2> QED
    BY <1>1, ConcatEmptySeq
<1>4. Field(t, type, payload) = key \o payload
  BY <1>2, <1>3, Zenon
<1>5. Cuts(KeyChunks(t, type) \o chunks, key \o payload)
  <2> HIDE DEF key
  <2> QED
    BY <1>1, CutsJoin
<1> QED
  BY <1>4, <1>5, Zenon

LEMMA LongField ==
  ASSUME NEW t \in Tag, NEW chunks, NEW payload, Cuts(chunks, payload),
         NEW n \in 0 .. ShortWord - 1, n = Len(payload)
  PROVE  Cuts(LengthChunks(t, n) \o chunks, Field(t, LengthDelimited, payload))
<1> DEFINE head == EncodeVarint(Key(t, LengthDelimited)) \o EncodeVarint(n)
<1>1. Cuts(LengthChunks(t, n), head)
  BY LengthText
<1>2. Field(t, LengthDelimited, payload) = head \o payload
  BY DEF Field, FieldBytes
<1>3. Cuts(LengthChunks(t, n) \o chunks, head \o payload)
  <2> HIDE DEF head
  <2> QED
    BY <1>1, CutsJoin
<1> QED
  BY <1>2, <1>3, Zenon

\* Two texts, one after the other.
LEMMA CutsTwo ==
  ASSUME NEW s \in Seq(Byte), NEW t \in Seq(Byte)
  PROVE  Cuts(<<s, t>>, s \o t)
<1>1. Cuts(<<s>>, s) /\ Cuts(<<t>>, t)
  BY CutsOne
<1>2. Cuts(<<s>> \o <<t>>, s \o t)
  BY <1>1, CutsJoin
<1>3. <<s>> \o <<t>> = <<s, t>>
  <2> DEFINE S == Seq(Byte)
             a == <<s>>
             b == <<t>>
             c == <<s, t>>
             d == a \o b
  <2>1. s \in S /\ t \in S
    OBVIOUS
  <2> HIDE DEF S
  <2>2. a \in Seq(S) /\ Len(a) = 1 /\ a[1] = s /\ b \in Seq(S) /\ Len(b) = 1 /\ b[1] = t
    BY <2>1
  <2>3. c \in Seq(S) /\ Len(c) = 2 /\ c[1] = s /\ c[2] = t
    BY <2>1
  <2> HIDE DEF a, b, c
  <2>4. d \in Seq(S) /\ Len(d) = 2 /\ d[1] = s /\ d[2] = t
    <3>1. d \in Seq(S) /\ Len(d) = Len(a) + Len(b)
          /\ \A i \in 1 .. Len(a) + Len(b) : d[i] = IF i <= Len(a) THEN a[i] ELSE b[i - Len(a)]
      BY <2>2, ConcatProperties
    <3> HIDE DEF d
    <3>2. Len(a) + Len(b) = 2 /\ 1 <= Len(a) /\ ~(2 <= Len(a)) /\ 2 - Len(a) = 1
      BY <2>2
    <3>3. d[1] = a[1] /\ d[2] = b[1]
      BY <3>1, <3>2
    <3> QED
      BY <2>2, <3>1, <3>2, <3>3
  <2> HIDE DEF d
  <2>5. Len(d) = Len(c) /\ \A i \in 1 .. Len(d) : d[i] = c[i]
    BY <2>3, <2>4
  <2>6. d = c
    BY <2>3, <2>4, <2>5, SeqEqual
  <2> QED
    BY <2>6 DEF a, b, c, d
<1> QED
  BY <1>2, <1>3

-----------------------------------------------------------------------------
(* The positions that the writers remember.                                *)

WriterType == [rollbackPos : Int, pos : Nat, kind : {"message"} \cup PackedKinds]

HeadOf(t) == EncodeVarint(Key(t, LengthDelimited))

\* The writer k has a submessage with the tag t: its key, and reserved bytes.
Marked(d, ws, k, t) ==
  /\ ws[k].rollbackPos \in Nat
  /\ \A j \in 1 .. k - 1 : ws[j].pos <= ws[k].rollbackPos
  /\ ws[k].pos = ws[k].rollbackPos + Len(HeadOf(t)) + ReserveBytes
  /\ ws[k].pos <= Len(d)
  /\ Slice(d, ws[k].rollbackPos, ws[k].rollbackPos + Len(HeadOf(t))) = HeadOf(t)

HasMark(d, ws, k) == \E t \in SubmessageTags : Marked(d, ws, k, t)

IsSized(ws, k) ==
  ws[k].rollbackPos = SizeIsKnown /\ k = Len(ws) - 1 /\ ws[k + 1].kind # "message"

WriterInv(d, ws) ==
  /\ d \in Seq(Byte) /\ Len(d) <= Capacity
  /\ ws \in Seq(WriterType) /\ Len(ws) >= 1
  /\ \A k \in 1 .. Len(ws) - 1 :
       /\ ws[k].kind = "message"
       /\ HasMark(d, ws, k) \/ IsSized(ws, k)

LEMMA CapacityIs ==
  /\ Capacity \in Nat
  /\ ReserveBytes \in 1 .. MaxVarintLength /\ Capacity < Power[ReserveBytes - 1]
<1>1. ShortWord - 1 \in 0 .. Word - 1
  BY Sizes, Widths
<1>2. LengthOfVarint(ShortWord - 1) \in 1 .. MaxVarintLength
  <2> DEFINE v == ShortWord - 1
  <2>1. v \in Nat /\ v < Power[MaxVarintLength]
    BY <1>1, LengthOfWord
  <2> HIDE DEF v
  <2>2. LengthOfVarint(v) \in 1 .. MaxVarintLength
    BY <2>1, LengthIs
  <2> QED
    BY <2>2 DEF v
<1> QED
  BY <1>2, WriterAssumption

LEMMA HeadIs ==
  ASSUME NEW t \in SubmessageTags
  PROVE  t \in Tag /\ HeadOf(t) \in Seq(Byte) /\ Len(HeadOf(t)) \in Nat \ {0}
<1>1. t \in Tag
  BY DEF SubmessageTags, TagsOf
<1>2. HeadOf(t) \in Seq(Byte)
  BY <1>1, TypesAre, KeyText DEF HeadOf
<1>3. Key(t, LengthDelimited) \in 0 .. Word - 1
  BY <1>1, TypesAre, KeyIs
<1>4. Len(HeadOf(t)) = LengthOfVarint(Key(t, LengthDelimited))
  BY <1>3, EncodeIs DEF HeadOf
<1>5. LengthOfVarint(Key(t, LengthDelimited)) \in 1 .. MaxVarintLength
  BY <1>3, LengthOfWord, LengthIs
<1> QED
  BY <1>1, <1>2, <1>4, <1>5, Widths

\* A mark stays as long as the bytes in front of its position do.
LEMMA MarkStays ==
  ASSUME NEW d \in Seq(Byte), NEW d2 \in Seq(Byte), NEW q \in Nat, SamePrefix(d, d2, q),
         NEW ws, NEW ws2, NEW k \in Nat, NEW t \in SubmessageTags,
         Marked(d, ws, k, t), ws[k].pos <= q, \A j \in 1 .. k : ws2[j] = ws[j], k >= 1
  PROVE  Marked(d2, ws2, k, t)
<1> DEFINE p == ws[k].rollbackPos
           n == p + Len(HeadOf(t))
<1>1. p \in Nat /\ Len(HeadOf(t)) \in Nat /\ ReserveBytes \in Nat /\ n \in Nat /\ p <= n
  <2>1. p \in Nat
    BY DEF Marked
  <2>2. Len(HeadOf(t)) \in Nat
    BY HeadIs
  <2>3. ReserveBytes \in Nat
    BY CapacityIs, Widths
  <2> HIDE DEF p
  <2> QED
    BY <2>1, <2>2, <2>3
<1>2. ws[k].pos = n + ReserveBytes /\ Slice(d, p, n) = HeadOf(t)
      /\ \A j \in 1 .. k - 1 : ws[j].pos <= p
  BY DEF Marked
<1>3. k \in 1 .. k /\ \A j \in 1 .. k - 1 : j \in 1 .. k
  OBVIOUS
<1>4. ws2[k] = ws[k] /\ \A j \in 1 .. k - 1 : ws2[j] = ws[j]
  BY <1>3
<1> HIDE DEF p, n
<1>5. n <= q /\ ws[k].pos <= Len(d2)
  <2>1. q <= Len(d2) /\ Len(d2) \in Nat
    BY DEF SamePrefix
  <2> QED
    BY <1>1, <1>2, <2>1
<1>6. Slice(d2, p, n) = HeadOf(t)
  BY <1>1, <1>2, <1>5, SameSlices
<1> QED
  BY <1>1, <1>2, <1>4, <1>5, <1>6 DEF Marked, p, n

\* What is appended, and another top writer, do no harm.
LEMMA GrowKeeps ==
  ASSUME NEW d, NEW ws, WriterInv(d, ws), NEW e \in Seq(Byte), Len(d) + Len(e) <= Capacity,
         NEW ws2 \in Seq(WriterType), Len(ws2) = Len(ws),
         \A k \in 1 .. Len(ws) - 1 : ws2[k] = ws[k], ws2[Len(ws)].kind = ws[Len(ws)].kind
  PROVE  WriterInv(d \o e, ws2)
<1> DEFINE d2 == d \o e
<1>1. d \in Seq(Byte) /\ ws \in Seq(WriterType) /\ Len(ws) \in Nat /\ Len(ws) >= 1 /\ Len(d) \in Nat
  BY DEF WriterInv
<1>2. d2 \in Seq(Byte) /\ Len(d2) = Len(d) + Len(e)
  BY <1>1, Join
<1>3. SamePrefix(d, d2, Len(d))
  <2>1. Len(d) \in 0 .. Len(d)
    BY <1>1
  <2> QED
    BY <1>1, <2>1, SamePrefixOfJoin
<1> HIDE DEF d2
<1>4. ASSUME NEW k \in 1 .. Len(ws) - 1
      PROVE  ws2[k].kind = "message" /\ (HasMark(d2, ws2, k) \/ IsSized(ws2, k))
  <2>1. ws[k].kind = "message" /\ (HasMark(d, ws, k) \/ IsSized(ws, k)) /\ ws2[k] = ws[k]
    BY DEF WriterInv
  <2>2. CASE HasMark(d, ws, k)
    <3>1. PICK t \in SubmessageTags : Marked(d, ws, k, t)
      BY <2>2 DEF HasMark
    <3>2. ws[k].pos <= Len(d)
      BY <3>1 DEF Marked
    <3>3. k \in Nat /\ k >= 1 /\ \A j \in 1 .. k : ws2[j] = ws[j]
      BY <1>1
    <3>4. Marked(d2, ws2, k, t)
      BY <1>1, <1>2, <1>3, <3>1, <3>2, <3>3, MarkStays
    <3> QED
      BY <2>1, <3>4 DEF HasMark
  <2>3. CASE IsSized(ws, k)
    <3>1. k + 1 = Len(ws)
      BY <1>1, <2>3 DEF IsSized
    <3> QED
      BY <2>1, <2>3, <3>1 DEF IsSized
  <2> QED
    BY <2>1, <2>2, <2>3
<1> QED
  BY <1>1, <1>2, <1>4 DEF WriterInv, d2

\* The first n writers are the same, and have what they need below q.
Untouched(ws, ws2, n, q) ==
  \A k \in 1 .. n : ws[k].pos <= q /\ ~IsSized(ws, k) /\ ws2[k] = ws[k]

LEMMA MarksStay ==
  ASSUME NEW d, NEW ws, WriterInv(d, ws), NEW d2 \in Seq(Byte), NEW q \in Nat, SamePrefix(d, d2, q),
         NEW n \in Nat, n < Len(ws), NEW ws2, Untouched(ws, ws2, n, q)
  PROVE  \A k \in 1 .. n : ws2[k].kind = "message" /\ HasMark(d2, ws2, k)
<1> SUFFICES ASSUME NEW k \in 1 .. n PROVE ws2[k].kind = "message" /\ HasMark(d2, ws2, k)
  OBVIOUS
<1>1. d \in Seq(Byte) /\ Len(ws) \in Nat /\ k \in 1 .. Len(ws) - 1
  BY DEF WriterInv
<1>2. ws[k].kind = "message" /\ (HasMark(d, ws, k) \/ IsSized(ws, k)) /\ ws2[k] = ws[k]
  BY <1>1 DEF WriterInv, Untouched
<1>3. PICK t \in SubmessageTags : Marked(d, ws, k, t)
  BY <1>2 DEF HasMark, Untouched
<1>4. k \in Nat /\ k >= 1 /\ ws[k].pos <= q /\ \A j \in 1 .. k : ws2[j] = ws[j]
  BY DEF Untouched
<1>5. Marked(d2, ws2, k, t)
  BY <1>1, <1>3, <1>4, MarkStays
<1> QED
  BY <1>2, <1>5 DEF HasMark

\* The positions are in the buffer.
LEMMA MarksAreInside ==
  ASSUME NEW d, NEW ws, WriterInv(d, ws), NEW k \in 1 .. Len(ws) - 1, ~IsSized(ws, k)
  PROVE  ws[k].pos \in Nat /\ ws[k].pos <= Len(d)
<1>1. HasMark(d, ws, k)
  BY DEF WriterInv
<1>2. PICK t \in SubmessageTags : Marked(d, ws, k, t)
  BY <1>1 DEF HasMark
<1>3. ws \in Seq(WriterType) /\ k \in 1 .. Len(ws)
  BY DEF WriterInv
<1>4. ws[k] \in WriterType
  BY <1>3, ElementOfSeq
<1> QED
  BY <1>2, <1>4 DEF Marked, WriterType

\* A program that writes a message is not inside a submessage of a known size.
LEMMA NoneIsSized ==
  ASSUME NEW d, NEW ws, WriterInv(d, ws), ws[Len(ws)].kind = "message", NEW k \in 1 .. Len(ws) - 1
  PROVE  ~IsSized(ws, k)
<1>1. Len(ws) \in Nat
  BY DEF WriterInv
<1> QED
  BY <1>1 DEF IsSized

LEMMA JoinAssociative ==
  ASSUME NEW a \in Seq(Byte), NEW b \in Seq(Byte), NEW c \in Seq(Byte)
  PROVE  (a \o b) \o c = a \o (b \o c)
<1> HIDE DEF Byte
<1> QED
  BY ConcatAssociative

LEMMA OpenKeeps ==
  ASSUME NEW d, NEW ws, WriterInv(d, ws), ws[Len(ws)].kind = "message",
         NEW t \in SubmessageTags, NEW z, z = HeadOf(t) \o Zeros, Len(d) + Len(z) <= Capacity,
         NEW ws2 \in Seq(WriterType), Len(ws2) = Len(ws) + 1,
         \A k \in 1 .. Len(ws) - 1 : ws2[k] = ws[k],
         ws2[Len(ws)].kind = "message", ws2[Len(ws)].rollbackPos = Len(d),
         ws2[Len(ws)].pos = Len(d) + Len(z)
  PROVE  WriterInv(d \o z, ws2)
<1> DEFINE d2 == d \o z
           L == Len(ws)
           h == HeadOf(t)
<1>1. d \in Seq(Byte) /\ L \in Nat /\ L >= 1 /\ Len(d) \in Nat
  BY DEF WriterInv
<1>2. h \in Seq(Byte) /\ Len(h) \in Nat
  BY HeadIs
<1>3. Zeros \in Seq(Byte) /\ Len(Zeros) = ReserveBytes /\ ReserveBytes \in Nat
  <2>1. ReserveBytes \in Nat
    BY CapacityIs, Widths
  <2>2. 0 \in Byte
    BY Widths DEF Byte
  <2> HIDE DEF Byte
  <2> QED
    BY <2>1, <2>2 DEF Zeros
<1>4. z \in Seq(Byte) /\ Len(z) = Len(h) + ReserveBytes
  BY <1>2, <1>3, Join
<1>5. d2 \in Seq(Byte) /\ Len(d2) = Len(d) + Len(z)
  BY <1>1, <1>4, Join
<1>6. SamePrefix(d, d2, Len(d))
  <2>1. Len(d) \in 0 .. Len(d)
    BY <1>1
  <2> QED
    BY <1>1, <1>4, <2>1, SamePrefixOfJoin
<1> HIDE DEF L, d2, h
<1>7. \A k \in 1 .. L - 1 : ws2[k].kind = "message" /\ HasMark(d2, ws2, k)
  <2> DEFINE n == L - 1
             q == Len(d)
  <2>1. n \in Nat /\ n < Len(ws) /\ q \in Nat
    BY <1>1 DEF L
  <2>2. Untouched(ws, ws2, n, q)
    BY NoneIsSized, MarksAreInside DEF L, Untouched
  <2>3. SamePrefix(d, d2, q)
    BY <1>6
  <2> HIDE DEF n, q
  <2>4. \A k \in 1 .. n : ws2[k].kind = "message" /\ HasMark(d2, ws2, k)
    BY <1>5, <2>1, <2>2, <2>3, MarksStay
  <2> QED
    BY <2>4 DEF n
<1>8. Marked(d2, ws2, L, t)
  <2>1. Slice(d2, Len(d), Len(d) + Len(h)) = h
    <3> DEFINE p == Len(d)
               n == Len(d) + Len(h)
               e == d \o h
    <3>1. e \in Seq(Byte) /\ Len(e) = n
      BY <1>1, <1>2, Join
    <3>2. d2 = e \o Zeros
      <4>1. d2 = d \o (h \o Zeros)
        BY Zenon DEF d2, h
      <4>2. (d \o h) \o Zeros = d \o (h \o Zeros)
        BY <1>1, <1>2, <1>3, JoinAssociative
      <4> QED
        BY <4>1, <4>2, Zenon
    <3>3. Slice(e, p, n) = h
      <4>1. p \in Nat /\ n \in Nat
        BY <1>1, <1>2
      <4> QED
        BY <1>1, <1>2, <4>1, SliceOfJoin
    <3>4. SamePrefix(e, d2, n)
      <4>1. n \in 0 .. Len(e)
        BY <1>1, <1>2, <3>1
      <4> HIDE DEF e, n
      <4> QED
        BY <1>3, <3>1, <3>2, <4>1, SamePrefixOfJoin
    <3>5. p \in Nat /\ n \in Nat /\ p <= n /\ n <= n
      BY <1>1, <1>2
    <3> HIDE DEF e, p, n
    <3>6. Slice(e, p, n) = Slice(d2, p, n)
      BY <1>5, <3>1, <3>4, <3>5, SameSlices
    <3> QED
      BY <3>3, <3>6 DEF p, n
  <2>2. \A j \in 1 .. L - 1 : ws2[j].pos <= Len(d)
    BY NoneIsSized, MarksAreInside DEF L
  <2>3. ws2[L].rollbackPos = Len(d) /\ ws2[L].pos = Len(d) + Len(h) + ReserveBytes
    BY <1>1, <1>2, <1>3, <1>4 DEF L
  <2>4. ws2[L].pos <= Len(d2)
    BY <1>1, <1>2, <1>3, <1>4, <1>5, <2>3
  <2> QED
    BY <1>1, <2>1, <2>2, <2>3, <2>4 DEF Marked, h
<1>9. ASSUME NEW k \in 1 .. Len(ws2) - 1
      PROVE  ws2[k].kind = "message" /\ (HasMark(d2, ws2, k) \/ IsSized(ws2, k))
  <2>1. CASE k = L
    BY <1>8, <2>1 DEF L, HasMark
  <2>2. CASE k # L
    <3>1. k \in 1 .. L - 1
      BY <1>1, <2>2 DEF L
    <3> QED
      BY <1>7, <3>1
  <2> QED
    BY <2>1, <2>2
<1> QED
  BY <1>1, <1>5, <1>9 DEF WriterInv, d2, L

LEMMA OpenSizedKeeps ==
  ASSUME NEW d, NEW ws, WriterInv(d, ws), ws[Len(ws)].kind = "message",
         NEW z \in Seq(Byte), Len(d) + Len(z) <= Capacity,
         NEW ws2 \in Seq(WriterType), Len(ws2) = Len(ws) + 1,
         \A k \in 1 .. Len(ws) - 1 : ws2[k] = ws[k],
         ws2[Len(ws)].kind = "message", ws2[Len(ws)].rollbackPos = SizeIsKnown,
         ws2[Len(ws) + 1].kind # "message"
  PROVE  WriterInv(d \o z, ws2)
<1> DEFINE d2 == d \o z
           L == Len(ws)
<1>1. d \in Seq(Byte) /\ L \in Nat /\ L >= 1 /\ Len(d) \in Nat
  BY DEF WriterInv
<1>5. d2 \in Seq(Byte) /\ Len(d2) = Len(d) + Len(z)
  BY <1>1, Join
<1>6. SamePrefix(d, d2, Len(d))
  <2>1. Len(d) \in 0 .. Len(d)
    BY <1>1
  <2> QED
    BY <1>1, <2>1, SamePrefixOfJoin
<1> HIDE DEF L, d2
<1>7. \A k \in 1 .. L - 1 : ws2[k].kind = "message" /\ HasMark(d2, ws2, k)
  <2> DEFINE n == L - 1
             q == Len(d)
  <2>1. n \in Nat /\ n < Len(ws) /\ q \in Nat
    BY <1>1 DEF L
  <2>2. Untouched(ws, ws2, n, q)
    BY NoneIsSized, MarksAreInside DEF L, Untouched
  <2>3. SamePrefix(d, d2, q)
    BY <1>6
  <2> HIDE DEF n, q
  <2>4. \A k \in 1 .. n : ws2[k].kind = "message" /\ HasMark(d2, ws2, k)
    BY <1>5, <2>1, <2>2, <2>3, MarksStay
  <2> QED
    BY <2>4 DEF n
<1>8. IsSized(ws2, L)
  BY <1>1 DEF IsSized, L
<1>9. ASSUME NEW k \in 1 .. Len(ws2) - 1
      PROVE  ws2[k].kind = "message" /\ (HasMark(d2, ws2, k) \/ IsSized(ws2, k))
  <2>1. CASE k = L
    BY <1>8, <2>1 DEF L
  <2>2. CASE k # L
    <3>1. k \in 1 .. L - 1
      BY <1>1, <2>2 DEF L
    <3> QED
      BY <1>7, <3>1
  <2> QED
    BY <2>1, <2>2
<1> QED
  BY <1>1, <1>5, <1>9 DEF WriterInv, d2, L

LEMMA CloseKeeps ==
  ASSUME NEW d, NEW ws, WriterInv(d, ws), Len(ws) > 1,
         NEW d2 \in Seq(Byte), Len(d2) <= Capacity, NEW q \in Nat, SamePrefix(d, d2, q),
         NEW n \in Nat, n = Len(ws) - 2, \A k \in 1 .. n : ws[k].pos <= q,
         NEW ws2 \in Seq(WriterType), Len(ws2) = Len(ws) - 1, \A k \in 1 .. n : ws2[k] = ws[k]
  PROVE  WriterInv(d2, ws2)
<1>1. Len(ws) \in Nat
  BY DEF WriterInv
<1>2. \A k \in 1 .. n : ~IsSized(ws, k)
  BY <1>1 DEF IsSized
<1>3. \A k \in 1 .. n : ws2[k].kind = "message" /\ HasMark(d2, ws2, k)
  <2>1. n < Len(ws) /\ Untouched(ws, ws2, n, q)
    BY <1>1, <1>2 DEF Untouched
  <2> QED
    BY <2>1, MarksStay
<1>4. Len(ws2) - 1 = n /\ Len(ws2) >= 1
  BY <1>1
<1> QED
  BY <1>3, <1>4 DEF WriterInv

-----------------------------------------------------------------------------
(* The writer's steps.                                                     *)

\* What a writer of that kind adds at once.
PiecesOf(kind) ==
  IF kind = "message" THEN FieldPieces
  ELSE IF kind \in {"ints", "sints"} THEN {EncodeVarint(VarintOf(kind, v)) : v \in Ints}
  ELSE FixedValues(Width(kind))

\* The buffer gets n bytes of s, which are all of them or the buffer is full.
GrowsBy(s, n) ==
  /\ n \in 0 .. Len(s) /\ data' = data \o Slice(s, 0, n) /\ Len(data) + n <= Capacity
  /\ IF n = Len(s) THEN outcome' = "fine" ELSE outcome' = "threw"

Adds(s) ==
  /\ s \in Seq(Byte) /\ writers' = writers
  /\ \/ outcome' = "aborted" /\ data' = data
     \/ \E n : GrowsBy(s, n)

LEMMA AddIs ==
  ASSUME data \in Seq(Byte), Len(data) <= Capacity,
         NEW kind, NEW chunks, NEW s, Cuts(chunks, s), AddChunks(kind, chunks)
  PROVE  Writer.kind = kind /\ Adds(s)
<1>0. s \in Seq(Byte)
  BY DEF Cuts
<1>1. Writer.kind = kind
  BY DEF AddChunks
<1>2. CASE Assertion(Stale)
  BY <1>0, <1>1, <1>2 DEF Assertion, Adds
<1>3. CASE /\ data' = AppendAll(chunks).bytes
           /\ outcome' = IF AppendAll(chunks).full THEN "threw" ELSE "fine"
           /\ UNCHANGED writers
  <2> DEFINE b == AppendAll(chunks)
  <2>1. PICK n \in 0 .. Len(s) :
           /\ b.bytes = data \o Slice(s, 0, n) /\ Len(data) + n <= Capacity
           /\ b.full \in BOOLEAN
           /\ b.full => n < Len(s) /\ n + Len(chunks[Len(chunks)]) <= Len(s)
           /\ ~b.full => n = Len(s)
    BY CapacityIs, AppendAllIs
  <2> HIDE DEF b
  <2>2. IF n = Len(s) THEN outcome' = "fine" ELSE outcome' = "threw"
    <3>1. CASE b.full
      <4>1. n # Len(s)
        BY <1>0, <2>1, <3>1
      <4> QED
        BY <1>3, <3>1, <4>1, Zenon DEF b
    <3>2. CASE ~b.full
      BY <1>3, <2>1, <3>2, Zenon DEF b
    <3> QED
      BY <3>1, <3>2
  <2>3. GrowsBy(s, n)
    BY <1>3, <2>1, <2>2, Zenon DEF GrowsBy, b
  <2> QED
    BY <1>0, <1>1, <1>3, <2>3, Zenon DEF Adds
<1> QED
  BY <1>1, <1>2, <1>3 DEF AddChunks

LEMMA AddVarintIs ==
  ASSUME data \in Seq(Byte), Len(data) <= Capacity, NEW t \in Tag, AddVarint(t)
  PROVE  \E s \in PiecesOf(Writer.kind) : Adds(s)
<1>1. PICK v \in Ints : AddChunks("message", KeyChunks(t, VarintType)
                                             \o Chunks(EncodeVarint(VarintOf(Schema[t], v))))
  BY DEF AddVarint
<1> DEFINE payload == EncodeVarint(VarintOf(Schema[t], v))
           s == Field(t, VarintType, payload)
<1>2. Cuts(KeyChunks(t, VarintType) \o Chunks(payload), s)
  BY VarintOfIs, ShortField, TypesAre, WireTypesDiffer
<1>3. Writer.kind = "message" /\ Adds(s)
  <2>1. AddChunks("message", KeyChunks(t, VarintType) \o Chunks(payload))
    BY <1>1
  <2> HIDE DEF s, payload
  <2> QED
    BY <1>2, <2>1, AddIs
<1>4. s \in FieldPieces
  <2>1. t \in TagsOf({"int", "sint"})
    BY DEF AddVarint, TagsOf
  <2> QED
    BY <2>1 DEF FieldPieces
<1> QED
  BY <1>3, <1>4 DEF PiecesOf

LEMMA AddBoolIs ==
  ASSUME data \in Seq(Byte), Len(data) <= Capacity, NEW t \in Tag, AddBool(t)
  PROVE  \E s \in PiecesOf(Writer.kind) : Adds(s)
<1>1. PICK b \in {0, 1} : AddChunks("message", KeyChunks(t, VarintType) \o <<<<b>>>>)
  BY DEF AddBool
<1> DEFINE payload == <<b>>
           s == Field(t, VarintType, payload)
<1>2. payload \in Seq(Byte)
  <2>1. b \in Byte
    BY Widths DEF Byte
  <2> HIDE DEF Byte
  <2> QED
    BY <2>1
<1>3. Cuts(KeyChunks(t, VarintType) \o <<payload>>, s)
  BY <1>2, CutsOne, ShortField, TypesAre, WireTypesDiffer
<1>4. Writer.kind = "message" /\ Adds(s)
  <2> HIDE DEF s, payload
  <2> QED
    BY <1>1, <1>3, AddIs DEF payload
<1>5. s \in FieldPieces
  <2>1. t \in TagsOf({"bool"})
    BY DEF AddBool, TagsOf
  <2> QED
    BY <2>1 DEF FieldPieces
<1> QED
  BY <1>4, <1>5 DEF PiecesOf

LEMMA AddFixedIs ==
  ASSUME data \in Seq(Byte), Len(data) <= Capacity, NEW t \in Tag, AddFixed(t)
  PROVE  \E s \in PiecesOf(Writer.kind) : Adds(s)
<1>1. PICK v \in FixedValues(Width(Schema[t])) :
        AddChunks("message", KeyChunks(t, FixedType(Schema[t])) \o <<v>>)
  BY DEF AddFixed
<1> DEFINE type == FixedType(Schema[t])
           s == Field(t, type, v)
<1>2. type \in WireTypes /\ type # LengthDelimited
  BY TypesAre, WireTypesDiffer DEF FixedType
<1>3. v \in Seq(Byte)
  BY WidthIs, FixedValuesAre
<1>4. Cuts(KeyChunks(t, type) \o <<v>>, s)
  <2> HIDE DEF type
  <2> QED
    BY <1>2, <1>3, CutsOne, ShortField
<1>5. Writer.kind = "message" /\ Adds(s)
  <2> HIDE DEF s
  <2> QED
    BY <1>1, <1>4, AddIs
<1>6. s \in FieldPieces
  <2>1. t \in TagsOf({"fixed32", "fixed64"})
    BY DEF AddFixed, TagsOf
  <2> QED
    BY <2>1 DEF FieldPieces
<1> QED
  BY <1>5, <1>6 DEF PiecesOf

LEMMA AddBytesIs ==
  ASSUME data \in Seq(Byte), Len(data) <= Capacity, NEW t \in Tag, AddBytes(t)
  PROVE  \E s \in PiecesOf(Writer.kind) : Adds(s)
<1>1. PICK c \in Contents : AddChunks("message", LengthChunks(t, Len(c)) \o <<c>>)
  BY DEF AddBytes
<1> DEFINE s == Field(t, LengthDelimited, c)
           n == Len(c)
<1>2. c \in Seq(Byte) /\ n \in 0 .. ShortWord - 1
  <2>1. c \in Seq(Byte) /\ Len(c) + Len(c) < ShortWord
    BY WriterAssumption
  <2>2. Len(c) \in Nat
    BY <2>1
  <2> HIDE DEF Byte
  <2> QED
    BY <2>1, <2>2, Sizes
<1>3. Cuts(LengthChunks(t, n) \o <<c>>, s)
  <2>1. Cuts(<<c>>, c)
    BY <1>2, CutsOne
  <2> QED
    BY <1>2, <2>1, LongField
<1>4. Writer.kind = "message" /\ Adds(s)
  <2> HIDE DEF s
  <2> QED
    BY <1>1, <1>3, AddIs
<1>5. s \in FieldPieces
  <2>1. t \in TagsOf({"bytes"})
    BY DEF AddBytes, TagsOf
  <2> QED
    BY <2>1 DEF FieldPieces
<1> QED
  BY <1>4, <1>5 DEF PiecesOf

LEMMA AddBytesVectoredIs ==
  ASSUME data \in Seq(Byte), Len(data) <= Capacity, NEW t \in Tag, AddBytesVectored(t)
  PROVE  \E s \in PiecesOf(Writer.kind) : Adds(s)
<1>1. PICK c, d \in Contents : AddChunks("message", LengthChunks(t, Len(c) + Len(d)) \o <<c, d>>)
  BY DEF AddBytesVectored
<1> DEFINE e == c \o d
           s == Field(t, LengthDelimited, e)
           n == Len(c) + Len(d)
<1>2. c \in Seq(Byte) /\ d \in Seq(Byte) /\ n \in 0 .. ShortWord - 1
  <2>1. c \in Seq(Byte) /\ d \in Seq(Byte) /\ Len(c) + Len(d) < ShortWord
    BY WriterAssumption
  <2>2. Len(c) \in Nat /\ Len(d) \in Nat
    BY <2>1
  <2> HIDE DEF Byte
  <2> QED
    BY <2>1, <2>2, Sizes
<1>3. Cuts(<<c, d>>, e) /\ n = Len(e)
  BY <1>2, CutsTwo, Join
<1>4. Cuts(LengthChunks(t, n) \o <<c, d>>, s)
  <2> HIDE DEF e
  <2> QED
    BY <1>2, <1>3, LongField
<1>5. Writer.kind = "message" /\ Adds(s)
  <2> HIDE DEF s
  <2> QED
    BY <1>1, <1>4, AddIs
<1>6. s \in FieldPieces
  <2>1. t \in TagsOf({"bytes"})
    BY DEF AddBytesVectored, TagsOf
  <2> QED
    BY <2>1 DEF FieldPieces
<1> QED
  BY <1>5, <1>6 DEF PiecesOf

LEMMA AddPackedFixedIs ==
  ASSUME data \in Seq(Byte), Len(data) <= Capacity, NEW t \in Tag, AddPackedFixed(t)
  PROVE  \E s \in PiecesOf(Writer.kind) : Adds(s)
<1> DEFINE w == Width(Schema[t])
           n == 2 * w
<1>1. PICK v \in FixedValues(w) : AddChunks("message", LengthChunks(t, n) \o <<v, v>>)
  BY DEF AddPackedFixed
<1> DEFINE e == v \o v
           s == Field(t, LengthDelimited, e)
<1>2. w \in Nat /\ n \in 0 .. ShortWord - 1
  BY WidthIs
<1>3. v \in Seq(Byte) /\ Len(v) = w
  BY <1>2, FixedValuesAre
<1>4. Cuts(<<v, v>>, e) /\ n = Len(e)
  <2> HIDE DEF w
  <2>1. Len(v \o v) = Len(v) + Len(v)
    BY <1>3, Join
  <2>2. Cuts(<<v, v>>, v \o v)
    BY <1>3, CutsTwo
  <2> QED
    BY <1>2, <1>3, <2>1, <2>2
<1>5. Cuts(LengthChunks(t, n) \o <<v, v>>, s)
  <2> HIDE DEF e, n
  <2> QED
    BY <1>2, <1>4, LongField
<1>6. Writer.kind = "message" /\ Adds(s)
  <2> HIDE DEF s
  <2> QED
    BY <1>1, <1>5, AddIs
<1>7. s \in FieldPieces
  <2>1. t \in TagsOf({"fixeds32", "fixeds64"})
    BY DEF AddPackedFixed, TagsOf
  <2> QED
    BY <2>1 DEF FieldPieces
<1> QED
  BY <1>6, <1>7 DEF PiecesOf

LEMMA AddElementIs ==
  ASSUME data \in Seq(Byte), Len(data) <= Capacity, AddElement
  PROVE  \E s \in PiecesOf(Writer.kind) : Adds(s)
<1>1. CASE \E kind \in {"ints", "sints"}, v \in Ints :
             AddChunks(kind, Chunks(EncodeVarint(VarintOf(kind, v))))
  <2>1. PICK kind \in {"ints", "sints"}, v \in Ints :
          AddChunks(kind, Chunks(EncodeVarint(VarintOf(kind, v))))
    BY <1>1
  <2> DEFINE s == EncodeVarint(VarintOf(kind, v))
  <2>2. Cuts(Chunks(s), s)
    BY VarintOfIs
  <2>3. Writer.kind = kind /\ Adds(s)
    <3> HIDE DEF s
    <3> QED
      BY <2>1, <2>2, AddIs DEF s
  <2>4. s \in PiecesOf(kind)
    BY DEF PiecesOf
  <2> QED
    BY <2>3, <2>4
<1>2. CASE \E kind \in {"fixeds32", "fixeds64"} : \E v \in FixedValues(Width(kind)) :
             AddChunks(kind, <<v>>)
  <2>0. PICK kind \in {"fixeds32", "fixeds64"} :
          \E v \in FixedValues(Width(kind)) : AddChunks(kind, <<v>>)
    BY <1>2
  <2>1. PICK v \in FixedValues(Width(kind)) : AddChunks(kind, <<v>>)
    BY <2>0
  <2>2. v \in Seq(Byte)
    BY WidthIs, FixedValuesAre
  <2>3. Writer.kind = kind /\ Adds(v)
    BY <2>1, <2>2, CutsOne, AddIs
  <2>4. v \in PiecesOf(kind)
    BY DEF PiecesOf
  <2> QED
    BY <2>3, <2>4
<1> QED
  BY <1>1, <1>2 DEF AddElement

LEMMA TopIs ==
  ASSUME WriterInv(data, writers)
  PROVE  /\ Top \in Nat /\ Top >= 1 /\ Writer \in WriterType
         /\ writers \in Seq(WriterType) /\ Len(writers) = Top
         /\ data \in Seq(Byte) /\ Len(data) \in Nat /\ Len(data) <= Capacity
         /\ \A k \in 1 .. Top : writers[k] \in WriterType
<1>1. writers \in Seq(WriterType) /\ Len(writers) \in Nat /\ Len(writers) >= 1
  BY DEF WriterInv
<1>2. \A k \in 1 .. Len(writers) : writers[k] \in WriterType
  BY <1>1, ElementOfSeq
<1>3. data \in Seq(Byte) /\ Len(data) \in Nat /\ Len(data) <= Capacity
  BY DEF WriterInv
<1>4. Len(writers) \in 1 .. Len(writers)
  BY <1>1
<1>5. Writer \in WriterType
  BY <1>2, <1>4 DEF Writer, Top
<1> QED
  BY <1>1, <1>2, <1>3, <1>5 DEF Top

Replaced(ws, w) == ws = [writers EXCEPT ![Top] = w]
Pushed(ws, w, v) == ws = [writers EXCEPT ![Top] = w] \o <<v>>
Popped(ws, p) == ws = [Front(writers) EXCEPT ![Top - 1] = p]

\* Other writers for the last one.
LEMMA ReplaceTop ==
  ASSUME WriterInv(data, writers), NEW w \in WriterType, NEW ws, Replaced(ws, w)
  PROVE  /\ ws \in Seq(WriterType) /\ Len(ws) = Top /\ ws[Top] = w
         /\ \A k \in 1 .. Top - 1 : ws[k] = writers[k]
<1>1. Top \in 1 .. Top /\ Top \in Nat
  BY TopIs
<1>2. writers \in Seq(WriterType) /\ Len(writers) = Top
  BY TopIs
<1> DEFINE n == Top
<1>3. n \in 1 .. Len(writers)
  BY <1>1, <1>2
<1> HIDE DEF n
<1>4. /\ [writers EXCEPT ![n] = w] \in Seq(WriterType)
      /\ Len([writers EXCEPT ![n] = w]) = Len(writers)
      /\ \A j \in 1 .. Len(writers) : [writers EXCEPT ![n] = w][j] = IF j = n THEN w ELSE writers[j]
  BY <1>2, <1>3, ExceptSeq
<1>5. /\ ws \in Seq(WriterType) /\ Len(ws) = Top
      /\ \A j \in 1 .. Top : ws[j] = IF j = Top THEN w ELSE writers[j]
  BY <1>2, <1>4 DEF n, Replaced
<1> QED
  BY <1>1, <1>5

LEMMA PushWriter ==
  ASSUME WriterInv(data, writers), NEW w \in WriterType, NEW v \in WriterType,
         NEW ws, Pushed(ws, w, v)
  PROVE  /\ ws \in Seq(WriterType) /\ Len(ws) = Top + 1 /\ ws[Top] = w /\ ws[Top + 1] = v
         /\ \A k \in 1 .. Top - 1 : ws[k] = writers[k]
<1> DEFINE a == [writers EXCEPT ![Top] = w]
           b == <<v>>
<1>1. /\ a \in Seq(WriterType) /\ Len(a) = Top /\ a[Top] = w
      /\ \A k \in 1 .. Top - 1 : a[k] = writers[k]
  <2>1. Replaced(a, w)
    BY DEF Replaced
  <2> HIDE DEF a
  <2> QED
    BY <2>1, ReplaceTop
<1>2. b \in Seq(WriterType) /\ Len(b) = 1 /\ b[1] = v
  <2> HIDE DEF WriterType
  <2> QED
    OBVIOUS
<1>3. Top \in Nat /\ Top >= 1
  BY TopIs
<1> HIDE DEF a, b
<1>4. /\ a \o b \in Seq(WriterType) /\ Len(a \o b) = Len(a) + Len(b)
      /\ \A i \in 1 .. Len(a) + Len(b) : (a \o b)[i] = IF i <= Len(a) THEN a[i] ELSE b[i - Len(a)]
  BY <1>1, <1>2, ConcatProperties
<1>5. ws = a \o b
  BY DEF a, b, Pushed
<1>6. /\ ws \in Seq(WriterType) /\ Len(ws) = Top + 1
      /\ \A i \in 1 .. Top + 1 : ws[i] = IF i <= Top THEN a[i] ELSE b[i - Top]
  BY <1>1, <1>2, <1>4, <1>5
<1>7. ws[Top] = w /\ ws[Top + 1] = v
  <2>1. Top + 1 \in 1 .. Top + 1 /\ ~(Top + 1 <= Top) /\ Top + 1 - Top = 1 /\ Top \in 1 .. Top + 1 /\ Top <= Top
    BY <1>3
  <2> QED
    BY <1>1, <1>2, <1>6, <2>1
<1>8. ASSUME NEW k \in 1 .. Top - 1 PROVE ws[k] = writers[k]
  <2>1. k \in 1 .. Top + 1 /\ k <= Top
    BY <1>3
  <2> QED
    BY <1>1, <1>6, <2>1
<1> QED
  BY <1>6, <1>7, <1>8

\* The innermost writer has gone.
LEMMA PopWriter ==
  ASSUME WriterInv(data, writers), Top > 1, NEW p \in WriterType,
         NEW ws, Popped(ws, p)
  PROVE  /\ ws \in Seq(WriterType) /\ Len(ws) = Top - 1 /\ ws[Top - 1] = p
         /\ \A k \in 1 .. Top - 2 : ws[k] = writers[k]
<1> DEFINE f == Front(writers)
           n == Top - 1
<1>1. writers \in Seq(WriterType) /\ Len(writers) = Top /\ Top \in Nat
      /\ \A k \in 1 .. Top : writers[k] \in WriterType
  BY TopIs
<1>2. n \in Nat /\ n >= 1 /\ Top = n + 1
  BY <1>1
<1>3. f \in Seq(WriterType) /\ Len(f) = n /\ \A k \in 1 .. n : f[k] = writers[k]
  <2>1. f = SubSeq(writers, 1, n)
    BY <1>1 DEF Front
  <2> HIDE DEF n, f
  <2>2. 1 \in Int /\ n \in Int /\ 1 <= n /\ n - 1 + 1 = n
    BY <1>2
  <2>3. \A i \in 1 .. n : writers[i] \in WriterType
    BY <1>1, <1>2
  <2>4. /\ SubSeq(writers, 1, n) \in Seq(WriterType)
        /\ Len(SubSeq(writers, 1, n)) = IF 1 <= n THEN n - 1 + 1 ELSE 0
        /\ \A i \in 1 .. n - 1 + 1 : SubSeq(writers, 1, n)[i] = writers[1 + i - 1]
    BY <2>2, <2>3, SubSeqProperties
  <2>5. \A i \in 1 .. n : 1 + i - 1 = i /\ i \in 1 .. n - 1 + 1
    BY <1>2
  <2> QED
    BY <2>1, <2>2, <2>4, <2>5
<1> HIDE DEF f, n
<1>4. n \in 1 .. Len(f)
  BY <1>2, <1>3
<1>5. /\ [f EXCEPT ![n] = p] \in Seq(WriterType) /\ Len([f EXCEPT ![n] = p]) = Len(f)
      /\ \A j \in 1 .. Len(f) : [f EXCEPT ![n] = p][j] = IF j = n THEN p ELSE f[j]
  BY <1>3, <1>4, ExceptSeq
<1>6. ws = [f EXCEPT ![n] = p]
  BY DEF f, n, Popped
<1>7. \A k \in 1 .. n - 1 : ws[k] = writers[k]
  BY <1>2, <1>3, <1>5, <1>6
<1>8. Top - 2 = n - 1 /\ Top - 1 = n
  BY <1>2
<1> QED
  BY <1>3, <1>4, <1>5, <1>6, <1>7, <1>8

\* What is written when a submessage with the tag t is opened.
OpeningOf(t) == HeadOf(t) \o Zeros

Unharmed == data' = data /\ writers' = writers

LEMMA ZerosAre ==
  Zeros \in Seq(Byte) /\ Len(Zeros) = ReserveBytes /\ ReserveBytes \in Nat /\ ReserveBytes >= 1
<1>1. ReserveBytes \in Nat /\ ReserveBytes >= 1
  BY CapacityIs, Widths
<1>2. 0 \in Byte
  BY Widths DEF Byte
<1> HIDE DEF Byte
<1> QED
  BY <1>1, <1>2 DEF Zeros

LEMMA OpeningIs ==
  ASSUME NEW t \in SubmessageTags
  PROVE  /\ OpeningOf(t) \in Seq(Byte) /\ Len(OpeningOf(t)) = Len(HeadOf(t)) + ReserveBytes
         /\ HeadOf(t) \in Seq(Byte) /\ Len(HeadOf(t)) \in Nat \ {0}
BY HeadIs, ZerosAre, Join DEF OpeningOf

OpenFails(t, n) ==
  /\ n \in 0 .. Len(HeadOf(t)) /\ data' = data \o Slice(OpeningOf(t), 0, n)
  /\ Len(data) + n <= Capacity /\ outcome' = "threw"
  /\ writers' = [writers EXCEPT ![Top] = [Writer EXCEPT !.rollbackPos = Len(data)]]

Opens(t) ==
  /\ data' = data \o OpeningOf(t) /\ Len(data) + Len(OpeningOf(t)) <= Capacity
  /\ outcome' = outcome
  /\ writers' = [writers EXCEPT ![Top] =
                   [[Writer EXCEPT !.rollbackPos = Len(data)]
                      EXCEPT !.pos = Len(data) + Len(OpeningOf(t))]]
                \o <<NewWriter(Schema[t])>>

LEMMA OpenIs ==
  ASSUME WriterInv(data, writers), NEW t \in SubmessageTags, OpenSubmessage(t)
  PROVE  /\ Writer.kind = "message" /\ outcome = "fine"
         /\ \/ outcome' = "aborted" /\ Unharmed
            \/ \E n : OpenFails(t, n)
            \/ Opens(t)
<1> DEFINE key == KeyChunks(t, LengthDelimited)
           chunks == key \o <<Zeros>>
           z == OpeningOf(t)
           b == AppendAll(chunks)
           h == HeadOf(t)
<1>1. z \in Seq(Byte) /\ Len(z) = Len(h) + ReserveBytes /\ h \in Seq(Byte) /\ Len(h) \in Nat
  BY OpeningIs
<1>2. Cuts(key, h) /\ Cuts(<<Zeros>>, Zeros)
  BY HeadIs, TypesAre, KeyText, ZerosAre, CutsOne DEF HeadOf
<1>3. Cuts(chunks, z)
  <2> HIDE DEF key
  <2> QED
    BY <1>2, CutsJoin DEF OpeningOf
<1>4. chunks[Len(chunks)] = Zeros
  <2> DEFINE S == Seq(Byte)
             v == <<Zeros>>
  <2>1. key \in Seq(S) /\ Zeros \in S
    BY <1>2, ZerosAre DEF Cuts
  <2> HIDE DEF S, key
  <2>2. v \in Seq(S) /\ Len(v) = 1 /\ v[1] = Zeros /\ Len(key) \in Nat
    BY <2>1
  <2> HIDE DEF v
  <2>3. /\ Len(key \o v) = Len(key) + Len(v)
        /\ \A i \in 1 .. Len(key) + Len(v) :
             (key \o v)[i] = IF i <= Len(key) THEN key[i] ELSE v[i - Len(key)]
    BY <2>1, <2>2, ConcatProperties
  <2>4. /\ Len(key) + Len(v) \in 1 .. Len(key) + Len(v) /\ ~(Len(key) + Len(v) <= Len(key))
        /\ Len(key) + Len(v) - Len(key) = 1
    BY <2>2
  <2> QED
    BY <2>2, <2>3, <2>4 DEF v
<1>5. PICK n \in 0 .. Len(z) :
         /\ b.bytes = data \o Slice(z, 0, n) /\ Len(data) + n <= Capacity
         /\ b.full \in BOOLEAN
         /\ b.full => n < Len(z) /\ n + Len(chunks[Len(chunks)]) <= Len(z)
         /\ ~b.full => n = Len(z)
  BY <1>3, TopIs, CapacityIs, AppendAllIs
<1> HIDE DEF chunks, z, h
<1>6. Writer.kind = "message" /\ outcome = "fine"
  BY DEF OpenSubmessage
<1>7. CASE Assertion(Stale)
  BY <1>6, <1>7 DEF Assertion, Unharmed
<1>8. CASE b.full /\ data' = b.bytes /\ outcome' = "threw"
           /\ writers' = [writers EXCEPT ![Top] = [Writer EXCEPT !.rollbackPos = Len(data)]]
  <2>1. n \in 0 .. Len(h)
    BY <1>1, <1>4, <1>5, <1>8, ZerosAre
  <2>2. OpenFails(t, n)
    BY <1>5, <1>8, <2>1 DEF OpenFails, h, z
  <2> QED
    BY <1>6, <2>2
<1>9. CASE ~b.full /\ data' = b.bytes /\ outcome' = outcome
           /\ writers' = [writers EXCEPT ![Top] =
                            [[Writer EXCEPT !.rollbackPos = Len(data)] EXCEPT !.pos = Len(b.bytes)]]
                         \o <<NewWriter(Schema[t])>>
  <2>1. Slice(z, 0, n) = z /\ n = Len(z)
    BY <1>1, <1>5, <1>9, SliceAll
  <2>2. b.bytes = data \o z /\ Len(data) + Len(z) <= Capacity
    BY <1>5, <2>1
  <2>3. Len(b.bytes) = Len(data) + Len(z)
    BY <1>1, <2>2, TopIs, Join
  <2> HIDE DEF b
  <2>4. Opens(t)
    BY <1>9, <2>2, <2>3 DEF Opens, z
  <2> QED
    BY <1>6, <2>4
<1> QED
  BY <1>5, <1>7, <1>8, <1>9 DEF OpenSubmessage, chunks, b

\* The same with a known size.
HeaderOf(t) == EncodeVarint(Key(t, LengthDelimited)) \o EncodeVarint(Width(Schema[t]))

KnownFails(t, n) ==
  /\ n \in 0 .. Len(HeaderOf(t)) - 1 /\ data' = data \o Slice(HeaderOf(t), 0, n)
  /\ Len(data) + n <= Capacity /\ outcome' = "threw"
  /\ writers' = [writers EXCEPT ![Top] = [Writer EXCEPT !.rollbackPos = SizeIsKnown]]

KnownOpens(t) ==
  /\ data' = data \o HeaderOf(t) /\ Len(data) + Len(HeaderOf(t)) <= Capacity
  /\ outcome' = outcome
  /\ writers' = [writers EXCEPT ![Top] =
                   [[Writer EXCEPT !.rollbackPos = SizeIsKnown]
                      EXCEPT !.pos = Len(data) + Len(HeaderOf(t))]]
                \o <<NewWriter(Schema[t])>>

LEMMA OpenKnownIs ==
  ASSUME WriterInv(data, writers), NEW t \in Tag, OpenKnownSize(t, 1)
  PROVE  /\ Writer.kind = "message" /\ outcome = "fine" /\ Schema[t] \in {"fixeds32", "fixeds64"}
         /\ HeaderOf(t) \in Seq(Byte)
         /\ \/ outcome' = "aborted" /\ Unharmed
            \/ \E n : KnownFails(t, n)
            \/ KnownOpens(t)
<1> DEFINE w == Width(Schema[t])
           m == 1 * w
           chunks == LengthChunks(t, m)
           z == HeaderOf(t)
           b == AppendAll(chunks)
<1>1. w \in Nat /\ w \in 0 .. ShortWord - 1
  BY WidthIs
<1>2. m = w
  <2> HIDE DEF w
  <2> QED
    BY <1>1
<1>3. Cuts(chunks, z) /\ z \in Seq(Byte)
  <2> HIDE DEF w, m
  <2>1. Cuts(LengthChunks(t, w), EncodeVarint(Key(t, LengthDelimited)) \o EncodeVarint(w))
        /\ EncodeVarint(Key(t, LengthDelimited)) \o EncodeVarint(w) \in Seq(Byte)
    BY <1>1, LengthText
  <2> QED
    BY <1>2, <2>1, Zenon DEF HeaderOf, w
<1>5. PICK n \in 0 .. Len(z) :
         /\ b.bytes = data \o Slice(z, 0, n) /\ Len(data) + n <= Capacity
         /\ b.full \in BOOLEAN
         /\ b.full => n < Len(z) /\ n + Len(chunks[Len(chunks)]) <= Len(z)
         /\ ~b.full => n = Len(z)
  BY <1>3, TopIs, CapacityIs, AppendAllIs
<1> HIDE DEF chunks, z
<1>6. Writer.kind = "message" /\ outcome = "fine" /\ Schema[t] \in {"fixeds32", "fixeds64"}
  BY DEF OpenKnownSize
<1>7. CASE Assertion(Stale)
  BY <1>3, <1>6, <1>7 DEF Assertion, Unharmed, z
<1>8. CASE b.full /\ data' = b.bytes /\ outcome' = "threw"
           /\ writers' = [writers EXCEPT ![Top] = [Writer EXCEPT !.rollbackPos = SizeIsKnown]]
  <2>1. n \in 0 .. Len(z) - 1
    BY <1>3, <1>5, <1>8
  <2>2. KnownFails(t, n)
    BY <1>5, <1>8, <2>1 DEF KnownFails, z
  <2> QED
    BY <1>3, <1>6, <2>2 DEF z
<1>9. CASE ~b.full /\ data' = b.bytes /\ outcome' = outcome
           /\ writers' = [writers EXCEPT ![Top] =
                            [[Writer EXCEPT !.rollbackPos = SizeIsKnown] EXCEPT !.pos = Len(b.bytes)]]
                         \o <<NewWriter(Schema[t])>>
  <2>1. Slice(z, 0, n) = z /\ n = Len(z)
    BY <1>3, <1>5, <1>9, SliceAll
  <2>2. b.bytes = data \o z /\ Len(data) + Len(z) <= Capacity
    BY <1>5, <2>1
  <2>3. Len(b.bytes) = Len(data) + Len(z)
    BY <1>3, <2>2, TopIs, Join
  <2> HIDE DEF b
  <2>4. KnownOpens(t)
    BY <1>9, <2>2, <2>3 DEF KnownOpens, z
  <2> QED
    BY <1>3, <1>6, <2>4 DEF z
<1> QED
  BY <1>5, <1>7, <1>8, <1>9 DEF OpenKnownSize, chunks, b, m, w

\* The innermost submessage goes: the bytes in front of its key, and f.
Closes(f) ==
  /\ f \in Seq(Byte) /\ data' = Slice(data, 0, Parent.rollbackPos) \o f
  /\ Leave([Parent EXCEPT !.pos = 0])

Payload == Slice(data, Parent.pos, Len(data))

LEMMA ParentIs ==
  ASSUME WriterInv(data, writers), Top > 1
  PROVE  /\ Parent \in WriterType /\ Parent.kind = "message"
         /\ HasMark(data, writers, Top - 1) \/ IsSized(writers, Top - 1)
<1>1. Top - 1 \in 1 .. Len(writers) - 1 /\ Top - 1 \in 1 .. Top
  BY TopIs DEF Top
<1> QED
  BY <1>1, TopIs DEF WriterInv, Parent

LEMMA MarkedParent ==
  ASSUME WriterInv(data, writers), Top > 1, NEW t \in SubmessageTags,
         Marked(data, writers, Top - 1, t), NEW at, at = Parent.rollbackPos + Len(HeadOf(t))
  PROVE  /\ Parent.rollbackPos \in Nat /\ at \in Nat /\ Parent.pos \in Nat /\ Parent.pos # 0
         /\ Parent.rollbackPos <= at /\ at = Parent.pos - ReserveBytes /\ Parent.pos <= Len(data)
         /\ at <= Parent.pos /\ at <= Len(data)
         /\ Slice(data, Parent.rollbackPos, at) = HeadOf(t)
         /\ \A k \in 1 .. Top - 2 : writers[k].pos <= Parent.rollbackPos
<1> DEFINE k == Top - 1
<1>1. Marked(data, writers, k, t) /\ Parent = writers[k] /\ k - 1 = Top - 2
  BY TopIs DEF Parent
<1> HIDE DEF k
<1>2. Len(HeadOf(t)) \in Nat \ {0} /\ ReserveBytes \in Nat /\ Len(data) \in Nat
  BY HeadIs, ZerosAre, TopIs
<1>3. /\ Parent.rollbackPos \in Nat /\ \A j \in 1 .. Top - 2 : writers[j].pos <= Parent.rollbackPos
      /\ Parent.pos = Parent.rollbackPos + Len(HeadOf(t)) + ReserveBytes /\ Parent.pos <= Len(data)
      /\ Slice(data, Parent.rollbackPos, Parent.rollbackPos + Len(HeadOf(t))) = HeadOf(t)
  BY <1>1 DEF Marked
<1> QED
  BY <1>2, <1>3

LEMMA RollbackIs ==
  ASSUME WriterInv(data, writers), Top > 1, HasMark(data, writers, Top - 1), RollbackSubmessage
  PROVE  Closes(<<>>)
<1>1. PICK t \in SubmessageTags : Marked(data, writers, Top - 1, t)
  BY DEF HasMark
<1> DEFINE p == Parent.rollbackPos
<1>2. p \in Nat /\ p <= Len(data)
  <2> DEFINE at == p + Len(HeadOf(t))
  <2>1. p \in Nat /\ at \in Nat /\ p <= at /\ at <= Len(data)
    BY <1>1, MarkedParent
  <2> HIDE DEF at, p
  <2> QED
    BY <2>1, TopIs
<1>3. data' = SubSeq(data, 1, p) /\ Leave([Parent EXCEPT !.pos = 0])
  BY DEF RollbackSubmessage
<1> HIDE DEF p
<1>4. Slice(data, 0, p) = SubSeq(data, 1, p)
  BY DEF Slice
<1>5. Slice(data, 0, p) \in Seq(Byte)
  <2>1. 0 \in Nat /\ 0 <= p
    BY <1>2
  <2> QED
    BY <1>2, <2>1, TopIs, SliceIs
<1>6. Slice(data, 0, p) \o <<>> = Slice(data, 0, p) /\ <<>> \in Seq(Byte)
  <2> HIDE DEF Byte
  <2> QED
    BY <1>5, ConcatEmptySeq
<1> QED
  BY <1>3, <1>4, <1>6, Zenon DEF Closes, p

LEMMA CommitIs ==
  ASSUME WriterInv(data, writers), Top > 1, NEW t \in SubmessageTags,
         Marked(data, writers, Top - 1, t), Parent.pos < Len(data), CommitSubmessage
  PROVE  /\ Payload \in Seq(Byte) /\ Len(Payload) = Len(data) - Parent.pos
         /\ Closes(Field(t, LengthDelimited, Payload)) /\ Len(data)' <= Capacity
<1> DEFINE p == Parent.rollbackPos
           at == p + Len(HeadOf(t))
           q == Parent.pos
           n == Len(data)
           m == n - q
           l == EncodeVarint(m)
           h == HeadOf(t)
           x == Slice(data, 0, p)
<1>1. /\ p \in Nat /\ at \in Nat /\ q \in Nat /\ p <= at /\ at = q - ReserveBytes
      /\ q <= n /\ at <= n /\ Slice(data, p, at) = h
  BY MarkedParent
<1>2. n \in Nat /\ n <= Capacity /\ data \in Seq(Byte) /\ q < n /\ Capacity \in Nat
      /\ ReserveBytes \in Nat
  BY TopIs, CapacityIs, ZerosAre
<1>3. h \in Seq(Byte)
  BY OpeningIs
<1>5. data' = (SubSeq(data, 1, at) \o l) \o Payload /\ Leave([Parent EXCEPT !.pos = 0])
  <2> DEFINE a == Parent.pos - ReserveBytes
  <2>1. a = at
    BY <1>1
  <2>2. data' = (SubSeq(data, 1, a) \o l) \o Payload /\ Leave([Parent EXCEPT !.pos = 0])
    BY DEF CommitSubmessage, Payload, Slice
  <2> QED
    BY <2>1, <2>2, Zenon
<1> HIDE DEF p, at, q, n, h
<1>6. m \in Nat /\ m > 0 /\ m <= Capacity
  BY <1>1, <1>2
<1>7. m \in 0 .. Word - 1 /\ m < Power[ReserveBytes - 1]
      /\ ReserveBytes - 1 \in 1 .. MaxVarintLength
  <2>1. ReserveBytes \in 1 .. MaxVarintLength /\ Capacity < Power[ReserveBytes - 1]
        /\ MaxVarintLength \in Nat /\ Word \in Nat
    BY CapacityIs, Widths
  <2>2. ReserveBytes - 1 \in 0 .. MaxVarintLength /\ MaxVarintLength - 1 \in 0 .. MaxVarintLength
        /\ ReserveBytes - 1 <= MaxVarintLength - 1
    BY <2>1
  <2>3. Power[ReserveBytes - 1] \in Nat /\ Power[MaxVarintLength - 1] \in Nat
    BY <2>2, Widths
  <2>4. m < Power[ReserveBytes - 1]
    BY <1>2, <1>6, <2>1, <2>3
  <2>5. ReserveBytes - 1 # 0
    <3> SUFFICES ASSUME ReserveBytes - 1 = 0 PROVE FALSE
      OBVIOUS
    <3>1. Power[ReserveBytes - 1] = 1
      BY PowerIs
    <3> QED
      BY <1>6, <2>4, <3>1
  <2>6. Power[ReserveBytes - 1] <= Power[MaxVarintLength - 1]
    <3> DEFINE i == ReserveBytes - 1
               j == MaxVarintLength - 1
    <3>1. i \in 0 .. MaxVarintLength /\ j \in 0 .. MaxVarintLength /\ i <= j
      BY <2>2
    <3> HIDE DEF i, j
    <3>2. Power[i] <= Power[j]
      BY <3>1, PowerMonotone
    <3> QED
      BY <3>2 DEF i, j
  <2>7. Power[MaxVarintLength - 1] < Word
    BY VarintAssumption
  <2>8. m < Word
    BY <1>6, <2>1, <2>3, <2>4, <2>6, <2>7
  <2> QED
    BY <1>6, <2>1, <2>2, <2>4, <2>5, <2>8
<1>8. l \in Seq(Byte) /\ Len(l) = LengthOfVarint(m)
  <2> HIDE DEF m
  <2> QED
    BY <1>7, EncodeIs
<1>9. Len(l) <= ReserveBytes - 1 /\ Len(l) \in Nat
  <2> DEFINE i == ReserveBytes - 1
  <2>1. i \in 1 .. MaxVarintLength /\ m < Power[i]
    BY <1>7
  <2> HIDE DEF i, m
  <2>2. LengthOfVarint(m) <= i
    BY <1>6, <2>1, LengthBound
  <2> QED
    BY <1>8, <2>2 DEF i
<1>10. x \in Seq(Byte) /\ Len(x) = p
  <2>1. 0 \in Nat /\ 0 <= p /\ p <= n /\ p - 0 = p
    BY <1>1, <1>2
  <2> QED
    BY <1>1, <1>2, <2>1, SliceIs DEF n
<1>11. Payload \in Seq(Byte) /\ Len(Payload) = m
  <2>1. Slice(data, q, n) \in Seq(Byte) /\ Len(Slice(data, q, n)) = n - q
    <3>1. n <= Len(data)
      BY <1>2 DEF n
    <3> QED
      BY <1>1, <1>2, <3>1, SliceIs
  <2> QED
    BY <2>1 DEF Payload, q, n
<1>12. SubSeq(data, 1, at) = x \o h
  <2>1. Slice(data, 0, p) \o Slice(data, p, at) = Slice(data, 0, at)
    <3>1. /\ data \in Seq(Byte) /\ 0 \in Nat /\ p \in Nat /\ at \in Nat
          /\ 0 <= p /\ p <= at /\ at <= Len(data)
      BY <1>1, <1>2 DEF n
    <3> QED
      BY ONLY <3>1, SliceJoin
  <2>2. Slice(data, 0, at) = SubSeq(data, 1, at)
    BY DEF Slice
  <2> QED
    BY <1>1, <2>1, <2>2, Zenon
<1> DEFINE f == (h \o l) \o Payload
<1>13. f = Field(t, LengthDelimited, Payload)
  BY <1>11 DEF Field, FieldBytes, h, HeadOf
<1> HIDE DEF x, l, m
<1>14. h \o l \in Seq(Byte) /\ Len(h \o l) = Len(h) + Len(l)
  BY <1>3, <1>8, Join
<1>15. f \in Seq(Byte) /\ Len(f) = Len(h) + Len(l) + m
  <2> DEFINE k == h \o l
  <2> HIDE DEF k
  <2> QED
    BY <1>11, <1>14, Join DEF k
<1>16. ((x \o h) \o l) \o Payload = x \o f
  <2> HIDE DEF Byte, f
  <2>1. (x \o h) \o l = x \o (h \o l)
    BY <1>3, <1>8, <1>10, ConcatAssociative
  <2>2. (x \o (h \o l)) \o Payload = x \o ((h \o l) \o Payload)
    <3> DEFINE k == h \o l
    <3>1. k \in Seq(Byte)
      BY <1>14
    <3> HIDE DEF k
    <3>2. (x \o k) \o Payload = x \o (k \o Payload)
      BY <1>10, <1>11, <3>1, ConcatAssociative
    <3> QED
      BY <3>2 DEF k
  <2> QED
    BY <2>1, <2>2, Zenon DEF f
<1>17. data' = x \o f
  BY <1>5, <1>12, <1>16, Zenon
<1>18. Len(data') <= Capacity
  <2> HIDE DEF f
  <2>1. Len(x \o f) = p + (Len(h) + Len(l) + m)
    BY <1>10, <1>15, Join
  <2>2. at = p + Len(h) /\ m = n - q
    BY DEF at, m, h
  <2>3. Len(h) \in Nat
    BY OpeningIs DEF h
  <2> QED
    BY <1>1, <1>2, <1>6, <1>9, <1>17, <2>1, <2>2, <2>3
<1>19. Closes(f)
  <2> HIDE DEF f
  <2> QED
    BY <1>5, <1>15, <1>17, Zenon DEF Closes, x, p
<1> QED
  BY <1>11, <1>13, <1>18, <1>19 DEF m, n, q

CommitsAs(t) ==
  /\ Marked(data, writers, Top - 1, t) /\ Parent.pos < Len(data)
  /\ Payload \in Seq(Byte) /\ Len(Payload) = Len(data) - Parent.pos
  /\ Closes(Field(t, LengthDelimited, Payload)) /\ Len(data') <= Capacity

LEMMA CloseIs ==
  ASSUME WriterInv(data, writers), Top > 1, CloseSubmessage
  PROVE  \/ IsSized(writers, Top - 1) /\ data' = data /\ Leave(Parent)
         \/ HasMark(data, writers, Top - 1) /\ Parent.pos = Len(data) /\ Closes(<<>>)
         \/ \E t \in SubmessageTags : CommitsAs(t)
<1>1. CASE IsSized(writers, Top - 1)
  <2>1. Parent.rollbackPos = SizeIsKnown
    BY <1>1 DEF IsSized, Parent
  <2> QED
    BY <1>1, <2>1 DEF CloseSubmessage
<1>2. CASE HasMark(data, writers, Top - 1)
  <2>1. PICK t \in SubmessageTags : Marked(data, writers, Top - 1, t)
    BY <1>2 DEF HasMark
  <2> DEFINE at == Parent.rollbackPos + Len(HeadOf(t))
  <2>2. Parent.rollbackPos \in Nat /\ Parent.pos \in Nat /\ Parent.pos # 0 /\ Parent.pos <= Len(data)
    <3>1. at = Parent.rollbackPos + Len(HeadOf(t))
      OBVIOUS
    <3> HIDE DEF at
    <3> QED
      BY <2>1, <3>1, MarkedParent
  <2>3. ~(Parent.pos = 0 \/ Parent.rollbackPos = SizeIsKnown)
    BY <2>2 DEF SizeIsKnown
  <2>4. CASE Len(data) = Parent.pos
    <3>1. RollbackSubmessage
      BY <2>3, <2>4 DEF CloseSubmessage
    <3> QED
      BY <1>2, <2>4, <3>1, RollbackIs
  <2>5. CASE Len(data) # Parent.pos
    <3>1. CommitSubmessage
      BY <2>3, <2>5 DEF CloseSubmessage
    <3>2. Parent.pos < Len(data)
      BY <2>2, <2>5, TopIs
    <3> QED
      BY <2>1, <3>1, <3>2, CommitIs DEF CommitsAs
  <2> QED
    BY <2>4, <2>5
<1> QED
  BY <1>1, <1>2, ParentIs

LEMMA LeaveKeeps ==
  ASSUME WriterInv(data, writers), Top > 1, HasMark(data, writers, Top - 1),
         NEW f, Closes(f), Len(data') <= Capacity
  PROVE  WriterInv(data', writers')
<1>1. PICK t \in SubmessageTags : Marked(data, writers, Top - 1, t)
  BY DEF HasMark
<1> DEFINE p == Parent.rollbackPos
           at == p + Len(HeadOf(t))
           x == Slice(data, 0, p)
           n == Top - 2
           d2 == data'
           ws2 == writers'
           w == [Parent EXCEPT !.pos = 0]
<1>2. /\ p \in Nat /\ at \in Nat /\ p <= at /\ at <= Len(data)
      /\ \A k \in 1 .. n : writers[k].pos <= p
  <2>1. at = Parent.rollbackPos + Len(HeadOf(t))
    OBVIOUS
  <2> HIDE DEF at
  <2> QED
    BY <1>1, <2>1, MarkedParent
<1>3. Len(data) \in Nat /\ data \in Seq(Byte) /\ Top \in Nat /\ Len(writers) = Top /\ n \in Nat
  BY TopIs
<1>4. f \in Seq(Byte) /\ d2 = x \o f /\ Leave(w)
  BY Zenon DEF Closes
<1> HIDE DEF p, at, n
<1>5. x \in Seq(Byte) /\ Len(x) = p
  <2>1. 0 \in Nat /\ 0 <= p /\ p <= Len(data) /\ p - 0 = p
    BY <1>2, <1>3
  <2> QED
    BY <1>2, <1>3, <2>1, SliceIs
<1>6. SamePrefix(data, x, p)
  <2>1. p \in 0 .. Len(data) /\ p \in 0 .. p
    BY <1>2, <1>3
  <2> QED
    BY <1>3, <2>1, SamePrefixOfSlice
<1> HIDE DEF x
<1>7. SamePrefix(x, d2, p) /\ d2 \in Seq(Byte)
  <2>1. p \in 0 .. Len(x)
    BY <1>2, <1>5
  <2> QED
    BY <1>4, <1>5, <2>1, SamePrefixOfJoin, Join
<1>8. SamePrefix(data, d2, p)
  BY <1>6, <1>7 DEF SamePrefix
<1>9. w \in WriterType
  BY ParentIs DEF WriterType
<1>10. Popped(ws2, w)
  BY <1>4 DEF Leave, Popped
<1> HIDE DEF w, d2, ws2
<1>11. /\ ws2 \in Seq(WriterType) /\ Len(ws2) = Top - 1
       /\ \A k \in 1 .. n : ws2[k] = writers[k]
  <2>1. /\ ws2 \in Seq(WriterType) /\ Len(ws2) = Top - 1
        /\ \A k \in 1 .. Top - 2 : ws2[k] = writers[k]
    BY <1>9, <1>10, PopWriter, Zenon
  <2> QED
    BY <2>1, Zenon DEF n
<1>12. WriterInv(d2, ws2)
  <2>1. /\ WriterInv(data, writers) /\ Len(writers) > 1 /\ Len(d2) <= Capacity
        /\ n = Len(writers) - 2 /\ Len(ws2) = Len(writers) - 1
    BY <1>3, <1>11 DEF n, d2
  <2> QED
    BY ONLY <1>2, <1>3, <1>7, <1>8, <1>11, <2>1, CloseKeeps
<1> QED
  BY <1>12 DEF d2, ws2

LEMMA RollbackKeeps ==
  ASSUME WriterInv(data, writers), Top > 1, HasMark(data, writers, Top - 1), Closes(<<>>)
  PROVE  WriterInv(data', writers')
<1>1. PICK t \in SubmessageTags : Marked(data, writers, Top - 1, t)
  BY DEF HasMark
<1> DEFINE p == Parent.rollbackPos
           at == p + Len(HeadOf(t))
<1>2. p \in Nat /\ p <= at /\ at <= Len(data) /\ at \in Nat
  <2>1. at = Parent.rollbackPos + Len(HeadOf(t))
    OBVIOUS
  <2> HIDE DEF at
  <2> QED
    BY <1>1, <2>1, MarkedParent
<1>3. Len(data) \in Nat /\ data \in Seq(Byte) /\ Len(data) <= Capacity /\ Capacity \in Nat
  BY TopIs, CapacityIs
<1>4. data' = Slice(data, 0, p) \o <<>>
  BY DEF Closes
<1> HIDE DEF p, at
<1>5. Slice(data, 0, p) \in Seq(Byte) /\ Len(Slice(data, 0, p)) = p
  <2>1. 0 \in Nat /\ 0 <= p /\ p <= Len(data) /\ p - 0 = p
    BY <1>2, <1>3
  <2> QED
    BY <1>2, <1>3, <2>1, SliceIs
<1>6. Slice(data, 0, p) \o <<>> = Slice(data, 0, p)
  <2> HIDE DEF Byte
  <2> QED
    BY <1>5, ConcatEmptySeq
<1>7. Len(data') <= Capacity
  <2>1. Len(data') = p
    BY <1>4, <1>5, <1>6, Zenon
  <2> QED
    BY <1>2, <1>3, <2>1
<1> QED
  BY <1>7, LeaveKeeps

LEMMA LeaveSized ==
  ASSUME WriterInv(data, writers), Top > 1, IsSized(writers, Top - 1), data' = data, Leave(Parent)
  PROVE  WriterInv(data', writers')
<1> DEFINE n == Top - 2
           q == Len(data)
           ws2 == writers'
<1>1. Len(data) \in Nat /\ data \in Seq(Byte) /\ Len(data) <= Capacity /\ Top \in Nat /\ Len(writers) = Top /\ n \in Nat
      /\ writers \in Seq(WriterType)
  BY TopIs
<1>2. SamePrefix(data, data, q)
  BY <1>1 DEF SamePrefix
<1>3. Popped(ws2, Parent)
  BY DEF Leave, Popped
<1> HIDE DEF ws2
<1>4. /\ ws2 \in Seq(WriterType) /\ Len(ws2) = Top - 1
      /\ \A k \in 1 .. n : ws2[k] = writers[k]
  <2>1. Parent \in WriterType
    BY ParentIs
  <2> QED
    BY <1>3, <2>1, PopWriter, Zenon
<1>5. \A k \in 1 .. n : writers[k].pos <= q
  <2> SUFFICES ASSUME NEW k \in 1 .. n PROVE writers[k].pos <= q
    OBVIOUS
  <2>1. k \in 1 .. Len(writers) - 1 /\ k # Len(writers) - 1
    BY <1>1
  <2> QED
    BY <2>1, MarksAreInside DEF IsSized
<1>6. WriterInv(data, ws2)
  <2>1. /\ WriterInv(data, writers) /\ Len(writers) > 1 /\ q \in Nat
        /\ n = Len(writers) - 2 /\ Len(ws2) = Len(writers) - 1
    BY <1>1, <1>4
  <2> HIDE DEF n, q
  <2> QED
    BY ONLY <1>1, <1>2, <1>4, <1>5, <2>1, CloseKeeps
<1> QED
  BY <1>6 DEF ws2

LEMMA CloseKeepsInv ==
  ASSUME WriterInv(data, writers), Top > 1, CloseSubmessage
  PROVE  WriterInv(data', writers')
<1>1. CASE IsSized(writers, Top - 1) /\ data' = data /\ Leave(Parent)
  BY <1>1, LeaveSized
<1>2. CASE HasMark(data, writers, Top - 1) /\ Closes(<<>>)
  BY <1>2, RollbackKeeps
<1>3. ASSUME NEW t \in SubmessageTags, CommitsAs(t) PROVE WriterInv(data', writers')
  BY <1>3, LeaveKeeps DEF CommitsAs, HasMark
<1> QED
  BY <1>1, <1>2, <1>3, CloseIs

LEMMA BeginningIs ==
  ASSUME NEW s \in Seq(Byte), NEW n \in 0 .. Len(s)
  PROVE  Slice(s, 0, n) \in Seq(Byte) /\ Len(Slice(s, 0, n)) = n /\ n \in Nat
<1>1. 0 \in Nat /\ n \in Nat /\ 0 <= n /\ n <= Len(s) /\ n - 0 = n
  OBVIOUS
<1> QED
  BY <1>1, SliceIs

LEMMA AddKeeps ==
  ASSUME WriterInv(data, writers), NEW s, Adds(s)
  PROVE  WriterInv(data', writers')
<1>1. CASE data' = data /\ writers' = writers
  BY <1>1
<1>2. CASE \E n : GrowsBy(s, n)
  <2>1. PICK n : GrowsBy(s, n)
    BY <1>2
  <2> DEFINE e == Slice(s, 0, n)
  <2>2. e \in Seq(Byte) /\ Len(e) = n
    BY <2>1, BeginningIs DEF GrowsBy, Adds
  <2>3. data' = data \o e /\ Len(data) + Len(e) <= Capacity /\ writers' = writers
    BY <2>1, <2>2 DEF GrowsBy, Adds
  <2> HIDE DEF e
  <2>4. WriterInv(data \o e, writers)
    BY <2>2, <2>3, TopIs, GrowKeeps
  <2> QED
    BY <2>3, <2>4
<1> QED
  BY <1>1, <1>2 DEF Adds

LEMMA TopChanged ==
  ASSUME WriterInv(data, writers), NEW w \in WriterType, w.kind = Writer.kind,
         NEW e \in Seq(Byte), Len(data) + Len(e) <= Capacity, data' = data \o e,
         Replaced(writers', w)
  PROVE  WriterInv(data', writers')
<1> DEFINE ws2 == writers'
<1>1. Replaced(ws2, w)
  OBVIOUS
<1> HIDE DEF ws2
<1>2. /\ ws2 \in Seq(WriterType) /\ Len(ws2) = Top /\ ws2[Top] = w
      /\ \A k \in 1 .. Top - 1 : ws2[k] = writers[k]
  BY <1>1, ReplaceTop
<1>3. /\ Len(ws2) = Len(writers) /\ \A k \in 1 .. Len(writers) - 1 : ws2[k] = writers[k]
      /\ ws2[Len(writers)].kind = writers[Len(writers)].kind
  BY <1>2, TopIs DEF Top, Writer
<1>4. WriterInv(data \o e, ws2)
  BY <1>2, <1>3, GrowKeeps
<1> QED
  BY <1>4 DEF ws2

LEMMA NewWriterIs ==
  ASSUME NEW kind \in {"message"} \cup PackedKinds
  PROVE  NewWriter(kind) \in WriterType
BY DEF NewWriter, WriterType

\* The records that the steps give to the top writer.
LEMMA RecordsAre ==
  ASSUME NEW v \in WriterType, NEW r \in Int, NEW p \in Nat
  PROVE  /\ [v EXCEPT !.rollbackPos = r] \in WriterType
         /\ [v EXCEPT !.rollbackPos = r].kind = v.kind
         /\ [v EXCEPT !.rollbackPos = r].rollbackPos = r
         /\ [v EXCEPT !.rollbackPos = r].pos = v.pos
         /\ [v EXCEPT !.pos = p] \in WriterType
         /\ [v EXCEPT !.pos = p].kind = v.kind
         /\ [v EXCEPT !.pos = p].rollbackPos = v.rollbackPos
         /\ [v EXCEPT !.pos = p].pos = p
<1> DEFINE K == {"message"} \cup PackedKinds
<1> HIDE DEF K
<1>1. WriterType = [rollbackPos : Int, pos : Nat, kind : K]
  BY DEF WriterType, K
<1> QED
  BY <1>1

LEMMA OpenKeepsInv ==
  ASSUME WriterInv(data, writers), NEW t \in SubmessageTags, OpenSubmessage(t)
  PROVE  WriterInv(data', writers')
<1> DEFINE z == OpeningOf(t)
           L == Len(data)
<1>0. L \in Nat /\ L \in Int /\ Writer \in WriterType /\ Writer.kind = "message"
  BY TopIs, OpenIs
<1>1. z \in Seq(Byte) /\ Len(z) \in Nat /\ L + Len(z) \in Nat
  BY <1>0, OpeningIs
<1> DEFINE v == [Writer EXCEPT !.rollbackPos = L]
           w == [v EXCEPT !.pos = L + Len(z)]
           u == NewWriter(Schema[t])
<1>2. v \in WriterType /\ v.kind = "message" /\ v.rollbackPos = L
  <2> HIDE DEF L
  <2> QED
    BY <1>0, RecordsAre
<1>3. w \in WriterType /\ w.kind = "message" /\ w.rollbackPos = L /\ w.pos = L + Len(z)
  <2> DEFINE m == L + Len(z)
  <2>1. m \in Nat
    BY <1>1
  <2> HIDE DEF L, v, z, m
  <2>2. /\ [v EXCEPT !.pos = m] \in WriterType /\ [v EXCEPT !.pos = m].kind = v.kind
        /\ [v EXCEPT !.pos = m].rollbackPos = v.rollbackPos /\ [v EXCEPT !.pos = m].pos = m
    <3> DEFINE K == {"message"} \cup PackedKinds
    <3> HIDE DEF K
    <3>1. WriterType = [rollbackPos : Int, pos : Nat, kind : K]
      BY DEF WriterType, K
    <3> QED
      BY <1>2, <2>1, <3>1
  <2> QED
    BY <1>2, <2>2 DEF m
<1>4. u \in WriterType
  BY NewWriterIs DEF SubmessageTags, TagsOf
<1>5. CASE Unharmed
  BY <1>5 DEF Unharmed
<1>6. ASSUME NEW n, OpenFails(t, n) PROVE WriterInv(data', writers')
  <2> DEFINE e == Slice(z, 0, n)
  <2>1. n \in 0 .. Len(z)
    BY <1>6, OpeningIs, ZerosAre DEF OpenFails
  <2>2. e \in Seq(Byte) /\ Len(e) = n
    <3> HIDE DEF z
    <3> QED
      BY <1>1, <2>1, BeginningIs
  <2>3. data' = data \o e /\ Len(data) + Len(e) <= Capacity /\ Replaced(writers', v)
    BY <1>6, <2>2 DEF OpenFails, Replaced
  <2> HIDE DEF e, v
  <2> QED
    BY <1>0, <1>2, <2>2, <2>3, TopChanged
<1>7. CASE Opens(t)
  <2> DEFINE ws2 == writers'
  <2>1. data' = data \o z /\ Len(data) + Len(z) <= Capacity /\ Pushed(ws2, w, u)
    BY <1>7 DEF Opens, Pushed
  <2> HIDE DEF ws2, w, u, z
  <2>2. /\ ws2 \in Seq(WriterType) /\ Len(ws2) = Top + 1 /\ ws2[Top] = w
        /\ \A k \in 1 .. Top - 1 : ws2[k] = writers[k]
    BY <1>3, <1>4, <2>1, PushWriter
  <2>3. Top = Len(writers)
    BY TopIs
  <2>4. WriterInv(data \o z, ws2)
    <3>1. z = HeadOf(t) \o Zeros /\ writers[Len(writers)].kind = "message"
      BY <1>0, <2>3 DEF z, OpeningOf, Writer
    <3>2. /\ Len(ws2) = Len(writers) + 1 /\ \A k \in 1 .. Len(writers) - 1 : ws2[k] = writers[k]
          /\ ws2[Len(writers)].kind = "message" /\ ws2[Len(writers)].rollbackPos = Len(data)
          /\ ws2[Len(writers)].pos = Len(data) + Len(z)
      BY <1>3, <2>2, <2>3
    <3> QED
      BY <2>1, <2>2, <3>1, <3>2, OpenKeeps
  <2> QED
    BY <2>1, <2>4 DEF ws2
<1> QED
  BY <1>5, <1>6, <1>7, OpenIs

LEMMA OpenKnownKeepsInv ==
  ASSUME WriterInv(data, writers), NEW t \in Tag, OpenKnownSize(t, 1)
  PROVE  WriterInv(data', writers')
<1> DEFINE z == HeaderOf(t)
           L == Len(data)
<1>0. L \in Nat /\ Writer \in WriterType /\ Writer.kind = "message"
      /\ SizeIsKnown \in Int
  BY TopIs, OpenKnownIs DEF SizeIsKnown
<1>1. z \in Seq(Byte) /\ Len(z) \in Nat /\ L + Len(z) \in Nat
  <2>1. z \in Seq(Byte)
    BY OpenKnownIs
  <2> HIDE DEF z
  <2> QED
    BY <1>0, <2>1
<1> DEFINE v == [Writer EXCEPT !.rollbackPos = SizeIsKnown]
           w == [v EXCEPT !.pos = L + Len(z)]
           u == NewWriter(Schema[t])
<1>2. v \in WriterType /\ v.kind = "message" /\ v.rollbackPos = SizeIsKnown
  BY <1>0, RecordsAre
<1>3. w \in WriterType /\ w.kind = "message" /\ w.rollbackPos = SizeIsKnown
  <2> DEFINE m == L + Len(z)
  <2>1. m \in Nat
    BY <1>1
  <2> HIDE DEF L, v, z, m
  <2>2. /\ [v EXCEPT !.pos = m] \in WriterType /\ [v EXCEPT !.pos = m].kind = v.kind
        /\ [v EXCEPT !.pos = m].rollbackPos = v.rollbackPos /\ [v EXCEPT !.pos = m].pos = m
    <3> DEFINE K == {"message"} \cup PackedKinds
    <3> HIDE DEF K
    <3>1. WriterType = [rollbackPos : Int, pos : Nat, kind : K]
      BY DEF WriterType, K
    <3> QED
      BY <1>2, <2>1, <3>1
  <2> QED
    BY <1>2, <2>2 DEF m
<1>4. u \in WriterType /\ u.kind # "message"
  <2>1. Schema[t] \in {"message"} \cup PackedKinds /\ Schema[t] # "message"
    BY OpenKnownIs DEF PackedKinds
  <2> QED
    BY <2>1, NewWriterIs DEF NewWriter
<1>5. CASE Unharmed
  BY <1>5 DEF Unharmed
<1>6. ASSUME NEW n, KnownFails(t, n) PROVE WriterInv(data', writers')
  <2> DEFINE e == Slice(z, 0, n)
  <2>1. n \in 0 .. Len(z)
    BY <1>1, <1>6 DEF KnownFails
  <2>2. e \in Seq(Byte) /\ Len(e) = n
    <3> HIDE DEF z
    <3> QED
      BY <1>1, <2>1, BeginningIs
  <2>3. data' = data \o e /\ Len(data) + Len(e) <= Capacity /\ Replaced(writers', v)
    BY <1>6, <2>2 DEF KnownFails, Replaced
  <2> HIDE DEF e, v
  <2> QED
    BY <1>0, <1>2, <2>2, <2>3, TopChanged
<1>7. CASE KnownOpens(t)
  <2> DEFINE ws2 == writers'
  <2>1. data' = data \o z /\ Len(data) + Len(z) <= Capacity /\ Pushed(ws2, w, u)
    BY <1>7 DEF KnownOpens, Pushed
  <2> HIDE DEF ws2, w, u, z
  <2>2. /\ ws2 \in Seq(WriterType) /\ Len(ws2) = Top + 1 /\ ws2[Top] = w /\ ws2[Top + 1] = u
        /\ \A k \in 1 .. Top - 1 : ws2[k] = writers[k]
    BY <1>3, <1>4, <2>1, PushWriter
  <2>3. Top = Len(writers)
    BY TopIs
  <2>4. WriterInv(data \o z, ws2)
    <3>1. writers[Len(writers)].kind = "message"
      BY <1>0, <2>3 DEF Writer
    <3>2. /\ Len(ws2) = Len(writers) + 1 /\ \A k \in 1 .. Len(writers) - 1 : ws2[k] = writers[k]
          /\ ws2[Len(writers)].kind = "message" /\ ws2[Len(writers)].rollbackPos = SizeIsKnown
          /\ ws2[Len(writers) + 1].kind # "message"
      BY <1>3, <1>4, <2>2, <2>3
    <3> QED
      BY <1>1, <2>1, <2>2, <3>1, <3>2, OpenSizedKeeps
  <2> QED
    BY <2>1, <2>4 DEF ws2
<1> QED
  BY <1>5, <1>6, <1>7, OpenKnownIs

\* The writer's part of every step.
LEMMA WriterStepKeeps ==
  ASSUME WriterInv(data, writers), WriterNext
  PROVE  WriterInv(data', writers')
<1>0. data \in Seq(Byte) /\ Len(data) <= Capacity
  BY TopIs
<1>1. ASSUME NEW t \in Tag, \/ AddVarint(t) \/ AddBool(t) \/ AddFixed(t)
                            \/ AddBytes(t) \/ AddBytesVectored(t) \/ AddPackedFixed(t)
      PROVE  WriterInv(data', writers')
  BY <1>0, <1>1, AddVarintIs, AddBoolIs, AddFixedIs, AddBytesIs, AddBytesVectoredIs,
     AddPackedFixedIs, AddKeeps
<1>2. CASE AddElement
  BY <1>0, <1>2, AddElementIs, AddKeeps
<1>3. ASSUME NEW t \in Tag, OpenPacked(t) \/ OpenMessage(t) PROVE WriterInv(data', writers')
  <2>1. t \in SubmessageTags /\ OpenSubmessage(t)
    BY <1>3 DEF OpenPacked, OpenMessage, SubmessageTags, TagsOf
  <2> QED
    BY <2>1, OpenKeepsInv
<1>4. ASSUME NEW t \in Tag, OpenKnownSize(t, 1) PROVE WriterInv(data', writers')
  BY <1>4, OpenKnownKeepsInv
<1>5. CASE Destroy
  BY <1>5, CloseKeepsInv DEF Destroy
<1>6. CASE Commit
  BY <1>6, CloseKeepsInv DEF Commit, Assertion
<1>7. CASE Rollback
  <2>1. CASE data' = data /\ writers' = writers
    BY <2>1
  <2>2. CASE Parent.rollbackPos # SizeIsKnown /\ RollbackSubmessage
    <3>1. Top > 1
      BY <1>7 DEF Rollback
    <3>2. HasMark(data, writers, Top - 1)
      BY <2>2, <3>1, ParentIs DEF IsSized, Parent
    <3> QED
      BY <2>2, <3>1, <3>2, RollbackIs, RollbackKeeps
  <2> QED
    BY <1>7, <2>1, <2>2 DEF Rollback, Assertion
<1>8. CASE Catch
  BY <1>8 DEF Catch
<1> QED
  BY <1>1, <1>2, <1>3, <1>4, <1>5, <1>6, <1>7, <1>8 DEF WriterNext

-----------------------------------------------------------------------------
(* Reading a field.                                                        *)

LEMMA ReaderPlace ==
  ASSUME NEW t \in Seq(Byte), NEW r, Placed(t, r)
  PROVE  /\ r.begin \in Nat /\ r.from \in Nat /\ r.at \in Nat /\ r.end \in Nat /\ Len(t) \in Nat
         /\ r.begin <= r.from /\ r.from <= r.at /\ r.at <= r.end /\ r.end <= Len(t)
         /\ r.at <= Len(t)
<1>1. Len(t) \in Nat
  OBVIOUS
<1> QED
  BY <1>1 DEF Placed

\* The length of a field, and its payload: x is what get_len_and_skip comes to.
ReadsDelimited(t, r, x) ==
  \/ /\ x.error = "none" /\ x.at \in r.at .. r.end
     /\ x.value \in Nat /\ x.value <= x.at - r.at
     /\ FieldAt(t, r.from, x.at, x.value)
     /\ \A to \in r.from .. r.end : \A n : FieldAt(t, r.from, to, n) => n = x.value /\ to = x.at
  \/ x.error \in {"varint_too_long", "end_of_buffer"} /\ x.at \in r.at .. r.end /\ NoField(t, r)

\* Behind the length, one payload.
LEMMA DelimitedIs ==
  ASSUME NEW t \in Seq(Byte), NEW r, Placed(t, r), HasKey(t, r), r.type = LengthDelimited
  PROVE  \A to \in r.from .. r.end : \A n : FieldAt(t, r.from, to, n) => DelimitedAt(t, r.at, to, n)
<1> SUFFICES ASSUME NEW to \in r.from .. r.end, NEW n, FieldAt(t, r.from, to, n)
             PROVE  DelimitedAt(t, r.at, to, n)
  OBVIOUS
<1>1. r.at <= to /\ BodyAt(t, r.type, r.at, to, n)
  BY FieldIsBody
<1> QED
  BY <1>1, WireTypesDiffer DEF BodyAt

LEMMA LenAndSkipIs ==
  ASSUME text \in Seq(Byte), Placed(text, Reader), HasKey(text, Reader),
         Reader.type = LengthDelimited, NEW x, x = LenAndSkip
  PROVE  ReadsDelimited(text, Reader, x)
<1> DEFINE t == text
           r == Reader
           l == DecodeVarint(t, r.at, r.end)
           m == l.value % ShortWord
<1>0. /\ r.from \in Nat /\ r.at \in Nat /\ r.end \in Nat /\ Len(t) \in Nat
      /\ r.from <= r.at /\ r.at <= r.end /\ r.end <= Len(t) /\ r.at <= Len(t)
  BY ReaderPlace
<1>x. x = IF l.error # "none" THEN l
          ELSE IF r.end - l.at < m THEN Fails("end_of_buffer", l.at)
          ELSE Read(l.at + m, m)
  BY DEF LenAndSkip
<1>d. \/ /\ l = [error |-> "none", at |-> l.at, value |-> l.value]
         /\ l.at \in r.at + 1 .. r.end /\ VarintAt(t, r.at, l.at)
         /\ l.value = ValueOf(Slice(t, r.at, l.at)) /\ l.value \in 0 .. Word - 1
      \/ /\ l.error \in {"varint_too_long", "end_of_buffer"} /\ l.at = r.at
         /\ \A n \in r.at .. r.end : ~VarintAt(t, r.at, n)
  BY <1>0, DecodeIs
<1>t. t \in Seq(Byte) /\ Placed(t, r) /\ HasKey(t, r) /\ r.type = LengthDelimited
  OBVIOUS
<1> HIDE DEF t, r, l
<1>l. \A to \in r.from .. r.end : \A n : FieldAt(t, r.from, to, n) => DelimitedAt(t, r.at, to, n)
  BY <1>t, DelimitedIs
<1>1. CASE /\ l.error \in {"varint_too_long", "end_of_buffer"} /\ l.at = r.at
           /\ \A n \in r.at .. r.end : ~VarintAt(t, r.at, n)
  <2>1. ASSUME NEW to \in r.from .. r.end, NEW n, FieldAt(t, r.from, to, n) PROVE FALSE
    <3>1. PICK j \in r.at + 1 .. to : VarintAt(t, r.at, j)
      BY <1>l, <2>1 DEF DelimitedAt
    <3>2. j \in r.at .. r.end
      BY <1>0
    <3> QED
      BY <1>1, <3>1, <3>2
  <2>2. x = l /\ x.at \in r.at .. r.end
    BY <1>0, <1>1, <1>x
  <2> QED
    BY <1>1, <2>1, <2>2 DEF ReadsDelimited, NoField, t, r
<1>2. CASE /\ l = [error |-> "none", at |-> l.at, value |-> l.value]
           /\ l.at \in r.at + 1 .. r.end /\ VarintAt(t, r.at, l.at)
           /\ l.value = ValueOf(Slice(t, r.at, l.at)) /\ l.value \in 0 .. Word - 1
  <2> DEFINE j == l.at
  <2>1. l.error = "none" /\ j \in Nat /\ r.at + 1 <= j /\ j <= r.end
    BY <1>0, <1>2
  <2>2. m = Value32(t, r.at, j) /\ m \in Nat
    <3>1. m = Value32(t, r.at, j)
      BY <1>2 DEF Value32
    <3>2. l.value \in Nat
      BY <1>2, Widths
    <3>3. ShortWord \in Nat /\ ShortWord > 0
      BY Sizes
    <3>4. m \in 0 .. ShortWord - 1
      BY <3>2, <3>3, Division
    <3> HIDE DEF m
    <3> QED
      BY <3>1, <3>3, <3>4
  <2>3. ASSUME NEW to \in r.from .. r.end, NEW n, FieldAt(t, r.from, to, n)
        PROVE  n = m /\ n = to - j
    <3>1. PICK i \in r.at + 1 .. to : VarintAt(t, r.at, i) /\ Value32(t, r.at, i) = n /\ n = to - i
      BY ONLY <1>l, <2>3, to \in r.from .. r.end DEF DelimitedAt
    <3>2. i \in Nat /\ i <= Len(t) /\ r.at <= i /\ j <= Len(t) /\ r.at <= j
      BY <1>0, <2>1
    <3>3. i = j
      <4> HIDE DEF j
      <4>1. VarintAt(t, r.at, j)
        BY <1>2 DEF j
      <4> QED
        BY <1>0, <1>t, <2>1, <3>1, <3>2, <4>1, VarintUnique
    <3> QED
      BY <2>2, <3>1, <3>3
  <2> HIDE DEF m, j
  <2>4. CASE r.end - j < m
    <3>1. x = Fails("end_of_buffer", j)
      BY <1>x, <2>1, <2>4 DEF j
    <3>2. x.error = "end_of_buffer" /\ x.at = j
      BY <3>1 DEF Fails
    <3>3. ASSUME NEW to \in r.from .. r.end, NEW n, FieldAt(t, r.from, to, n) PROVE FALSE
      <4>1. n = m /\ n = to - j
        BY <2>3, <3>3
      <4> QED
        BY <1>0, <2>1, <2>2, <2>4, <4>1
    <3>4. NoField(t, r)
      BY <3>3 DEF NoField
    <3>5. j \in r.at .. r.end
      BY <1>0, <2>1
    <3> QED
      BY <3>2, <3>4, <3>5 DEF ReadsDelimited, t, r
  <2>5. CASE ~(r.end - j < m)
    <3>1. x = Read(j + m, m)
      BY <1>x, <2>1, <2>5 DEF j
    <3>2. x.error = "none" /\ x.at = j + m /\ x.value = m
      BY <3>1 DEF Read
    <3>3. x.at \in r.at .. r.end /\ m <= x.at - r.at /\ x.at \in Nat /\ j <= x.at /\ m = x.at - j
      <4>1. m \in Nat /\ x.at = j + m
        BY <2>2, <3>2
      <4> QED
        BY ONLY <1>0, <2>1, <2>5, <4>1
    <3>4. DelimitedAt(t, r.at, x.at, m)
      <4>1. j \in r.at + 1 .. x.at
        BY <1>0, <2>1, <3>3
      <4>2. VarintAt(t, r.at, j)
        BY <1>2 DEF j
      <4> QED
        BY <2>2, <3>3, <4>1, <4>2 DEF DelimitedAt
    <3>5. BodyAt(t, r.type, r.at, x.at, m)
      BY <1>t, <3>4 DEF BodyAt
    <3>6. FieldAt(t, r.from, x.at, m)
      BY <1>t, <3>3, <3>5, BodyIsField
    <3>7. \A to \in r.from .. r.end : \A n : FieldAt(t, r.from, to, n) => n = m /\ to = x.at
      <4> SUFFICES ASSUME NEW to \in r.from .. r.end, NEW n, FieldAt(t, r.from, to, n)
                   PROVE  n = m /\ to = x.at
        OBVIOUS
      <4>1. n = m /\ n = to - j
        BY <2>3
      <4> QED
        BY <1>0, <2>1, <2>2, <3>2, <4>1
    <3> QED
      BY <2>2, <3>2, <3>3, <3>6, <3>7 DEF ReadsDelimited, t, r
  <2> QED
    BY <2>4, <2>5
<1> QED
  BY <1>1, <1>2, <1>d

LEMMA DelimitedReads ==
  ASSUME NEW t, NEW r, NEW x, ReadsDelimited(t, r, x)
  PROVE  ReadsBody(t, r, x)
BY DEF ReadsDelimited, ReadsBody

LEMMA SkipBytesIs ==
  ASSUME text \in Seq(Byte), Placed(text, Reader), HasKey(text, Reader), NEW w,
         OfWidth(Reader.type, w),
         NEW x, x = SkipBytes(Reader.at, w)
  PROVE  /\ ReadsBody(text, Reader, x)
         /\ x.error = "none" => x.at = Reader.at + w /\ w \in Nat
<1>w. (Reader.type = Fixed32Type /\ w = Fixed32) \/ (Reader.type = Fixed64Type /\ w = Fixed64)
  BY DEF OfWidth
<1> DEFINE r == Reader
<1>0. r.at \in Nat /\ r.end \in Nat /\ r.at <= r.end /\ w \in Nat
  <2>1. r.at \in Nat /\ r.end \in Nat /\ r.at <= r.end
    BY ReaderPlace
  <2> QED
    BY <1>w, <2>1, Sizes
<1>x. x = IF r.end - r.at < w THEN Fails("end_of_buffer", r.at) ELSE Read(r.at + w, 0)
  BY DEF SkipBytes
<1> HIDE DEF r
<1>1. CASE r.end - r.at < w
  <2>1. x.error = "end_of_buffer" /\ x.at = r.at
    BY <1>1, <1>x DEF Fails
  <2>2. \/ x.error = "none" /\ x.at = Reader.at + w /\ x.at <= Reader.end
        \/ x.error \in {"varint_too_long", "end_of_buffer"} /\ x.at = Reader.at /\ Reader.end - Reader.at < w
    BY <1>1, <2>1 DEF r
  <2> QED
    BY <2>1, <2>2, FixedBody
<1>2. CASE ~(r.end - r.at < w)
  <2>1. x.error = "none" /\ x.at = r.at + w
    BY <1>2, <1>x DEF Read
  <2>2. x.at <= r.end
    BY <1>0, <1>2, <2>1
  <2>3. \/ x.error = "none" /\ x.at = Reader.at + w /\ x.at <= Reader.end
        \/ x.error \in {"varint_too_long", "end_of_buffer"} /\ x.at = Reader.at /\ Reader.end - Reader.at < w
    BY <2>1, <2>2 DEF r
  <2> QED
    BY <1>0, <2>1, <2>3, FixedBody DEF r
<1> QED
  BY <1>1, <1>2

LEMMA DecodeReads ==
  ASSUME text \in Seq(Byte), Placed(text, Reader), HasKey(text, Reader), Reader.type = VarintType,
         NEW x, x = DecodeVarint(text, Reader.at, Reader.end)
  PROVE  /\ ReadsBody(text, Reader, x)
         /\ x.error = "none" => x.value \in 0 .. Word - 1
<1> DEFINE r == Reader
           t == text
<1>0. r.at \in Nat /\ r.end \in Nat /\ r.at <= r.end /\ r.end <= Len(t)
  BY ReaderPlace
<1>1. \/ /\ x = [error |-> "none", at |-> x.at, value |-> x.value]
         /\ x.at \in r.at + 1 .. r.end /\ VarintAt(t, r.at, x.at)
         /\ x.value = ValueOf(Slice(t, r.at, x.at)) /\ x.value \in 0 .. Word - 1
      \/ /\ x.error \in {"varint_too_long", "end_of_buffer"} /\ x.at = r.at
         /\ \A n \in r.at .. r.end : ~VarintAt(t, r.at, n)
  BY <1>0, DecodeIs
<1>2. \/ x.error = "none" /\ x.at \in r.at + 1 .. r.end /\ VarintAt(t, r.at, x.at)
      \/ /\ x.error \in {"varint_too_long", "end_of_buffer"} /\ x.at = r.at
         /\ \A n \in r.at .. r.end : ~VarintAt(t, r.at, n)
  <2> HIDE DEF r, t
  <2> QED
    BY <1>1
<1>3. ReadsBody(text, Reader, x)
  BY <1>2, VarintBody
<1>4. x.error = "none" => x.value \in 0 .. Word - 1
  <2> HIDE DEF r, t
  <2> QED
    BY <1>1
<1> QED
  BY <1>3, <1>4

LEMMA SkipReads ==
  ASSUME text \in Seq(Byte), Placed(text, Reader), HasKey(text, Reader), Reader.type = VarintType,
         NEW x, x = SkipVarint(text, Reader.at, Reader.end)
  PROVE  ReadsBody(text, Reader, x)
<1> DEFINE r == Reader
           t == text
<1>0. r.at \in Nat /\ r.end \in Nat /\ r.at <= r.end /\ r.end <= Len(t)
  BY ReaderPlace
<1>1. \/ /\ x = [error |-> "none", at |-> x.at, value |-> 0]
         /\ x.at \in r.at + 1 .. r.end /\ VarintAt(t, r.at, x.at)
      \/ /\ x.error \in {"varint_too_long", "end_of_buffer"} /\ x.at = r.at
         /\ \A n \in r.at .. r.end : ~VarintAt(t, r.at, n)
  BY <1>0, SkipIs
<1>2. \/ x.error = "none" /\ x.at \in r.at + 1 .. r.end /\ VarintAt(t, r.at, x.at)
      \/ /\ x.error \in {"varint_too_long", "end_of_buffer"} /\ x.at = r.at
         /\ \A n \in r.at .. r.end : ~VarintAt(t, r.at, n)
  <2> HIDE DEF r, t
  <2> QED
    BY <1>1
<1> QED
  BY <1>2, VarintBody

\* skip() finds what the getters find.
LEMMA SkipResultIs ==
  ASSUME text \in Seq(Byte), Placed(text, Reader), HasKey(text, Reader), NEW x, x = SkipResult
  PROVE  /\ ReadsBody(text, Reader, x)
         /\ Reader.type = LengthDelimited => ReadsDelimited(text, Reader, x)
<1>1. \/ Reader.type = VarintType \/ Reader.type = Fixed64Type
      \/ Reader.type = LengthDelimited \/ Reader.type = Fixed32Type
  BY DEF HasKey, WireTypes
<1>2. CASE Reader.type = VarintType
  <2>1. x = SkipVarint(text, Reader.at, Reader.end)
    BY <1>2, WireTypesDiffer DEF SkipResult
  <2> QED
    BY <1>2, <2>1, SkipReads, WireTypesDiffer
<1>3. CASE Reader.type = Fixed64Type
  <2>1. x = SkipBytes(Reader.at, Fixed64)
    BY <1>3, WireTypesDiffer DEF SkipResult
  <2>2. OfWidth(Reader.type, Fixed64)
    BY <1>3 DEF OfWidth
  <2>3. Reader.type # LengthDelimited
    BY <1>3, WireTypesDiffer
  <2>4. ReadsBody(text, Reader, x)
    BY <2>1, <2>2, SkipBytesIs
  <2> QED
    BY <2>3, <2>4
<1>4. CASE Reader.type = LengthDelimited
  <2>1. x = LenAndSkip
    BY <1>4, WireTypesDiffer DEF SkipResult
  <2> QED
    BY <1>4, <2>1, LenAndSkipIs, DelimitedReads
<1>5. CASE Reader.type = Fixed32Type
  <2>1. x = SkipBytes(Reader.at, Fixed32)
    BY <1>5, WireTypesDiffer DEF SkipResult
  <2>0. OfWidth(Reader.type, Fixed32)
    BY ONLY <1>5 DEF OfWidth
  <2>2. ReadsBody(text, Reader, x)
    BY <2>0, <2>1, SkipBytesIs
  <2>3. Reader.type # LengthDelimited
    BY <1>5, WireTypesDiffer
  <2> QED
    BY ONLY <2>2, <2>3
<1> QED
  BY ONLY <1>1, <1>2, <1>3, <1>4, <1>5

-----------------------------------------------------------------------------
(* The readers.                                                            *)

Fields == [tag : Nat, type : Nat, payload : Seq(Byte)]
ReaderType ==
  [begin : Nat, at : Nat, end : Nat, tag : Nat, type : Nat, from : Nat, due : BOOLEAN,
   got : Seq(Fields)]

\* Another reader for the last one.
Turned(rs, rs2, r) == rs2 = [rs EXCEPT ![Len(rs)] = r]

LEMMA TopTurned ==
  ASSUME NEW S, NEW rs \in Seq(S), rs # <<>>, NEW r \in S, NEW rs2, Turned(rs, rs2, r)
  PROVE  /\ rs2 \in Seq(S) /\ Len(rs2) = Len(rs) /\ rs2[Len(rs)] = r /\ rs2 # <<>>
         /\ \A k \in 1 .. Len(rs) - 1 : rs2[k] = rs[k]
<1> DEFINE n == Len(rs)
<1>1. n \in Nat /\ n >= 1
  BY EmptySeq
<1>2. n \in 1 .. Len(rs)
  BY <1>1
<1> HIDE DEF n
<1>3. /\ [rs EXCEPT ![n] = r] \in Seq(S)
      /\ Len([rs EXCEPT ![n] = r]) = Len(rs)
      /\ \A j \in 1 .. Len(rs) : [rs EXCEPT ![n] = r][j] = IF j = n THEN r ELSE rs[j]
  BY <1>2, ExceptSeq
<1>4. rs2 \in Seq(S) /\ Len(rs2) = n /\ \A j \in 1 .. n : rs2[j] = IF j = n THEN r ELSE rs[j]
  BY <1>3 DEF n, Turned
<1>5. rs2 # <<>>
  BY <1>1, <1>4, EmptySeq
<1> QED
  BY <1>1, <1>4, <1>5 DEF n

LEMMA FrontIs ==
  ASSUME NEW S, NEW rs \in Seq(S), rs # <<>>
  PROVE  /\ Front(rs) \in Seq(S) /\ Len(Front(rs)) = Len(rs) - 1
         /\ \A k \in 1 .. Len(rs) - 1 : Front(rs)[k] = rs[k]
<1> DEFINE n == Len(rs) - 1
           f == Front(rs)
<1>1. n \in Nat /\ Len(rs) = n + 1
  BY EmptySeq
<1>2. f = SubSeq(rs, 1, n)
  BY DEF Front
<1>3. \A i \in 1 .. n : rs[i] \in S
  BY <1>1, ElementOfSeq
<1> HIDE DEF n, f
<1>4. CASE n = 0
  <2>1. SubSeq(rs, 1, n) = << >>
    BY <1>4, SubSeqProperties
  <2> QED
    BY <1>2, <1>4, <2>1 DEF n, f
<1>5. CASE n >= 1
  <2>2. 1 \in Int /\ n \in Int /\ 1 <= n /\ n - 1 + 1 = n
    BY <1>1, <1>5
  <2>4. /\ SubSeq(rs, 1, n) \in Seq(S)
        /\ Len(SubSeq(rs, 1, n)) = IF 1 <= n THEN n - 1 + 1 ELSE 0
        /\ \A i \in 1 .. n - 1 + 1 : SubSeq(rs, 1, n)[i] = rs[1 + i - 1]
    BY <2>2, <1>3, SubSeqProperties
  <2>5. \A i \in 1 .. n : 1 + i - 1 = i /\ i \in 1 .. n - 1 + 1
    BY <1>1
  <2>6. f \in Seq(S) /\ Len(f) = n /\ \A k \in 1 .. n : f[k] = rs[k]
    BY <1>2, <2>2, <2>4, <2>5
  <2> QED
    BY <2>6 DEF n, f
<1> QED
  BY <1>1, <1>4, <1>5

\* A reader for a submessage.
Nested(rs, rs2, p, r) == rs2 = Append(Front(rs), p) \o <<r>>

LEMMA ReaderNested ==
  ASSUME NEW S, NEW rs \in Seq(S), rs # <<>>, NEW p \in S, NEW r \in S, NEW rs2,
         Nested(rs, rs2, p, r)
  PROVE  /\ rs2 \in Seq(S) /\ Len(rs2) = Len(rs) + 1 /\ rs2[Len(rs)] = p
         /\ rs2[Len(rs) + 1] = r /\ rs2 # <<>>
         /\ \A k \in 1 .. Len(rs) - 1 : rs2[k] = rs[k]
<1> DEFINE f == Front(rs)
           n == Len(rs) - 1
           a == Append(f, p)
           b == <<r>>
<1>1. n \in Nat /\ Len(rs) = n + 1
  BY EmptySeq
<1>2. f \in Seq(S) /\ Len(f) = n /\ \A k \in 1 .. n : f[k] = rs[k]
  BY FrontIs
<1> HIDE DEF f, n
<1>3. a \in Seq(S) /\ Len(a) = n + 1 /\ a[n + 1] = p /\ \A k \in 1 .. n : a[k] = rs[k]
  BY <1>1, <1>2
<1>4. b \in Seq(S) /\ Len(b) = 1 /\ b[1] = r
  OBVIOUS
<1>5. rs2 = a \o b
  BY DEF a, b, f, Nested
<1> HIDE DEF a, b
<1>6. /\ a \o b \in Seq(S) /\ Len(a \o b) = Len(a) + Len(b)
      /\ \A i \in 1 .. Len(a) + Len(b) : (a \o b)[i] = IF i <= Len(a) THEN a[i] ELSE b[i - Len(a)]
  BY <1>3, <1>4, ConcatProperties
<1>7. /\ rs2 \in Seq(S) /\ Len(rs2) = n + 2
      /\ \A i \in 1 .. n + 2 : rs2[i] = IF i <= n + 1 THEN a[i] ELSE b[i - (n + 1)]
  BY <1>1, <1>3, <1>4, <1>5, <1>6
<1>8. rs2[n + 1] = p
  <2>1. n + 1 \in 1 .. n + 2 /\ n + 1 <= n + 1
    BY <1>1
  <2> QED
    BY <1>3, <1>7, <2>1
<1>12. rs2[n + 2] = r
  <2> DEFINE m == n + 2
  <2>1. m \in 1 .. m /\ ~(m <= n + 1) /\ m - (n + 1) = 1
    BY <1>1
  <2>2. \A i \in 1 .. m : rs2[i] = IF i <= n + 1 THEN a[i] ELSE b[i - (n + 1)]
    BY <1>7
  <2> HIDE DEF m
  <2>3. rs2[m] = b[m - (n + 1)]
    BY <2>1, <2>2
  <2>4. rs2[m] = r
    BY <1>4, <2>1, <2>3
  <2> QED
    BY <2>4 DEF m
<1>9. \A k \in 1 .. n : rs2[k] = rs[k]
  BY <1>1, <1>3, <1>7
<1>10. rs2 # <<>>
  BY <1>1, <1>7, EmptySeq
<1>11. n + 2 = Len(rs) + 1 /\ n + 1 = Len(rs) /\ n = Len(rs) - 1
  BY <1>1
<1> QED
  BY <1>7, <1>8, <1>9, <1>10, <1>11, <1>12

\* Where a reader may be as long as nothing was thrown.
Between(t, r) ==
  /\ r.due => HasKey(t, r)
  /\ ~r.due /\ r.got # <<>> => \E m : FieldAt(t, r.from, r.at, m)

\* What may be in front of a reader that has thrown.
HasCause(t, r, f) ==
  \A to \in r.from .. r.end : \A n : FieldAt(t, r.from, to, n) =>
    f = "invalid_length" /\ n % ElementSize(KindOf(r)) # 0

\* The last bytes of the varints between a and b.
Ends(t, a, b) == {p \in a .. b - 1 : ~Continues(t[p + 1])}

PackedType == [kind : PackedKinds, at : Nat, end : Nat, size : Nat, elements : Seq(Seq(Byte))]

\* What is left of a packed field goes with its size.
Fits(t, p) ==
  /\ p \in PackedType /\ p.at <= p.end /\ p.end <= Len(t)
  /\ IF p.kind \in {"ints", "sints"}
     THEN p.size = Len(p.elements) + Cardinality(Ends(t, p.at, p.end))
     ELSE \E left \in Nat : /\ p.end - p.at = ElementSize(p.kind) * left
                            /\ p.size = Len(p.elements) + left

ReaderInv(t, rs, p, f) ==
  /\ t \in Seq(Byte) /\ rs \in Seq(ReaderType)
  /\ \A k \in 1 .. Len(rs) : Placed(t, rs[k])
  /\ p.kind # "none" => Fits(t, p) /\ rs # <<>>
  /\ f = "none" => \A k \in 1 .. Len(rs) : Between(t, rs[k])
  /\ f # "none" =>
       /\ rs # <<>>
       /\ IF p.kind # "none" THEN \A n \in p.at .. p.end : ~VarintAt(t, p.at, n)
          ELSE HasCause(t, rs[Len(rs)], f)

-----------------------------------------------------------------------------
LEMMA ReaderIs ==
  ASSUME NEW t, NEW rs, NEW p, NEW f, ReaderInv(t, rs, p, f), rs # <<>>
  PROVE  /\ Len(rs) \in Nat /\ Len(rs) >= 1 /\ rs \in Seq(ReaderType)
         /\ rs[Len(rs)] \in ReaderType /\ Placed(t, rs[Len(rs)])
         /\ f = "none" => Between(t, rs[Len(rs)])
<1>1. rs \in Seq(ReaderType)
  BY DEF ReaderInv
<1> HIDE DEF ReaderType
<1>2. Len(rs) \in Nat /\ Len(rs) >= 1
  BY <1>1, EmptySeq
<1>3. Len(rs) \in 1 .. Len(rs)
  BY <1>2
<1>4. rs[Len(rs)] \in ReaderType
  BY <1>1, <1>3, ElementOfSeq
<1> QED
  BY <1>1, <1>2, <1>3, <1>4 DEF ReaderInv

\* The reader goes on behind a field or a key.
LEMMA MovesOn ==
  ASSUME NEW t, NEW rs, NEW p, ReaderInv(t, rs, p, "none"), rs # <<>>,
         NEW rs2, NEW r \in ReaderType, Turned(rs, rs2, r), Placed(t, r), Between(t, r),
         NEW p2, p2.kind # "none" => Fits(t, p2)
  PROVE  ReaderInv(t, rs2, p2, "none")
<1>1. /\ rs \in Seq(ReaderType) /\ t \in Seq(Byte)
      /\ \A k \in 1 .. Len(rs) : Placed(t, rs[k]) /\ Between(t, rs[k])
  BY DEF ReaderInv
<1>2. Len(rs) \in Nat /\ Len(rs) >= 1
  BY ReaderIs
<1> HIDE DEF ReaderType
<1>3. /\ rs2 \in Seq(ReaderType) /\ Len(rs2) = Len(rs) /\ rs2[Len(rs)] = r /\ rs2 # <<>>
      /\ \A k \in 1 .. Len(rs) - 1 : rs2[k] = rs[k]
  BY <1>1, TopTurned
<1>4. ASSUME NEW k \in 1 .. Len(rs2) PROVE Placed(t, rs2[k]) /\ Between(t, rs2[k])
  <2>1. k = Len(rs) \/ (k \in 1 .. Len(rs) - 1 /\ k \in 1 .. Len(rs))
    BY <1>2, <1>3
  <2> QED
    BY <1>1, <1>3, <2>1
<1> QED
  BY <1>1, <1>3, <1>4 DEF ReaderInv

\* The reader throws.
LEMMA BreaksOff ==
  ASSUME NEW t, NEW rs, NEW p, ReaderInv(t, rs, p, "none"), rs # <<>>, p.kind = "none",
         NEW rs2, NEW r \in ReaderType, Turned(rs, rs2, r), Placed(t, r),
         NEW f, f # "none", HasCause(t, r, f)
  PROVE  ReaderInv(t, rs2, p, f)
<1>1. /\ rs \in Seq(ReaderType) /\ t \in Seq(Byte)
      /\ \A k \in 1 .. Len(rs) : Placed(t, rs[k])
  BY DEF ReaderInv
<1>2. Len(rs) \in Nat /\ Len(rs) >= 1
  BY ReaderIs
<1> HIDE DEF ReaderType
<1>3. /\ rs2 \in Seq(ReaderType) /\ Len(rs2) = Len(rs) /\ rs2[Len(rs)] = r /\ rs2 # <<>>
      /\ \A k \in 1 .. Len(rs) - 1 : rs2[k] = rs[k]
  BY <1>1, TopTurned
<1>4. ASSUME NEW k \in 1 .. Len(rs2) PROVE Placed(t, rs2[k])
  <2>1. k = Len(rs) \/ (k \in 1 .. Len(rs) - 1 /\ k \in 1 .. Len(rs))
    BY <1>2, <1>3
  <2> QED
    BY <1>1, <1>3, <2>1
<1> QED
  BY <1>1, <1>3, <1>4 DEF ReaderInv

\* The reader of a message is done.
LEMMA GoesBack ==
  ASSUME NEW t, NEW rs, NEW p, ReaderInv(t, rs, p, "none"), rs # <<>>, p.kind = "none"
  PROVE  ReaderInv(t, Front(rs), p, "none")
<1>1. /\ rs \in Seq(ReaderType) /\ t \in Seq(Byte)
      /\ \A k \in 1 .. Len(rs) : Placed(t, rs[k]) /\ Between(t, rs[k])
  BY DEF ReaderInv
<1>2. Len(rs) \in Nat /\ Len(rs) >= 1
  BY ReaderIs
<1> HIDE DEF ReaderType
<1>3. /\ Front(rs) \in Seq(ReaderType) /\ Len(Front(rs)) = Len(rs) - 1
      /\ \A k \in 1 .. Len(rs) - 1 : Front(rs)[k] = rs[k]
  BY <1>1, FrontIs
<1>4. ASSUME NEW k \in 1 .. Len(Front(rs)) PROVE Placed(t, Front(rs)[k]) /\ Between(t, Front(rs)[k])
  <2>1. k \in 1 .. Len(rs) - 1 /\ k \in 1 .. Len(rs)
    BY <1>2, <1>3
  <2> QED
    BY <1>1, <1>3, <2>1
<1> QED
  BY <1>1, <1>3, <1>4 DEF ReaderInv

\* A submessage is opened.
LEMMA GoesIn ==
  ASSUME NEW t, NEW rs, NEW p, ReaderInv(t, rs, p, "none"), rs # <<>>, p.kind = "none",
         NEW r \in ReaderType, Placed(t, r), Between(t, r),
         NEW v \in ReaderType, Placed(t, v), Between(t, v),
         NEW rs2, Nested(rs, rs2, r, v)
  PROVE  ReaderInv(t, rs2, p, "none")
<1>1. /\ rs \in Seq(ReaderType) /\ t \in Seq(Byte)
      /\ \A k \in 1 .. Len(rs) : Placed(t, rs[k]) /\ Between(t, rs[k])
  BY DEF ReaderInv
<1>2. Len(rs) \in Nat /\ Len(rs) >= 1
  BY ReaderIs
<1> HIDE DEF ReaderType
<1>3. /\ rs2 \in Seq(ReaderType) /\ Len(rs2) = Len(rs) + 1 /\ rs2[Len(rs)] = r
      /\ rs2[Len(rs) + 1] = v /\ rs2 # <<>>
      /\ \A k \in 1 .. Len(rs) - 1 : rs2[k] = rs[k]
  BY <1>1, ReaderNested
<1>4. ASSUME NEW k \in 1 .. Len(rs2) PROVE Placed(t, rs2[k]) /\ Between(t, rs2[k])
  <2>1. k = Len(rs) + 1 \/ k = Len(rs) \/ (k \in 1 .. Len(rs) - 1 /\ k \in 1 .. Len(rs))
    BY <1>2, <1>3
  <2> QED
    BY <1>1, <1>3, <2>1
<1> QED
  BY <1>1, <1>3, <1>4 DEF ReaderInv

\* A packed field goes on.
LEMMA PackedMoves ==
  ASSUME NEW t, NEW rs, NEW p, ReaderInv(t, rs, p, "none"), NEW p2,
         p2.kind # "none" => Fits(t, p2) /\ rs # <<>>
  PROVE  ReaderInv(t, rs, p2, "none")
BY DEF ReaderInv

LEMMA PackedBreaks ==
  ASSUME NEW t, NEW rs, NEW p, ReaderInv(t, rs, p, "none"), p.kind # "none",
         NEW f, f # "none", \A n \in p.at .. p.end : ~VarintAt(t, p.at, n)
  PROVE  ReaderInv(t, rs, p, f)
BY DEF ReaderInv

-----------------------------------------------------------------------------
(* The steps of a reader.                                                  *)

LEMMA BehindIs ==
  ASSUME text \in Seq(Byte), NEW p \in Nat, p <= Len(text), NEW n \in Nat, n <= p
  PROVE  Behind(p, n) \in Seq(Byte)
<1> DEFINE q == p - n
<1>1. q \in Nat /\ q <= p
  OBVIOUS
<1>2. Behind(p, n) = Slice(text, q, p)
  BY DEF Behind, Slice
<1> HIDE DEF q
<1> QED
  BY <1>1, <1>2, SliceIs

LEMMA ZigzagBack ==
  ASSUME NEW v \in Nat
  PROVE  EncodeZigzag(DecodeZigzag(v)) = v
<1>1. v \div 2 \in Nat /\ v % 2 \in 0 .. 1 /\ v = 2 * (v \div 2) + (v % 2)
  BY Division
<1>2. CASE v % 2 = 0
  BY <1>1, <1>2 DEF EncodeZigzag, DecodeZigzag
<1>3. CASE v % 2 = 1
  BY <1>1, <1>3 DEF EncodeZigzag, DecodeZigzag
<1> QED
  BY <1>1, <1>2, <1>3

\* A reader that has got a field, one that has thrown, and one behind a key.
GotAs(v, r, at, tag, f) ==
  v = [r EXCEPT !.at = at, !.due = FALSE, !.tag = tag, !.got = Append(@, f)]

LEMMA HasGot ==
  ASSUME NEW r, r \in ReaderType, NEW at, at \in Nat, NEW tag, tag \in Nat, NEW f, f \in Fields,
         NEW v, GotAs(v, r, at, tag, f)
  PROVE  /\ v \in ReaderType /\ v.at = at /\ v.begin = r.begin /\ v.from = r.from /\ v.end = r.end
         /\ ~v.due
<1> HIDE DEF Fields
<1>1. r.got \in Seq(Fields)
  BY DEF ReaderType
<1>2. Append(r.got, f) \in Seq(Fields)
  BY <1>1, AppendProperties
<1> QED
  BY <1>2 DEF ReaderType, GotAs

LEMMA HasThrown ==
  ASSUME NEW r \in ReaderType, NEW at \in Nat, NEW v, v = [r EXCEPT !.at = at]
  PROVE  /\ v \in ReaderType /\ v.at = at /\ v.begin = r.begin /\ v.from = r.from /\ v.end = r.end
         /\ v.tag = r.tag
BY DEF ReaderType

LEMMA HasRead ==
  ASSUME NEW r \in ReaderType, NEW at \in Nat, NEW tag \in Nat, NEW type \in Nat, NEW from \in Nat,
         NEW v, v = [r EXCEPT !.at = at, !.tag = tag, !.from = from, !.type = type, !.due = TRUE]
  PROVE  /\ v \in ReaderType /\ v.at = at /\ v.begin = r.begin /\ v.from = from /\ v.end = r.end
         /\ v.tag = tag /\ v.type = type /\ v.due = TRUE
BY DEF ReaderType

LEMMA HasNoKey ==
  ASSUME NEW r \in ReaderType, NEW v, v = [r EXCEPT !.from = r.at]
  PROVE  /\ v \in ReaderType /\ v.at = r.at /\ v.begin = r.begin /\ v.from = r.at /\ v.end = r.end
BY DEF ReaderType

\* The innermost reader has gone on, or it has thrown.
Settles(r) ==
  /\ Turned(readers, readers', r) /\ r \in ReaderType /\ Placed(text, r)
  /\ IF fault' = "none" THEN Between(text, r) ELSE HasCause(text, r, fault')

LEMMA SettlesKeeps ==
  ASSUME ReaderInv(text, readers, packed, "none"), readers # <<>>, packed.kind = "none",
         NEW r, Settles(r), NEW p, p.kind # "none" => Fits(text, p), fault' # "none" => p = packed
  PROVE  ReaderInv(text, readers', p, fault')
<1>1. /\ Turned(readers, readers', r) /\ r \in ReaderType /\ Placed(text, r)
      /\ IF fault' = "none" THEN Between(text, r) ELSE HasCause(text, r, fault')
  BY DEF Settles
<1> HIDE DEF ReaderType
<1>2. CASE fault' = "none"
  <2>1. Between(text, r)
    BY <1>1, <1>2
  <2>2. ReaderInv(text, readers', p, "none")
    BY <1>1, <2>1, MovesOn
  <2> QED
    BY <1>2, <2>2
<1>3. CASE fault' # "none"
  <2>1. HasCause(text, r, fault') /\ p = packed
    BY <1>1, <1>3
  <2> DEFINE f == fault'
  <2>2. f # "none" /\ HasCause(text, r, f)
    BY <1>3, <2>1
  <2> HIDE DEF f
  <2>3. ReaderInv(text, readers', packed, f)
    BY <1>1, <2>2, BreaksOff
  <2> QED
    BY <2>1, <2>3 DEF f
<1> QED
  BY <1>2, <1>3

\* What reading the field that is due comes to.
Reads(x) ==
  /\ x.at \in Reader.at .. Reader.end
  /\ IF x.error = "none" THEN \E m : FieldAt(text, Reader.from, x.at, m)
     ELSE HasCause(text, Reader, x.error)

LEMMA BodyReads ==
  ASSUME NEW x, ReadsBody(text, Reader, x)
  PROVE  Reads(x)
BY DEF ReadsBody, Reads, NoField, HasCause

LEMMA GotSettles ==
  ASSUME ReaderInv(text, readers, packed, "none"), readers # <<>>, fault = "none",
         NEW x, Reads(x), NEW payload, x.error = "none" => payload \in Seq(Byte),
         Got(x, payload)
  PROVE  text' = text /\ fault' = x.error /\ \E r : Settles(r)
<1> DEFINE t == text
           q == Reader
           f == [tag |-> q.tag, type |-> q.type, payload |-> payload]
           k == IF q.type = VarintType THEN q.tag ELSE 0
           v == [q EXCEPT !.at = x.at, !.due = FALSE, !.tag = k, !.got = Append(@, f)]
           w == [q EXCEPT !.at = x.at]
<1>1. q \in ReaderType /\ Placed(t, q)
  BY ReaderIs DEF Reader
<1>2. text' = text
  BY DEF Got
<1>3. /\ q.begin \in Nat /\ q.from \in Nat /\ q.at \in Nat /\ q.end \in Nat /\ x.at \in Nat
      /\ q.begin <= q.from /\ q.from <= q.at /\ q.at <= x.at /\ x.at <= q.end /\ q.end <= Len(t)
  BY <1>1 DEF Placed, Reads
<1>4. CASE x.error = "none"
  <2>1. Turned(readers, readers', v) /\ fault' = fault
    BY <1>4 DEF Got, Update, Turned
  <2>2. f \in Fields /\ k \in Nat
    BY <1>1, <1>4 DEF Fields, ReaderType
  <2>3. \E m : FieldAt(t, q.from, x.at, m)
    BY <1>4 DEF Reads
  <2>8. GotAs(v, q, x.at, k, f)
    BY DEF GotAs
  <2> HIDE DEF q, f, k, t, v
  <2>4. /\ v \in ReaderType /\ v.at = x.at /\ v.begin = q.begin /\ v.from = q.from /\ v.end = q.end
        /\ ~v.due
    BY <1>1, <1>3, <2>2, <2>8, HasGot
  <2>5. Placed(t, v)
    BY <1>3, <2>4 DEF Placed
  <2>6. Between(t, v)
    BY <2>3, <2>4 DEF Between
  <2>7. Settles(v)
    BY <2>1, <2>4, <2>5, <2>6 DEF Settles, t
  <2> QED
    BY <1>2, <1>4, <2>1, <2>7
<1>5. CASE x.error # "none"
  <2>1. Turned(readers, readers', w) /\ fault' = x.error
    BY <1>5 DEF Got, Update, Turned, Throw
  <2>2. HasCause(t, q, x.error)
    BY <1>5 DEF Reads
  <2> HIDE DEF q, t
  <2>4. /\ w \in ReaderType /\ w.at = x.at /\ w.begin = q.begin /\ w.from = q.from /\ w.end = q.end
        /\ w.tag = q.tag
    BY <1>1, <1>3, HasThrown
  <2> HIDE DEF w
  <2>5. Placed(t, w)
    BY <1>3, <2>4 DEF Placed
  <2>6. HasCause(t, w, x.error)
    BY <2>2, <2>4 DEF HasCause, KindOf
  <2>7. Settles(w)
    BY <1>5, <2>1, <2>4, <2>5, <2>6 DEF Settles, t
  <2> QED
    BY <1>2, <2>1, <2>7
<1> QED
  BY <1>4, <1>5

LEMMA MultipleOfEight ==
  ASSUME NEW s \in Nat, NEW a \in Nat, NEW c \in Nat, s = 8 * c
  PROVE  \E m \in Nat : s * a = 8 * m
<1>1. c * a \in Nat
  BY Products
<1>2. (8 * c) * a = 8 * (c * a)
  OBVIOUS
<1>3. s * a = 8 * (c * a)
  BY <1>2
<1> QED
  BY <1>1, <1>3

\* The wire type of a key is the same in 32 bits.
LEMMA TypeOfKey ==
  ASSUME NEW v \in Nat
  PROVE  (v % ShortWord) % 8 = v % 8
<1> DEFINE a == v \div ShortWord
           b == v % ShortWord
           c == ShortWord \div 8
           d == b \div 8
           e == b % 8
<1>1. a \in Nat /\ b \in Nat /\ v = ShortWord * a + b
  BY Sizes, Division
<1>2. c \in Nat /\ ShortWord = 8 * c
  <2>1. ShortWord \in Nat /\ ShortWord % 8 = 0
    BY Sizes
  <2>2. \A w \in Nat : w \div 8 \in Nat /\ w = 8 * (w \div 8) + (w % 8)
    BY Division
  <2> QED
    BY <2>1, <2>2
<1>3. d \in Nat /\ e \in 0 .. 7 /\ b = 8 * d + e
  <2>1. \A w \in Nat : w \div 8 \in Nat /\ w % 8 \in 0 .. 7 /\ w = 8 * (w \div 8) + (w % 8)
    BY Division
  <2> QED
    BY <1>1, <2>1
<1> HIDE DEF a, b, c, d, e
<1>4. PICK m \in Nat : ShortWord * a = 8 * m
  BY <1>1, <1>2, Sizes, MultipleOfEight
<1>5. v = 8 * (m + d) + e
  BY <1>1, <1>3, <1>4
<1> DEFINE q == m + d
<1>6. q \in Nat /\ v = 8 * q + e
  BY <1>3, <1>5
<1> HIDE DEF q
<1>7. v % 8 = e
  BY <1>3, <1>6
<1> QED
  BY <1>7 DEF e, b

LEMMA WalkingIs ==
  ASSUME ReaderInv(text, readers, packed, fault), Walking
  PROVE  /\ ReaderInv(text, readers, packed, "none") /\ fault = "none"
         /\ readers # <<>> /\ packed.kind = "none" /\ text \in Seq(Byte)
         /\ Reader \in ReaderType /\ Placed(text, Reader) /\ Between(text, Reader)
<1>1. fault = "none" /\ readers # <<>> /\ packed.kind = "none"
  BY DEF Walking
<1>2. ReaderInv(text, readers, packed, "none")
  BY <1>1
<1>3. Reader \in ReaderType /\ Placed(text, Reader) /\ Between(text, Reader)
  BY <1>1, <1>2, ReaderIs DEF Reader
<1> QED
  BY <1>1, <1>2, <1>3 DEF ReaderInv

ReadAs(v, r, at, tag, from, type) ==
  v = [r EXCEPT !.at = at, !.tag = tag, !.from = from, !.type = type, !.due = TRUE]

LEMMA ReadAsIs ==
  ASSUME NEW r, r \in ReaderType, NEW at, at \in Nat, NEW tag, tag \in Nat, NEW type, type \in Nat,
         NEW from, from \in Nat, NEW v, ReadAs(v, r, at, tag, from, type)
  PROVE  /\ v \in ReaderType /\ v.at = at /\ v.begin = r.begin /\ v.from = from /\ v.end = r.end
         /\ v.tag = tag /\ v.type = type /\ v.due
BY DEF ReaderType, ReadAs

LEMMA NextFieldSettles ==
  ASSUME ReaderInv(text, readers, packed, fault), NextField
  PROVE  text' = text /\ packed' = packed /\ \E r : Settles(r)
<1> DEFINE t == text
           q == Reader
           p == q.at
           k == DecodeVarint(t, p, q.end)
           tag == (k.value % ShortWord) \div 8
           type == k.value % 8
           y == IF ValidTag(tag) THEN type ELSE q.type
           v == [q EXCEPT !.at = k.at, !.tag = tag, !.from = p, !.type = y, !.due = TRUE]
           w == [q EXCEPT !.from = p]
<1>0. Idle /\ UNCHANGED <<text, wanted, packed>>
  BY DEF NextField
<1>1. /\ q \in ReaderType /\ Placed(t, q) /\ t \in Seq(Byte) /\ fault = "none"
  BY <1>0, WalkingIs DEF Idle
<1>2. /\ q.begin \in Nat /\ q.from \in Nat /\ p \in Nat /\ q.end \in Nat /\ Len(t) \in Nat
      /\ q.begin <= q.from /\ q.from <= p /\ p <= q.end /\ q.end <= Len(t)
  BY <1>1 DEF Placed
<1>t. q.type \in Nat
  BY <1>1 DEF ReaderType
<1>3. \/ /\ k = [error |-> "none", at |-> k.at, value |-> k.value]
         /\ k.at \in p + 1 .. q.end /\ VarintAt(t, p, k.at)
         /\ k.value = ValueOf(Slice(t, p, k.at)) /\ k.value \in 0 .. Word - 1
      \/ /\ k.error \in {"varint_too_long", "end_of_buffer"} /\ k.at = p
         /\ \A n \in p .. q.end : ~VarintAt(t, p, n)
  BY <1>1, <1>2, DecodeIs
<1>4. IF k.error # "none"
      THEN Turned(readers, readers', w) /\ fault' = k.error
      ELSE /\ Turned(readers, readers', v)
           /\ IF ~ValidTag(tag) THEN fault' = "invalid_tag"
              ELSE IF type \notin WireTypes THEN fault' = "unknown_pbf_wire_type"
              ELSE fault' = fault
  BY DEF NextField, Update, Turned, Throw
<1>5. ReadAs(v, q, k.at, tag, p, y)
  BY DEF ReadAs
<1>6. w \in ReaderType /\ w.at = p /\ w.begin = q.begin /\ w.from = p /\ w.end = q.end
  BY <1>1, HasNoKey
<1> HIDE DEF t, q, k, v, w
<1>7. CASE /\ k.error \in {"varint_too_long", "end_of_buffer"}
           /\ \A n \in p .. q.end : ~VarintAt(t, p, n)
  <2>1. Turned(readers, readers', w) /\ fault' = k.error /\ fault' # "none"
    BY <1>4, <1>7
  <2>2. Placed(t, w)
    BY <1>2, <1>6 DEF Placed
  <2>3. ASSUME NEW to \in p .. q.end, NEW n, FieldAt(t, p, to, n) PROVE FALSE
    <3>1. PICK j \in p + 1 .. to : VarintAt(t, p, j)
      BY <2>3 DEF FieldAt
    <3>2. j \in p .. q.end
      BY <1>2
    <3> QED
      BY <1>7, <3>1, <3>2
  <2>4. HasCause(t, w, fault')
    BY <1>6, <2>3 DEF HasCause
  <2>5. Settles(w)
    BY <1>6, <2>1, <2>2, <2>4 DEF Settles, t
  <2> QED
    BY <1>0, <2>5
<1>8. CASE /\ k = [error |-> "none", at |-> k.at, value |-> k.value]
           /\ k.at \in p + 1 .. q.end /\ VarintAt(t, p, k.at)
           /\ k.value = ValueOf(Slice(t, p, k.at)) /\ k.value \in 0 .. Word - 1
  <2>0. k.error = "none"
    BY <1>8
  <2>1. k.value \in Nat
    BY <1>8, Widths
  <2>2. k.value % ShortWord \in Nat /\ Value32(t, p, k.at) = k.value % ShortWord
    BY <1>8, <2>1, Sizes, Division DEF Value32
  <2>3. /\ tag = Value32(t, p, k.at) \div 8 /\ type = Value32(t, p, k.at) % 8
        /\ tag \in Nat /\ type \in Nat
    <3>1. tag = Value32(t, p, k.at) \div 8 /\ tag \in Nat
      BY <2>2, Division
    <3>2. type = Value32(t, p, k.at) % 8
      BY <2>1, <2>2, TypeOfKey
    <3>3. type \in Nat
      BY <2>1, Division
    <3> QED
      BY <3>1, <3>2, <3>3
  <2>4. k.at \in Nat /\ p + 1 <= k.at /\ k.at <= q.end /\ p <= k.at /\ k.at <= Len(t)
    BY <1>2, <1>8
  <2> HIDE DEF tag, type
  <2>5. y \in Nat
    BY <1>t, <2>3
  <2> HIDE DEF y, p
  <2>a. q \in ReaderType /\ p \in Nat /\ k.at \in Nat /\ tag \in Nat
    BY <1>1, <1>2, <2>3, <2>4
  <2>6. /\ v \in ReaderType /\ v.at = k.at /\ v.begin = q.begin /\ v.from = p /\ v.end = q.end
        /\ v.tag = tag /\ v.type = y /\ v.due
    BY ONLY <2>a, <2>5, <1>5, ReadAsIs
  <2>7. Placed(t, v)
    BY <1>2, <2>4, <2>6 DEF Placed
  <2>8. Turned(readers, readers', v)
    BY <1>4, <2>0
  <2>9. CASE ValidTag(tag) /\ type \in WireTypes
    <3>1. fault' = "none"
      BY <1>1, <1>4, <2>0, <2>9
    <3>2. y = type
      BY <2>9 DEF y
    <3>3. HasKey(t, v)
      BY <1>8, <2>3, <2>6, <2>9, <3>2 DEF HasKey
    <3>4. Between(t, v)
      BY <2>6, <3>3 DEF Between
    <3>5. Settles(v)
      BY <2>6, <2>7, <2>8, <3>1, <3>4 DEF Settles, t
    <3> QED
      BY <1>0, <3>5
  <2>10. CASE ~(ValidTag(tag) /\ type \in WireTypes)
    <3>1. fault' # "none"
      BY <1>4, <2>0, <2>10
    <3>2. ASSUME NEW to \in p .. q.end, NEW n, FieldAt(t, p, to, n) PROVE FALSE
      <4>1. to \in Nat /\ p <= to /\ to <= Len(t)
        BY <1>2
      <4>2. ValidTag(tag) /\ BodyAt(t, type, k.at, to, n)
        BY <1>1, <1>2, <1>8, <2>3, <2>4, <3>2, <4>1, FieldBehindKey
      <4>3. type \in WireTypes
        BY <4>2, TypesAre DEF BodyAt
      <4> QED
        BY <2>10, <4>2, <4>3
    <3>3. HasCause(t, v, fault')
      BY <2>6, <3>2 DEF HasCause
    <3>5. Settles(v)
      BY <2>6, <2>7, <2>8, <3>1, <3>3 DEF Settles, t
    <3> QED
      BY <1>0, <3>5
  <2> QED
    BY <2>9, <2>10
<1> QED
  BY <1>3, <1>7, <1>8

LEMMA DueIs ==
  ASSUME ReaderInv(text, readers, packed, fault), Walking, Reader.due
  PROVE  /\ text \in Seq(Byte) /\ Placed(text, Reader) /\ HasKey(text, Reader)
         /\ Reader.at \in Nat /\ Reader.end \in Nat /\ Reader.at <= Reader.end
         /\ Reader.end <= Len(text) /\ Len(text) \in Nat
<1>1. text \in Seq(Byte) /\ Placed(text, Reader) /\ HasKey(text, Reader)
  BY WalkingIs DEF Between
<1> QED
  BY <1>1 DEF Placed

LEMMA GotKeeps ==
  ASSUME ReaderInv(text, readers, packed, fault), Walking, Reader.due,
         NEW x, Reads(x), NEW payload, x.error = "none" => payload \in Seq(Byte), Got(x, payload),
         packed'.kind # "none" => Fits(text, packed'), x.error # "none" => packed' = packed
  PROVE  ReaderInv(text', readers', packed', fault')
<1>1. /\ ReaderInv(text, readers, packed, "none") /\ fault = "none"
      /\ readers # <<>> /\ packed.kind = "none"
  BY WalkingIs
<1>2. text' = text /\ fault' = x.error /\ \E r : Settles(r)
  BY <1>1, GotSettles
<1>3. PICK r : Settles(r)
  BY <1>2
<1> DEFINE p == packed'
<1>4. (p.kind # "none" => Fits(text, p)) /\ (fault' # "none" => p = packed)
  BY <1>2
<1> HIDE DEF p
<1>5. ReaderInv(text, readers', p, fault')
  BY <1>1, <1>3, <1>4, SettlesKeeps
<1> QED
  BY <1>2, <1>5 DEF p

\* The packed field stays as it is, which is none.
LEMMA GotAlone ==
  ASSUME ReaderInv(text, readers, packed, fault), Walking, Reader.due,
         NEW x, Reads(x), NEW payload, x.error = "none" => payload \in Seq(Byte), Got(x, payload),
         packed' = packed
  PROVE  ReaderInv(text', readers', packed', fault')
<1>1. packed'.kind = "none"
  BY WalkingIs
<1> QED
  BY <1>1, GotKeeps

\* A length and what is behind it.
LEMMA ViewIs ==
  ASSUME ReaderInv(text, readers, packed, fault), Walking, Reader.due,
         NEW x, ReadsDelimited(text, Reader, x), x.error = "none"
  PROVE  /\ Behind(x.at, x.value) \in Seq(Byte)
         /\ x.at \in Nat /\ x.value \in Nat /\ x.value <= x.at /\ x.at <= Len(text)
         /\ Reader.at <= x.at - x.value /\ x.at <= Reader.end
<1> DEFINE a == x.at
           n == x.value
<1>1. a \in Reader.at .. Reader.end /\ n \in Nat /\ n <= a - Reader.at
  BY DEF ReadsDelimited
<1>2. a \in Nat /\ a <= Len(text) /\ n <= a /\ Reader.at <= a - n /\ a <= Reader.end
  BY <1>1, DueIs
<1>3. text \in Seq(Byte)
  BY DueIs
<1> HIDE DEF a, n
<1>4. Behind(a, n) \in Seq(Byte)
  BY <1>1, <1>2, <1>3, BehindIs
<1> QED
  BY <1>1, <1>2, <1>4 DEF a, n

LEMMA RestIs ==
  ASSUME ReaderInv(text, readers, packed, fault), Walking, Reader.due,
         NEW n \in Reader.at .. Reader.end
  PROVE  SubSeq(text, Reader.at + 1, n) \in Seq(Byte)
<1> DEFINE p == Reader.at
<1>1. p \in Nat /\ n \in Nat /\ p <= n /\ n <= Len(text) /\ text \in Seq(Byte)
  BY DueIs
<1> HIDE DEF p
<1>2. Slice(text, p, n) \in Seq(Byte)
  BY <1>1, SliceIs
<1> QED
  BY <1>2 DEF Slice, p

LEMMA SkipKeeps ==
  ASSUME ReaderInv(text, readers, packed, fault), Skip
  PROVE  ReaderInv(text', readers', packed', fault')
<1> DEFINE x == SkipResult
           payload == IF Reader.type = LengthDelimited THEN Behind(x.at, x.value)
                      ELSE SubSeq(text, Reader.at + 1, x.at)
<1>1. Walking /\ Reader.due /\ Got(x, payload) /\ packed' = packed
  BY DEF Skip
<1>2. ReadsBody(text, Reader, x) /\ (Reader.type = LengthDelimited => ReadsDelimited(text, Reader, x))
  BY <1>1, DueIs, SkipResultIs
<1> HIDE DEF x
<1>3. Reads(x)
  BY <1>2, BodyReads
<1>4. ASSUME x.error = "none" PROVE payload \in Seq(Byte)
  <2>1. CASE Reader.type = LengthDelimited
    BY <1>1, <1>2, <1>4, <2>1, ViewIs
  <2>2. CASE Reader.type # LengthDelimited
    <3>1. x.at \in Reader.at .. Reader.end
      BY <1>3 DEF Reads
    <3>2. SubSeq(text, Reader.at + 1, x.at) \in Seq(Byte)
      BY <1>1, <3>1, RestIs
    <3> QED
      BY <2>2, <3>2
  <2> QED
    BY <2>1, <2>2
<1> HIDE DEF payload
<1> QED
  BY <1>1, <1>3, <1>4, GotAlone

LEMMA DueOf ==
  ASSUME NEW type, Due(type)
  PROVE  Walking /\ Reader.due /\ Reader.type = type
BY DEF Due

LEMMA GetVarintKeeps ==
  ASSUME ReaderInv(text, readers, packed, fault), GetVarint
  PROVE  ReaderInv(text', readers', packed', fault')
<1> DEFINE x == DecodeVarint(text, Reader.at, Reader.end)
           payload == EncodeVarint(x.value)
<1>1. Due(VarintType) /\ Got(x, payload) /\ packed' = packed
  BY DEF GetVarint
<1>2. Walking /\ Reader.due /\ Reader.type = VarintType
  BY <1>1, DueOf
<1>3. ReadsBody(text, Reader, x) /\ (x.error = "none" => x.value \in 0 .. Word - 1)
  BY <1>2, DueIs, DecodeReads
<1> HIDE DEF x
<1>4. x.error = "none" => payload \in Seq(Byte)
  BY <1>3, EncodeIs
<1> HIDE DEF payload
<1> QED
  BY <1>1, <1>2, <1>3, <1>4, BodyReads, GotAlone

LEMMA GetSvarintKeeps ==
  ASSUME ReaderInv(text, readers, packed, fault), GetSvarint
  PROVE  ReaderInv(text', readers', packed', fault')
<1> DEFINE x == DecodeVarint(text, Reader.at, Reader.end)
           payload == EncodeVarint(EncodeZigzag(DecodeZigzag(x.value)))
<1>1. Due(VarintType) /\ Got(x, payload) /\ packed' = packed
  BY DEF GetSvarint
<1>2. Walking /\ Reader.due /\ Reader.type = VarintType
  BY <1>1, DueOf
<1>3. ReadsBody(text, Reader, x) /\ (x.error = "none" => x.value \in 0 .. Word - 1)
  BY <1>2, DueIs, DecodeReads
<1> HIDE DEF x
<1>4. ASSUME x.error = "none" PROVE payload \in Seq(Byte)
  <2>1. x.value \in 0 .. Word - 1 /\ x.value \in Nat
    BY <1>3, <1>4, Widths
  <2>2. EncodeZigzag(DecodeZigzag(x.value)) = x.value
    BY <2>1, ZigzagBack
  <2>3. EncodeVarint(x.value) \in Seq(Byte)
    BY <2>1, EncodeIs
  <2> QED
    BY <2>2, <2>3
<1> HIDE DEF payload
<1> QED
  BY <1>1, <1>2, <1>3, <1>4, BodyReads, GotAlone

LEMMA GetBoolKeeps ==
  ASSUME ReaderInv(text, readers, packed, fault), GetBool
  PROVE  ReaderInv(text', readers', packed', fault')
<1> DEFINE x == SkipVarint(text, Reader.at, Reader.end)
           b == IF Reader.at < Reader.end /\ text[Reader.at + 1] # 0 THEN 1 ELSE 0
           payload == <<b>>
<1>1. Due(VarintType) /\ Got(x, payload) /\ packed' = packed
  BY DEF GetBool
<1>2. Walking /\ Reader.due /\ Reader.type = VarintType
  BY <1>1, DueOf
<1>3. ReadsBody(text, Reader, x)
  BY <1>2, DueIs, SkipReads
<1>4. payload \in Seq(Byte)
  <2>1. b \in Byte
    BY Widths DEF Byte
  <2> HIDE DEF b, Byte
  <2> QED
    BY <2>1
<1> HIDE DEF x, payload
<1> QED
  BY <1>1, <1>2, <1>3, <1>4, BodyReads, GotAlone

LEMMA GetFixedKeeps ==
  ASSUME ReaderInv(text, readers, packed, fault), GetFixed
  PROVE  ReaderInv(text', readers', packed', fault')
<1> DEFINE n == IF Reader.type = Fixed32Type THEN Fixed32 ELSE Fixed64
           x == SkipBytes(Reader.at, n)
           payload == Behind(x.at, n)
<1>1. (Due(Fixed32Type) \/ Due(Fixed64Type)) /\ Got(x, payload) /\ packed' = packed
  BY DEF GetFixed
<1>2. Walking /\ Reader.due /\ Reader.type \in {Fixed32Type, Fixed64Type}
  BY <1>1, DueOf
<1>w. OfWidth(Reader.type, n)
  BY <1>2, WireTypesDiffer DEF OfWidth
<1>3. ReadsBody(text, Reader, x) /\ (x.error = "none" => x.at = Reader.at + n /\ n \in Nat)
  BY <1>2, <1>w, DueIs, SkipBytesIs
<1> HIDE DEF x, n
<1>4. Reads(x)
  BY <1>3, BodyReads
<1>5. ASSUME x.error = "none" PROVE payload \in Seq(Byte)
  <2> DEFINE a == x.at
  <2>1. a \in Nat /\ a <= Len(text) /\ n \in Nat /\ n <= a /\ text \in Seq(Byte)
    BY <1>2, <1>3, <1>4, <1>5, DueIs DEF Reads
  <2> HIDE DEF a
  <2>2. Behind(a, n) \in Seq(Byte)
    BY <2>1, BehindIs
  <2> QED
    BY <2>2 DEF a
<1> HIDE DEF payload
<1> QED
  BY <1>1, <1>2, <1>4, <1>5, GotAlone

LEMMA LenReads ==
  ASSUME ReaderInv(text, readers, packed, fault), Due(LengthDelimited), NEW x, x = LenAndSkip
  PROVE  /\ Walking /\ Reader.due /\ ReadsDelimited(text, Reader, x) /\ Reads(x)
         /\ x.error = "none" => Behind(x.at, x.value) \in Seq(Byte)
<1>1. Walking /\ Reader.due /\ Reader.type = LengthDelimited
  BY DueOf
<1>2. ReadsDelimited(text, Reader, x)
  BY <1>1, DueIs, LenAndSkipIs
<1>3. Reads(x)
  BY <1>2, DelimitedReads, BodyReads
<1>4. x.error = "none" => Behind(x.at, x.value) \in Seq(Byte)
  BY <1>1, <1>2, ViewIs
<1> QED
  BY <1>1, <1>2, <1>3, <1>4

LEMMA GetViewKeeps ==
  ASSUME ReaderInv(text, readers, packed, fault), GetView
  PROVE  ReaderInv(text', readers', packed', fault')
<1> DEFINE x == LenAndSkip
           payload == Behind(x.at, x.value)
<1>1. Due(LengthDelimited) /\ Got(x, payload) /\ packed' = packed
  BY DEF GetView
<1>2. Walking /\ Reader.due /\ Reads(x) /\ (x.error = "none" => payload \in Seq(Byte))
  BY <1>1, LenReads
<1> HIDE DEF x, payload
<1> QED
  BY <1>1, <1>2, GotAlone

LEMMA SeekKeeps ==
  ASSUME ReaderInv(text, readers, packed, fault), Seek \/ Found
  PROVE  ReaderInv(text', readers', packed', fault')
BY DEF Seek, Found

LEMMA ReturnKeeps ==
  ASSUME ReaderInv(text, readers, packed, fault), NextReturnsFalse
  PROVE  ReaderInv(text', readers', packed', fault')
<1>1. Walking /\ readers' = Front(readers) /\ text' = text /\ packed' = packed /\ fault' = fault
  BY DEF NextReturnsFalse, Idle
<1>2. /\ ReaderInv(text, readers, packed, "none") /\ fault = "none"
      /\ readers # <<>> /\ packed.kind = "none"
  BY <1>1, WalkingIs
<1>3. ReaderInv(text, Front(readers), packed, "none")
  BY <1>2, GoesBack
<1> QED
  BY <1>1, <1>2, <1>3

LEMMA NextFieldKeeps ==
  ASSUME ReaderInv(text, readers, packed, fault), NextField
  PROVE  ReaderInv(text', readers', packed', fault')
<1>1. text' = text /\ packed' = packed /\ \E r : Settles(r)
  BY NextFieldSettles
<1>2. /\ ReaderInv(text, readers, packed, "none") /\ fault = "none"
      /\ readers # <<>> /\ packed.kind = "none"
  BY WalkingIs DEF NextField, Idle
<1>3. PICK r : Settles(r)
  BY <1>1
<1>4. ReaderInv(text, readers', packed, fault')
  BY <1>2, <1>3, SettlesKeeps
<1> QED
  BY <1>1, <1>4

-----------------------------------------------------------------------------
(* Submessages and packed fields.                                          *)

LEMMA NewReaderIs ==
  ASSUME NEW t \in Seq(Byte), NEW b \in Nat, NEW e \in Nat, b <= e, e <= Len(t),
         NEW v, v = NewReader(b, e)
  PROVE  v \in ReaderType /\ Placed(t, v) /\ Between(t, v)
<1>1. /\ v.begin = b /\ v.from = b /\ v.at = b /\ v.end = e /\ ~v.due /\ v.got = <<>>
  BY DEF NewReader
<1>2. v \in ReaderType
  <2> HIDE DEF Fields
  <2>1. <<>> \in Seq(Fields)
    BY EmptySeq
  <2>2. 0 \in Nat /\ 99 \in Nat /\ FALSE \in BOOLEAN
    OBVIOUS
  <2> QED
    BY <2>1, <2>2 DEF ReaderType, NewReader
<1>3. Placed(t, v)
  BY <1>1 DEF Placed
<1>4. Between(t, v)
  BY <1>1 DEF Between
<1> QED
  BY <1>2, <1>3, <1>4

LEMMA GetMessageKeeps ==
  ASSUME ReaderInv(text, readers, packed, fault), GetMessage
  PROVE  ReaderInv(text', readers', packed', fault')
<1> DEFINE x == LenAndSkip
           q == Reader
           t == text
           f == [tag |-> q.tag, type |-> q.type, payload |-> Behind(x.at, x.value)]
           p == [q EXCEPT !.at = x.at, !.due = FALSE, !.tag = 0, !.got = Append(@, f)]
           v == NewReader(x.at - x.value, x.at)
           w == [q EXCEPT !.at = x.at]
<1>1. Due(LengthDelimited) /\ text' = text /\ packed' = packed
      /\ IF x.error = "none" THEN Nested(readers, readers', p, v) /\ fault' = fault
         ELSE Turned(readers, readers', w) /\ fault' = x.error
  BY DEF GetMessage, Nested, Turned, Update, Throw
<1>2. /\ Walking /\ q.due /\ ReadsDelimited(t, q, x) /\ Reads(x)
      /\ x.error = "none" => Behind(x.at, x.value) \in Seq(Byte)
  BY <1>1, LenReads
<1>3. /\ ReaderInv(t, readers, packed, "none") /\ fault = "none"
      /\ readers # <<>> /\ packed.kind = "none" /\ t \in Seq(Byte)
      /\ q \in ReaderType /\ Placed(t, q)
  BY <1>2, WalkingIs
<1>4. /\ q.begin \in Nat /\ q.from \in Nat /\ q.at \in Nat /\ q.end \in Nat
      /\ q.begin <= q.from /\ q.from <= q.at /\ q.at <= q.end /\ q.end <= Len(t)
      /\ x.at \in Nat /\ q.at <= x.at /\ x.at <= q.end
  BY <1>2, <1>3 DEF Placed, Reads
<1>5. CASE x.error = "none"
  <2>1. Nested(readers, readers', p, v) /\ fault' = "none"
    BY <1>1, <1>3, <1>5
  <2>2. f \in Fields
    BY <1>2, <1>3, <1>5 DEF Fields, ReaderType
  <2>3. GotAs(p, q, x.at, 0, f)
    BY DEF GotAs
  <2>4. \E m : FieldAt(t, q.from, x.at, m)
    BY <1>2, <1>5 DEF Reads
  <2> DEFINE a == x.at
             b == x.at - x.value
  <2>5. a \in Nat /\ b \in Nat /\ b <= a /\ a <= Len(t)
    BY <1>2, <1>5, ViewIs, <1>3, <1>4
  <2>6. v = NewReader(b, a)
    OBVIOUS
  <2> HIDE DEF q, f, t, p, v, x
  <2>a. q \in ReaderType /\ x.at \in Nat /\ 0 \in Nat
    BY <1>3, <1>4
  <2>7. /\ p \in ReaderType /\ p.at = x.at /\ p.begin = q.begin /\ p.from = q.from /\ p.end = q.end
        /\ ~p.due
    BY ONLY <2>a, <2>2, <2>3, HasGot
  <2>8. Placed(t, p)
    BY <1>4, <2>7 DEF Placed
  <2>9. Between(t, p)
    BY <2>4, <2>7 DEF Between
  <2> HIDE DEF a, b
  <2>10. v \in ReaderType /\ Placed(t, v) /\ Between(t, v)
    BY <1>3, <2>5, <2>6, NewReaderIs
  <2>11. ReaderInv(t, readers', packed, "none")
    BY <1>3, <2>1, <2>7, <2>8, <2>9, <2>10, GoesIn
  <2> QED
    BY <1>1, <2>1, <2>11 DEF t
<1>6. CASE x.error # "none"
  <2>1. Turned(readers, readers', w) /\ fault' = x.error
    BY <1>1, <1>6
  <2>2. HasCause(t, q, x.error)
    BY <1>2, <1>6 DEF Reads
  <2> HIDE DEF q, t, x
  <2>4. /\ w \in ReaderType /\ w.at = x.at /\ w.begin = q.begin /\ w.from = q.from /\ w.end = q.end
        /\ w.tag = q.tag
    BY <1>3, <1>4, HasThrown
  <2> HIDE DEF w
  <2>5. Placed(t, w)
    BY <1>4, <2>4 DEF Placed
  <2>6. HasCause(t, w, x.error)
    BY <2>2, <2>4 DEF HasCause, KindOf
  <2> DEFINE e == x.error
  <2>7. e # "none" /\ HasCause(t, w, e)
    BY <1>6, <2>6
  <2> HIDE DEF e
  <2>8. ReaderInv(t, readers', packed, e)
    BY <1>3, <2>1, <2>4, <2>5, <2>7, BreaksOff
  <2> QED
    BY <1>1, <2>1, <2>8 DEF t, e
<1> QED
  BY <1>5, <1>6

LEMMA EndsAreFinite ==
  ASSUME NEW t, NEW a \in Nat, NEW b \in Nat
  PROVE  IsFiniteSet(Ends(t, a, b)) /\ Cardinality(Ends(t, a, b)) \in Nat
<1>1. IsFiniteSet(a .. b - 1)
  BY FS_Interval
<1>2. Ends(t, a, b) \subseteq a .. b - 1
  BY DEF Ends
<1>3. IsFiniteSet(Ends(t, a, b))
  BY <1>1, <1>2, FS_Subset
<1> QED
  BY <1>3, FS_CardinalityType

\* A varint has one last byte.
LEMMA OneEndLess ==
  ASSUME NEW t \in Seq(Byte), NEW a \in Nat, NEW m \in Nat, NEW b \in Nat, a <= m, m <= b, b <= Len(t),
         VarintAt(t, a, m)
  PROVE  Cardinality(Ends(t, a, b)) = Cardinality(Ends(t, m, b)) + 1
<1> DEFINE z == m - 1
<1>1. m <= Len(t)
  OBVIOUS
<1>2. /\ m - a \in 1 .. MaxVarintLength
      /\ \A r \in a .. m - 2 : Continues(t[r + 1])
      /\ ~Continues(t[m])
  BY <1>1, VarintAtIs
<1>3. a + 1 <= m
  BY <1>2, Widths
<1>4. z \notin Ends(t, m, b)
  BY DEF Ends
<1>5. Ends(t, a, b) = Ends(t, m, b) \cup {z}
  <2>1. ASSUME NEW r \in Ends(t, a, b) PROVE r \in Ends(t, m, b) \cup {z}
    <3>1. r \in a .. b - 1 /\ ~Continues(t[r + 1])
      BY <2>1 DEF Ends
    <3>2. r \notin a .. m - 2
      BY <1>2, <3>1
    <3>3. r = m - 1 \/ r \in m .. b - 1
      BY <3>1, <3>2
    <3> QED
      BY <3>1, <3>3 DEF Ends
  <2>2. ASSUME NEW r \in Ends(t, m, b) PROVE r \in Ends(t, a, b)
    <3>1. r \in m .. b - 1 /\ ~Continues(t[r + 1])
      BY <2>2 DEF Ends
    <3>2. r \in a .. b - 1
      BY <3>1
    <3> QED
      BY <3>1, <3>2 DEF Ends
  <2>3. z \in Ends(t, a, b)
    <3>1. z \in a .. b - 1 /\ z + 1 = m
      BY <1>3
    <3> QED
      BY <1>2, <3>1 DEF Ends
  <2> QED
    BY <2>1, <2>2, <2>3
<1>6. IsFiniteSet(Ends(t, m, b))
  BY EndsAreFinite
<1> HIDE DEF z
<1> QED
  BY <1>4, <1>5, <1>6, FS_AddElement

LEMMA ElementSizeIs ==
  ASSUME NEW kind
  PROVE  ElementSize(kind) \in Nat /\ ElementSize(kind) > 0
BY Sizes, Zenon DEF ElementSize

\* A packed field whose elements are all to come.
Fresh(p, kind, at, to, size) ==
  p = [kind |-> kind, at |-> at, end |-> to, size |-> size, elements |-> <<>>]

LEMMA FreshIs ==
  ASSUME NEW kind, kind \in PackedKinds, NEW at, at \in Nat, NEW to, to \in Nat,
         NEW size, size \in Nat, NEW p, Fresh(p, kind, at, to, size)
  PROVE  p \in PackedType
<1>1. <<>> \in Seq(Seq(Byte))
  BY EmptySeq
<1> QED
  BY <1>1 DEF Fresh, PackedType

\* An element more.
Longer(p2, p, at, e) == p2 = [p EXCEPT !.at = at, !.elements = Append(@, e)]

LEMMA LongerIs ==
  ASSUME NEW p, p \in PackedType, NEW at, at \in Nat, NEW e, e \in Seq(Byte),
         NEW p2, Longer(p2, p, at, e)
  PROVE  /\ p2 \in PackedType /\ p2.kind = p.kind /\ p2.at = at /\ p2.end = p.end
         /\ p2.size = p.size /\ Len(p2.elements) = Len(p.elements) + 1 /\ Len(p.elements) \in Nat
<1>1. p.elements \in Seq(Seq(Byte))
  BY DEF PackedType
<1>2. Append(p.elements, e) \in Seq(Seq(Byte)) /\ Len(Append(p.elements, e)) = Len(p.elements) + 1
      /\ Len(p.elements) \in Nat
  BY <1>1, AppendProperties
<1>3. p2.elements = Append(p.elements, e) /\ p2 \in PackedType
      /\ p2.kind = p.kind /\ p2.at = at /\ p2.end = p.end /\ p2.size = p.size
  BY <1>2 DEF PackedType, Longer
<1> QED
  BY <1>2, <1>3

LEMMA PackedIs ==
  ASSUME ReaderInv(text, readers, packed, fault), fault = "none", packed.kind # "none"
  PROVE  /\ ReaderInv(text, readers, packed, "none") /\ Fits(text, packed) /\ text \in Seq(Byte)
         /\ packed \in PackedType /\ packed.at \in Nat /\ packed.end \in Nat
         /\ packed.at <= packed.end /\ packed.end <= Len(text) /\ readers # <<>>
<1>1. Fits(text, packed) /\ text \in Seq(Byte) /\ readers # <<>>
  BY DEF ReaderInv
<1> QED
  BY <1>1 DEF Fits, PackedType

LEMMA GetPackedVarintsKeeps ==
  ASSUME ReaderInv(text, readers, packed, fault), GetPackedVarints
  PROVE  ReaderInv(text', readers', packed', fault')
<1> DEFINE x == LenAndSkip
           payload == Behind(x.at, x.value)
           a == x.at
           b == x.at - x.value
           s == CountVarints(x.at - x.value, x.at)
<1>1. Due(LengthDelimited) /\ KindOf(Reader) \in {"ints", "sints"} /\ Got(x, payload)
      /\ packed' = IF x.error # "none" THEN packed
                   ELSE [kind |-> KindOf(Reader), at |-> x.at - x.value, end |-> x.at,
                         size |-> CountVarints(x.at - x.value, x.at), elements |-> <<>>]
  BY DEF GetPackedVarints
<1>2. /\ Walking /\ Reader.due /\ ReadsDelimited(text, Reader, x) /\ Reads(x)
      /\ x.error = "none" => payload \in Seq(Byte)
  BY <1>1, LenReads
<1>p. x.error = "none" => Fresh(packed', KindOf(Reader), b, a, s)
  BY <1>1 DEF Fresh
<1> HIDE DEF x, payload
<1>3. ASSUME x.error = "none" PROVE Fits(text, packed')
  <2>1. a \in Nat /\ b \in Nat /\ b <= a /\ a <= Len(text)
    BY <1>2, <1>3, ViewIs, DueIs
  <2>2. s = Cardinality(Ends(text, b, a))
    BY DEF CountVarints, Ends
  <2> HIDE DEF a, b
  <2>3. s \in Nat
    BY <2>1, <2>2, EndsAreFinite
  <2> HIDE DEF s
  <2>4. KindOf(Reader) \in PackedKinds
    BY <1>1 DEF PackedKinds
  <2>5. /\ packed' \in PackedType /\ packed'.kind = KindOf(Reader) /\ packed'.at = b
        /\ packed'.end = a /\ packed'.size = s /\ Len(packed'.elements) = 0
    <3>1. Fresh(packed', KindOf(Reader), b, a, s)
      BY <1>p, <1>3, <2>1, <2>3, <2>4
    <3>2. packed' \in PackedType
      BY <1>p, <1>3, <2>1, <2>3, <2>4, <3>1, FreshIs
    <3>3. /\ packed'.kind = KindOf(Reader) /\ packed'.at = b
          /\ packed'.end = a /\ packed'.size = s /\ packed'.elements = <<>>
      BY ONLY <3>1 DEF Fresh
    <3> QED
      BY <3>2, <3>3, EmptySeq
  <2>6. packed'.size = Len(packed'.elements) + Cardinality(Ends(text, packed'.at, packed'.end))
    BY <2>2, <2>3, <2>5
  <2> QED
    BY <1>1, <2>1, <2>5, <2>6 DEF Fits
<1>4. x.error # "none" => packed' = packed
  BY <1>1
<1>5. packed'.kind # "none" => Fits(text, packed')
  BY <1>2, <1>3, <1>4, WalkingIs
<1> QED
  BY <1>1, <1>2, <1>4, <1>5, GotKeeps

IsResult(x) == \E e, a, v : x = [error |-> e, at |-> a, value |-> v]

LEMMA ResultIs ==
  ASSUME NEW l, l = LenAndSkip
  PROVE  l = [error |-> l.error, at |-> l.at, value |-> l.value]
<1>1. \A e, a : IsResult(Fails(e, a))
  BY DEF IsResult, Fails
<1>2. \A a, v : IsResult(Read(a, v))
  BY DEF IsResult, Read
<1>3. IsResult(DecodeVarint(text, Reader.at, Reader.end))
  BY <1>1, <1>2, Zenon DEF DecodeVarint
<1>4. IsResult(l)
  BY <1>1, <1>2, <1>3, Zenon DEF LenAndSkip
<1> QED
  BY <1>4 DEF IsResult

LEMMA GetPackedFixedKeeps ==
  ASSUME ReaderInv(text, readers, packed, fault), GetPackedFixed
  PROVE  ReaderInv(text', readers', packed', fault')
<1> DEFINE l == LenAndSkip
           n == ElementSize(KindOf(Reader))
           x == IF l.error = "none" /\ l.value % n # 0 THEN [l EXCEPT !.error = "invalid_length"] ELSE l
           payload == Behind(x.at, x.value)
           a == x.at
           b == x.at - x.value
           s == x.value \div n
<1>1. Due(LengthDelimited) /\ KindOf(Reader) \in {"fixeds32", "fixeds64"} /\ Got(x, payload)
      /\ packed' = IF x.error # "none" THEN packed
                   ELSE [kind |-> KindOf(Reader), at |-> x.at - x.value, end |-> x.at,
                         size |-> x.value \div n, elements |-> <<>>]
  BY DEF GetPackedFixed
<1>2. /\ Walking /\ Reader.due /\ ReadsDelimited(text, Reader, l) /\ Reads(l)
      /\ l.error = "none" => Behind(l.at, l.value) \in Seq(Byte)
  BY <1>1, LenReads
<1>p. x.error = "none" => Fresh(packed', KindOf(Reader), b, a, s)
  BY <1>1 DEF Fresh
<1>n. n \in Nat /\ n > 0
  BY ElementSizeIs
<1>l. l = [error |-> l.error, at |-> l.at, value |-> l.value]
  BY ResultIs
<1>3. CASE l.error = "none" /\ l.value % n # 0
  <2>1. x.error = "invalid_length" /\ x.at = l.at
    <3> HIDE DEF l
    <3>1. [l EXCEPT !.error = "invalid_length"] = [error |-> "invalid_length", at |-> l.at, value |-> l.value]
      BY <1>l
    <3>2. x = [l EXCEPT !.error = "invalid_length"]
      BY <1>3
    <3> QED
      BY <3>1, <3>2
  <2>2. \A to \in Reader.from .. Reader.end : \A m : FieldAt(text, Reader.from, to, m) => m = l.value
    BY <1>2, <1>3 DEF ReadsDelimited
  <2>3. HasCause(text, Reader, x.error)
    BY <1>3, <2>1, <2>2 DEF HasCause
  <2>4. Reads(x)
    <3>1. x.at \in Reader.at .. Reader.end
      BY <1>2, <2>1 DEF Reads
    <3> QED
      BY <2>1, <2>3, <3>1 DEF Reads
  <2> HIDE DEF x, payload
  <2>5. packed' = packed /\ x.error # "none"
    BY <1>1, <2>1
  <2> QED
    BY <1>1, <1>2, <2>4, <2>5, GotAlone
<1>4. CASE ~(l.error = "none" /\ l.value % n # 0)
  <2>1. x = l
    BY <1>4
  <2>2. Reads(x) /\ (x.error = "none" => payload \in Seq(Byte))
    BY <1>2, <2>1
  <2>3. ASSUME x.error = "none" PROVE Fits(text, packed')
    <3>1. a \in Nat /\ b \in Nat /\ b <= a /\ a <= Len(text) /\ x.value \in Nat
      BY <1>2, <2>1, <2>3, ViewIs, DueIs
    <3>2. x.value % n = 0
      BY <1>4, <2>1, <2>3
    <3> DEFINE m == x.value
    <3>3. m \in Nat /\ a - b = m /\ m % n = 0 /\ s = m \div n
      BY <3>1, <3>2
    <3> HIDE DEF x, m, n, a, b
    <3>4. s \in Nat /\ m = n * s
      BY <1>n, <3>3, Division
    <3> HIDE DEF s
    <3>5. KindOf(Reader) \in PackedKinds /\ KindOf(Reader) \notin {"ints", "sints"}
      BY <1>1 DEF PackedKinds
    <3>8. Fresh(packed', KindOf(Reader), b, a, s) /\ a \in Nat /\ b \in Nat /\ s \in Nat
      BY <1>p, <2>3, <3>1, <3>4
    <3>6. /\ packed' \in PackedType /\ packed'.kind = KindOf(Reader) /\ packed'.at = b
          /\ packed'.end = a /\ packed'.size = s /\ Len(packed'.elements) = 0
      <4>1. Fresh(packed', KindOf(Reader), b, a, s)
        BY <3>5, <3>8
      <4>2. packed' \in PackedType
        BY <3>5, <3>8, <4>1, FreshIs
      <4>3. /\ packed'.kind = KindOf(Reader) /\ packed'.at = b
            /\ packed'.end = a /\ packed'.size = s /\ packed'.elements = <<>>
        BY ONLY <4>1 DEF Fresh
      <4> QED
        BY <4>2, <4>3, EmptySeq
    <3>7. packed'.size = Len(packed'.elements) + s
      BY <3>4, <3>6
    <3>9. packed'.end - packed'.at = n * s
      BY <3>3, <3>4, <3>6
    <3>10. n = ElementSize(packed'.kind)
      BY <3>6 DEF n
    <3> QED
      BY <3>1, <3>4, <3>5, <3>6, <3>7, <3>9, <3>10 DEF Fits
  <2> HIDE DEF x, payload
  <2>4. x.error # "none" => packed' = packed
    BY <1>1
  <2>5. packed'.kind # "none" => Fits(text, packed')
    BY <1>2, <2>3, <2>4, WalkingIs
  <2> QED
    BY <1>1, <1>2, <2>2, <2>4, <2>5, GotKeeps
<1> QED
  BY <1>3, <1>4

LEMMA NextVarintKeeps ==
  ASSUME ReaderInv(text, readers, packed, fault), NextVarint
  PROVE  ReaderInv(text', readers', packed', fault')
<1> DEFINE t == text
           p == packed
           r == DecodeVarint(t, p.at, p.end)
           s == SkipVarint(t, p.at, p.end)
           v == IF p.kind = "sints" THEN EncodeZigzag(DecodeZigzag(r.value)) ELSE r.value
           e == EncodeVarint(v)
<1>1. /\ fault = "none" /\ p.kind \in {"ints", "sints"} /\ text' = text /\ readers' = readers
      /\ IF r.error # "none" THEN fault' = r.error /\ packed' = packed
         ELSE Longer(packed', p, s.at, e) /\ fault' = s.error
  BY DEF NextVarint, Throw, Longer
<1>2. /\ ReaderInv(t, readers, p, "none") /\ Fits(t, p) /\ t \in Seq(Byte)
      /\ p \in PackedType /\ p.at \in Nat /\ p.end \in Nat
      /\ p.at <= p.end /\ p.end <= Len(t) /\ readers # <<>>
  BY <1>1, PackedIs
<1>3. \/ /\ r = [error |-> "none", at |-> r.at, value |-> r.value]
         /\ r.at \in p.at + 1 .. p.end /\ VarintAt(t, p.at, r.at)
         /\ r.value = ValueOf(Slice(t, p.at, r.at)) /\ r.value \in 0 .. Word - 1
      \/ /\ r.error \in {"varint_too_long", "end_of_buffer"} /\ r.at = p.at
         /\ \A n \in p.at .. p.end : ~VarintAt(t, p.at, n)
  BY <1>2, DecodeIs
<1>4. \/ /\ s = [error |-> "none", at |-> s.at, value |-> 0]
         /\ s.at \in p.at + 1 .. p.end /\ VarintAt(t, p.at, s.at)
      \/ /\ s.error \in {"varint_too_long", "end_of_buffer"} /\ s.at = p.at
         /\ \A n \in p.at .. p.end : ~VarintAt(t, p.at, n)
  BY <1>2, SkipIs
<1> HIDE DEF t, p, r, s
<1>5. CASE /\ r.error \in {"varint_too_long", "end_of_buffer"}
           /\ \A n \in p.at .. p.end : ~VarintAt(t, p.at, n)
  <2> DEFINE f == r.error
  <2>1. fault' = f /\ packed' = packed /\ f # "none"
    BY <1>1, <1>5
  <2> HIDE DEF f
  <2>2. p.kind # "none"
    BY <1>1
  <2>3. ReaderInv(t, readers, p, f)
    BY <1>2, <1>5, <2>1, <2>2, PackedBreaks
  <2> QED
    BY <1>1, <2>1, <2>3 DEF t, p
<1>6. CASE /\ r = [error |-> "none", at |-> r.at, value |-> r.value]
           /\ r.at \in p.at + 1 .. p.end /\ VarintAt(t, p.at, r.at)
           /\ r.value = ValueOf(Slice(t, p.at, r.at)) /\ r.value \in 0 .. Word - 1
  <2>1. r.error = "none"
    BY <1>6
  <2>2. r.at \in p.at .. p.end
    BY <1>2, <1>6
  <2>3. /\ s = [error |-> "none", at |-> s.at, value |-> 0]
        /\ s.at \in p.at + 1 .. p.end /\ VarintAt(t, p.at, s.at)
    BY <1>4, <1>6, <2>2
  <2>4. Longer(packed', p, s.at, e) /\ fault' = "none"
    BY <1>1, <2>1, <2>3
  <2>5. s.at \in Nat /\ p.at <= s.at /\ s.at <= p.end
    BY <1>2, <2>3
  <2>6. e \in Seq(Byte)
    <3>1. r.value \in Nat /\ r.value \in 0 .. Word - 1
      BY <1>6, Widths
    <3>2. v = r.value
      BY <3>1, ZigzagBack
    <3> HIDE DEF v
    <3> QED
      BY <3>1, <3>2, EncodeIs
  <2> HIDE DEF e
  <2> DEFINE q == packed'
             m == s.at
             a == p.at
             b == p.end
  <2>7. Longer(q, p, m, e) /\ m \in Nat
    BY <2>4, <2>5
  <2> HIDE DEF q, m
  <2>8. /\ q \in PackedType /\ q.kind = p.kind /\ q.at = m /\ q.end = p.end
        /\ q.size = p.size /\ Len(q.elements) = Len(p.elements) + 1 /\ Len(p.elements) \in Nat
    BY <1>2, <2>6, <2>7, LongerIs
  <2>9. p.size = Len(p.elements) + Cardinality(Ends(t, a, b))
    BY <1>1, <1>2 DEF Fits
  <2>10. /\ a \in Nat /\ b \in Nat /\ a <= m /\ m <= b /\ b <= Len(t) /\ VarintAt(t, a, m)
    BY <1>2, <2>3, <2>5 DEF m
  <2>11. q.end = b
    BY <2>8
  <2> HIDE DEF a, b
  <2>12. Cardinality(Ends(t, a, b)) = Cardinality(Ends(t, m, b)) + 1
    BY <1>2, <2>7, <2>10, OneEndLess
  <2>13. Cardinality(Ends(t, m, b)) \in Nat
    BY <2>7, <2>10, EndsAreFinite
  <2>14. q.size = Len(q.elements) + Cardinality(Ends(t, q.at, q.end))
    <3> DEFINE c == Cardinality(Ends(t, m, b))
    <3>1. q.size = Len(p.elements) + (c + 1) /\ c \in Nat
      BY <2>8, <2>9, <2>12, <2>13
    <3> HIDE DEF c
    <3>2. Len(p.elements) + (c + 1) = Len(q.elements) + c
      <4> DEFINE x == Len(p.elements)
                 y == Len(q.elements)
      <4>1. x \in Nat /\ y = x + 1
        BY <2>8
      <4> HIDE DEF x, y
      <4>2. x + (c + 1) = y + c
        BY <3>1, <4>1
      <4> QED
        BY <4>2 DEF x, y
    <3>3. q.size = Len(q.elements) + c
      BY <3>1, <3>2
    <3> QED
      BY <2>8, <2>11, <3>3 DEF c
  <2>15. Fits(t, q)
    BY <1>1, <2>8, <2>10, <2>11, <2>14 DEF Fits
  <2>16. ReaderInv(t, readers, q, "none")
    BY <1>2, <2>15, PackedMoves
  <2> QED
    BY <1>1, <2>4, <2>16 DEF t, q
<1> QED
  BY <1>3, <1>5, <1>6

LEMMA StillMultiple ==
  ASSUME NEW n \in Nat, n > 0, NEW left \in Nat, NEW d \in Nat, d # 0, d = n * left
  PROVE  left - 1 \in Nat /\ d - n = n * (left - 1) /\ n <= d
<1>1. left # 0
  OBVIOUS
<1>2. left - 1 \in Nat
  BY <1>1
<1>3. n * left = n * (left - 1) + n
  OBVIOUS
<1>4. n * (left - 1) \in Nat
  BY <1>2, Products
<1> QED
  BY <1>2, <1>3, <1>4

LEMMA NextFixedKeeps ==
  ASSUME ReaderInv(text, readers, packed, fault), NextFixed
  PROVE  ReaderInv(text', readers', packed', fault')
<1> DEFINE t == text
           p == packed
           n == ElementSize(p.kind)
           a == p.at
           b == p.end
           m == p.at + n
           e == SubSeq(t, p.at + 1, p.at + n)
           q == packed'
<1>1. /\ fault = "none" /\ p.kind \in {"fixeds32", "fixeds64"} /\ text' = text /\ readers' = readers
      /\ fault' = fault /\ Longer(q, p, m, e) /\ a # b
  BY DEF NextFixed, Longer
<1>2. /\ ReaderInv(t, readers, p, "none") /\ Fits(t, p) /\ t \in Seq(Byte)
      /\ p \in PackedType /\ a \in Nat /\ b \in Nat
      /\ a <= b /\ b <= Len(t) /\ readers # <<>>
  BY <1>1, PackedIs
<1>3. n \in Nat /\ n > 0
  BY ElementSizeIs
<1>4. PICK left \in Nat : b - a = n * left /\ p.size = Len(p.elements) + left
  BY <1>1, <1>2 DEF Fits
<1>e. e = Slice(t, a, m)
  BY DEF Slice
<1>m. m = a + n
  OBVIOUS
<1>k. n = ElementSize(p.kind)
  OBVIOUS
<1>b. b = p.end
  OBVIOUS
<1> HIDE DEF t, p, n, a, b, m, e, q
<1>5. left - 1 \in Nat /\ (b - a) - n = n * (left - 1) /\ n <= b - a
  <2> DEFINE d == b - a
  <2>1. d \in Nat /\ d # 0 /\ d = n * left
    BY <1>1, <1>2, <1>4
  <2> HIDE DEF d
  <2>2. left - 1 \in Nat /\ d - n = n * (left - 1) /\ n <= d
    BY <1>3, <2>1, StillMultiple
  <2> QED
    BY <2>2 DEF d
<1>6. m \in Nat /\ a <= m /\ m <= b /\ m <= Len(t)
  BY <1>2, <1>3, <1>5, <1>m
<1>7. e \in Seq(Byte)
  BY <1>2, <1>6, <1>e, SliceIs
<1>8. /\ q \in PackedType /\ q.kind = p.kind /\ q.at = m /\ q.end = p.end
      /\ q.size = p.size /\ Len(q.elements) = Len(p.elements) + 1 /\ Len(p.elements) \in Nat
  BY <1>1, <1>2, <1>6, <1>7, LongerIs
<1> DEFINE l == left - 1
<1>9. l \in Nat /\ left = l + 1 /\ (b - a) - n = n * l
  BY <1>5
<1> HIDE DEF l
<1>10. q.size = Len(q.elements) + l
  <2> DEFINE x == Len(p.elements)
             y == Len(q.elements)
  <2>1. x \in Nat /\ y = x + 1
    BY <1>8
  <2>2. q.size = x + left
    BY <1>4, <1>8
  <2> HIDE DEF x, y
  <2>3. x + left = y + l
    BY <1>9, <2>1
  <2>4. q.size = y + l
    BY <2>2, <2>3
  <2> QED
    BY <2>4 DEF y
<1>11. q.end - q.at = n * l
  <2>1. q.end - q.at = (b - a) - n
    BY <1>2, <1>3, <1>8, <1>m, <1>b
  <2> QED
    BY <1>9, <2>1
<1>12. n = ElementSize(q.kind)
  BY <1>8, <1>k
<1>13. Fits(t, q)
  BY <1>1, <1>2, <1>6, <1>8, <1>9, <1>10, <1>11, <1>12, <1>b DEF Fits
<1>14. ReaderInv(t, readers, q, "none")
  BY <1>2, <1>13, PackedMoves
<1> QED
  BY <1>1, <1>14 DEF t, q

LEMMA PackedDoneKeeps ==
  ASSUME ReaderInv(text, readers, packed, fault), PackedDone
  PROVE  ReaderInv(text', readers', packed', fault')
<1>1. /\ fault = "none" /\ packed.kind # "none" /\ packed' = NoPacked /\ text' = text
      /\ readers' = readers /\ fault' = fault
  BY DEF PackedDone
<1>2. ReaderInv(text, readers, packed, "none")
  BY <1>1
<1>3. NoPacked.kind = "none"
  BY DEF NoPacked
<1>4. ReaderInv(text, readers, NoPacked, "none")
  BY <1>2, <1>3, PackedMoves
<1> QED
  BY <1>1, <1>4

LEMMA ReaderStepKeeps ==
  ASSUME ReaderInv(text, readers, packed, fault), ReaderNext
  PROVE  ReaderInv(text', readers', packed', fault')
BY NextFieldKeeps, ReturnKeeps, SeekKeeps, SkipKeeps, GetVarintKeeps, GetSvarintKeeps,
   GetBoolKeeps, GetFixedKeeps, GetViewKeeps, GetMessageKeeps, GetPackedVarintsKeeps,
   GetPackedFixedKeeps, NextVarintKeeps, NextFixedKeeps, PackedDoneKeeps
   DEF ReaderNext

-----------------------------------------------------------------------------
(* The invariant.                                                          *)

WireInv ==
  /\ WriterInv(data, writers)
  /\ ReaderInv(text, readers, packed, fault)
  /\ outcome # "closed" => readers = <<>> /\ packed = NoPacked /\ fault = "none"

LEMMA FirstReader ==
  ASSUME NEW t \in Seq(Byte), NEW rs, rs = <<NewReader(0, Len(t))>>
  PROVE  ReaderInv(t, rs, NoPacked, "none")
<1> DEFINE v == NewReader(0, Len(t))
<1>1. v \in ReaderType /\ Placed(t, v) /\ Between(t, v)
  <2>1. 0 \in Nat /\ Len(t) \in Nat /\ 0 <= Len(t) /\ Len(t) <= Len(t)
    OBVIOUS
  <2> QED
    BY <2>1, NewReaderIs
<1>2. rs = <<v>>
  OBVIOUS
<1> HIDE DEF v, ReaderType
<1>3. rs \in Seq(ReaderType) /\ Len(rs) = 1 /\ rs[1] = v
  BY <1>1, <1>2
<1>4. \A k \in 1 .. Len(rs) : Placed(t, rs[k]) /\ Between(t, rs[k])
  BY <1>1, <1>3
<1>5. NoPacked.kind = "none"
  BY DEF NoPacked
<1> QED
  BY <1>3, <1>4, <1>5 DEF ReaderInv

LEMMA FirstWriter ==
  ASSUME NEW d, d = <<>>, NEW ws, ws = <<NewWriter("message")>>
  PROVE  WriterInv(d, ws)
<1> DEFINE v == NewWriter("message")
<1>1. v \in WriterType
  BY NewWriterIs
<1>2. ws = <<v>>
  OBVIOUS
<1>3. d \in Seq(Byte) /\ Len(d) = 0 /\ 0 <= Capacity
  BY EmptySeq, CapacityIs
<1> HIDE DEF v, WriterType
<1>4. ws \in Seq(WriterType) /\ Len(ws) = 1
  BY <1>1, <1>2
<1>5. 1 .. Len(ws) - 1 = {}
  BY <1>4
<1> QED
  BY <1>3, <1>4, <1>5 DEF WriterInv

LEMMA WriterActs ==
  ASSUME WriterNext
  PROVE  outcome \in {"fine", "threw"}
<1>1. ASSUME NEW t \in Tag,
             \/ AddVarint(t) \/ AddBool(t) \/ AddFixed(t)
             \/ AddBytes(t) \/ AddBytesVectored(t) \/ AddPackedFixed(t)
      PROVE  outcome = "fine"
  BY <1>1 DEF AddVarint, AddBool, AddFixed, AddBytes, AddBytesVectored, AddPackedFixed, AddChunks
<1>2. ASSUME NEW t \in Tag, OpenPacked(t) \/ OpenMessage(t) \/ OpenKnownSize(t, 1)
      PROVE  outcome = "fine"
  BY <1>2 DEF OpenPacked, OpenMessage, OpenSubmessage, OpenKnownSize
<1>3. ASSUME AddElement PROVE outcome = "fine"
  BY <1>3 DEF AddElement, AddChunks
<1>4. ASSUME Destroy \/ Commit \/ Rollback \/ Catch PROVE outcome \in {"fine", "threw"}
  BY <1>4 DEF Destroy, Commit, Rollback, Catch
<1> QED
  BY <1>1, <1>2, <1>3, <1>4 DEF WriterNext

LEMMA ReaderActs ==
  ASSUME ReaderNext
  PROVE  readers # <<>> \/ packed.kind # "none"
BY DEF ReaderNext, NextField, NextReturnsFalse, Seek, Found, Skip, GetVarint, GetSvarint, GetBool,
       GetFixed, GetView, GetMessage, GetPackedVarints, GetPackedFixed, NextVarint, NextFixed,
       PackedDone, Due, Idle, Walking

LEMMA InitInv ==
  ASSUME Init
  PROVE  WireInv
<1>1. WriterInv(data, writers)
  BY FirstWriter DEF Init
<1>2. CASE outcome = "fine" /\ text = <<>> /\ readers = <<>>
  <2>1. text \in Seq(Byte) /\ readers \in Seq(ReaderType) /\ Len(readers) = 0
    BY <1>2, EmptySeq
  <2>2. packed = NoPacked /\ fault = "none" /\ NoPacked.kind = "none"
    BY DEF Init, NoPacked
  <2>3. 1 .. Len(readers) = {}
    BY <2>1
  <2>4. ReaderInv(text, readers, packed, fault)
    BY <2>1, <2>2, <2>3 DEF ReaderInv
  <2> QED
    BY <1>1, <1>2, <2>2, <2>4 DEF WireInv
<1>3. CASE outcome = "closed" /\ text \in Foreign /\ readers = <<NewReader(0, Len(text))>>
  <2>1. text \in Seq(Byte)
    BY <1>3, WireAssumption
  <2>2. ReaderInv(text, readers, NoPacked, "none")
    BY <1>3, <2>1, FirstReader
  <2> QED
    BY <1>1, <1>3, <2>2 DEF WireInv, Init
<1> QED
  BY <1>2, <1>3 DEF Init

LEMMA StepInv ==
  ASSUME WireInv, [Step]_vars
  PROVE  WireInv'
<1>0. WriterInv(data, writers) /\ ReaderInv(text, readers, packed, fault)
  BY DEF WireInv
<1>1. CASE Write
  <2>1. WriterNext /\ UNCHANGED readerVars
    BY <1>1 DEF Write
  <2>2. WriterInv(data', writers')
    BY <1>0, <2>1, WriterStepKeeps
  <2>3. outcome # "closed"
    BY <2>1, WriterActs
  <2>4. text' = text /\ readers' = readers /\ packed' = packed /\ fault' = fault
    BY <2>1 DEF readerVars
  <2>5. readers = <<>> /\ packed = NoPacked /\ fault = "none"
    BY <2>3 DEF WireInv
  <2>6. ReaderInv(text', readers', packed', fault')
    BY <1>0, <2>4
  <2>7. readers' = <<>> /\ packed' = NoPacked /\ fault' = "none"
    BY <2>4, <2>5
  <2> QED
    BY <2>2, <2>6, <2>7 DEF WireInv, NoPacked
<1>2. CASE HandOver
  <2>1. /\ outcome = "fine" /\ outcome' = "closed" /\ text' = data
        /\ readers' = <<NewReader(0, Len(data))>> /\ data' = data /\ writers' = writers
        /\ packed' = packed /\ fault' = fault
    BY <1>2 DEF HandOver
  <2>2. packed = NoPacked /\ fault = "none"
    BY <2>1 DEF WireInv
  <2>3. data \in Seq(Byte)
    BY <1>0 DEF WriterInv
  <2>4. ReaderInv(data, readers', NoPacked, "none")
    BY <2>1, <2>3, FirstReader
  <2>5. ReaderInv(text', readers', packed', fault')
    BY <2>1, <2>2, <2>4
  <2>6. WriterInv(data', writers')
    BY <1>0, <2>1
  <2> QED
    BY <2>1, <2>5, <2>6 DEF WireInv
<1>3. CASE ReadOn
  <2>1. ReaderNext /\ data' = data /\ writers' = writers /\ outcome' = outcome
    BY <1>3 DEF ReadOn, writerVars
  <2>2. outcome = "closed"
    BY <2>1, ReaderActs DEF WireInv, NoPacked
  <2>3. ReaderInv(text', readers', packed', fault')
    BY <1>0, <2>1, ReaderStepKeeps
  <2>4. WriterInv(data', writers')
    BY <1>0, <2>1
  <2> QED
    BY <2>1, <2>2, <2>3, <2>4 DEF WireInv
<1>4. CASE UNCHANGED vars
  BY <1>4 DEF WireInv, vars, writerVars, readerVars, NoPacked
<1> QED
  BY <1>1, <1>2, <1>3, <1>4 DEF Step, Ended

\* The positions that the writers remember are those of their keys and reserved
\* bytes, whatever has been written, erased or torn since, and the readers and
\* the packed iterator are between two fields, or two elements, of their views.
THEOREM WireInvariant == Spec => []WireInv
<1>1. Init => WireInv
  BY InitInv
<1>2. WireInv /\ [Step]_vars => WireInv'
  BY StepInv
<1> QED
  BY <1>1, <1>2, PTL DEF Spec

LEMMA SizesAreExact ==
  ASSUME WireInv
  PROVE  PackedSizeExact
<1> SUFFICES ASSUME packed.kind # "none"
             PROVE  /\ Len(packed.elements) <= packed.size
                    /\ packed.at = packed.end /\ fault = "none" => Len(packed.elements) = packed.size
  BY DEF PackedSizeExact
<1> DEFINE a == packed.at
           b == packed.end
           n == Len(packed.elements)
           s == packed.size
<1>1. Fits(text, packed)
  BY DEF WireInv, ReaderInv
<1>2. a \in Nat /\ b \in Nat /\ a <= b /\ n \in Nat
  BY <1>1 DEF Fits, PackedType
<1>3. CASE packed.kind \in {"ints", "sints"}
  <2> DEFINE c == Cardinality(Ends(text, a, b))
  <2>1. s = n + c
    BY <1>1, <1>3 DEF Fits
  <2> HIDE DEF a, b
  <2>2. c \in Nat
    BY <1>2, EndsAreFinite
  <2>3. ASSUME a = b PROVE c = 0
    <3>1. Ends(text, a, b) = {}
      BY <1>2, <2>3 DEF Ends
    <3> QED
      BY <3>1, FS_EmptySet
  <2> HIDE DEF c, n, s
  <2>4. n <= s /\ (a = b => n = s)
    BY <1>2, <2>1, <2>2, <2>3
  <2> QED
    BY <2>4 DEF a, b, n, s
<1>4. CASE packed.kind \notin {"ints", "sints"}
  <2> DEFINE m == ElementSize(packed.kind)
  <2>1. PICK left \in Nat : b - a = m * left /\ s = n + left
    BY <1>1, <1>4 DEF Fits
  <2>2. m \in Nat /\ m > 0
    BY ElementSizeIs
  <2> HIDE DEF a, b, m, n, s
  <2>3. n <= s
    BY <1>2, <2>1
  <2>4. ASSUME a = b PROVE n = s
    <3>1. m * left = 0
      BY <1>2, <2>1, <2>4
    <3>2. left = 0
      BY <2>2, <3>1, Products
    <3> QED
      BY <1>2, <2>1, <3>2
  <2> QED
    BY <2>3, <2>4 DEF a, b, n, s
<1> QED
  BY <1>3, <1>4

\* The size() of a packed field is the number of elements that the iteration
\* delivers, for a field of any length (iterators.hpp:107-109, 309-321).
THEOREM SizeIsExact == Spec => []PackedSizeExact
<1>1. WireInv => PackedSizeExact
  BY SizesAreExact
<1> QED
  BY <1>1, WireInvariant, PTL

\* A payload is part of its field.
LEMMA PayloadFits ==
  ASSUME NEW t \in Seq(Byte), NEW p \in Nat, NEW n \in Nat, p <= n, n <= Len(t), NEW m,
         FieldAt(t, p, n, m)
  PROVE  m \in 0 .. Len(Slice(t, p, n))
<1>1. Len(Slice(t, p, n)) = n - p
  BY SliceIs
<1>2. PICK k \in p + 1 .. n : BodyAt(t, Value32(t, p, k) % 8, k, n, m)
  BY DEF FieldAt
<1>3. k \in Nat /\ p <= k /\ k <= n
  OBVIOUS
<1>4. m \in Nat /\ m <= n - k
  <2>1. CASE m = n - k
    BY <1>3, <2>1
  <2>2. CASE DelimitedAt(t, k, n, m)
    <3>1. PICK j \in k + 1 .. n : m = n - j
      BY <2>2 DEF DelimitedAt
    <3> QED
      BY <1>3, <3>1
  <2> QED
    BY <1>2, <2>1, <2>2 DEF BodyAt
<1> QED
  BY <1>1, <1>3, <1>4

LEMMA FieldsAreConsumed ==
  ASSUME WireInv
  PROVE  ConsumesAField
<1> SUFFICES ASSUME NEW r \in ToSet(readers)
             PROVE  /\ r.begin <= r.at /\ r.at <= r.end
                    /\ ~r.due /\ fault = "none" /\ r.got # <<>> => IsField(SubSeq(text, r.from + 1, r.at))
  BY DEF ConsumesAField
<1>1. ReaderInv(text, readers, packed, fault)
  BY DEF WireInv
<1>2. PICK k \in 1 .. Len(readers) : r = readers[k]
  <2>1. DOMAIN readers = 1 .. Len(readers)
    BY <1>1 DEF ReaderInv
  <2> QED
    BY <2>1 DEF ToSet
<1>3. Placed(text, r) /\ (fault = "none" => Between(text, r)) /\ text \in Seq(Byte)
  BY <1>1, <1>2 DEF ReaderInv
<1> DEFINE a == r.from
           b == r.at
           t == text
<1>4. /\ a \in Nat /\ b \in Nat /\ a <= b /\ b <= Len(t)
      /\ r.begin <= r.at /\ r.at <= r.end
  <2>1. /\ r.begin \in Nat /\ r.from \in Nat /\ r.at \in Nat /\ r.end \in Nat /\ Len(t) \in Nat
        /\ r.begin <= r.from /\ r.from <= r.at /\ r.at <= r.end /\ r.end <= Len(t)
    BY <1>3 DEF Placed
  <2> QED
    BY <2>1
<1>5. ASSUME ~r.due, fault = "none", r.got # <<>> PROVE IsField(SubSeq(t, a + 1, b))
  <2>1. PICK m : FieldAt(t, a, b, m)
    BY <1>3, <1>5 DEF Between
  <2> HIDE DEF a, b, t
  <2>2. HasField(Slice(t, a, b), m)
    BY <1>3, <1>4, <2>1, FieldAtIs DEF t
  <2>3. m \in 0 .. Len(Slice(t, a, b))
    BY <1>3, <1>4, <2>1, PayloadFits DEF t
  <2> QED
    BY <2>2, <2>3 DEF IsField, Slice
<1> QED
  BY <1>4, <1>5

\* Whichever way a field of any text is read, the reader is behind it then, and
\* within its view (pbf_reader.hpp:76-140, 284-480).
THEOREM FieldIsConsumed == Spec => []ConsumesAField
<1>1. WireInv => ConsumesAField
  BY FieldsAreConsumed
<1> QED
  BY <1>1, WireInvariant, PTL

LEMMA CausesAreThere ==
  ASSUME WireInv
  PROVE  ThrowsForCause
<1> SUFFICES ASSUME fault # "none"
             PROVE  IF packed.kind # "none"
                    THEN \A n \in packed.at .. packed.end : ~IsVarint(SubSeq(text, packed.at + 1, n))
                    ELSE \A to \in Reader.from .. Reader.end : \A n \in 0 .. to :
                           HasField(SubSeq(text, Reader.from + 1, to), n) =>
                             fault = "invalid_length" /\ n % ElementSize(KindOf(Reader)) # 0
  BY DEF ThrowsForCause
<1>1. ReaderInv(text, readers, packed, fault)
  BY DEF WireInv
<1>2. CASE packed.kind # "none"
  BY <1>1, <1>2 DEF ReaderInv, VarintAt, Slice
<1>3. CASE packed.kind = "none"
  <2>1. HasCause(text, Reader, fault) /\ readers # <<>>
    BY <1>1, <1>3 DEF ReaderInv, Reader
  <2>2. Placed(text, Reader) /\ text \in Seq(Byte)
    BY <1>1, <2>1, ReaderIs DEF Reader, ReaderInv
  <2> DEFINE a == Reader.from
             b == Reader.end
             t == text
  <2>3. a \in Nat /\ b \in Nat /\ b <= Len(t) /\ t \in Seq(Byte)
    BY <2>2 DEF Placed
  <2>4. ASSUME NEW to \in a .. b, NEW n \in 0 .. to, HasField(SubSeq(t, a + 1, to), n)
        PROVE  fault = "invalid_length" /\ n % ElementSize(KindOf(Reader)) # 0
    <3>1. HasField(Slice(t, a, to), n)
      BY <2>4 DEF Slice
    <3>c. \A x \in a .. b : \A m : FieldAt(t, a, x, m) =>
            fault = "invalid_length" /\ m % ElementSize(KindOf(Reader)) # 0
      BY <2>1 DEF HasCause
    <3> HIDE DEF a, b, t
    <3>2. to \in Nat /\ a <= to /\ to <= Len(t)
      BY <2>3
    <3>3. FieldAt(t, a, to, n)
      BY <2>3, <3>1, <3>2, FieldAtIs
    <3> QED
      BY <3>c, <3>3
  <2> QED
    BY <1>3, <2>4
<1> QED
  BY <1>2, <1>3

\* Of any text only that is refused which is not a field, or element, or has
\* not the length it should have (pbf_reader.hpp:88-97, 115-120, 284-307).
THEOREM CauseIsThere == Spec => []ThrowsForCause
<1>1. WireInv => ThrowsForCause
  BY CausesAreThere
<1> QED
  BY <1>1, WireInvariant, PTL

-----------------------------------------------------------------------------
(* The open messages in the buffer.                                        *)

FrameType == [tag : Nat, bytes : Seq(Byte)]
FrameOf(tag, bytes) == [tag |-> tag, bytes |-> bytes]

DepthOf(ws) ==
  IF Len(ws) > 1 /\ ws[Len(ws) - 1].rollbackPos = SizeIsKnown THEN Len(ws) - 2 ELSE Len(ws) - 1

\* The message i: its tag, and where it begins and ends.
TagOf(d, ws, i) ==
  IF i = 1 THEN 0 ELSE DecodeVarint(d, ws[i - 1].rollbackPos, Len(d)).value \div 8
StartOf(ws, i) == IF i = 1 THEN 0 ELSE ws[i - 1].pos
StopOf(d, ws, i) == IF i > DepthOf(ws) THEN Len(d) ELSE ws[i].rollbackPos

FramesOf(d, ws) ==
  [i \in 1 .. DepthOf(ws) + 1 |->
     FrameOf(TagOf(d, ws, i), Slice(d, StartOf(ws, i), StopOf(d, ws, i)))]

LEMMA FramesAre ==
  Frames = FramesOf(data, writers) /\ Frames' = FramesOf(data', writers')
<1>1. Frames = FramesOf(data, writers)
  <2>1. Depth = DepthOf(writers)
    BY DEF Depth, DepthOf, Top
  <2> HIDE DEF DepthOf
  <2>2. ASSUME NEW i \in 1 .. DepthOf(writers) + 1
        PROVE  LET outer == IF i = 1 THEN NewWriter("message") ELSE writers[i - 1]
                   key == DecodeVarint(data, outer.rollbackPos, Len(data)).value
               IN [tag |-> IF i = 1 THEN 0 ELSE key \div 8,
                   bytes |-> SubSeq(data, outer.pos + 1,
                                    IF i > DepthOf(writers) THEN Len(data) ELSE writers[i].rollbackPos)]
                  = FrameOf(TagOf(data, writers, i),
                            Slice(data, StartOf(writers, i), StopOf(data, writers, i)))
    <3>1. CASE i = 1
      BY <3>1 DEF FrameOf, TagOf, Slice, StartOf, StopOf, NewWriter
    <3>2. CASE i # 1
      BY <3>2 DEF FrameOf, TagOf, Slice, StartOf, StopOf
    <3> QED
      BY <3>1, <3>2
  <2> QED
    BY <2>1, <2>2, Zenon DEF Frames, FramesOf
<1>2. Frames' = FramesOf(data', writers')
  <2>1. Depth' = DepthOf(writers')
    BY DEF Depth, DepthOf, Top
  <2> HIDE DEF DepthOf
  <2>2. ASSUME NEW i \in 1 .. DepthOf(writers') + 1
        PROVE  LET outer == IF i = 1 THEN NewWriter("message") ELSE writers'[i - 1]
                   key == DecodeVarint(data', outer.rollbackPos, Len(data')).value
               IN [tag |-> IF i = 1 THEN 0 ELSE key \div 8,
                   bytes |-> SubSeq(data', outer.pos + 1,
                                    IF i > DepthOf(writers') THEN Len(data') ELSE writers'[i].rollbackPos)]
                  = FrameOf(TagOf(data', writers', i),
                            Slice(data', StartOf(writers', i), StopOf(data', writers', i)))
    <3>1. CASE i = 1
      BY <3>1 DEF FrameOf, TagOf, Slice, StartOf, StopOf, NewWriter
    <3>2. CASE i # 1
      BY <3>2 DEF FrameOf, TagOf, Slice, StartOf, StopOf
    <3> QED
      BY <3>1, <3>2
  <2> QED
    BY <2>1, <2>2, Zenon DEF Frames, FramesOf
<1> QED
  BY <1>1, <1>2

LEMMA DepthIs ==
  ASSUME NEW d, NEW ws, WriterInv(d, ws)
  PROVE  /\ DepthOf(ws) \in Nat /\ DepthOf(ws) <= Len(ws) - 1 /\ Len(ws) \in Nat
         /\ \A k \in 1 .. DepthOf(ws) : HasMark(d, ws, k)
         /\ ws[Len(ws)].kind = "message" => DepthOf(ws) = Len(ws) - 1
<1>1. Len(ws) \in Nat /\ Len(ws) >= 1
  BY DEF WriterInv
<1>2. DepthOf(ws) \in Nat /\ DepthOf(ws) <= Len(ws) - 1
  BY <1>1 DEF DepthOf
<1>3. ASSUME NEW k \in 1 .. DepthOf(ws) PROVE HasMark(d, ws, k)
  <2>1. k \in 1 .. Len(ws) - 1
    BY <1>1, <1>2
  <2>2. HasMark(d, ws, k) \/ IsSized(ws, k)
    BY <2>1 DEF WriterInv
  <2>3. ~IsSized(ws, k)
    BY <1>1, <2>1 DEF IsSized, DepthOf
  <2> QED
    BY <2>2, <2>3
<1>4. ASSUME ws[Len(ws)].kind = "message" PROVE DepthOf(ws) = Len(ws) - 1
  <2>1. CASE Len(ws) = 1
    BY <2>1 DEF DepthOf
  <2>2. CASE Len(ws) > 1
    <3> DEFINE k == Len(ws) - 1
    <3>1. k \in 1 .. Len(ws) - 1
      BY <1>1, <2>2
    <3>2. ~IsSized(ws, k)
      BY <1>4, <3>1, NoneIsSized
    <3>3. HasMark(d, ws, k)
      BY <3>1, <3>2 DEF WriterInv
    <3>4. ws[k].rollbackPos # SizeIsKnown
      BY <3>3 DEF HasMark, Marked, SizeIsKnown
    <3> QED
      BY <1>1, <2>2, <3>4 DEF DepthOf
  <2>3. Len(ws) = 1 \/ Len(ws) > 1
    <3> DEFINE L == Len(ws)
    <3>1. L \in Nat /\ L >= 1
      BY <1>1
    <3> HIDE DEF L
    <3>2. L = 1 \/ L > 1
      BY ONLY <3>1
    <3> QED
      BY <3>2 DEF L
  <2> QED
    BY <2>1, <2>2, <2>3, Zenon
<1> QED
  BY <1>1, <1>2, <1>3, <1>4

\* The key of a submessage is read as its tag.
LEMMA MarkedTag ==
  ASSUME NEW d \in Seq(Byte), NEW ws, NEW k, NEW t \in SubmessageTags, Marked(d, ws, k, t)
  PROVE  DecodeVarint(d, ws[k].rollbackPos, Len(d)).value \div 8 = t /\ t \in Nat
<1> DEFINE p == ws[k].rollbackPos
           n == p + Len(HeadOf(t))
           e == Len(d)
           r == DecodeVarint(d, p, e)
           v == Key(t, LengthDelimited)
<1>1. p \in Nat /\ n \in Nat /\ p <= n /\ n <= e /\ e \in Nat
  <2>1. Len(HeadOf(t)) \in Nat /\ ReserveBytes \in Nat /\ p \in Nat /\ e \in Nat
    BY HeadIs, ZerosAre DEF Marked
  <2>2. ws[k].pos = p + Len(HeadOf(t)) + ReserveBytes /\ ws[k].pos <= e
    BY DEF Marked
  <2> HIDE DEF p, e
  <2> QED
    BY <2>1, <2>2
<1>2. Slice(d, p, n) = HeadOf(t)
  BY DEF Marked
<1>3. t \in Tag /\ v \in 0 .. Word - 1
  BY HeadIs, KeyIs, TypesAre
<1>4. IsVarint(HeadOf(t)) /\ ValueOf(HeadOf(t)) = v
  <2> HIDE DEF v
  <2>1. IsVarint(EncodeVarint(v)) /\ ValueOf(EncodeVarint(v)) = v
    BY <1>3, EncodeIs, EncodeValue
  <2> QED
    BY <2>1 DEF HeadOf, v
<1>5. VarintAt(d, p, n)
  BY <1>2, <1>4 DEF VarintAt
<1> HIDE DEF p, n, e, v
<1>6. p <= e /\ e <= Len(d)
  BY <1>1 DEF e
<1> HIDE DEF r
<1>7. r = DecodeVarint(d, p, e)
  BY DEF r
<1>8. n \in p .. e
  BY <1>1
<1>9. r.at \in p + 1 .. e /\ VarintAt(d, p, r.at) /\ r.value = ValueOf(Slice(d, p, r.at))
  BY <1>1, <1>5, <1>6, <1>7, <1>8, DecodeIs
<1>10. r.at = n
  <2> DEFINE m == r.at
  <2>1. m \in Nat /\ p <= m /\ m <= Len(d) /\ VarintAt(d, p, m)
    BY <1>1, <1>6, <1>9
  <2> HIDE DEF m
  <2>2. m = n
    BY <1>1, <1>5, <1>6, <2>1, VarintUnique
  <2> QED
    BY <2>2 DEF m
<1>11. r.value = v
  BY <1>2, <1>4, <1>9, <1>10
<1>12. v = t * 8 + 2 /\ t \in Nat
  BY <1>3, WriterAssumption DEF v, Key, LengthDelimited
<1>13. v \div 8 = t
  BY <1>12
<1> QED
  BY <1>11, <1>12, <1>13 DEF r, p, e

\* Where a message begins and ends, and its tag.
LEMMA PlaceIs ==
  ASSUME NEW d, NEW ws, WriterInv(d, ws), NEW i \in 1 .. DepthOf(ws) + 1
  PROVE  /\ d \in Seq(Byte) /\ StartOf(ws, i) \in Nat /\ StopOf(d, ws, i) \in Nat
         /\ StartOf(ws, i) <= StopOf(d, ws, i) /\ StopOf(d, ws, i) <= Len(d)
         /\ TagOf(d, ws, i) \in Nat
<1> DEFINE D == DepthOf(ws)
           N == Len(d)
<1>1. d \in Seq(Byte) /\ N \in Nat /\ D \in Nat /\ i \in Nat /\ 1 <= i /\ i <= D + 1
  BY DepthIs DEF WriterInv
<1>2. \A k \in 1 .. D : \E t \in SubmessageTags : Marked(d, ws, k, t)
  BY DepthIs DEF HasMark
<1>3. \A k \in 1 .. D : ws[k] \in WriterType
  <2>1. ws \in Seq(WriterType) /\ Len(ws) \in Nat /\ D <= Len(ws) - 1
    BY DepthIs DEF WriterInv
  <2> HIDE DEF D
  <2>2. \A k \in 1 .. Len(ws) : ws[k] \in WriterType
    BY <2>1, ElementOfSeq
  <2> QED
    BY <1>1, <2>1, <2>2
<1> HIDE DEF D
<1>4. \A k \in 1 .. D : ws[k].pos \in Nat /\ ws[k].pos <= N
  BY <1>2, <1>3 DEF Marked, WriterType
<1>5. StartOf(ws, i) \in Nat /\ StartOf(ws, i) <= N
  <2>1. CASE i = 1
    BY <1>1, <2>1 DEF StartOf
  <2>2. CASE i # 1
    <3>1. i - 1 \in 1 .. D
      BY <1>1, <2>2
    <3> QED
      BY <1>4, <2>2, <3>1 DEF StartOf
  <2> QED
    BY <2>1, <2>2
<1>6. TagOf(d, ws, i) \in Nat
  <2>1. CASE i = 1
    BY <2>1 DEF TagOf
  <2>2. CASE i # 1
    <3> DEFINE k == i - 1
    <3>1. k \in 1 .. D
      BY <1>1, <2>2
    <3>2. TagOf(d, ws, i) = DecodeVarint(d, ws[k].rollbackPos, Len(d)).value \div 8
      BY <2>2 DEF TagOf
    <3> HIDE DEF k
    <3>3. PICK t \in SubmessageTags : Marked(d, ws, k, t)
      BY <1>2, <3>1
    <3> QED
      BY <1>1, <3>2, <3>3, MarkedTag
  <2> QED
    BY <2>1, <2>2
<1>7. CASE i > D
  BY <1>1, <1>5, <1>6, <1>7 DEF StopOf, D, N
<1>8. CASE i <= D
  <2>1. i \in 1 .. D /\ StopOf(d, ws, i) = ws[i].rollbackPos
    BY <1>1, <1>8 DEF StopOf, D
  <2> DEFINE r == ws[i].rollbackPos
  <2>2. PICK t \in SubmessageTags : Marked(d, ws, i, t)
    BY <1>2, <2>1
  <2>3. r \in Nat /\ \A j \in 1 .. i - 1 : ws[j].pos <= r
    BY <2>2 DEF Marked
  <2>4. ws[i].pos = r + Len(HeadOf(t)) + ReserveBytes /\ ws[i].pos <= N
    BY <2>2 DEF Marked
  <2>5. Len(HeadOf(t)) \in Nat /\ ReserveBytes \in Nat
    BY HeadIs, ZerosAre
  <2> HIDE DEF r, N
  <2>6. r <= N
    BY <1>1, <2>3, <2>4, <2>5
  <2>7. StartOf(ws, i) <= r
    <3>1. CASE i = 1
      BY <2>3, <3>1 DEF StartOf
    <3>2. CASE i # 1
      <4> DEFINE k == i - 1
      <4>1. k \in 1 .. i - 1
        BY <1>1, <3>2
      <4> QED
        BY <2>3, <3>2, <4>1 DEF StartOf
    <3> QED
      BY <3>1, <3>2
  <2> QED
    BY <1>1, <1>5, <1>6, <2>1, <2>3, <2>6, <2>7 DEF r, N
<1> QED
  BY <1>1, <1>7, <1>8

LEMMA FramesOfIs ==
  ASSUME NEW d, NEW ws, WriterInv(d, ws)
  PROVE  /\ FramesOf(d, ws) \in Seq(FrameType)
         /\ Len(FramesOf(d, ws)) = DepthOf(ws) + 1
         /\ \A i \in 1 .. DepthOf(ws) + 1 :
              FramesOf(d, ws)[i] = FrameOf(TagOf(d, ws, i), Slice(d, StartOf(ws, i), StopOf(d, ws, i)))
<1> DEFINE n == DepthOf(ws) + 1
           f(i) == FrameOf(TagOf(d, ws, i), Slice(d, StartOf(ws, i), StopOf(d, ws, i)))
           fs == FramesOf(d, ws)
<1>1. n \in Nat
  BY DepthIs
<1>2. fs = [i \in 1 .. n |-> f(i)]
  BY DEF FramesOf
<1>3. \A i \in 1 .. n : f(i) \in FrameType
  <2> SUFFICES ASSUME NEW i \in 1 .. n PROVE f(i) \in FrameType
    OBVIOUS
  <2> DEFINE a == StartOf(ws, i)
             b == StopOf(d, ws, i)
             s == Slice(d, a, b)
  <2>1. d \in Seq(Byte) /\ a \in Nat /\ b \in Nat /\ a <= b /\ b <= Len(d) /\ TagOf(d, ws, i) \in Nat
    BY PlaceIs
  <2> HIDE DEF a, b
  <2>2. s \in Seq(Byte)
    BY <2>1, SliceIs
  <2> HIDE DEF s
  <2>3. FrameOf(TagOf(d, ws, i), s) \in FrameType
    BY <2>1, <2>2 DEF FrameType, FrameOf
  <2> QED
    BY <2>3 DEF s, a, b
<1> HIDE DEF n, f, fs
<1>4. fs \in Seq(FrameType) /\ Len(fs) = n
  BY <1>1, <1>2, <1>3
<1>5. \A i \in 1 .. n : fs[i] = f(i)
  BY <1>2
<1> QED
  BY <1>4, <1>5 DEF n, f, fs

\* Messages below a position up to which nothing changes.
LEMMA FramesStay ==
  ASSUME NEW d, NEW ws, WriterInv(d, ws), NEW d2, NEW ws2, WriterInv(d2, ws2),
         NEW n \in Nat, n <= DepthOf(ws), n <= DepthOf(ws2),
         NEW q \in Nat, SamePrefix(d, d2, q),
         \A k \in 1 .. n : ws2[k] = ws[k] /\ ws[k].pos <= q
  PROVE  /\ \A i \in 1 .. n : FramesOf(d2, ws2)[i] = FramesOf(d, ws)[i]
         /\ TagOf(d2, ws2, n + 1) = TagOf(d, ws, n + 1) /\ StartOf(ws2, n + 1) = StartOf(ws, n + 1)
         /\ StartOf(ws, n + 1) <= q
<1>1. d \in Seq(Byte) /\ d2 \in Seq(Byte)
  BY DEF WriterInv
<1>2. DepthOf(ws) \in Nat /\ DepthOf(ws2) \in Nat
  BY DepthIs
<1>3. ASSUME NEW i \in 1 .. n + 1
      PROVE  /\ TagOf(d2, ws2, i) = TagOf(d, ws, i) /\ StartOf(ws2, i) = StartOf(ws, i)
             /\ StartOf(ws, i) <= q
  <2>1. CASE i = 1
    BY <2>1 DEF TagOf, StartOf
  <2>2. CASE i # 1
    <3> DEFINE k == i - 1
    <3>1. k \in 1 .. n /\ k \in 1 .. DepthOf(ws) /\ k \in Nat /\ k >= 1
      BY <1>2, <2>2
    <3>2. /\ TagOf(d, ws, i) = DecodeVarint(d, ws[k].rollbackPos, Len(d)).value \div 8
          /\ TagOf(d2, ws2, i) = DecodeVarint(d2, ws2[k].rollbackPos, Len(d2)).value \div 8
          /\ StartOf(ws, i) = ws[k].pos /\ StartOf(ws2, i) = ws2[k].pos
      BY <2>2 DEF TagOf, StartOf
    <3> HIDE DEF k
    <3>3. PICK t \in SubmessageTags : Marked(d, ws, k, t)
      BY <3>1, DepthIs DEF HasMark
    <3>4. ws2[k] = ws[k] /\ ws[k].pos <= q /\ \A j \in 1 .. k : ws2[j] = ws[j]
      BY <3>1
    <3>5. Marked(d2, ws2, k, t)
      BY <1>1, <3>1, <3>3, <3>4, MarkStays
    <3>6. DecodeVarint(d, ws[k].rollbackPos, Len(d)).value \div 8 = t
      BY <1>1, <3>3, MarkedTag
    <3>7. DecodeVarint(d2, ws2[k].rollbackPos, Len(d2)).value \div 8 = t
      BY <1>1, <3>5, MarkedTag
    <3> QED
      BY <3>2, <3>4, <3>6, <3>7
  <2> QED
    BY <2>1, <2>2
<1>4. ASSUME NEW i \in 1 .. n
      PROVE  FramesOf(d2, ws2)[i] = FramesOf(d, ws)[i]
  <2>1. i \in 1 .. n + 1 /\ i \in 1 .. DepthOf(ws) + 1 /\ i \in 1 .. DepthOf(ws2) + 1
        /\ i \in 1 .. DepthOf(ws) /\ ~(i > DepthOf(ws)) /\ ~(i > DepthOf(ws2))
    BY <1>2
  <2> DEFINE a == StartOf(ws, i)
             b == StopOf(d, ws, i)
  <2>2. b = ws[i].rollbackPos /\ StopOf(d2, ws2, i) = b /\ StartOf(ws2, i) = a
    BY <1>3, <2>1 DEF StopOf
  <2>3. a \in Nat /\ b \in Nat /\ a <= b
    BY <2>1, PlaceIs
  <2>4. b <= q
    <3>1. PICK t \in SubmessageTags : Marked(d, ws, i, t)
      BY <1>2, <2>1, DepthIs DEF HasMark
    <3>2. ws[i].pos = ws[i].rollbackPos + Len(HeadOf(t)) + ReserveBytes
      BY <3>1 DEF Marked
    <3>3. Len(HeadOf(t)) \in Nat /\ ReserveBytes \in Nat /\ ws[i].pos <= q
      BY HeadIs, ZerosAre
    <3> HIDE DEF b
    <3> QED
      BY <2>2, <2>3, <3>2, <3>3
  <2> HIDE DEF a, b
  <2>5. Slice(d, a, b) = Slice(d2, a, b)
    BY <1>1, <2>3, <2>4, SameSlices
  <2>6. FramesOf(d, ws)[i] = FrameOf(TagOf(d, ws, i), Slice(d, StartOf(ws, i), StopOf(d, ws, i)))
    BY <2>1, FramesOfIs
  <2>7. FramesOf(d2, ws2)[i] = FrameOf(TagOf(d2, ws2, i), Slice(d2, StartOf(ws2, i), StopOf(d2, ws2, i)))
    BY <2>1, FramesOfIs
  <2>8. TagOf(d2, ws2, i) = TagOf(d, ws, i)
    BY <1>3, <2>1
  <2> QED
    BY <2>2, <2>5, <2>6, <2>7, <2>8 DEF a, b
<1>5. n + 1 \in 1 .. n + 1
  OBVIOUS
<1> QED
  BY <1>3, <1>4, <1>5

\* The messages fs become fs2: those behind the nth are gone, which has got f.
AltersAt(fs, fs2, n, f) ==
  /\ fs \in Seq(FrameType) /\ fs2 \in Seq(FrameType) /\ f \in Seq(Byte)
  /\ n \in 1 .. Len(fs) /\ Len(fs2) = n
  /\ \A i \in 1 .. n - 1 : fs2[i] = fs[i]
  /\ \E g \in Nat : \E b \in Seq(Byte) : fs[n] = FrameOf(g, b) /\ fs2[n] = FrameOf(g, b \o f)

\* A buffer that is the same up to the end of one of its messages.
LEMMA FramesAlter ==
  ASSUME NEW d, NEW ws, WriterInv(d, ws), NEW d2, NEW ws2, WriterInv(d2, ws2),
         NEW m \in Nat, m = DepthOf(ws2), m <= DepthOf(ws),
         \A k \in 1 .. m : ws2[k] = ws[k],
         NEW q, q = StopOf(d, ws, m + 1), SamePrefix(d, d2, q),
         NEW f, f = Slice(d2, q, Len(d2))
  PROVE  AltersAt(FramesOf(d, ws), FramesOf(d2, ws2), m + 1, f)
<1> DEFINE fs == FramesOf(d, ws)
           fs2 == FramesOf(d2, ws2)
           N == Len(d2)
           D == DepthOf(ws)
           n == m + 1
           a == StartOf(ws, n)
           g == TagOf(d, ws, n)
           b == Slice(d, a, q)
<1>1. d \in Seq(Byte) /\ d2 \in Seq(Byte) /\ N \in Nat /\ D \in Nat
  BY DepthIs DEF WriterInv
<1>2. n \in 1 .. D + 1
  BY <1>1
<1>3. a \in Nat /\ q \in Nat /\ a <= q /\ q <= Len(d) /\ g \in Nat
  BY <1>2, PlaceIs
<1>4. ASSUME NEW k \in 1 .. m PROVE ws[k].pos <= q
  <2>1. k \in 1 .. D
    BY <1>1
  <2>2. CASE m = D
    <3>1. q = Len(d)
      BY <1>1, <2>2 DEF StopOf
    <3>2. PICK t \in SubmessageTags : Marked(d, ws, k, t)
      BY <2>1, DepthIs DEF HasMark
    <3> QED
      BY <3>1, <3>2 DEF Marked
  <2>3. CASE m # D
    <3>1. n \in 1 .. D /\ ~(n > D) /\ k \in 1 .. n - 1
      BY <1>1, <2>3
    <3>2. q = ws[n].rollbackPos
      BY <3>1 DEF StopOf
    <3> HIDE DEF n
    <3>3. PICK t \in SubmessageTags : Marked(d, ws, n, t)
      BY <3>1, DepthIs DEF HasMark
    <3> QED
      BY <3>1, <3>2, <3>3 DEF Marked
  <2> QED
    BY <2>2, <2>3
<1>5. /\ \A i \in 1 .. m : fs2[i] = fs[i]
      /\ TagOf(d2, ws2, n) = g /\ StartOf(ws2, n) = a
  <2>1. m <= DepthOf(ws2) /\ \A k \in 1 .. m : ws2[k] = ws[k] /\ ws[k].pos <= q
    BY <1>4
  <2> QED
    BY <1>3, <2>1, FramesStay
<1>6. q <= N
  BY DEF SamePrefix
<1>7. f \in Seq(Byte)
  <2>1. N <= Len(d2)
    BY <1>1
  <2> HIDE DEF N
  <2>2. Slice(d2, q, N) \in Seq(Byte)
    BY <1>1, <1>3, <1>6, <2>1, SliceIs
  <2> QED
    BY <2>2 DEF N
<1>8. Slice(d2, a, N) = b \o f
  <2>1. N <= Len(d2)
    BY <1>1
  <2> HIDE DEF a, N
  <2>2. Slice(d2, a, q) \o Slice(d2, q, N) = Slice(d2, a, N)
    BY <1>1, <1>3, <1>6, <2>1, SliceJoin
  <2>3. b = Slice(d2, a, q)
    <3>1. q <= q
      BY <1>3
    <3>2. Slice(d, a, q) = Slice(d2, a, q)
      BY <1>1, <1>3, <3>1, SameSlices
    <3> QED
      BY <3>2
  <2> QED
    BY <2>2, <2>3 DEF N
<1>9. b \in Seq(Byte)
  <2> HIDE DEF a
  <2> QED
    BY <1>1, <1>3, SliceIs
<1>10. fs[n] = FrameOf(g, b) /\ fs2[n] = FrameOf(g, b \o f)
  <2>1. fs[n] = FrameOf(TagOf(d, ws, n), Slice(d, StartOf(ws, n), StopOf(d, ws, n)))
    BY <1>2, FramesOfIs
  <2>2. n \in 1 .. DepthOf(ws2) + 1 /\ n > DepthOf(ws2)
    OBVIOUS
  <2>3. fs2[n] = FrameOf(TagOf(d2, ws2, n), Slice(d2, StartOf(ws2, n), StopOf(d2, ws2, n)))
    BY <2>2, FramesOfIs
  <2>4. StopOf(d2, ws2, n) = N
    BY <2>2 DEF StopOf
  <2> QED
    BY <1>5, <1>8, <2>1, <2>3, <2>4
<1>11. fs \in Seq(FrameType) /\ fs2 \in Seq(FrameType) /\ Len(fs) = D + 1 /\ Len(fs2) = n
  BY FramesOfIs
<1>12. n - 1 = m
  OBVIOUS
<1> HIDE DEF fs, fs2, D, n, a, g, b, N
<1>13. \E x \in Nat : \E y \in Seq(Byte) : fs[n] = FrameOf(x, y) /\ fs2[n] = FrameOf(x, y \o f)
  BY <1>3, <1>9, <1>10
<1>14. AltersAt(fs, fs2, n, f)
  BY <1>2, <1>5, <1>7, <1>11, <1>12, <1>13 DEF AltersAt
<1> QED
  BY <1>14 DEF fs, fs2, n

-----------------------------------------------------------------------------
(* What that is in the tree.                                               *)

LEMMA FrameGrows ==
  ASSUME NEW g \in Nat, NEW b \in Seq(Byte), NEW c \in Seq(Byte), NEW x, x = FrameOf(g, b)
  PROVE  x.bytes = b /\ FrameOf(g, c).bytes = c /\ [x EXCEPT !.bytes = c] = FrameOf(g, c)
BY DEF FrameOf

WithMore(x, f) == [x EXCEPT !.bytes = x.bytes \o f]

LEMMA AlteredIs ==
  ASSUME NEW fs, NEW fs2, NEW n, NEW f, AltersAt(fs, fs2, n, f)
  PROVE  /\ fs[n].bytes \in Seq(Byte) /\ fs2[n].bytes = fs[n].bytes \o f
         /\ fs2[n] = WithMore(fs[n], f)
<1>1. PICK g \in Nat : \E b \in Seq(Byte) : fs[n] = FrameOf(g, b) /\ fs2[n] = FrameOf(g, b \o f)
  BY DEF AltersAt
<1>2. PICK b \in Seq(Byte) : fs[n] = FrameOf(g, b) /\ fs2[n] = FrameOf(g, b \o f)
  BY <1>1
<1> DEFINE c == b \o f
           x == fs[n]
           y == fs2[n]
<1>3. c \in Seq(Byte)
  BY Join DEF AltersAt
<1>4. x = FrameOf(g, b) /\ y = FrameOf(g, c)
  BY <1>2
<1> HIDE DEF c, x, y
<1>5. x.bytes = b /\ FrameOf(g, c).bytes = c /\ [x EXCEPT !.bytes = c] = FrameOf(g, c)
  BY <1>3, <1>4, FrameGrows
<1>6. x.bytes \in Seq(Byte) /\ y.bytes = c /\ y = [x EXCEPT !.bytes = c] /\ c = x.bytes \o f
  BY <1>4, <1>5 DEF c
<1>7. y = WithMore(x, f)
  BY <1>6 DEF WithMore
<1> QED
  BY <1>6, <1>7 DEF x, y

LEMMA AltersLast ==
  ASSUME NEW fs, NEW fs2, NEW n, NEW f, AltersAt(fs, fs2, n, f), n = Len(fs)
  PROVE  /\ fs2 = [fs EXCEPT ![n] = WithMore(fs[n], f)]
         /\ f = <<>> => fs2 = fs
<1>1. fs \in Seq(FrameType) /\ fs2 \in Seq(FrameType) /\ Len(fs) = n /\ Len(fs2) = n /\ n \in Nat
      /\ n >= 1 /\ \A i \in 1 .. n - 1 : fs2[i] = fs[i]
  BY DEF AltersAt
<1>2. fs2[n] = WithMore(fs[n], f)
  BY AlteredIs
<1> DEFINE x == WithMore(fs[n], f)
<1>3. fs2[n] = x
  BY <1>2
<1> HIDE DEF x
<1>4. fs2 = [fs EXCEPT ![n] = x]
  <2> DEFINE gs == [fs EXCEPT ![n] = x]
  <2>1. fs \in [1 .. n -> FrameType] /\ fs2 \in [1 .. n -> FrameType]
    BY <1>1
  <2>2. \A i \in 1 .. n : fs2[i] = gs[i]
    BY <1>1, <1>3, <2>1
  <2>3. DOMAIN fs2 = 1 .. n /\ DOMAIN gs = 1 .. n /\ fs2 = [i \in 1 .. n |-> fs2[i]]
        /\ gs = [i \in 1 .. n |-> gs[i]]
    BY <2>1
  <2> HIDE DEF gs
  <2>4. fs2 = gs
    BY <2>2, <2>3
  <2> QED
    BY <2>4 DEF gs
<1>5. ASSUME f = <<>> PROVE fs2 = fs
  <2>1. PICK g \in Nat : \E b \in Seq(Byte) : fs[n] = FrameOf(g, b) /\ fs2[n] = FrameOf(g, b \o f)
    BY DEF AltersAt
  <2>2. PICK b \in Seq(Byte) : fs[n] = FrameOf(g, b) /\ fs2[n] = FrameOf(g, b \o f)
    BY <2>1
  <2>3. b \o f = b
    BY <1>5
  <2>4. \A i \in 1 .. n : fs2[i] = fs[i]
    BY <1>1, <2>2, <2>3
  <2> QED
    BY <1>1, <2>4, SeqEqual
<1> QED
  BY <1>4, <1>5 DEF x

\* The operators of the tree are those of the wire format.
LEMMA TreeEncodes ==
  /\ \A v : Tree!EncodeVarint(v) = EncodeVarint(v)
  /\ \A x : Tree!FieldBytes(x) = FieldBytes(x)
  /\ \A t, y : Tree!Key(t, y) = Key(t, y)
  /\ Tree!LengthDelimited = LengthDelimited
<1>1. Tree!Power = Power
  BY DEF Tree!Power, Power
<1>2. \A v : Tree!LengthOfVarint(v) = LengthOfVarint(v)
  BY <1>1, Zenon DEF Tree!LengthOfVarint, LengthOfVarint
<1>3. \A v : Tree!EncodeVarint(v) = EncodeVarint(v)
  BY <1>1, <1>2, Zenon DEF Tree!EncodeVarint, EncodeVarint
<1>4. \A t, y : Tree!Key(t, y) = Key(t, y)
  BY DEF Tree!Key, Key
<1>5. Tree!LengthDelimited = LengthDelimited
  BY DEF Tree!LengthDelimited, LengthDelimited
<1>6. \A x : Tree!FieldBytes(x) = FieldBytes(x)
  BY <1>3, <1>4, <1>5, Zenon DEF Tree!FieldBytes, FieldBytes
<1> QED
  BY <1>3, <1>4, <1>5, <1>6

LEMMA GrowsLast ==
  ASSUME NEW n, NEW f, AltersAt(Frames, Frames', n, f), n = Len(Frames), NEW bs, f \in bs
  PROVE  Tree!Grow(bs)
<1> DEFINE fs == Frames
           fs2 == Frames'
           old == fs[n].bytes
           new == fs2[n].bytes
<1>1. old \in Seq(Byte) /\ new = old \o f /\ f \in Seq(Byte) /\ Len(fs2) = Len(fs)
      /\ n = Len(fs)
  <2>1. old \in Seq(Byte) /\ new = old \o f
    BY AlteredIs
  <2> HIDE DEF fs, fs2, old, new
  <2>2. f \in Seq(Byte) /\ Len(fs2) = n /\ n = Len(fs)
    BY DEF AltersAt, fs, fs2
  <2> QED
    BY <2>1, <2>2
<1>2. fs2 = [fs EXCEPT ![n] = WithMore(fs[n], f)]
  BY AltersLast
<1>3. SubSeq(new, Len(old) + 1, Len(new)) = f /\ SubSeq(new, 1, Len(old)) = old
  <2> DEFINE p == Len(old)
             m == Len(new)
  <2>1. p \in Nat /\ m = Len(old) + Len(f)
    BY <1>1, Join
  <2> HIDE DEF old, new
  <2>2. Slice(old \o f, p, m) = f
    <3>1. m \in Nat
      BY <1>1, <2>1
    <3> HIDE DEF m
    <3>2. p = Len(old)
      OBVIOUS
    <3> HIDE DEF p
    <3> QED
      BY <1>1, <2>1, <3>1, <3>2, SliceOfJoin
  <2>3. Slice(old \o f, 0, p) = old
    <3>1. SamePrefix(old, old \o f, p)
      <4>1. p \in 0 .. Len(old)
        BY <2>1
      <4> QED
        BY <1>1, <4>1, SamePrefixOfJoin
    <3>2. old \o f \in Seq(Byte) /\ 0 \in Nat /\ 0 <= p /\ p <= p
      BY <1>1, <2>1, Join
    <3>3. Slice(old, 0, p) = Slice(old \o f, 0, p)
      BY <1>1, <2>1, <3>1, <3>2, SameSlices
    <3>4. Slice(old, 0, p) = old
      BY <1>1, SliceAll
    <3> QED
      BY <3>3, <3>4
  <2>4. SubSeq(new, p + 1, m) = f
    BY <1>1, <2>2 DEF Slice
  <2>5. SubSeq(new, 0 + 1, p) = old
    BY <1>1, <2>3 DEF Slice
  <2>6. 0 + 1 = 1
    OBVIOUS
  <2> HIDE DEF p, m
  <2>7. SubSeq(new, 1, p) = old
    BY <2>5, <2>6
  <2> QED
    BY <2>4, <2>7 DEF p, m
<1>4. WithMore(fs[n], f) = [fs[n] EXCEPT !.bytes = new]
  BY <1>1, Zenon DEF WithMore
<1>5. fs2 = [fs EXCEPT ![n].bytes = new]
  BY <1>2, <1>4, Zenon
<1> QED
  BY <1>1, <1>3, <1>5, Zenon DEF Tree!Grow

LEMMA GrowsFront ==
  ASSUME NEW n, NEW f, AltersAt(Frames, Frames', n, f), n = Len(Frames) - 1
  PROVE  Tree!Close(f)
<1> DEFINE fs == Frames
           fs2 == Frames'
           L == Len(fs)
           x == WithMore(fs[n], f)
<1>1. fs \in Seq(FrameType) /\ fs2 \in Seq(FrameType) /\ L \in Nat /\ n = L - 1 /\ n \in 1 .. L
      /\ Len(fs2) = n /\ \A i \in 1 .. n - 1 : fs2[i] = fs[i]
  <2>1. AltersAt(fs, fs2, n, f) /\ n = Len(fs) - 1
    OBVIOUS
  <2> HIDE DEF fs, fs2
  <2> QED
    BY <2>1 DEF AltersAt
<1>2. fs2[n] = x
  BY AlteredIs
<1>3. Front(fs) = [i \in 1 .. n |-> fs[i]]
  <2>1. Front(fs) = SubSeq(fs, 1, L - 1)
    BY DEF Front
  <2>2. SubSeq(fs, 1, L - 1) = SubSeq(fs, 1, n)
    BY <1>1
  <2> HIDE DEF fs, fs2, L
  <2>3. SubSeq(fs, 1, n) = [i \in 1 .. n |-> fs[i]]
    BY <1>1
  <2> QED
    BY <2>1, <2>2, <2>3
<1> HIDE DEF fs, fs2, L, x
<1>4. fs2 = [Front(fs) EXCEPT ![n] = x]
  <2> DEFINE gs == [Front(fs) EXCEPT ![n] = x]
  <2>1. fs2 \in [1 .. n -> FrameType] /\ n \in Nat
    BY <1>1
  <2>2. \A i \in 1 .. n : fs2[i] = gs[i]
    BY <1>1, <1>2, <1>3, <2>1
  <2>3. DOMAIN fs2 = 1 .. n /\ DOMAIN gs = 1 .. n /\ fs2 = [i \in 1 .. n |-> fs2[i]]
        /\ gs = [i \in 1 .. n |-> gs[i]]
    BY <1>3, <2>1
  <2> HIDE DEF gs
  <2>4. fs2 = gs
    BY <2>2, <2>3
  <2> QED
    BY <2>4 DEF gs
<1>5. Front(fs)[n] = fs[n]
  BY <1>1, <1>3
<1>6. x = [Front(fs)[n] EXCEPT !.bytes = Front(fs)[n].bytes \o f]
  BY <1>5, Zenon DEF WithMore, x
<1>7. fs2 = [Front(fs) EXCEPT ![n].bytes = @ \o f]
  BY <1>4, <1>6, Zenon
<1>8. n = L - 1 /\ L > 1
  BY <1>1
<1>9. fs2 = [Front(fs) EXCEPT ![L - 1].bytes = @ \o f]
  BY <1>7, <1>8, Zenon
<1>10. Len(Frames) > 1 /\ Frames' = [Front(Frames) EXCEPT ![Len(Frames) - 1].bytes = @ \o f]
  BY <1>8, <1>9, Zenon DEF fs, fs2, L
<1>11. Tree!Front(Frames) = Front(Frames)
  BY DEF Tree!Front, Front
<1> QED
  BY <1>10, <1>11, Zenon DEF Tree!Close

LEMMA StaysSame ==
  ASSUME NEW n, AltersAt(Frames, Frames', n, <<>>), n = Len(Frames)
  PROVE  Frames' = Frames
BY AltersLast

InTree == Tree!Next \/ Frames' = Frames

LEMMA UnharmedFrames ==
  ASSUME data' = data, writers' = writers
  PROVE  InTree
BY FramesAre DEF InTree

LEMMA FramesLength ==
  ASSUME WriterInv(data, writers)
  PROVE  Len(Frames) = DepthOf(writers) + 1
BY FramesAre, FramesOfIs

\* The buffer gets e, and the messages around the innermost one are the same.
LEMMA GrowsFrames ==
  ASSUME WriterInv(data, writers), WriterInv(data', writers'), NEW e \in Seq(Byte), data' = data \o e,
         NEW m, m = DepthOf(writers), DepthOf(writers') = m,
         \A k \in 1 .. m : writers'[k] = writers[k]
  PROVE  AltersAt(Frames, Frames', Len(Frames), e)
<1> DEFINE d == data
           d2 == data'
           q == Len(d)
           N == Len(d2)
           f == Slice(d2, q, N)
<1>1. m \in Nat /\ m <= m /\ m + 1 > m
  BY DepthIs
<1>2. d \in Seq(Byte) /\ q \in Nat
  BY DEF WriterInv
<1>3. N = q + Len(e) /\ N \in Nat
  BY <1>2, Join
<1>4. SamePrefix(d, d2, q)
  <2>1. q \in 0 .. Len(d)
    BY <1>2
  <2> HIDE DEF q
  <2> QED
    BY <1>2, <2>1, SamePrefixOfJoin
<1>5. StopOf(d, writers, m + 1) = q
  BY <1>1 DEF StopOf
<1>6. f = e
  <2>1. d2 = d \o e /\ q = Len(d)
    OBVIOUS
  <2> HIDE DEF d, d2, q, N
  <2>2. Slice(d \o e, q, N) = e
    BY <1>2, <1>3, <2>1, SliceOfJoin
  <2> QED
    BY <2>1, <2>2
<1> HIDE DEF q, N, f
<1>7. WriterInv(d, writers) /\ WriterInv(d2, writers') /\ f = Slice(d2, q, Len(d2))
  BY DEF f, N
<1> HIDE DEF d, d2
<1>8. AltersAt(FramesOf(d, writers), FramesOf(d2, writers'), m + 1, f)
  BY <1>1, <1>4, <1>5, <1>7, FramesAlter
<1> QED
  BY <1>6, <1>8, FramesAre, FramesLength DEF d, d2

LEMMA ExhaustsIt ==
  ASSUME NEW s, s \in AllPieces \cup Tree!Headers, NEW n \in 0 .. Len(s) - 1,
         AltersAt(Frames, Frames', Len(Frames), Slice(s, 0, n))
  PROVE  InTree
<1> DEFINE f == Slice(s, 0, n)
           bs == UNION {Tree!Beginnings(p) : p \in AllPieces \cup Tree!Headers}
<1>1. f = SubSeq(s, 1, n)
  BY DEF Slice
<1>2. f \in Tree!Beginnings(s)
  BY <1>1 DEF Tree!Beginnings
<1>3. f \in bs
  BY <1>2
<1> HIDE DEF f, bs
<1>4. Tree!Grow(bs)
  BY <1>3, GrowsLast DEF f
<1> QED
  BY <1>4 DEF bs, InTree, Tree!Next, Tree!Exhaust

LEMMA AddsIt ==
  ASSUME NEW s, s \in AllPieces, AltersAt(Frames, Frames', Len(Frames), s)
  PROVE  InTree
<1>1. Tree!Grow(AllPieces)
  BY GrowsLast
<1> QED
  BY <1>1, Zenon DEF InTree, Tree!Next, Tree!Add

LEMMA PiecesAre ==
  ASSUME NEW kind \in {"message"} \cup PackedKinds, NEW s \in PiecesOf(kind)
  PROVE  s \in AllPieces
<1>1. CASE kind = "message"
  BY <1>1 DEF PiecesOf, AllPieces
<1>2. CASE kind # "message" /\ kind \in {"ints", "sints"}
  <2>1. PICK v \in Ints : s = EncodeVarint(VarintOf(kind, v))
    BY <1>2 DEF PiecesOf
  <2> DEFINE E(k) == {EncodeVarint(VarintOf(k, u)) : u \in Ints}
             F == UNION {E(k) : k \in {"ints", "sints"}}
  <2>2. s \in E(kind)
    BY <2>1
  <2> HIDE DEF E
  <2>3. s \in F
    BY <1>2, <2>2
  <2>4. ElementPieces = FixedValues(Fixed32) \cup FixedValues(Fixed64) \cup F
    BY DEF ElementPieces, E, F
  <2> HIDE DEF F
  <2>5. s \in ElementPieces
    BY <2>3, <2>4
  <2> QED
    BY <2>5, Zenon DEF AllPieces
<1>3. CASE kind # "message" /\ kind \notin {"ints", "sints"}
  <2>1. s \in FixedValues(Width(kind))
    BY <1>3 DEF PiecesOf
  <2>2. Width(kind) = Fixed32 \/ Width(kind) = Fixed64
    BY DEF Width
  <2>3. s \in FixedValues(Fixed32) \cup FixedValues(Fixed64)
    BY <2>1, <2>2, Zenon
  <2> QED
    BY <2>3, Zenon DEF AllPieces, ElementPieces
<1> QED
  BY <1>1, <1>2, <1>3

LEMMA AddInTree ==
  ASSUME WriterInv(data, writers), WriterInv(data', writers'), NEW s, s \in AllPieces, Adds(s)
  PROVE  InTree
<1>1. CASE data' = data
  BY <1>1, UnharmedFrames DEF Adds
<1>2. CASE \E n : GrowsBy(s, n)
  <2>1. PICK n : GrowsBy(s, n)
    BY <1>2
  <2> DEFINE e == Slice(s, 0, n)
  <2>2. s \in Seq(Byte) /\ n \in 0 .. Len(s) /\ data' = data \o e /\ writers' = writers
    BY <2>1 DEF Adds, GrowsBy
  <2>3. e \in Seq(Byte)
    BY <2>2, BeginningIs
  <2> HIDE DEF e
  <2>4. AltersAt(Frames, Frames', Len(Frames), e)
    <3> DEFINE m == DepthOf(writers)
    <3>1. m = DepthOf(writers) /\ DepthOf(writers') = m /\ \A k \in 1 .. m : writers'[k] = writers[k]
      BY <2>2
    <3> HIDE DEF m
    <3> QED
      BY <2>2, <2>3, <3>1, GrowsFrames
  <2>5. CASE n = Len(s)
    <3>1. e = s
      BY <2>2, <2>5, SliceAll DEF e
    <3> QED
      BY <2>4, <3>1, AddsIt
  <2>6. CASE n # Len(s)
    <3>1. n \in 0 .. Len(s) - 1
      BY <2>2, <2>6
    <3> QED
      BY <2>4, <3>1, ExhaustsIt DEF e
  <2> QED
    BY <2>5, <2>6
<1> QED
  BY <1>1, <1>2 DEF Adds

\* Beginnings with other rests.
LEMMA SameBeginning ==
  ASSUME NEW h \in Seq(Byte), NEW x \in Seq(Byte), NEW y \in Seq(Byte), NEW n \in 0 .. Len(h)
  PROVE  Slice(h \o x, 0, n) = Slice(h \o y, 0, n)
<1> DEFINE a == h \o x
           b == h \o y
<1>1. n \in Nat /\ 0 <= n /\ n <= n /\ 0 \in Nat /\ n \in 0 .. Len(h)
  OBVIOUS
<1>2. a \in Seq(Byte) /\ b \in Seq(Byte)
  BY Join
<1>3. SamePrefix(h, a, n) /\ SamePrefix(h, b, n)
  BY <1>1, SamePrefixOfJoin
<1> HIDE DEF a, b
<1>4. Slice(h, 0, n) = Slice(a, 0, n)
  BY <1>1, <1>2, <1>3, SameSlices
<1>5. Slice(h, 0, n) = Slice(b, 0, n)
  BY <1>1, <1>2, <1>3, SameSlices
<1> QED
  BY <1>4, <1>5 DEF a, b

\* The innermost writer of a message that has a new rollbackPos.
LEMMA ReplacedDepth ==
  ASSUME WriterInv(data, writers), WriterInv(data', writers'), Writer.kind = "message",
         NEW w \in WriterType, w.kind = "message", Replaced(writers', w), NEW m, m = DepthOf(writers)
  PROVE  DepthOf(writers') = m /\ \A k \in 1 .. m : writers'[k] = writers[k]
<1>1. Len(writers') = Top /\ writers'[Top] = w /\ \A k \in 1 .. Top - 1 : writers'[k] = writers[k]
  BY ReplaceTop
<1>2. DepthOf(writers) = Len(writers) - 1
  BY DepthIs DEF Writer, Top
<1>3. DepthOf(writers') = Len(writers') - 1
  BY <1>1, DepthIs
<1> QED
  BY <1>1, <1>2, <1>3 DEF Top

LEMMA WriterReplaced ==
  ASSUME WriterInv(data, writers), Writer.kind = "message", NEW r \in Int,
         NEW w, w = [Writer EXCEPT !.rollbackPos = r]
  PROVE  w \in WriterType /\ w.kind = "message"
<1>1. Writer \in WriterType /\ 0 \in Nat
  BY TopIs
<1> DEFINE v == Writer
<1> HIDE DEF v
<1>2. v \in WriterType /\ v.kind = "message" /\ w = [v EXCEPT !.rollbackPos = r]
  BY <1>1 DEF v
<1>3. [v EXCEPT !.rollbackPos = r] \in WriterType
  BY <1>1, <1>2, RecordsAre
<1>4. [v EXCEPT !.rollbackPos = r].kind = v.kind
  BY <1>1, <1>2, RecordsAre
<1> QED
  BY <1>2, <1>3, <1>4

LEMMA OpenFailsInTree ==
  ASSUME WriterInv(data, writers), WriterInv(data', writers'), NEW t \in SubmessageTags,
         Writer.kind = "message", NEW n, OpenFails(t, n)
  PROVE  InTree
<1> DEFINE h == HeadOf(t)
           s == h \o <<0>>
           e == Slice(s, 0, n)
           w == [Writer EXCEPT !.rollbackPos = Len(data)]
           m == DepthOf(writers)
<1>1. h \in Seq(Byte) /\ Len(h) \in Nat /\ Zeros \in Seq(Byte) /\ <<0>> \in Seq(Byte)
  <2>1. 0 \in Byte
    BY Widths DEF Byte
  <2>2. <<0>> \in Seq(Byte)
    BY <2>1
  <2> QED
    BY <2>2, OpeningIs, ZerosAre
<1>2. n \in 0 .. Len(h) /\ data' = data \o Slice(h \o Zeros, 0, n)
      /\ writers' = [writers EXCEPT ![Top] = w]
  BY DEF OpenFails, OpeningOf
<1>3. s \in Seq(Byte) /\ Len(s) = Len(h) + 1
  <2>1. Len(<<0>>) = 1
    OBVIOUS
  <2> HIDE DEF h
  <2> QED
    BY <1>1, <2>1, Join
<1>4. s \in Tree!Headers
  <2>1. s = Tree!EncodeVarint(Tree!Key(t, Tree!LengthDelimited)) \o <<0>>
    BY TreeEncodes DEF HeadOf
  <2> HIDE DEF s
  <2> QED
    BY <2>1 DEF Tree!Headers
<1>5. data' = data \o e
  <2> HIDE DEF h
  <2>1. Slice(h \o Zeros, 0, n) = Slice(h \o <<0>>, 0, n)
    BY <1>1, <1>2, SameBeginning
  <2> QED
    BY <1>2, <2>1
<1>6. w \in WriterType /\ w.kind = "message" /\ Replaced(writers', w)
  <2>1. Len(data) \in Int
    BY TopIs
  <2>2. Replaced(writers', w)
    BY <1>2 DEF Replaced
  <2> HIDE DEF w
  <2>3. w = [Writer EXCEPT !.rollbackPos = Len(data)]
    BY DEF w
  <2> QED
    BY <2>1, <2>2, <2>3, WriterReplaced
<1> HIDE DEF h, s, w, m
<1>7. m = DepthOf(writers)
  BY DEF m
<1>8. DepthOf(writers') = m /\ \A k \in 1 .. m : writers'[k] = writers[k]
  BY <1>6, <1>7, ReplacedDepth
<1>9. n \in 0 .. Len(s) /\ n \in 0 .. Len(s) - 1
  BY <1>1, <1>2, <1>3
<1>10. e \in Seq(Byte)
  BY <1>3, <1>9, BeginningIs
<1> HIDE DEF e
<1>11. AltersAt(Frames, Frames', Len(Frames), e)
  BY <1>5, <1>7, <1>8, <1>10, GrowsFrames
<1> QED
  BY <1>4, <1>9, <1>11, ExhaustsIt DEF e

LEMMA HeaderIsPiece ==
  ASSUME NEW t \in Tag, Schema[t] \in {"fixeds32", "fixeds64"}
  PROVE  HeaderOf(t) \in AllPieces
<1>1. t \in TagsOf({"fixeds32", "fixeds64"})
  BY DEF TagsOf
<1>2. HeaderOf(t) \in HeaderPieces
  BY <1>1 DEF HeaderPieces, HeaderOf
<1> QED
  BY <1>2, Zenon DEF AllPieces

LEMMA KnownFailsInTree ==
  ASSUME WriterInv(data, writers), WriterInv(data', writers'), NEW t \in Tag,
         Schema[t] \in {"fixeds32", "fixeds64"}, HeaderOf(t) \in Seq(Byte),
         Writer.kind = "message", NEW n, KnownFails(t, n)
  PROVE  InTree
<1> DEFINE s == HeaderOf(t)
           e == Slice(s, 0, n)
           w == [Writer EXCEPT !.rollbackPos = SizeIsKnown]
           m == DepthOf(writers)
<1>1. n \in 0 .. Len(s) - 1 /\ data' = data \o e /\ Replaced(writers', w) /\ Len(s) \in Nat
  BY DEF KnownFails, Replaced
<1>2. s \in AllPieces /\ s \in Seq(Byte)
  BY HeaderIsPiece
<1>3. w \in WriterType /\ w.kind = "message"
  <2>1. SizeIsKnown \in Int
    BY DEF SizeIsKnown
  <2> HIDE DEF w
  <2>2. w = [Writer EXCEPT !.rollbackPos = SizeIsKnown]
    BY DEF w
  <2> QED
    BY <2>1, <2>2, WriterReplaced
<1> HIDE DEF s, w, m
<1>4. m = DepthOf(writers)
  BY DEF m
<1>5. DepthOf(writers') = m /\ \A k \in 1 .. m : writers'[k] = writers[k]
  BY <1>1, <1>3, <1>4, ReplacedDepth
<1>6. n \in 0 .. Len(s)
  BY <1>1
<1>7. e \in Seq(Byte)
  BY <1>2, <1>6, BeginningIs
<1> HIDE DEF e
<1>8. AltersAt(Frames, Frames', Len(Frames), e)
  BY <1>1, <1>4, <1>5, <1>7, GrowsFrames
<1> QED
  BY <1>1, <1>2, <1>8, ExhaustsIt DEF e

\* A header more, and a writer that knows the size of what is to follow.
OpensSized(t) ==
  /\ AltersAt(Frames, Frames', Len(Frames), HeaderOf(t))
  /\ DepthOf(writers) = Top - 1 /\ DepthOf(writers') = Top - 1 /\ Len(writers') = Top + 1
  /\ \A i \in 1 .. Top : writers'[i].kind = writers[i].kind
  /\ writers'[Top].pos = Len(data') /\ writers'[Top + 1].kind = Schema[t]

LEMMA KnownOpensFrames ==
  ASSUME WriterInv(data, writers), WriterInv(data', writers'), NEW t \in Tag,
         Schema[t] \in {"fixeds32", "fixeds64"}, HeaderOf(t) \in Seq(Byte),
         Writer.kind = "message", KnownOpens(t)
  PROVE  OpensSized(t)
<1> DEFINE s == HeaderOf(t)
           v == [Writer EXCEPT !.rollbackPos = SizeIsKnown]
           N == Len(data) + Len(s)
           w == [v EXCEPT !.pos = N]
           x == NewWriter(Schema[t])
           m == DepthOf(writers)
<1>1. data' = data \o s /\ Pushed(writers', w, x)
  BY DEF KnownOpens, Pushed
<1>2. s \in AllPieces /\ s \in Seq(Byte) /\ N \in Nat
  <2>1. Len(data) \in Nat /\ Len(s) \in Nat
    BY TopIs
  <2> QED
    BY <2>1, HeaderIsPiece
<1>3. v \in WriterType /\ v.kind = "message" /\ v.rollbackPos = SizeIsKnown
  <2>1. SizeIsKnown \in Int /\ Writer \in WriterType
    BY TopIs DEF SizeIsKnown
  <2>2. v.rollbackPos = SizeIsKnown
    BY <2>1 DEF WriterType
  <2> HIDE DEF v
  <2>3. v = [Writer EXCEPT !.rollbackPos = SizeIsKnown]
    BY DEF v
  <2> QED
    BY <2>1, <2>2, <2>3, WriterReplaced
<1> HIDE DEF s, v, N
<1>4. w \in WriterType /\ w.kind = "message" /\ w.rollbackPos = SizeIsKnown /\ w.pos = N
  <2>1. w \in WriterType /\ w.pos = N
    BY <1>2, <1>3 DEF WriterType
  <2>2. w.kind = v.kind /\ w.rollbackPos = v.rollbackPos
    BY <1>3 DEF WriterType
  <2> QED
    BY <1>3, <2>1, <2>2
<1>5. x \in WriterType /\ x.kind = Schema[t]
  <2>1. x.kind = Schema[t]
    BY DEF NewWriter
  <2> QED
    BY <2>1, NewWriterIs DEF PackedKinds
<1> HIDE DEF w, x
<1>6. Len(writers') = Top + 1 /\ writers'[Top] = w /\ writers'[Top + 1] = x /\ \A k \in 1 .. Top - 1 : writers'[k] = writers[k]
  BY <1>1, <1>4, <1>5, PushWriter
<1>7. Top \in Nat /\ Top >= 1 /\ Len(writers) = Top
  BY TopIs
<1>8. m = Top - 1
  BY <1>7, DepthIs DEF Writer
<1>9. DepthOf(writers') = Top - 1
  <2>1. Len(writers') - 1 = Top /\ Len(writers') > 1 /\ Len(writers') - 2 = Top - 1
    BY <1>6, <1>7
  <2>2. writers'[Len(writers') - 1].rollbackPos = SizeIsKnown
    BY <1>4, <1>6, <2>1
  <2> QED
    BY <2>1, <2>2 DEF DepthOf
<1>10. m = DepthOf(writers)
  BY DEF m
<1> HIDE DEF m
<1>11. AltersAt(Frames, Frames', Len(Frames), s)
  BY <1>1, <1>2, <1>6, <1>8, <1>9, <1>10, GrowsFrames
<1>12. writers'[Top].pos = Len(data')
  <2>1. Len(data \o s) = Len(data) + Len(s)
    BY <1>2, Join, TopIs
  <2> QED
    BY <1>1, <1>4, <1>6, <2>1 DEF N
<1>13. \A i \in 1 .. Top : writers'[i].kind = writers[i].kind
  <2> SUFFICES ASSUME NEW i \in 1 .. Top PROVE writers'[i].kind = writers[i].kind
    OBVIOUS
  <2>1. i = Top \/ i \in 1 .. Top - 1
    BY <1>7
  <2> QED
    BY <1>4, <1>6, <2>1 DEF Writer
<1>14. writers'[Top + 1].kind = Schema[t]
  BY <1>5, <1>6
<1> QED
  BY <1>6, <1>8, <1>9, <1>10, <1>11, <1>12, <1>13, <1>14, Zenon DEF OpensSized, s

LEMMA KnownOpensInTree ==
  ASSUME WriterInv(data, writers), WriterInv(data', writers'), NEW t \in Tag,
         Schema[t] \in {"fixeds32", "fixeds64"}, HeaderOf(t) \in Seq(Byte),
         Writer.kind = "message", KnownOpens(t)
  PROVE  InTree
<1>1. AltersAt(Frames, Frames', Len(Frames), HeaderOf(t))
  BY KnownOpensFrames DEF OpensSized
<1> QED
  BY <1>1, HeaderIsPiece, AddsIt

\* The submessage that was opened last has its tag.
LEMMA OpenedMark ==
  ASSUME WriterInv(data, writers), NEW t \in SubmessageTags, Writer.kind = "message",
         data' = data \o OpeningOf(t), WriterInv(data', writers'), NEW k, k = Top,
         Len(writers') = k + 1, writers'[k].rollbackPos = Len(data),
         writers'[k].pos = Len(data) + Len(OpeningOf(t))
  PROVE  Marked(data', writers', k, t) /\ DepthOf(writers') = k
<1> DEFINE h == HeadOf(t)
           r == Len(data)
           p == writers'[k].pos
           e == data \o h
           n == r + Len(h)
           d2 == data'
<1>1. data \in Seq(Byte) /\ h \in Seq(Byte) /\ Zeros \in Seq(Byte) /\ Len(Zeros) = ReserveBytes
      /\ ReserveBytes \in Nat /\ Len(h) \in Nat /\ r \in Nat /\ k \in Nat /\ k >= 1
  BY TopIs, OpeningIs, ZerosAre
<1>2. p = r + Len(h) + ReserveBytes
  <2> DEFINE z == OpeningOf(t)
  <2>1. p = r + Len(z) /\ Len(z) = Len(h) + ReserveBytes
    BY OpeningIs
  <2> HIDE DEF z, h, r, p
  <2> QED
    BY <1>1, <2>1
<1>3. DepthOf(writers') = k
  <2>1. Len(writers') > 1 /\ Len(writers') - 1 = k
    BY <1>1
  <2>2. writers'[Len(writers') - 1].rollbackPos # SizeIsKnown
    BY <1>1, <2>1 DEF SizeIsKnown
  <2> QED
    BY <2>1, <2>2 DEF DepthOf
<1>4. HasMark(d2, writers', k)
  <2>1. k \in 1 .. DepthOf(writers')
    BY <1>1, <1>3
  <2> HIDE DEF d2
  <2>2. WriterInv(d2, writers')
    BY DEF d2
  <2> QED
    BY <2>1, <2>2, DepthIs
<1>5. PICK x \in SubmessageTags : Marked(d2, writers', k, x)
  BY <1>4 DEF HasMark
<1>6. p <= Len(d2) /\ \A j \in 1 .. k - 1 : writers'[j].pos <= r
  BY <1>5 DEF Marked
<1>7. d2 = e \o Zeros
  <2>1. d2 = data \o (h \o Zeros)
    BY DEF OpeningOf
  <2> HIDE DEF h, d2
  <2>2. (data \o h) \o Zeros = data \o (h \o Zeros)
    BY <1>1, JoinAssociative
  <2> QED
    BY <2>1, <2>2
<1>8. e \in Seq(Byte) /\ Len(e) = n /\ n \in Nat
  BY <1>1, Join
<1> HIDE DEF h, d2, e
<1>9. Slice(e, r, n) = h
  <2>1. r = Len(data) /\ n = Len(data) + Len(h)
    OBVIOUS
  <2> HIDE DEF r, n
  <2> QED
    BY <1>1, <1>8, <2>1, SliceOfJoin DEF e
<1>10. SamePrefix(e, d2, n) /\ d2 \in Seq(Byte)
  <2>1. n \in 0 .. Len(e)
    BY <1>8
  <2> HIDE DEF n
  <2> QED
    BY <1>1, <1>7, <1>8, <2>1, SamePrefixOfJoin, Join
<1>11. r <= n /\ n <= n
  BY <1>1
<1> HIDE DEF r, n
<1>12. Slice(d2, r, n) = h
  <2>1. Slice(e, r, n) = Slice(d2, r, n)
    BY <1>1, <1>8, <1>10, <1>11, SameSlices
  <2> QED
    BY <1>9, <2>1
<1>13. Marked(d2, writers', k, t)
  BY <1>1, <1>2, <1>6, <1>12 DEF Marked, r, n, h
<1> QED
  BY <1>3, <1>13 DEF d2

\* A message more, and a writer for it.
OpensFrame(t) ==
  /\ Frames' = Frames \o <<FrameOf(t, <<>>)>>
  /\ Frames \in Seq(FrameType) /\ Len(Frames) = Top /\ Len(Frames') = Top + 1
  /\ \A i \in 1 .. Top : Frames'[i] = Frames[i]
  /\ Frames'[Top + 1] = FrameOf(t, <<>>)
  /\ Len(writers') = Top + 1 /\ \A i \in 1 .. Top : writers'[i].kind = writers[i].kind
  /\ writers'[Top + 1].kind = Schema[t]
  /\ DepthOf(writers') = Top

LEMMA OpensFrames ==
  ASSUME WriterInv(data, writers), WriterInv(data', writers'), NEW t \in SubmessageTags,
         Writer.kind = "message", Opens(t)
  PROVE  OpensFrame(t)
<1> DEFINE d == data
           d2 == data'
           ws2 == writers'
           k == Top
           r == Len(d)
           z == OpeningOf(t)
           v == [Writer EXCEPT !.rollbackPos = r]
           N == r + Len(z)
           w == [v EXCEPT !.pos = N]
           x == NewWriter(Schema[t])
           fs == FramesOf(d, writers)
           fs2 == FramesOf(d2, ws2)
<1>1. d2 = d \o z /\ Pushed(ws2, w, x)
  BY DEF Opens, Pushed
<1>2. r \in Nat /\ z \in Seq(Byte) /\ Len(z) \in Nat /\ N \in Nat /\ Writer \in WriterType
      /\ k \in Nat /\ k >= 1 /\ d \in Seq(Byte) /\ Len(writers) = k /\ Len(d2) = N /\ d2 \in Seq(Byte)
  <2>1. d \in Seq(Byte) /\ z \in Seq(Byte)
    BY TopIs, OpeningIs
  <2>2. Len(d \o z) = Len(d) + Len(z) /\ d \o z \in Seq(Byte)
    BY <2>1, Join
  <2> HIDE DEF z
  <2> QED
    BY <1>1, <2>1, <2>2, TopIs
<1>3. w \in WriterType /\ w.kind = "message" /\ w.rollbackPos = r /\ w.pos = N
  <2>1. v \in WriterType /\ v.rollbackPos = r /\ v.kind = "message"
    BY <1>2 DEF WriterType
  <2> HIDE DEF v, N
  <2> QED
    BY <1>2, <2>1 DEF WriterType
<1>4. x \in WriterType /\ x.kind = Schema[t]
  <2>1. Schema[t] \in {"message"} \cup PackedKinds
    BY DEF SubmessageTags, TagsOf
  <2>2. x.kind = Schema[t]
    BY DEF NewWriter
  <2> QED
    BY <2>1, <2>2, NewWriterIs
<1> HIDE DEF w, x
<1>5. Len(ws2) = k + 1 /\ ws2[k] = w /\ ws2[k + 1] = x /\ \A j \in 1 .. k - 1 : ws2[j] = writers[j]
  BY <1>1, <1>3, <1>4, PushWriter
<1>6. Marked(d2, ws2, k, t) /\ DepthOf(ws2) = k
  <2>1. ws2[k].rollbackPos = Len(data) /\ ws2[k].pos = Len(data) + Len(OpeningOf(t))
    BY <1>3, <1>5
  <2> HIDE DEF k
  <2>2. k = Top
    BY DEF k
  <2> QED
    BY <1>1, <1>5, <2>1, <2>2, OpenedMark
<1>7. DepthOf(writers) = k - 1
  <2>1. Len(writers) = Top /\ writers[Len(writers)].kind = "message"
    BY <1>2 DEF Writer
  <2>2. DepthOf(writers) = Len(writers) - 1
    BY <2>1, DepthIs
  <2> QED
    BY <2>1, <2>2
<1> HIDE DEF N, z, v
<1>8. WriterInv(d, writers) /\ WriterInv(d2, ws2)
  OBVIOUS
<1>9. SamePrefix(d, d2, r)
  <2>1. r \in 0 .. Len(d)
    BY <1>2
  <2> HIDE DEF r, d, d2
  <2> QED
    BY <1>1, <1>2, <2>1, SamePrefixOfJoin
<1>10. fs \in Seq(FrameType) /\ Len(fs) = k /\ fs2 \in Seq(FrameType) /\ Len(fs2) = k + 1
  BY <1>2, <1>6, <1>7, <1>8, FramesOfIs
<1>11. /\ \A i \in 1 .. k - 1 : fs2[i] = fs[i]
       /\ TagOf(d2, ws2, k) = TagOf(d, writers, k) /\ StartOf(ws2, k) = StartOf(writers, k)
  <2> DEFINE n == k - 1
  <2>1. n \in Nat /\ n <= DepthOf(writers) /\ n <= DepthOf(ws2) /\ n + 1 = k
    BY <1>2, <1>6, <1>7
  <2>2. \A j \in 1 .. n : ws2[j] = writers[j] /\ writers[j].pos <= r
    <3> SUFFICES ASSUME NEW j \in 1 .. n PROVE ws2[j] = writers[j] /\ writers[j].pos <= r
      OBVIOUS
    <3>1. ws2[j] = writers[j]
      BY <1>5
    <3>2. \A i \in 1 .. k - 1 : ws2[i].pos <= ws2[k].rollbackPos
      BY <1>6 DEF Marked
    <3> QED
      BY <1>3, <1>5, <3>1, <3>2
  <2> HIDE DEF n, r, d, d2, ws2, k
  <2>3. r \in Nat /\ SamePrefix(d, d2, r) /\ WriterInv(d, writers) /\ WriterInv(d2, ws2)
    BY <1>2, <1>8, <1>9
  <2>4. n \in Nat /\ n <= DepthOf(writers) /\ n <= DepthOf(ws2)
    BY <2>1
  <2> HIDE DEF fs, fs2
  <2>5. /\ \A i \in 1 .. n : FramesOf(d2, ws2)[i] = FramesOf(d, writers)[i]
        /\ TagOf(d2, ws2, n + 1) = TagOf(d, writers, n + 1) /\ StartOf(ws2, n + 1) = StartOf(writers, n + 1)
    BY <2>2, <2>3, <2>4, FramesStay
  <2> QED
    BY <2>1, <2>5, Zenon DEF n, fs, fs2
<1>12. fs2[k] = fs[k]
  <2> DEFINE a == StartOf(writers, k)
  <2>1. k \in 1 .. DepthOf(writers) + 1 /\ k \in 1 .. DepthOf(ws2) + 1 /\ k > DepthOf(writers) /\ ~(k > DepthOf(ws2))
    BY <1>2, <1>6, <1>7
  <2>2. StopOf(d, writers, k) = r /\ StopOf(d2, ws2, k) = r
    BY <1>3, <1>5, <2>1 DEF StopOf
  <2>3. a \in Nat /\ a <= r
    BY <1>8, <2>1, <2>2, PlaceIs
  <2>4. fs[k] = FrameOf(TagOf(d, writers, k), Slice(d, StartOf(writers, k), StopOf(d, writers, k)))
    BY <1>8, <2>1, FramesOfIs
  <2>5. fs2[k] = FrameOf(TagOf(d2, ws2, k), Slice(d2, StartOf(ws2, k), StopOf(d2, ws2, k)))
    BY <1>8, <2>1, FramesOfIs
  <2> HIDE DEF a, r, d, d2
  <2>6. Slice(d, a, r) = Slice(d2, a, r)
    <3>1. r <= r
      BY <1>2
    <3> QED
      BY <1>2, <1>9, <2>3, <3>1, SameSlices
  <2> HIDE DEF fs, fs2, ws2, k
  <2> QED
    BY <1>11, <2>2, <2>4, <2>5, <2>6 DEF a
<1>13. fs2[k + 1] = FrameOf(t, <<>>)
  <2> DEFINE i == k + 1
  <2>1. i \in 1 .. DepthOf(ws2) + 1 /\ i > DepthOf(ws2) /\ i # 1 /\ i - 1 = k
    BY <1>2, <1>6
  <2>2. fs2[i] = FrameOf(TagOf(d2, ws2, i), Slice(d2, StartOf(ws2, i), StopOf(d2, ws2, i)))
    BY <1>8, <2>1, FramesOfIs
  <2>3. StopOf(d2, ws2, i) = Len(d2) /\ StartOf(ws2, i) = ws2[k].pos
    BY <2>1 DEF StopOf, StartOf
  <2>4. ws2[k].pos = Len(d2)
    BY <1>2, <1>3, <1>5
  <2>5. TagOf(d2, ws2, i) = DecodeVarint(d2, ws2[k].rollbackPos, Len(d2)).value \div 8
    BY <2>1 DEF TagOf
  <2>6. DecodeVarint(d2, ws2[k].rollbackPos, Len(d2)).value \div 8 = t
    BY <1>2, <1>6, MarkedTag
  <2>7. Slice(d2, Len(d2), Len(d2)) = <<>>
    <3> HIDE DEF d2
    <3>1. Len(d2) + 1 > Len(d2) /\ Len(d2) \in Nat
      BY <1>2
    <3> QED
      BY <1>2, <3>1 DEF Slice
  <2> HIDE DEF i, d2, ws2, k, fs2
  <2> QED
    BY <2>2, <2>3, <2>4, <2>5, <2>6, <2>7 DEF i
<1> HIDE DEF k, fs, fs2, d, d2, ws2, r
<1>14. fs2 = fs \o <<FrameOf(t, <<>>)>>
  <2> DEFINE x2 == FrameOf(t, <<>>)
             gs == fs \o <<x2>>
  <2>1. x2 \in FrameType
    <3>1. fs2[k + 1] \in FrameType
      <4>1. k + 1 \in 1 .. Len(fs2)
        BY <1>2, <1>10
      <4> QED
        BY <1>10, <4>1, ElementOfSeq
    <3> QED
      BY <1>13, <3>1
  <2> HIDE DEF x2, FrameType
  <2>2. gs \in Seq(FrameType) /\ Len(gs) = k + 1 /\ \A i \in 1 .. k : gs[i] = fs[i]
    BY <1>2, <1>10, <2>1
  <2>3. gs[k + 1] = x2
    <3>1. Len(<<x2>>) = 1 /\ <<x2>>[1] = x2 /\ <<x2>> \in Seq(FrameType)
      BY <2>1
    <3> DEFINE y == <<x2>>
    <3> HIDE DEF y
    <3>2. y \in Seq(FrameType) /\ Len(y) = 1 /\ y[1] = x2
      BY <3>1 DEF y
    <3>3. \A i \in 1 .. Len(fs) + Len(y) :
            (fs \o y)[i] = IF i <= Len(fs) THEN fs[i] ELSE y[i - Len(fs)]
      BY <1>10, <3>2, ConcatProperties
    <3>4. k + 1 \in 1 .. Len(fs) + Len(y) /\ ~(k + 1 <= Len(fs)) /\ (k + 1) - Len(fs) = 1
      BY <1>2, <1>10, <3>2
    <3>5. (fs \o y)[k + 1] = y[1]
      BY <3>3, <3>4, Zenon
    <3> QED
      BY <3>2, <3>5 DEF y
  <2> HIDE DEF gs
  <2>4. fs2[k + 1] = x2
    BY <1>13 DEF x2
  <2>5. \A i \in 1 .. k + 1 : fs2[i] = gs[i]
    <3> SUFFICES ASSUME NEW i \in 1 .. k + 1 PROVE fs2[i] = gs[i]
      OBVIOUS
    <3>1. i = k + 1 \/ i = k \/ i \in 1 .. k - 1
      BY <1>2
    <3>2. k \in 1 .. k /\ \A j \in 1 .. k - 1 : j \in 1 .. k
      BY <1>2
    <3> QED
      BY <1>11, <1>12, <2>2, <2>3, <2>4, <3>1, <3>2
  <2>6. fs2 = gs
    BY <1>10, <2>2, <2>5, SeqEqual
  <2> QED
    BY <2>6 DEF gs, x2
<1>15. Frames = fs /\ Frames' = fs2
  BY FramesAre DEF fs, fs2, d, d2, ws2
<1>16. \A i \in 1 .. k : fs2[i] = fs[i]
  <2> SUFFICES ASSUME NEW i \in 1 .. k PROVE fs2[i] = fs[i]
    OBVIOUS
  <2>1. i = k \/ i \in 1 .. k - 1
    BY <1>2
  <2> QED
    BY <1>11, <1>12, <2>1
<1>17. \A i \in 1 .. k : ws2[i].kind = writers[i].kind
  <2> SUFFICES ASSUME NEW i \in 1 .. k PROVE ws2[i].kind = writers[i].kind
    OBVIOUS
  <2>1. i = k \/ i \in 1 .. k - 1
    BY <1>2
  <2>2. writers[k].kind = "message"
    BY DEF k, Writer
  <2> QED
    BY <1>3, <1>5, <2>1, <2>2
<1>18. ws2[k + 1].kind = Schema[t]
  BY <1>4, <1>5
<1> QED
  BY <1>5, <1>6, <1>10, <1>13, <1>14, <1>15, <1>16, <1>17, <1>18, Zenon DEF OpensFrame, k, ws2

LEMMA OpensInTree ==
  ASSUME WriterInv(data, writers), WriterInv(data', writers'), NEW t \in SubmessageTags,
         Writer.kind = "message", Opens(t)
  PROVE  InTree
<1>1. Frames' = Frames \o <<[tag |-> t, bytes |-> <<>>]>>
  BY OpensFrames, Zenon DEF FrameOf, OpensFrame
<1>2. Tree!Open
  BY <1>1, Zenon DEF Tree!Open
<1> QED
  BY <1>2, Zenon DEF InTree, Tree!Next

\* The innermost writer has gone, and the one around it writes again.
LEMMA PoppedDepth ==
  ASSUME WriterInv(data, writers), WriterInv(data', writers'), Top > 1,
         NEW p \in WriterType, p.kind = "message", Popped(writers', p)
  PROVE  DepthOf(writers') = Top - 2 /\ \A k \in 1 .. Top - 2 : writers'[k] = writers[k]
<1> DEFINE L == Len(writers')
<1>1. L = Top - 1 /\ writers'[Top - 1] = p /\ \A k \in 1 .. Top - 2 : writers'[k] = writers[k]
  BY PopWriter
<1>2. Top \in Nat
  BY TopIs
<1>3. writers'[L].kind = "message"
  BY <1>1
<1>4. DepthOf(writers') = L - 1
  BY <1>3, DepthIs
<1>5. DepthOf(writers') = Top - 2
  <2> DEFINE D == DepthOf(writers')
  <2>1. D = L - 1
    BY <1>4
  <2> HIDE DEF D, L
  <2>2. D = Top - 2
    BY ONLY <1>1, <1>2, <2>1
  <2> QED
    BY <2>2 DEF D
<1> QED
  BY <1>1, <1>5

LEMMA MarkedDepth ==
  ASSUME WriterInv(data, writers), Top > 1, HasMark(data, writers, Top - 1)
  PROVE  DepthOf(writers) = Top - 1
<1>1. writers[Top - 1].rollbackPos # SizeIsKnown
  BY DEF HasMark, Marked, SizeIsKnown
<1>2. Len(writers) = Top
  BY TopIs
<1> QED
  BY <1>1, <1>2 DEF DepthOf

LEMMA ClosesFrames ==
  ASSUME WriterInv(data, writers), WriterInv(data', writers'), Top > 1,
         HasMark(data, writers, Top - 1), NEW f, Closes(f)
  PROVE  AltersAt(Frames, Frames', Len(Frames) - 1, f)
<1> DEFINE d == data
           d2 == data'
           ws2 == writers'
           q == Parent.rollbackPos
           x == Slice(d, 0, q)
           w == [Parent EXCEPT !.pos = 0]
           m == Top - 2
           g == Slice(d2, q, Len(d2))
<1>1. PICK t \in SubmessageTags : Marked(data, writers, Top - 1, t)
  BY DEF HasMark
<1>2. q \in Nat /\ q <= Len(d)
  <2> DEFINE at == Parent.rollbackPos + Len(HeadOf(t))
  <2>1. at = Parent.rollbackPos + Len(HeadOf(t))
    OBVIOUS
  <2> HIDE DEF at
  <2>2. q \in Nat /\ at \in Nat /\ q <= at /\ at <= Len(d)
    BY <1>1, <2>1, MarkedParent
  <2> HIDE DEF q
  <2> QED
    BY <2>2, TopIs
<1>3. d \in Seq(Byte) /\ Top \in Nat /\ m \in Nat /\ m + 1 = Top - 1 /\ Len(d) \in Nat
  BY TopIs
<1>4. f \in Seq(Byte) /\ d2 = x \o f /\ Popped(ws2, w)
  BY DEF Closes, Leave, Popped
<1>5. w \in WriterType /\ w.kind = "message"
  <2>1. Parent \in WriterType /\ Parent.kind = "message" /\ 0 \in Nat
    BY ParentIs
  <2> DEFINE v == Parent
  <2>2. v \in WriterType /\ v.kind = "message" /\ 0 \in Nat /\ 0 \in Int /\ w = [v EXCEPT !.pos = 0]
    BY <2>1
  <2> HIDE DEF v, w
  <2>3. [v EXCEPT !.pos = 0] \in WriterType /\ [v EXCEPT !.pos = 0].kind = v.kind
    BY <2>2, RecordsAre
  <2> QED
    BY <2>2, <2>3
<1> HIDE DEF w, x
<1>6. DepthOf(ws2) = m /\ \A k \in 1 .. m : ws2[k] = writers[k]
  BY <1>4, <1>5, PoppedDepth
<1>7. DepthOf(writers) = Top - 1
  BY MarkedDepth
<1>8. StopOf(d, writers, m + 1) = q
  <2>1. ~(m + 1 > DepthOf(writers)) /\ m + 1 = Top - 1
    BY <1>3, <1>7
  <2> QED
    BY <2>1 DEF StopOf, Parent
<1> HIDE DEF q, m
<1>9. x \in Seq(Byte) /\ Len(x) = q
  <2>1. 0 \in Nat /\ 0 <= q /\ q - 0 = q
    BY <1>2
  <2> QED
    BY <1>2, <1>3, <2>1, SliceIs DEF x
<1>10. SamePrefix(d, d2, q)
  <2>1. q \in 0 .. Len(d) /\ q \in 0 .. q /\ q \in 0 .. Len(x)
    BY <1>2, <1>3, <1>9
  <2>2. SamePrefix(d, x, q)
    BY <1>3, <2>1, SamePrefixOfSlice DEF x
  <2>3. SamePrefix(x, x \o f, q)
    BY <1>4, <1>9, <2>1, SamePrefixOfJoin
  <2> QED
    BY <1>4, <2>2, <2>3 DEF SamePrefix
<1>11. g = f
  <2>1. d2 = x \o f /\ q = Len(x)
    BY <1>4, <1>9
  <2>2. Len(d2) = Len(x) + Len(f) /\ Len(d2) \in Nat
    <3>1. x \o f \in Seq(Byte) /\ Len(x \o f) = Len(x) + Len(f)
      BY <1>4, <1>9, Join
    <3> HIDE DEF d2
    <3> QED
      BY <2>1, <3>1
  <2> DEFINE N == Len(d2)
  <2>3. N = Len(x) + Len(f) /\ N \in Nat
    BY <2>2
  <2> HIDE DEF N
  <2>4. Slice(x \o f, q, N) = f
    BY <1>2, <1>4, <1>9, <2>1, <2>3, SliceOfJoin
  <2> QED
    BY <2>1, <2>4 DEF N
<1>12. WriterInv(d, writers) /\ WriterInv(d2, ws2) /\ g = Slice(d2, q, Len(d2))
  OBVIOUS
<1>13. m = DepthOf(ws2) /\ m <= DepthOf(writers) /\ Len(Frames) - 1 = m + 1
  <2>1. Len(Frames) = DepthOf(writers) + 1
    BY FramesLength
  <2>2. m = Top - 2
    BY DEF m
  <2> QED
    BY <1>3, <1>6, <1>7, <2>1, <2>2
<1>14. m \in Nat /\ \A k \in 1 .. m : ws2[k] = writers[k]
  BY <1>3, <1>6
<1> HIDE DEF d, d2, ws2, g
<1>15. AltersAt(FramesOf(d, writers), FramesOf(d2, ws2), m + 1, g)
  BY <1>8, <1>10, <1>12, <1>13, <1>14, FramesAlter
<1>16. Frames = FramesOf(d, writers) /\ Frames' = FramesOf(d2, ws2)
  BY FramesAre DEF d, d2, ws2
<1> QED
  BY <1>11, <1>13, <1>15, <1>16

LEMMA RollbackInTree ==
  ASSUME WriterInv(data, writers), WriterInv(data', writers'), Top > 1,
         HasMark(data, writers, Top - 1), Closes(<<>>)
  PROVE  InTree
<1> DEFINE n == Len(Frames) - 1
           f == <<>>
<1>1. AltersAt(Frames, Frames', n, f) /\ n = Len(Frames) - 1
  BY ClosesFrames
<1> HIDE DEF n, f
<1>2. Tree!Close(f)
  BY <1>1, GrowsFront
<1>3. Tree!Rollback
  BY <1>2, Zenon DEF Tree!Rollback, f
<1> QED
  BY <1>3, Zenon DEF InTree, Tree!Next

LEMMA SizedFrames ==
  ASSUME WriterInv(data, writers), WriterInv(data', writers'), Top > 1,
         IsSized(writers, Top - 1), data' = data, Leave(Parent)
  PROVE  /\ Frames' = Frames
         /\ DepthOf(writers) = Top - 2 /\ DepthOf(writers') = Top - 2 /\ Len(writers') = Top - 1
         /\ \A k \in 1 .. Top - 1 : writers'[k] = writers[k]
<1> DEFINE m == DepthOf(writers)
           e == <<>>
<1>1. Parent \in WriterType /\ Parent.kind = "message" /\ Popped(writers', Parent)
  BY ParentIs DEF Leave, Popped
<1>2. DepthOf(writers') = Top - 2 /\ \A k \in 1 .. Top - 2 : writers'[k] = writers[k]
  BY <1>1, PoppedDepth
<1>9. Len(writers') = Top - 1 /\ writers'[Top - 1] = Parent
  BY <1>1, PopWriter
<1>3. m = Top - 2
  <2>1. Len(writers) = Top /\ writers[Top - 1].rollbackPos = SizeIsKnown
    BY TopIs DEF IsSized
  <2> QED
    BY <2>1 DEF DepthOf
<1>4. e \in Seq(Byte) /\ data' = data \o e
  <2>1. data \in Seq(Byte) /\ e \in Seq(Byte)
    BY TopIs, EmptySeq
  <2> HIDE DEF Byte
  <2>2. data \o <<>> = data
    BY <2>1, ConcatEmptySeq
  <2> QED
    BY <2>1, <2>2
<1>5. m = DepthOf(writers)
  OBVIOUS
<1> HIDE DEF m, e
<1>6. AltersAt(Frames, Frames', Len(Frames), e)
  BY <1>2, <1>3, <1>4, <1>5, GrowsFrames
<1>7. Frames' = Frames
  <2> DEFINE n == Len(Frames)
  <2>1. AltersAt(Frames, Frames', n, <<>>) /\ n = Len(Frames)
    BY <1>6 DEF e
  <2> HIDE DEF n
  <2> QED
    BY <2>1, StaysSame
<1>8. \A k \in 1 .. Top - 1 : writers'[k] = writers[k]
  <2> SUFFICES ASSUME NEW k \in 1 .. Top - 1 PROVE writers'[k] = writers[k]
    OBVIOUS
  <2>1. k = Top - 1 \/ k \in 1 .. Top - 2
    BY TopIs
  <2> QED
    BY <1>2, <1>9, <2>1 DEF Parent
<1> QED
  BY <1>2, <1>3, <1>5, <1>7, <1>8, <1>9

LEMMA SizedInTree ==
  ASSUME WriterInv(data, writers), WriterInv(data', writers'), Top > 1,
         IsSized(writers, Top - 1), data' = data, Leave(Parent)
  PROVE  InTree
BY SizedFrames DEF InTree

\* The innermost message, as the tree has it.
LEMMA InnermostFrame ==
  ASSUME WriterInv(data, writers), Top > 1, NEW t \in SubmessageTags,
         Marked(data, writers, Top - 1, t)
  PROVE  /\ Len(Frames) = Top /\ Frames[Len(Frames)].tag = t
         /\ Frames[Len(Frames)].bytes = Payload
<1> DEFINE d == data
           k == Top - 1
           L == Len(Frames)
           a == StartOf(writers, Top)
           b == StopOf(d, writers, Top)
           s == Slice(d, a, b)
           g == TagOf(d, writers, Top)
<1>1. Top \in Nat /\ k \in Nat /\ d \in Seq(Byte) /\ Top # 1
  BY TopIs
<1>2. DepthOf(writers) = k
  BY MarkedDepth DEF HasMark
<1>3. L = Top
  <2>1. L = DepthOf(writers) + 1
    BY FramesLength
  <2> QED
    BY <1>1, <1>2, <2>1
<1>4. Frames = FramesOf(d, writers)
  BY FramesAre
<1>5. Top \in 1 .. DepthOf(writers) + 1 /\ Top > DepthOf(writers)
  BY <1>1, <1>2
<1>6. Frames[Top] = FrameOf(g, s)
  <2>1. FramesOf(d, writers)[Top] = FrameOf(TagOf(d, writers, Top), Slice(d, StartOf(writers, Top), StopOf(d, writers, Top)))
    BY <1>5, FramesOfIs
  <2> QED
    BY <1>4, <2>1
<1>7. s = Payload
  <2>1. a = Parent.pos /\ b = Len(d)
    BY <1>1, <1>5 DEF StartOf, StopOf, Parent
  <2> QED
    BY <2>1 DEF Payload
<1>8. g = t
  <2>1. g = DecodeVarint(d, writers[k].rollbackPos, Len(d)).value \div 8
    BY <1>1 DEF TagOf
  <2>2. Marked(d, writers, k, t)
    OBVIOUS
  <2> HIDE DEF k, d
  <2>3. DecodeVarint(d, writers[k].rollbackPos, Len(d)).value \div 8 = t
    BY <1>1, <2>2, MarkedTag
  <2> QED
    BY <2>1, <2>3
<1> HIDE DEF s, g, L
<1>9. FrameOf(g, s).tag = g /\ FrameOf(g, s).bytes = s
  BY DEF FrameOf
<1> QED
  BY <1>3, <1>6, <1>7, <1>8, <1>9 DEF L

LEMMA CommitInTree ==
  ASSUME WriterInv(data, writers), WriterInv(data', writers'), Top > 1,
         NEW t \in SubmessageTags, CommitsAs(t)
  PROVE  InTree
<1> DEFINE n == Len(Frames) - 1
           f == Field(t, LengthDelimited, Payload)
           child == Frames[Len(Frames)]
           g == IF child.bytes = <<>> THEN <<>>
                ELSE Tree!FieldBytes([tag |-> child.tag, type |-> Tree!LengthDelimited,
                                      payload |-> child.bytes])
<1>1. Marked(data, writers, Top - 1, t) /\ Closes(f)
      /\ Parent.pos < Len(data) /\ Len(Payload) = Len(data) - Parent.pos
  BY DEF CommitsAs
<1>2. HasMark(data, writers, Top - 1)
  BY <1>1 DEF HasMark
<1>3. child.tag = t /\ child.bytes = Payload
  BY <1>1, InnermostFrame
<1>4. Payload # <<>>
  <2>1. Parent.pos \in Nat /\ Len(data) \in Nat
    BY TopIs, ParentIs DEF WriterType
  <2>2. Len(Payload) # 0
    BY <1>1, <2>1
  <2>3. Len(<<>>) = 0
    OBVIOUS
  <2> QED
    BY <2>2, <2>3
<1> HIDE DEF child
<1>5. g = f
  <2>1. g = Tree!FieldBytes([tag |-> t, type |-> LengthDelimited, payload |-> Payload])
    BY <1>3, <1>4, TreeEncodes, Zenon
  <2> QED
    BY <2>1, TreeEncodes, Zenon DEF Field
<1> HIDE DEF n, f, g
<1>6. AltersAt(Frames, Frames', n, f) /\ n = Len(Frames) - 1
  BY <1>1, <1>2, ClosesFrames DEF n
<1>7. Tree!Close(g)
  BY <1>5, <1>6, GrowsFront
<1>8. Tree!Commit
  BY <1>7, Zenon DEF Tree!Commit, g, child
<1> QED
  BY <1>8, Zenon DEF InTree, Tree!Next

LEMMA CloseInTree ==
  ASSUME WriterInv(data, writers), WriterInv(data', writers'), Top > 1, CloseSubmessage
  PROVE  InTree
BY CloseIs, SizedInTree, RollbackInTree, CommitInTree

LEMMA OpenInTree ==
  ASSUME WriterInv(data, writers), WriterInv(data', writers'), NEW t \in SubmessageTags,
         OpenSubmessage(t)
  PROVE  InTree
BY OpenIs, OpensInTree, OpenFailsInTree, UnharmedFrames DEF Unharmed

LEMMA OpenKnownInTree ==
  ASSUME WriterInv(data, writers), WriterInv(data', writers'), NEW t \in Tag, OpenKnownSize(t, 1)
  PROVE  InTree
BY OpenKnownIs, KnownOpensInTree, KnownFailsInTree, UnharmedFrames DEF Unharmed

LEMMA AddIsPiece ==
  ASSUME WriterInv(data, writers),
         \/ AddElement
         \/ \E t \in Tag : \/ AddVarint(t) \/ AddBool(t) \/ AddFixed(t)
                          \/ AddBytes(t) \/ AddBytesVectored(t) \/ AddPackedFixed(t)
  PROVE  \E s \in AllPieces : Adds(s)
<1>0. data \in Seq(Byte) /\ Len(data) <= Capacity
  BY TopIs
<1>1. \E s \in PiecesOf(Writer.kind) : Adds(s)
  BY <1>0, AddElementIs, AddVarintIs, AddBoolIs, AddFixedIs, AddBytesIs, AddBytesVectoredIs,
     AddPackedFixedIs
<1>2. Writer.kind \in {"message"} \cup PackedKinds
  <2>1. Writer \in WriterType
    BY TopIs
  <2> QED
    BY <2>1 DEF WriterType
<1> QED
  BY <1>1, <1>2, PiecesAre

LEMMA WriterStepInTree ==
  ASSUME WriterInv(data, writers), WriterInv(data', writers'), WriterNext
  PROVE  InTree
<1>1. ASSUME NEW s \in AllPieces, Adds(s) PROVE InTree
  BY <1>1, AddInTree
<1>2. ASSUME NEW t \in Tag, \/ AddVarint(t) \/ AddBool(t) \/ AddFixed(t)
                            \/ AddBytes(t) \/ AddBytesVectored(t) \/ AddPackedFixed(t)
      PROVE  InTree
  BY <1>1, <1>2, AddIsPiece
<1>3. CASE AddElement
  BY <1>1, <1>3, AddIsPiece
<1>4. ASSUME NEW t \in Tag, OpenPacked(t) \/ OpenMessage(t) PROVE InTree
  <2>1. t \in SubmessageTags /\ OpenSubmessage(t)
    BY <1>4 DEF OpenPacked, OpenMessage, SubmessageTags, TagsOf
  <2> QED
    BY <2>1, OpenInTree
<1>5. ASSUME NEW t \in Tag, OpenKnownSize(t, 1) PROVE InTree
  BY <1>5, OpenKnownInTree
<1>6. CASE Destroy
  BY <1>6, CloseInTree DEF Destroy
<1>7. CASE Commit
  BY <1>7, CloseInTree, UnharmedFrames DEF Commit, Assertion
<1>8. CASE Rollback
  <2>1. CASE data' = data /\ writers' = writers
    BY <2>1, UnharmedFrames
  <2>2. CASE Parent.rollbackPos # SizeIsKnown /\ RollbackSubmessage
    <3>1. Top > 1
      BY <1>8 DEF Rollback
    <3>2. HasMark(data, writers, Top - 1)
      BY <2>2, <3>1, ParentIs DEF IsSized, Parent
    <3>3. Closes(<<>>)
      BY <2>2, <3>1, <3>2, RollbackIs
    <3> QED
      BY <3>1, <3>2, <3>3, RollbackInTree
  <2> QED
    BY <1>8, <2>1, <2>2 DEF Rollback, Assertion
<1>9. CASE Catch
  BY <1>9, UnharmedFrames DEF Catch
<1> QED
  BY <1>2, <1>3, <1>4, <1>5, <1>6, <1>7, <1>8, <1>9 DEF WriterNext

\* Every step of the program is one of the tree, or does not change it.
LEMMA StepInTree ==
  ASSUME WireInv, WireInv', [Step]_vars
  PROVE  [Tree!Next]_Frames
<1>0. WriterInv(data, writers) /\ WriterInv(data', writers')
  BY DEF WireInv
<1>1. CASE Write
  <2>1. WriterNext
    BY <1>1 DEF Write
  <2>2. InTree
    BY <1>0, <2>1, WriterStepInTree
  <2> QED
    BY <2>2, Zenon DEF InTree
<1>2. CASE data' = data /\ writers' = writers
  <2>1. InTree
    BY <1>2, UnharmedFrames
  <2> QED
    BY <2>1, Zenon DEF InTree
<1>3. CASE HandOver
  BY <1>2, <1>3 DEF HandOver
<1>4. CASE ReadOn
  BY <1>2, <1>4 DEF ReadOn, writerVars
<1>5. CASE UNCHANGED vars
  BY <1>2, <1>5 DEF vars, writerVars
<1> QED
  BY <1>1, <1>3, <1>4, <1>5 DEF Step, Ended

LEMMA InitInTree ==
  ASSUME Init
  PROVE  Tree!Init
<1> DEFINE d == data
           ws == writers
           fs == FramesOf(d, ws)
           x == FrameOf(0, <<>>)
<1>1. d = <<>> /\ ws = <<NewWriter("message")>>
  BY DEF Init
<1>2. WriterInv(d, ws)
  BY <1>1, FirstWriter
<1>3. DepthOf(ws) = 0 /\ Len(d) = 0
  BY <1>1 DEF DepthOf
<1>4. fs \in Seq(FrameType) /\ Len(fs) = 1
      /\ fs[1] = FrameOf(TagOf(d, ws, 1), Slice(d, StartOf(ws, 1), StopOf(d, ws, 1)))
  <2>1. 1 \in 1 .. DepthOf(ws) + 1
    BY <1>3
  <2> HIDE DEF d, ws, fs
  <2>2. FramesOf(d, ws) \in Seq(FrameType) /\ Len(FramesOf(d, ws)) = DepthOf(ws) + 1
        /\ FramesOf(d, ws)[1] = FrameOf(TagOf(d, ws, 1), Slice(d, StartOf(ws, 1), StopOf(d, ws, 1)))
    BY <1>2, <2>1, FramesOfIs
  <2> QED
    BY <1>3, <2>2 DEF fs
<1>5. TagOf(d, ws, 1) = 0 /\ StartOf(ws, 1) = 0 /\ StopOf(d, ws, 1) = 0
  BY <1>3 DEF TagOf, StartOf, StopOf
<1>6. Slice(d, 0, 0) = <<>>
  BY <1>1 DEF Slice
<1> HIDE DEF d, ws, fs, x
<1>7. fs[1] = x
  BY <1>4, <1>5, <1>6 DEF x
<1>8. fs = <<x>>
  <2>1. x \in FrameType
    <3>1. 1 \in 1 .. Len(fs)
      BY <1>4
    <3> QED
      BY <1>4, <1>7, <3>1, ElementOfSeq
  <2> DEFINE gs == <<x>>
  <2> HIDE DEF FrameType
  <2>2. gs \in Seq(FrameType) /\ Len(gs) = 1 /\ gs[1] = x
    BY <2>1
  <2> HIDE DEF gs
  <2>3. \A i \in 1 .. 1 : fs[i] = gs[i]
    BY <1>7, <2>2
  <2>4. fs = gs
    BY <1>4, <2>2, <2>3, SeqEqual
  <2> QED
    BY <2>4 DEF gs
<1>9. Frames = fs
  BY FramesAre DEF fs, d, ws
<1>10. Frames = <<[tag |-> 0, bytes |-> <<>>]>>
  BY <1>8, <1>9, Zenon DEF x, FrameOf
<1> QED
  BY <1>10, Zenon DEF Tree!Init, Tree!Outermost

\* The writers, which share one buffer with reserved bytes, remembered positions
\* and erasures, implement messages in strings of their own, whatever is opened,
\* filled, committed, rolled back, destroyed or torn in whatever order
\* (basic_pbf_writer.hpp:175-221, 299-377).
THEOREM WritersImplementTree == Spec => ImplementsTree
<1>1. Init => Tree!Init
  BY InitInTree
<1>2. WireInv /\ WireInv' /\ [Step]_vars => [Tree!Next]_Frames
  BY StepInTree
<1> QED
  BY <1>1, <1>2, WireInvariant, PTL DEF Spec, ImplementsTree, Tree!Spec

===============================================================================
