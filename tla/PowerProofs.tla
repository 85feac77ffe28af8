---------------------------- MODULE PowerProofs ----------------------------
(***************************************************************************)
(* Induction on numbers, without a predicate as a parameter, and what the  *)
(* proofs about numbers, words and trees use of the powers of two.         *)
(***************************************************************************)
EXTENDS Powers, WellFoundedInduction, TLAPS

(***************************************************************************)
(* Induction on numbers.                                                   *)
(***************************************************************************)

\* Every set of natural numbers has a least member, and so what holds of 0 and
\* passes from each number to the next holds of all.
LEMMA Least ==
  ASSUME NEW S \in SUBSET Nat, S # {}
  PROVE  \E m \in S : \A n \in S : m <= n
  <1> DEFINE R == {e \in Nat \X Nat : e[1] < e[2]}
  <1>1. IsWellFoundedOn(R, Nat)
    BY NatLessThanWellFounded DEF OpToRel
  <1>2. PICK m \in S : \A n \in S : <<n, m>> \notin R
    <2> HIDE DEF R
    <2> QED
      BY <1>1, WFMin, Zenon
  <1>3. \A n \in S : ~ (n < m)
    BY <1>2
  <1> QED
    BY <1>3

LEMMA Induct ==
  ASSUME NEW S, 0 \in S, \A n \in Nat : n \in S => n + 1 \in S
  PROVE  Nat \subseteq S
  <1> SUFFICES ASSUME Nat \ S # {} PROVE FALSE
    OBVIOUS
  <1>1. PICK m \in Nat \ S : \A n \in Nat \ S : m <= n
    BY Least
  <1>2. m - 1 \in Nat /\ m - 1 \notin Nat \ S
    BY <1>1
  <1> QED
    BY <1>1, <1>2

(***************************************************************************)
(* The powers of two.                                                      *)
(***************************************************************************)

\* The function that Two is of all numbers, as far as D.
TwoTo(f, D) ==
  /\ DOMAIN f = 0..D /\ f[0] = 1
  /\ \A d \in 0..D : d # 0 => f[d] = 2 * f[d - 1]

LEMMA TwoExists ==
  ASSUME NEW D \in Nat
  PROVE  \E f : TwoTo(f, D)
  <1> DEFINE S == {e \in Nat : \E f : TwoTo(f, e)}
  <1>1. 0 \in S
    <2> DEFINE f == [d \in 0..0 |-> 1]
    <2>1. TwoTo(f, 0)
      BY DEF TwoTo
    <2> QED
      BY <2>1
  <1>2. ASSUME NEW e \in Nat, e \in S PROVE e + 1 \in S
    <2>1. PICK f : TwoTo(f, e)
      BY <1>2
    <2> DEFINE g == [d \in 0..(e + 1) |-> IF d <= e THEN f[d] ELSE 2 * f[e]]
    <2>2. \A d \in 0..(e + 1) : d # 0 => g[d] = 2 * g[d - 1]
      BY <2>1 DEF TwoTo
    <2>3. TwoTo(g, e + 1)
      BY <2>1, <2>2 DEF TwoTo
    <2> QED
      BY <2>3
  <1> QED
    BY <1>1, <1>2, Induct

LEMMA TwoUnique ==
  ASSUME NEW D \in Nat, NEW f, TwoTo(f, D), NEW E \in Nat, NEW g, TwoTo(g, E)
  PROVE  \A d \in Nat : d <= D /\ d <= E => f[d] = g[d]
  <1> DEFINE S == {d \in Nat : d <= D /\ d <= E => f[d] = g[d]}
  <1>1. 0 \in S
    BY DEF TwoTo
  <1>2. ASSUME NEW d \in Nat, d \in S PROVE d + 1 \in S
    <2> SUFFICES ASSUME d + 1 <= D, d + 1 <= E PROVE f[d + 1] = g[d + 1]
      OBVIOUS
    <2>1. f[d + 1] = 2 * f[d] /\ g[d + 1] = 2 * g[d]
      BY DEF TwoTo
    <2> QED
      BY <1>2, <2>1
  <1>3. Nat \subseteq S
    BY <1>1, <1>2, Induct
  <1> QED
    BY <1>3

LEMMA TwoDef ==
  /\ Two[0] = 1
  /\ \A d \in Nat : Two[d + 1] = 2 * Two[d]
  <1> DEFINE F(f) == f = [d \in Nat |-> IF d = 0 THEN 1 ELSE 2 * f[d - 1]]
             upTo(D) == CHOOSE f : TwoTo(f, D)
             g == [d \in Nat |-> upTo(d)[d]]
  <1>1. \A D \in Nat : TwoTo(upTo(D), D)
    BY TwoExists
  <1> HIDE DEF upTo
  <1>2. ASSUME NEW d \in Nat, d # 0 PROVE g[d] = 2 * g[d - 1]
    <2>1. d - 1 \in Nat
      BY <1>2
    <2>2. TwoTo(upTo(d), d) /\ TwoTo(upTo(d - 1), d - 1)
      BY <1>1, <2>1
    <2>3. upTo(d)[d - 1] = upTo(d - 1)[d - 1]
      BY <2>1, <2>2, TwoUnique
    <2>4. upTo(d)[d] = 2 * upTo(d)[d - 1]
      BY <1>2, <2>2 DEF TwoTo
    <2> QED
      BY <2>1, <2>3, <2>4
  <1>3. g[0] = 1
    BY <1>1 DEF TwoTo
  <1>4. F(g)
    BY <1>2, <1>3
  <1> HIDE DEF g
  <1>5. F(Two)
    BY <1>4 DEF Two
  <1>6. \A d \in Nat : Two[d] = IF d = 0 THEN 1 ELSE 2 * Two[d - 1]
    BY <1>5
  <1>7. ASSUME NEW d \in Nat PROVE Two[d + 1] = 2 * Two[d]
    <2>1. d + 1 \in Nat /\ d + 1 # 0 /\ (d + 1) - 1 = d
      OBVIOUS
    <2> HIDE DEF F
    <2> QED
      BY <1>6, <2>1
  <1> QED
    BY <1>6, <1>7

LEMMA TwoNat ==
  /\ \A d \in Nat : Two[d] \in Nat /\ Two[d] >= d + 1
  /\ \A d, e \in Nat : d <= e => Two[d] <= Two[e]
  <1>1. \A d \in Nat : Two[d] \in Nat /\ Two[d] >= d + 1
    <2> DEFINE S == {d \in Nat : Two[d] \in Nat /\ Two[d] >= d + 1}
    <2>1. 0 \in S
      BY TwoDef
    <2>2. ASSUME NEW d \in Nat, d \in S PROVE d + 1 \in S
      BY <2>2, TwoDef
    <2>3. Nat \subseteq S
      BY <2>1, <2>2, Induct
    <2> QED
      BY <2>3
  <1>2. ASSUME NEW d \in Nat PROVE \A e \in Nat : d <= e => Two[d] <= Two[e]
    <2> DEFINE S == {e \in Nat : d <= e => Two[d] <= Two[e]}
    <2>1. 0 \in S
      BY <1>1
    <2>2. ASSUME NEW e \in Nat, e \in S PROVE e + 1 \in S
      <3>1. Two[e + 1] = 2 * Two[e] /\ Two[e] \in Nat /\ Two[d] \in Nat
        BY <1>1, TwoDef
      <3>2. d <= e + 1 => d <= e \/ d = e + 1
        OBVIOUS
      <3> QED
        BY <2>2, <3>1, <3>2
    <2>3. Nat \subseteq S
      BY <2>1, <2>2, Induct
    <2> QED
      BY <2>3
  <1> QED
    BY <1>1, <1>2

LEMMA TwoStep ==
  ASSUME NEW d \in Nat
  PROVE  Two[d] \in Nat /\ Two[d] > 0 /\ Two[d + 1] = 2 * Two[d]
  BY TwoNat, TwoDef

\* The exponents of a product are added.
LEMMA TwoSum ==
  ASSUME NEW a \in Nat, NEW b \in Nat
  PROVE  Two[a + b] = Two[a] * Two[b]
  <1> DEFINE S == {n \in Nat : Two[a + n] = Two[a] * Two[n]}
  <1>1. 0 \in S
    BY TwoNat, TwoDef
  <1>2. ASSUME NEW n \in Nat, n \in S PROVE n + 1 \in S
    <2>1. PICK p \in Nat, q \in Nat : p = Two[a] /\ q = Two[n]
      BY TwoNat
    <2>2. Two[n + 1] = 2 * q /\ Two[(a + n) + 1] = 2 * (p * q)
      BY <1>2, <2>1, TwoDef
    <2>3. 2 * (p * q) = p * (2 * q) /\ (a + n) + 1 = a + (n + 1)
      BY <2>1, Z3T(20)
    <2> QED
      BY <2>1, <2>2, <2>3
  <1>3. Nat \subseteq S
    BY <1>1, <1>2, Induct
  <1> QED
    BY <1>3
=============================================================================
