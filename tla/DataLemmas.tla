------------------------------- MODULE DataLemmas -------------------------------
(***************************************************************************)
(* Induction and recursion over the naturals, stated with sets and         *)
(* functions instead of operators, and slices of sequences: for the loops  *)
(* of the codecs and the scanner.                                          *)
(***************************************************************************)
EXTENDS SequenceTheorems, WellFoundedInduction, TLAPS

\* Every set of naturals that is not empty has a least member.
LEMMA LeastNatural ==
  ASSUME NEW T \in SUBSET Nat, T # {}
  PROVE  \E x \in T : \A y \in T : x <= y
<1> DEFINE R == {p \in Nat \X Nat : p[1] < p[2]}
<1>1. IsWellFoundedOn(R, Nat)
  BY NatLessThanWellFounded DEF OpToRel
<1>2. PICK x \in T : \A y \in T : <<y, x>> \notin R
  BY <1>1, WFMin
<1>3. ASSUME NEW y \in T PROVE x <= y
  <2>1. x \in Nat /\ y \in Nat /\ <<y, x>> \in Nat \X Nat
    OBVIOUS
  <2>2. ~(y < x)
    BY <1>2, <2>1
  <2> QED
    BY <2>1, <2>2
<1> QED
  BY <1>3

\* A set of naturals with 0 and the successor of each member has all of them.
LEMMA Induction ==
  ASSUME NEW S, 0 \in S, \A n \in Nat : n \in S => n + 1 \in S
  PROVE  \A n \in Nat : n \in S
<1> DEFINE T == {n \in Nat : n \notin S}
<1> SUFFICES ASSUME T # {} PROVE FALSE
  OBVIOUS
<1> HIDE DEF T
<1>1. PICK x \in T : \A y \in T : x <= y
  BY LeastNatural DEF T
<1>2. x \in Nat /\ x # 0 /\ x - 1 \in Nat /\ x - 1 \notin T
  BY <1>1 DEF T
<1>3. x - 1 \in S
  BY <1>2 DEF T
<1>4. (x - 1) + 1 \in S
  BY <1>2, <1>3
<1>5. (x - 1) + 1 = x
  BY <1>2
<1> QED
  BY <1>4, <1>5 DEF T

\* A loop: the body maps the number of a round and the value before it to the
\* value after it; the values are those that it goes through.
IsBody(body, V)          == body \in [Nat -> [V -> V]]
AreValues(f, base, body, V) ==
  f \in [Nat -> V] /\ f[0] = base /\ \A n \in Nat : f[n + 1] = body[n][f[n]]

\* A loop that makes each value from its number and the value before has a value
\* after every round.
LEMMA Recursion ==
  ASSUME NEW V, NEW base \in V, NEW body, IsBody(body, V)
  PROVE  \E f : AreValues(f, base, body, V)
<1> USE DEF IsBody
<1> DEFINE Run(n, g) == /\ g \in [0 .. n -> V] /\ g[0] = base
                        /\ \A k \in 0 .. n - 1 : g[k + 1] = body[k][g[k]]
           Runs == {n \in Nat : \E g : Run(n, g)}
<1>1. \A n \in Nat : \E g : Run(n, g)
  <2>1. 0 \in Runs
    <3>1. Run(0, [k \in 0 .. 0 |-> base])
      OBVIOUS
    <3> QED
      BY <3>1
  <2>2. ASSUME NEW n \in Nat, n \in Runs PROVE n + 1 \in Runs
    <3>1. PICK g : Run(n, g)
      BY <2>2
    <3> DEFINE h == [k \in 0 .. n + 1 |-> IF k = n + 1 THEN body[n][g[n]] ELSE g[k]]
    <3>2. g[n] \in V /\ body[n][g[n]] \in V
      BY <3>1
    <3>3. h \in [0 .. n + 1 -> V] /\ h[0] = base
      BY <3>1, <3>2
    <3>4. ASSUME NEW k \in 0 .. n + 1 - 1 PROVE h[k + 1] = body[k][h[k]]
      <4>1. k \in 0 .. n + 1 /\ k + 1 \in 0 .. n + 1 /\ k # n + 1 /\ h[k] = g[k]
        OBVIOUS
      <4>2. CASE k = n
        BY <4>1, <4>2
      <4>3. CASE k # n
        <5>1. k \in 0 .. n - 1 /\ k + 1 # n + 1
          BY <4>3
        <5>2. h[k + 1] = g[k + 1]
          BY <4>1, <5>1
        <5>3. g[k + 1] = body[k][g[k]]
          BY <3>1, <5>1
        <5> QED
          BY <4>1, <5>2, <5>3
      <4> QED
        BY <4>2, <4>3
    <3> HIDE DEF h
    <3>5. Run(n + 1, h)
      BY <3>3, <3>4
    <3> HIDE DEF Run
    <3> QED
      BY <3>5
  <2> QED
    <3> HIDE DEF Runs
    <3>1. \A n \in Nat : n \in Runs
      BY <2>1, <2>2, Induction
    <3> QED
      BY <3>1 DEF Runs
<1>2. ASSUME NEW n \in Nat, NEW m \in Nat, n <= m, NEW g, NEW h, Run(n, g), Run(m, h)
      PROVE  g[n] = h[n]
  <2> DEFINE Same == {k \in Nat : k <= n => g[k] = h[k]}
  <2>1. 0 \in Same
    BY <1>2
  <2>2. ASSUME NEW k \in Nat, k \in Same PROVE k + 1 \in Same
    <3> SUFFICES ASSUME k + 1 <= n PROVE g[k + 1] = h[k + 1]
      OBVIOUS
    <3>1. k \in 0 .. n - 1 /\ k \in 0 .. m - 1 /\ g[k] = h[k]
      BY <1>2, <2>2
    <3>2. g[k + 1] = body[k][g[k]] /\ h[k + 1] = body[k][h[k]]
      BY <1>2, <3>1
    <3> QED
      BY <3>1, <3>2
  <2> HIDE DEF Same
  <2>3. n \in Same
    BY <2>1, <2>2, Induction
  <2> QED
    BY <2>3 DEF Same
<1> DEFINE G(n) == CHOOSE g : Run(n, g)
           f == [n \in Nat |-> G(n)[n]]
<1>3. ASSUME NEW n \in Nat PROVE Run(n, G(n))
  BY <1>1, Zenon
<1> HIDE DEF G
<1>4. f \in [Nat -> V]
  BY <1>3
<1>5. f[0] = base
  BY <1>3
<1>6. ASSUME NEW n \in Nat PROVE f[n + 1] = body[n][f[n]]
  <2>1. Run(n + 1, G(n + 1)) /\ Run(n, G(n))
    BY <1>3
  <2>2. G(n + 1)[n + 1] = body[n][G(n + 1)[n]]
    BY <2>1
  <2>3. G(n)[n] = G(n + 1)[n]
    <3> HIDE DEF Run
    <3>1. n + 1 \in Nat /\ n <= n + 1
      OBVIOUS
    <3> QED
      BY <1>2, <2>1, <3>1
  <2> QED
    BY <2>2, <2>3
<1> QED
  BY <1>4, <1>5, <1>6 DEF AreValues

\* A slice of a sequence, member by member.
LEMMA SliceAt ==
  ASSUME NEW S, NEW s \in Seq(S), NEW m \in Nat \ {0}, NEW n \in Nat, n <= Len(s), m <= n + 1
  PROVE  /\ SubSeq(s, m, n) \in Seq(S) /\ Len(SubSeq(s, m, n)) = (n + 1) - m
         /\ \A i \in 1 .. (n + 1) - m : SubSeq(s, m, n)[i] = s[(m - 1) + i]
<1>1. \A i \in m .. n : s[i] \in S
  OBVIOUS
<1>2. CASE m <= n
  BY <1>1, <1>2, SubSeqProperties
<1>3. CASE m = n + 1
  BY <1>1, <1>3, SubSeqProperties
<1> QED
  BY <1>2, <1>3

LEMMA Division ==
  ASSUME NEW n \in Nat, NEW m \in Nat \ {0}
  PROVE  n \div m \in Nat /\ n % m \in 0 .. m - 1 /\ n = (n \div m) * m + (n % m)
OBVIOUS
================================================================================
