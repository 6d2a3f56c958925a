------------------------------ MODULE CodecProofs ------------------------------
(***************************************************************************)
(* Theorems about Codec: what is encoded at one end is decoded at the      *)
(* other, for bytes, numbers, hashes and messages of any size.             *)
(***************************************************************************)
EXTENDS Codec, DataLemmas

-------------------------------------------------------------------------------
(* Numbers and their bytes: what big_endian_to_lu makes of the bytes that  *)
(* lu_to_big_endian writes, for bytes and ints of any size.                *)

\* The powers that the shifts stand for.
LEMMA ShiftValues ==
  /\ Shift[0] = 1
  /\ \A k \in Nat : Shift[k] \in Nat \ {0} /\ Shift[k + 1] = ByteRange * Shift[k]
<1> USE CodecAssumption
<1> DEFINE V == Nat \ {0}
           body == [n \in Nat |-> [v \in V |-> ByteRange * v]]
<1>1. \A a \in V, b \in V : a * b \in V
  OBVIOUS
<1>2. PICK f : AreValues(f, 1, body, V)
  <2>1. IsBody(body, V)
    BY <1>1 DEF IsBody
  <2>2. 1 \in V
    OBVIOUS
  <2> HIDE DEF body, V
  <2> QED
    BY <2>1, <2>2, Recursion
<1>3. \A n \in Nat : f[n + 1] = ByteRange * f[n]
  BY <1>2 DEF AreValues
<1>4. f = [k \in Nat |-> IF k = 0 THEN 1 ELSE ByteRange * f[k - 1]]
  <2>1. ASSUME NEW k \in Nat PROVE f[k] = IF k = 0 THEN 1 ELSE ByteRange * f[k - 1]
    <3>1. CASE k = 0
      BY <1>2, <3>1 DEF AreValues
    <3>2. CASE k # 0
      <4>1. k - 1 \in Nat /\ (k - 1) + 1 = k
        BY <3>2
      <4> QED
        BY <1>3, <3>2, <4>1
    <3> QED
      BY <3>1, <3>2
  <2> QED
    BY <1>2, <2>1 DEF AreValues
<1>5. Shift = [k \in Nat |-> IF k = 0 THEN 1 ELSE ByteRange * Shift[k - 1]]
  BY <1>4 DEF Shift
<1>6. Shift[0] = 1
  BY <1>5
<1>7. ASSUME NEW k \in Nat PROVE Shift[k + 1] = ByteRange * Shift[k]
  <2>1. k + 1 \in Nat /\ k + 1 # 0 /\ (k + 1) - 1 = k
    OBVIOUS
  <2>2. Shift[k + 1] = ByteRange * Shift[(k + 1) - 1]
    BY <1>5, <2>1
  <2> QED
    BY <2>1, <2>2
<1>8. ASSUME NEW k \in Nat PROVE Shift[k] \in Nat \ {0}
  <2> DEFINE Positive == {j \in Nat : Shift[j] \in Nat \ {0}}
  <2>1. 0 \in Positive
    BY <1>6
  <2>2. ASSUME NEW j \in Nat, j \in Positive PROVE j + 1 \in Positive
    <3>1. Shift[j] \in Nat \ {0} /\ Shift[j + 1] = ByteRange * Shift[j]
      BY <1>7, <2>2
    <3>2. Shift[j + 1] \in Nat \ {0}
      BY <1>1, <3>1
    <3> QED
      BY <3>2
  <2> HIDE DEF Positive
  <2>3. k \in Positive
    BY <2>1, <2>2, Induction
  <2> QED
    BY <2>3 DEF Positive
<1> QED
  BY <1>6, <1>7, <1>8

\* The quotient and the remainder of a division are unique.
LEMMA DivisionIsUnique ==
  ASSUME NEW q \in Int, NEW m \in Nat \ {0}, NEW r \in 0 .. m - 1
  PROVE  (q * m + r) \div m = q /\ (q * m + r) % m = r
OBVIOUS

\* A digit of n, in its place, is what two remainders of n differ by.
LEMMA DigitInPlace ==
  ASSUME NEW n \in Nat, NEW P \in Nat \ {0}, NEW B \in Nat \ {0}
  PROVE  ((n \div P) % B) * P = (n % (B * P)) - (n % P)
<1> DEFINE q == n \div P
           r == n % P
           a == q \div B
           d == q % B
<1>1. q \in Nat /\ r \in 0 .. P - 1 /\ n = q * P + r
  BY Division
<1>2. a \in Nat /\ d \in 0 .. B - 1 /\ q = a * B + d
  BY <1>1, Division
<1> HIDE DEF q, r, a, d
<1>3. B * P \in Nat \ {0} /\ d * P \in Nat
  BY <1>2
<1>4. n = a * (B * P) + (d * P + r)
  <2>1. (a * B + d) * P = a * (B * P) + d * P
    BY <1>2
  <2> QED
    BY <1>1, <1>2, <1>3, <2>1
<1>5. d * P + r \in 0 .. B * P - 1
  <2>1. d * P <= (B - 1) * P
    BY <1>2
  <2>2. (B - 1) * P = B * P - P
    OBVIOUS
  <2> QED
    BY <1>1, <1>3, <2>1, <2>2
<1>6. n % (B * P) = d * P + r
  <2> DEFINE m == B * P
             x == d * P + r
  <2>1. a \in Int /\ m \in Nat \ {0} /\ x \in 0 .. m - 1 /\ n = a * m + x
    BY <1>2, <1>3, <1>4, <1>5
  <2> HIDE DEF m, x
  <2>2. n % m = x
    BY <2>1, DivisionIsUnique
  <2> QED
    BY <2>2 DEF m, x
<1> QED
  BY <1>1, <1>3, <1>6 DEF d, q, r

LEMMA RangesAreNumbers ==
  /\ ByteRange \in Nat \ {0} /\ Byte \subseteq Nat
  /\ IntRange \in Nat \ {0} /\ LongRange \in Nat \ {0}
  /\ Shift[IntBytes - 1] \in Nat \ {0} /\ IntRange = ByteRange * Shift[IntBytes - 1]
<1> USE CodecAssumption
<1>1. IntBytes - 1 \in Nat /\ (IntBytes - 1) + 1 = IntBytes
  OBVIOUS
<1>2. IntRange \in Nat \ {0} /\ Shift[IntBytes - 1] \in Nat \ {0}
  BY <1>1, ShiftValues DEF IntRange
<1>3. IntRange = ByteRange * Shift[IntBytes - 1]
  BY <1>1, ShiftValues DEF IntRange
<1>4. LongRange \in Nat \ {0}
  <2>1. \A a \in Nat \ {0}, b \in Nat \ {0} : a * b \in Nat \ {0}
    OBVIOUS
  <2> QED
    BY <1>2, <2>1 DEF LongRange
<1>5. Byte \subseteq Nat
  BY DEF Byte
<1> QED
  BY <1>2, <1>3, <1>4, <1>5

LEMMA IntOfBits ==
  ASSUME NEW n \in Int
  PROVE  AsInt(n) \in Int
BY RangesAreNumbers DEF AsInt

\* The loop of big_endian_to_lu, round by round.
LEMMA SumOfBytes ==
  ASSUME NEW b \in Seq(Byte)
  PROVE  \E sum : /\ sum \in [0 .. Len(b) -> 0 .. LongRange - 1] /\ sum[0] = 0
                  /\ \A i \in 1 .. Len(b) :
                       sum[i] = (sum[i - 1] + AsInt(b[i] * Shift[Len(b) - i])) % LongRange
                  /\ big_endian_to_lu(b) = sum[Len(b)]
<1> DEFINE V == 0 .. LongRange - 1
           Term(i) == IF i \in 1 .. Len(b) THEN AsInt(b[i] * Shift[Len(b) - i]) ELSE 0
           body == [n \in Nat |-> [v \in V |-> (v + Term(n + 1)) % LongRange]]
<1>1. ASSUME NEW i \in Nat PROVE Term(i) \in Int
  <2>1. CASE i \in 1 .. Len(b)
    <3>1. Len(b) - i \in Nat /\ b[i] \in Nat
      <4>1. b[i] \in Byte /\ Len(b) \in Nat
        BY <2>1
      <4>2. b[i] \in Nat
        BY <4>1, RangesAreNumbers
      <4> QED
        BY <2>1, <4>1, <4>2
    <3>2. Shift[Len(b) - i] \in Nat
      BY <3>1, ShiftValues
    <3>3. b[i] * Shift[Len(b) - i] \in Int
      BY <3>1, <3>2
    <3> QED
      BY <2>1, <3>3, IntOfBits
  <2> QED
    BY <2>1
<1> HIDE DEF Term
<1>2. \A v \in V, t \in Int : (v + t) % LongRange \in V
  BY RangesAreNumbers
<1>3. PICK f : AreValues(f, 0, body, V)
  <2>1. IsBody(body, V)
    <3>1. ASSUME NEW n \in Nat, NEW v \in V PROVE (v + Term(n + 1)) % LongRange \in V
      <4>1. Term(n + 1) \in Int
        BY <1>1
      <4> HIDE DEF V
      <4> QED
        BY <1>2, <4>1
    <3> HIDE DEF V
    <3> QED
      BY <3>1 DEF IsBody
  <2>2. 0 \in V
    BY RangesAreNumbers
  <2> HIDE DEF body, V
  <2> QED
    BY <2>1, <2>2, Recursion
<1> DEFINE L == Len(b)
           g == [i \in 0 .. L |-> f[i]]
<1>4. L \in Nat
  OBVIOUS
<1>5. g \in [0 .. L -> V] /\ g[0] = 0
  BY <1>3, <1>4 DEF AreValues
<1>6. ASSUME NEW i \in 1 .. L
      PROVE  g[i] = (g[i - 1] + AsInt(b[i] * Shift[Len(b) - i])) % LongRange
  <2>1. i - 1 \in Nat /\ (i - 1) + 1 = i
    BY <1>4
  <2>2. f[i] = body[i - 1][f[i - 1]] /\ f[i - 1] \in V
    BY <1>3, <2>1 DEF AreValues
  <2>3. f[i] = (f[i - 1] + Term(i)) % LongRange
    BY <2>1, <2>2
  <2> QED
    BY <1>4, <2>3 DEF Term
<1>7. g = [i \in 0 .. Len(b) |->
             IF i = 0 THEN 0 ELSE (g[i - 1] + AsInt(b[i] * Shift[Len(b) - i])) % LongRange]
  <2>1. ASSUME NEW i \in 0 .. L
        PROVE  g[i] = IF i = 0 THEN 0
                      ELSE (g[i - 1] + AsInt(b[i] * Shift[Len(b) - i])) % LongRange
    <3> HIDE DEF g
    <3>1. i = 0 \/ i \in 1 .. L
      BY <1>4
    <3> QED
      BY <1>5, <1>6, <3>1
  <2>2. g = [i \in 0 .. L |-> g[i]]
    OBVIOUS
  <2> HIDE DEF g
  <2> QED
    BY <2>1, <2>2
<1> DEFINE IsSum(h) ==
      h = [i \in 0 .. Len(b) |->
             IF i = 0 THEN 0 ELSE (h[i - 1] + AsInt(b[i] * Shift[Len(b) - i])) % LongRange]
           c == CHOOSE h : IsSum(h)
<1>8. IsSum(c) /\ big_endian_to_lu(b) = c[Len(b)]
  <2>1. IsSum(g)
    BY <1>7
  <2>2. IsSum(c)
    <3> HIDE DEF IsSum
    <3> QED
      BY <2>1
  <2> QED
    BY <2>2 DEF big_endian_to_lu
<1> HIDE DEF c
<1>9. c[0] = 0 /\ \A i \in 1 .. L : c[i] = (c[i - 1] + AsInt(b[i] * Shift[Len(b) - i])) % LongRange
  BY <1>8
<1>10. ASSUME NEW i \in 0 .. L PROVE c[i] \in V
  <2> DEFINE Typed == {j \in Nat : j <= L => c[j] \in V}
  <2>1. 0 \in Typed
    BY <1>9, RangesAreNumbers
  <2>2. ASSUME NEW j \in Nat, j \in Typed PROVE j + 1 \in Typed
    <3> SUFFICES ASSUME j + 1 <= L PROVE c[j + 1] \in V
      OBVIOUS
    <3>1. c[j] \in V /\ j + 1 \in 1 .. L /\ (j + 1) - 1 = j
      BY <1>4, <2>2
    <3>2. c[j + 1] = (c[j] + Term(j + 1)) % LongRange
      BY <1>9, <3>1 DEF Term
    <3>3. Term(j + 1) \in Int
      BY <1>1
    <3> HIDE DEF V
    <3> QED
      BY <1>2, <3>1, <3>2, <3>3
  <2> HIDE DEF Typed
  <2>3. i \in Nat /\ i \in Typed
    BY <1>4, <2>1, <2>2, Induction
  <2> QED
    BY <1>4, <2>3 DEF Typed
<1>11. c \in [0 .. L -> V]
  <2>1. c = [i \in 0 .. L |-> c[i]]
    BY <1>8
  <2> HIDE DEF V
  <2> QED
    BY <1>10, <2>1
<1> QED
  BY <1>8, <1>9, <1>11

LEMMA BytesOfNumber ==
  ASSUME NEW n \in Nat, NEW size \in Nat
  PROVE  /\ lu_to_big_endian(n, size) \in Seq(Byte)
         /\ Len(lu_to_big_endian(n, size)) = size
         /\ \A i \in 1 .. size :
              lu_to_big_endian(n, size)[i] = (n \div Shift[size - i]) % ByteRange
<1>1. ASSUME NEW i \in 1 .. size PROVE (n \div Shift[size - i]) % ByteRange \in Byte
  <2>1. size - i \in Nat
    OBVIOUS
  <2>2. Shift[size - i] \in Nat \ {0}
    BY <2>1, ShiftValues
  <2>3. n \div Shift[size - i] \in Nat
    BY <2>2, Division
  <2>4. (n \div Shift[size - i]) % ByteRange \in 0 .. ByteRange - 1
    BY <2>3, Division, RangesAreNumbers
  <2> QED
    BY <2>4 DEF Byte
<1> QED
  BY <1>1 DEF lu_to_big_endian

LEMMA SmallRemainder ==
  ASSUME NEW m \in Nat \ {0}, NEW n \in 0 .. m - 1
  PROVE  n % m = n
OBVIOUS

\* Bits that fit into an int are that int, or less by the range of it.
LEMMA IntOfSmall ==
  ASSUME NEW n \in 0 .. IntRange - 1
  PROVE  AsInt(n) = IF n < IntRange \div 2 THEN n ELSE n - IntRange
<1>1. n % IntRange = n
  BY RangesAreNumbers, SmallRemainder
<1> QED
  BY <1>1 DEF AsInt

LEMMA ShiftGrows ==
  ASSUME NEW k \in Nat, NEW j \in 0 .. k
  PROVE  Shift[j] <= Shift[k]
<1> DEFINE Above == {i \in Nat : j <= i => Shift[j] <= Shift[i]}
<1>1. 0 \in Above
  BY ShiftValues
<1>2. ASSUME NEW i \in Nat, i \in Above PROVE i + 1 \in Above
  <2> SUFFICES ASSUME j <= i + 1, j # i + 1 PROVE Shift[j] <= Shift[i + 1]
    BY ShiftValues
  <2>1. Shift[j] <= Shift[i] /\ Shift[j] \in Nat /\ Shift[i] \in Nat
    BY <1>2, ShiftValues
  <2>2. Shift[i + 1] = ByteRange * Shift[i]
    BY ShiftValues
  <2>3. \A a \in Nat : ByteRange * a >= a
    BY CodecAssumption
  <2>4. ByteRange * Shift[i] >= Shift[i]
    BY <2>1, <2>3
  <2>5. ByteRange * Shift[i] \in Nat
    BY <2>2, ShiftValues
  <2> QED
    BY <2>1, <2>2, <2>4, <2>5
<1> HIDE DEF Above
<1>3. k \in Above
  BY <1>1, <1>2, Induction
<1> QED
  BY <1>3 DEF Above

\* Half of the range of an int is a whole number of its highest bytes.
LEMMA HalfOfInt ==
  /\ ByteRange \div 2 \in Nat \ {0} /\ ByteRange = 2 * (ByteRange \div 2)
  /\ IntRange \div 2 = (ByteRange \div 2) * Shift[IntBytes - 1]
  /\ Shift[IntBytes - 1] <= IntRange \div 2
  /\ IntRange \div 2 < IntRange /\ IntRange <= LongRange
<1> DEFINE P == Shift[IntBytes - 1]
           H == ByteRange \div 2
<1>1. H \in Nat \ {0} /\ ByteRange = 2 * H
  BY CodecAssumption
<1>2. P \in Nat \ {0} /\ IntRange = ByteRange * P
  BY RangesAreNumbers
<1> HIDE DEF P, H
<1>3. ByteRange * P = 2 * (H * P) /\ H * P \in Nat /\ P <= H * P
  BY <1>1, <1>2
<1>4. IntRange \div 2 = H * P /\ H * P < IntRange
  BY <1>2, <1>3
<1>5. IntRange <= LongRange
  <2>1. \A a \in Nat \ {0} : a <= a * a
    OBVIOUS
  <2> QED
    BY <2>1, RangesAreNumbers DEF LongRange
<1> QED
  BY <1>1, <1>3, <1>4, <1>5 DEF P, H

\* The value that a number has after it has been sent: a byte of the upper half in
\* front makes the int negative.
AndBack(n) == IF n < IntRange \div 2 THEN n ELSE n + (LongRange - IntRange)

\* What big_endian_to_lu adds for each byte.
LEMMA TermOfByte ==
  ASSUME NEW n \in 0 .. IntRange - 1, NEW i \in 1 .. IntBytes
  PROVE  /\ (n % Shift[IntBytes - i]) \in 0 .. n
         /\ AsInt(lu_to_big_endian(n, IntBytes)[i] * Shift[IntBytes - i]) =
              IF i = 1
              THEN IF n < IntRange \div 2 THEN n - (n % Shift[IntBytes - 1])
                   ELSE (n - (n % Shift[IntBytes - 1])) - IntRange
              ELSE (n % Shift[IntBytes - (i - 1)]) - (n % Shift[IntBytes - i])
<1> DEFINE D == IntBytes
           P == Shift[D - i]
           Q == Shift[D - (i - 1)]
           r == n % P
           b == (n \div P) % ByteRange
<1>1. D \in Nat \ {0} /\ n \in Nat /\ D - i \in Nat /\ (D - i) + 1 = D - (i - 1) /\ D - (i - 1) \in Nat
  BY CodecAssumption, RangesAreNumbers
<1>2. P \in Nat \ {0} /\ Q \in Nat \ {0} /\ Q = ByteRange * P
  BY <1>1, ShiftValues
<1>3. lu_to_big_endian(n, D)[i] = b
  BY <1>1, BytesOfNumber
<1>4. b * P = (n % Q) - r /\ b \in Nat
  <2>1. b * P = (n % (ByteRange * P)) - r
    BY <1>1, <1>2, DigitInPlace, RangesAreNumbers
  <2>2. n \div P \in Nat
    BY <1>1, <1>2, Division
  <2>3. b \in Nat
    <3>1. b \in 0 .. ByteRange - 1
      BY <2>2, Division, RangesAreNumbers
    <3> QED
      BY <3>1
  <2> QED
    BY <1>2, <2>1, <2>3
<1>5. r \in 0 .. P - 1 /\ r <= n /\ n % Q \in 0 .. Q - 1 /\ n % Q <= n
  <2>1. ASSUME NEW m \in Nat \ {0} PROVE n % m \in 0 .. m - 1 /\ n % m <= n
    <3>1. n \div m \in Nat /\ n % m \in 0 .. m - 1 /\ n = (n \div m) * m + (n % m)
      BY <1>1, Division
    <3>2. (n \div m) * m >= 0
      BY <3>1
    <3> QED
      BY <3>1, <3>2
  <2> QED
    BY <1>2, <2>1
<1>6. r \in 0 .. n
  BY <1>1, <1>5
<1>7. CASE i = 1
  <2> DEFINE H == ByteRange \div 2
             q == n \div P
  <2>1. Q = IntRange /\ n % Q = n
    BY <1>1, <1>7, RangesAreNumbers, SmallRemainder DEF IntRange
  <2>2. q \in Nat /\ n = q * P + r
    BY <1>1, <1>2, Division
  <2>3. H \in Nat \ {0} /\ IntRange \div 2 = H * P /\ H * P \in Nat
    <3>1. P = Shift[IntBytes - 1]
      BY <1>7
    <3>2. H \in Nat \ {0} /\ IntRange \div 2 = H * P
      BY <3>1, HalfOfInt
    <3> QED
      BY <1>2, <3>2
  <2> HIDE DEF H, q, P, r
  <2>4. n - r \in 0 .. IntRange - 1
    BY <1>1, <1>6, RangesAreNumbers
  <2>5. n < H * P => n - r < H * P
    BY <1>1, <1>6, <2>3
  <2>6. n >= H * P => n - r >= H * P
    <3> SUFFICES ASSUME n >= H * P PROVE n - r >= H * P
      OBVIOUS
    <3>1. q >= H
      <4> SUFFICES ASSUME q <= H - 1 PROVE FALSE
        BY <2>2, <2>3
      <4>1. q * P <= (H - 1) * P
        BY <1>2, <2>2, <2>3
      <4>2. (H - 1) * P = H * P - P
        BY <1>2, <2>3
      <4> QED
        BY <1>2, <1>5, <2>2, <2>3, <4>1, <4>2
    <3>2. q * P >= H * P
      BY <1>2, <2>2, <2>3, <3>1
    <3> QED
      BY <1>2, <1>5, <2>2, <2>3, <3>2
  <2>7. AsInt(n - r) = IF n < H * P THEN n - r ELSE (n - r) - IntRange
    BY <1>1, <1>6, <2>3, <2>4, <2>5, <2>6, IntOfSmall
  <2> QED
    BY <1>3, <1>4, <1>6, <1>7, <2>1, <2>3, <2>7 DEF P, r
<1>8. CASE i # 1
  <2>1. Q <= IntRange \div 2
    <3>1. D - (i - 1) \in 0 .. D - 1 /\ D - 1 \in Nat
      BY <1>1, <1>8
    <3>2. Q <= Shift[D - 1]
      BY <3>1, ShiftGrows
    <3> QED
      BY <1>2, <3>2, HalfOfInt, RangesAreNumbers
  <2>2. b * P \in 0 .. Q - 1
    <3>1. b * P \in Nat
      BY <1>2, <1>4
    <3> QED
      BY <1>2, <1>4, <1>5, <3>1
  <2>3. AsInt(b * P) = b * P
    <3> HIDE DEF b, P, Q
    <3>1. b * P < IntRange \div 2 /\ b * P \in 0 .. IntRange - 1
      BY <1>2, <2>1, <2>2, HalfOfInt, RangesAreNumbers
    <3> QED
      BY <3>1, IntOfSmall
  <2> QED
    BY <1>3, <1>4, <1>6, <1>8, <2>3
<1> QED
  BY <1>7, <1>8

\* Numbers of the lower half of an int arrive, those of the upper half become
\* larger than any int.
THEOREM NumberAndBack ==
  ASSUME NEW n \in 0 .. IntRange - 1
  PROVE  big_endian_to_lu(lu_to_big_endian(n, IntBytes)) = AndBack(n)
<1> DEFINE D == IntBytes
           b == lu_to_big_endian(n, D)
           rest(i) == n % Shift[D - i]
           excess == IF n < IntRange \div 2 THEN 0 ELSE LongRange - IntRange
           term(i) == AsInt(b[i] * Shift[D - i])
<1>1. D \in Nat \ {0} /\ n \in Nat
  BY CodecAssumption, RangesAreNumbers
<1>2. b \in Seq(Byte) /\ Len(b) = D
  BY <1>1, BytesOfNumber
<1>3. PICK sum : /\ sum \in [0 .. D -> 0 .. LongRange - 1] /\ sum[0] = 0
                 /\ \A i \in 1 .. D : sum[i] = (sum[i - 1] + term(i)) % LongRange
                 /\ big_endian_to_lu(b) = sum[D]
  <2> HIDE DEF b
  <2> QED
    BY <1>2, SumOfBytes
<1>4. /\ LongRange \in Nat \ {0} /\ IntRange \in Nat \ {0} /\ IntRange <= LongRange
      /\ excess \in 0 .. LongRange - IntRange /\ n < IntRange
  BY HalfOfInt, RangesAreNumbers
<1>5. ASSUME NEW i \in 1 .. D
      PROVE  /\ rest(i) \in 0 .. n
             /\ term(i) = IF i = 1
                          THEN IF n < IntRange \div 2 THEN n - rest(1) ELSE (n - rest(1)) - IntRange
                          ELSE rest(i - 1) - rest(i)
  BY TermOfByte
<1>6. rest(D) = 0
  <2>1. D - D = 0 /\ Shift[0] = 1
    BY <1>1, ShiftValues
  <2> QED
    BY <1>1, <2>1
<1> HIDE DEF b, rest, excess, term
<1>7. sum[1] = excess + (n - rest(1))
  <2>1. rest(1) \in 0 .. n /\ sum[1] = (0 + term(1)) % LongRange
    BY <1>1, <1>3, <1>5
  <2>2. CASE n < IntRange \div 2
    <3>1. term(1) = n - rest(1) /\ excess = 0
      BY <1>1, <1>5, <2>2 DEF excess
    <3>2. n - rest(1) \in 0 .. LongRange - 1
      BY <1>1, <1>4, <2>1
    <3>3. (n - rest(1)) % LongRange = n - rest(1)
      BY <1>4, <3>2, SmallRemainder
    <3>4. 0 + term(1) = n - rest(1)
      BY <3>1, <3>2
    <3> QED
      BY <2>1, <3>1, <3>2, <3>3, <3>4
  <2>3. CASE ~(n < IntRange \div 2)
    <3> DEFINE x == excess + (n - rest(1))
    <3>1. term(1) = (n - rest(1)) - IntRange /\ excess = LongRange - IntRange
      BY <1>1, <1>5, <2>3 DEF excess
    <3>2. x \in 0 .. LongRange - 1
      BY <1>1, <1>4, <2>1, <3>1
    <3>3. 0 + term(1) = (-1) * LongRange + x
      BY <1>1, <1>4, <2>1, <3>1
    <3> HIDE DEF x
    <3>4. ((-1) * LongRange + x) % LongRange = x
      BY <1>4, <3>2, DivisionIsUnique
    <3> QED
      BY <2>1, <3>3, <3>4 DEF x
  <2> QED
    BY <2>2, <2>3
<1>8. \A i \in 1 .. D : sum[i] = excess + (n - rest(i))
  <2> DEFINE Summed == {j \in Nat : j \in 1 .. D => sum[j] = excess + (n - rest(j))}
  <2>1. 0 \in Summed
    OBVIOUS
  <2>2. ASSUME NEW j \in Nat, j \in Summed PROVE j + 1 \in Summed
    <3> SUFFICES ASSUME j + 1 \in 1 .. D, j + 1 # 1
                 PROVE  sum[j + 1] = excess + (n - rest(j + 1))
      BY <1>7
    <3>1. j \in 1 .. D /\ (j + 1) - 1 = j /\ sum[j] = excess + (n - rest(j))
      BY <1>1, <2>2
    <3>2. rest(j) \in 0 .. n /\ rest(j + 1) \in 0 .. n /\ term(j + 1) = rest(j) - rest(j + 1)
      BY <1>5, <3>1
    <3>3. sum[j + 1] = (sum[j] + term(j + 1)) % LongRange
      BY <1>3, <3>1
    <3> DEFINE x == excess + (n - rest(j + 1))
    <3>4. sum[j] + term(j + 1) = x /\ x \in 0 .. LongRange - 1
      BY <1>1, <1>4, <3>1, <3>2
    <3> HIDE DEF x
    <3>5. x % LongRange = x
      BY <1>4, <3>4, SmallRemainder
    <3> QED
      BY <3>3, <3>4, <3>5 DEF x
  <2> HIDE DEF Summed
  <2>3. \A j \in Nat : j \in Summed
    BY <2>1, <2>2, Induction
  <2> QED
    BY <1>1, <2>3 DEF Summed
<1>9. sum[D] = excess + n
  BY <1>1, <1>4, <1>6, <1>8
<1> QED
  BY <1>1, <1>3, <1>4, <1>9 DEF AndBack, b, excess

-------------------------------------------------------------------------------
(* Sequences.                                                              *)

\* The sequence u consists of two parts.
Joins(u, s, t) ==
  /\ Len(u) = Len(s) + Len(t)
  /\ \A i \in 1 .. Len(s) : u[i] = s[i]
  /\ \A i \in 1 .. Len(t) : u[Len(s) + i] = t[i]

LEMMA ConcatAt ==
  ASSUME NEW S, NEW s \in Seq(S), NEW t \in Seq(S)
  PROVE  s \o t \in Seq(S) /\ Joins(s \o t, s, t)
BY DEF Joins

\* A part of a sequence, told by where it begins and what it holds.
LEMMA SliceIs ==
  ASSUME NEW S, NEW s \in Seq(S), NEW t \in Seq(S), NEW k \in Nat, k + Len(t) <= Len(s),
         \A i \in 1 .. Len(t) : s[k + i] = t[i]
  PROVE  SubSeq(s, k + 1, k + Len(t)) = t
<1> DEFINE u == SubSeq(s, k + 1, k + Len(t))
           n == k + Len(t)
           m == k + 1
<1>1. m \in Nat \ {0} /\ n \in Nat /\ n <= Len(s) /\ m <= n + 1 /\ (n + 1) - m = Len(t) /\ m - 1 = k
  OBVIOUS
<1> HIDE DEF m, n
<1>2. SubSeq(s, m, n) \in Seq(S) /\ Len(SubSeq(s, m, n)) = Len(t)
      /\ \A i \in 1 .. Len(t) : SubSeq(s, m, n)[i] = s[k + i]
  BY <1>1, SliceAt
<1>3. SubSeq(s, m, n) = t
  BY <1>2, SeqEqual
<1> QED
  BY <1>3 DEF m, n
-------------------------------------------------------------------------------
(* Handshakes.                                                             *)

LEMMA HashesAreBytes ==
  ASSUME NEW h \in Hashes
  PROVE  h \in Seq(Byte) /\ Len(h) = HashLength
<1> DEFINE g == CHOOSE g : g \in Hashes
<1>1. (CHOOSE x \in Hashes : TRUE) \in Hashes
  OBVIOUS
<1> QED
  BY <1>1, CodecAssumption DEF HashLength

\* The sequence e consists of five parts.
Consists(e, a, b, c, d, f) ==
  /\ Len(e) = Len(a) + Len(b) + Len(c) + Len(d) + Len(f)
  /\ \A i \in 1 .. Len(a) : e[i] = a[i]
  /\ \A i \in 1 .. Len(b) : e[Len(a) + i] = b[i]
  /\ \A i \in 1 .. Len(c) : e[(Len(a) + Len(b)) + i] = c[i]
  /\ \A i \in 1 .. Len(d) : e[(Len(a) + Len(b) + Len(c)) + i] = d[i]
  /\ \A i \in 1 .. Len(f) : e[(Len(a) + Len(b) + Len(c) + Len(d)) + i] = f[i]

LEMMA FiveParts ==
  ASSUME NEW S, NEW a \in Seq(S), NEW b \in Seq(S), NEW c \in Seq(S), NEW d \in Seq(S),
         NEW f \in Seq(S)
  PROVE  /\ a \o b \o c \o d \o f \in Seq(S)
         /\ Consists(a \o b \o c \o d \o f, a, b, c, d, f)
<1> DEFINE e2 == a \o b
           e3 == e2 \o c
           e4 == e3 \o d
           e5 == e4 \o f
<1> HIDE DEF e2, e3, e4, e5
<1>1. /\ e2 \in Seq(S) /\ Len(e2) = Len(a) + Len(b)
      /\ \A i \in 1 .. Len(a) : e2[i] = a[i]
      /\ \A i \in 1 .. Len(b) : e2[Len(a) + i] = b[i]
  BY ConcatAt DEF e2, Joins
<1>2. /\ e3 \in Seq(S) /\ Len(e3) = Len(e2) + Len(c)
      /\ \A i \in 1 .. Len(e2) : e3[i] = e2[i]
      /\ \A i \in 1 .. Len(c) : e3[Len(e2) + i] = c[i]
  <2>1. e2 \in Seq(S)
    BY <1>1
  <2> QED
    BY <2>1, ConcatAt DEF e3, Joins
<1>3. /\ e4 \in Seq(S) /\ Len(e4) = Len(e3) + Len(d)
      /\ \A i \in 1 .. Len(e3) : e4[i] = e3[i]
      /\ \A i \in 1 .. Len(d) : e4[Len(e3) + i] = d[i]
  <2>1. e3 \in Seq(S)
    BY <1>2
  <2> QED
    BY <2>1, ConcatAt DEF e4, Joins
<1>4. /\ e5 \in Seq(S) /\ Len(e5) = Len(e4) + Len(f)
      /\ \A i \in 1 .. Len(e4) : e5[i] = e4[i]
      /\ \A i \in 1 .. Len(f) : e5[Len(e4) + i] = f[i]
  <2>1. e4 \in Seq(S)
    BY <1>3
  <2> QED
    BY <2>1, ConcatAt DEF e5, Joins
<1>5. Len(a) \in Nat /\ Len(b) \in Nat /\ Len(c) \in Nat /\ Len(d) \in Nat /\ Len(f) \in Nat
  OBVIOUS
<1>6. /\ Len(e3) = Len(a) + Len(b) + Len(c) /\ Len(e4) = Len(a) + Len(b) + Len(c) + Len(d)
      /\ Len(e5) = Len(a) + Len(b) + Len(c) + Len(d) + Len(f)
  BY <1>1, <1>2, <1>3, <1>4
<1>7. ASSUME NEW i \in 1 .. Len(a) PROVE e5[i] = a[i]
  <2>1. i \in 1 .. Len(e2) /\ i \in 1 .. Len(e3) /\ i \in 1 .. Len(e4)
    BY <1>1, <1>5, <1>6
  <2> QED
    BY <1>1, <1>2, <1>3, <1>4, <2>1
<1>8. ASSUME NEW i \in 1 .. Len(b) PROVE e5[Len(a) + i] = b[i]
  <2>1. Len(a) + i \in 1 .. Len(e2) /\ Len(a) + i \in 1 .. Len(e3) /\ Len(a) + i \in 1 .. Len(e4)
    BY <1>1, <1>5, <1>6
  <2> QED
    BY <1>1, <1>2, <1>3, <1>4, <2>1
<1>9. ASSUME NEW i \in 1 .. Len(c) PROVE e5[Len(e2) + i] = c[i]
  <2>1. Len(e2) + i \in 1 .. Len(e3) /\ Len(e2) + i \in 1 .. Len(e4)
    BY <1>1, <1>5, <1>6
  <2> QED
    BY <1>2, <1>3, <1>4, <2>1
<1>10. ASSUME NEW i \in 1 .. Len(d) PROVE e5[Len(e3) + i] = d[i]
  <2>1. Len(e3) + i \in 1 .. Len(e4)
    BY <1>1, <1>5, <1>6
  <2> QED
    BY <1>3, <1>4, <2>1
<1>11. e5 \in Seq(S) /\ Consists(e5, a, b, c, d, f)
  BY <1>1, <1>4, <1>6, <1>7, <1>8, <1>9, <1>10 DEF Consists
<1> QED
  BY <1>11 DEF e2, e3, e4, e5

\* Buffers that are too short are refused, and whole ones are read field by field.
LEMMA HandshakeAndBack ==
  ASSUME NEW h \in Hashes, NEW id \in Hashes, NEW hm, hm = init_handshake_msg(h, id),
         NEW b \in Resized(encode_handshake_msg(hm), 0)
  PROVE  /\ b \in Seq(Byte)
         /\ decode_handshake_msg(b) =
              IF Len(b) >= Len(encode_handshake_msg(hm)) THEN hm ELSE NULL
<1> DEFINE e == encode_handshake_msg(hm)
           reserved == [k \in 1 .. ReservedLen |-> 0]
           p == Len(pstr)
           R == ReservedLen
           L == HashLength
<1>1. /\ h \in Seq(Byte) /\ Len(h) = L /\ id \in Seq(Byte) /\ Len(id) = L
      /\ pstr \in Seq(Byte) /\ 0 \in Byte
      /\ p \in Nat /\ R \in Nat /\ L \in Nat
      /\ reserved \in Seq(Byte) /\ Len(reserved) = R
  <2>1. Byte \ {0} \subseteq Byte
    OBVIOUS
  <2>2. pstr \in Seq(Byte) /\ 0 \in Byte
    BY <2>1, CodecAssumption, SeqMonotonic DEF Byte
  <2>3. reserved \in Seq(Byte) /\ Len(reserved) = R
    BY <2>2, CodecAssumption
  <2> QED
    BY <2>2, <2>3, HashesAreBytes, CodecAssumption
<1>2. hm = [pstr |-> pstr, reserved |-> reserved, info_hash |-> h, peer_id |-> id]
  BY DEF init_handshake_msg
<1>3. /\ e \in Seq(Byte)
      /\ Len(e) = 1 + p + R + 2 * L /\ e[1] = p
      /\ \A i \in 1 .. p : e[1 + i] = pstr[i]
      /\ \A i \in 1 .. R : e[(1 + p) + i] = reserved[i]
      /\ \A i \in 1 .. L : e[(1 + p + R) + i] = h[i]
      /\ \A i \in 1 .. L : e[(1 + p + R + L) + i] = id[i]
  <2> DEFINE first == <<p>>
             whole == first \o pstr \o reserved \o h \o id
  <2>1. e = whole
    <3>1. hm.pstr = pstr /\ hm.reserved = reserved /\ hm.info_hash = h /\ hm.peer_id = id
      BY <1>2
    <3> HIDE DEF reserved
    <3> QED
      BY <3>1, Zenon DEF encode_handshake_msg
  <2>2. first \in Seq(Byte) /\ Len(first) = 1 /\ first[1] = p
    BY CodecAssumption DEF Byte
  <2> HIDE DEF e, reserved, first, p, R, L
  <2>3. whole \in Seq(Byte) /\ Consists(whole, first, pstr, reserved, h, id)
    BY <1>1, <2>2, FiveParts
  <2> HIDE DEF whole
  <2>4. Len(pstr) = p
    BY DEF p
  <2> QED
    BY <1>1, <2>1, <2>2, <2>3, <2>4 DEF Consists
<1> HIDE DEF e, reserved, p, R, L
<1>4. /\ b \in Seq(Byte)
      /\ Len(b) <= Len(e) \/ Len(b) = Len(e) + 1
      /\ \A i \in 1 .. Len(b) : i <= Len(e) => b[i] = e[i]
  <2>1. CASE b = e \o <<0>>
    <3>1. <<0>> \in Seq(Byte) /\ Len(<<0>>) = 1
      BY <1>1
    <3> QED
      BY <1>3, <2>1, <3>1, ConcatAt DEF Joins
  <2>2. ASSUME NEW n \in 0 .. Len(e), b = SubSeq(e, 1, n)
        PROVE  b \in Seq(Byte) /\ Len(b) = n /\ \A i \in 1 .. n : b[i] = e[i]
    BY <1>3, <2>2, SliceAt
  <2>3. b = e \o <<0>> \/ \E n \in 0 .. Len(e) : b = SubSeq(e, 1, n)
    BY DEF Resized, e
  <2> QED
    BY <1>3, <2>1, <2>2, <2>3
<1>5. CASE b = <<>>
  <2>1. Len(b) = 0 /\ decode_handshake_msg(b) = NULL
    BY <1>5 DEF decode_handshake_msg
  <2> QED
    BY <1>3, <1>1, <1>4, <2>1 DEF e
<1>6. CASE b # <<>>
  <2> DEFINE ends == FieldEnds(p)
             Field(k) == SubSeq(b, ends[k] + 1, ends[k + 1])
  <2>1. Len(b) \in Nat \ {0} /\ b[1] = p
    BY <1>3, <1>1, <1>4, <1>6
  <2>2. /\ DOMAIN ends = 1 .. 5
        /\ ends[1] = 1 /\ ends[2] = 1 + p /\ ends[3] = 1 + p + R /\ ends[4] = 1 + p + R + L
        /\ ends[5] = 1 + p + R + 2 * L
    BY DEF FieldEnds, R, L
  <2>3. decode_handshake_msg(b) =
          IF \E k \in DOMAIN ends : Len(b) < ends[k] THEN NULL
          ELSE [pstr |-> Field(1), reserved |-> Field(2),
                info_hash |-> Field(3), peer_id |-> Field(4)]
    BY <1>6, <2>1 DEF decode_handshake_msg
  <2> HIDE DEF ends
  <2>4. CASE Len(b) < Len(e)
    <3>1. \E k \in DOMAIN ends : Len(b) < ends[k]
      BY <1>3, <2>2, <2>4
    <3> QED
      BY <1>3, <1>4, <2>3, <2>4, <3>1 DEF e
  <2>5. CASE Len(b) >= Len(e)
    <3>1. ~ \E k \in DOMAIN ends : Len(b) < ends[k]
      <4>1. \A k \in 1 .. 5 : k = 1 \/ k = 2 \/ k = 3 \/ k = 4 \/ k = 5
        OBVIOUS
      <4> QED
        BY <1>3, <1>1, <2>1, <2>2, <2>5, <4>1
    <3>2. \A i \in 1 .. Len(e) : b[i] = e[i]
      BY <1>3, <1>4, <2>1, <2>5
    <3>3. Field(1) = pstr
      <4>1. 1 + Len(pstr) <= Len(b) /\ \A i \in 1 .. Len(pstr) : b[1 + i] = pstr[i]
        <5>1. \A i \in 1 .. p : b[1 + i] = pstr[i]
          BY <1>3, <1>1, <2>1, <2>5, <3>2
        <5> QED
          BY <1>3, <1>1, <2>1, <2>5, <5>1 DEF p
      <4>2. SubSeq(b, 1 + 1, 1 + Len(pstr)) = pstr
        BY <1>1, <1>4, <4>1, SliceIs
      <4> QED
        BY <2>2, <4>2 DEF p
    <3>4. Field(2) = reserved
      <4>1. (1 + p) + Len(reserved) <= Len(b) /\ \A i \in 1 .. Len(reserved) : b[(1 + p) + i] = reserved[i]
        BY <1>3, <1>1, <2>1, <2>5, <3>2
      <4>2. 1 + p \in Nat
        BY <1>1
      <4>3. SubSeq(b, (1 + p) + 1, (1 + p) + Len(reserved)) = reserved
        BY <1>1, <1>4, <4>1, <4>2, SliceIs
      <4> QED
        BY <1>1, <2>2, <4>3
    <3>5. Field(3) = h
      <4>1. (1 + p + R) + Len(h) <= Len(b) /\ \A i \in 1 .. Len(h) : b[(1 + p + R) + i] = h[i]
        BY <1>3, <1>1, <2>1, <2>5, <3>2
      <4>2. 1 + p + R \in Nat
        BY <1>1
      <4>3. SubSeq(b, (1 + p + R) + 1, (1 + p + R) + Len(h)) = h
        BY <1>1, <1>4, <4>1, <4>2, SliceIs
      <4> QED
        BY <1>1, <2>2, <4>3
    <3>6. Field(4) = id
      <4>1. (1 + p + R + L) + Len(id) <= Len(b) /\ \A i \in 1 .. Len(id) : b[(1 + p + R + L) + i] = id[i]
        BY <1>3, <1>1, <2>1, <2>5, <3>2
      <4>2. 1 + p + R + L \in Nat /\ (1 + p + R + L) + L = 1 + p + R + 2 * L
        BY <1>1
      <4>3. SubSeq(b, (1 + p + R + L) + 1, (1 + p + R + L) + Len(id)) = id
        BY <1>1, <1>4, <4>1, <4>2, SliceIs
      <4> QED
        BY <1>1, <2>2, <4>2, <4>3
    <3> QED
      BY <1>2, <1>4, <2>3, <2>5, <3>1, <3>3, <3>4, <3>5, <3>6 DEF e
  <2> QED
    BY <1>3, <2>1, <2>4, <2>5
<1> QED
  BY <1>5, <1>6
-------------------------------------------------------------------------------
(* Messages.                                                               *)

\* A message that a length field can hold.
Encodable(m) == m \in AnyMessage /\ MsgIdBytes + Len(m.payload) < IntRange

LEMMA PieceMsgParts ==
  ASSUME NEW i \in Numbers, NEW o \in Numbers, NEW n \in Lengths, NEW m, m = PieceMsg(i, o, n)
  PROVE  Encodable(m) /\ GotIndex(m) = AndBack(i) /\ GotOffset(m) = AndBack(o)
<1> DEFINE D == IntBytes
           a == lu_to_big_endian(i, D)
           b == lu_to_big_endian(o, D)
           c == [k \in 1 .. n |-> k % ByteRange]
           ab == a \o b
           p == ab \o c
<1>1. /\ i \in 0 .. IntRange - 1 /\ o \in 0 .. IntRange - 1 /\ i \in Nat /\ o \in Nat
      /\ n \in Nat /\ D \in Nat \ {0} /\ 1 + 2 * D + n < IntRange
  BY CodecAssumption, RangesAreNumbers
<1>2. m.id = PieceId /\ m.payload = p /\ m = [id |-> PieceId, payload |-> p]
  BY DEF PieceMsg
<1>3. a \in Seq(Byte) /\ Len(a) = D /\ b \in Seq(Byte) /\ Len(b) = D
  BY <1>1, BytesOfNumber
<1>4. c \in Seq(Byte) /\ Len(c) = n
  <2>1. ASSUME NEW k \in 1 .. n PROVE k % ByteRange \in Byte
    <3>1. k \in Nat
      BY <1>1
    <3> QED
      BY <3>1, Division, RangesAreNumbers DEF Byte
  <2> QED
    BY <1>1, <2>1
<1>5. big_endian_to_lu(a) = AndBack(i) /\ big_endian_to_lu(b) = AndBack(o)
  BY <1>1, NumberAndBack
<1> HIDE DEF D, a, b, c, ab, p
<1>6. /\ ab \in Seq(Byte) /\ Len(ab) = Len(a) + Len(b)
      /\ \A k \in 1 .. Len(a) : ab[k] = a[k]
      /\ \A k \in 1 .. Len(b) : ab[Len(a) + k] = b[k]
  <2>1. ab \in Seq(Byte) /\ Joins(ab, a, b)
    BY <1>3, ConcatAt DEF ab
  <2> QED
    BY <2>1 DEF Joins
<1>7. /\ p \in Seq(Byte) /\ Len(p) = Len(ab) + Len(c)
      /\ \A k \in 1 .. Len(ab) : p[k] = ab[k]
  <2>1. ab \in Seq(Byte)
    BY <1>6
  <2> QED
    BY <1>4, <2>1, ConcatAt DEF p, Joins
<1>8. Len(p) = 2 * D + n
  BY <1>1, <1>3, <1>4, <1>6, <1>7
<1>9. Encodable(m)
  <2>1. PieceId \in Byte
    BY CodecAssumption DEF PieceId, Byte
  <2>2. m \in AnyMessage
    BY <1>2, <1>7, <2>1 DEF AnyMessage
  <2> QED
    BY <1>1, <1>2, <1>8, <2>2 DEF Encodable, MsgIdBytes
<1>10. GotIndex(m) = AndBack(i)
  <2>1. 0 + Len(a) <= Len(p) /\ \A k \in 1 .. Len(a) : p[0 + k] = a[k]
    <3>1. 0 + Len(a) <= Len(p)
      BY <1>1, <1>3, <1>8
    <3>2. ASSUME NEW k \in 1 .. Len(a) PROVE p[0 + k] = a[k]
      <4>1. k \in 1 .. Len(ab) /\ 0 + k = k
        BY <1>1, <1>3, <1>6
      <4> QED
        BY <1>6, <1>7, <4>1
    <3> QED
      BY <3>1, <3>2
  <2>2. SubSeq(p, 0 + 1, 0 + Len(a)) = a
    BY <1>3, <1>7, <2>1, SliceIs
  <2>3. SubSeq(p, 1, D) = a
    BY <1>1, <1>3, <2>2
  <2> QED
    BY <1>2, <1>5, <2>3 DEF GotIndex, D
<1>11. GotOffset(m) = AndBack(o)
  <2>1. D + Len(b) <= Len(p) /\ \A k \in 1 .. Len(b) : p[D + k] = b[k]
    <3>1. ASSUME NEW k \in 1 .. Len(b) PROVE p[D + k] = b[k]
      <4>1. D + k \in 1 .. Len(ab)
        BY <1>1, <1>3, <1>6
      <4> QED
        BY <1>3, <1>6, <1>7, <4>1
    <3> QED
      BY <1>1, <1>3, <1>8, <3>1
  <2>2. D \in Nat
    BY <1>1
  <2>3. SubSeq(p, D + 1, D + Len(b)) = b
    BY <1>3, <1>7, <2>1, <2>2, SliceIs
  <2>4. D + Len(b) = 2 * D
    BY <1>1, <1>3
  <2> QED
    BY <1>2, <1>5, <2>3, <2>4 DEF GotOffset, D
<1> QED
  BY <1>9, <1>10, <1>11

LEMMA MessagesAreEncodable ==
  ASSUME NEW m \in Messages
  PROVE  Encodable(m)
BY PieceMsgParts DEF Messages

\* Where each part of an encoded message lies.
LEMMA EncodedLayout ==
  ASSUME NEW m, Encodable(m), NEW e, e = encode_message(m)
  PROVE  /\ e \in Seq(Byte) /\ Len(e) = HeaderBytes + Len(m.payload)
         /\ \A i \in 1 .. IntBytes :
              e[i] = lu_to_big_endian(MsgIdBytes + Len(m.payload), IntBytes)[i]
         /\ e[HeaderBytes] = m.id
         /\ \A i \in 1 .. Len(m.payload) : e[HeaderBytes + i] = m.payload[i]
<1> DEFINE D == IntBytes
           a == lu_to_big_endian(MsgIdBytes + Len(m.payload), D)
           b == <<m.id>>
           c == m.payload
           ab == a \o b
           abc == ab \o c
<1>1. m.id \in Byte /\ c \in Seq(Byte) /\ D \in Nat \ {0} /\ HeaderBytes = D + 1
  BY CodecAssumption DEF Encodable, AnyMessage, HeaderBytes, MsgLenBytes, MsgIdBytes
<1>2. a \in Seq(Byte) /\ Len(a) = D
  <2>1. MsgIdBytes + Len(c) \in Nat
    BY <1>1 DEF MsgIdBytes
  <2> QED
    BY <1>1, <2>1, BytesOfNumber
<1>3. b \in Seq(Byte) /\ Len(b) = 1 /\ b[1] = m.id
  BY <1>1
<1>4. e = abc
  BY DEF encode_message, MsgLenBytes
<1> HIDE DEF D, a, b, c, ab, abc
<1>5. /\ ab \in Seq(Byte) /\ Len(ab) = Len(a) + Len(b)
      /\ \A k \in 1 .. Len(a) : ab[k] = a[k]
      /\ \A k \in 1 .. Len(b) : ab[Len(a) + k] = b[k]
  <2>1. ab \in Seq(Byte) /\ Joins(ab, a, b)
    BY <1>2, <1>3, ConcatAt DEF ab
  <2> QED
    BY <2>1 DEF Joins
<1>6. /\ abc \in Seq(Byte) /\ Len(abc) = Len(ab) + Len(c)
      /\ \A k \in 1 .. Len(ab) : abc[k] = ab[k]
      /\ \A k \in 1 .. Len(c) : abc[Len(ab) + k] = c[k]
  <2>1. ab \in Seq(Byte)
    BY <1>5
  <2> QED
    BY <1>1, <2>1, ConcatAt DEF abc, Joins
<1>7. Len(ab) = HeaderBytes
  BY <1>1, <1>2, <1>3, <1>5
<1>8. \A i \in 1 .. D : abc[i] = a[i]
  BY <1>1, <1>2, <1>3, <1>5, <1>6
<1>9. abc[HeaderBytes] = m.id
  <2>1. HeaderBytes \in 1 .. Len(ab) /\ HeaderBytes = Len(a) + 1 /\ 1 \in 1 .. Len(b)
    BY <1>1, <1>2, <1>3, <1>7
  <2>2. ab[Len(a) + 1] = b[1]
    BY <1>5, <2>1
  <2> QED
    BY <1>3, <1>6, <2>1, <2>2
<1> QED
  BY <1>4, <1>6, <1>7, <1>8, <1>9 DEF a, c, D

\* The length of a message is read right from everything that begins with it.
LEMMA LengthAndBack ==
  ASSUME NEW m, Encodable(m), NEW b \in Seq(Byte), MsgLenBytes <= Len(b),
         \A i \in 1 .. MsgLenBytes : b[i] = encode_message(m)[i]
  PROVE  LengthOf(b) = AndBack(MsgIdBytes + Len(m.payload))
<1> DEFINE e == encode_message(m)
           l == MsgIdBytes + Len(m.payload)
           a == lu_to_big_endian(l, IntBytes)
<1>1. /\ l \in Nat /\ l \in 0 .. IntRange - 1
      /\ IntBytes \in Nat \ {0} /\ MsgLenBytes = IntBytes
  BY CodecAssumption, RangesAreNumbers DEF Encodable, AnyMessage, MsgLenBytes, MsgIdBytes
<1>2. a \in Seq(Byte) /\ Len(a) = IntBytes
  BY <1>1, BytesOfNumber
<1>3. \A i \in 1 .. IntBytes : e[i] = a[i]
  BY EncodedLayout
<1>4. big_endian_to_lu(a) = AndBack(l)
  BY <1>1, NumberAndBack
<1> HIDE DEF e, l, a
<1>5. 0 + Len(a) <= Len(b) /\ \A i \in 1 .. Len(a) : b[0 + i] = a[i]
  BY <1>1, <1>2, <1>3 DEF e
<1>6. SubSeq(b, 0 + 1, 0 + Len(a)) = a
  BY <1>2, <1>5, SliceIs
<1>7. SubSeq(b, 1, IntBytes) = a
  BY <1>1, <1>2, <1>6
<1> QED
  BY <1>4, <1>7 DEF LengthOf, MsgLenBytes, l

\* And so is its id.
LEMMA HeaderAndBack ==
  ASSUME NEW m, Encodable(m), NEW b \in Seq(Byte), HeaderBytes <= Len(b),
         \A i \in 1 .. HeaderBytes : b[i] = encode_message(m)[i]
  PROVE  LengthOf(b) = AndBack(MsgIdBytes + Len(m.payload)) /\ b[HeaderBytes] = m.id
<1>1. MsgLenBytes \in Nat /\ HeaderBytes = MsgLenBytes + 1
  BY CodecAssumption DEF HeaderBytes, MsgLenBytes, MsgIdBytes
<1>2. MsgLenBytes <= Len(b) /\ \A i \in 1 .. MsgLenBytes : b[i] = encode_message(m)[i]
  BY <1>1
<1>3. b[HeaderBytes] = encode_message(m)[HeaderBytes]
  BY <1>1
<1> QED
  BY <1>2, <1>3, EncodedLayout, LengthAndBack

\* Numbers of the upper half of an int come back beyond every length and index.
LEMMA UpperHalf ==
  ASSUME NEW n \in 0 .. IntRange - 1, n >= IntRange \div 2
  PROVE  /\ AndBack(n) = n + (LongRange - IntRange) /\ AndBack(n) \in IntRange .. LongRange - 1
         /\ AndBack(n) - 1 >= LongRange \div 2 /\ LongRange - IntRange >= 2
<1> DEFINE h == IntRange \div 2
<1>1. h \in Nat \ {0} /\ IntRange = 2 * h
  <2> DEFINE a == ByteRange \div 2
             P == Shift[IntBytes - 1]
  <2>1. a \in Nat \ {0} /\ P \in Nat \ {0} /\ ByteRange = 2 * a /\ IntRange = ByteRange * P /\ h = a * P
    BY HalfOfInt, RangesAreNumbers
  <2> HIDE DEF a, P, h
  <2>2. a * P \in Nat \ {0} /\ (2 * a) * P = 2 * (a * P)
    BY <2>1
  <2> QED
    BY <2>1, <2>2
<1> HIDE DEF h
<1>2. LongRange = 4 * (h * h)
  <2>1. (2 * h) * (2 * h) = 4 * (h * h)
    BY <1>1
  <2> QED
    BY <1>1, <2>1 DEF LongRange
<1>3. h * h \in Nat /\ h * h >= h
  BY <1>1
<1>4. AndBack(n) = n + (LongRange - IntRange) /\ n >= h
  BY <1>1 DEF AndBack, h
<1> DEFINE q == h * h
<1> HIDE DEF q
<1>5. q \in Nat /\ q >= h /\ LongRange = 4 * q
  BY <1>2, <1>3 DEF q
<1>6. LongRange \div 2 = 2 * q
  BY <1>5
<1> QED
  BY <1>1, <1>4, <1>5, <1>6

LEMMA LowerHalf ==
  ASSUME NEW n \in 0 .. IntRange - 1, n < IntRange \div 2
  PROVE  AndBack(n) = n
BY DEF AndBack

\* A message that is not whole, or has a length of the upper half, gives none.
LEMMA MessageAndBack ==
  ASSUME NEW m \in Messages, NEW b \in Resized(encode_message(m), MsgLenBytes)
  PROVE  /\ b \in Seq(Byte)
         /\ decode_message(b) =
              IF b = encode_message(m) /\ Len(m.payload) + MsgIdBytes < IntRange \div 2
              THEN m ELSE NULL
<1> DEFINE e == encode_message(m)
           l == MsgIdBytes + Len(m.payload)
           short == l < IntRange \div 2
           D == IntBytes
<1>1. Encodable(m)
  BY MessagesAreEncodable
<1>2. /\ e \in Seq(Byte) /\ Len(e) = HeaderBytes + Len(m.payload)
      /\ e[HeaderBytes] = m.id
      /\ \A i \in 1 .. Len(m.payload) : e[HeaderBytes + i] = m.payload[i]
  BY <1>1, EncodedLayout
<1>3. /\ m.id \in Byte /\ m.payload \in Seq(Byte) /\ m = [id |-> m.id, payload |-> m.payload]
      /\ l \in 0 .. IntRange - 1 /\ D \in Nat \ {0} /\ HeaderBytes = D + 1 /\ Len(e) = D + l
      /\ Len(m.payload) \in Nat /\ l = 1 + Len(m.payload)
  BY <1>1, <1>2, CodecAssumption, RangesAreNumbers
     DEF Encodable, AnyMessage, HeaderBytes, MsgLenBytes, MsgIdBytes
<1>4. D < IntRange
  <2>1. PICK n \in Lengths : TRUE
    BY DEF Messages
  <2>2. 1 + 2 * D + n < IntRange /\ n \in Nat
    BY <2>1, CodecAssumption
  <2> QED
    <3>1. \A a \in Nat, c \in Nat, r \in Nat : 1 + 2 * a + c < r => a < r
      OBVIOUS
    <3>2. IntRange \in Nat /\ D \in Nat
      BY CodecAssumption, RangesAreNumbers
    <3> HIDE DEF D
    <3> QED
      BY <2>2, <3>1, <3>2
<1>5. IntRange \in Nat \ {0} /\ LongRange \in Nat \ {0} /\ IntRange <= LongRange
  BY HalfOfInt, RangesAreNumbers
<1> HIDE DEF e, l, D
<1>6. /\ b \in Seq(Byte) /\ D <= Len(b) /\ Len(b) <= Len(e) + 1
      /\ \A i \in 1 .. D : b[i] = e[i]
      /\ Len(b) = Len(e) => b = e
  <2>1. CASE b = e \o <<0>>
    <3>1. <<0>> \in Seq(Byte) /\ Len(<<0>>) = 1
      BY CodecAssumption DEF Byte
    <3>2. b \in Seq(Byte) /\ Joins(b, e, <<0>>)
      BY <1>2, <2>1, <3>1, ConcatAt
    <3>3. Len(b) = Len(e) + 1 /\ \A i \in 1 .. Len(e) : b[i] = e[i]
      BY <3>1, <3>2 DEF Joins
    <3> QED
      BY <1>2, <1>3, <3>2, <3>3
  <2>2. ASSUME NEW n \in D .. Len(e), b = SubSeq(e, 1, n)
        PROVE  b \in Seq(Byte) /\ Len(b) = n /\ \A i \in 1 .. n : b[i] = e[i]
    <3>1. n \in Nat /\ n <= Len(e)
      BY <1>2, <1>3
    <3> QED
      BY <1>2, <2>2, <3>1, SliceAt
  <2>3. ASSUME NEW n \in D .. Len(e), b = SubSeq(e, 1, n), Len(b) = Len(e)
        PROVE  b = e
    BY <1>2, <2>2, <2>3, SeqEqual
  <2>4. b = e \o <<0>> \/ \E n \in D .. Len(e) : b = SubSeq(e, 1, n)
    BY DEF Resized, MsgLenBytes, D, e
  <2>5. CASE \E n \in D .. Len(e) : b = SubSeq(e, 1, n)
    <3>1. PICK n \in D .. Len(e) : b = SubSeq(e, 1, n)
      BY <2>5
    <3>2. b \in Seq(Byte) /\ Len(b) = n /\ \A i \in 1 .. n : b[i] = e[i]
      BY <2>2, <3>1
    <3>3. Len(b) = Len(e) => b = e
      BY <2>3, <3>1
    <3> QED
      BY <1>2, <1>3, <3>1, <3>2, <3>3
  <2> QED
    BY <2>1, <2>4, <2>5
<1>7. LengthOf(b) = AndBack(l)
  BY <1>1, <1>6, LengthAndBack DEF MsgLenBytes, D, e, l
<1>8. decode_message(b) = IF (AndBack(l) + D) % LongRange # Len(b) THEN NULL
                          ELSE [id |-> b[HeaderBytes], payload |-> SubSeq(b, HeaderBytes + 1, Len(b))]
  BY <1>7 DEF decode_message, MsgLenBytes, D
<1>9. CASE short
  <2>1. AndBack(l) = l
    BY <1>3, <1>9, LowerHalf
  <2>2. (l + D) % LongRange = l + D
    <3>1. l + D \in 0 .. LongRange - 1
      <4>1. IntRange \div 2 + IntRange <= LongRange + 1
        <5>1. \A a \in Nat \ {0} : 2 * a <= a * a + 1
          OBVIOUS
        <5>2. 2 * IntRange <= LongRange + 1
          BY <1>5, <5>1 DEF LongRange
        <5> QED
          BY <1>5, <5>2, HalfOfInt
      <4> QED
        BY <1>3, <1>4, <1>5, <1>9, <4>1, HalfOfInt
    <3> QED
      BY <1>5, <3>1, SmallRemainder
  <2>3. CASE Len(b) = Len(e)
    <3>1. b = e
      BY <1>6, <2>3
    <3>2. SubSeq(e, HeaderBytes + 1, HeaderBytes + Len(m.payload)) = m.payload
      <4>1. HeaderBytes \in Nat /\ HeaderBytes + Len(m.payload) <= Len(e)
        BY <1>2, <1>3
      <4> QED
        BY <1>2, <1>3, <4>1, SliceIs
    <3>3. decode_message(b) = [id |-> m.id, payload |-> m.payload]
      <4>1. HeaderBytes + Len(m.payload) = Len(b) /\ l + D = Len(b)
        BY <1>2, <1>3, <3>1
      <4>2. SubSeq(b, HeaderBytes + 1, Len(b)) = m.payload
        BY <3>1, <3>2, <4>1
      <4>3. decode_message(b) = [id |-> m.id, payload |-> SubSeq(b, HeaderBytes + 1, Len(b))]
        BY <1>2, <1>8, <2>1, <2>2, <3>1, <4>1
      <4> QED
        BY <4>2, <4>3
    <3>4. Len(m.payload) + MsgIdBytes < IntRange \div 2
      BY <1>3, <1>9 DEF MsgIdBytes
    <3>5. decode_message(b) = m
      BY <1>3, <3>3
    <3> QED
      BY <1>6, <3>1, <3>4, <3>5 DEF e
  <2>4. CASE Len(b) # Len(e)
    <3>1. b # e
      BY <2>4
    <3>2. l + D # Len(b)
      BY <1>3, <1>6, <2>4
    <3>3. decode_message(b) = NULL
      BY <1>8, <2>1, <2>2, <3>2
    <3> QED
      BY <1>6, <3>1, <3>3 DEF e
  <2> QED
    BY <2>3, <2>4
<1>10. CASE ~short
  <2>1. /\ AndBack(l) = l + (LongRange - IntRange) /\ AndBack(l) \in IntRange .. LongRange - 1
        /\ LongRange - IntRange >= 2
    <3>1. l \in 0 .. IntRange - 1 /\ l >= IntRange \div 2
      BY <1>3, <1>5, <1>10
    <3> QED
      BY <3>1, UpperHalf
  <2>2. (AndBack(l) + D) % LongRange # Len(b)
    <3>1. CASE l + D < IntRange
      <4>1. AndBack(l) + D \in 0 .. LongRange - 1
        BY <1>3, <1>5, <2>1, <3>1
      <4>2. (AndBack(l) + D) % LongRange = AndBack(l) + D
        BY <1>5, <4>1, SmallRemainder
      <4>3. \A x, y, z, d \in Int : x = l + z /\ z >= 2 /\ y <= (D + l) + 1 /\ d = x + D => d # y
        BY <1>3
      <4>4. AndBack(l) \in Int /\ LongRange - IntRange \in Int /\ Len(b) \in Int
            /\ AndBack(l) + D \in Int
        <5>1. AndBack(l) \in IntRange .. LongRange - 1 /\ IntRange \in Int /\ LongRange \in Int
          BY <1>5, <2>1
        <5>2. D \in Int /\ Len(b) \in Int
          BY <1>3, <1>6
        <5> QED
          BY <5>1, <5>2
      <4>5. Len(b) <= (D + l) + 1
        BY <1>3, <1>6
      <4> QED
        BY <2>1, <4>2, <4>3, <4>4, <4>5
    <3>2. CASE l + D >= IntRange
      <4> DEFINE r == (l + D) - IntRange
      <4>1. r \in 0 .. LongRange - 1 /\ AndBack(l) + D = 1 * LongRange + r /\ r < D
        BY <1>3, <1>4, <1>5, <2>1, <3>2
      <4> HIDE DEF r
      <4>2. (1 * LongRange + r) % LongRange = r
        BY <1>5, <4>1, DivisionIsUnique
      <4> QED
        BY <1>3, <1>6, <4>1, <4>2
    <3> QED
      BY <1>3, <1>5, <3>1, <3>2
  <2>3. decode_message(b) = NULL
    BY <1>8, <2>2
  <2>4. Len(m.payload) + MsgIdBytes = l
    BY <1>3 DEF l, MsgIdBytes
  <2> QED
    BY <1>6, <1>10, <2>3, <2>4
<1> QED
  BY <1>9, <1>10
-------------------------------------------------------------------------------
(* The stream.                                                             *)

\* What is left of a sequence, and what it begins with, place by place.
LEMMA RestIs ==
  ASSUME NEW S, NEW s \in Seq(S), NEW t \in Seq(S), NEW c \in Nat, c <= Len(s)
  PROVE  t = SubSeq(s, c + 1, Len(s)) <=>
           Len(t) = Len(s) - c /\ \A i \in 1 .. Len(t) : s[c + i] = t[i]
<1>1. ASSUME t = SubSeq(s, c + 1, Len(s))
      PROVE  Len(t) = Len(s) - c /\ \A i \in 1 .. Len(t) : s[c + i] = t[i]
  <2> DEFINE m == c + 1
             n == Len(s)
  <2>1. m \in Nat \ {0} /\ n \in Nat /\ n <= Len(s) /\ m <= n + 1 /\ (n + 1) - m = Len(s) - c
        /\ m - 1 = c
    OBVIOUS
  <2> HIDE DEF m, n
  <2>2. /\ SubSeq(s, m, n) \in Seq(S) /\ Len(SubSeq(s, m, n)) = (n + 1) - m
        /\ \A i \in 1 .. (n + 1) - m : SubSeq(s, m, n)[i] = s[(m - 1) + i]
    BY <2>1, SliceAt
  <2>3. t = SubSeq(s, m, n)
    BY <1>1 DEF m, n
  <2> QED
    BY <2>1, <2>2, <2>3
<1>2. ASSUME Len(t) = Len(s) - c, \A i \in 1 .. Len(t) : s[c + i] = t[i]
      PROVE  t = SubSeq(s, c + 1, Len(s))
  <2>1. c + Len(t) <= Len(s) /\ c + Len(t) = Len(s)
    BY <1>2
  <2>2. SubSeq(s, c + 1, c + Len(t)) = t
    BY <1>2, <2>1, SliceIs
  <2> QED
    BY <2>1, <2>2
<1> QED
  BY <1>1, <1>2

LEMMA FirstIs ==
  ASSUME NEW S, NEW s \in Seq(S), NEW t \in Seq(S), Len(t) <= Len(s)
  PROVE  t = SubSeq(s, 1, Len(t)) <=> \A i \in 1 .. Len(t) : t[i] = s[i]
<1>1. Len(t) \in Nat
  OBVIOUS
<1>2. /\ SubSeq(s, 1, Len(t)) \in Seq(S) /\ Len(SubSeq(s, 1, Len(t))) = Len(t)
      /\ \A i \in 1 .. Len(t) : SubSeq(s, 1, Len(t))[i] = s[i]
  <2> DEFINE n == Len(t)
  <2>1. n \in Nat /\ n <= Len(s) /\ 1 <= n + 1 /\ (n + 1) - 1 = n
    OBVIOUS
  <2> HIDE DEF n
  <2>2. /\ SubSeq(s, 1, n) \in Seq(S) /\ Len(SubSeq(s, 1, n)) = (n + 1) - 1
        /\ \A i \in 1 .. (n + 1) - 1 : SubSeq(s, 1, n)[i] = s[(1 - 1) + i]
    BY <2>1, SliceAt
  <2> QED
    BY <2>1, <2>2 DEF n
<1>3. ASSUME \A i \in 1 .. Len(t) : t[i] = s[i] PROVE t = SubSeq(s, 1, Len(t))
  BY <1>2, <1>3, SeqEqual
<1> QED
  BY <1>2, <1>3

LEMMA PrefixIs ==
  ASSUME NEW S, NEW s \in Seq(S), NEW t \in Seq(S)
  PROVE  IsPrefix(t, s) <=> Len(t) <= Len(s) /\ \A i \in 1 .. Len(t) : t[i] = s[i]
<1>1. SubSeq(t, 1, Len(t)) = t
  BY SubSeqFull
<1> QED
  BY <1>1, FirstIs DEF IsPrefix

\* The messages one after the other, up to each of them.
LEMMA EncodedValues ==
  ASSUME NEW ms \in Seq(Messages)
  PROVE  /\ Encoded(ms) \in [0 .. Len(ms) -> Seq(Byte)] /\ Encoded(ms)[0] = <<>>
         /\ \A k \in 1 .. Len(ms) :
              /\ encode_message(ms[k]) \in Seq(Byte)
              /\ Encoded(ms)[k] = Encoded(ms)[k - 1] \o encode_message(ms[k])
<1> DEFINE V == Seq(Byte)
           L == Len(ms)
           Part(i) == IF i \in 1 .. L THEN encode_message(ms[i]) ELSE <<>>
           body == [n \in Nat |-> [v \in V |-> v \o Part(n + 1)]]
<1>1. ASSUME NEW i \in Nat PROVE Part(i) \in V
  <2>1. CASE i \in 1 .. L
    <3>1. ms[i] \in Messages
      BY <2>1
    <3>2. Encodable(ms[i])
      BY <3>1, MessagesAreEncodable
    <3>3. encode_message(ms[i]) \in V
      BY <3>2, EncodedLayout
    <3> QED
      BY <2>1, <3>3
  <2> QED
    BY <2>1
<1> HIDE DEF Part
<1>2. PICK f : AreValues(f, <<>>, body, V)
  <2>1. ASSUME NEW n \in Nat, NEW v \in V PROVE v \o Part(n + 1) \in V
    <3>1. Part(n + 1) \in V
      BY <1>1
    <3> QED
      BY <3>1, ConcatAt
  <2>2. IsBody(body, V)
    <3> HIDE DEF V
    <3> QED
      BY <2>1 DEF IsBody
  <2>3. <<>> \in V
    OBVIOUS
  <2> HIDE DEF body, V
  <2> QED
    BY <2>2, <2>3, Recursion
<1> DEFINE g == [i \in 0 .. L |-> f[i]]
<1>3. L \in Nat
  OBVIOUS
<1>4. g \in [0 .. L -> V] /\ g[0] = <<>>
  <2> HIDE DEF V
  <2> QED
    BY <1>2, <1>3 DEF AreValues
<1>5. ASSUME NEW i \in 1 .. L PROVE g[i] = g[i - 1] \o encode_message(ms[i])
  <2>1. i - 1 \in Nat /\ (i - 1) + 1 = i
    BY <1>3
  <2>2. f[i] = body[i - 1][f[i - 1]] /\ f[i - 1] \in V
    <3> HIDE DEF V, body
    <3> QED
      BY <1>2, <2>1 DEF AreValues
  <2>3. f[i] = f[i - 1] \o Part(i)
    <3> HIDE DEF V
    <3> QED
      BY <2>1, <2>2
  <2>4. g[i] = f[i] /\ g[i - 1] = f[i - 1]
    <3>1. i \in 0 .. L /\ i - 1 \in 0 .. L
      BY <1>3
    <3> HIDE DEF L
    <3> QED
      BY <3>1
  <2>5. Part(i) = encode_message(ms[i])
    BY DEF Part
  <2> HIDE DEF g
  <2> QED
    BY <2>3, <2>4, <2>5
<1> DEFINE IsEncoded(h) ==
      h = [k \in 0 .. Len(ms) |->
             IF k = 0 THEN <<>> ELSE h[k - 1] \o encode_message(ms[k])]
           c == CHOOSE h : IsEncoded(h)
<1>6. IsEncoded(g)
  <2>1. ASSUME NEW i \in 0 .. L
        PROVE  g[i] = IF i = 0 THEN <<>> ELSE g[i - 1] \o encode_message(ms[i])
    <3> HIDE DEF g
    <3>1. i = 0 \/ i \in 1 .. L
      BY <1>3
    <3> QED
      BY <1>4, <1>5, <3>1
  <2>2. g = [i \in 0 .. L |-> g[i]]
    OBVIOUS
  <2> HIDE DEF g
  <2> QED
    BY <2>1, <2>2
<1>7. IsEncoded(c) /\ Encoded(ms) = c
  <2>1. IsEncoded(c)
    <3> HIDE DEF IsEncoded
    <3> QED
      BY <1>6
  <2> QED
    BY <2>1 DEF Encoded
<1> HIDE DEF c
<1>8. c[0] = <<>> /\ \A i \in 1 .. L : c[i] = c[i - 1] \o encode_message(ms[i])
  BY <1>3, <1>7
<1>9. \A i \in 1 .. L : encode_message(ms[i]) \in V
  BY <1>1, <1>3 DEF Part
<1>10. ASSUME NEW i \in 0 .. L PROVE c[i] \in V
  <2> DEFINE Typed == {j \in Nat : j <= L => c[j] \in V}
  <2>1. 0 \in Typed
    <3>1. c[0] \in V
      BY <1>8
    <3> HIDE DEF V
    <3> QED
      BY <3>1
  <2>2. ASSUME NEW j \in Nat, j \in Typed PROVE j + 1 \in Typed
    <3> SUFFICES ASSUME j + 1 <= L PROVE c[j + 1] \in V
      OBVIOUS
    <3>1. c[j] \in V /\ j + 1 \in 1 .. L /\ (j + 1) - 1 = j
      BY <1>3, <2>2
    <3>2. c[j + 1] = c[j] \o encode_message(ms[j + 1]) /\ encode_message(ms[j + 1]) \in V
      BY <1>8, <1>9, <3>1
    <3> QED
      BY <3>1, <3>2, ConcatAt
  <2> HIDE DEF Typed
  <2>3. i \in Nat /\ i \in Typed
    BY <1>3, <2>1, <2>2, Induction
  <2> QED
    BY <1>3, <2>3 DEF Typed
<1>11. c \in [0 .. L -> V]
  <2>1. c = [i \in 0 .. L |-> c[i]]
    BY <1>7
  <2> HIDE DEF V
  <2> QED
    BY <1>10, <2>1
<1> QED
  BY <1>7, <1>8, <1>9, <1>11

\* What is encoded later does not change what was encoded before.
LEMMA EncodedAgree ==
  ASSUME NEW ms \in Seq(Messages), NEW m \in Messages
  PROVE  LET more == Append(ms, m)
         IN  /\ \A k \in 0 .. Len(ms) : Encoded(more)[k] = Encoded(ms)[k]
             /\ Encoded(more)[Len(ms) + 1] = Encoded(ms)[Len(ms)] \o encode_message(m)
<1> DEFINE L == Len(ms)
           more == Append(ms, m)
           E == Encoded(ms)
           F == Encoded(more)
           Agree == {k \in Nat : k <= L => F[k] = E[k]}
<1>1. /\ L \in Nat /\ more \in Seq(Messages) /\ Len(more) = L + 1
      /\ more[L + 1] = m /\ \A k \in 1 .. L : more[k] = ms[k]
  OBVIOUS
<1>2. E[0] = <<>> /\ \A k \in 1 .. L : E[k] = E[k - 1] \o encode_message(ms[k])
  BY EncodedValues
<1>3. F[0] = <<>> /\ \A k \in 1 .. L + 1 : F[k] = F[k - 1] \o encode_message(more[k])
  <2> HIDE DEF more
  <2> QED
    BY <1>1, EncodedValues
<1> HIDE DEF L, E, F, more
<1>4. 0 \in Agree
  BY <1>2, <1>3
<1>5. ASSUME NEW k \in Nat, k \in Agree PROVE k + 1 \in Agree
  <2> SUFFICES ASSUME k + 1 <= L PROVE F[k + 1] = E[k + 1]
    OBVIOUS
  <2>1. F[k] = E[k] /\ k + 1 \in 1 .. L /\ k + 1 \in 1 .. L + 1 /\ (k + 1) - 1 = k
    BY <1>1, <1>5
  <2>2. F[k + 1] = F[k] \o encode_message(more[k + 1])
    BY <1>3, <2>1
  <2>3. E[k + 1] = E[k] \o encode_message(ms[k + 1])
    BY <1>2, <2>1
  <2>4. more[k + 1] = ms[k + 1]
    BY <1>1, <2>1
  <2> QED
    BY <2>1, <2>2, <2>3, <2>4
<1> HIDE DEF Agree
<1>6. \A k \in Nat : k \in Agree
  BY <1>4, <1>5, Induction
<1>7. \A k \in 0 .. L : F[k] = E[k]
  BY <1>1, <1>6 DEF Agree
<1>8. F[L + 1] = E[L] \o encode_message(m)
  <2>1. L + 1 \in 1 .. L + 1 /\ (L + 1) - 1 = L /\ L \in 0 .. L
    BY <1>1
  <2>2. F[L + 1] = F[L] \o encode_message(more[L + 1])
    BY <1>3, <2>1
  <2> QED
    BY <1>1, <1>7, <2>1, <2>2
<1> QED
  BY <1>7, <1>8 DEF L, E, F, more

\* The sequence T holds e behind its first c members.
Holds(T, e, c) == c + Len(e) <= Len(T) /\ \A j \in 1 .. Len(e) : T[c + j] = e[j]

LEMMA HoldsLonger ==
  ASSUME NEW S, NEW T \in Seq(S), NEW e \in Seq(S), NEW f \in Seq(S), NEW c \in Nat, Holds(T, e, c)
  PROVE  Holds(T \o f, e, c)
<1>1. /\ T \o f \in Seq(S) /\ Len(T \o f) = Len(T) + Len(f)
      /\ \A i \in 1 .. Len(T) : (T \o f)[i] = T[i]
  BY ConcatAt DEF Joins
<1> DEFINE U == T \o f
<1> HIDE DEF U
<1>2. ASSUME NEW j \in 1 .. Len(e) PROVE U[c + j] = e[j]
  <2>1. c + j \in 1 .. Len(T) /\ T[c + j] = e[j]
    BY DEF Holds
  <2> QED
    BY <1>1, <2>1 DEF U
<1> QED
  BY <1>1, <1>2 DEF Holds, U

\* The whole encoding holds each message behind those before it.
LEMMA EncodedFrame ==
  ASSUME NEW ms \in Seq(Messages), NEW k \in Nat, k < Len(ms)
  PROVE  LET E == Encoded(ms)
             e == encode_message(ms[k + 1])
         IN  /\ E[k] \in Seq(Byte) /\ E[k + 1] \in Seq(Byte) /\ E[Len(ms)] \in Seq(Byte)
             /\ e \in Seq(Byte) /\ Len(E[k + 1]) = Len(E[k]) + Len(e)
             /\ Holds(E[Len(ms)], e, Len(E[k]))
<1> DEFINE L == Len(ms)
           E == Encoded(ms)
           e == encode_message(ms[k + 1])
           c == Len(E[k])
           There == {l \in Nat : k + 1 <= l /\ l <= L => Holds(E[l], e, c)}
<1>1. L \in Nat /\ k + 1 \in 1 .. L /\ k \in 0 .. L /\ k + 1 \in 0 .. L /\ L \in 0 .. L
      /\ (k + 1) - 1 = k
  OBVIOUS
<1>2. /\ \A i \in 0 .. L : E[i] \in Seq(Byte)
      /\ \A i \in 1 .. L : /\ encode_message(ms[i]) \in Seq(Byte)
                           /\ E[i] = E[i - 1] \o encode_message(ms[i])
  <2>1. E \in [0 .. L -> Seq(Byte)]
    BY EncodedValues
  <2> DEFINE V == Seq(Byte)
  <2> HIDE DEF E, V
  <2>2. \A i \in 0 .. L : E[i] \in V
    BY <2>1 DEF V
  <2> QED
    BY <2>2, EncodedValues DEF E, V
<1> HIDE DEF E, L
<1>3. e \in Seq(Byte) /\ E[k + 1] = E[k] \o e /\ E[k] \in Seq(Byte) /\ E[k + 1] \in Seq(Byte)
      /\ E[L] \in Seq(Byte)
  BY <1>1, <1>2
<1> HIDE DEF e
<1>4. Joins(E[k + 1], E[k], e) /\ c \in Nat
  BY <1>3, ConcatAt
<1>5. Holds(E[k + 1], e, c)
  <2>1. Len(e) \in Nat
    BY <1>3
  <2> QED
    BY <1>4, <2>1 DEF Joins, Holds
<1> HIDE DEF c
<1>6. 0 \in There
  BY <1>1
<1>7. ASSUME NEW l \in Nat, l \in There PROVE l + 1 \in There
  <2> SUFFICES ASSUME k + 1 <= l + 1, l + 1 <= L PROVE Holds(E[l + 1], e, c)
    OBVIOUS
  <2>1. CASE l = k
    BY <1>5, <2>1
  <2>2. CASE l # k
    <3>1. l \in 0 .. L /\ l + 1 \in 1 .. L /\ (l + 1) - 1 = l /\ k + 1 <= l
      BY <1>1, <2>2
    <3>2. Holds(E[l], e, c)
      BY <1>7, <3>1
    <3>3. E[l] \in Seq(Byte) /\ encode_message(ms[l + 1]) \in Seq(Byte)
          /\ E[l + 1] = E[l] \o encode_message(ms[l + 1])
      BY <1>2, <3>1
    <3> QED
      BY <1>3, <1>4, <3>2, <3>3, HoldsLonger
  <2> QED
    BY <2>1, <2>2
<1> HIDE DEF There
<1>8. L \in There
  BY <1>1, <1>6, <1>7, Induction
<1>9. Holds(E[L], e, c)
  BY <1>1, <1>8 DEF There
<1>10. Len(E[k + 1]) = c + Len(e)
  BY <1>4 DEF Joins, c
<1> QED
  BY <1>3, <1>9, <1>10 DEF E, e, c, L
-------------------------------------------------------------------------------
(* The reader's place in the stream.                                       *)

\* The sequence t is what is left of T behind its first c members.
At(t, T, c) == c + Len(t) = Len(T) /\ \A j \in 1 .. Len(t) : t[j] = T[c + j]

LEMMA AtIsRest ==
  ASSUME NEW S, NEW T \in Seq(S), NEW t \in Seq(S), NEW c \in Nat, c <= Len(T)
  PROVE  t = SubSeq(T, c + 1, Len(T)) <=> At(t, T, c)
<1>1. ASSUME t = SubSeq(T, c + 1, Len(T)) PROVE At(t, T, c)
  <2>1. Len(t) = Len(T) - c /\ \A i \in 1 .. Len(t) : T[c + i] = t[i]
    BY <1>1, RestIs
  <2>2. c + Len(t) = Len(T)
    BY <2>1
  <2> QED
    BY <2>1, <2>2 DEF At
<1>2. ASSUME At(t, T, c) PROVE t = SubSeq(T, c + 1, Len(T))
  <2>1. Len(t) = Len(T) - c
    BY <1>2 DEF At
  <2>2. \A i \in 1 .. Len(t) : T[c + i] = t[i]
    BY <1>2 DEF At
  <2> QED
    BY <2>1, <2>2, RestIs
<1> QED
  BY <1>1, <1>2

LEMMA AtSend ==
  ASSUME NEW S, NEW T \in Seq(S), NEW t \in Seq(S), NEW e \in Seq(S), NEW c \in Nat, At(t, T, c)
  PROVE  At(t \o e, T \o e, c)
<1> DEFINE u == t \o e
           U == T \o e
<1>1. /\ Len(u) = Len(t) + Len(e) /\ Len(U) = Len(T) + Len(e)
      /\ \A i \in 1 .. Len(t) : u[i] = t[i]
      /\ \A i \in 1 .. Len(e) : u[Len(t) + i] = e[i]
  BY ConcatAt DEF Joins
<1>2. /\ \A i \in 1 .. Len(T) : U[i] = T[i]
      /\ \A i \in 1 .. Len(e) : U[Len(T) + i] = e[i]
  BY ConcatAt DEF Joins
<1> HIDE DEF u, U
<1>3. Len(t) \in Nat /\ Len(e) \in Nat /\ Len(T) = c + Len(t)
  BY DEF At
<1>4. ASSUME NEW j \in 1 .. Len(u) PROVE u[j] = U[c + j]
  <2>1. CASE j <= Len(t)
    <3>1. j \in 1 .. Len(t) /\ c + j \in 1 .. Len(T)
      BY <1>3, <2>1
    <3> QED
      BY <1>1, <1>2, <3>1 DEF At
  <2>2. CASE j > Len(t)
    <3> DEFINE i == j - Len(t)
    <3>1. i \in 1 .. Len(e) /\ j = Len(t) + i /\ c + j = Len(T) + i
      BY <1>1, <1>3, <2>2
    <3> QED
      BY <1>1, <1>2, <3>1
  <2> QED
    BY <1>3, <2>1, <2>2
<1>5. c + Len(u) = Len(U)
  BY <1>1, <1>3
<1> QED
  BY <1>4, <1>5 DEF At, u, U

LEMMA AtReceive ==
  ASSUME NEW S, NEW T \in Seq(S), NEW t \in Seq(S), NEW c \in Nat, At(t, T, c),
         NEW n \in 1 .. Len(t)
  PROVE  LET u == SubSeq(t, n + 1, Len(t)) IN u \in Seq(S) /\ At(u, T, c + n)
<1> DEFINE u == SubSeq(t, n + 1, Len(t))
           L == Len(t)
           m == n + 1
<1>1. L \in Nat /\ L <= Len(t) /\ m \in Nat \ {0} /\ m <= L + 1 /\ (L + 1) - m = L - n /\ m - 1 = n
      /\ n \in Nat /\ n <= L
  OBVIOUS
<1> HIDE DEF u, L, m
<1>2. /\ u \in Seq(S) /\ Len(u) = L - n
      /\ \A i \in 1 .. L - n : u[i] = t[n + i]
  <2>1. u = SubSeq(t, m, L)
    BY DEF u, L, m
  <2> QED
    BY <1>1, <2>1, SliceAt
<1>3. ASSUME NEW j \in 1 .. Len(u) PROVE u[j] = T[(c + n) + j]
  <2>1. n + j \in 1 .. Len(t) /\ j \in 1 .. L - n
    BY <1>1, <1>2 DEF L
  <2>2. t[n + j] = T[c + (n + j)]
    BY <2>1 DEF At
  <2>3. c + (n + j) = (c + n) + j
    BY <1>1, <1>2
  <2> QED
    BY <1>2, <2>1, <2>2, <2>3
<1>4. (c + n) + Len(u) = Len(T)
  <2>1. c + L = Len(T)
    BY DEF At, L
  <2>2. Len(u) = L - n
    BY <1>2
  <2> QED
    BY <1>1, <2>1, <2>2
<1> QED
  BY <1>2, <1>3, <1>4 DEF At, u

\* After the first k of the messages s, the stream t is where message k + 1 begins ...
Idle(s, t, k) == At(t, Encoded(s)[Len(s)], Len(Encoded(s)[k]))

\* ... or within it, as far as the parts r of it have come.
InMessage(s, t, k, r) ==
  /\ k < Len(s)
  /\ At(t, Encoded(s)[Len(s)], Len(Encoded(s)[k]) + (HeaderBytes + Len(r.payload)))
  /\ r.id = s[k + 1].id /\ r.want + Len(r.payload) = Len(s[k + 1].payload)
  /\ \A j \in 1 .. Len(r.payload) : r.payload[j] = s[k + 1].payload[j]

\* What encoding makes of a prefix is no longer than the whole.
LEMMA EncodedBound ==
  ASSUME NEW ms \in Seq(Messages), NEW k \in 0 .. Len(ms)
  PROVE  /\ Encoded(ms)[k] \in Seq(Byte) /\ Encoded(ms)[Len(ms)] \in Seq(Byte)
         /\ Len(Encoded(ms)[k]) <= Len(Encoded(ms)[Len(ms)])
<1>1. CASE k = Len(ms)
  <2> DEFINE V == Seq(Byte)
             E == Encoded(ms)
             L == Len(ms)
  <2>1. E \in [0 .. L -> V]
    BY EncodedValues
  <2>2. L \in 0 .. L
    OBVIOUS
  <2> HIDE DEF V, E, L
  <2>4. E[L] \in V
    BY <2>1, <2>2
  <2>3. E[Len(ms)] \in Seq(Byte)
    BY <2>4 DEF V, L
  <2> QED
    BY <1>1, <2>3 DEF E
<1>2. CASE k < Len(ms)
  <2>1. k \in Nat
    OBVIOUS
  <2> DEFINE a == Encoded(ms)[k]
             T == Encoded(ms)[Len(ms)]
             e == encode_message(ms[k + 1])
  <2>2. a \in Seq(Byte) /\ T \in Seq(Byte) /\ e \in Seq(Byte) /\ Holds(T, e, Len(a))
    BY <1>2, <2>1, EncodedFrame
  <2> HIDE DEF a, T, e
  <2>3. Len(a) <= Len(T)
    BY <2>2 DEF Holds
  <2> QED
    BY <2>2, <2>3 DEF a, T
<1> QED
  BY <1>1, <1>2

\* NothingSkipped, for a stream, a reader and messages that are not those of a state.
Framing(s, t, g, r) ==
  r # FAILED =>
    /\ LET all == Encoded(s)[Len(s)]
           before == Len(Encoded(s)[Len(g)]) +
                     IF r \notin {NULL, FAILED} THEN HeaderBytes + Len(r.payload) ELSE 0
       IN  t = SubSeq(all, before + 1, Len(all))
    /\ r \notin {NULL, FAILED} =>
         /\ Len(g) < Len(s)
         /\ LET m == s[Len(g) + 1]
            IN  /\ r.id = m.id /\ r.want + Len(r.payload) = Len(m.payload)
                /\ r.payload = SubSeq(m.payload, 1, Len(r.payload))

LEMMA FramingIdle ==
  ASSUME NEW s \in Seq(Messages), NEW t \in Seq(Byte), NEW g, Len(g) \in 0 .. Len(s)
  PROVE  Framing(s, t, g, NULL) <=> Idle(s, t, Len(g))
<1> DEFINE T == Encoded(s)[Len(s)]
           c == Len(Encoded(s)[Len(g)])
<1>1. T \in Seq(Byte) /\ c \in Nat /\ c <= Len(T)
  BY EncodedBound
<1>2. Framing(s, t, g, NULL) <=> t = SubSeq(T, (c + 0) + 1, Len(T))
  BY NullAssumption DEF Framing
<1> HIDE DEF T, c
<1>3. t = SubSeq(T, c + 1, Len(T)) <=> At(t, T, c)
  BY <1>1, AtIsRest
<1>4. c + 0 = c
  BY <1>1
<1> QED
  BY <1>2, <1>3, <1>4 DEF Idle, T, c

LEMMA FramingReading ==
  ASSUME NEW s \in Seq(Messages), NEW t \in Seq(Byte), NEW g, Len(g) \in 0 .. Len(s),
         NEW r \in Parts
  PROVE  Framing(s, t, g, r) <=> InMessage(s, t, Len(g), r)
<1> DEFINE T == Encoded(s)[Len(s)]
           k == Len(g)
           c == Len(Encoded(s)[k])
           p == HeaderBytes + Len(r.payload)
           m == s[k + 1]
           Told == /\ k < Len(s)
                   /\ r.id = m.id /\ r.want + Len(r.payload) = Len(m.payload)
<1>1. T \in Seq(Byte) /\ c \in Nat /\ c <= Len(T)
  BY EncodedBound
<1>2. r.payload \in Seq(Byte) /\ r.want \in Nat /\ p \in Nat
  BY CodecAssumption, RangesAreNumbers DEF Parts, HeaderBytes, MsgLenBytes, MsgIdBytes
<1>3. Framing(s, t, g, r) <=>
        t = SubSeq(T, (c + p) + 1, Len(T)) /\ Told /\ r.payload = SubSeq(m.payload, 1, Len(r.payload))
  BY NullAssumption DEF Framing
<1>4. InMessage(s, t, k, r) <=>
        At(t, T, c + p) /\ Told /\ \A j \in 1 .. Len(r.payload) : r.payload[j] = m.payload[j]
  BY DEF InMessage
<1>5. ASSUME Told
      PROVE  /\ t = SubSeq(T, (c + p) + 1, Len(T)) <=> At(t, T, c + p)
             /\ r.payload = SubSeq(m.payload, 1, Len(r.payload)) <=>
                  \A j \in 1 .. Len(r.payload) : r.payload[j] = m.payload[j]
  <2>1. k \in Nat /\ k < Len(s) /\ k + 1 \in 1 .. Len(s)
    BY <1>5
  <2> DEFINE e == encode_message(m)
  <2>2. Holds(T, e, c)
    BY <2>1, EncodedFrame
  <2>3. m \in Messages
    BY <2>1
  <2>4. Encodable(m)
    BY <2>3, MessagesAreEncodable
  <2>5. Len(e) = HeaderBytes + Len(m.payload) /\ m.payload \in Seq(Byte)
    BY <2>4, EncodedLayout DEF Encodable, AnyMessage
  <2> HIDE DEF T, c, e, m
  <2>6. Len(r.payload) <= Len(m.payload)
    BY <1>2, <1>5, <2>5
  <2>7. HeaderBytes \in Nat
    BY CodecAssumption DEF HeaderBytes, MsgLenBytes, MsgIdBytes
  <2>8. c + p \in Nat /\ c + p <= Len(T)
    BY <1>1, <1>2, <2>2, <2>5, <2>6, <2>7 DEF Holds
  <2>9. t = SubSeq(T, (c + p) + 1, Len(T)) <=> At(t, T, c + p)
    <3> HIDE DEF p
    <3> QED
      BY <1>1, <2>8, AtIsRest
  <2>10. r.payload = SubSeq(m.payload, 1, Len(r.payload)) <=>
           \A j \in 1 .. Len(r.payload) : r.payload[j] = m.payload[j]
    BY <1>2, <2>5, <2>6, FirstIs
  <2> QED
    BY <2>9, <2>10
<1> HIDE DEF T, c, p, m, Told
<1> QED
  BY <1>3, <1>4, <1>5
-------------------------------------------------------------------------------
(* What each step does to the place.                                       *)

LEMMA SendKeepsPlace ==
  ASSUME NEW s \in Seq(Messages), NEW t \in Seq(Byte), NEW k \in 0 .. Len(s), NEW m \in Messages
  PROVE  LET s2 == Append(s, m)
             t2 == t \o encode_message(m)
         IN  /\ t2 \in Seq(Byte)
             /\ Idle(s, t, k) => Idle(s2, t2, k)
             /\ \A r \in Parts : InMessage(s, t, k, r) => InMessage(s2, t2, k, r)
<1> DEFINE s2 == Append(s, m)
           e == encode_message(m)
           t2 == t \o e
           T == Encoded(s)[Len(s)]
           T2 == Encoded(s2)[Len(s2)]
           c == Len(Encoded(s)[k])
<1>1. /\ s2 \in Seq(Messages) /\ Len(s2) = Len(s) + 1 /\ Len(s) \in Nat
      /\ \A i \in 1 .. Len(s) : s2[i] = s[i]
  OBVIOUS
<1>2. e \in Seq(Byte)
  <2>1. Encodable(m)
    BY MessagesAreEncodable
  <2> QED
    BY <2>1, EncodedLayout
<1>3. T \in Seq(Byte) /\ c \in Nat
  <2>1. Encoded(s)[k] \in Seq(Byte) /\ T \in Seq(Byte)
    BY EncodedBound
  <2> QED
    BY <2>1
<1>4. T2 = T \o e /\ Encoded(s2)[k] = Encoded(s)[k]
  <2>1. /\ \A i \in 0 .. Len(s) : Encoded(s2)[i] = Encoded(s)[i]
        /\ Encoded(s2)[Len(s) + 1] = T \o e
    BY EncodedAgree
  <2> QED
    BY <1>1, <2>1
<1> HIDE DEF e, s2
<1>5. t2 \in Seq(Byte)
  BY <1>2, ConcatAt
<1>6. ASSUME Idle(s, t, k) PROVE Idle(s2, t2, k)
  <2>1. At(t, T, c)
    BY <1>6 DEF Idle
  <2>2. At(t2, T2, c)
    <3> HIDE DEF T, T2, c
    <3> QED
      BY <1>2, <1>3, <1>4, <2>1, AtSend
  <2> QED
    BY <1>4, <2>2 DEF Idle
<1>7. ASSUME NEW r \in Parts, InMessage(s, t, k, r) PROVE InMessage(s2, t2, k, r)
  <2> DEFINE p == c + (HeaderBytes + Len(r.payload))
  <2>1. At(t, T, p)
    BY <1>7 DEF InMessage
  <2>2. p \in Nat
    <3>1. HeaderBytes \in Nat /\ Len(r.payload) \in Nat
      BY CodecAssumption DEF Parts, HeaderBytes, MsgLenBytes, MsgIdBytes
    <3> HIDE DEF c
    <3> QED
      BY <1>3, <3>1
  <2>3. At(t2, T2, p)
    <3> HIDE DEF T, T2, p
    <3> QED
      BY <1>2, <1>3, <1>4, <2>1, <2>2, AtSend
  <2>4. k < Len(s)
    BY <1>7 DEF InMessage
  <2>5. s2[k + 1] = s[k + 1] /\ k < Len(s2)
    <3>1. k + 1 \in 1 .. Len(s)
      BY <2>4
    <3> QED
      BY <1>1, <2>4, <3>1
  <2>6. /\ r.id = s[k + 1].id /\ r.want + Len(r.payload) = Len(s[k + 1].payload)
        /\ \A j \in 1 .. Len(r.payload) : r.payload[j] = s[k + 1].payload[j]
    BY <1>7 DEF InMessage
  <2>7. At(t2, T2, Len(Encoded(s2)[k]) + (HeaderBytes + Len(r.payload)))
    BY <1>4, <2>3
  <2> HIDE DEF t2, p, T2
  <2> QED
    BY <2>5, <2>6, <2>7 DEF InMessage, T2
<1> QED
  BY <1>5, <1>6, <1>7 DEF e, s2

\* A stream that is not empty begins with the next message, all of it.
LEMMA NextMessage ==
  ASSUME NEW s \in Seq(Messages), NEW t \in Seq(Byte), NEW k \in 0 .. Len(s), Idle(s, t, k),
         t # <<>>
  PROVE  /\ k < Len(s) /\ k + 1 \in 1 .. Len(s) /\ s[k + 1] \in Messages /\ Encodable(s[k + 1])
         /\ LET e == encode_message(s[k + 1])
            IN  Len(e) <= Len(t) /\ \A j \in 1 .. Len(e) : t[j] = e[j]
<1> DEFINE T == Encoded(s)[Len(s)]
           c == Len(Encoded(s)[k])
           e == encode_message(s[k + 1])
<1>1. T \in Seq(Byte) /\ c \in Nat
  <2>1. Encoded(s)[k] \in Seq(Byte) /\ T \in Seq(Byte)
    BY EncodedBound
  <2> QED
    BY <2>1
<1>2. At(t, T, c)
  BY DEF Idle
<1>3. k < Len(s)
  <2> SUFFICES ASSUME k = Len(s) PROVE FALSE
    OBVIOUS
  <2>1. c = Len(T) /\ Len(t) \in Nat \ {0}
    OBVIOUS
  <2> HIDE DEF c, T
  <2>2. c + Len(t) = Len(T)
    BY <1>2 DEF At
  <2> QED
    BY <1>1, <2>1, <2>2
<1>4. k \in Nat /\ k + 1 \in 1 .. Len(s)
  BY <1>3
<1>5. s[k + 1] \in Messages
  BY <1>4
<1>6. Encodable(s[k + 1])
  BY <1>5, MessagesAreEncodable
<1>7. e \in Seq(Byte) /\ Holds(T, e, c)
  BY <1>3, <1>4, EncodedFrame
<1> HIDE DEF T, c, e
<1>8. Len(e) <= Len(t)
  <2>1. c + Len(t) = Len(T) /\ c + Len(e) <= Len(T)
    BY <1>2, <1>7 DEF At, Holds
  <2> QED
    BY <1>1, <1>7, <2>1
<1>9. ASSUME NEW j \in 1 .. Len(e) PROVE t[j] = e[j]
  <2>1. j \in 1 .. Len(t)
    BY <1>7, <1>8
  <2>2. t[j] = T[c + j]
    BY <1>2, <2>1 DEF At
  <2> QED
    BY <1>7, <2>2 DEF Holds
<1> QED
  BY <1>3, <1>4, <1>5, <1>6, <1>8, <1>9 DEF e

\* A header that is read is the header of the next message; one with a length of the
\* upper half of an int is not taken.
LEMMA HeaderStep ==
  ASSUME NEW s \in Seq(Messages), NEW t \in Seq(Byte), NEW k \in 0 .. Len(s), Idle(s, t, k),
         HeaderBytes \in 1 .. Len(t), LengthOf(t) # 0, Want(LengthOf(t)) < LongRange \div 2
  PROVE  LET r == [id |-> t[HeaderBytes], want |-> Want(LengthOf(t)), payload |-> <<>>]
         IN  r \in Parts /\ InMessage(s, SubSeq(t, HeaderBytes + 1, Len(t)), k, r)
<1> DEFINE m == s[k + 1]
           e == encode_message(m)
           l == MsgIdBytes + Len(m.payload)
           w == Want(LengthOf(t))
           r == [id |-> t[HeaderBytes], want |-> w, payload |-> <<>>]
           T == Encoded(s)[Len(s)]
           c == Len(Encoded(s)[k])
<1>1. t # <<>>
  <2>1. CASE t = <<>>
    BY <2>1
  <2> QED
    BY <2>1
<1>2. k < Len(s) /\ Encodable(m) /\ Len(e) <= Len(t) /\ \A j \in 1 .. Len(e) : t[j] = e[j]
  BY <1>1, NextMessage
<1>3. e \in Seq(Byte) /\ Len(e) = HeaderBytes + Len(m.payload)
  BY <1>2, EncodedLayout
<1>4. /\ m.id \in Byte /\ m.payload \in Seq(Byte) /\ Len(m.payload) \in Nat
      /\ l = 1 + Len(m.payload) /\ l \in 0 .. IntRange - 1
  <2>1. m.id \in Byte /\ m.payload \in Seq(Byte)
    BY <1>2 DEF Encodable, AnyMessage
  <2>2. l = 1 + Len(m.payload) /\ l < IntRange
    BY <1>2 DEF Encodable, MsgIdBytes
  <2> HIDE DEF m, l
  <2>3. Len(m.payload) \in Nat
    BY <2>1
  <2> QED
    BY <2>1, <2>2, <2>3, RangesAreNumbers
<1> HIDE DEF m, e
<1>5. LengthOf(t) = AndBack(l) /\ t[HeaderBytes] = m.id
  <2>1. HeaderBytes <= Len(t) /\ \A i \in 1 .. HeaderBytes : t[i] = e[i]
    BY <1>2, <1>3, <1>4
  <2> QED
    BY <1>2, <2>1, HeaderAndBack DEF e
<1>6. LongRange \in Nat \ {0} /\ IntRange \in Nat \ {0} /\ IntRange \div 2 < IntRange
      /\ IntRange <= LongRange
  BY HalfOfInt, RangesAreNumbers
<1>7. w = (AndBack(l) - 1) % LongRange
  BY <1>5 DEF Want, MsgIdBytes
<1> HIDE DEF l
<1>8. l < IntRange \div 2
  <2> SUFFICES ASSUME l >= IntRange \div 2 PROVE FALSE
    <3>1. IntRange \div 2 \in Int
      BY HalfOfInt, RangesAreNumbers
    <3> QED
      BY <1>4, <1>6, <3>1
  <2>1. AndBack(l) \in IntRange .. LongRange - 1 /\ AndBack(l) - 1 >= LongRange \div 2
    BY <1>4, UpperHalf
  <2>2. AndBack(l) - 1 \in 0 .. LongRange - 1
    BY <1>6, <2>1
  <2>3. w = AndBack(l) - 1
    BY <1>6, <1>7, <2>2, SmallRemainder
  <2>4. LongRange \div 2 \in Int /\ w < LongRange \div 2
    BY <1>6
  <2> HIDE DEF w
  <2> QED
    BY <2>1, <2>2, <2>3, <2>4
<1>9. w = Len(m.payload) /\ w \in 0 .. LongRange - 1
  <2>1. AndBack(l) = l
    BY <1>4, <1>8, LowerHalf
  <2>2. l - 1 \in 0 .. LongRange - 1 /\ l - 1 = Len(m.payload)
    BY <1>4, <1>6
  <2>3. (l - 1) % LongRange = l - 1
    BY <1>6, <2>2, SmallRemainder
  <2> HIDE DEF w
  <2> QED
    BY <1>7, <2>1, <2>2, <2>3
<1> HIDE DEF w
<1>10. <<>> \in Seq(Byte) /\ Len(<<>>) = 0
  OBVIOUS
<1>11. r \in Parts
  BY <1>4, <1>5, <1>9, <1>10 DEF Parts
<1>12. T \in Seq(Byte) /\ c \in Nat /\ At(t, T, c)
  <2>1. Encoded(s)[k] \in Seq(Byte) /\ T \in Seq(Byte)
    BY EncodedBound
  <2>2. At(t, T, c)
    BY DEF Idle
  <2> QED
    BY <2>1, <2>2
<1> HIDE DEF T, c
<1>13. At(SubSeq(t, HeaderBytes + 1, Len(t)), T, c + HeaderBytes)
  BY <1>12, AtReceive
<1>14. At(SubSeq(t, HeaderBytes + 1, Len(t)), T, c + (HeaderBytes + Len(r.payload)))
  <2>1. r.payload = <<>> /\ HeaderBytes \in Nat
    BY CodecAssumption DEF HeaderBytes, MsgLenBytes, MsgIdBytes
  <2>2. HeaderBytes + Len(r.payload) = HeaderBytes
    BY <1>10, <2>1
  <2> QED
    BY <1>13, <2>2
<1>15. /\ r.id = m.id /\ r.want + Len(r.payload) = Len(m.payload)
       /\ \A j \in 1 .. Len(r.payload) : r.payload[j] = m.payload[j]
  BY <1>4, <1>5, <1>9, <1>10
<1> QED
  BY <1>2, <1>11, <1>14, <1>15 DEF InMessage, T, c, m, w

\* A part of the payload goes on where the last one ended.
LEMMA PayloadStep ==
  ASSUME NEW s \in Seq(Messages), NEW t \in Seq(Byte), NEW k \in 0 .. Len(s), NEW r \in Parts,
         InMessage(s, t, k, r), NEW n \in 1 .. r.want, n \in 1 .. Len(t)
  PROVE  LET r2 == [r EXCEPT !.want = @ - n, !.payload = @ \o SubSeq(t, 1, n)]
         IN  r2 \in Parts /\ InMessage(s, SubSeq(t, n + 1, Len(t)), k, r2)
<1> DEFINE m == s[k + 1]
           e == encode_message(m)
           T == Encoded(s)[Len(s)]
           c == Len(Encoded(s)[k])
           q == Len(r.payload)
           u == SubSeq(t, 1, n)
           p2 == r.payload \o u
           r2 == [r EXCEPT !.want = @ - n, !.payload = @ \o u]
           t2 == SubSeq(t, n + 1, Len(t))
<1>1. k < Len(s) /\ k + 1 \in 1 .. Len(s) /\ k \in Nat
  <2>1. k < Len(s)
    BY DEF InMessage
  <2> QED
    BY <2>1
<1>2. Encodable(m)
  <2>1. m \in Messages
    BY <1>1
  <2> QED
    BY <2>1, MessagesAreEncodable
<1>3. /\ e \in Seq(Byte) /\ Len(e) = HeaderBytes + Len(m.payload)
      /\ \A i \in 1 .. Len(m.payload) : e[HeaderBytes + i] = m.payload[i]
  BY <1>2, EncodedLayout
<1>4. m.payload \in Seq(Byte)
  BY <1>2 DEF Encodable, AnyMessage
<1>5. T \in Seq(Byte) /\ Holds(T, e, c)
  BY <1>1, EncodedFrame
<1>6. c \in Nat
  <2>1. Encoded(s)[k] \in Seq(Byte)
    BY <1>1, EncodedFrame
  <2> QED
    BY <2>1
<1>7. HeaderBytes \in Nat /\ r.payload \in Seq(Byte) /\ q \in Nat /\ r.id \in Byte
      /\ r.want \in 0 .. LongRange - 1 /\ r = [id |-> r.id, want |-> r.want, payload |-> r.payload]
  BY CodecAssumption DEF Parts, HeaderBytes, MsgLenBytes, MsgIdBytes
<1>8. /\ At(t, T, c + (HeaderBytes + q))
      /\ r.id = m.id /\ r.want + q = Len(m.payload)
      /\ \A j \in 1 .. q : r.payload[j] = m.payload[j]
  BY DEF InMessage
<1>9. u \in Seq(Byte) /\ Len(u) = n /\ \A i \in 1 .. n : u[i] = t[i]
  BY SliceAt
<1> HIDE DEF m, e, T, c, u
<1>10. p2 \in Seq(Byte) /\ Joins(p2, r.payload, u)
  BY <1>7, <1>9, ConcatAt
<1>11. r2.id = r.id /\ r2.want = r.want - n /\ r2.payload = p2
       /\ r2 = [id |-> r.id, want |-> r.want - n, payload |-> p2]
  <2> HIDE DEF p2
  <2>1. r2.id = r.id /\ r2.want = r.want - n
    BY <1>7
  <2>2. r2.payload = p2
    BY <1>7 DEF p2
  <2>3. DOMAIN r2 = {"id", "want", "payload"}
    <3>1. DOMAIN r = {"id", "want", "payload"}
      BY <1>7
    <3>2. DOMAIN r2 = DOMAIN r
      OBVIOUS
    <3> QED
      BY <3>1, <3>2
  <2>4. r2 = [x \in {"id", "want", "payload"} |-> r2[x]]
    BY <2>3
  <2> HIDE DEF r2
  <2>5. r2 = [id |-> r2.id, want |-> r2.want, payload |-> r2.payload]
    BY <2>4
  <2> QED
    BY <2>1, <2>2, <2>5
<1> HIDE DEF r2, p2, q
<1>12. n \in Nat /\ r.want - n \in 0 .. LongRange - 1
  <2>1. n \in Nat /\ n <= r.want
    BY <1>7, RangesAreNumbers
  <2>2. r.want \in 0 .. LongRange - 1
    BY <1>7
  <2>3. LongRange \in Nat \ {0}
    BY RangesAreNumbers
  <2>4. \A w \in 0 .. LongRange - 1 : n <= w => w - n \in 0 .. LongRange - 1
    BY <2>1, <2>3
  <2> QED
    BY <2>1, <2>2, <2>4
<1>13. r2 \in Parts
  BY <1>7, <1>10, <1>11, <1>12 DEF Parts
<1>14. Len(p2) = q + n
  BY <1>9, <1>10 DEF Joins, q
<1>15. At(t2, T, c + (HeaderBytes + Len(r2.payload)))
  <2> DEFINE a == c + (HeaderBytes + q)
  <2>1. a \in Nat /\ a + n = c + (HeaderBytes + Len(r2.payload))
    <3>1. Len(r2.payload) = q + n
      BY <1>11, <1>14
    <3>2. c \in Nat /\ HeaderBytes \in Nat /\ q \in Nat /\ n \in Nat
      BY <1>6, <1>7, <1>12
    <3>3. \A h \in Nat : c + (h + q) \in Nat /\ (c + (h + q)) + n = c + (h + (q + n))
      BY <3>2
    <3> QED
      BY <3>1, <3>2, <3>3
  <2>2. At(t, T, a)
    BY <1>8
  <2> HIDE DEF a, t2
  <2>3. At(t2, T, a + n)
    BY <1>5, <2>1, <2>2, AtReceive DEF t2
  <2> QED
    BY <2>1, <2>3
<1>16. r2.id = m.id /\ r2.want + Len(r2.payload) = Len(m.payload)
  BY <1>7, <1>8, <1>11, <1>12, <1>14
<1>17. ASSUME NEW j \in 1 .. Len(p2) PROVE p2[j] = m.payload[j]
  <2>1. CASE j <= q
    <3>1. j \in 1 .. q /\ j \in 1 .. Len(r.payload)
      BY <1>7, <2>1 DEF q
    <3> QED
      BY <1>8, <1>10, <3>1 DEF Joins
  <2>2. CASE j > q
    <3> DEFINE i == j - q
    <3>1. i \in 1 .. n /\ j = q + i /\ j \in 1 .. Len(m.payload)
      <4>1. j \in 1 .. q + n
        BY <1>14
      <4>2. n \in Nat /\ n <= r.want /\ r.want \in Nat /\ q \in Nat
        BY <1>7, <1>12, RangesAreNumbers
      <4>3. Len(m.payload) = r.want + q
        BY <1>8
      <4>4. \A w \in Nat : n <= w => q + n <= w + q
        BY <4>2
      <4>5. i \in 1 .. n /\ j = q + i
        BY <2>2, <4>1, <4>2
      <4>6. j \in 1 .. r.want + q
        BY <4>1, <4>2, <4>4
      <4> QED
        BY <4>3, <4>5, <4>6
    <3>2. p2[j] = u[i]
      BY <1>9, <1>10, <3>1 DEF Joins, q
    <3>3. u[i] = t[i] /\ i \in 1 .. Len(t)
      BY <1>9, <3>1
    <3>4. t[i] = T[(c + (HeaderBytes + q)) + i]
      BY <1>8, <3>3 DEF At
    <3>5. e[HeaderBytes + j] = m.payload[j] /\ HeaderBytes + j \in 1 .. Len(e)
      <4>1. Len(m.payload) \in Nat /\ Len(e) \in Nat
        BY <1>3, <1>4
      <4>2. e[HeaderBytes + j] = m.payload[j]
        BY <1>3, <3>1
      <4>3. Len(e) = HeaderBytes + Len(m.payload)
        BY <1>3
      <4>4. HeaderBytes \in Nat
        BY <1>7
      <4>5. HeaderBytes + j \in 1 .. HeaderBytes + Len(m.payload)
        <5> DEFINE h == HeaderBytes
                   p == Len(m.payload)
        <5>1. h \in Nat /\ p \in Nat /\ j \in 1 .. p
          BY <3>1, <4>1, <4>4
        <5> HIDE DEF h, p
        <5>2. h + j \in 1 .. h + p
          BY <5>1
        <5> QED
          BY <5>2 DEF h, p
      <4> QED
        BY <4>2, <4>3, <4>5
    <3>6. T[c + (HeaderBytes + j)] = e[HeaderBytes + j]
      BY <1>5, <3>5 DEF Holds
    <3>7. (c + (HeaderBytes + q)) + i = c + (HeaderBytes + j)
      BY <1>6, <1>7, <1>12, <3>1
    <3> QED
      BY <3>2, <3>3, <3>4, <3>5, <3>6, <3>7
  <2> QED
    BY <1>7, <1>14, <2>1, <2>2
<1> QED
  BY <1>1, <1>11, <1>13, <1>15, <1>16, <1>17 DEF InMessage, r2, u, T, c, m

\* The parts of a whole message are that message, and what follows is the next one.
LEMMA MessageStep ==
  ASSUME NEW s \in Seq(Messages), NEW t \in Seq(Byte), NEW k \in 0 .. Len(s), NEW r \in Parts,
         InMessage(s, t, k, r), r.want = 0
  PROVE  /\ k < Len(s) /\ [id |-> r.id, payload |-> r.payload] = s[k + 1]
         /\ Idle(s, t, k + 1)
<1> DEFINE m == s[k + 1]
           e == encode_message(m)
           T == Encoded(s)[Len(s)]
           c == Len(Encoded(s)[k])
<1>1. k < Len(s) /\ k + 1 \in 1 .. Len(s) /\ k \in Nat
  <2>1. k < Len(s)
    BY DEF InMessage
  <2> QED
    BY <2>1
<1>2. Encodable(m)
  <2>1. m \in Messages
    BY <1>1
  <2> QED
    BY <2>1, MessagesAreEncodable
<1>3. Len(e) = HeaderBytes + Len(m.payload) /\ m.payload \in Seq(Byte)
      /\ m = [id |-> m.id, payload |-> m.payload]
  BY <1>2, EncodedLayout DEF Encodable, AnyMessage
<1>4. r.payload \in Seq(Byte)
  BY DEF Parts
<1>5. /\ At(t, T, c + (HeaderBytes + Len(r.payload)))
      /\ r.id = m.id /\ 0 + Len(r.payload) = Len(m.payload)
      /\ \A j \in 1 .. Len(r.payload) : r.payload[j] = m.payload[j]
  BY DEF InMessage
<1>6. Len(Encoded(s)[k + 1]) = c + Len(e)
  BY <1>1, EncodedFrame
<1> HIDE DEF m, e, T, c
<1>7. Len(r.payload) = Len(m.payload)
  BY <1>4, <1>5
<1>8. r.payload = m.payload
  BY <1>3, <1>4, <1>5, <1>7, SeqEqual
<1>9. At(t, T, Len(Encoded(s)[k + 1]))
  BY <1>3, <1>5, <1>6, <1>7
<1>10. [id |-> r.id, payload |-> r.payload] = m
  BY <1>3, <1>5, <1>8
<1> QED
  BY <1>1, <1>9, <1>10 DEF Idle, T, m
-------------------------------------------------------------------------------
(* The specification.                                                      *)

Inv == TypeOK /\ MessagesArrive

\* What the invariant says of one end and the other.
Placed(s, t, g, r) ==
  /\ r = NULL => Idle(s, t, Len(g))
  /\ r # NULL /\ r # FAILED => InMessage(s, t, Len(g), r)

LEMMA FramingIsPlaced ==
  ASSUME NEW s \in Seq(Messages), NEW t \in Seq(Byte), NEW g, Len(g) \in 0 .. Len(s),
         NEW r \in {NULL, FAILED} \cup Parts
  PROVE  Framing(s, t, g, r) <=> Placed(s, t, g, r)
<1>1. CASE r = NULL
  BY <1>1, FramingIdle, NullAssumption DEF Placed
<1>2. CASE r = FAILED
  BY <1>2, NullAssumption DEF Placed, Framing
<1>3. CASE r \in Parts
  <2>1. r # NULL /\ r # FAILED
    BY <1>3, NullAssumption
  <2> QED
    BY <1>3, <2>1, FramingReading DEF Placed
<1> QED
  BY <1>1, <1>2, <1>3

\* What has been returned are the first messages that were sent.
Arrived(s, g) == Len(g) \in 0 .. Len(s) /\ \A i \in 1 .. Len(g) : g[i] = s[i]

LEMMA PrefixIsArrived ==
  ASSUME NEW s \in Seq(Messages), NEW g \in Seq(AnyMessage)
  PROVE  IsPrefix(g, s) <=> Arrived(s, g)
<1>1. s \in Seq(AnyMessage)
  <2>1. Messages \subseteq AnyMessage
    BY MessagesAreEncodable DEF Encodable
  <2> QED
    BY <2>1, SeqMonotonic
<1>2. IsPrefix(g, s) <=> Len(g) <= Len(s) /\ \A i \in 1 .. Len(g) : g[i] = s[i]
  BY <1>1, PrefixIs
<1>3. Len(g) <= Len(s) <=> Len(g) \in 0 .. Len(s)
  OBVIOUS
<1> QED
  BY <1>2, <1>3 DEF Arrived

\* The invariant in the terms of the lemmas above.
LEMMA InvMeans ==
  ASSUME TypeOK
  PROVE  MessagesArrive <=>
           Arrived(sent, got) /\ Placed(sent, stream, got, reader)
<1>1. IsPrefix(got, sent) <=> Arrived(sent, got)
  BY PrefixIsArrived DEF TypeOK
<1>2. NothingSkipped <=> Framing(sent, stream, got, reader)
  BY DEF NothingSkipped, Framing, Consumed, Reading
<1>3. ASSUME Arrived(sent, got)
      PROVE  Framing(sent, stream, got, reader) <=> Placed(sent, stream, got, reader)
  BY <1>3, FramingIsPlaced DEF Arrived, TypeOK
<1> QED
  BY <1>1, <1>2, <1>3 DEF MessagesArrive

LEMMA InvMeansNext ==
  ASSUME TypeOK'
  PROVE  MessagesArrive' <=>
           Arrived(sent', got') /\ Placed(sent', stream', got', reader')
<1>1. IsPrefix(got', sent') <=> Arrived(sent', got')
  BY PrefixIsArrived DEF TypeOK
<1>2. NothingSkipped' <=> Framing(sent', stream', got', reader')
  BY DEF NothingSkipped, Framing, Consumed, Reading
<1>3. ASSUME Arrived(sent', got')
      PROVE  Framing(sent', stream', got', reader') <=> Placed(sent', stream', got', reader')
  BY <1>3, FramingIsPlaced DEF Arrived, TypeOK
<1> QED
  BY <1>1, <1>2, <1>3 DEF MessagesArrive

LEMMA InitInv ==
  ASSUME Init
  PROVE  Inv
<1>1. TypeOK
  BY DEF Init, TypeOK
<1>2. Arrived(sent, got)
  BY DEF Init, Arrived
<1>3. Idle(<<>>, <<>>, 0)
  <2> DEFINE none == <<>>
             V == Seq(Byte)
  <2>1. none \in Seq(Messages) /\ Len(none) = 0
    OBVIOUS
  <2> HIDE DEF none
  <2>2. Encoded(none)[0] = <<>>
    BY <2>1, EncodedValues
  <2>3. At(<<>>, <<>>, 0)
    BY DEF At
  <2>4. At(<<>>, Encoded(none)[Len(none)], Len(Encoded(none)[0]))
    BY <2>1, <2>2, <2>3
  <2> QED
    BY <2>4 DEF Idle, none
<1>4. Placed(sent, stream, got, reader)
  BY <1>3 DEF Init, Placed
<1> QED
  BY <1>1, <1>2, <1>4, InvMeans DEF Inv

\* The invariant without its data, for the steps that leave the stream alone.
LEMMA StreamUnchanged ==
  ASSUME Inv, UNCHANGED <<sent, stream, got, reader>>, buf' # NULL => buf'.bytes \in Seq(Byte)
  PROVE  Inv'
<1>1. TypeOK'
  BY DEF Inv, TypeOK
<1>2. Arrived(sent, got) /\ Placed(sent, stream, got, reader)
  BY InvMeans DEF Inv
<1> QED
  BY <1>1, <1>2, InvMeansNext DEF Inv

LEMMA StepInv ==
  ASSUME Inv, [Next]_vars
  PROVE  Inv'
<1> DEFINE k == Len(got)
<1>1. /\ sent \in Seq(Messages) /\ stream \in Seq(Byte) /\ got \in Seq(AnyMessage)
      /\ reader \in {NULL, FAILED} \cup Parts
      /\ buf # NULL => buf.bytes \in Seq(Byte)
  BY DEF Inv, TypeOK
<1>2. /\ k \in 0 .. Len(sent) /\ \A i \in 1 .. k : got[i] = sent[i]
      /\ Placed(sent, stream, got, reader)
  BY InvMeans DEF Inv, Arrived
<1>3. ASSUME TypeOK', Arrived(sent', got'), Placed(sent', stream', got', reader')
      PROVE  Inv'
  BY <1>3, InvMeansNext DEF Inv
<1>4. CASE Send
  <2>1. PICK m \in Messages : sent' = Append(sent, m) /\ stream' = stream \o encode_message(m)
    BY <1>4 DEF Send
  <2>2. got' = got /\ reader' = reader /\ buf' = buf
    BY <1>4 DEF Send
  <2>3. /\ stream' \in Seq(Byte)
        /\ Idle(sent, stream, k) => Idle(sent', stream', k)
        /\ \A r \in Parts : InMessage(sent, stream, k, r) => InMessage(sent', stream', k, r)
    BY <1>1, <1>2, <2>1, SendKeepsPlace
  <2>4. /\ sent' \in Seq(Messages) /\ Len(sent') = Len(sent) + 1
        /\ \A i \in 1 .. Len(sent) : sent'[i] = sent[i]
    BY <1>1, <2>1
  <2>5. TypeOK'
    BY <1>1, <2>2, <2>3, <2>4 DEF TypeOK
  <2>6. Arrived(sent', got')
    <3>1. k \in 0 .. Len(sent')
      BY <1>1, <1>2, <2>4
    <3>2. \A i \in 1 .. k : i \in 1 .. Len(sent)
      BY <1>1, <1>2
    <3> QED
      BY <1>2, <2>2, <2>4, <3>1, <3>2 DEF Arrived
  <2>7. Placed(sent', stream', got', reader')
    BY <1>1, <1>2, <2>2, <2>3 DEF Placed
  <2> QED
    BY <1>3, <2>5, <2>6, <2>7
<1>5. CASE ReadHeader
  <2>1. reader = NULL /\ sent' = sent /\ got' = got /\ buf' = buf
    BY <1>5 DEF ReadHeader
  <2>2. Idle(sent, stream, k)
    BY <1>2, <2>1 DEF Placed
  <2>3. Arrived(sent', got')
    BY <1>2, <2>1 DEF Arrived
  <2>4. ASSUME NEW n, Receive(n) PROVE stream' \in Seq(Byte)
    <3>1. n \in 1 .. Len(stream) /\ stream' = SubSeq(stream, n + 1, Len(stream))
      BY <2>4 DEF Receive
    <3>2. At(stream, stream, 0)
      BY <1>1 DEF At
    <3> QED
      BY <1>1, <3>1, <3>2, AtReceive
  <2>5. CASE reader' = FAILED
    <3>1. stream' \in Seq(Byte)
      <4>1. \E n : Receive(n)
        BY <1>5 DEF ReadHeader
      <4> QED
        BY <2>4, <4>1
    <3>2. TypeOK'
      BY <1>1, <2>1, <2>5, <3>1 DEF TypeOK
    <3>3. Placed(sent', stream', got', reader')
      BY <2>5, NullAssumption DEF Placed
    <3> QED
      BY <1>3, <2>3, <3>2, <3>3
  <2>6. CASE reader' # FAILED
    <3> DEFINE w == Want(LengthOf(stream))
               r == [id |-> stream[HeaderBytes], want |-> w, payload |-> <<>>]
    <3>1. Receive(HeaderBytes) /\ LengthOf(stream) # 0 /\ w < LongRange \div 2 /\ reader' = r
      BY <1>5, <2>6 DEF ReadHeader
    <3>2. HeaderBytes \in 1 .. Len(stream)
          /\ stream' = SubSeq(stream, HeaderBytes + 1, Len(stream))
      BY <3>1 DEF Receive
    <3>3. r \in Parts /\ InMessage(sent, stream', k, r)
      BY <1>1, <1>2, <2>2, <3>1, <3>2, HeaderStep
    <3> HIDE DEF r
    <3>4. TypeOK'
      BY <1>1, <2>1, <2>4, <3>1, <3>3 DEF TypeOK
    <3>5. Placed(sent', stream', got', reader')
      BY <2>1, <3>1, <3>3, NullAssumption DEF Placed
    <3> QED
      BY <1>3, <2>3, <3>4, <3>5
  <2> QED
    BY <2>5, <2>6
<1>6. CASE ReadPayload
  <2>1. Reading /\ sent' = sent /\ got' = got /\ buf' = buf
    BY <1>6 DEF ReadPayload
  <2>2. reader \in Parts /\ InMessage(sent, stream, k, reader)
    BY <1>1, <1>2, <2>1 DEF Reading, Placed
  <2>3. Arrived(sent', got')
    BY <1>2, <2>1 DEF Arrived
  <2>4. PICK n \in 1 .. reader.want :
          /\ Receive(n)
          /\ reader' = [reader EXCEPT !.want = @ - n, !.payload = @ \o SubSeq(stream, 1, n)]
    BY <1>6 DEF ReadPayload
  <2>5. n \in 1 .. Len(stream) /\ stream' = SubSeq(stream, n + 1, Len(stream))
    BY <2>4 DEF Receive
  <2>6. reader' \in Parts /\ InMessage(sent, stream', k, reader')
    BY <1>1, <1>2, <2>2, <2>4, <2>5, PayloadStep
  <2>7. stream' \in Seq(Byte)
    <3>1. At(stream, stream, 0)
      BY <1>1 DEF At
    <3> QED
      BY <1>1, <2>5, <3>1, AtReceive
  <2>8. TypeOK'
    BY <1>1, <2>1, <2>6, <2>7 DEF TypeOK
  <2>9. Placed(sent', stream', got', reader')
    BY <2>1, <2>6, NullAssumption DEF Placed
  <2> QED
    BY <1>3, <2>3, <2>8, <2>9
<1>7. CASE ReturnMessage
  <2> DEFINE m == [id |-> reader.id, payload |-> reader.payload]
  <2>1. /\ Reading /\ reader.want = 0 /\ got' = Append(got, m) /\ reader' = NULL
        /\ sent' = sent /\ stream' = stream /\ buf' = buf
    BY <1>7 DEF ReturnMessage
  <2>2. reader \in Parts /\ InMessage(sent, stream, k, reader)
    BY <1>1, <1>2, <2>1 DEF Reading, Placed
  <2>3. k < Len(sent) /\ m = sent[k + 1] /\ Idle(sent, stream, k + 1)
    BY <1>1, <1>2, <2>1, <2>2, MessageStep
  <2>4. m \in AnyMessage
    BY <2>2 DEF Parts, AnyMessage
  <2> HIDE DEF m
  <2>5. /\ got' \in Seq(AnyMessage) /\ Len(got') = k + 1 /\ got'[k + 1] = m
        /\ \A i \in 1 .. k : got'[i] = got[i]
    BY <1>1, <2>1, <2>4
  <2>6. TypeOK'
    BY <1>1, <2>1, <2>5 DEF TypeOK
  <2>7. Arrived(sent', got')
    <3>1. k + 1 \in 0 .. Len(sent) /\ \A i \in 1 .. k + 1 : i = k + 1 \/ i \in 1 .. k
      BY <1>1, <1>2, <2>3
    <3>2. \A i \in 1 .. k + 1 : got'[i] = sent[i]
      BY <1>2, <2>3, <2>5, <3>1
    <3> QED
      BY <2>1, <2>5, <3>1, <3>2 DEF Arrived
  <2>8. Placed(sent', stream', got', reader')
    BY <2>1, <2>3, <2>5, NullAssumption DEF Placed
  <2> QED
    BY <1>3, <2>6, <2>7, <2>8
<1>8. CASE DecodeMessage
  <2>1. PICK m \in Messages : \E b \in Resized(encode_message(m), MsgLenBytes) :
          buf' = [of |-> m, bytes |-> b]
    BY <1>8 DEF DecodeMessage
  <2>2. PICK b \in Resized(encode_message(m), MsgLenBytes) : buf' = [of |-> m, bytes |-> b]
    BY <2>1
  <2>3. b \in Seq(Byte)
    BY MessageAndBack
  <2> QED
    BY <1>8, <2>2, <2>3, StreamUnchanged DEF DecodeMessage
<1>9. CASE DecodeHandshake
  <2>1. PICK h \in Hashes, id \in Hashes :
          \E b \in Resized(encode_handshake_msg(init_handshake_msg(h, id)), 0) :
            buf' = [of |-> init_handshake_msg(h, id), bytes |-> b]
    BY <1>9 DEF DecodeHandshake
  <2>2. PICK b \in Resized(encode_handshake_msg(init_handshake_msg(h, id)), 0) :
          buf' = [of |-> init_handshake_msg(h, id), bytes |-> b]
    BY <2>1
  <2>3. b \in Seq(Byte)
    BY HandshakeAndBack
  <2> QED
    BY <1>9, <2>2, <2>3, StreamUnchanged DEF DecodeHandshake
<1>10. CASE UNCHANGED vars
  BY <1>1, <1>10, StreamUnchanged DEF vars
<1> QED
  BY <1>4, <1>5, <1>6, <1>7, <1>8, <1>9, <1>10 DEF Next

\* The type invariant, the messages that were read and the place of the reader hold
\* together: big_endian.c, encode_message and read_message_from_conn, whatever the
\* parts in which the stream comes.
LEMMA InvHolds == Spec => []Inv
<1>1. Init => Inv
  BY InitInv
<1>2. Inv /\ [Next]_vars => Inv'
  BY StepInv
<1> QED
  BY <1>1, <1>2, PTL DEF Spec

\* TypeOK: what is read and decoded stays bytes, messages and parts of messages.
THEOREM TypeCorrect == Spec => []TypeOK
BY InvHolds, PTL DEF Inv

\* MessagesArrive: what read_message_from_conn returns are the messages that were
\* sent, in their order, and no byte of the stream is skipped or read twice, for every
\* size of an int and all numbers.
THEOREM MessagesArriveCorrect == Spec => []MessagesArrive
BY InvHolds, PTL DEF Inv

\* A number that comes back as one that was sent is that number.
LEMMA NumberIsTold ==
  ASSUME NEW i \in Numbers, NEW n \in Numbers, AndBack(n) = i
  PROVE  n = i
<1>1. i \in 0 .. IntRange - 1 /\ n \in 0 .. IntRange - 1 /\ IntRange \in Nat \ {0}
      /\ IntRange \div 2 \in Int
  BY CodecAssumption, RangesAreNumbers, HalfOfInt
<1>2. CASE n < IntRange \div 2
  BY <1>1, <1>2, LowerHalf
<1>3. CASE n >= IntRange \div 2
  <2>1. AndBack(n) \in IntRange .. LongRange - 1
    BY <1>1, <1>3, UpperHalf
  <2> QED
    BY <1>1, <2>1, RangesAreNumbers
<1> QED
  BY <1>1, <1>2, <1>3

\* BlocksAreTold: the two tests of download_piece accept a message only as the block
\* that it was sent as, although numbers of the upper half of an int come back as
\* others.
THEOREM BlocksAreToldCorrect == Spec => []BlocksAreTold
<1>1. Inv => BlocksAreTold
  <2> SUFFICES ASSUME Inv, NEW k \in DOMAIN got, NEW i \in Numbers, NEW o \in Numbers,
                      GotIndex(got[k]) = i, GotOffset(got[k]) = o
               PROVE  \E n \in Lengths : sent[k] = PieceMsg(i, o, n)
    BY DEF BlocksAreTold
  <2>1. got \in Seq(AnyMessage) /\ sent \in Seq(Messages) /\ Arrived(sent, got)
    BY InvMeans DEF Inv, TypeOK
  <2>2. k \in 1 .. Len(got) /\ k \in 1 .. Len(sent) /\ got[k] = sent[k]
    BY <2>1 DEF Arrived
  <2>3. sent[k] \in Messages
    BY <2>1, <2>2
  <2>4. PICK i2 \in Numbers, o2 \in Numbers, n \in Lengths : sent[k] = PieceMsg(i2, o2, n)
    BY <2>3 DEF Messages
  <2>5. AndBack(i2) = i /\ AndBack(o2) = o
    BY <2>2, <2>4, PieceMsgParts
  <2>6. i2 = i /\ o2 = o
    BY <2>5, NumberIsTold
  <2> QED
    BY <2>4, <2>6
<1> QED
  BY <1>1, InvHolds, PTL

\* A message is no handshake.
LEMMA MessagesAreNoHandshakes ==
  ASSUME NEW m \in Messages
  PROVE  ~IsHandshake(m)
<1>1. m \in [id : Byte, payload : Seq(Byte)]
  BY MessagesAreEncodable DEF Encodable, AnyMessage
<1>2. DOMAIN m = {"id", "payload"}
  BY <1>1
<1> QED
  BY <1>2 DEF IsHandshake

\* The buffer changes only when a decoder is given one.
LEMMA BufferSteps ==
  ASSUME [Next]_vars
  PROVE  DecodeMessage \/ DecodeHandshake \/ UNCHANGED <<buf, decoded>>
BY DEF Next, vars, Send, ReadHeader, ReadPayload, ReturnMessage

\* DecodedMessageIsRight: decode_message gives the message for exactly the bytes of
\* it, and nothing for any other buffer, nor for a length of the upper half of an int.
THEOREM DecodedMessageCorrect == Spec => []DecodedMessageIsRight
<1>1. Init => DecodedMessageIsRight
  BY DEF Init, DecodedMessageIsRight
<1>2. DecodedMessageIsRight /\ [Next]_vars => DecodedMessageIsRight'
  <2> SUFFICES ASSUME DecodedMessageIsRight, [Next]_vars PROVE DecodedMessageIsRight'
    OBVIOUS
  <2>1. CASE DecodeMessage
    <3>1. PICK m \in Messages : \E b \in Resized(encode_message(m), MsgLenBytes) :
            buf' = [of |-> m, bytes |-> b] /\ decoded' = decode_message(b)
      BY <2>1 DEF DecodeMessage
    <3>2. PICK b \in Resized(encode_message(m), MsgLenBytes) :
            buf' = [of |-> m, bytes |-> b] /\ decoded' = decode_message(b)
      BY <3>1
    <3>3. decode_message(b) =
            IF b = encode_message(m) /\ Len(m.payload) + MsgIdBytes < IntRange \div 2
            THEN m ELSE NULL
      BY MessageAndBack
    <3>4. buf'.of = m /\ buf'.bytes = b
      BY <3>2
    <3> QED
      BY <3>2, <3>3, <3>4 DEF DecodedMessageIsRight
  <2>2. CASE DecodeHandshake
    <3>1. PICK h \in Hashes, id \in Hashes :
            \E b \in Resized(encode_handshake_msg(init_handshake_msg(h, id)), 0) :
              buf' = [of |-> init_handshake_msg(h, id), bytes |-> b]
      BY <2>2 DEF DecodeHandshake
    <3>2. IsHandshake(buf'.of)
      BY <3>1 DEF IsHandshake, init_handshake_msg
    <3> QED
      BY <3>2 DEF DecodedMessageIsRight
  <2>3. CASE UNCHANGED <<buf, decoded>>
    BY <2>3 DEF DecodedMessageIsRight
  <2> QED
    BY <2>1, <2>2, <2>3, BufferSteps
<1> QED
  BY <1>1, <1>2, PTL DEF Spec

\* DecodedHandshakeIsRight: decode_handshake_msg gives the handshake for every buffer
\* that begins with it, and nothing for any part of one.
THEOREM DecodedHandshakeCorrect == Spec => []DecodedHandshakeIsRight
<1>1. Init => DecodedHandshakeIsRight
  BY DEF Init, DecodedHandshakeIsRight
<1>2. DecodedHandshakeIsRight /\ [Next]_vars => DecodedHandshakeIsRight'
  <2> SUFFICES ASSUME DecodedHandshakeIsRight, [Next]_vars PROVE DecodedHandshakeIsRight'
    OBVIOUS
  <2>1. CASE DecodeMessage
    <3>1. PICK m \in Messages : \E b \in Resized(encode_message(m), MsgLenBytes) :
            buf' = [of |-> m, bytes |-> b]
      BY <2>1 DEF DecodeMessage
    <3>2. ~IsHandshake(buf'.of)
      BY <3>1, MessagesAreNoHandshakes
    <3> QED
      BY <3>2 DEF DecodedHandshakeIsRight
  <2>2. CASE DecodeHandshake
    <3>1. PICK h \in Hashes, id \in Hashes :
            \E b \in Resized(encode_handshake_msg(init_handshake_msg(h, id)), 0) :
              /\ buf' = [of |-> init_handshake_msg(h, id), bytes |-> b]
              /\ decoded' = decode_handshake_msg(b)
      BY <2>2 DEF DecodeHandshake
    <3> DEFINE hm == init_handshake_msg(h, id)
    <3>2. PICK b \in Resized(encode_handshake_msg(hm), 0) :
            buf' = [of |-> hm, bytes |-> b] /\ decoded' = decode_handshake_msg(b)
      BY <3>1
    <3>3. decode_handshake_msg(b) = IF Len(b) >= Len(encode_handshake_msg(hm)) THEN hm ELSE NULL
      BY HandshakeAndBack
    <3>4. buf'.of = hm /\ buf'.bytes = b
      BY <3>2
    <3> HIDE DEF hm
    <3> QED
      BY <3>2, <3>3, <3>4 DEF DecodedHandshakeIsRight
  <2>3. CASE UNCHANGED <<buf, decoded>>
    BY <2>3 DEF DecodedHandshakeIsRight
  <2> QED
    BY <2>1, <2>2, <2>3, BufferSteps
<1> QED
  BY <1>1, <1>2, PTL DEF Spec
================================================================================
