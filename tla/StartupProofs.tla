------------------------------ MODULE StartupProofs ------------------------------
(***************************************************************************)
(* Theorems about Startup: whatever torrent, reply and heap, the scanner   *)
(* stays within the memory that it has, and the range that is hashed lies  *)
(* in it.                                                                  *)
(***************************************************************************)
EXTENDS Startup, DataLemmas

-------------------------------------------------------------------------------
(* Least and greatest members, and numbers.                                *)

LEMMA LeastIs ==
  ASSUME NEW S \in SUBSET Nat, S # {}
  PROVE  Min(S) \in S /\ \A y \in S : Min(S) <= y
<1>1. \E x \in S : \A y \in S : x <= y
  BY LeastNatural
<1> QED
  BY <1>1 DEF Min

LEMMA GreatestIs ==
  ASSUME NEW S \in SUBSET Nat, S # {}, NEW b \in Nat, \A y \in S : y <= b
  PROVE  Max(S) \in S /\ \A y \in S : Max(S) >= y
<1> DEFINE Bounds == {n \in Nat : \A y \in S : y <= n}
<1>1. PICK u \in Bounds : \A n \in Bounds : u <= n
  <2>1. b \in Bounds
    OBVIOUS
  <2> HIDE DEF Bounds
  <2>2. Bounds \in SUBSET Nat
    BY DEF Bounds
  <2> QED
    BY <2>1, <2>2, LeastNatural
<1>2. u \in S
  <2> SUFFICES ASSUME u \notin S PROVE FALSE
    OBVIOUS
  <2>1. \A y \in S : y \in Nat /\ y < u
    BY <1>1
  <2>2. u - 1 \in Bounds
    <3>1. u - 1 \in Nat
      <4>1. PICK y \in S : y \in Nat /\ y < u
        BY <2>1
      <4>2. u \in Nat
        BY <1>1
      <4> QED
        BY <4>1, <4>2
    <3>2. \A y \in S : y <= u - 1
      BY <1>1, <2>1
    <3> QED
      BY <3>1, <3>2
  <2> QED
    BY <1>1, <2>2
<1>3. \E x \in S : \A y \in S : x >= y
  BY <1>1, <1>2
<1> QED
  BY <1>3 DEF Max

LEMMA ValuesOfDigits ==
  ASSUME NEW c \in Digit
  PROVE  DigitValue[c] \in 0 .. 9
<1>1. DOMAIN Digits = 1 .. 10
  BY DEF Digits
<1>2. PICK x \in 1 .. 10 : Digits[x] = c
  BY <1>1 DEF Digit, Range
<1>3. x - 1 \in 0 .. 9 /\ (x - 1) + 1 = x
  OBVIOUS
<1>4. \E n \in 0 .. 9 : Digits[n + 1] = c
  BY <1>2, <1>3
<1>5. (CHOOSE n \in 0 .. 9 : Digits[n + 1] = c) \in 0 .. 9
  BY <1>4
<1> QED
  BY <1>5 DEF DigitValue

\* What strtol makes of digits is a natural number.
LEMMA NumberIsNatural ==
  ASSUME NEW s \in Seq(Digit)
  PROVE  Number(s) \in Nat
<1> DEFINE L == Len(s)
           Term(i) == IF i \in 1 .. L THEN DigitValue[s[i]] ELSE 0
           round == [n \in Nat |-> [v \in Nat |-> 10 * v + Term(n + 1)]]
<1>1. L \in Nat
  OBVIOUS
<1>2. ASSUME NEW i \in Nat PROVE Term(i) \in Nat
  <2>1. CASE i \in 1 .. L
    <3>1. s[i] \in Digit
      BY <2>1
    <3>2. DigitValue[s[i]] \in 0 .. 9
      BY <3>1, ValuesOfDigits
    <3> QED
      BY <2>1, <3>2
  <2> QED
    BY <2>1
<1> HIDE DEF Term
<1>3. PICK f : AreValues(f, 0, round, Nat)
  <2>1. ASSUME NEW n \in Nat, NEW v \in Nat PROVE 10 * v + Term(n + 1) \in Nat
    BY <1>2
  <2>2. IsBody(round, Nat)
    BY <2>1 DEF IsBody
  <2> HIDE DEF round
  <2> QED
    BY <2>2, Recursion
<1> DEFINE g == [i \in 0 .. L |-> f[i]]
<1>4. g \in [0 .. L -> Nat] /\ g[0] = 0
  BY <1>1, <1>3 DEF AreValues
<1>5. ASSUME NEW i \in 1 .. L PROVE g[i] = 10 * g[i - 1] + DigitValue[s[i]]
  <2>1. i - 1 \in Nat /\ (i - 1) + 1 = i
    BY <1>1
  <2>2. f[i] = round[i - 1][f[i - 1]] /\ f[i - 1] \in Nat
    BY <1>3, <2>1 DEF AreValues
  <2>3. f[i] = 10 * f[i - 1] + Term(i)
    BY <2>1, <2>2
  <2>4. g[i] = f[i] /\ g[i - 1] = f[i - 1]
    BY <1>1
  <2> QED
    BY <2>3, <2>4 DEF Term
<1> DEFINE IsNumber(h) ==
      h = [k \in 0 .. Len(s) |-> IF k = 0 THEN 0 ELSE 10 * h[k - 1] + DigitValue[s[k]]]
           c == CHOOSE h : IsNumber(h)
<1>6. IsNumber(g)
  <2>1. ASSUME NEW i \in 0 .. L
        PROVE  g[i] = IF i = 0 THEN 0 ELSE 10 * g[i - 1] + DigitValue[s[i]]
    <3> HIDE DEF g
    <3>1. i = 0 \/ i \in 1 .. L
      BY <1>1
    <3> QED
      BY <1>4, <1>5, <3>1
  <2>2. g = [i \in 0 .. L |-> g[i]]
    OBVIOUS
  <2> HIDE DEF g
  <2> QED
    BY <2>1, <2>2
<1>7. IsNumber(c) /\ Number(s) = c[L]
  <2>1. IsNumber(c)
    <3> HIDE DEF IsNumber
    <3> QED
      BY <1>6
  <2> QED
    BY <2>1 DEF Number
<1> HIDE DEF c
<1>8. c[0] = 0 /\ \A i \in 1 .. L : c[i] = 10 * c[i - 1] + DigitValue[s[i]]
  BY <1>1, <1>7
<1> DEFINE Typed == {j \in Nat : j <= L => c[j] \in Nat}
<1>9. 0 \in Typed
  BY <1>8
<1>10. ASSUME NEW j \in Nat, j \in Typed PROVE j + 1 \in Typed
  <2> SUFFICES ASSUME j + 1 <= L PROVE c[j + 1] \in Nat
    OBVIOUS
  <2>1. c[j] \in Nat /\ j + 1 \in 1 .. L /\ (j + 1) - 1 = j
    BY <1>1, <1>10
  <2>2. c[j + 1] = 10 * c[j] + Term(j + 1)
    BY <1>8, <2>1 DEF Term
  <2>3. Term(j + 1) \in Nat
    BY <1>2
  <2> QED
    BY <2>1, <2>2, <2>3
<1> HIDE DEF Typed
<1>11. L \in Typed
  BY <1>1, <1>9, <1>10, Induction
<1> QED
  BY <1>1, <1>7, <1>11 DEF Typed

\* Symbols that are digits, as a sequence of digits.
LEMMA DigitsOfSlice ==
  ASSUME NEW s \in Seq(Symbol), NEW m \in Nat \ {0}, NEW n \in Nat, n <= Len(s), m <= n + 1,
         \A j \in m .. n : s[j] \in Digit
  PROVE  SubSeq(s, m, n) \in Seq(Digit)
<1>1. CASE m <= n
  BY <1>1, SubSeqProperties
<1>2. CASE m = n + 1
  BY <1>2, SubSeqProperties
<1> QED
  BY <1>1, <1>2

LEMMA StrtolIsNumber ==
  ASSUME NEW s \in Seq(Symbol)
  PROVE  Strtol(s) \in Int
<1> DEFINE minus == s # <<>> /\ s[1] = "-"
           first == IF minus THEN 2 ELSE 1
           places == {k \in first - 1 .. Len(s) : \A j \in first .. k : s[j] \in Digit}
           last  == Max(places)
           n     == Number(SubSeq(s, first, last))
<1>1. Len(s) \in Nat /\ first \in {1, 2} /\ first - 1 <= Len(s)
  OBVIOUS
<1>2. Strtol(s) = IF minus THEN -n ELSE n
  BY DEF Strtol
<1> HIDE DEF minus, first
<1>3. first - 1 \in places
  BY <1>1
<1>4. places \in SUBSET Nat /\ \A y \in places : y <= Len(s)
  BY <1>1
<1>5. last \in places
  <2> HIDE DEF places
  <2> QED
    BY <1>1, <1>3, <1>4, GreatestIs
<1> HIDE DEF last
<1>6. /\ last \in Nat /\ first \in Nat \ {0} /\ last <= Len(s) /\ first <= last + 1
      /\ \A j \in first .. last : s[j] \in Digit
  BY <1>1, <1>5
<1>7. SubSeq(s, first, last) \in Seq(Digit)
  BY <1>6, DigitsOfSlice
<1>8. n \in Nat
  BY <1>7, NumberIsNatural
<1> HIDE DEF n
<1> QED
  BY <1>2, <1>8
-------------------------------------------------------------------------------
(* The scanner.                                                            *)

LEMMA AfterIs ==
  ASSUME NEW p \in Nat, NEW limit \in Nat, p <= limit, NEW S
  PROVE  LET q == After(p, S, limit)
         IN  /\ q \in p .. limit /\ (q = limit \/ mem[q] \notin S)
             /\ \A j \in p .. q - 1 : mem[j] \in S
<1> DEFINE places == {q \in p .. limit : q = limit \/ mem[q] \notin S}
           first  == Min(places)
<1>1. limit \in places /\ places \in SUBSET Nat
  OBVIOUS
<1>2. first \in places /\ \A y \in places : first <= y
  <2> HIDE DEF places
  <2> QED
    BY <1>1, LeastIs
<1>3. After(p, S, limit) = first
  BY DEF After
<1> HIDE DEF first
<1>4. ASSUME NEW j \in p .. first - 1 PROVE mem[j] \in S
  <2>1. first \in p .. limit
    BY <1>2
  <2>2. j \in p .. limit /\ ~(first <= j) /\ j # limit
    BY <2>1
  <2>3. j \notin places
    BY <1>2, <2>2
  <2> QED
    BY <2>2, <2>3
<1> QED
  BY <1>2, <1>3, <1>4

\* A step of the scanner that leaves its state typed and never goes back; an end
\* is behind the token before it.
Moves == /\ TokenizerTypeOK' /\ current <= current'
         /\ token' = <<"e">> => current < current'

LEMMA PlacesAre ==
  ASSUME TokenizerTypeOK
  PROVE  /\ Len(mem) \in Nat /\ EndOfMem = Len(mem) + 1 /\ EndOfMem \in Nat /\ mem \in Seq(Symbol)
         /\ data_size \in 0 .. Len(mem) /\ EndOfData = data_size + 1
         /\ EndOfData \in 1 .. EndOfMem /\ current \in 1 .. EndOfMem
         /\ str_len \in Nat /\ list_dict_stack \in Int
<1>1. mem \in Seq(Symbol) /\ data_size \in 0 .. Len(mem) /\ current \in 1 .. Len(mem) + 1
  BY DEF TokenizerTypeOK, EndOfMem
<1>2. Len(mem) \in Nat
  BY <1>1
<1>3. str_len \in Nat /\ list_dict_stack \in Int
  BY DEF TokenizerTypeOK
<1> QED
  BY <1>1, <1>2, <1>3 DEF EndOfMem, EndOfData

LEMMA EmitMoves ==
  ASSUME TokenizerTypeOK, UNCHANGED <<mem, data_size>>,
         NEW from \in Nat, NEW to \in Nat,
         current <= from, from <= to, to <= EndOfMem,
         NEW st \in {"start", "int_parse", "int_end"}, st = "int_end" => to < EndOfMem,
         Emit(from, to, st), str_len' \in Nat, list_dict_stack' \in Int
  PROVE  Moves
<1>1. /\ Len(mem) \in Nat /\ EndOfMem = Len(mem) + 1 /\ mem \in Seq(Symbol)
      /\ data_size \in 0 .. Len(mem) /\ current \in 1 .. EndOfMem
  BY PlacesAre
<1>2. token' = SubSeq(mem, from, to - 1) /\ current' = to /\ status' = st /\ err' = "OK"
  BY DEF Emit
<1>3. from \in Nat \ {0} /\ to - 1 \in Nat /\ to - 1 <= Len(mem) /\ from <= (to - 1) + 1
  BY <1>1
<1>4. token' \in Seq(Symbol) /\ Len(token') = ((to - 1) + 1) - from
  BY <1>1, <1>2, <1>3, SliceAt
<1>5. Len(token') <= Len(mem) /\ Len(token') = to - from
  BY <1>1, <1>3, <1>4
<1>6. EndOfMem' = EndOfMem /\ mem' = mem /\ data_size' = data_size
  BY DEF EndOfMem
<1>7. current' \in 1 .. EndOfMem' /\ current <= current'
  BY <1>1, <1>2, <1>3, <1>6
<1>8. token' = <<"e">> => current < current'
  <2> SUFFICES ASSUME token' = <<"e">> PROVE current < current'
    OBVIOUS
  <2>1. Len(token') = 1
    OBVIOUS
  <2>2. from < to
    BY <1>5, <2>1
  <2> QED
    BY <1>1, <1>2, <2>2
<1>9. /\ err' = "OK" <=> status' \notin {"error", "end", "crash"}
      /\ status' \in {"start", "int_parse", "int_end", "str_parse", "error", "end", "crash"}
      /\ err' \in {"OK", "END", "MALFORMED", "CRASH"}
      /\ status' = "int_end" => current' < EndOfMem'
  BY <1>2, <1>6
<1>10. TokenizerTypeOK'
  BY <1>1, <1>4, <1>5, <1>6, <1>7, <1>9 DEF TokenizerTypeOK
<1> QED
  BY <1>7, <1>8, <1>10 DEF Moves

LEMMA StopMoves ==
  ASSUME TokenizerTypeOK, UNCHANGED <<mem, data_size>>,
         NEW p \in Nat, current <= p, p <= EndOfMem, NEW st, NEW code,
         \/ st = "error" /\ code = "MALFORMED"
         \/ st = "end" /\ code = "END"
         \/ st = "crash" /\ code = "CRASH",
         Stop(p, st, code)
  PROVE  Moves
<1>1. /\ Len(mem) \in Nat /\ EndOfMem = Len(mem) + 1 /\ mem \in Seq(Symbol)
      /\ data_size \in 0 .. Len(mem) /\ current \in 1 .. EndOfMem
      /\ str_len \in Nat /\ list_dict_stack \in Int
  BY PlacesAre
<1>2. /\ token' = <<>> /\ current' = p /\ status' = st /\ err' = code
      /\ str_len' = str_len /\ list_dict_stack' = list_dict_stack
  BY DEF Stop
<1>3. token' \in Seq(Symbol) /\ Len(token') <= Len(mem) /\ token' # <<"e">>
  BY <1>1, <1>2
<1>4. EndOfMem' = EndOfMem /\ mem' = mem /\ data_size' = data_size
  BY DEF EndOfMem
<1>5. current' \in 1 .. EndOfMem' /\ current <= current'
  BY <1>1, <1>2, <1>4
<1>6. /\ err' = "OK" <=> status' \notin {"error", "end", "crash"}
      /\ status' \in {"start", "int_parse", "int_end", "str_parse", "error", "end", "crash"}
      /\ err' \in {"OK", "END", "MALFORMED", "CRASH"}
      /\ status' # "int_end"
  BY <1>2
<1>7. TokenizerTypeOK'
  BY <1>1, <1>2, <1>3, <1>4, <1>5, <1>6 DEF TokenizerTypeOK
<1> QED
  BY <1>3, <1>5, <1>7 DEF Moves

LEMMA CrashMoves ==
  ASSUME TokenizerTypeOK, UNCHANGED <<mem, data_size>>, Crash
  PROVE  Moves
<1>1. current \in Nat /\ current <= current /\ current <= EndOfMem
  BY PlacesAre
<1>2. Stop(current, "crash", "CRASH")
  BY DEF Crash
<1> QED
  BY <1>1, <1>2, StopMoves

LEMMA MalformedMoves ==
  ASSUME TokenizerTypeOK, UNCHANGED <<mem, data_size>>,
         NEW p \in Nat, current <= p, p <= EndOfMem, Malformed(p)
  PROVE  Moves
BY StopMoves DEF Malformed

LEMMA OneSymbol ==
  ASSUME NEW S, NEW x \in S
  PROVE  <<x>> \in Seq(S) /\ Len(<<x>>) = 1
OBVIOUS

\* The length of a string, whichever way its digits end.
LEMMA StrStartMoves ==
  ASSUME TokenizerTypeOK, UNCHANGED <<mem, data_size>>,
         NEW p \in Nat, current <= p, p < EndOfMem, StrStart(p)
  PROVE  Moves
<1> DEFINE q == After(p, Digit, EndOfMem)
<1>1. /\ Len(mem) \in Nat /\ EndOfMem = Len(mem) + 1 /\ EndOfMem \in Nat /\ mem \in Seq(Symbol)
      /\ data_size \in 0 .. Len(mem) /\ current \in 1 .. EndOfMem
      /\ str_len \in Nat /\ list_dict_stack \in Int
  BY PlacesAre
<1>2. q \in p .. EndOfMem /\ \A j \in p .. q - 1 : mem[j] \in Digit
  BY <1>1, AfterIs
<1>3. \/ q = EndOfMem /\ Crash
      \/ /\ q # EndOfMem /\ str_len' = Number(SubSeq(mem, p, q - 1))
         /\ \/ current' = q /\ token' = <<>> /\ status' = "error" /\ err' = "MALFORMED"
            \/ current' = q + 1 /\ token' = <<"s">> /\ status' = "str_parse" /\ err' = "OK"
         /\ list_dict_stack' = list_dict_stack
  BY DEF StrStart
<1> HIDE DEF q
<1>4. CASE q = EndOfMem /\ Crash
  BY <1>4, CrashMoves
<1>5. CASE /\ q # EndOfMem /\ str_len' = Number(SubSeq(mem, p, q - 1))
           /\ \/ current' = q /\ token' = <<>> /\ status' = "error" /\ err' = "MALFORMED"
              \/ current' = q + 1 /\ token' = <<"s">> /\ status' = "str_parse" /\ err' = "OK"
           /\ list_dict_stack' = list_dict_stack
  <2>1. p \in Nat \ {0} /\ q \in Nat /\ q - 1 \in Nat /\ q - 1 <= Len(mem) /\ p <= (q - 1) + 1
    BY <1>1, <1>2, <1>5
  <2>2. SubSeq(mem, p, q - 1) \in Seq(Digit)
    BY <1>1, <1>2, <2>1, DigitsOfSlice
  <2>3. str_len' \in Nat /\ list_dict_stack' \in Int
    BY <1>1, <1>5, <2>2, NumberIsNatural
  <2>4. EndOfMem' = EndOfMem /\ mem' = mem /\ data_size' = data_size
    BY DEF EndOfMem
  <2>5. q < EndOfMem /\ current <= q
    BY <1>1, <1>2, <1>5
  <2>6. current' \in 1 .. EndOfMem' /\ current <= current'
    BY <1>1, <1>5, <2>1, <2>4, <2>5
  <2>7. token' \in Seq(Symbol) /\ Len(token') \in {0, 1} /\ token' # <<"e">>
    <3>1. CASE token' = <<>>
      BY <3>1
    <3>2. CASE token' = <<"s">>
      <4>1. token' # <<"e">>
        <5>1. token'[1] = "s"
          BY <3>2
        <5> QED
          BY <5>1
      <4>2. "s" \in Symbol
        BY SymbolAssumption
      <4>3. token' \in Seq(Symbol) /\ Len(token') = 1
        BY <3>2, <4>2, OneSymbol
      <4> QED
        BY <4>1, <4>3
    <3> QED
      BY <1>5, <3>1, <3>2
  <2>8. Len(token') <= Len(mem)
    BY <1>1, <2>7
  <2>9. /\ err' = "OK" <=> status' \notin {"error", "end", "crash"}
        /\ status' \in {"start", "int_parse", "int_end", "str_parse", "error", "end", "crash"}
        /\ err' \in {"OK", "END", "MALFORMED", "CRASH"}
        /\ status' # "int_end"
    BY <1>5
  <2>10. TokenizerTypeOK'
    BY <1>1, <2>3, <2>4, <2>6, <2>7, <2>8, <2>9 DEF TokenizerTypeOK
  <2> QED
    BY <2>6, <2>7, <2>10 DEF Moves
<1> QED
  BY <1>3, <1>4, <1>5

LEMMA StartMoves ==
  ASSUME TokenizerTypeOK, UNCHANGED <<mem, data_size>>, Start
  PROVE  Moves
<1> DEFINE limit == IF current <= EndOfData THEN EndOfData ELSE EndOfMem
           p     == After(current, Space, limit)
<1>1. /\ EndOfMem \in Nat /\ EndOfData \in 1 .. EndOfMem /\ current \in 1 .. EndOfMem
      /\ str_len \in Nat /\ list_dict_stack \in Int
  BY PlacesAre
<1>2. limit \in Nat /\ current \in Nat /\ current <= limit /\ limit <= EndOfMem
  BY <1>1
<1>3. p \in current .. limit
  BY <1>2, AfterIs
<1>4. \/ End(p)
      \/ p = EndOfMem /\ Crash
      \/ /\ p \notin {EndOfData, EndOfMem}
         /\ \/ IntStart(p) \/ StrStart(p) \/ ListDictStart(p) \/ ListDictEnd(p)
            \/ Malformed(p)
  BY DEF Start
<1> HIDE DEF p
<1>5. p \in Nat /\ current <= p /\ p <= EndOfMem
  <2> HIDE DEF limit
  <2> QED
    BY <1>1, <1>2, <1>3
<1> HIDE DEF limit
<1>6. CASE End(p)
  <2>1. Malformed(p) \/ Stop(p, "end", "END")
    BY <1>6 DEF End
  <2> QED
    BY <1>5, <2>1, MalformedMoves, StopMoves
<1>7. CASE Crash
  BY <1>7, CrashMoves
<1>8. ASSUME p \notin {EndOfData, EndOfMem}
      PROVE  p < EndOfMem /\ p + 1 \in Nat /\ p <= p + 1 /\ p + 1 <= EndOfMem
  BY <1>1, <1>5, <1>8
<1>9. CASE p \notin {EndOfData, EndOfMem} /\ IntStart(p)
  <2>1. Emit(p, p + 1, "int_parse") /\ str_len' \in Nat /\ list_dict_stack' \in Int
    BY <1>1, <1>9 DEF IntStart
  <2> QED
    BY <1>5, <1>8, <1>9, <2>1, EmitMoves
<1>10. CASE p \notin {EndOfData, EndOfMem} /\ StrStart(p)
  BY <1>5, <1>8, <1>10, StrStartMoves
<1>11. CASE p \notin {EndOfData, EndOfMem} /\ ListDictStart(p)
  <2>1. Emit(p, p + 1, "start") /\ str_len' = str_len /\ list_dict_stack' = list_dict_stack + 1
    BY <1>11 DEF ListDictStart
  <2>2. str_len' \in Nat /\ list_dict_stack' \in Int
    BY <1>1, <2>1
  <2> QED
    BY <1>5, <1>8, <1>11, <2>1, <2>2, EmitMoves
<1>12. CASE p \notin {EndOfData, EndOfMem} /\ ListDictEnd(p)
  <2>1. Emit(p, p + 1, "start") /\ str_len' = str_len /\ list_dict_stack' = list_dict_stack - 1
    BY <1>12 DEF ListDictEnd
  <2>2. str_len' \in Nat /\ list_dict_stack' \in Int
    BY <1>1, <2>1
  <2> QED
    BY <1>5, <1>8, <1>12, <2>1, <2>2, EmitMoves
<1>13. CASE Malformed(p)
  BY <1>5, <1>13, MalformedMoves
<1> QED
  BY <1>4, <1>6, <1>7, <1>9, <1>10, <1>11, <1>12, <1>13

LEMMA IntParseMoves ==
  ASSUME TokenizerTypeOK, UNCHANGED <<mem, data_size>>, IntParse
  PROVE  Moves
<1> DEFINE p == IF current < EndOfMem /\ mem[current] = "-" THEN current + 1 ELSE current
           q == After(p, Digit, EndOfMem)
<1>1. /\ EndOfMem \in Nat /\ current \in 1 .. EndOfMem
      /\ str_len \in Nat /\ list_dict_stack \in Int
  BY PlacesAre
<1>2. \/ Crash
      \/ q # EndOfMem /\ Emit(current, q, "int_end") /\ UNCHANGED <<str_len, list_dict_stack>>
  BY DEF IntParse
<1>3. p \in Nat /\ current <= p /\ p <= EndOfMem
  BY <1>1
<1> HIDE DEF p
<1>4. q \in p .. EndOfMem
  BY <1>1, <1>3, AfterIs
<1> HIDE DEF q
<1>5. CASE Crash
  BY <1>5, CrashMoves
<1>6. CASE q # EndOfMem /\ Emit(current, q, "int_end") /\ UNCHANGED <<str_len, list_dict_stack>>
  <2>1. /\ current \in Nat /\ q \in Nat /\ current <= current /\ current <= q /\ q <= EndOfMem
        /\ q < EndOfMem
    BY <1>1, <1>3, <1>4, <1>6
  <2>2. str_len' \in Nat /\ list_dict_stack' \in Int
    BY <1>1, <1>6
  <2> QED
    BY <1>6, <2>1, <2>2, EmitMoves
<1> QED
  BY <1>2, <1>5, <1>6

LEMMA IntEndMoves ==
  ASSUME TokenizerTypeOK, UNCHANGED <<mem, data_size>>, IntEnd
  PROVE  Moves
<1>1. /\ EndOfMem \in Nat /\ current \in 1 .. EndOfMem
      /\ str_len \in Nat /\ list_dict_stack \in Int
  BY PlacesAre
<1>2. current < EndOfMem
  BY DEF TokenizerTypeOK, IntEnd
<1>3. /\ current \in Nat /\ current + 1 \in Nat /\ current <= current
      /\ current <= current + 1 /\ current + 1 <= EndOfMem /\ current <= EndOfMem
  BY <1>1, <1>2
<1>4. \/ Malformed(current)
      \/ Emit(current, current + 1, "start") /\ UNCHANGED <<str_len, list_dict_stack>>
  BY DEF IntEnd
<1>5. CASE Malformed(current)
  BY <1>3, <1>5, MalformedMoves
<1>6. CASE Emit(current, current + 1, "start") /\ UNCHANGED <<str_len, list_dict_stack>>
  <2>1. str_len' \in Nat /\ list_dict_stack' \in Int
    BY <1>1, <1>6
  <2> QED
    BY <1>3, <1>6, <2>1, EmitMoves
<1> QED
  BY <1>4, <1>5, <1>6

LEMMA StrParseMoves ==
  ASSUME TokenizerTypeOK, UNCHANGED <<mem, data_size>>, StrParse
  PROVE  Moves
<1>1. /\ EndOfMem \in Nat /\ current \in 1 .. EndOfMem
      /\ str_len \in Nat /\ list_dict_stack \in Int
  BY PlacesAre
<1>2. \/ Crash
      \/ /\ current + str_len <= EndOfMem
         /\ Emit(current, current + str_len, "start")
         /\ UNCHANGED <<str_len, list_dict_stack>>
  BY DEF StrParse
<1>3. CASE Crash
  BY <1>3, CrashMoves
<1>4. CASE /\ current + str_len <= EndOfMem
           /\ Emit(current, current + str_len, "start")
           /\ UNCHANGED <<str_len, list_dict_stack>>
  <2>1. /\ current \in Nat /\ current + str_len \in Nat /\ current <= current
        /\ current <= current + str_len
    BY <1>1
  <2>2. str_len' \in Nat /\ list_dict_stack' \in Int
    BY <1>1, <1>4
  <2> QED
    BY <1>4, <2>1, <2>2, EmitMoves
<1> QED
  BY <1>2, <1>3, <1>4

\* Every call of next() leaves the scanner in its memory.
LEMMA NextTokenMoves ==
  ASSUME TokenizerTypeOK, NextToken
  PROVE  Moves /\ mem' = mem /\ data_size' = data_size
<1>1. UNCHANGED <<mem, data_size>>
  BY DEF NextToken
<1>2. Start \/ IntParse \/ IntEnd \/ StrParse \/ Malformed(current)
  BY DEF NextToken
<1>3. CASE Malformed(current)
  <2>1. current \in Nat /\ current <= current /\ current <= EndOfMem
    BY PlacesAre
  <2> QED
    BY <1>1, <1>3, <2>1, MalformedMoves
<1> QED
  BY <1>1, <1>2, <1>3, StartMoves, IntParseMoves, IntEndMoves, StrParseMoves
-------------------------------------------------------------------------------
(* What is cut out of a token.                                             *)

\* Slots of m symbols each that fit into L symbols.
LEMMA SlotFits ==
  ASSUME NEW L \in Nat, NEW m \in Nat \ {0}, NEW i \in 1 .. (L \div m)
  PROVE  m * (i - 1) \in Nat /\ m * i \in Nat /\ m * i = m * (i - 1) + m /\ m * i <= L
<1> DEFINE q == L \div m
<1>1. q \in Nat /\ L = q * m + (L % m) /\ (L % m) \in 0 .. m - 1
  BY Division
<1> HIDE DEF q
<1>2. i \in Nat \ {0} /\ i - 1 \in Nat /\ q - i \in Nat
  BY <1>1 DEF q
<1>3. m * (i - 1) \in Nat /\ m * i \in Nat /\ m * (q - i) \in Nat
  BY <1>2
<1>4. m * i = m * (i - 1) + m
  BY <1>2
<1>5. q * m = m * i + m * (q - i)
  BY <1>1, <1>2
<1>6. q * m <= L
  <2>1. q * m \in Nat
    BY <1>1
  <2> QED
    BY <1>1, <2>1
<1>7. m * i <= L
  BY <1>3, <1>5, <1>6
<1> QED
  BY <1>3, <1>4, <1>7

LEMMA HashesTyped ==
  ASSUME NEW blob \in Seq(Symbol)
  PROVE  Hashes(blob) \in Seq(Seq(Symbol)) /\ Len(blob) \div HashLength \in Nat
<1> DEFINE n == Len(blob) \div HashLength
           slot(i) == SubSeq(blob, HashLength * (i - 1) + 1, HashLength * i)
<1>1. Len(blob) \in Nat /\ HashLength \in Nat \ {0}
  BY StartupAssumption
<1>2. n \in Nat
  BY <1>1, Division
<1>3. ASSUME NEW i \in 1 .. n
      PROVE  slot(i) \in Seq(Symbol)
  <2> DEFINE from == HashLength * (i - 1)
             to   == HashLength * i
  <2>1. from \in Nat /\ to \in Nat /\ to = from + HashLength /\ to <= Len(blob)
    BY <1>1, SlotFits
  <2> HIDE DEF from, to
  <2>2. from + 1 \in Nat \ {0} /\ from + 1 <= to + 1
    BY <1>1, <2>1
  <2>3. SubSeq(blob, from + 1, to) \in Seq(Symbol)
    BY <2>1, <2>2, SliceAt
  <2> QED
    BY <2>3 DEF from, to
<1>4. Hashes(blob) = [i \in 1 .. n |-> slot(i)]
  BY DEF Hashes
<1>5. n = Len(blob) \div HashLength
  OBVIOUS
<1> HIDE DEF n, slot
<1>6. Hashes(blob) \in Seq(Seq(Symbol))
  BY <1>2, <1>3, <1>4
<1> QED
  BY <1>2, <1>5, <1>6

LEMMA PeersTyped ==
  ASSUME NEW blob \in Seq(Symbol)
  PROVE  PeersOf(blob) \in Seq([address : Seq(Symbol), port : Int])
<1> DEFINE n == Len(blob) \div PeerSize
           peer(i) == [address |-> SubSeq(blob, PeerSize * (i - 1) + 1, PeerSize * (i - 1) + AddrSize),
                       port    |-> Strtol(SubSeq(blob, PeerSize * (i - 1) + AddrSize + 1, PeerSize * i))]
<1>1. /\ Len(blob) \in Nat /\ PeerSize \in Nat \ {0} /\ AddrSize \in Nat \ {0} /\ PortSize \in Nat \ {0}
      /\ PeerSize = AddrSize + PortSize
  BY StartupAssumption DEF PeerSize
<1>2. n \in Nat
  BY <1>1, Division
<1>3. ASSUME NEW i \in 1 .. n
      PROVE  peer(i) \in [address : Seq(Symbol), port : Int]
  <2> DEFINE from == PeerSize * (i - 1)
             to   == PeerSize * i
  <2>1. from \in Nat /\ to \in Nat /\ to = from + PeerSize /\ to <= Len(blob)
    BY <1>1, SlotFits
  <2> DEFINE address == SubSeq(blob, from + 1, from + AddrSize)
             digits  == SubSeq(blob, from + AddrSize + 1, to)
  <2> HIDE DEF from, to
  <2>2. /\ from + 1 \in Nat \ {0} /\ from + AddrSize \in Nat
        /\ from + AddrSize <= Len(blob) /\ from + 1 <= (from + AddrSize) + 1
    BY <1>1, <2>1
  <2>3. from + AddrSize + 1 \in Nat \ {0} /\ from + AddrSize + 1 <= to + 1
    BY <1>1, <2>1
  <2>4. address \in Seq(Symbol)
    BY <2>2, SliceAt
  <2>5. digits \in Seq(Symbol)
    BY <2>1, <2>3, SliceAt
  <2> HIDE DEF address, digits
  <2>6. Strtol(digits) \in Int
    BY <2>5, StrtolIsNumber
  <2>7. peer(i) = [address |-> address, port |-> Strtol(digits)]
    BY DEF address, digits, from, to
  <2> QED
    BY <2>4, <2>6, <2>7
<1>4. PeersOf(blob) = [i \in 1 .. n |-> peer(i)]
  BY DEF PeersOf
<1> HIDE DEF n, peer
<1> QED
  BY <1>2, <1>3, <1>4

-------------------------------------------------------------------------------
(* Type correctness.                                                       *)

LEMMA ContentsTyped ==
  ASSUME TypeOK, file # NULL
  PROVE  Contents \in Seq(Symbol) /\ Size \in 0 .. Len(Contents)
<1> DEFINE bytes == file.torrent.bytes
           n     == file.size
           tail  == file.tail
<1>1. bytes \in Seq(Symbol) /\ tail \in Seq(Symbol) /\ n \in 0 .. Len(bytes)
  BY StartupAssumption DEF TypeOK
<1>2. Contents = SubSeq(bytes, 1, n) \o tail /\ Size = n
  BY DEF Contents, Size
<1> HIDE DEF bytes, n, tail
<1>3. 1 \in Nat \ {0} /\ n \in Nat /\ n <= Len(bytes) /\ 1 <= n + 1
  BY <1>1
<1>4. SubSeq(bytes, 1, n) \in Seq(Symbol) /\ Len(SubSeq(bytes, 1, n)) = (n + 1) - 1
  BY <1>1, <1>3, SliceAt
<1>5. /\ SubSeq(bytes, 1, n) \o tail \in Seq(Symbol)
      /\ Len(SubSeq(bytes, 1, n) \o tail) = Len(SubSeq(bytes, 1, n)) + Len(tail)
  BY <1>1, <1>4, ConcatProperties
<1>6. Len(tail) \in Nat
  BY <1>1
<1> QED
  BY <1>2, <1>3, <1>4, <1>5, <1>6

LEMMA FreshTokenizer ==
  ASSUME NEW data \in Seq(Symbol), NEW size \in 0 .. Len(data), InitTokenizer(data, size)
  PROVE  TokenizerTypeOK'
<1>1. /\ mem' = data /\ data_size' = size /\ current' = 1 /\ token' = <<>> /\ status' = "start"
      /\ str_len' = 0 /\ list_dict_stack' = 0 /\ err' = "OK"
  BY DEF InitTokenizer
<1>2. Len(data) \in Nat
  OBVIOUS
<1>3. current' \in 1 .. EndOfMem'
  BY <1>1, <1>2 DEF EndOfMem
<1>4. token' \in Seq(Symbol) /\ Len(token') <= Len(mem')
  BY <1>1, <1>2
<1> QED
  BY <1>1, <1>3, <1>4 DEF TokenizerTypeOK

\* The process ends, outside next().
LEMMA CrashTyped ==
  ASSUME TokenizerTypeOK, status' = "crash", err' = "CRASH",
         UNCHANGED <<mem, data_size, current, token, str_len, list_dict_stack>>
  PROVE  TokenizerTypeOK'
BY DEF TokenizerTypeOK, EndOfMem

Goals == {"open", "key", "info", "after_info", "marker", "value", "end"}

\* What a step of the parser has to establish.
ParserTyped == /\ goal \in Goals /\ key \in Keys \cup {NULL} /\ tf \in TorrentRecord
               /\ parsed \in BOOLEAN \cup {NULL}

LEMMA TypesOfParser ==
  ASSUME TypeOK, TokenizerTypeOK', ParserTyped', HashRange',
         UNCHANGED <<trackerVars, main_pc, file, reply>>
  PROVE  TypeOK'
<1>1. UNCHANGED <<tr, step, body, response, chunks, contacted, main_pc, file>>
  BY DEF trackerVars
<1> QED
  BY <1>1 DEF TypeOK, ParserTyped, Goals

\* A step that goes on somewhere else, and finds no place for the hash.
LEMMA RangeStays ==
  ASSUME TypeOK, HashRange, current \in Nat, current' \in Nat, current <= current',
         UNCHANGED <<info_start, info_end>>, goal # "open" \/ info_start = NULL,
         goal' \notin {"open", "after_info"}
  PROVE  HashRange'
BY DEF HashRange

LEMMA OpenFileTyped ==
  ASSUME TypeOK, main_pc = "parse", OpenFile(Contents, Size)
  PROVE  TokenizerTypeOK' /\ ParserTyped' /\ HashRange'
<1>1. /\ goal = "open" /\ goal' \in {"end", "key"} /\ UNCHANGED parsed
      /\ UNCHANGED <<tf, key, info_start, info_end>>
      /\ \/ /\ status' = "crash" /\ err' = "CRASH"
            /\ UNCHANGED <<mem, data_size, current, token, str_len, list_dict_stack>>
         \/ Contents # NULL /\ InitTokenizer(Contents, Size)
  BY DEF OpenFile, Seek
<1>2. ParserTyped'
  BY <1>1 DEF TypeOK, ParserTyped, Goals
<1>3. HashRange'
  <2>1. info_start = NULL
    BY <1>1 DEF TypeOK, HashRange
  <2> QED
    BY <1>1, <2>1 DEF HashRange
<1>4. TokenizerTypeOK'
  <2>1. TokenizerTypeOK
    BY DEF TypeOK
  <2>2. CASE Contents # NULL /\ InitTokenizer(Contents, Size)
    <3>1. file # NULL
      BY <2>2 DEF Contents
    <3> QED
      BY <2>2, <3>1, ContentsTyped, FreshTokenizer
  <2> QED
    BY <1>1, <2>1, <2>2, CrashTyped
<1> QED
  BY <1>2, <1>3, <1>4

\* What every step of the parser that reads a token starts from and gets.
LEMMA TokenRead ==
  ASSUME TypeOK, main_pc = "parse", NEW g, Expect(g)
  PROVE  /\ TokenizerTypeOK' /\ mem' = mem /\ goal = g /\ HashRange
         /\ current \in Nat /\ current' \in Nat /\ current <= current'
         /\ token' = <<"e">> => current < current'
         /\ token' \in Seq(Symbol) /\ mem \in Seq(Symbol)
         /\ current' \in 1 .. Len(mem) + 1 /\ ParserTyped
<1>1. TokenizerTypeOK /\ HashRange /\ ParserTyped
  BY DEF TypeOK, ParserTyped, Goals
<1>2. goal = g /\ NextToken
  BY DEF Expect
<1>3. Moves /\ mem' = mem
  BY <1>1, <1>2, NextTokenMoves
<1>4. current \in Nat /\ mem \in Seq(Symbol)
  BY <1>1, PlacesAre
<1>5. token' \in Seq(Symbol) /\ current' \in 1 .. Len(mem) + 1
  BY <1>3 DEF Moves, TokenizerTypeOK, EndOfMem
<1>6. Len(mem) \in Nat
  BY <1>4
<1> QED
  BY <1>1, <1>2, <1>3, <1>4, <1>5, <1>6 DEF Moves

LEMMA PlaceBefore ==
  ASSUME NEW last \in Nat, NEW p \in Nat, NEW q \in Nat, NEW start \in Nat,
         1 <= start, start <= p, p < q, q <= last + 1
  PROVE  q - 1 \in start .. last /\ start \in 1 .. q
OBVIOUS

LEMMA NextKeyTyped ==
  ASSUME TypeOK, main_pc = "parse", NextKey
  PROVE  TokenizerTypeOK' /\ ParserTyped' /\ HashRange'
<1>1. Expect("key")
  BY DEF NextKey
<1>2. /\ TokenizerTypeOK' /\ mem' = mem /\ goal = "key" /\ HashRange
      /\ current \in Nat /\ current' \in Nat /\ current <= current'
      /\ token' = <<"e">> => current < current'
      /\ mem \in Seq(Symbol) /\ current' \in 1 .. Len(mem) + 1 /\ ParserTyped
  BY <1>1, TokenRead
<1>3. UNCHANGED tf
  BY DEF NextKey
<1>4. \/ /\ goal' = "end" /\ parsed' \in BOOLEAN \cup {parsed}
         /\ UNCHANGED <<key, info_start, info_end>>
      \/ /\ goal' = "marker" /\ key' \in Keys /\ UNCHANGED <<parsed, info_start, info_end>>
      \/ /\ goal' = "info" /\ info_start' = current' /\ UNCHANGED <<parsed, key, info_end>>
      \/ /\ goal' = "after_info" /\ InfoEnds /\ info_end' = current' - 1
         /\ UNCHANGED <<parsed, key, info_start>>
      \/ goal' = "key" /\ UNCHANGED <<parsed, key, info_start, info_end>>
  BY DEF NextKey, ReturnOk, Seek, Crashed
<1>5. CASE /\ goal' \in {"end", "key"} /\ parsed' \in BOOLEAN \cup {parsed}
           /\ UNCHANGED <<key, info_start, info_end>>
  <2>1. HashRange'
    BY <1>2, <1>5, RangeStays
  <2> QED
    BY <1>2, <1>3, <1>5, <2>1 DEF ParserTyped, Goals
<1>6. CASE goal' = "marker" /\ key' \in Keys /\ UNCHANGED <<parsed, info_start, info_end>>
  <2>1. HashRange'
    BY <1>2, <1>6, RangeStays
  <2> QED
    BY <1>2, <1>3, <1>6, <2>1 DEF ParserTyped, Goals
<1>7. CASE goal' = "info" /\ info_start' = current' /\ UNCHANGED <<parsed, key, info_end>>
  <2>1. HashRange'
    BY <1>2, <1>7 DEF HashRange
  <2> QED
    BY <1>2, <1>3, <1>7, <2>1 DEF ParserTyped, Goals
<1>8. CASE /\ goal' = "after_info" /\ InfoEnds /\ info_end' = current' - 1
           /\ UNCHANGED <<parsed, key, info_start>>
  <2>1. info_start # NULL /\ token' = <<"e">>
    BY <1>8 DEF InfoEnds
  <2>2. info_start \in 1 .. current /\ current < current' /\ Len(mem) \in Nat
    BY <1>2, <2>1 DEF HashRange
  <2>3. current' - 1 \in info_start .. Len(mem) /\ info_start \in 1 .. current'
    <3>1. current \in Nat /\ current' \in Nat /\ current' <= Len(mem) + 1
      BY <1>2, <2>2
    <3>2. info_start \in Nat /\ 1 <= info_start /\ info_start <= current
      BY <2>2, <3>1
    <3>3. Len(mem) \in Nat /\ current < current'
      BY <2>2
    <3> QED
      BY <3>1, <3>2, <3>3, PlaceBefore
  <2>4. HashRange'
    BY <1>2, <1>8, <2>1, <2>3 DEF HashRange
  <2> QED
    BY <1>2, <1>3, <1>8, <2>4 DEF ParserTyped, Goals
<1> QED
  BY <1>4, <1>5, <1>6, <1>7, <1>8

LEMMA InfoIsDictTyped ==
  ASSUME TypeOK, main_pc = "parse", InfoIsDict
  PROVE  TokenizerTypeOK' /\ ParserTyped' /\ HashRange'
<1>1. /\ Expect("info") /\ goal' \in {"end", "key"} /\ parsed' \in BOOLEAN \cup {parsed}
      /\ UNCHANGED <<tf, key, info_start, info_end>>
  BY DEF InfoIsDict, Refused, Crashed, ReturnOk, Seek
<1>2. /\ TokenizerTypeOK' /\ goal = "info" /\ HashRange /\ ParserTyped
      /\ current \in Nat /\ current' \in Nat /\ current <= current'
  BY <1>1, TokenRead
<1>3. HashRange'
  BY <1>1, <1>2, RangeStays
<1> QED
  BY <1>1, <1>2, <1>3 DEF ParserTyped, Goals

LEMMA ValueMarkerTyped ==
  ASSUME TypeOK, main_pc = "parse", ValueMarker
  PROVE  TokenizerTypeOK' /\ ParserTyped' /\ HashRange'
<1>1. /\ Expect("marker") /\ goal' \in {"end", "value"} /\ parsed' \in BOOLEAN \cup {parsed}
      /\ UNCHANGED <<tf, key, info_start, info_end>>
  BY DEF ValueMarker, Refused, Crashed, ReturnOk, Seek
<1>2. /\ TokenizerTypeOK' /\ goal = "marker" /\ HashRange /\ ParserTyped
      /\ current \in Nat /\ current' \in Nat /\ current <= current'
  BY <1>1, TokenRead
<1>3. HashRange'
  BY <1>1, <1>2, RangeStays
<1> QED
  BY <1>1, <1>2, <1>3 DEF ParserTyped, Goals

LEMMA AfterInfoTyped ==
  ASSUME TypeOK, main_pc = "parse", AfterInfo
  PROVE  TokenizerTypeOK' /\ ParserTyped' /\ HashRange'
<1>1. /\ Expect("after_info") /\ goal' \in {"end", "key"} /\ parsed' \in BOOLEAN \cup {parsed}
      /\ (tf' = tf \/ tf' = [tf EXCEPT !.info_hash = Hash])
      /\ UNCHANGED <<key, info_start, info_end>>
  BY DEF AfterInfo, Refused, Crashed, ReturnOk, Seek
<1>2. /\ TokenizerTypeOK' /\ goal = "after_info" /\ HashRange /\ ParserTyped /\ mem \in Seq(Symbol)
      /\ current \in Nat /\ current' \in Nat /\ current <= current'
  BY <1>1, TokenRead
<1>3. HashRange'
  BY <1>1, <1>2, RangeStays
<1>4. Hash \in Seq(Symbol)
  <2>1. current \in 1 .. Len(mem) + 1 /\ Len(mem) \in Nat
    BY <1>2 DEF TypeOK, TokenizerTypeOK, EndOfMem
  <2>2. info_start \in 1 .. current /\ info_end \in info_start .. Len(mem)
    BY <1>2 DEF HashRange
  <2>3. info_start \in Nat \ {0} /\ info_end \in Nat /\ info_end <= Len(mem) /\ info_start <= info_end + 1
    BY <2>1, <2>2
  <2> QED
    BY <1>2, <2>3, SliceAt DEF Hash
<1>5. tf' \in TorrentRecord
  BY <1>1, <1>2, <1>4 DEF ParserTyped, TorrentRecord, Text
<1> QED
  BY <1>1, <1>2, <1>3, <1>5 DEF ParserTyped, Goals

LEMMA SizeTyped ==
  ASSUME NEW s \in Seq(Symbol)
  PROVE  Strtol(s) % SizeRange \in 0 .. SizeRange - 1
<1>1. Strtol(s) \in Int /\ SizeRange \in Nat \ {0}
  BY StrtolIsNumber, StartupAssumption
<1> HIDE DEF Strtol
<1> QED
  BY <1>1

LEMMA FillTyped ==
  ASSUME tf \in TorrentRecord, token' \in Seq(Symbol), Fill
  PROVE  tf' \in TorrentRecord
<1>1. /\ Strtol(token') % SizeRange \in 0 .. SizeRange - 1
      /\ Hashes(token') \in Seq(Seq(Symbol)) /\ Len(token') \div HashLength \in Nat
  BY SizeTyped, HashesTyped
<1>2. CASE key \in {"announce", "comment", "name"} /\ tf' = [tf EXCEPT ![key] = token']
  BY <1>2 DEF TorrentRecord, Text
<1>3. CASE tf' = [tf EXCEPT !.length = Strtol(token') % SizeRange]
  BY <1>1, <1>3 DEF TorrentRecord
<1>4. CASE tf' = [tf EXCEPT !.piece_length = Strtol(token') % SizeRange]
  BY <1>1, <1>4 DEF TorrentRecord
<1>5. CASE tf' = [tf EXCEPT !.num_pieces = Len(token') \div HashLength,
                            !.piece_hashes = Hashes(token')]
  BY <1>1, <1>5 DEF TorrentRecord
<1> QED
  BY <1>2, <1>3, <1>4, <1>5 DEF Fill

LEMMA ValueTyped ==
  ASSUME TypeOK, main_pc = "parse", Value
  PROVE  TokenizerTypeOK' /\ ParserTyped' /\ HashRange'
<1>1. /\ Expect("value") /\ goal' \in {"end", "key"} /\ parsed' \in BOOLEAN \cup {parsed}
      /\ (tf' = tf \/ Fill)
      /\ UNCHANGED <<key, info_start, info_end>>
  BY DEF Value, Refused, Crashed, ReturnOk, Seek
<1>2. /\ TokenizerTypeOK' /\ goal = "value" /\ HashRange /\ ParserTyped /\ token' \in Seq(Symbol)
      /\ current \in Nat /\ current' \in Nat /\ current <= current'
  BY <1>1, TokenRead
<1>3. HashRange'
  BY <1>1, <1>2, RangeStays
<1>4. tf' \in TorrentRecord
  BY <1>1, <1>2, FillTyped DEF ParserTyped
<1> QED
  BY <1>1, <1>2, <1>3, <1>4 DEF ParserTyped, Goals

LEMMA ParseTyped ==
  ASSUME TypeOK, Parse
  PROVE  TypeOK'
<1>1. /\ main_pc = "parse" /\ UNCHANGED <<trackerVars, main_pc, file, reply>>
      /\ OpenFile(Contents, Size) \/ ParseStep
  BY DEF Parse
<1>2. TokenizerTypeOK' /\ ParserTyped' /\ HashRange'
  BY <1>1, OpenFileTyped, NextKeyTyped, InfoIsDictTyped, AfterInfoTyped, ValueMarkerTyped, ValueTyped
     DEF ParseStep
<1> QED
  BY <1>1, <1>2, TypesOfParser

LEMMA PerformTyped ==
  ASSUME TypeOK, NEW r \in Replies, Perform(r.bytes)
  PROVE  TokenizerTypeOK' /\ body' \in Text
<1>1. /\ \/ status' = "crash" /\ err' = "CRASH" /\ UNCHANGED body
         \/ body' = r.bytes /\ UNCHANGED <<status, err>>
      /\ UNCHANGED <<mem, data_size, current, token, str_len, list_dict_stack>>
  BY DEF Perform
<1>2. body \in Text /\ r.bytes \in Text /\ TokenizerTypeOK
  BY StartupAssumption DEF TypeOK, Text
<1>3. CASE status' = "crash" /\ err' = "CRASH" /\ UNCHANGED body
  BY <1>1, <1>2, <1>3, CrashTyped
<1>4. CASE body' = r.bytes /\ UNCHANGED <<status, err>>
  BY <1>1, <1>2, <1>4 DEF TokenizerTypeOK, EndOfMem
<1> QED
  BY <1>1, <1>3, <1>4

\* What a step of contact_tracker has to establish.
TrackerTyped == /\ tr \in TrackerRecord /\ step \in 0 .. Tokens \cup {NULL}
                /\ chunks \in 0 .. MaxChunks /\ body \in Text /\ response \in Text
                /\ contacted \in BOOLEAN \cup {NULL}

LEMMA TypesOfTracker ==
  ASSUME TypeOK, main_pc = "contact", TokenizerTypeOK', TrackerTyped',
         UNCHANGED <<parserVars, main_pc, file>>
  PROVE  TypeOK'
<1>1. UNCHANGED <<tf, goal, key, parsed, main_pc, file>>
  BY DEF parserVars
<1>2. main_pc' # "parse"
  BY <1>1
<1> QED
  BY <1>1, <1>2 DEF TypeOK, TrackerTyped

LEMMA TokenizerStays ==
  ASSUME TokenizerTypeOK, UNCHANGED tokenizerVars
  PROVE  TokenizerTypeOK'
BY DEF TokenizerTypeOK, EndOfMem, tokenizerVars

LEMMA ReceiveChunkTyped ==
  ASSUME TypeOK, ReceiveChunk
  PROVE  TokenizerTypeOK' /\ TrackerTyped'
<1>1. TokenizerTypeOK /\ TrackerTyped
  BY DEF TypeOK, TrackerTyped
<1>2. /\ body # NULL /\ chunks < MaxChunks /\ chunks' = chunks + 1
      /\ UNCHANGED <<tr, step, contacted, tokenizerVars>>
  BY DEF ReceiveChunk
<1>3. PICK k \in 1 .. Len(body) :
        response' = SubSeq(body, 1, k) /\ body' = SubSeq(body, k + 1, Len(body))
  BY DEF ReceiveChunk, KeepChunk
<1>4. body \in Seq(Symbol)
  BY <1>1, <1>2 DEF TrackerTyped, Text
<1>5. Len(body) \in Nat /\ k \in Nat /\ 1 <= k /\ k <= Len(body)
  BY <1>4
<1>6. /\ 1 \in Nat \ {0} /\ k + 1 \in Nat \ {0} /\ 1 <= k + 1
      /\ k + 1 <= Len(body) + 1 /\ Len(body) <= Len(body)
  BY <1>5
<1>7. SubSeq(body, 1, k) \in Seq(Symbol) /\ SubSeq(body, k + 1, Len(body)) \in Seq(Symbol)
  BY <1>4, <1>5, <1>6, SliceAt
<1>8. response' \in Text /\ body' \in Text
  BY <1>3, <1>7 DEF Text
<1>9. chunks' \in 0 .. MaxChunks
  <2>1. chunks \in 0 .. MaxChunks /\ MaxChunks \in Nat
    BY <1>1, StartupAssumption DEF TrackerTyped
  <2> QED
    BY <1>2, <2>1
<1>10. TrackerTyped'
  BY <1>1, <1>2, <1>8, <1>9 DEF TrackerTyped
<1> QED
  BY <1>1, <1>2, <1>10, TokenizerStays

LEMMA CurlDoneTyped ==
  ASSUME TypeOK, NEW tail \in Tails, CurlDone(tail)
  PROVE  TokenizerTypeOK' /\ TrackerTyped'
<1>1. TokenizerTypeOK /\ TrackerTyped
  BY DEF TypeOK, TrackerTyped
<1>2. /\ \/ /\ status' = "crash" /\ err' = "CRASH" /\ UNCHANGED step
            /\ UNCHANGED <<mem, data_size, current, token, str_len, list_dict_stack>>
         \/ InitTokenizer(tail, 0) /\ step' = 0
         \/ response # NULL /\ InitTokenizer(response \o tail, Len(response)) /\ step' = 0
      /\ UNCHANGED <<tr, body, response, chunks, contacted>>
  BY DEF CurlDone
<1>3. tail \in Seq(Symbol)
  BY StartupAssumption
<1>4. step' \in 0 .. Tokens \cup {NULL}
  BY <1>1, <1>2 DEF TrackerTyped, Tokens
<1>5. TrackerTyped'
  BY <1>1, <1>2, <1>4 DEF TrackerTyped
<1>6. CASE InitTokenizer(tail, 0)
  <2>1. 0 \in 0 .. Len(tail)
    BY <1>3
  <2> QED
    BY <1>3, <1>5, <1>6, <2>1, FreshTokenizer
<1>7. CASE response # NULL /\ InitTokenizer(response \o tail, Len(response))
  <2>1. response \in Seq(Symbol)
    BY <1>1, <1>7 DEF TrackerTyped, Text
  <2>2. response \o tail \in Seq(Symbol) /\ Len(response \o tail) = Len(response) + Len(tail)
    BY <1>3, <2>1, ConcatProperties
  <2>3. Len(response) \in Nat /\ Len(tail) \in Nat
    BY <1>3, <2>1
  <2>4. Len(response) \in 0 .. Len(response \o tail)
    BY <2>2, <2>3
  <2> QED
    BY <1>5, <1>7, <2>2, <2>4, FreshTokenizer
<1> QED
  BY <1>1, <1>2, <1>5, <1>6, <1>7, CrashTyped

LEMMA TakeTokenTyped ==
  ASSUME TypeOK, TakeToken
  PROVE  TokenizerTypeOK' /\ TrackerTyped'
<1>1. TokenizerTypeOK /\ TrackerTyped
  BY DEF TypeOK, TrackerTyped
<1>2. /\ step \in 0 .. Tokens - 1 /\ contacted = NULL /\ NextToken /\ step' = step + 1
      /\ UNCHANGED <<body, response, chunks>>
  BY DEF TakeToken
<1>3. TestKey => contacted' \in BOOLEAN \cup {NULL}
  BY <1>2 DEF TestKey
<1>4. /\ tr' = tr \/ tr' = [tr EXCEPT !.interval = Strtol(token')] \/ tr' = [tr EXCEPT !.peers = PeersOf(token')]
      /\ contacted' \in BOOLEAN \cup {NULL}
  BY <1>2, <1>3 DEF TakeToken
<1>5. Moves
  BY <1>1, <1>2, NextTokenMoves
<1>6. TokenizerTypeOK' /\ token' \in Seq(Symbol)
  BY <1>5 DEF Moves, TokenizerTypeOK
<1>7. Strtol(token') \in Int /\ PeersOf(token') \in Seq([address : Seq(Symbol), port : Int])
  BY <1>6, StrtolIsNumber, PeersTyped
<1>8. tr' \in TrackerRecord
  BY <1>1, <1>4, <1>7 DEF TrackerTyped, TrackerRecord
<1>9. step' \in 0 .. Tokens
  BY <1>2 DEF Tokens
<1>10. TrackerTyped'
  BY <1>1, <1>2, <1>4, <1>8, <1>9 DEF TrackerTyped
<1> QED
  BY <1>6, <1>10

LEMMA ContactTyped ==
  ASSUME TypeOK, Contact
  PROVE  TypeOK'
<1>1. /\ main_pc = "contact" /\ UNCHANGED <<parserVars, main_pc, file>>
      /\ (\E r \in Replies : Perform(r.bytes)) \/ (\E tail \in Tails : ContactStep(tail))
  BY DEF Contact
<1>2. TokenizerTypeOK /\ TrackerTyped
  BY DEF TypeOK, TrackerTyped
<1>3. CASE \E r \in Replies : Perform(r.bytes)
  <2>1. PICK r \in Replies : Perform(r.bytes)
    BY <1>3
  <2>2. UNCHANGED <<tr, step, response, chunks, contacted>>
    BY <2>1 DEF Perform
  <2>3. TokenizerTypeOK' /\ TrackerTyped'
    BY <1>2, <2>1, <2>2, PerformTyped DEF TrackerTyped
  <2> QED
    BY <1>1, <2>3, TypesOfTracker
<1>4. CASE \E tail \in Tails : ContactStep(tail)
  <2>1. PICK tail \in Tails : ContactStep(tail)
    BY <1>4
  <2>2. CASE CurlFails
    <3>1. contacted' = FALSE /\ UNCHANGED <<tr, step, body, response, chunks, tokenizerVars>>
      BY <2>2 DEF CurlFails
    <3>2. TokenizerTypeOK' /\ TrackerTyped'
      BY <1>2, <3>1, TokenizerStays DEF TrackerTyped
    <3> QED
      BY <1>1, <3>2, TypesOfTracker
  <2>3. (TokenizerTypeOK' /\ TrackerTyped') \/ CurlFails
    BY <2>1, ReceiveChunkTyped, CurlDoneTyped, TakeTokenTyped DEF ContactStep
  <2> QED
    BY <1>1, <2>2, <2>3, TypesOfTracker
<1> QED
  BY <1>1, <1>3, <1>4

LEMMA ProceedTyped ==
  ASSUME TypeOK, Proceed
  PROVE  TypeOK'
<1>1. /\ main_pc' \in {"returned", "contact", "spawn", "crashed"}
      /\ UNCHANGED <<tokenizerVars, parserVars, trackerVars, file>>
  BY DEF Proceed, Goto
<1>2. TokenizerTypeOK'
  BY <1>1, TokenizerStays DEF TypeOK
<1>3. UNCHANGED <<tf, goal, key, parsed, tr, step, body, response, chunks, contacted, file>>
  BY <1>1 DEF parserVars, trackerVars
<1> QED
  BY <1>1, <1>2, <1>3 DEF TypeOK

LEMMA TypesStay ==
  ASSUME TypeOK, UNCHANGED vars
  PROVE  TypeOK'
<1>1. UNCHANGED <<tokenizerVars, tf, goal, key, info_start, info_end, parsed, tr, step, body,
                  response, chunks, contacted, main_pc, file>>
  BY DEF vars, parserVars, trackerVars
<1>2. TokenizerTypeOK' /\ current' = current /\ mem' = mem
  BY <1>1, TokenizerStays DEF TypeOK, tokenizerVars
<1>3. HashRange' <=> HashRange
  BY <1>1, <1>2 DEF HashRange
<1> QED
  BY <1>1, <1>2, <1>3 DEF TypeOK

LEMMA InitTyped ==
  ASSUME Init
  PROVE  TypeOK
<1>1. TokenizerTypeOK
  <2>1. /\ mem = <<>> /\ data_size = 0 /\ current = 1 /\ token = <<>> /\ status = "start"
        /\ str_len = 0 /\ list_dict_stack = 0 /\ err = "OK"
    BY DEF Init
  <2> QED
    BY <2>1 DEF TokenizerTypeOK, EndOfMem
<1>2. ParserTyped /\ HashRange
  <2>1. InitParser
    BY DEF Init
  <2>2. tf \in TorrentRecord
    BY <2>1, StartupAssumption DEF InitParser, TorrentRecord, Text
  <2>3. goal = "open" /\ key = NULL /\ info_start = NULL /\ parsed = NULL
    BY <2>1 DEF InitParser
  <2> QED
    BY <2>2, <2>3 DEF ParserTyped, Goals, HashRange
<1>3. TrackerTyped
  <2>1. InitTracker
    BY DEF Init
  <2>2. MaxChunks \in Nat
    BY StartupAssumption
  <2>3. tr \in TrackerRecord
    BY <2>1 DEF InitTracker, TrackerRecord
  <2>4. chunks \in 0 .. MaxChunks
    BY <2>1, <2>2 DEF InitTracker
  <2> QED
    BY <2>1, <2>3, <2>4 DEF InitTracker, TrackerTyped, Text
<1>4. file # NULL => /\ file.torrent \in Torrents /\ file.tail \in Tails
                     /\ file.size \in 0 .. Len(file.torrent.bytes)
  BY DEF Init
<1>5. main_pc = "parse"
  BY DEF Init
<1> QED
  BY <1>1, <1>2, <1>3, <1>4, <1>5 DEF TypeOK, ParserTyped, Goals, TrackerTyped

\* Whatever the torrent, the reply, and the heap behind either: the scanner never
\* leaves the memory that it has without a crash, what it hands out is as long as
\* that memory at most, every field that is filled from it has its type, and the
\* hash is taken of a range that begins behind the key info and ends in that
\* memory.
THEOREM TypeCorrect == Spec => []TypeOK
<1>1. Init => TypeOK
  BY InitTyped
<1>2. TypeOK /\ [Next]_vars => TypeOK'
  <2> SUFFICES ASSUME TypeOK, [Next]_vars PROVE TypeOK'
    OBVIOUS
  <2>1. Parse \/ Contact \/ Proceed \/ UNCHANGED vars
    BY DEF Next
  <2> QED
    BY <2>1, ParseTyped, ContactTyped, ProceedTyped, TypesStay
<1> QED
  BY <1>1, <1>2, PTL DEF Spec

-------------------------------------------------------------------------------
(* What a parsed file has been read to.                                    *)

\* next() returns END in one place only.
LEMMA EndIsExact ==
  ASSUME NextToken, err' = "END"
  PROVE  current' = EndOfData' /\ list_dict_stack' = list_dict_stack /\ list_dict_stack <= 0
<1>1. status = "start" /\ Start
  BY DEF NextToken, Start, IntParse, IntEnd, StrParse, Malformed, Crash, Stop, Emit
<1>2. PICK p : End(p)
  BY <1>1 DEF Start, IntStart, StrStart, ListDictStart, ListDictEnd, Malformed, Crash, Stop, Emit
<1>3. p = EndOfData /\ list_dict_stack <= 0 /\ Stop(p, "end", "END")
  BY <1>2 DEF End, Malformed, Stop
<1>4. EndOfData' = EndOfData
  BY DEF NextToken, EndOfData
<1> QED
  BY <1>3, <1>4 DEF Stop

\* A file is only accepted when the scanner has read it to its end, to the byte, and
\* every list and dictionary in it has been closed: what lies behind the file on the
\* heap never takes part in a torrent that is accepted.
THEOREM TrueMeansAllReadCorrect == Spec => []TrueMeansAllRead
<1>1. Init => TrueMeansAllRead
  BY StartupAssumption DEF Init, InitParser, TrueMeansAllRead
<1>2. TrueMeansAllRead /\ [Next]_vars => TrueMeansAllRead'
  <2> SUFFICES ASSUME TrueMeansAllRead, [Next]_vars, main_pc' = "parse", parsed' = TRUE
               PROVE  current' = EndOfData' /\ list_dict_stack' <= 0
    BY DEF TrueMeansAllRead
  <2>1. CASE Parse
    <3>1. parsed = NULL /\ (OpenFile(Contents, Size) \/ ParseStep)
      BY <2>1 DEF Parse
    <3>2. parsed # TRUE
      BY <3>1, StartupAssumption
    <3>3. ~OpenFile(Contents, Size)
      BY <3>2 DEF OpenFile, Seek
    <3>4. ~InfoIsDict /\ ~AfterInfo /\ ~ValueMarker /\ ~Value
      BY <3>2 DEF InfoIsDict, AfterInfo, ValueMarker, Value, Refused, Crashed, ReturnOk, Seek
    <3>5. NextKey
      BY <3>1, <3>3, <3>4 DEF ParseStep
    <3>6. NextToken /\ err' = "END"
      BY <3>2, <3>5 DEF NextKey, Crashed, ReturnOk, Seek, Expect
    <3>7. current' = EndOfData' /\ list_dict_stack' = list_dict_stack /\ list_dict_stack <= 0
      BY <3>6, EndIsExact
    <3> QED
      BY <3>7
  <2>2. CASE Contact
    BY <2>2 DEF Contact
  <2>3. CASE Proceed
    BY <2>3 DEF Proceed, Goto
  <2>4. CASE UNCHANGED vars
    <3>1. UNCHANGED <<main_pc, parsed, current, data_size, list_dict_stack>>
      BY <2>4 DEF vars, parserVars, tokenizerVars
    <3> QED
      BY <3>1 DEF TrueMeansAllRead, EndOfData
  <2> QED
    BY <2>1, <2>2, <2>3, <2>4 DEF Next
<1> QED
  BY <1>1, <1>2, PTL DEF Spec
================================================================================
