----------------------------- MODULE ReadingProofs -----------------------------
(***************************************************************************)
(* Theorems about what the parsers make of a text: of a torrent, whole or  *)
(* cut, and of a plain reply.  The scanner goes through the items that the *)
(* text is read as, one by one, and each parser follows it.                *)
(***************************************************************************)
EXTENDS StartupProofs

-------------------------------------------------------------------------------
(* The scanner and one item.                                               *)

\* The data is the beginning of b, or all of it.
Loaded(b) ==
  /\ data_size <= Len(b) /\ data_size <= Len(mem)
  /\ \A j \in 1 .. data_size : mem[j] = b[j]

\* After stops at the first place that has no symbol of S.
LEMMA FirstNot ==
  ASSUME NEW p \in Nat, NEW limit \in Nat, NEW S, NEW q \in p .. limit,
         q = limit \/ mem[q] \notin S, \A j \in p .. q - 1 : mem[j] \in S
  PROVE  After(p, S, limit) = q
<1> DEFINE first == After(p, S, limit)
<1>1. p <= limit /\ q \in Nat
  OBVIOUS
<1>2. /\ first \in p .. limit /\ (first = limit \/ mem[first] \notin S)
      /\ \A j \in p .. first - 1 : mem[j] \in S
  BY <1>1, AfterIs
<1> HIDE DEF first
<1>3. ~(q < first)
  <2> SUFFICES ASSUME q < first PROVE FALSE
    OBVIOUS
  <2>1. q \in p .. first - 1 /\ q # limit
    BY <1>1, <1>2
  <2> QED
    BY <1>2, <2>1
<1>4. ~(first < q)
  <2> SUFFICES ASSUME first < q PROVE FALSE
    OBVIOUS
  <2>1. first \in p .. q - 1 /\ first # limit
    BY <1>1, <1>2
  <2> QED
    BY <1>2, <2>1
<1>5. first = q
  BY <1>1, <1>2, <1>3, <1>4
<1> QED
  BY <1>5 DEF first

\* A slice of the memory that does not pass the end of the data is one of the text.
LEMMA SameSlice ==
  ASSUME NEW b \in Seq(Symbol), mem \in Seq(Symbol), data_size \in Nat, Loaded(b),
         NEW p \in Nat \ {0}, NEW q \in Nat, p <= q + 1, q <= data_size
  PROVE  SubSeq(mem, p, q) = SubSeq(b, p, q)
<1>1. Len(mem) \in Nat /\ Len(b) \in Nat
  OBVIOUS
<1>2. q <= Len(mem) /\ q <= Len(b)
  BY <1>1 DEF Loaded
<1>3. /\ SubSeq(mem, p, q) \in Seq(Symbol) /\ Len(SubSeq(mem, p, q)) = (q + 1) - p
      /\ \A i \in 1 .. (q + 1) - p : SubSeq(mem, p, q)[i] = mem[(p - 1) + i]
  BY <1>2, SliceAt
<1>4. /\ SubSeq(b, p, q) \in Seq(Symbol) /\ Len(SubSeq(b, p, q)) = (q + 1) - p
      /\ \A i \in 1 .. (q + 1) - p : SubSeq(b, p, q)[i] = b[(p - 1) + i]
  BY <1>2, SliceAt
<1>5. ASSUME NEW i \in 1 .. (q + 1) - p PROVE mem[(p - 1) + i] = b[(p - 1) + i]
  <2>1. (p - 1) + i \in 1 .. data_size
    OBVIOUS
  <2> QED
    BY <2>1 DEF Loaded
<1> DEFINE s1 == SubSeq(mem, p, q)
           s2 == SubSeq(b, p, q)
<1>6. s1 \in Seq(Symbol) /\ s2 \in Seq(Symbol) /\ Len(s1) = Len(s2)
  BY <1>3, <1>4
<1>7. \A i \in 1 .. Len(s1) : s1[i] = s2[i]
  BY <1>3, <1>4, <1>5
<1> HIDE DEF s1, s2
<1>8. s1 = s2
  BY <1>6, <1>7, SeqEqual
<1> QED
  BY <1>8 DEF s1, s2

\* A slice of one symbol.
LEMMA OneSlice ==
  ASSUME NEW s \in Seq(Symbol), NEW i \in 1 .. Len(s)
  PROVE  SubSeq(s, i, i) = <<s[i]>>
<1>1. Len(s) \in Nat
  OBVIOUS
<1>2. i \in Nat \ {0} /\ i \in Nat /\ i <= Len(s) /\ i <= i + 1 /\ (i + 1) - i = 1 /\ 1 .. 1 = {1} /\ (i - 1) + 1 = i
  BY <1>1
<1>3. /\ SubSeq(s, i, i) \in Seq(Symbol) /\ Len(SubSeq(s, i, i)) = (i + 1) - i
      /\ \A j \in 1 .. (i + 1) - i : SubSeq(s, i, i)[j] = s[(i - 1) + j]
  BY <1>2, SliceAt
<1>4. Len(SubSeq(s, i, i)) = 1 /\ SubSeq(s, i, i)[1] = s[i]
  BY <1>2, <1>3
<1>5. s[i] \in Symbol
  OBVIOUS
<1> DEFINE one == SubSeq(s, i, i)
<1>6. one \in Seq(Symbol) /\ Len(one) = 1 /\ one[1] = s[i]
  BY <1>3, <1>4
<1> HIDE DEF one
<1>7. one = <<s[i]>>
  BY <1>5, <1>6
<1> QED
  BY <1>7 DEF one

\* An item that begins inside the data, and what the scanner's types say of it.
LEMMA ItemPlaces ==
  ASSUME TokenizerTypeOK, NEW b \in Seq(Symbol), Loaded(b), NEW whole \in 1 .. Len(b),
         NEW x \in Item, IsItem(b, whole, x)
  PROVE  /\ Len(mem) \in Nat /\ EndOfMem = Len(mem) + 1 /\ data_size \in Nat /\ data_size <= Len(mem)
         /\ EndOfData = data_size + 1 /\ mem \in Seq(Symbol)
         /\ x.at \in Nat \ {0} /\ x.next \in Nat /\ x.at < x.next /\ x.next <= whole + 1
         /\ whole \in Nat /\ x.text \in Nat /\ x.depth \in Int
         /\ current \in Nat /\ current <= EndOfMem /\ str_len \in Nat /\ list_dict_stack \in Int
<1>1. /\ Len(mem) \in Nat /\ EndOfMem = Len(mem) + 1 /\ data_size \in 0 .. Len(mem)
      /\ EndOfData = data_size + 1 /\ mem \in Seq(Symbol) /\ current \in 1 .. EndOfMem
      /\ str_len \in Nat /\ list_dict_stack \in Int /\ EndOfMem \in Nat
  BY PlacesAre
<1>2. Len(b) \in Nat /\ whole \in Nat
  OBVIOUS
<1>3. x.at \in 1 .. whole /\ x.next \in x.at + 1 .. whole + 1
  BY DEF IsItem
<1>4. x.at \in Nat /\ x.text \in Nat /\ x.next \in Nat /\ x.depth \in Int
  BY DEF Item
<1>5. x.at # 0 /\ x.at < x.next /\ x.next <= whole + 1
  BY <1>2, <1>3, <1>4
<1>6. data_size \in Nat /\ data_size <= Len(mem) /\ current \in Nat /\ current <= EndOfMem
  BY <1>1
<1> QED
  BY <1>1, <1>2, <1>4, <1>5, <1>6

\* At a symbol of the data that is no space, next() looks at that symbol.
LEMMA StartsHere ==
  ASSUME TokenizerTypeOK, NextToken, status = "start", current <= data_size, mem[current] \notin Space
  PROVE  /\ \/ IntStart(current) \/ StrStart(current) \/ ListDictStart(current) \/ ListDictEnd(current)
            \/ mem[current] \notin Digit \cup {"i", "l", "d", "e"} /\ Malformed(current)
         /\ UNCHANGED <<mem, data_size>>
<1> DEFINE limit == IF current <= EndOfData THEN EndOfData ELSE EndOfMem
           p     == After(current, Space, limit)
<1>1. /\ EndOfData = data_size + 1 /\ EndOfMem = Len(mem) + 1 /\ data_size \in 0 .. Len(mem)
      /\ current \in 1 .. EndOfMem /\ Len(mem) \in Nat
  BY PlacesAre
<1>2. limit = EndOfData
  BY <1>1
<1> HIDE DEF limit
<1>3. current \in Nat /\ limit \in Nat /\ current \in current .. limit /\ current # EndOfData /\ current # EndOfMem
  BY <1>1, <1>2
<1>4. \A j \in current .. current - 1 : mem[j] \in Space
  BY <1>3
<1>5. p = current
  BY <1>3, <1>4, FirstNot
<1>6. Start /\ UNCHANGED <<mem, data_size>>
  BY DEF NextToken, IntParse, IntEnd, StrParse
<1>7. \/ End(p)
      \/ p # EndOfData /\ p = EndOfMem /\ Crash
      \/ /\ p \notin {EndOfData, EndOfMem}
         /\ \/ IntStart(p) \/ StrStart(p) \/ ListDictStart(p) \/ ListDictEnd(p)
            \/ mem[p] \notin Digit \cup {"i", "l", "d", "e"} /\ Malformed(p)
  BY <1>6 DEF Start, limit
<1> HIDE DEF p
<1>8. ~End(p) /\ p # EndOfMem
  BY <1>3, <1>5 DEF End
<1> QED
  BY <1>5, <1>6, <1>7, <1>8

\* Digit, by its members.
LEMMA DigitsAre ==
  Digit = {"0", "1", "2", "3", "4", "5", "6", "7", "8", "9"}
<1>1. DOMAIN Digits = 1 .. 10
  BY DEF Digits
<1>2. Digit = {Digits[n] : n \in 1 .. 10}
  BY <1>1 DEF Digit, Range
<1>3. 1 .. 10 = {1, 2, 3, 4, 5, 6, 7, 8, 9, 10}
  OBVIOUS
<1>4. /\ Digits[1] = "0" /\ Digits[2] = "1" /\ Digits[3] = "2" /\ Digits[4] = "3" /\ Digits[5] = "4"
      /\ Digits[6] = "5" /\ Digits[7] = "6" /\ Digits[8] = "7" /\ Digits[9] = "8" /\ Digits[10] = "9"
  BY DEF Digits
<1> HIDE DEF Digits
<1> QED
  BY <1>2, <1>3, <1>4

\* The marks of the bencoding are no digits.
LEMMA NoDigits ==
  /\ "i" \notin Digit /\ "l" \notin Digit /\ "d" \notin Digit /\ "e" \notin Digit
  /\ ":" \notin Digit /\ " " \notin Digit /\ "-" \notin Digit
BY DigitsAre

\* The start or the end of a list or dictionary is one token.
LEMMA BracketRead ==
  ASSUME TokenizerTypeOK, NextToken, NEW b \in Seq(Symbol), Loaded(b), NEW whole \in 1 .. Len(b),
         NEW x \in Item, IsItem(b, whole, x), x.type \in {"l", "d", "e"},
         status = "start", current = x.at, x.at <= data_size
  PROVE  /\ err' = "OK" /\ status' = "start" /\ current' = x.next /\ token' = <<x.type>>
         /\ list_dict_stack' = list_dict_stack + Change(x)
<1>1. /\ data_size \in Nat /\ data_size <= Len(mem) /\ x.at \in Nat \ {0} /\ current \in Nat
      /\ mem \in Seq(Symbol) /\ Len(mem) \in Nat /\ list_dict_stack \in Int
  BY ItemPlaces
<1>2. mem[current] = x.type /\ x.next = current + 1
  BY <1>1 DEF Loaded, IsItem
<1>3. mem[current] \notin Space /\ mem[current] \notin Digit /\ mem[current] # "i"
  BY <1>2, NoDigits DEF Space
<1>4. \/ IntStart(current) \/ StrStart(current) \/ ListDictStart(current) \/ ListDictEnd(current)
      \/ mem[current] \notin Digit \cup {"i", "l", "d", "e"} /\ Malformed(current)
  BY <1>3, StartsHere
<1>5. ListDictStart(current) \/ ListDictEnd(current)
  BY <1>2, <1>3, <1>4 DEF IntStart, StrStart
<1>6. Emit(current, current + 1, "start")
  BY <1>5 DEF ListDictStart, ListDictEnd
<1>7. list_dict_stack' = list_dict_stack + Change(x)
  <2>1. CASE x.type = "e"
    <3>1. Change(x) = -1 /\ list_dict_stack' = list_dict_stack - 1
      BY <1>2, <1>5, <2>1 DEF ListDictStart, ListDictEnd, Change
    <3> QED
      BY <1>1, <3>1
  <2>2. CASE x.type # "e"
    <3>1. Change(x) = 1 /\ list_dict_stack' = list_dict_stack + 1
      BY <1>2, <1>5, <2>2 DEF ListDictStart, ListDictEnd, Change
    <3> QED
      BY <1>1, <3>1
  <2> QED
    BY <2>1, <2>2
<1>8. token' = <<x.type>>
  <2>1. token' = SubSeq(mem, current, (current + 1) - 1) /\ (current + 1) - 1 = current
    BY <1>1, <1>6 DEF Emit
  <2>2. SubSeq(mem, current, current) = <<mem[current]>>
    <3>1. current \in 1 .. Len(mem)
      BY <1>1
    <3> QED
      BY <1>1, <3>1, OneSlice
  <2> QED
    BY <1>2, <2>1, <2>2
<1> QED
  BY <1>2, <1>6, <1>7, <1>8 DEF Emit

\* The i of an integer.
LEMMA IntStartRead ==
  ASSUME TokenizerTypeOK, NextToken, NEW b \in Seq(Symbol), Loaded(b), NEW whole \in 1 .. Len(b),
         NEW x \in Item, IsItem(b, whole, x), x.type = "i",
         status = "start", current = x.at, x.at <= data_size
  PROVE  /\ err' = "OK" /\ status' = "int_parse" /\ current' = x.text /\ token' = <<"i">>
         /\ list_dict_stack' = list_dict_stack
<1>1. /\ data_size \in Nat /\ data_size <= Len(mem) /\ x.at \in Nat \ {0} /\ current \in Nat
      /\ mem \in Seq(Symbol) /\ Len(mem) \in Nat
  BY ItemPlaces
<1>2. mem[current] = "i" /\ x.text = current + 1
  BY <1>1 DEF Loaded, IsItem
<1>3. mem[current] \notin Space /\ mem[current] \notin Digit
  BY <1>2, NoDigits DEF Space
<1>4. \/ IntStart(current) \/ StrStart(current) \/ ListDictStart(current) \/ ListDictEnd(current)
      \/ mem[current] \notin Digit \cup {"i", "l", "d", "e"} /\ Malformed(current)
  BY <1>3, StartsHere
<1>5. IntStart(current)
  BY <1>2, <1>3, <1>4 DEF ListDictStart, ListDictEnd, StrStart
<1>6. token' = <<"i">>
  <2>1. token' = SubSeq(mem, current, (current + 1) - 1) /\ (current + 1) - 1 = current
    BY <1>1, <1>5 DEF Emit, IntStart
  <2>2. SubSeq(mem, current, current) = <<mem[current]>>
    <3>1. current \in 1 .. Len(mem)
      BY <1>1
    <3> QED
      BY <1>1, <3>1, OneSlice
  <2> QED
    BY <1>2, <2>1, <2>2
<1> QED
  BY <1>2, <1>5, <1>6 DEF Emit, IntStart

\* The digits of an integer.
LEMMA IntParseRead ==
  ASSUME TokenizerTypeOK, NextToken, NEW b \in Seq(Symbol), Loaded(b), NEW whole \in 1 .. Len(b),
         NEW x \in Item, IsItem(b, whole, x), x.type = "i",
         status = "int_parse", current = x.text, x.next - 1 <= data_size
  PROVE  /\ err' = "OK" /\ status' = "int_end" /\ current' = x.next - 1 /\ token' = TextOf(b, x)
         /\ list_dict_stack' = list_dict_stack
<1> DEFINE p == IF current < EndOfMem /\ mem[current] = "-" THEN current + 1 ELSE current
           q == x.next - 1
<1>1. /\ data_size \in Nat /\ data_size <= Len(mem) /\ x.at \in Nat \ {0} /\ current \in Nat
      /\ mem \in Seq(Symbol) /\ Len(mem) \in Nat /\ EndOfMem = Len(mem) + 1 /\ x.next \in Nat
  BY ItemPlaces
<1>2. /\ current < x.next /\ current # 0 /\ b[q] = "e"
      /\ \A j \in current .. x.next - 2 : b[j] \in Digit \/ (j = current /\ b[j] = "-")
  BY <1>1 DEF IsItem
<1>3. q \in Nat /\ q # 0 /\ current <= q /\ q < EndOfMem /\ q <= data_size /\ x.next - 2 = q - 1 /\ EndOfMem \in Nat
  BY <1>1, <1>2
<1> HIDE DEF q
<1>4. ASSUME NEW j \in current .. q PROVE mem[j] = b[j]
  <2>1. j \in 1 .. data_size
    BY <1>1, <1>2, <1>3
  <2> QED
    BY <2>1 DEF Loaded
<1>5. mem[q] = "e"
  BY <1>2, <1>3, <1>4
<1>6. p \in Nat /\ current <= p /\ q \in p .. EndOfMem
  <2>1. CASE current = q
    <3>1. mem[current] # "-"
      BY <1>5, <2>1
    <3> QED
      BY <1>1, <1>3, <2>1, <3>1
  <2>2. CASE current # q
    BY <1>1, <1>3, <2>2
  <2> QED
    BY <2>1, <2>2
<1>7. ASSUME NEW j \in p .. q - 1 PROVE mem[j] \in Digit
  <2>1. j \in current .. q /\ j \in current .. x.next - 2
    BY <1>1, <1>3, <1>6
  <2>2. mem[j] = b[j] /\ (b[j] \in Digit \/ (j = current /\ b[j] = "-"))
    BY <1>2, <1>4, <2>1
  <2>3. CASE j = current /\ mem[j] = "-"
    <3>1. p = current + 1
      BY <1>3, <1>1, <2>3
    <3> QED
      BY <1>1, <2>3, <3>1
  <2> QED
    BY <2>2, <2>3
<1> HIDE DEF p
<1>8. After(p, Digit, EndOfMem) = q
  <2>1. mem[q] \notin Digit
    BY <1>5, NoDigits
  <2> QED
    BY <1>3, <1>6, <1>7, <2>1, FirstNot
<1>9. IntParse
  BY DEF NextToken, Start, IntEnd, StrParse
<1>10. Emit(current, q, "int_end") /\ UNCHANGED <<str_len, list_dict_stack>>
  BY <1>3, <1>8, <1>9 DEF IntParse, p
<1>11. token' = TextOf(b, x)
  <2>1. token' = SubSeq(mem, current, q - 1)
    BY <1>10 DEF Emit
  <2>2. current \in Nat \ {0} /\ q - 1 \in Nat /\ current <= (q - 1) + 1 /\ q - 1 <= data_size
    BY <1>1, <1>2, <1>3
  <2>3. SubSeq(mem, current, q - 1) = SubSeq(b, current, q - 1)
    BY <1>1, <2>2, SameSlice
  <2> QED
    BY <1>3, <2>1, <2>3 DEF TextOf
<1> QED
  BY <1>10, <1>11 DEF Emit, q

\* The end of an integer.
LEMMA IntEndRead ==
  ASSUME TokenizerTypeOK, NextToken, NEW b \in Seq(Symbol), Loaded(b), NEW whole \in 1 .. Len(b),
         NEW x \in Item, IsItem(b, whole, x), x.type = "i",
         status = "int_end", current = x.next - 1, x.next - 1 <= data_size
  PROVE  /\ err' = "OK" /\ status' = "start" /\ current' = x.next /\ token' = <<"e">>
         /\ list_dict_stack' = list_dict_stack
<1>1. /\ data_size \in Nat /\ data_size <= Len(mem) /\ x.at \in Nat \ {0} /\ current \in Nat
      /\ mem \in Seq(Symbol) /\ Len(mem) \in Nat /\ x.next \in Nat /\ x.at < x.next
  BY ItemPlaces
<1>2. current \in 1 .. Len(mem) /\ current \in 1 .. data_size /\ current + 1 = x.next
  BY <1>1
<1>3. mem[current] = "e"
  BY <1>2 DEF Loaded, IsItem
<1>4. IntEnd
  BY DEF NextToken, Start, IntParse, StrParse
<1>5. Emit(current, current + 1, "start") /\ UNCHANGED <<str_len, list_dict_stack>>
  BY <1>3, <1>4 DEF IntEnd
<1>6. token' = <<"e">>
  <2>1. token' = SubSeq(mem, current, (current + 1) - 1) /\ (current + 1) - 1 = current
    BY <1>1, <1>5 DEF Emit
  <2>2. SubSeq(mem, current, current) = <<mem[current]>>
    BY <1>1, <1>2, OneSlice
  <2> QED
    BY <1>3, <2>1, <2>2
<1> QED
  BY <1>2, <1>5, <1>6 DEF Emit

\* The predecessor of a natural number.
LEMMA NaturalBefore ==
  ASSUME NEW n \in Nat, n # 0
  PROVE  n - 1 \in Nat /\ (n - 1) + 1 = n
OBVIOUS

\* Where the colon of a string lies.
LEMMA ColonAt ==
  ASSUME NEW at \in Nat, NEW text \in Nat, at + 2 <= text
  PROVE  text - 1 \in Nat /\ at < text - 1 /\ text - 2 = (text - 1) - 1 /\ text = (text - 1) + 1
OBVIOUS

\* The length of a string, up to the colon.
LEMMA StrStartRead ==
  ASSUME TokenizerTypeOK, NextToken, NEW b \in Seq(Symbol), Loaded(b), NEW whole \in 1 .. Len(b),
         NEW x \in Item, IsItem(b, whole, x), x.type = "s",
         status = "start", current = x.at, x.text - 1 <= data_size
  PROVE  /\ err' = "OK" /\ status' = "str_parse" /\ current' = x.text /\ token' = <<"s">>
         /\ list_dict_stack' = list_dict_stack /\ str_len' = x.next - x.text
<1> DEFINE q == x.text - 1
           n == Number(SubSeq(b, x.at, x.text - 2))
<1> HIDE DEF q, n
<1>1. /\ data_size \in Nat /\ data_size <= Len(mem) /\ x.at \in Nat \ {0} /\ current \in Nat
      /\ mem \in Seq(Symbol) /\ Len(mem) \in Nat /\ EndOfMem = Len(mem) + 1 /\ x.next \in Nat
      /\ x.text \in Nat
  BY ItemPlaces
<1>2. /\ x.text \in x.at + 2 .. x.next /\ b[q] = ":"
      /\ \A j \in x.at .. x.text - 2 : b[j] \in Digit
      /\ x.next = x.text + n
  BY DEF IsItem, q, n
<1>17. x.at + 2 <= x.text
  BY <1>1, <1>2
<1>3. q \in Nat /\ x.at < q /\ q < EndOfMem /\ q <= data_size /\ x.text - 2 = q - 1 /\ EndOfMem \in Nat
      /\ x.text = q + 1
  <2>1. q = x.text - 1 /\ q <= data_size
    BY DEF q
  <2>2. q \in Nat /\ x.at < q /\ x.text - 2 = q - 1 /\ x.text = q + 1
    BY <1>1, <1>17, <2>1, ColonAt
  <2> QED
    BY <1>1, <2>1, <2>2
<1>4. ASSUME NEW j \in x.at .. q PROVE mem[j] = b[j]
  <2>1. j \in 1 .. data_size
    BY <1>1, <1>3
  <2> QED
    BY <2>1 DEF Loaded
<1>5. /\ x.at \in Nat \ {0} /\ q - 1 \in Nat /\ x.at <= (q - 1) + 1 /\ q - 1 <= data_size
      /\ q - 1 <= Len(b)
  <2>1. data_size <= Len(b) /\ Len(b) \in Nat
    BY DEF Loaded
  <2> QED
    BY <1>1, <1>3, <2>1
<1>6. SubSeq(mem, x.at, q - 1) = SubSeq(b, x.at, q - 1)
  BY <1>1, <1>5, SameSlice
<1>7. n \in Nat
  <2>1. \A j \in x.at .. q - 1 : b[j] \in Digit
    BY <1>2, <1>3
  <2>2. SubSeq(b, x.at, q - 1) \in Seq(Digit)
    BY <1>5, <2>1, DigitsOfSlice
  <2>3. n = Number(SubSeq(b, x.at, q - 1))
    BY <1>3 DEF n
  <2> QED
    BY <2>2, <2>3, NumberIsNatural
<1>8. n = Number(SubSeq(mem, x.at, q - 1))
  BY <1>3, <1>6 DEF n
<1>9. mem[q] = ":" /\ q \in x.at .. EndOfMem /\ \A j \in x.at .. q - 1 : mem[j] \in Digit
  <2>1. q \in x.at .. q /\ q \in x.at .. EndOfMem
    BY <1>1, <1>3
  <2>2. ASSUME NEW j \in x.at .. q - 1 PROVE mem[j] \in Digit
    <3>1. j \in x.at .. q /\ j \in x.at .. x.text - 2
      BY <1>1, <1>3
    <3> QED
      BY <1>2, <1>4, <3>1
  <2> QED
    BY <1>2, <1>4, <2>1, <2>2
<1>10. mem[x.at] \in Digit /\ mem[x.at] \notin Space
  <2>1. x.at \in x.at .. q - 1
    BY <1>1, <1>3
  <2> QED
    BY <1>9, <2>1, NoDigits DEF Space
<1>11. After(x.at, Digit, EndOfMem) = q
  <2>1. mem[q] \notin Digit
    BY <1>9, NoDigits
  <2> QED
    BY <1>1, <1>3, <1>9, <2>1, FirstNot
<1>12. current <= data_size
  BY <1>1, <1>3
<1>13. \/ IntStart(current) \/ StrStart(current) \/ ListDictStart(current) \/ ListDictEnd(current)
       \/ mem[current] \notin Digit \cup {"i", "l", "d", "e"} /\ Malformed(current)
  BY <1>10, <1>12, StartsHere
<1>14. StrStart(x.at)
  BY <1>10, <1>13, NoDigits DEF IntStart, ListDictStart, ListDictEnd
<1>15. /\ str_len' = n /\ current' = q + 1 /\ token' = <<"s">> /\ status' = "str_parse" /\ err' = "OK"
       /\ list_dict_stack' = list_dict_stack
  <2>1. q # EndOfMem
    BY <1>3
  <2> QED
    BY <1>8, <1>9, <1>11, <1>14, <2>1 DEF StrStart
<1>16. n = x.next - x.text
  BY <1>1, <1>2, <1>7
<1> QED
  BY <1>3, <1>15, <1>16

\* The contents of a string.
LEMMA StrParseRead ==
  ASSUME TokenizerTypeOK, NextToken, NEW b \in Seq(Symbol), Loaded(b), NEW whole \in 1 .. Len(b),
         NEW x \in Item, IsItem(b, whole, x), x.type = "s",
         status = "str_parse", current = x.text, str_len = x.next - x.text, x.next - 1 <= data_size
  PROVE  /\ err' = "OK" /\ status' = "start" /\ current' = x.next /\ token' = TextOf(b, x)
         /\ list_dict_stack' = list_dict_stack
<1>1. /\ data_size \in Nat /\ data_size <= Len(mem) /\ x.at \in Nat \ {0} /\ current \in Nat
      /\ mem \in Seq(Symbol) /\ Len(mem) \in Nat /\ EndOfMem = Len(mem) + 1 /\ x.next \in Nat
      /\ x.text \in Nat
  BY ItemPlaces
<1>2. x.at + 2 <= x.text /\ x.text <= x.next
  <2>1. x.text \in x.at + 2 .. x.next
    BY DEF IsItem
  <2> QED
    BY <1>1, <2>1
<1>3. current + str_len = x.next /\ x.next <= EndOfMem
  <2>1. current + str_len = x.text + (x.next - x.text)
    OBVIOUS
  <2>2. x.text + (x.next - x.text) = x.next
    BY <1>1
  <2>3. x.next <= EndOfMem
    BY <1>1
  <2> QED
    BY <2>1, <2>2, <2>3
<1>4. StrParse
  BY DEF NextToken, Start, IntParse, IntEnd
<1>5. ~(current + str_len > EndOfMem)
  BY <1>1, <1>3
<1>6. Emit(current, x.next, "start") /\ UNCHANGED <<str_len, list_dict_stack>>
  BY <1>3, <1>4, <1>5 DEF StrParse
<1>7. current \in Nat \ {0} /\ x.next - 1 \in Nat /\ current <= (x.next - 1) + 1 /\ x.next - 1 <= data_size
  <2>1. current # 0 /\ x.next # 0 /\ current <= x.next
    BY <1>1, <1>2
  <2>2. x.next - 1 \in Nat /\ (x.next - 1) + 1 = x.next
    BY <1>1, <2>1, NaturalBefore
  <2> QED
    BY <1>1, <2>1, <2>2
<1>8. SubSeq(mem, current, x.next - 1) = SubSeq(b, current, x.next - 1)
  BY <1>1, <1>7, SameSlice
<1>9. token' = TextOf(b, x)
  BY <1>6, <1>8 DEF Emit, TextOf
<1> QED
  BY <1>6, <1>9 DEF Emit

\* A symbol that starts nothing.
LEMMA WrongRead ==
  ASSUME TokenizerTypeOK, NextToken, NEW b \in Seq(Symbol), Loaded(b), NEW whole \in 1 .. Len(b),
         NEW x \in Item, IsItem(b, whole, x), x.type = "?",
         status = "start", current = x.at, x.at <= data_size
  PROVE  err' = "MALFORMED" /\ status' = "error"
<1>1. /\ data_size \in Nat /\ data_size <= Len(mem) /\ x.at \in Nat \ {0} /\ current \in Nat
  BY ItemPlaces
<1>2. mem[current] \notin Digit \cup Space \cup {"i", "l", "d", "e"}
  BY <1>1 DEF Loaded, IsItem
<1>3. \/ IntStart(current) \/ StrStart(current) \/ ListDictStart(current) \/ ListDictEnd(current)
      \/ mem[current] \notin Digit \cup {"i", "l", "d", "e"} /\ Malformed(current)
  BY <1>2, StartsHere
<1> QED
  BY <1>2, <1>3 DEF IntStart, StrStart, ListDictStart, ListDictEnd, Malformed, Stop

\* Nothing but spaces up to the end of the data.
LEMMA EndRead ==
  ASSUME TokenizerTypeOK, NextToken, status = "start", current <= EndOfData,
         \A j \in current .. data_size : mem[j] \in Space
  PROVE  IF list_dict_stack > 0 THEN err' = "MALFORMED" /\ status' = "error"
         ELSE err' = "END" /\ status' = "end" /\ current' = EndOfData
<1> DEFINE limit == IF current <= EndOfData THEN EndOfData ELSE EndOfMem
           p     == After(current, Space, limit)
<1>1. /\ EndOfData = data_size + 1 /\ EndOfMem = Len(mem) + 1 /\ data_size \in 0 .. Len(mem)
      /\ current \in 1 .. EndOfMem /\ Len(mem) \in Nat /\ list_dict_stack \in Int
  BY PlacesAre
<1>2. limit = EndOfData /\ current \in Nat /\ limit \in Nat /\ limit \in current .. limit /\ limit - 1 = data_size
  BY <1>1
<1> HIDE DEF limit
<1>3. p = EndOfData
  BY <1>2, FirstNot
<1>4. Start
  BY DEF NextToken, IntParse, IntEnd, StrParse
<1>5. \/ End(p)
      \/ p # EndOfData /\ p = EndOfMem /\ Crash
      \/ p \notin {EndOfData, EndOfMem}
  BY <1>4 DEF Start, limit
<1> HIDE DEF p
<1>6. End(EndOfData)
  BY <1>3, <1>5
<1>7. CASE list_dict_stack > 0
  <2>1. ~(list_dict_stack <= 0)
    BY <1>1, <1>7
  <2> QED
    BY <1>6, <1>7, <2>1 DEF End, Malformed, Stop
<1>8. CASE ~(list_dict_stack > 0)
  BY <1>6, <1>8 DEF End, Stop
<1> QED
  BY <1>7, <1>8

-------------------------------------------------------------------------------
(* The scanner where the data ends inside an item.                         *)

\* The data ends inside an integer: the scan of its digits goes to the end or past it.
LEMMA IntParseCut ==
  ASSUME TokenizerTypeOK, NextToken, NEW b \in Seq(Symbol), Loaded(b), NEW whole \in 1 .. Len(b),
         NEW x \in Item, IsItem(b, whole, x), x.type = "i",
         status = "int_parse", current = x.text, data_size < x.next - 1
  PROVE  /\ err' # "END"
         /\ status' = "crash" \/ (status' = "int_end" /\ current' >= EndOfData')
<1> DEFINE p == IF current < EndOfMem /\ mem[current] = "-" THEN current + 1 ELSE current
           q == After(p, Digit, EndOfMem)
<1>1. /\ data_size \in Nat /\ data_size <= Len(mem) /\ x.at \in Nat \ {0} /\ current \in Nat
      /\ mem \in Seq(Symbol) /\ Len(mem) \in Nat /\ EndOfMem = Len(mem) + 1 /\ x.next \in Nat
      /\ current <= EndOfMem /\ EndOfData = data_size + 1
  BY ItemPlaces
<1>2. /\ current # 0
      /\ \A j \in current .. x.next - 2 : b[j] \in Digit \/ (j = current /\ b[j] = "-")
  BY <1>1 DEF IsItem
<1>3. p \in Nat /\ current <= p /\ p <= EndOfMem /\ EndOfMem \in Nat
  BY <1>1
<1>4. q \in p .. EndOfMem /\ (q = EndOfMem \/ mem[q] \notin Digit)
  <2> HIDE DEF p
  <2> QED
    BY <1>3, AfterIs
<1>5. IntParse
  BY DEF NextToken, Start, IntEnd, StrParse
<1>6. \/ q = EndOfMem /\ Crash
      \/ q # EndOfMem /\ Emit(current, q, "int_end") /\ UNCHANGED <<str_len, list_dict_stack>>
  BY <1>5 DEF IntParse
<1> HIDE DEF q
<1>7. CASE Crash
  BY <1>7 DEF Crash, Stop
<1>8. CASE q # EndOfMem /\ Emit(current, q, "int_end")
  <2>1. ~(q <= data_size)
    <3> SUFFICES ASSUME q <= data_size PROVE FALSE
      OBVIOUS
    <3>1. q \in Nat /\ current <= q /\ q \in 1 .. data_size
      BY <1>1, <1>2, <1>3, <1>4
    <3>2. mem[q] = b[q]
      BY <3>1 DEF Loaded
    <3>3. q \in current .. x.next - 2
      BY <1>1, <3>1
    <3>4. q = current /\ mem[current] = "-"
      BY <1>2, <1>4, <1>8, <3>2, <3>3
    <3>5. p = current + 1
      BY <1>1, <3>1, <3>4
    <3> QED
      BY <1>1, <1>4, <3>4, <3>5
  <2>2. q >= EndOfData
    BY <1>1, <1>3, <1>4, <2>1
  <2>3. EndOfData' = EndOfData
    BY DEF NextToken, EndOfData
  <2> QED
    BY <1>8, <2>2, <2>3 DEF Emit
<1> QED
  BY <1>6, <1>7, <1>8

\* Behind such a scan the end of the integer, if there is one, lies behind the data.
LEMMA IntEndCut ==
  ASSUME TokenizerTypeOK, NextToken, status = "int_end", current >= EndOfData
  PROVE  /\ err' # "END"
         /\ status' = "error" \/ (status' = "start" /\ current' > EndOfData')
<1>1. current \in Nat /\ EndOfData \in Nat
  BY PlacesAre
<1>2. IntEnd
  BY DEF NextToken, Start, IntParse, StrParse
<1>3. Emit(current, current + 1, "start") \/ Malformed(current)
  BY <1>2 DEF IntEnd
<1>4. EndOfData' = EndOfData /\ current + 1 > EndOfData
  BY <1>1 DEF NextToken, EndOfData
<1> QED
  BY <1>3, <1>4 DEF Emit, Malformed, Stop

\* The data ends inside the length of a string: a colon, if there is one, lies behind it.
LEMMA StrStartCut ==
  ASSUME TokenizerTypeOK, NextToken, NEW b \in Seq(Symbol), Loaded(b), NEW whole \in 1 .. Len(b),
         NEW x \in Item, IsItem(b, whole, x), x.type = "s",
         status = "start", current = x.at, x.at <= data_size, data_size < x.text - 1
  PROVE  /\ err' # "END"
         /\ status' \in {"error", "crash"} \/ (status' = "str_parse" /\ current' > EndOfData')
<1> DEFINE q == After(x.at, Digit, EndOfMem)
<1>1. /\ data_size \in Nat /\ data_size <= Len(mem) /\ x.at \in Nat \ {0} /\ current \in Nat
      /\ Len(mem) \in Nat /\ EndOfMem = Len(mem) + 1 /\ x.text \in Nat /\ EndOfData = data_size + 1
  BY ItemPlaces
<1>2. \A j \in x.at .. x.text - 2 : b[j] \in Digit
  BY DEF IsItem
<1>3. x.at <= EndOfMem /\ EndOfMem \in Nat /\ x.at \in Nat
  BY <1>1
<1>4. q \in x.at .. EndOfMem /\ (q = EndOfMem \/ mem[q] \notin Digit)
  BY <1>3, AfterIs
<1> HIDE DEF q
<1>5. ASSUME NEW j \in x.at .. data_size PROVE mem[j] \in Digit
  <2>1. j \in 1 .. data_size /\ j \in x.at .. x.text - 2
    BY <1>1
  <2> QED
    BY <1>2, <2>1 DEF Loaded
<1>6. mem[current] \in Digit /\ mem[current] \notin Space
  <2>1. x.at \in x.at .. data_size
    BY <1>1
  <2> QED
    BY <1>5, <2>1, NoDigits DEF Space
<1>7. \/ IntStart(current) \/ StrStart(current) \/ ListDictStart(current) \/ ListDictEnd(current)
      \/ mem[current] \notin Digit \cup {"i", "l", "d", "e"} /\ Malformed(current)
  BY <1>6, StartsHere
<1>8. StrStart(x.at)
  BY <1>6, <1>7, NoDigits DEF IntStart, ListDictStart, ListDictEnd
<1>9. \/ q = EndOfMem /\ Crash
      \/ q # EndOfMem /\ status' = "error" /\ err' = "MALFORMED"
      \/ q # EndOfMem /\ current' = q + 1 /\ status' = "str_parse" /\ err' = "OK"
  BY <1>8 DEF StrStart, q
<1>10. CASE q = EndOfMem /\ Crash
  BY <1>10 DEF Crash, Stop
<1>11. CASE q # EndOfMem /\ current' = q + 1 /\ status' = "str_parse" /\ err' = "OK"
  <2>1. q \in Nat /\ ~(q <= data_size)
    BY <1>1, <1>3, <1>4, <1>5, <1>11
  <2>2. q + 1 > EndOfData
    BY <1>1, <2>1
  <2>3. EndOfData' = EndOfData
    BY DEF NextToken, EndOfData
  <2> QED
    BY <1>11, <2>2, <2>3
<1> QED
  BY <1>9, <1>10, <1>11

\* The data ends inside a string: the scanner jumps over its end or leaves the memory.
LEMMA StrParseCut ==
  ASSUME TokenizerTypeOK, NextToken, NEW b \in Seq(Symbol), Loaded(b), NEW whole \in 1 .. Len(b),
         NEW x \in Item, IsItem(b, whole, x), x.type = "s",
         status = "str_parse", current = x.text, str_len = x.next - x.text, data_size < x.next - 1
  PROVE  /\ err' # "END"
         /\ status' = "crash" \/ (status' = "start" /\ current' > EndOfData')
<1>1. /\ data_size \in Nat /\ x.next \in Nat /\ x.text \in Nat /\ EndOfData = data_size + 1
  BY ItemPlaces
<1>2. current + str_len = x.next
  <2>1. current + str_len = x.text + (x.next - x.text)
    OBVIOUS
  <2>2. x.text + (x.next - x.text) = x.next
    BY <1>1
  <2> QED
    BY <2>1, <2>2
<1>3. StrParse
  BY DEF NextToken, Start, IntParse, IntEnd
<1>4. Crash \/ Emit(current, x.next, "start")
  BY <1>2, <1>3 DEF StrParse
<1>5. EndOfData' = EndOfData /\ x.next > EndOfData
  BY <1>1 DEF NextToken, EndOfData
<1> QED
  BY <1>4, <1>5 DEF Crash, Emit, Stop

\* Behind the end of the data, it is not met any more.
LEMMA PastTheEnd ==
  ASSUME TokenizerTypeOK, NextToken, current > EndOfData
  PROVE  err' # "END" /\ status' # "end" /\ current' > EndOfData'
<1>1. Moves /\ mem' = mem /\ data_size' = data_size
  BY NextTokenMoves
<1>2. current <= current' /\ EndOfData' = EndOfData
  BY <1>1 DEF Moves, EndOfData
<1>3. current \in Nat /\ EndOfData \in Nat
  BY PlacesAre
<1>4. current' \in Nat
  BY <1>1 DEF Moves, TokenizerTypeOK, EndOfMem
<1>5. current' > EndOfData'
  BY <1>2, <1>3, <1>4
<1>6. err' # "END"
  <2> SUFFICES ASSUME err' = "END" PROVE FALSE
    OBVIOUS
  <2>1. current' = EndOfData'
    BY EndIsExact
  <2> QED
    BY <1>2, <1>3, <1>5, <2>1
<1>7. status' = "end" => err' = "END"
  BY DEF NextToken, Start, IntParse, IntEnd, StrParse, End, IntStart, StrStart, ListDictStart, ListDictEnd,
         Malformed, Crash, Stop, Emit
<1> QED
  BY <1>5, <1>6, <1>7

-------------------------------------------------------------------------------
(* The scanner and the items of a text.                                    *)

\* Behind n items: where, and how deep.
Place(items, n) == IF n = 0 THEN 1 ELSE items[n].next
Depth(items, n) == IF n = 0 THEN 0 ELSE items[n].depth

\* n items have been read, and maybe a part of the next one.
At(items, n) ==
  /\ list_dict_stack = Depth(items, n)
  /\ \/ status = "start" /\ current = Place(items, n)
     \/ /\ n < Len(items) /\ items[n + 1].type = "i"
        /\ \/ status = "int_parse" /\ current = items[n + 1].text
           \/ status = "int_end" /\ current = items[n + 1].next - 1
     \/ /\ n < Len(items) /\ items[n + 1].type = "s" /\ status = "str_parse"
        /\ current = items[n + 1].text /\ str_len = items[n + 1].next - items[n + 1].text

\* The item behind the first n, and how it joins them.
LEMMA NextItem ==
  ASSUME NEW b \in Seq(Symbol), NEW whole, NEW items, IsReading(b, whole, items),
         NEW n \in 0 .. Len(items) - 1
  PROVE  /\ whole \in 1 .. Len(b) /\ items \in Seq(Item) /\ Len(items) \in Nat
         /\ n \in Nat /\ n + 1 \in 1 .. Len(items)
         /\ items[n + 1] \in Item /\ IsItem(b, whole, items[n + 1])
         /\ Place(items, n) = items[n + 1].at /\ Place(items, n + 1) = items[n + 1].next
         /\ Depth(items, n) \in Int
         /\ Depth(items, n + 1) = Depth(items, n) + Change(items[n + 1])
         /\ n # 0 => Depth(items, n) > 0
<1>1. whole \in 1 .. Len(b) /\ items \in Seq(Item) /\ items # <<>>
  BY DEF IsReading
<1>2. Len(items) \in Nat /\ n \in Nat /\ n + 1 \in 1 .. Len(items)
  BY <1>1
<1>3. items[n + 1] \in Item /\ IsItem(b, whole, items[n + 1])
  BY <1>1, <1>2 DEF IsReading
<1>4. CASE n = 0
  <2>1. items[1].at = 1 /\ items[1].type \in {"l", "d"} /\ items[1].depth = 1
    BY DEF IsReading
  <2>2. n + 1 = 1 /\ Change(items[1]) = 1
    BY <1>4, <2>1 DEF Change
  <2>3. Place(items, n) = 1 /\ Depth(items, n) = 0
    BY <1>4 DEF Place, Depth
  <2>4. Place(items, n + 1) = items[1].next /\ Depth(items, n + 1) = items[1].depth
    BY <2>2 DEF Place, Depth
  <2> QED
    BY <1>1, <1>2, <1>3, <1>4, <2>1, <2>2, <2>3, <2>4
<1>5. CASE n # 0
  <2>1. n \in 1 .. Len(items) - 1 /\ n \in 1 .. Len(items) /\ n + 1 # 0
    BY <1>2, <1>5
  <2>2. /\ items[n].depth > 0 /\ items[n + 1].at = items[n].next
        /\ items[n + 1].depth = items[n].depth + Change(items[n + 1])
    BY <2>1 DEF IsReading
  <2>3. items[n].depth \in Int
    <3>1. items[n] \in Item
      BY <1>1, <2>1
    <3> QED
      BY <3>1 DEF Item
  <2>4. Place(items, n) = items[n].next /\ Depth(items, n) = items[n].depth
    BY <1>5 DEF Place, Depth
  <2>5. Place(items, n + 1) = items[n + 1].next /\ Depth(items, n + 1) = items[n + 1].depth
    BY <2>1 DEF Place, Depth
  <2> QED
    BY <1>1, <1>2, <1>3, <2>2, <2>3, <2>4, <2>5
<1> QED
  BY <1>4, <1>5

\* The next token of a text, behind n of its items.
ReadsOn(b, items, n) ==
  /\ err' = "OK"
  /\ \/ /\ items[n + 1].type \in {"l", "d", "e"} /\ token' = <<items[n + 1].type>>
        /\ status = "start" /\ status' = "start" /\ At(items, n + 1)'
     \/ /\ items[n + 1].type = "i" /\ token' = <<"i">>
        /\ status = "start" /\ status' = "int_parse" /\ At(items, n)'
     \/ /\ items[n + 1].type = "i" /\ token' = TextOf(b, items[n + 1])
        /\ status = "int_parse" /\ status' = "int_end" /\ At(items, n)'
     \/ /\ items[n + 1].type = "i" /\ token' = <<"e">>
        /\ status = "int_end" /\ status' = "start" /\ At(items, n + 1)'
     \/ /\ items[n + 1].type = "s" /\ token' = <<"s">>
        /\ status = "start" /\ status' = "str_parse" /\ At(items, n)'
     \/ /\ items[n + 1].type = "s" /\ token' = TextOf(b, items[n + 1])
        /\ status = "str_parse" /\ status' = "start" /\ At(items, n + 1)'

\* A call of next() inside the data reads the next token of the next item.
LEMMA ItemRead ==
  ASSUME TokenizerTypeOK, NextToken, NEW b \in Seq(Symbol), Loaded(b),
         NEW whole, NEW items, IsReading(b, whole, items),
         NEW n \in 0 .. Len(items) - 1, At(items, n),
         items[n + 1].next - 1 <= data_size, items[n + 1].type # "?"
  PROVE  ReadsOn(b, items, n)
<1> DEFINE x == items[n + 1]
<1>1. /\ whole \in 1 .. Len(b) /\ x \in Item /\ IsItem(b, whole, x)
      /\ Place(items, n) = x.at /\ Place(items, n + 1) = x.next
      /\ Depth(items, n) \in Int /\ Depth(items, n + 1) = Depth(items, n) + Change(x)
      /\ Len(items) \in Nat /\ n \in Nat
  BY NextItem
<1> HIDE DEF x
<1>2. x.type \in {"l", "d", "e", "i", "s"} /\ x.next - 1 <= data_size
  BY <1>1 DEF x, Item
<1>3. n < Len(items) /\ list_dict_stack = Depth(items, n)
  BY <1>1 DEF At
<1>4. /\ data_size \in Nat /\ x.at \in Nat \ {0} /\ x.next \in Nat /\ x.at < x.next /\ x.text \in Nat
  BY <1>1, ItemPlaces
<1>5. x.at <= data_size
  BY <1>2, <1>4
<1>6. x.type = "s" => x.text - 1 <= data_size
  <2> SUFFICES ASSUME x.type = "s" PROVE x.text - 1 <= data_size
    OBVIOUS
  <2>1. x.text <= x.next
    BY <1>1, <1>4 DEF IsItem
  <2> QED
    BY <1>2, <1>4, <2>1
<1>7. x.type \in {"i", "s"} => Depth(items, n + 1) = Depth(items, n)
  <2>1. x.type \in {"i", "s"} => Change(x) = 0
    BY DEF Change
  <2> QED
    BY <1>1, <2>1
<1>8. CASE x.type \in {"l", "d", "e"}
  <2>1. status = "start" /\ current = x.at
    BY <1>1, <1>8 DEF At, x
  <2>2. /\ err' = "OK" /\ status' = "start" /\ current' = x.next /\ token' = <<x.type>>
        /\ list_dict_stack' = list_dict_stack + Change(x)
    BY <1>1, <1>5, <1>8, <2>1, BracketRead
  <2>3. At(items, n + 1)'
    BY <1>1, <1>3, <2>2 DEF At
  <2> QED
    BY <1>8, <2>1, <2>2, <2>3 DEF ReadsOn, x
<1>9. CASE x.type = "i"
  <2>1. CASE status = "start"
    <3>1. current = x.at
      BY <1>1, <2>1 DEF At
    <3>2. /\ err' = "OK" /\ status' = "int_parse" /\ current' = x.text /\ token' = <<"i">>
          /\ list_dict_stack' = list_dict_stack
      BY <1>1, <1>5, <1>9, <2>1, <3>1, IntStartRead
    <3>3. At(items, n)'
      BY <1>3, <1>9, <3>2 DEF At, x
    <3> QED
      BY <1>9, <2>1, <3>2, <3>3 DEF ReadsOn, x
  <2>2. CASE status = "int_parse"
    <3>1. current = x.text
      BY <2>2 DEF At, x
    <3>2. /\ err' = "OK" /\ status' = "int_end" /\ current' = x.next - 1 /\ token' = TextOf(b, x)
          /\ list_dict_stack' = list_dict_stack
      BY <1>1, <1>2, <1>9, <2>2, <3>1, IntParseRead
    <3>3. At(items, n)'
      BY <1>3, <1>9, <3>2 DEF At, x
    <3> QED
      BY <1>9, <2>2, <3>2, <3>3 DEF ReadsOn, x
  <2>3. CASE status = "int_end"
    <3>1. current = x.next - 1
      BY <2>3 DEF At, x
    <3>2. /\ err' = "OK" /\ status' = "start" /\ current' = x.next /\ token' = <<"e">>
          /\ list_dict_stack' = list_dict_stack
      BY <1>1, <1>2, <1>9, <2>3, <3>1, IntEndRead
    <3>3. At(items, n + 1)'
      BY <1>1, <1>3, <1>7, <1>9, <3>2 DEF At
    <3> QED
      BY <1>9, <2>3, <3>2, <3>3 DEF ReadsOn, x
  <2> QED
    BY <1>9, <2>1, <2>2, <2>3 DEF At, x
<1>10. CASE x.type = "s"
  <2>1. CASE status = "start"
    <3>1. current = x.at
      BY <1>1, <2>1 DEF At
    <3>2. /\ err' = "OK" /\ status' = "str_parse" /\ current' = x.text /\ token' = <<"s">>
          /\ list_dict_stack' = list_dict_stack /\ str_len' = x.next - x.text
      BY <1>1, <1>6, <1>10, <2>1, <3>1, StrStartRead
    <3>3. At(items, n)'
      BY <1>3, <1>10, <3>2 DEF At, x
    <3> QED
      BY <1>10, <2>1, <3>2, <3>3 DEF ReadsOn, x
  <2>2. CASE status = "str_parse"
    <3>1. current = x.text /\ str_len = x.next - x.text
      BY <2>2 DEF At, x
    <3>2. /\ err' = "OK" /\ status' = "start" /\ current' = x.next /\ token' = TextOf(b, x)
          /\ list_dict_stack' = list_dict_stack
      BY <1>1, <1>2, <1>10, <2>2, <3>1, StrParseRead
    <3>3. At(items, n + 1)'
      BY <1>1, <1>3, <1>7, <1>10, <3>2 DEF At
    <3> QED
      BY <1>10, <2>2, <3>2, <3>3 DEF ReadsOn, x
  <2> QED
    BY <1>10, <2>1, <2>2 DEF At, x
<1> QED
  BY <1>2, <1>8, <1>9, <1>10

-------------------------------------------------------------------------------
(* A torrent that is cut.                                                  *)

\* Where the scanner can be in a text that ends too early: stopped, behind the end of
\* the data, between the digits of an integer there, or at one of the items before.
CutAt(items) ==
  \/ status \in {"error", "crash"}
  \/ current > EndOfData /\ status # "end"
  \/ current >= EndOfData /\ status = "int_end"
  \/ current <= EndOfData /\ \E n \in 0 .. Len(items) - 1 : At(items, n)

\* At an item, with the next one in the data or at least begun there.
LEMMA StillCut ==
  ASSUME TokenizerTypeOK', NEW items, NEW n \in 0 .. Len(items) - 1, At(items, n)', status' # "end"
  PROVE  CutAt(items)'
<1>1. current' \in Int /\ EndOfData' \in Int
  BY DEF TokenizerTypeOK, EndOfData, EndOfMem
<1>2. current' > EndOfData' \/ current' <= EndOfData'
  BY <1>1
<1> QED
  BY <1>2 DEF CutAt

\* In the item in which the data ends, the scanner fails or passes the end.
LEMMA CutInItem ==
  ASSUME TokenizerTypeOK, NextToken, TokenizerTypeOK', NEW b \in Seq(Symbol), Loaded(b),
         NEW whole, NEW items, IsReading(b, whole, items),
         NEW n \in 0 .. Len(items) - 1, At(items, n),
         items[n + 1].at <= data_size, data_size < items[n + 1].next - 1
  PROVE  CutAt(items)' /\ err' # "END"
<1> DEFINE x == items[n + 1]
<1>1. /\ whole \in 1 .. Len(b) /\ x \in Item /\ IsItem(b, whole, x)
      /\ Place(items, n) = x.at /\ n < Len(items) /\ list_dict_stack = Depth(items, n)
  BY NextItem DEF At
<1> HIDE DEF x
<1>2. x.at <= data_size /\ data_size < x.next - 1 /\ x.type \in {"l", "d", "e", "i", "s", "?"}
  BY <1>1 DEF x, Item
<1>3. /\ data_size \in Nat /\ x.at \in Nat \ {0} /\ x.next \in Nat /\ x.at < x.next /\ x.text \in Nat
      /\ EndOfData = data_size + 1 /\ current \in Nat
  BY <1>1, ItemPlaces
<1>4. x.type \notin {"l", "d", "e"}
  <2> SUFFICES ASSUME x.type \in {"l", "d", "e"} PROVE FALSE
    OBVIOUS
  <2>1. x.next = x.at + 1
    BY <1>1 DEF IsItem
  <2> QED
    BY <1>2, <1>3, <2>1
<1>5. CASE x.type = "?"
  <2>1. status = "start" /\ current = x.at
    BY <1>1, <1>5 DEF At, x
  <2> QED
    BY <1>1, <1>2, <1>5, <2>1, WrongRead DEF CutAt
<1>6. CASE x.type = "i"
  <2>1. CASE status = "start"
    <3>1. current = x.at
      BY <1>1, <2>1 DEF At
    <3>2. /\ err' = "OK" /\ status' = "int_parse" /\ current' = x.text /\ list_dict_stack' = list_dict_stack
      BY <1>1, <1>2, <1>6, <2>1, <3>1, IntStartRead
    <3>3. At(items, n)'
      BY <1>1, <1>6, <3>2 DEF At, x
    <3> QED
      BY <3>2, <3>3, StillCut
  <2>2. CASE status = "int_parse"
    <3>1. current = x.text
      BY <2>2 DEF At, x
    <3> QED
      BY <1>1, <1>2, <1>6, <2>2, <3>1, IntParseCut DEF CutAt
  <2>3. CASE status = "int_end"
    <3>1. current = x.next - 1
      BY <2>3 DEF At, x
    <3>2. current >= EndOfData
      BY <1>2, <1>3, <3>1
    <3> QED
      BY <2>3, <3>2, IntEndCut DEF CutAt
  <2> QED
    BY <1>6, <2>1, <2>2, <2>3 DEF At, x
<1>7. CASE x.type = "s"
  <2>1. CASE status = "start"
    <3>1. current = x.at
      BY <1>1, <2>1 DEF At
    <3>2. CASE x.text - 1 <= data_size
      <4>1. /\ err' = "OK" /\ status' = "str_parse" /\ current' = x.text /\ list_dict_stack' = list_dict_stack
            /\ str_len' = x.next - x.text
        BY <1>1, <1>7, <2>1, <3>1, <3>2, StrStartRead
      <4>2. At(items, n)'
        BY <1>1, <1>7, <4>1 DEF At, x
      <4> QED
        BY <4>1, <4>2, StillCut
    <3>3. CASE ~(x.text - 1 <= data_size)
      <4>1. data_size < x.text - 1
        BY <1>3, <3>3
      <4>2. err' # "END" /\ (status' \in {"error", "crash"} \/ (status' = "str_parse" /\ current' > EndOfData'))
        BY <1>1, <1>2, <1>7, <2>1, <3>1, <4>1, StrStartCut
      <4> QED
        BY <4>2 DEF CutAt
    <3> QED
      BY <3>2, <3>3
  <2>2. CASE status = "str_parse"
    <3>1. current = x.text /\ str_len = x.next - x.text
      BY <2>2 DEF At, x
    <3>2. err' # "END" /\ (status' = "crash" \/ (status' = "start" /\ current' > EndOfData'))
      BY <1>1, <1>2, <1>7, <2>2, <3>1, StrParseCut
    <3> QED
      BY <3>2 DEF CutAt
  <2> QED
    BY <1>7, <2>1, <2>2 DEF At, x
<1> QED
  BY <1>2, <1>4, <1>5, <1>6, <1>7

\* In a cut file no call of next() finds the end, whatever its state.
LEMMA CutStays ==
  ASSUME TokenizerTypeOK, NextToken, NEW b \in Seq(Symbol), Loaded(b),
         NEW whole, NEW items, IsReading(b, whole, items),
         data_size # 0, data_size < whole, CutAt(items)
  PROVE  CutAt(items)' /\ err' # "END"
<1>1. TokenizerTypeOK' /\ mem' = mem /\ data_size' = data_size
  BY NextTokenMoves DEF Moves
<1>2. CASE status = "error"
  BY <1>2 DEF NextToken, Start, IntParse, IntEnd, StrParse, Malformed, Stop, CutAt
<1>3. CASE status = "crash"
  BY <1>3 DEF NextToken, Start, IntParse, IntEnd, StrParse
<1>4. CASE current > EndOfData /\ status # "end"
  BY <1>4, PastTheEnd DEF CutAt
<1>5. CASE current >= EndOfData /\ status = "int_end"
  BY <1>5, IntEndCut DEF CutAt
<1>6. CASE current <= EndOfData /\ \E n \in 0 .. Len(items) - 1 : At(items, n)
  <2>1. PICK n \in 0 .. Len(items) - 1 : At(items, n)
    BY <1>6
  <2> DEFINE x == items[n + 1]
  <2>2. /\ whole \in 1 .. Len(b) /\ x \in Item /\ IsItem(b, whole, x) /\ n \in Nat
        /\ Place(items, n) = x.at /\ n < Len(items) /\ list_dict_stack = Depth(items, n)
        /\ n # 0 => Depth(items, n) > 0
    BY <2>1, NextItem DEF At
  <2>3. Len(items) \in Nat
    BY <2>1, NextItem
  <2> HIDE DEF x
  <2>4. /\ data_size \in Nat /\ x.at \in Nat \ {0} /\ x.next \in Nat /\ x.at < x.next /\ x.text \in Nat
        /\ EndOfData = data_size + 1 /\ current \in Nat
    BY <2>2, ItemPlaces
  <2>5. CASE ~(x.at <= data_size)
    <3>1. x.type = "i" => x.next - 1 >= x.text /\ x.text > EndOfData
      <4> SUFFICES ASSUME x.type = "i" PROVE x.next - 1 >= x.text /\ x.text > EndOfData
        OBVIOUS
      <4>1. x.text = x.at + 1 /\ x.text < x.next
        BY <2>2 DEF IsItem
      <4> QED
        BY <2>4, <2>5, <4>1
    <3>2. x.type = "s" => x.text > EndOfData
      <4> SUFFICES ASSUME x.type = "s" PROVE x.text > EndOfData
        OBVIOUS
      <4>1. x.text \in x.at + 2 .. x.next
        BY <2>2 DEF IsItem
      <4> QED
        BY <2>4, <2>5, <4>1
    <3>3. status = "start" /\ current = x.at
      <4>1. x.type = "i" => ~(current = x.text) /\ ~(current = x.next - 1)
        BY <1>6, <2>4, <3>1
      <4>2. x.type = "s" => ~(current = x.text)
        BY <1>6, <2>4, <3>2
      <4> QED
        BY <2>1, <2>2, <4>1, <4>2 DEF At, x
    <3>4. n # 0
      <4>1. n = 0 => x.at = 1
        BY <2>2 DEF Place
      <4> QED
        BY <2>4, <2>5, <4>1
    <3>5. \A j \in current .. data_size : mem[j] \in Space
      BY <2>4, <2>5, <3>3
    <3>6. err' = "MALFORMED" /\ status' = "error"
      BY <1>6, <2>2, <3>3, <3>4, <3>5, EndRead
    <3> QED
      BY <3>6 DEF CutAt
  <2>6. CASE x.at <= data_size /\ data_size < x.next - 1
    BY <1>1, <2>1, <2>6, CutInItem DEF x
  <2>7. CASE x.at <= data_size /\ x.next - 1 <= data_size /\ x.type = "?"
    <3>1. status = "start" /\ current = x.at
      BY <2>1, <2>2, <2>7 DEF At, x
    <3>2. err' = "MALFORMED" /\ status' = "error"
      BY <2>2, <2>7, <3>1, WrongRead
    <3> QED
      BY <3>2 DEF CutAt
  <2>8. CASE x.at <= data_size /\ x.next - 1 <= data_size /\ x.type # "?"
    <3>1. ReadsOn(b, items, n)
      BY <2>1, <2>8, ItemRead DEF x
    <3>2. n + 1 \in 0 .. Len(items) - 1
      <4>1. n + 1 # Len(items)
        <5> SUFFICES ASSUME n + 1 = Len(items) PROVE FALSE
          OBVIOUS
        <5>1. x.next = whole + 1 /\ whole \in Nat
          BY <2>2 DEF IsReading, x
        <5> QED
          BY <2>4, <2>8, <5>1
      <4> QED
        BY <2>2, <2>3, <4>1
    <3>3. err' = "OK" /\ status' # "end" /\ (At(items, n)' \/ At(items, n + 1)')
      BY <3>1 DEF ReadsOn
    <3> QED
      BY <1>1, <3>2, <3>3, StillCut
  <2>9. x.next - 1 <= data_size \/ data_size < x.next - 1
    BY <2>4
  <2> QED
    BY <2>5, <2>6, <2>7, <2>8, <2>9
<1> QED
  BY <1>2, <1>3, <1>4, <1>5, <1>6 DEF CutAt

\* What is read when a file is opened.
LEMMA FileLoaded ==
  ASSUME NEW t \in Torrents, NEW tail \in Tails, NEW n \in 0 .. Len(t.bytes),
         file # NULL, file.torrent = t, file.size = n, file.tail = tail,
         OpenFile(Contents, Size)
  PROVE  /\ Loaded(t.bytes)' /\ data_size' = n /\ TokenizerTypeOK'
         /\ current' = 1 /\ status' = "start" /\ list_dict_stack' = 0
         /\ goal' = "key" /\ UNCHANGED <<tf, key, info_start, info_end, info_start_stack_value, parsed>>
<1> DEFINE b == t.bytes
           data == SubSeq(b, 1, n)
<1>1. b \in Seq(Symbol) /\ tail \in Seq(Symbol)
  BY StartupAssumption
<1>2. Len(b) \in Nat /\ n \in Nat /\ n <= Len(b) /\ 1 \in Nat \ {0} /\ 1 <= n + 1 /\ (n + 1) - 1 = n
  BY <1>1
<1>3. /\ data \in Seq(Symbol) /\ Len(data) = (n + 1) - 1
      /\ \A i \in 1 .. (n + 1) - 1 : data[i] = b[(1 - 1) + i]
  BY <1>1, <1>2, SliceAt
<1>4. Len(data) = n /\ \A i \in 1 .. n : data[i] = b[i]
  BY <1>2, <1>3
<1>5. Contents = data \o tail /\ Size = n
  BY DEF Contents, Size
<1> HIDE DEF data, b
<1>6. /\ data \o tail \in Seq(Symbol) /\ Len(data \o tail) = n + Len(tail) /\ Len(tail) \in Nat
      /\ \A i \in 1 .. n : (data \o tail)[i] = b[i]
  <2>1. /\ data \o tail \in Seq(Symbol) /\ Len(data \o tail) = Len(data) + Len(tail)
        /\ \A i \in 1 .. Len(data) + Len(tail) :
             (data \o tail)[i] = IF i <= Len(data) THEN data[i] ELSE tail[i - Len(data)]
    BY <1>1, <1>3, ConcatProperties
  <2>2. Len(tail) \in Nat
    BY <1>1
  <2>3. ASSUME NEW i \in 1 .. n PROVE (data \o tail)[i] = b[i]
    <3>1. i \in 1 .. Len(data) + Len(tail) /\ i <= Len(data)
      BY <1>2, <1>4, <2>2
    <3> QED
      BY <1>4, <2>1, <3>1
  <2> QED
    BY <1>4, <2>1, <2>2, <2>3
<1>7. Contents # NULL
  BY <1>5, <1>6, StartupAssumption
<1>8. /\ InitTokenizer(data \o tail, n) /\ goal' = "key"
      /\ UNCHANGED <<tf, key, info_start, info_end, info_start_stack_value, parsed>>
  BY <1>5, <1>7 DEF OpenFile, Seek
<1>9. n \in 0 .. Len(data \o tail)
  BY <1>2, <1>6
<1>10. TokenizerTypeOK'
  BY <1>6, <1>8, <1>9, FreshTokenizer
<1>11. mem' = data \o tail /\ data_size' = n
  BY <1>8 DEF InitTokenizer
<1>12. Loaded(b)'
  <2>1. data_size' <= Len(b) /\ data_size' <= Len(mem')
    BY <1>2, <1>6, <1>9, <1>11
  <2>2. \A j \in 1 .. data_size' : mem'[j] = b[j]
    BY <1>6, <1>11
  <2> QED
    BY <2>1, <2>2 DEF Loaded
<1> QED
  BY <1>8, <1>10, <1>11, <1>12 DEF InitTokenizer, b

\* The inductive invariant for files that are cut.
CutReading ==
  file # NULL /\ ~WholeFile /\ file.size > 0 =>
    \/ parsed = FALSE
    \/ /\ parsed = NULL
       /\ main_pc = "parse" /\ goal # "open" =>
            /\ Loaded(file.torrent.bytes) /\ data_size = file.size
            /\ CutAt(Readings[file.torrent].items)

\* The file, with names that do not change.
LEMMA FileIs ==
  ASSUME TypeOK, file # NULL, NEW h, file = h
  PROVE  /\ h.torrent \in Torrents /\ h.tail \in Tails /\ h.size \in 0 .. Len(h.torrent.bytes)
         /\ h.torrent.bytes \in Seq(Symbol) /\ IsTorrent(h.torrent, Readings[h.torrent])
<1>1. h.torrent \in Torrents /\ h.tail \in Tails /\ h.size \in 0 .. Len(h.torrent.bytes)
  BY DEF TypeOK
<1> QED
  BY <1>1, StartupAssumption, ReadingAssumption

\* Each step of the parser is one call of next(), and only END lets it return true.
LEMMA ParseCalls ==
  ASSUME ParseStep, parsed = NULL
  PROVE  /\ NextToken /\ goal # "open" /\ goal' # "open"
         /\ parsed' = TRUE => err' = "END"
         /\ parsed' \in {TRUE, FALSE, NULL}
BY StartupAssumption DEF ParseStep, NextKey, InfoIsDict, AfterInfo, ValueMarker, Value, Expect, Refused, Crashed, ReturnOk, Seek

\* Opening the file and each step of the parser keep CutReading.
LEMMA CutParse ==
  ASSUME TypeOK, CutReading, Parse
  PROVE  CutReading'
<1>1. /\ main_pc = "parse" /\ parsed = NULL /\ UNCHANGED <<trackerVars, main_pc, file, reply>>
      /\ OpenFile(Contents, Size) \/ ParseStep
  BY DEF Parse
<1> SUFFICES ASSUME file # NULL, ~WholeFile, file.size > 0
             PROVE  \/ parsed' = FALSE
                    \/ /\ parsed' = NULL
                       /\ main_pc' = "parse" /\ goal' # "open" =>
                            /\ Loaded(file.torrent.bytes)' /\ data_size' = file.size
                            /\ CutAt(Readings[file.torrent].items)'
  BY <1>1 DEF CutReading, WholeFile
<1>2. PICK h : h = file
  OBVIOUS
<1> DEFINE t     == h.torrent
           items == Readings[h.torrent].items
<1>3. /\ t \in Torrents /\ h.tail \in Tails /\ h.size \in 0 .. Len(t.bytes) /\ t.bytes \in Seq(Symbol)
      /\ IsTorrent(t, Readings[t])
  BY <1>2, FileIs
<1>4. IsReading(t.bytes, t.whole, items) /\ h.size > 0 /\ ~(h.size >= t.whole)
  BY <1>2, <1>3 DEF IsTorrent, WholeFile
<1>5. t.whole \in 1 .. Len(t.bytes) /\ Len(t.bytes) \in Nat /\ items \in Seq(Item) /\ items # <<>>
  BY <1>3, <1>4 DEF IsReading
<1>6. h.size # 0 /\ h.size < t.whole
  BY <1>3, <1>4, <1>5
<1>7. CASE OpenFile(Contents, Size)
  <2>1. /\ Loaded(t.bytes)' /\ data_size' = h.size /\ TokenizerTypeOK'
        /\ current' = 1 /\ status' = "start" /\ list_dict_stack' = 0 /\ parsed' = parsed
    BY <1>2, <1>3, <1>7, FileLoaded
  <2>2. 0 \in 0 .. Len(items) - 1
    BY <1>5
  <2>3. At(items, 0)'
    BY <2>1 DEF At, Place, Depth
  <2>4. CutAt(items)'
    BY <2>1, <2>2, <2>3, StillCut
  <2> QED
    BY <1>1, <1>2, <2>1, <2>4
<1>8. CASE ParseStep
  <2>1. NextToken /\ goal # "open" /\ (parsed' = TRUE => err' = "END") /\ parsed' \in {TRUE, FALSE, NULL}
    BY <1>1, <1>8, ParseCalls
  <2>2. parsed # FALSE
    BY <1>1, StartupAssumption
  <2>3. Loaded(t.bytes) /\ data_size = h.size /\ CutAt(items)
    BY <1>1, <1>2, <2>1, <2>2 DEF CutReading
  <2>4. TokenizerTypeOK
    BY DEF TypeOK
  <2>5. CutAt(items)' /\ err' # "END"
    BY <1>3, <1>4, <1>6, <2>1, <2>3, <2>4, CutStays
  <2>6. Loaded(t.bytes)' /\ data_size' = h.size
    BY <2>1, <2>3, <2>4, NextTokenMoves DEF Loaded
  <2> QED
    BY <1>2, <2>1, <2>5, <2>6
<1> QED
  BY <1>1, <1>7, <1>8

\* A file that ends too early is not taken for a torrent, whatever lies behind it on
\* the heap and makes a whole of it: the scanner either meets the end of the data
\* where a list or a dictionary is open, or it has gone past that end, and then the
\* test for it never holds again.
THEOREM CutFileRefusedCorrect == Spec => []CutFileRefused
<1>1. Init => CutReading
  <2> SUFFICES ASSUME Init PROVE CutReading
    OBVIOUS
  <2> QED
    BY DEF Init, InitParser, CutReading
<1>2. TypeOK /\ CutReading /\ [Next]_vars => CutReading'
  <2> SUFFICES ASSUME TypeOK, CutReading, [Next]_vars PROVE CutReading'
    OBVIOUS
  <2>1. CASE Parse
    BY <2>1, CutParse
  <2>2. CASE Contact
    <3>1. main_pc # "parse" /\ UNCHANGED <<main_pc, parsed, file>>
      BY <2>2 DEF Contact, parserVars
    <3> QED
      BY <3>1 DEF CutReading, WholeFile
  <2>3. CASE Proceed
    <3>1. main_pc' # "parse" /\ UNCHANGED <<parsed, file>>
      BY <2>3 DEF Proceed, parserVars, Goto
    <3> QED
      BY <3>1 DEF CutReading, WholeFile
  <2>4. CASE UNCHANGED vars
    <3>1. UNCHANGED <<main_pc, parsed, file, goal, tokenizerVars>>
      BY <2>4 DEF vars, parserVars
    <3>2. UNCHANGED <<mem, data_size, current, token, status, str_len, list_dict_stack, err>>
      BY <3>1 DEF tokenizerVars
    <3> QED
      BY <3>1, <3>2 DEF CutReading, WholeFile, Loaded, CutAt, At, EndOfData
  <2> QED
    BY <2>1, <2>2, <2>3, <2>4 DEF Next
<1>3. CutReading /\ TrueMeansAllRead => CutFileRefused
  BY StartupAssumption DEF CutReading, CutFileRefused
<1> QED
  BY <1>1, <1>2, <1>3, TypeCorrect, TrueMeansAllReadCorrect, PTL DEF Spec

-------------------------------------------------------------------------------
(* A plain reply in one chunk.                                             *)

\* Where the scanner is when k tokens of a plain reply have been taken.
PlainAt(items, k) ==
  \/ k = 0 /\ At(items, 0) /\ status = "start"
  \/ k = 1 /\ At(items, 1) /\ status = "start"
  \/ k = 2 /\ At(items, 1) /\ status = "str_parse"
  \/ k = 3 /\ At(items, 2) /\ status = "start"
  \/ k = 4 /\ At(items, 2) /\ status = "int_parse"
  \/ k = 5 /\ At(items, 2) /\ status = "int_end"
  \/ k = 6 /\ At(items, 3) /\ status = "start"
  \/ k = 7 /\ At(items, 3) /\ status = "str_parse"
  \/ k = 8 /\ At(items, 4) /\ status = "start"
  \/ k = 9 /\ At(items, 4) /\ status = "str_parse"
  \/ k = 10 /\ At(items, 5) /\ status = "start"

\* Intervals from 1 on that are equal end at the same place.
LEMMA SameBound ==
  ASSUME NEW m \in Nat, 1 .. m = 1 .. 6
  PROVE  m = 6
<1>1. 6 \in 1 .. m
  OBVIOUS
<1>2. ~(7 \in 1 .. m)
  OBVIOUS
<1> QED
  BY <1>1, <1>2

\* The items of a plain reply, one by one.
LEMMA PlainItems ==
  ASSUME NEW p, NEW r, IsPlain(p, r)
  PROVE  /\ IsReading(p.bytes, Len(p.bytes), r.items) /\ Len(r.items) = 6
         /\ r.items[1].type = "d" /\ r.items[2].type = "s" /\ r.items[3].type = "i"
         /\ r.items[4].type = "s" /\ r.items[5].type = "s"
<1> DEFINE types == [n \in 1 .. Len(r.items) |-> r.items[n].type]
<1>1. IsReading(p.bytes, Len(p.bytes), r.items) /\ types = <<"d", "s", "i", "s", "s", "e">>
  BY DEF IsPlain
<1>2. r.items \in Seq(Item)
  BY <1>1 DEF IsReading
<1>3. Len(r.items) = 6
  <2>1. DOMAIN types = 1 .. Len(r.items) /\ Len(r.items) \in Nat
    BY <1>2
  <2>2. DOMAIN types = 1 .. 6
    <3> HIDE DEF types
    <3> QED
      BY <1>1
  <2> QED
    BY <2>1, <2>2, SameBound
<1>4. \A n \in 1 .. 6 : types[n] = r.items[n].type
  BY <1>3
<1> HIDE DEF types
<1>5. types[1] = "d" /\ types[2] = "s" /\ types[3] = "i" /\ types[4] = "s" /\ types[5] = "s"
  BY <1>1
<1> QED
  BY <1>1, <1>3, <1>4, <1>5

\* Each of the ten tokens of a plain reply.
LEMMA PlainRead ==
  ASSUME TokenizerTypeOK, NextToken, NEW p, p.bytes \in Seq(Symbol), NEW r, IsPlain(p, r),
         Loaded(p.bytes), data_size = Len(p.bytes), NEW k \in 0 .. 9, PlainAt(r.items, k)
  PROVE  /\ err' = "OK" /\ PlainAt(r.items, k + 1)'
         /\ k = 2 => token' = TextOf(p.bytes, r.items[2])
         /\ k = 4 => token' = TextOf(p.bytes, r.items[3])
         /\ k = 7 => token' = TextOf(p.bytes, r.items[4])
         /\ k = 9 => token' = TextOf(p.bytes, r.items[5])
<1> DEFINE items == r.items
           b == p.bytes
<1>1. IsReading(b, Len(b), items) /\ Len(items) = 6
  BY PlainItems
<1>2. /\ items[1].type = "d" /\ items[2].type = "s" /\ items[3].type = "i"
      /\ items[4].type = "s" /\ items[5].type = "s"
  BY PlainItems
<1>3. b \in Seq(Symbol) /\ Loaded(b) /\ data_size = Len(b)
  OBVIOUS
<1> HIDE DEF items, b
<1>4. ASSUME NEW n \in 0 .. 4, At(items, n)
      PROVE  ReadsOn(b, items, n)
  <2>1. n \in 0 .. Len(items) - 1 /\ n + 1 \in 1 .. 5
    BY <1>1, <1>4
  <2>2. items[n + 1].type # "?"
    <3>1. n + 1 \in {1, 2, 3, 4, 5}
      BY <2>1
    <3> QED
      BY <1>2, <3>1
  <2>3. items[n + 1] \in Item /\ IsItem(b, Len(b), items[n + 1]) /\ Len(b) \in 1 .. Len(b)
    BY <1>1, <1>3, <2>1, NextItem
  <2>4. items[n + 1].next - 1 <= data_size
    <3>1. items[n + 1].next \in Nat /\ items[n + 1].at \in Nat
      BY <2>3 DEF Item
    <3>2. items[n + 1].next \in items[n + 1].at + 1 .. Len(b) + 1 /\ Len(b) \in Nat
      BY <1>3, <2>3 DEF IsItem
    <3> QED
      BY <1>3, <3>1, <3>2
  <2> QED
    BY <1>1, <1>3, <1>4, <2>1, <2>2, <2>4, ItemRead
<1> DEFINE Result == /\ err' = "OK" /\ PlainAt(items, k + 1)'
                     /\ k = 2 => token' = TextOf(b, items[2])
                     /\ k = 4 => token' = TextOf(b, items[3])
                     /\ k = 7 => token' = TextOf(b, items[4])
                     /\ k = 9 => token' = TextOf(b, items[5])
<1>5. ASSUME k = 0 PROVE Result
  <2>1. At(items, 0) /\ status = "start"
    BY <1>5 DEF PlainAt, items
  <2>2. ReadsOn(b, items, 0)
    BY <1>4, <2>1
  <2>3. err' = "OK" /\ At(items, 1)' /\ status' = "start"
    BY <1>2, <2>1, <2>2 DEF ReadsOn
  <2> QED
    BY <1>5, <2>3 DEF PlainAt
<1>6. ASSUME k \in {1, 2} PROVE Result
  <2>1. At(items, 1) /\ status = IF k = 1 THEN "start" ELSE "str_parse"
    BY <1>6 DEF PlainAt, items
  <2>2. ReadsOn(b, items, 1)
    BY <1>4, <2>1
  <2>3. /\ err' = "OK"
        /\ k = 1 => At(items, 1)' /\ status' = "str_parse"
        /\ k = 2 => At(items, 2)' /\ status' = "start" /\ token' = TextOf(b, items[2])
    BY <1>2, <1>6, <2>1, <2>2 DEF ReadsOn
  <2> QED
    BY <1>6, <2>3 DEF PlainAt
<1>7. ASSUME k \in {3, 4, 5} PROVE Result
  <2>1. At(items, 2) /\ status = CASE k = 3 -> "start" [] k = 4 -> "int_parse" [] k = 5 -> "int_end"
    BY <1>7 DEF PlainAt, items
  <2>2. ReadsOn(b, items, 2)
    BY <1>4, <2>1
  <2>3. /\ err' = "OK"
        /\ k = 3 => At(items, 2)' /\ status' = "int_parse"
        /\ k = 4 => At(items, 2)' /\ status' = "int_end" /\ token' = TextOf(b, items[3])
        /\ k = 5 => At(items, 3)' /\ status' = "start"
    BY <1>2, <1>7, <2>1, <2>2 DEF ReadsOn
  <2> QED
    BY <1>7, <2>3 DEF PlainAt
<1>8. ASSUME k \in {6, 7} PROVE Result
  <2>1. At(items, 3) /\ status = IF k = 6 THEN "start" ELSE "str_parse"
    BY <1>8 DEF PlainAt, items
  <2>2. ReadsOn(b, items, 3)
    BY <1>4, <2>1
  <2>3. /\ err' = "OK"
        /\ k = 6 => At(items, 3)' /\ status' = "str_parse"
        /\ k = 7 => At(items, 4)' /\ status' = "start" /\ token' = TextOf(b, items[4])
    BY <1>2, <1>8, <2>1, <2>2 DEF ReadsOn
  <2> QED
    BY <1>8, <2>3 DEF PlainAt
<1>9. ASSUME k \in {8, 9} PROVE Result
  <2>1. At(items, 4) /\ status = IF k = 8 THEN "start" ELSE "str_parse"
    BY <1>9 DEF PlainAt, items
  <2>2. ReadsOn(b, items, 4)
    BY <1>4, <2>1
  <2>3. /\ err' = "OK"
        /\ k = 8 => At(items, 4)' /\ status' = "str_parse"
        /\ k = 9 => At(items, 5)' /\ status' = "start" /\ token' = TextOf(b, items[5])
    BY <1>2, <1>9, <2>1, <2>2 DEF ReadsOn
  <2> QED
    BY <1>9, <2>3 DEF PlainAt
<1>10. Result
  BY <1>5, <1>6, <1>7, <1>8, <1>9
<1> QED
  BY <1>10 DEF items, b

\* The reply that the tracker gives, and what has been understood of it.
Understood(r) ==
  /\ Loaded(r.bytes) /\ data_size = Len(r.bytes)
  /\ step \in 0 .. Tokens /\ PlainAt(Readings[r].items, step)
  /\ contacted = IF step = Tokens THEN TRUE ELSE NULL
  /\ step >= 5 => tr.interval = r.interval
  /\ step = Tokens => tr.peers = r.peers

\* Bytes are handed over in order, so that one chunk is the whole reply.
ReplyReading ==
  /\ body = NULL => chunks = 0 /\ response = NULL /\ step = NULL
  /\ body # NULL => /\ main_pc # "parse" /\ reply \in Replies
                    /\ chunks = 0 => response = NULL /\ body = reply.bytes
                    /\ chunks = 1 => response \in Seq(Symbol) /\ response \o body = reply.bytes
  /\ step # NULL /\ chunks = 1 /\ reply.plain => Understood(reply)

\* One chunk is all that has been sent so far.
LEMMA OneChunkThere ==
  ASSUME TypeOK, NEW r \in Replies, body = r.bytes, chunks = 0, ReceiveChunk
  PROVE  response' \in Seq(Symbol) /\ response' \o body' = r.bytes
<1>1. r.bytes \in Seq(Symbol)
  BY StartupAssumption
<1>2. PICK k \in 1 .. Len(body) : response' = SubSeq(body, 1, k) /\ body' = SubSeq(body, k + 1, Len(body))
  BY DEF ReceiveChunk, KeepChunk
<1> DEFINE b == r.bytes
           one == SubSeq(b, 1, k)
           rest == SubSeq(b, k + 1, Len(b))
<1>3. b \in Seq(Symbol) /\ Len(b) \in Nat /\ k \in 1 .. Len(b)
  BY <1>1, <1>2
<1>4. response' = one /\ body' = rest
  BY <1>2
<1> HIDE DEF b
<1>5. /\ one \in Seq(Symbol) /\ Len(one) = (k + 1) - 1
      /\ \A i \in 1 .. (k + 1) - 1 : one[i] = b[(1 - 1) + i]
  BY <1>3, SliceAt
<1>6. /\ rest \in Seq(Symbol) /\ Len(rest) = (Len(b) + 1) - (k + 1)
      /\ \A i \in 1 .. (Len(b) + 1) - (k + 1) : rest[i] = b[((k + 1) - 1) + i]
  BY <1>3, SliceAt
<1> HIDE DEF one, rest
<1>7. /\ one \o rest \in Seq(Symbol) /\ Len(one \o rest) = Len(one) + Len(rest)
      /\ \A i \in 1 .. Len(one) + Len(rest) :
           (one \o rest)[i] = IF i <= Len(one) THEN one[i] ELSE rest[i - Len(one)]
  BY <1>5, <1>6, ConcatProperties
<1>8. Len(one) = k /\ Len(rest) = Len(b) - k /\ Len(one \o rest) = Len(b)
  BY <1>3, <1>5, <1>6, <1>7
<1>9. ASSUME NEW i \in 1 .. Len(b) PROVE (one \o rest)[i] = b[i]
  <2>1. (one \o rest)[i] = IF i <= k THEN one[i] ELSE rest[i - k]
    BY <1>7, <1>8, <1>3
  <2>2. CASE i <= k
    <3>1. i \in 1 .. (k + 1) - 1 /\ (1 - 1) + i = i
      BY <1>3, <2>2
    <3> QED
      BY <1>5, <2>1, <2>2, <3>1
  <2>3. CASE ~(i <= k)
    <3>1. i - k \in 1 .. (Len(b) + 1) - (k + 1) /\ ((k + 1) - 1) + (i - k) = i
      BY <1>3, <2>3
    <3> QED
      BY <1>6, <2>1, <2>3, <3>1
  <2> QED
    BY <2>2, <2>3
<1>10. one \o rest = b
  BY <1>3, <1>7, <1>8, <1>9, SeqEqual
<1> QED
  BY <1>4, <1>5, <1>10 DEF b

\* The scanner is opened on the whole reply.
LEMMA ReplyLoaded ==
  ASSUME TypeOK, NEW r \in Replies, r.plain, NEW tail \in Tails, CurlDone(tail),
         response \in Seq(Symbol), response \o body = r.bytes
  PROVE  Understood(r)'
<1> DEFINE data == response \o tail
<1>1. r.bytes \in Seq(Symbol) /\ tail \in Seq(Symbol) /\ response # NULL
  BY StartupAssumption
<1>2. /\ body = <<>> /\ contacted = NULL /\ InitTokenizer(data, Len(response)) /\ step' = 0
      /\ UNCHANGED contacted
  BY <1>1 DEF CurlDone
<1>3. response = r.bytes
  BY <1>1, <1>2
<1>4. /\ data \in Seq(Symbol) /\ Len(data) = Len(response) + Len(tail)
      /\ \A i \in 1 .. Len(response) + Len(tail) :
           data[i] = IF i <= Len(response) THEN response[i] ELSE tail[i - Len(response)]
  BY <1>1, ConcatProperties
<1> HIDE DEF data
<1>5. Len(response) \in Nat /\ Len(tail) \in Nat
  BY <1>1
<1>6. Len(response) <= Len(data) /\ \A i \in 1 .. Len(response) : data[i] = response[i]
  BY <1>4, <1>5
<1>7. /\ mem' = data /\ data_size' = Len(response) /\ current' = 1 /\ status' = "start"
      /\ list_dict_stack' = 0
  BY <1>2 DEF InitTokenizer
<1>8. Loaded(r.bytes)' /\ data_size' = Len(r.bytes)
  BY <1>3, <1>5, <1>6, <1>7 DEF Loaded
<1>9. PlainAt(Readings[r].items, 0)'
  BY <1>7 DEF PlainAt, At, Place, Depth
<1>10. step' = 0 /\ 0 \in 0 .. Tokens /\ 0 # Tokens /\ ~(0 >= 5)
  BY <1>2 DEF Tokens
<1>11. contacted' = NULL
  BY <1>2
<1> QED
  BY <1>8, <1>9, <1>10, <1>11 DEF Understood

\* Each token that contact_tracker takes is the one that it waits for.
LEMMA Understands ==
  ASSUME TypeOK, NEW r \in Replies, r.plain, Understood(r), TakeToken
  PROVE  Understood(r)'
<1> DEFINE items == Readings[r].items
<1>1. r.bytes \in Seq(Symbol) /\ IsPlain(r, Readings[r])
  BY StartupAssumption, ReadingAssumption
<1>2. TokenizerTypeOK /\ tr \in TrackerRecord
  BY DEF TypeOK
<1>3. /\ step \in 0 .. 9 /\ contacted = NULL /\ NextToken /\ step' = step + 1
      /\ UNCHANGED <<body, response, chunks>>
  BY DEF TakeToken, Tokens
<1>4. Loaded(r.bytes) /\ data_size = Len(r.bytes) /\ PlainAt(items, step)
  BY DEF Understood
<1> HIDE DEF items
<1>5. PICK k \in 0 .. 9 : k = step
  BY <1>3
<1>6. PlainAt(items, k)
  BY <1>4, <1>5
<1>7. /\ err' = "OK" /\ PlainAt(items, k + 1)'
      /\ k = 2 => token' = TextOf(r.bytes, items[2])
      /\ k = 4 => token' = TextOf(r.bytes, items[3])
      /\ k = 7 => token' = TextOf(r.bytes, items[4])
      /\ k = 9 => token' = TextOf(r.bytes, items[5])
  BY <1>1, <1>2, <1>3, <1>4, <1>6, PlainRead DEF items
<1>8. /\ TextOf(r.bytes, items[2]) = <<"interval">> /\ TextOf(r.bytes, items[4]) = <<"peers">>
      /\ r.interval = Strtol(TextOf(r.bytes, items[3])) /\ r.peers = PeersOf(TextOf(r.bytes, items[5]))
  BY <1>1 DEF IsPlain, Spells, items
<1>9. UNCHANGED <<mem, data_size>>
  BY <1>3 DEF NextToken
<1>10. Loaded(r.bytes)' /\ data_size' = Len(r.bytes)
  BY <1>4, <1>9 DEF Loaded
<1>11. PlainAt(items, step)'
  <2>1. step' = k + 1
    BY <1>3, <1>5
  <2> QED
    BY <1>7, <2>1 DEF PlainAt
<1>12. k # 9 => TestKey \/ (UNCHANGED contacted /\ k \notin {2, 7})
  BY <1>3, <1>5, <1>7 DEF TakeToken, Tokens
<1>13. k # 9 => contacted' = NULL
  <2>1. k = 2 => Matches("interval")
    BY <1>7, <1>8 DEF Matches
  <2>2. k = 7 => Matches("peers")
    BY <1>7, <1>8 DEF Matches
  <2> QED
    BY <1>3, <1>5, <1>12, <2>1, <2>2 DEF TestKey
<1>14. k = 4 => tr'.interval = r.interval
  <2> SUFFICES ASSUME k = 4 PROVE tr'.interval = r.interval
    OBVIOUS
  <2>1. tr' = [tr EXCEPT !.interval = Strtol(token')]
    BY <1>5, <1>7 DEF TakeToken, Tokens
  <2> QED
    BY <1>2, <1>7, <1>8, <2>1 DEF TrackerRecord
<1>15. k \notin {4, 9} => UNCHANGED tr
  BY <1>5, <1>7 DEF TakeToken, Tokens
<1>16. k = 9 => tr' = [tr EXCEPT !.peers = PeersOf(token')] /\ contacted' = TRUE
  BY <1>5, <1>7 DEF TakeToken, Tokens
<1>17. k = 9 => tr'.peers = r.peers /\ tr'.interval = tr.interval
  BY <1>2, <1>7, <1>8, <1>16 DEF TrackerRecord
<1>18. step' >= 5 => tr'.interval = r.interval
  <2>1. CASE k < 4
    BY <1>3, <1>5, <2>1
  <2>2. CASE k = 4
    BY <1>14, <2>2
  <2>3. CASE k > 4
    <3>1. tr.interval = r.interval
      BY <1>5, <2>3 DEF Understood
    <3>2. tr'.interval = tr.interval
      BY <1>15, <1>17, <2>3
    <3> QED
      BY <3>1, <3>2
  <2> QED
    BY <1>5, <2>1, <2>2, <2>3
<1>19. step' \in 0 .. Tokens /\ (step' = Tokens <=> k = 9)
  BY <1>3, <1>5 DEF Tokens
<1>20. contacted' = IF step' = Tokens THEN TRUE ELSE NULL
  BY <1>13, <1>16, <1>19
<1>21. step' = Tokens => tr'.peers = r.peers
  BY <1>17, <1>19
<1> QED
  BY <1>10, <1>11, <1>18, <1>19, <1>20, <1>21 DEF Understood, items

\* Each step of contact_tracker keeps ReplyReading.
LEMMA ReplyContact ==
  ASSUME TypeOK, ReplyReading, Contact
  PROVE  ReplyReading'
<1>1. main_pc = "contact" /\ contacted = NULL /\ UNCHANGED main_pc
  BY DEF Contact
<1>2. CASE \E r \in Replies : Perform(r.bytes) /\ reply' = r
  <2>1. PICK r \in Replies : Perform(r.bytes) /\ reply' = r
    BY <1>2
  <2>2. r.bytes \in Seq(Symbol) /\ r.bytes # NULL
    BY StartupAssumption
  <2>3. /\ body = NULL /\ chunks = 0 /\ response = NULL /\ step = NULL
        /\ UNCHANGED <<chunks, response, step>>
    BY <2>1 DEF Perform, ReplyReading
  <2>4. body' = NULL \/ body' = r.bytes
    BY <2>1 DEF Perform
  <2> QED
    BY <1>1, <2>1, <2>2, <2>3, <2>4 DEF ReplyReading
<1>3. CASE (\E tail \in Tails : ContactStep(tail)) /\ UNCHANGED reply
  <2>1. PICK tail \in Tails : ContactStep(tail)
    BY <1>3
  <2>2. CASE ReceiveChunk
    <3>1. /\ body # NULL /\ step = NULL /\ step' = NULL /\ chunks' = chunks + 1
      BY <2>2 DEF ReceiveChunk
    <3>2. body \in Seq(Symbol) /\ chunks \in Nat /\ reply \in Replies
      BY <3>1, StartupAssumption DEF TypeOK, Text, ReplyReading
    <3>3. response' \in Text /\ body' \in Text
      BY <2>2, ReceiveChunkTyped DEF TrackerTyped
    <3>4. body' # NULL
      <4>1. PICK k \in 1 .. Len(body) : body' = SubSeq(body, k + 1, Len(body))
        BY <2>2 DEF ReceiveChunk
      <4>2. Len(body) \in Nat /\ k + 1 \in Nat \ {0} /\ k + 1 <= Len(body) + 1 /\ Len(body) <= Len(body)
        BY <3>2
      <4>3. SubSeq(body, k + 1, Len(body)) \in Seq(Symbol)
        BY <3>2, <4>2, SliceAt
      <4> QED
        BY <4>1, <4>3, StartupAssumption
    <3>5. chunks' # 0 /\ (chunks' = 1 => chunks = 0)
      BY <3>1, <3>2
    <3>6. chunks = 0 => body = reply.bytes
      BY <3>1 DEF ReplyReading
    <3>7. PICK r \in Replies : r = reply
      BY <3>2
    <3>8. chunks = 0 => response' \in Seq(Symbol) /\ response' \o body' = r.bytes
      BY <2>2, <3>6, <3>7, OneChunkThere
    <3> QED
      BY <1>1, <1>3, <3>1, <3>2, <3>4, <3>5, <3>7, <3>8 DEF ReplyReading
  <2>3. CASE CurlFails
    BY <1>3, <2>3, <1>1 DEF CurlFails, ReplyReading
  <2>4. CASE CurlDone(tail)
    <3>1. body # NULL /\ UNCHANGED <<body, response, chunks>>
      <4>1. body = <<>> /\ UNCHANGED <<body, response, chunks>>
        BY <2>4 DEF CurlDone
      <4>2. <<>> \in Seq(Symbol)
        OBVIOUS
      <4> QED
        BY <4>1, <4>2, StartupAssumption
    <3>2. PICK r \in Replies : r = reply
      BY <3>1 DEF ReplyReading
    <3>3. chunks = 1 => response \in Seq(Symbol) /\ response \o body = r.bytes
      BY <3>1, <3>2 DEF ReplyReading
    <3>4. chunks = 1 /\ r.plain => Understood(r)'
      BY <2>4, <3>2, <3>3, ReplyLoaded
    <3>5. reply' = r
      BY <1>3, <3>2
    <3>6. chunks' = 1 /\ reply'.plain => chunks = 1 /\ r.plain
      BY <3>1, <3>5
    <3>7. Understood(r)' => Understood(reply)'
      BY <3>5 DEF Understood, Loaded
    <3>8. (step # NULL /\ chunks = 1 /\ reply.plain => Understood(reply))'
      BY <3>4, <3>6, <3>7
    <3> QED
      BY <1>1, <3>1, <3>2, <3>5, <3>8 DEF ReplyReading
  <2>5. CASE TakeToken
    <3>1. step \in 0 .. Tokens - 1 /\ UNCHANGED <<body, response, chunks>>
      BY <2>5 DEF TakeToken
    <3>2. step # NULL
      BY <3>1, StartupAssumption DEF Tokens
    <3>3. body # NULL /\ reply \in Replies
      BY <3>2 DEF ReplyReading
    <3>4. PICK r \in Replies : r = reply
      BY <3>3
    <3>5. chunks = 1 /\ r.plain => Understood(r)
      BY <3>2, <3>4 DEF ReplyReading, Understood, Loaded
    <3>6. chunks = 1 /\ r.plain => Understood(r)'
      BY <2>5, <3>5, Understands
    <3>7. reply' = r
      BY <1>3, <3>4
    <3>8. Understood(r)' => Understood(reply)'
      BY <3>7 DEF Understood, Loaded
    <3>9. (step # NULL /\ chunks = 1 /\ reply.plain => Understood(reply))'
      BY <3>1, <3>6, <3>7, <3>8
    <3> QED
      BY <1>1, <1>3, <3>1, <3>3, <3>9 DEF ReplyReading
  <2> QED
    BY <2>1, <2>2, <2>3, <2>4, <2>5 DEF ContactStep
<1> QED
  BY <1>2, <1>3 DEF Contact

(***************************************************************************)
(* OneChunkIsRead: the callback may hand the reply over in one piece, and  *)
(* then contact_tracker takes every token of a plain reply for what it is, *)
(* and reports the interval and the peers that are in it.                  *)
(***************************************************************************)
THEOREM OneChunkIsReadCorrect == Spec => []OneChunkIsRead
<1>1. Init => ReplyReading
  BY DEF Init, InitTracker, ReplyReading
<1>2. TypeOK /\ ReplyReading /\ [Next]_vars => ReplyReading'
  <2> SUFFICES ASSUME TypeOK, ReplyReading, [Next]_vars PROVE ReplyReading'
    OBVIOUS
  <2>1. CASE Parse
    <3>1. main_pc = "parse" /\ UNCHANGED <<trackerVars, main_pc, reply>>
      BY <2>1 DEF Parse
    <3>2. body = NULL /\ step = NULL
      BY <3>1 DEF ReplyReading
    <3> QED
      BY <3>1, <3>2 DEF ReplyReading, trackerVars
  <2>2. CASE Contact
    BY <2>2, ReplyContact
  <2>3. ASSUME UNCHANGED <<tokenizerVars, trackerVars, reply>>, main_pc' = main_pc \/ main_pc' # "parse"
        PROVE  ReplyReading'
    BY <2>3 DEF ReplyReading, Understood, Loaded, PlainAt, At, tokenizerVars, trackerVars
  <2>4. CASE Proceed
    <3>1. main_pc' # "parse" /\ UNCHANGED <<tokenizerVars, trackerVars, reply>>
      BY <2>4 DEF Proceed, Goto
    <3> QED
      BY <2>3, <3>1
  <2>5. CASE UNCHANGED vars
    BY <2>3, <2>5 DEF vars
  <2> QED
    BY <2>1, <2>2, <2>4, <2>5 DEF Next
<1>3. TypeOK /\ ReplyReading => OneChunkIsRead
  <2> SUFFICES ASSUME TypeOK, ReplyReading, chunks = 1, step # NULL, reply.plain
               PROVE  /\ contacted # FALSE /\ status # "crash"
                      /\ contacted = TRUE => tr = [interval |-> reply.interval, peers |-> reply.peers]
    BY DEF OneChunkIsRead
  <2>1. Understood(reply)
    BY DEF ReplyReading
  <2>2. contacted # FALSE /\ (contacted = TRUE => step = Tokens)
    BY <2>1, StartupAssumption DEF Understood
  <2>3. status # "crash"
    BY <2>1 DEF Understood, PlainAt
  <2>4. step = Tokens => tr.interval = reply.interval /\ tr.peers = reply.peers
    BY <2>1 DEF Understood, Tokens
  <2>5. tr \in TrackerRecord
    BY DEF TypeOK
  <2>6. tr = [interval |-> tr.interval, peers |-> tr.peers]
    BY <2>5 DEF TrackerRecord
  <2> QED
    BY <2>2, <2>3, <2>4, <2>6
<1> QED
  BY <1>1, <1>2, <1>3, TypeCorrect, PTL DEF Spec

-------------------------------------------------------------------------------
(* A whole torrent.                                                        *)

NoKeyAt(r, n) == \A k \in DOMAIN r.keys : r.keys[k] # n

\* What the parser waits for behind n items.
GoalAt(r, n) ==
  \/ goal = "key" /\ status # "int_end" /\ NoKeyAt(r, n)
  \/ goal = "key" /\ status = "int_end"
  \/ goal = "marker" /\ status = "start" /\ key \in DOMAIN r.keys \ {"info"} /\ r.keys[key] = n
  \/ /\ goal = "value" /\ status \in {"int_parse", "str_parse"}
     /\ key \in DOMAIN r.keys \ {"info"} /\ r.keys[key] = n
  \/ goal = "info" /\ status = "start" /\ "info" \in DOMAIN r.keys /\ r.keys["info"] = n
  \/ goal = "after_info" /\ status = "start" /\ NoKeyAt(r, n)

\* The key info has been read, and the end of its value.
Begun(r, n)  == "info" \in DOMAIN r.keys /\ r.keys["info"] <= n
Closed(r, n) == "info" \in DOMAIN r.keys /\ r.ends <= n

InfoAt(r, n) ==
  /\ info_start = IF Begun(r, n) THEN r.items[r.keys["info"]].next ELSE NULL
  /\ Begun(r, n) => info_start_stack_value = r.items[r.keys["info"]].depth
  /\ info_end = IF Closed(r, n) THEN r.items[r.ends].next - 1 ELSE NULL
  /\ goal = "after_info" => Closed(r, n) /\ r.ends = n

\* The keys whose fields have been filled; the hash is taken one token late.
Valued(r, n) ==
  {k \in DOMAIN r.keys \ {"info"} : r.keys[k] < n \/ (r.keys[k] = n /\ status = "int_end")}
Hashed(r, n) == IF Closed(r, n) /\ goal # "after_info" THEN {"info"} ELSE {}

ParsingAt(t, r, n) ==
  /\ status # "start" => n < r.good
  /\ At(r.items, n) /\ GoalAt(r, n)
  /\ t.fields # NULL => /\ InfoAt(r, n)
                        /\ tf = FieldsOf(t.bytes, r, Valued(r, n) \cup Hashed(r, n))

\* Nothing has gone wrong yet, or the torrent is refused or understood as it should be.
ParsedWell(t, r) ==
  \/ parsed = NULL /\ status # "crash" /\ \E n \in 0 .. r.good : ParsingAt(t, r, n)
  \/ parsed = FALSE /\ t.fields = NULL
  \/ parsed = TRUE /\ t.fields # NULL /\ tf = t.fields

\* The keys of a torrent are strings at places of their own, none of them a value.
LEMMA TorrentKeys ==
  ASSUME NEW t, NEW r, t.bytes \in Seq(Symbol), IsTorrent(t, r)
  PROVE  /\ IsReading(t.bytes, t.whole, r.items) /\ DOMAIN r.keys \subseteq Words
         /\ Len(r.items) \in Nat /\ r.good \in Nat /\ 1 <= r.good /\ r.good <= Len(r.items)
         /\ (t.fields # NULL <=> r.good = Len(r.items)) /\ (t.fields = NULL <=> r.good < Len(r.items))
         /\ \A k \in DOMAIN r.keys :
              /\ r.keys[k] \in Nat /\ 1 <= r.keys[k] /\ r.keys[k] <= r.good /\ r.keys[k] < Len(r.items)
              /\ r.items[r.keys[k]].type = "s" /\ TextOf(t.bytes, r.items[r.keys[k]]) = <<k>>
              /\ \A j \in DOMAIN r.keys : r.keys[j] = r.keys[k] => j = k
              /\ ~IsValue(r, r.keys[k])
<1>1. /\ IsReading(t.bytes, t.whole, r.items) /\ DOMAIN r.keys \subseteq Words
      /\ r.good \in 1 .. Len(r.items)
      /\ \A k \in DOMAIN r.keys :
           /\ r.keys[k] \in 1 .. r.good /\ r.keys[k] < Len(r.items)
           /\ Spells(t.bytes, r.items[r.keys[k]], k) /\ ~IsValue(r, r.keys[k])
      /\ (t.fields = NULL /\ r.good < Len(r.items)) \/ (t.fields # NULL /\ r.good = Len(r.items))
  BY DEF IsTorrent
<1>2. r.items \in Seq(Item)
  BY <1>1 DEF IsReading
<1>3. Len(r.items) \in Nat
  BY <1>2
<1>4. r.good \in Nat /\ 1 <= r.good /\ r.good <= Len(r.items)
  BY <1>1, <1>3
<1>5. (t.fields # NULL <=> r.good = Len(r.items)) /\ (t.fields = NULL <=> r.good < Len(r.items))
  <2>1. ~(r.good < Len(r.items) /\ r.good = Len(r.items))
    BY <1>3, <1>4
  <2> QED
    BY <1>1, <2>1
<1>6. ASSUME NEW k \in DOMAIN r.keys
      PROVE  /\ r.keys[k] \in Nat /\ 1 <= r.keys[k] /\ r.keys[k] <= r.good
             /\ r.items[r.keys[k]].type = "s" /\ TextOf(t.bytes, r.items[r.keys[k]]) = <<k>>
  BY <1>1, <1>4 DEF Spells
<1>7. ASSUME NEW k \in DOMAIN r.keys, NEW j \in DOMAIN r.keys, r.keys[j] = r.keys[k]
      PROVE  j = k
  <2>1. <<j>> = <<k>>
    BY <1>6, <1>7
  <2> QED
    BY <2>1
<1> QED
  BY <1>1, <1>3, <1>4, <1>5, <1>6, <1>7

\* The next good item has the type that a key in front of it asks for, and spells a key
\* only if it is one or is the value of one.
LEMMA TorrentItems ==
  ASSUME NEW t, NEW r, t.bytes \in Seq(Symbol), IsTorrent(t, r), NEW n \in 0 .. r.good, n < r.good
  PROVE  /\ n \in 0 .. Len(r.items) - 1 /\ n + 1 \in 1 .. r.good /\ r.items[n + 1].type # "?"
         /\ \A k \in DOMAIN r.keys : r.keys[k] = n => r.items[n + 1].type = TypeOf(k)
         /\ \A k \in Words : Spells(t.bytes, r.items[n + 1], k) =>
              (\E j \in DOMAIN r.keys \ {"info"} : r.keys[j] = n) \/ (k \in DOMAIN r.keys /\ r.keys[k] = n + 1)
<1>1. /\ Len(r.items) \in Nat /\ r.good \in Nat /\ r.good <= Len(r.items)
      /\ \A k \in DOMAIN r.keys : r.keys[k] \in Nat
  BY TorrentKeys
<1>2. n \in Nat /\ n \in 0 .. Len(r.items) - 1 /\ n + 1 \in 1 .. r.good
  BY <1>1
<1>3. ~IsWrong(r, n + 1)
  BY <1>2 DEF IsTorrent
<1>4. ASSUME NEW k \in DOMAIN r.keys PROVE r.keys[k] = n <=> n + 1 = r.keys[k] + 1
  <2>1. r.keys[k] \in Nat
    BY <1>1
  <2> QED
    BY <1>2, <2>1
<1>5. \A k \in Words : Spells(t.bytes, r.items[n + 1], k) =>
        IsValue(r, n + 1) \/ (k \in DOMAIN r.keys /\ n + 1 = r.keys[k])
  BY <1>2 DEF IsTorrent
<1>6. IsValue(r, n + 1) => \E j \in DOMAIN r.keys \ {"info"} : r.keys[j] = n
  BY <1>4 DEF IsValue
<1> QED
  BY <1>2, <1>3, <1>4, <1>5, <1>6 DEF IsWrong

\* Where info ends: at the first end that is as deep as the key itself.
LEMMA TorrentInfo ==
  ASSUME NEW t, NEW r, t.bytes \in Seq(Symbol), IsTorrent(t, r), t.fields # NULL, "info" \in DOMAIN r.keys
  PROVE  /\ r.ends \in Nat /\ r.keys["info"] + 2 <= r.ends /\ r.ends < Len(r.items)
         /\ r.items[r.ends].type = "e" /\ r.items[r.ends].depth = r.items[r.keys["info"]].depth
         /\ \A n \in Nat : r.keys["info"] < n /\ n < r.ends => r.items[n].depth > r.items[r.keys["info"]].depth
<1> DEFINE first == r.keys["info"]
<1>1. /\ IsReading(t.bytes, t.whole, r.items) /\ Len(r.items) \in Nat
      /\ first \in Nat /\ 1 <= first /\ first < Len(r.items)
  BY TorrentKeys
<1>2. /\ r.ends \in first + 2 .. Len(r.items) /\ r.items[r.ends].type = "e"
      /\ r.items[r.ends].depth = r.items[first].depth
      /\ \A n \in first + 1 .. r.ends - 1 : r.items[n].depth > r.items[first].depth
  BY DEF IsTorrent, InfoEndsAt
<1> HIDE DEF first
<1>3. r.ends \in Nat /\ first + 2 <= r.ends /\ r.ends <= Len(r.items)
  BY <1>1, <1>2
<1>4. r.ends # Len(r.items)
  <2>1. first \in 1 .. Len(r.items) - 1
    BY <1>1
  <2>2. r.items[first].depth > 0 /\ r.items[Len(r.items)].depth = 0
    BY <1>1, <2>1 DEF IsReading
  <2> SUFFICES ASSUME r.ends = Len(r.items) PROVE FALSE
    OBVIOUS
  <2>3. 0 > 0
    BY <1>2, <2>2
  <2> QED
    BY <2>3
<1>5. ASSUME NEW n \in Nat, first < n, n < r.ends PROVE r.items[n].depth > r.items[first].depth
  <2>1. n \in first + 1 .. r.ends - 1
    BY <1>1, <1>3, <1>5
  <2> QED
    BY <1>2, <2>1
<1>6. r.ends < Len(r.items)
  BY <1>1, <1>3, <1>4
<1> QED
  BY <1>2, <1>3, <1>5, <1>6 DEF first

\* What a call of next() meets behind n items: an item, the first wrong one, or the
\* end of the file.
LEMMA TorrentRead ==
  ASSUME TokenizerTypeOK, NextToken, NEW t, NEW r, t.bytes \in Seq(Symbol), IsTorrent(t, r),
         Loaded(t.bytes), t.whole <= data_size, NEW n \in 0 .. r.good, ParsingAt(t, r, n)
  PROVE  \/ n < r.good /\ ReadsOn(t.bytes, r.items, n)
         \/ /\ n = r.good /\ t.fields = NULL /\ status = "start"
            /\ \/ err' = "MALFORMED"
               \/ /\ err' = "OK" /\ token' = <<r.items[n + 1].type>>
                  /\ \E k \in DOMAIN r.keys : r.keys[k] = n /\ r.items[n + 1].type # TypeOf(k)
         \/ n = r.good /\ n = Len(r.items) /\ t.fields # NULL /\ status = "start" /\ err' = "END"
<1> DEFINE items == r.items
           b == t.bytes
<1>1. /\ IsReading(b, t.whole, items) /\ Len(items) \in Nat /\ r.good \in Nat /\ r.good <= Len(items)
      /\ (t.fields # NULL <=> r.good = Len(items)) /\ (t.fields = NULL <=> r.good < Len(items))
      /\ \A k \in DOMAIN r.keys : r.keys[k] \in Nat
  BY TorrentKeys
<1>2. At(items, n) /\ (status # "start" => n < r.good)
  BY DEF ParsingAt
<1>3. b \in Seq(Symbol) /\ Loaded(b) /\ t.whole \in Nat /\ data_size \in Nat /\ t.whole <= data_size
  BY <1>1 DEF IsReading, TokenizerTypeOK
<1>4. IsTorrent(t, r)
  OBVIOUS
<1>5. n < r.good => items[n + 1].type # "?"
  BY TorrentItems
<1> HIDE DEF items, b
<1>6. ASSUME n \in 0 .. Len(items) - 1
      PROVE  /\ items[n + 1] \in Item /\ IsItem(b, t.whole, items[n + 1])
             /\ Place(items, n) = items[n + 1].at
             /\ items[n + 1].next - 1 <= data_size /\ items[n + 1].at <= data_size
  <2>1. items[n + 1] \in Item /\ IsItem(b, t.whole, items[n + 1]) /\ t.whole \in 1 .. Len(b)
        /\ Place(items, n) = items[n + 1].at
    BY <1>1, <1>3, <1>6, NextItem
  <2>2. items[n + 1].next \in Nat /\ items[n + 1].at \in Nat
    BY <2>1 DEF Item
  <2>3. items[n + 1].next \in items[n + 1].at + 1 .. t.whole + 1
    BY <2>1 DEF IsItem
  <2>4. items[n + 1].next - 1 <= data_size /\ items[n + 1].at <= data_size
    BY <1>3, <2>2, <2>3
  <2> QED
    BY <2>1, <2>4
<1>7. CASE n < r.good
  <2>1. n \in 0 .. Len(items) - 1
    BY <1>1, <1>7
  <2> QED
    BY <1>1, <1>2, <1>3, <1>5, <1>6, <1>7, <2>1, ItemRead DEF items, b
<1>8. CASE n = r.good /\ t.fields = NULL
  <2>1. n \in 0 .. Len(items) - 1 /\ n < Len(items)
    BY <1>1, <1>8
  <2>2. status = "start"
    BY <1>1, <1>2, <1>8
  <2>3. IsWrong(r, n + 1)
    BY <1>1, <1>8 DEF IsTorrent, items
  <2>4. CASE items[n + 1].type = "?"
    <3>1. current = items[n + 1].at
      BY <1>2, <1>6, <2>1, <2>2 DEF At
    <3>2. t.whole \in 1 .. Len(b)
      BY <1>1 DEF IsReading
    <3>3. err' = "MALFORMED"
      BY <1>3, <1>6, <2>1, <2>2, <2>4, <3>1, <3>2, WrongRead
    <3> QED
      BY <1>8, <2>2, <3>3
  <2>5. CASE items[n + 1].type # "?"
    <3>1. ReadsOn(b, items, n)
      BY <1>1, <1>2, <1>3, <1>6, <2>1, <2>5, ItemRead
    <3>2. err' = "OK" /\ token' = <<items[n + 1].type>>
      BY <2>2, <3>1 DEF ReadsOn
    <3>3. PICK k \in DOMAIN r.keys : n + 1 = r.keys[k] + 1 /\ items[n + 1].type # TypeOf(k)
      BY <2>3, <2>5 DEF IsWrong, items
    <3>4. r.keys[k] = n
      <4>1. r.keys[k] \in Nat /\ n \in Nat
        BY <1>1, <1>8
      <4> QED
        BY <3>3, <4>1
    <3> QED
      BY <1>8, <2>2, <3>2, <3>3, <3>4 DEF items
  <2> QED
    BY <2>4, <2>5
<1>9. CASE n = r.good /\ t.fields # NULL
  <2>1. n = Len(items) /\ n # 0 /\ status = "start"
    BY <1>1, <1>2, <1>9 DEF IsReading
  <2>2. items[n].next = t.whole + 1 /\ items[n].depth = 0 /\ \A j \in t.whole + 1 .. Len(b) : b[j] \in Space
    BY <1>1, <2>1 DEF IsReading
  <2>3. current = t.whole + 1 /\ list_dict_stack = 0
    BY <1>2, <2>1, <2>2 DEF At, Place, Depth
  <2>4. current <= EndOfData
    BY <1>3, <2>3 DEF EndOfData
  <2>5. \A j \in current .. data_size : mem[j] \in Space
    <3>1. data_size <= Len(b) /\ \A j \in 1 .. data_size : mem[j] = b[j]
      BY <1>3 DEF Loaded
    <3>2. Len(b) \in Nat
      BY <1>3
    <3> SUFFICES ASSUME NEW j \in t.whole + 1 .. data_size PROVE mem[j] \in Space
      BY <2>3
    <3>3. j \in 1 .. data_size /\ j \in t.whole + 1 .. Len(b)
      BY <1>3, <3>1, <3>2
    <3> QED
      BY <2>2, <3>1, <3>3
  <2>6. err' = "END"
    BY <2>1, <2>3, <2>4, <2>5, EndRead
  <2> QED
    BY <1>9, <2>1, <2>6 DEF items
<1> QED
  BY <1>1, <1>7, <1>8, <1>9

\* The types of values, by the sets of keys that the parser has.
LEMMA TypesOfKeys ==
  ASSUME NEW k
  PROVE  /\ k \in StringKeys => TypeOf(k) = "s"
         /\ k \in IntKeys => TypeOf(k) = "i" /\ k \notin StringKeys
         /\ TypeOf("info") = "d"
<1>1. k \in StringKeys => k \notin IntKeys
  BY DEF StringKeys, IntKeys
<1>2. "info" \notin StringKeys /\ "info" \notin IntKeys
  BY DEF StringKeys, IntKeys
<1> QED
  BY <1>1, <1>2 DEF TypeOf

\* The first wrong item.
LEMMA WrongRefused ==
  ASSUME NEW t, NEW r, t.bytes \in Seq(Symbol), IsTorrent(t, r), ParseStep, NEW n, GoalAt(r, n),
         status = "start", t.fields = NULL,
         \/ err' = "MALFORMED"
         \/ /\ err' = "OK" /\ token' = <<r.items[n + 1].type>>
            /\ \E k \in DOMAIN r.keys : r.keys[k] = n /\ r.items[n + 1].type # TypeOf(k)
  PROVE  parsed' = FALSE
<1>1. CASE err' = "MALFORMED"
  BY <1>1 DEF ParseStep, NextKey, InfoIsDict, AfterInfo, ValueMarker, Value, Refused, Crashed, ReturnOk
<1>2. CASE /\ err' = "OK" /\ token' = <<r.items[n + 1].type>>
           /\ \E k \in DOMAIN r.keys : r.keys[k] = n /\ r.items[n + 1].type # TypeOf(k)
  <2>1. PICK k \in DOMAIN r.keys : r.keys[k] = n /\ r.items[n + 1].type # TypeOf(k)
    BY <1>2
  <2>2. ~NoKeyAt(r, n)
    BY <2>1 DEF NoKeyAt
  <2>3. \A j \in DOMAIN r.keys : r.keys[j] = n => j = k
    BY <2>1, TorrentKeys
  <2>4. DOMAIN r.keys \subseteq Words
    BY TorrentKeys
  <2>5. CASE goal = "marker" /\ key = k /\ k # "info"
    <3>1. token' # Marker
      <4>1. Marker = <<TypeOf(k)>>
        <5>1. k \in Keys
          BY <2>4, <2>5 DEF Words
        <5>2. CASE k \in StringKeys
          <6>1. TypeOf(k) = "s" /\ Marker = <<"s">>
            BY <2>5, <5>2, TypesOfKeys DEF Marker
          <6> QED
            BY <6>1
        <5>3. CASE k \notin StringKeys
          <6>1. k \in IntKeys
            BY <5>1, <5>3 DEF Keys
          <6>2. TypeOf(k) = "i" /\ Marker = <<"i">>
            BY <2>5, <5>3, <6>1, TypesOfKeys DEF Marker
          <6> QED
            BY <6>2
        <5> QED
          BY <5>2, <5>3
      <4>2. <<r.items[n + 1].type>> # <<TypeOf(k)>>
        BY <2>1
      <4> QED
        BY <1>2, <4>1, <4>2
    <3>2. ValueMarker
      BY <2>5 DEF ParseStep, NextKey, InfoIsDict, AfterInfo, Value, Expect
    <3> QED
      BY <1>2, <3>1, <3>2 DEF ValueMarker, Refused, Crashed, ReturnOk
  <2>6. CASE goal = "info" /\ k = "info"
    <3>1. token' # <<"d">>
      <4>1. TypeOf(k) = "d"
        BY <2>6 DEF TypeOf, StringKeys, IntKeys
      <4>2. <<r.items[n + 1].type>> # <<"d">>
        BY <2>1, <4>1
      <4> QED
        BY <1>2, <4>2
    <3>2. InfoIsDict
      BY <2>6 DEF ParseStep, NextKey, ValueMarker, AfterInfo, Value, Expect
    <3> QED
      BY <1>2, <3>1, <3>2 DEF InfoIsDict, Refused, Crashed, ReturnOk
  <2> QED
    BY <2>2, <2>3, <2>5, <2>6 DEF GoalAt
<1> QED
  BY <1>1, <1>2

\* The end of the file, with the field of each of its keys filled.
LEMMA EndUnderstood ==
  ASSUME NEW t, NEW r, t.bytes \in Seq(Symbol), IsTorrent(t, r), ParseStep, NEW n,
         ParsingAt(t, r, n), status = "start", t.fields # NULL, n = Len(r.items), err' = "END"
  PROVE  parsed' = TRUE /\ tf' = t.fields
<1>1. /\ Len(r.items) \in Nat
      /\ \A k \in DOMAIN r.keys : r.keys[k] \in Nat /\ r.keys[k] < Len(r.items)
  BY TorrentKeys
<1>2. GoalAt(r, n) /\ InfoAt(r, n) /\ tf = FieldsOf(t.bytes, r, Valued(r, n) \cup Hashed(r, n))
  BY DEF ParsingAt
<1>3. \A k \in DOMAIN r.keys : r.keys[k] < n /\ r.keys[k] # n
  BY <1>1
<1>4. "info" \in DOMAIN r.keys => r.ends \in Nat /\ r.ends < Len(r.items)
  BY TorrentInfo
<1>5. "info" \in DOMAIN r.keys => r.ends <= n /\ r.ends # n
  BY <1>1, <1>4
<1>6. goal # "after_info"
  BY <1>2, <1>5 DEF InfoAt, Closed
<1>7. goal = "key"
  BY <1>2, <1>3, <1>6 DEF GoalAt
<1>8. NextKey
  BY <1>7 DEF ParseStep, InfoIsDict, ValueMarker, AfterInfo, Value, Expect
<1>9. parsed' = TRUE /\ tf' = tf
  BY <1>8 DEF NextKey, ReturnOk, Crashed
<1>10. Valued(r, n) = DOMAIN r.keys \ {"info"}
  BY <1>3 DEF Valued
<1>11. Hashed(r, n) = IF "info" \in DOMAIN r.keys THEN {"info"} ELSE {}
  BY <1>5, <1>6 DEF Hashed, Closed
<1>12. Valued(r, n) \cup Hashed(r, n) = DOMAIN r.keys
  BY <1>10, <1>11
<1>13. t.fields = FieldsOf(t.bytes, r, DOMAIN r.keys)
  BY DEF IsTorrent
<1> QED
  BY <1>2, <1>9, <1>12, <1>13

\* Which of the sets of keys change when tokens are read.
LEMMA ValuedHere ==
  ASSUME NEW r, NEW n,
         NoKeyAt(r, n) \/ (status # "int_end" /\ status' # "int_end")
  PROVE  Valued(r, n)' = Valued(r, n)
<1>1. ASSUME NEW k \in DOMAIN r.keys
      PROVE  (r.keys[k] = n /\ status' = "int_end") <=> (r.keys[k] = n /\ status = "int_end")
  BY DEF NoKeyAt
<1> QED
  BY <1>1 DEF Valued

\* No value was read with the item, so that no field has been filled.
LEMMA ValuedBehind ==
  ASSUME NEW r, NEW n \in Nat, \A k \in DOMAIN r.keys : r.keys[k] \in Nat, status' = "start",
         status = "int_end" \/ \A k \in DOMAIN r.keys \ {"info"} : r.keys[k] # n
  PROVE  Valued(r, n + 1)' = Valued(r, n)
<1>1. ASSUME NEW k \in DOMAIN r.keys \ {"info"}
      PROVE  r.keys[k] < n + 1 <=> (r.keys[k] < n \/ (r.keys[k] = n /\ status = "int_end"))
  <2>1. r.keys[k] \in Nat
    BY <1>1
  <2>2. r.keys[k] < n + 1 <=> (r.keys[k] < n \/ r.keys[k] = n)
    BY <2>1
  <2>3. r.keys[k] = n => status = "int_end"
    BY <1>1
  <2> QED
    BY <2>2, <2>3
<1> QED
  BY <1>1 DEF Valued

\* The value of k was read with the item.
LEMMA ValuedMore ==
  ASSUME NEW r, NEW n \in Nat, \A k \in DOMAIN r.keys : r.keys[k] \in Nat,
         NEW k \in DOMAIN r.keys \ {"info"}, r.keys[k] = n,
         \A j \in DOMAIN r.keys : r.keys[j] = n => j = k, status # "int_end"
  PROVE  /\ status' = "int_end" => Valued(r, n)' = Valued(r, n) \cup {k}
         /\ status' = "start" => Valued(r, n + 1)' = Valued(r, n) \cup {k}
<1>1. \A j \in DOMAIN r.keys \ {"info"} : r.keys[j] = n <=> j = k
  OBVIOUS
<1>2. ASSUME NEW j \in DOMAIN r.keys \ {"info"}
      PROVE  r.keys[j] < n + 1 <=> (r.keys[j] < n \/ j = k)
  <2>1. r.keys[j] \in Nat
    BY <1>2
  <2>2. r.keys[j] < n + 1 <=> (r.keys[j] < n \/ r.keys[j] = n)
    BY <2>1
  <2> QED
    BY <1>1, <2>2
<1>3. Valued(r, n) = {j \in DOMAIN r.keys \ {"info"} : r.keys[j] < n}
  BY DEF Valued
<1>4. ASSUME status' = "int_end" PROVE Valued(r, n)' = Valued(r, n) \cup {k}
  <2>1. Valued(r, n)' = {j \in DOMAIN r.keys \ {"info"} : r.keys[j] < n \/ j = k}
    BY <1>1, <1>4 DEF Valued
  <2> QED
    BY <1>3, <2>1
<1>5. ASSUME status' = "start" PROVE Valued(r, n + 1)' = Valued(r, n) \cup {k}
  <2>1. Valued(r, n + 1)' = {j \in DOMAIN r.keys \ {"info"} : r.keys[j] < n + 1}
    BY <1>5 DEF Valued
  <2>2. Valued(r, n + 1)' = {j \in DOMAIN r.keys \ {"info"} : r.keys[j] < n \/ j = k}
    BY <1>2, <2>1
  <2> QED
    BY <1>3, <2>2
<1> QED
  BY <1>4, <1>5

\* What is known of info stays so within an item.
LEMMA InfoHere ==
  ASSUME NEW r, NEW n, InfoAt(r, n), UNCHANGED <<info_start, info_start_stack_value, info_end>>,
         goal' # "after_info"
  PROVE  InfoAt(r, n)' /\ (goal # "after_info" => Hashed(r, n)' = Hashed(r, n))
BY DEF InfoAt, Hashed, Begun, Closed

\* An item that neither is info nor ends it.
LEMMA InfoBehind ==
  ASSUME NEW r, NEW n \in Nat, InfoAt(r, n), UNCHANGED <<info_start, info_start_stack_value, info_end>>,
         goal' # "after_info",
         "info" \in DOMAIN r.keys => /\ r.keys["info"] \in Nat /\ r.keys["info"] # n + 1
                                     /\ r.ends \in Nat /\ r.ends # n + 1
  PROVE  InfoAt(r, n + 1)' /\ (goal # "after_info" => Hashed(r, n + 1)' = Hashed(r, n))
<1>1. Begun(r, n + 1) <=> Begun(r, n)
  BY DEF Begun
<1>2. Closed(r, n + 1) <=> Closed(r, n)
  BY DEF Closed
<1>3. InfoAt(r, n + 1)'
  <2>1. Begun(r, n + 1)' <=> Begun(r, n)
    BY <1>1 DEF Begun
  <2>2. Closed(r, n + 1)' <=> Closed(r, n)
    BY <1>2 DEF Closed
  <2> QED
    BY <2>1, <2>2 DEF InfoAt
<1>4. goal # "after_info" => Hashed(r, n + 1)' = Hashed(r, n)
  BY <1>2 DEF Hashed, Closed
<1> QED
  BY <1>3, <1>4

\* What one more key adds to the fields.
TorrentOf(a, c, h, n, l, p, s, m) ==
  [announce |-> a, comment |-> c, info_hash |-> h, name |-> n,
   length |-> l, piece_length |-> p, piece_hashes |-> s, num_pieces |-> m]

\* The field of k is filled, with what k stands for.
Filling(b, r, k) ==
  /\ k = "announce" => tf' = [tf EXCEPT !.announce = ValueOf(b, r, k)]
  /\ k = "comment" => tf' = [tf EXCEPT !.comment = ValueOf(b, r, k)]
  /\ k = "name" => tf' = [tf EXCEPT !.name = ValueOf(b, r, k)]
  /\ k = "info" => tf' = [tf EXCEPT !.info_hash = InfoOf(b, r)]
  /\ k = "length" => tf' = [tf EXCEPT !.length = SizeOf(b, r, k)]
  /\ k = "piece length" => tf' = [tf EXCEPT !.piece_length = SizeOf(b, r, k)]
  /\ k = "pieces" => tf' = [tf EXCEPT !.num_pieces = Len(ValueOf(b, r, k)) \div HashLength,
                                     !.piece_hashes = Hashes(ValueOf(b, r, k))]

\* The fields of one more key.
LEMMA FieldFilled ==
  ASSUME NEW b, NEW r, NEW K, NEW k \in Keys \cup {"info"}, tf = FieldsOf(b, r, K),
         Filling(b, r, k)
  PROVE  tf' = FieldsOf(b, r, K \cup {k})
<1> DEFINE A(M) == IF "announce" \in M THEN ValueOf(b, r, "announce") ELSE NULL
           C(M) == IF "comment" \in M THEN ValueOf(b, r, "comment") ELSE NULL
           I(M) == IF "info" \in M THEN InfoOf(b, r) ELSE NULL
           N(M) == IF "name" \in M THEN ValueOf(b, r, "name") ELSE NULL
           L(M) == IF "length" \in M THEN SizeOf(b, r, "length") ELSE 0
           P(M) == IF "piece length" \in M THEN SizeOf(b, r, "piece length") ELSE 0
           H(M) == IF "pieces" \in M THEN Hashes(ValueOf(b, r, "pieces")) ELSE NULL
           Q(M) == IF "pieces" \in M THEN Len(ValueOf(b, r, "pieces")) \div HashLength ELSE 0
           more == K \cup {k}
<1>1. ASSUME NEW M
      PROVE  FieldsOf(b, r, M) = TorrentOf(A(M), C(M), I(M), N(M), L(M), P(M), H(M), Q(M))
  BY DEF FieldsOf, TorrentOf
<1>2. /\ A(more) = IF k = "announce" THEN ValueOf(b, r, k) ELSE A(K)
      /\ C(more) = IF k = "comment" THEN ValueOf(b, r, k) ELSE C(K)
      /\ I(more) = IF k = "info" THEN InfoOf(b, r) ELSE I(K)
      /\ N(more) = IF k = "name" THEN ValueOf(b, r, k) ELSE N(K)
      /\ L(more) = IF k = "length" THEN SizeOf(b, r, k) ELSE L(K)
      /\ P(more) = IF k = "piece length" THEN SizeOf(b, r, k) ELSE P(K)
      /\ H(more) = IF k = "pieces" THEN Hashes(ValueOf(b, r, k)) ELSE H(K)
      /\ Q(more) = IF k = "pieces" THEN Len(ValueOf(b, r, k)) \div HashLength ELSE Q(K)
  OBVIOUS
<1> HIDE DEF A, C, I, N, L, P, H, Q, more
<1>3. tf = TorrentOf(A(K), C(K), I(K), N(K), L(K), P(K), H(K), Q(K))
  BY <1>1
<1>4. FieldsOf(b, r, more) = TorrentOf(A(more), C(more), I(more), N(more), L(more), P(more), H(more), Q(more))
  BY <1>1
<1>5. CASE k = "announce"
  <2>1. tf' = [tf EXCEPT !.announce = ValueOf(b, r, k)]
    BY <1>5 DEF Filling
  <2>2. tf' = TorrentOf(ValueOf(b, r, k), C(K), I(K), N(K), L(K), P(K), H(K), Q(K))
    BY <1>3, <2>1 DEF TorrentOf
  <2>3. FieldsOf(b, r, more) = TorrentOf(ValueOf(b, r, k), C(K), I(K), N(K), L(K), P(K), H(K), Q(K))
    BY <1>2, <1>4, <1>5
  <2> QED
    BY <2>2, <2>3 DEF more
<1>6. CASE k = "comment"
  <2>1. tf' = [tf EXCEPT !.comment = ValueOf(b, r, k)]
    BY <1>6 DEF Filling
  <2>2. tf' = TorrentOf(A(K), ValueOf(b, r, k), I(K), N(K), L(K), P(K), H(K), Q(K))
    BY <1>3, <2>1 DEF TorrentOf
  <2>3. FieldsOf(b, r, more) = TorrentOf(A(K), ValueOf(b, r, k), I(K), N(K), L(K), P(K), H(K), Q(K))
    BY <1>2, <1>4, <1>6
  <2> QED
    BY <2>2, <2>3 DEF more
<1>7. CASE k = "info"
  <2>1. tf' = [tf EXCEPT !.info_hash = InfoOf(b, r)]
    BY <1>7 DEF Filling
  <2>2. tf' = TorrentOf(A(K), C(K), InfoOf(b, r), N(K), L(K), P(K), H(K), Q(K))
    BY <1>3, <2>1 DEF TorrentOf
  <2>3. FieldsOf(b, r, more) = TorrentOf(A(K), C(K), InfoOf(b, r), N(K), L(K), P(K), H(K), Q(K))
    BY <1>2, <1>4, <1>7
  <2> QED
    BY <2>2, <2>3 DEF more
<1>8. CASE k = "name"
  <2>1. tf' = [tf EXCEPT !.name = ValueOf(b, r, k)]
    BY <1>8 DEF Filling
  <2>2. tf' = TorrentOf(A(K), C(K), I(K), ValueOf(b, r, k), L(K), P(K), H(K), Q(K))
    BY <1>3, <2>1 DEF TorrentOf
  <2>3. FieldsOf(b, r, more) = TorrentOf(A(K), C(K), I(K), ValueOf(b, r, k), L(K), P(K), H(K), Q(K))
    BY <1>2, <1>4, <1>8
  <2> QED
    BY <2>2, <2>3 DEF more
<1>9. CASE k = "length"
  <2>1. tf' = [tf EXCEPT !.length = SizeOf(b, r, k)]
    BY <1>9 DEF Filling
  <2>2. tf' = TorrentOf(A(K), C(K), I(K), N(K), SizeOf(b, r, k), P(K), H(K), Q(K))
    BY <1>3, <2>1 DEF TorrentOf
  <2>3. FieldsOf(b, r, more) = TorrentOf(A(K), C(K), I(K), N(K), SizeOf(b, r, k), P(K), H(K), Q(K))
    BY <1>2, <1>4, <1>9
  <2> QED
    BY <2>2, <2>3 DEF more
<1>10. CASE k = "piece length"
  <2>1. tf' = [tf EXCEPT !.piece_length = SizeOf(b, r, k)]
    BY <1>10 DEF Filling
  <2>2. tf' = TorrentOf(A(K), C(K), I(K), N(K), L(K), SizeOf(b, r, k), H(K), Q(K))
    BY <1>3, <2>1 DEF TorrentOf
  <2>3. FieldsOf(b, r, more) = TorrentOf(A(K), C(K), I(K), N(K), L(K), SizeOf(b, r, k), H(K), Q(K))
    BY <1>2, <1>4, <1>10
  <2> QED
    BY <2>2, <2>3 DEF more
<1>11. CASE k = "pieces"
  <2> DEFINE hashes == Hashes(ValueOf(b, r, k))
             many   == Len(ValueOf(b, r, k)) \div HashLength
  <2>1. tf' = [tf EXCEPT !.num_pieces = many, !.piece_hashes = hashes]
    BY <1>11 DEF Filling
  <2>2. FieldsOf(b, r, more) = TorrentOf(A(K), C(K), I(K), N(K), L(K), P(K), hashes, many)
    BY <1>2, <1>4, <1>11
  <2> HIDE DEF hashes, many
  <2>3. PICK f : f = [tf EXCEPT !.num_pieces = many]
    OBVIOUS
  <2>4. f = TorrentOf(A(K), C(K), I(K), N(K), L(K), P(K), H(K), many)
    BY <1>3, <2>3 DEF TorrentOf
  <2>5. tf' = [f EXCEPT !.piece_hashes = hashes]
    BY <2>1, <2>3
  <2>6. tf' = TorrentOf(A(K), C(K), I(K), N(K), L(K), P(K), hashes, many)
    BY <2>4, <2>5 DEF TorrentOf
  <2> QED
    BY <2>2, <2>6 DEF more
<1>12. k \in {"announce", "comment", "info", "name", "length", "piece length", "pieces"}
  BY DEF Keys, StringKeys, IntKeys
<1> QED
  BY <1>5, <1>6, <1>7, <1>8, <1>9, <1>10, <1>11, <1>12

\* Fill gives each key what its value stands for.
LEMMA ValueFills ==
  ASSUME NEW b, NEW r, NEW k \in Keys, key = k, token' = ValueOf(b, r, k), Fill
  PROVE  Filling(b, r, k)
<1>1. k # "info"
  BY DEF Keys, StringKeys, IntKeys
<1>2. CASE k = "announce"
  BY <1>2 DEF Fill, Filling
<1>3. CASE k = "comment"
  BY <1>3 DEF Fill, Filling
<1>4. CASE k = "name"
  BY <1>4 DEF Fill, Filling
<1>5. CASE k \in {"length", "piece length"}
  BY <1>5 DEF Fill, Filling, SizeOf
<1>6. CASE k = "pieces"
  BY <1>6 DEF Fill, Filling
<1>7. k \in {"announce", "comment", "name", "length", "piece length", "pieces"}
  BY DEF Keys, StringKeys, IntKeys
<1> QED
  BY <1>2, <1>3, <1>4, <1>5, <1>6, <1>7

-------------------------------------------------------------------------------
(* The parser and one token of a torrent.                                  *)

\* A token inside an item that fills no field.
LEMMA ParsingHere ==
  ASSUME NEW t, NEW r, NEW n, n < r.good, ParsingAt(t, r, n), At(r.items, n)', GoalAt(r, n)',
         goal # "after_info", goal' # "after_info",
         UNCHANGED <<tf, info_start, info_start_stack_value, info_end>>,
         NoKeyAt(r, n) \/ (status # "int_end" /\ status' # "int_end")
  PROVE  ParsingAt(t, r, n)'
<1>1. Valued(r, n)' = Valued(r, n)
  BY ValuedHere
<1>2. InfoAt(r, n) => InfoAt(r, n)' /\ Hashed(r, n)' = Hashed(r, n)
  BY InfoHere
<1> QED
  BY <1>1, <1>2 DEF ParsingAt

\* The last token of an item that fills no field.
LEMMA ParsingBehind ==
  ASSUME NEW t, NEW r, t.bytes \in Seq(Symbol), IsTorrent(t, r), NEW n \in Nat, ParsingAt(t, r, n),
         At(r.items, n + 1)', status' = "start", GoalAt(r, n + 1)',
         goal # "after_info", goal' # "after_info",
         UNCHANGED <<tf, info_start, info_start_stack_value, info_end>>,
         status = "int_end" \/ \A k \in DOMAIN r.keys \ {"info"} : r.keys[k] # n,
         t.fields # NULL /\ "info" \in DOMAIN r.keys => r.keys["info"] # n + 1 /\ r.ends # n + 1
  PROVE  ParsingAt(t, r, n + 1)'
<1>1. \A k \in DOMAIN r.keys : r.keys[k] \in Nat
  BY TorrentKeys
<1>2. Valued(r, n + 1)' = Valued(r, n)
  BY <1>1, ValuedBehind
<1>3. t.fields # NULL /\ "info" \in DOMAIN r.keys => r.ends \in Nat
  BY TorrentInfo
<1>4. t.fields # NULL /\ InfoAt(r, n) => InfoAt(r, n + 1)' /\ Hashed(r, n + 1)' = Hashed(r, n)
  BY <1>1, <1>3, InfoBehind
<1> QED
  BY <1>2, <1>4 DEF ParsingAt

\* Only strings are keys.
LEMMA NoKeyThere ==
  ASSUME NEW t, NEW r, t.bytes \in Seq(Symbol), IsTorrent(t, r), NEW m, r.items[m].type # "s"
  PROVE  NoKeyAt(r, m)
BY TorrentKeys DEF NoKeyAt

\* The value of info is opened.
LEMMA InfoOpened ==
  ASSUME NEW t, NEW r, t.bytes \in Seq(Symbol), IsTorrent(t, r), NEW n \in 0 .. r.good, n < r.good,
         ParsingAt(t, r, n), ReadsOn(t.bytes, r.items, n), InfoIsDict
  PROVE  UNCHANGED parsed /\ ParsingAt(t, r, n + 1)'
<1>1. goal = "info" /\ UNCHANGED <<tf, info_start, info_start_stack_value, info_end>>
  BY DEF InfoIsDict, Expect
<1>2. status = "start" /\ "info" \in DOMAIN r.keys /\ r.keys["info"] = n
  BY <1>1 DEF ParsingAt, GoalAt
<1>3. r.items[n + 1].type = "d"
  BY <1>2, TorrentItems, TypesOfKeys
<1>4. /\ err' = "OK" /\ token' = <<"d">> /\ status' = "start" /\ At(r.items, n + 1)'
  BY <1>2, <1>3 DEF ReadsOn
<1>5. goal' = "key" /\ UNCHANGED parsed
  BY <1>4 DEF InfoIsDict, Seek, ReturnOk, Refused, Crashed
<1>6. NoKeyAt(r, n + 1)
  BY <1>3, NoKeyThere
<1>7. GoalAt(r, n + 1)'
  BY <1>4, <1>5, <1>6 DEF GoalAt, NoKeyAt
<1>8. \A k \in DOMAIN r.keys \ {"info"} : r.keys[k] # n
  BY <1>2, TorrentKeys
<1>9. n \in Nat
  BY TorrentKeys
<1>10. t.fields # NULL => r.keys["info"] # n + 1 /\ r.ends # n + 1
  <2>1. t.fields # NULL => r.ends \in Nat /\ n + 2 <= r.ends
    BY <1>2, TorrentInfo
  <2> QED
    BY <1>2, <1>9, <2>1
<1> QED
  BY <1>1, <1>4, <1>5, <1>7, <1>8, <1>9, <1>10, ParsingBehind

\* The value of a known key begins.
LEMMA ValueBegun ==
  ASSUME NEW t, NEW r, t.bytes \in Seq(Symbol), IsTorrent(t, r), NEW n \in 0 .. r.good, n < r.good,
         ParsingAt(t, r, n), ReadsOn(t.bytes, r.items, n), ValueMarker
  PROVE  UNCHANGED parsed /\ ParsingAt(t, r, n)'
<1>1. goal = "marker" /\ UNCHANGED <<tf, key, info_start, info_start_stack_value, info_end>>
  BY DEF ValueMarker, Expect
<1>2. status = "start" /\ key \in DOMAIN r.keys \ {"info"} /\ r.keys[key] = n
  BY <1>1 DEF ParsingAt, GoalAt
<1>3. PICK k \in DOMAIN r.keys \ {"info"} : k = key
  BY <1>2
<1>4. k \in Keys /\ r.keys[k] = n
  BY <1>2, <1>3, TorrentKeys DEF Words
<1>5. r.items[n + 1].type = TypeOf(k)
  BY <1>4, TorrentItems
<1>6. /\ r.items[n + 1].type \in {"s", "i"} /\ Marker = <<r.items[n + 1].type>>
  BY <1>3, <1>4, <1>5, TypesOfKeys DEF Keys, Marker
<1>7. /\ err' = "OK" /\ token' = <<r.items[n + 1].type>>
      /\ status' \in {"int_parse", "str_parse"} /\ At(r.items, n)'
  BY <1>2, <1>6 DEF ReadsOn
<1>8. goal' = "value" /\ UNCHANGED parsed
  BY <1>6, <1>7 DEF ValueMarker, Seek, Refused, Crashed
<1>9. GoalAt(r, n)'
  BY <1>1, <1>2, <1>7, <1>8 DEF GoalAt
<1> QED
  BY <1>1, <1>2, <1>7, <1>8, <1>9, ParsingHere

\* The value of a known key is taken.
LEMMA ValueTaken ==
  ASSUME NEW t, NEW r, t.bytes \in Seq(Symbol), IsTorrent(t, r), NEW n \in 0 .. r.good, n < r.good,
         ParsingAt(t, r, n), ReadsOn(t.bytes, r.items, n), Value
  PROVE  UNCHANGED parsed /\ (ParsingAt(t, r, n)' \/ ParsingAt(t, r, n + 1)')
<1> DEFINE b == t.bytes
<1>1. /\ goal = "value" /\ err' = "OK" /\ UNCHANGED <<key, info_start, info_start_stack_value, info_end>>
  BY DEF Value, Expect, ReadsOn
<1>2. Fill /\ goal' = "key" /\ UNCHANGED parsed
  BY <1>1 DEF Value, Refused, Crashed, Seek
<1>3. /\ status \in {"int_parse", "str_parse"} /\ key \in DOMAIN r.keys \ {"info"} /\ r.keys[key] = n
      /\ At(r.items, n)
  BY <1>1 DEF ParsingAt, GoalAt
<1>4. PICK k \in DOMAIN r.keys \ {"info"} : k = key
  BY <1>3
<1>5. k \in Keys /\ r.keys[k] = n
  BY <1>3, <1>4, TorrentKeys DEF Words
<1>6. \A j \in DOMAIN r.keys : r.keys[j] \in Nat /\ (r.keys[j] = n => j = k)
  BY <1>5, TorrentKeys
<1>7. n \in Nat
  BY TorrentKeys
<1>8. t.fields # NULL => InfoAt(r, n) /\ tf = FieldsOf(b, r, Valued(r, n) \cup Hashed(r, n))
  BY DEF ParsingAt
<1>9. ASSUME token' = TextOf(b, r.items[n + 1]), t.fields # NULL
      PROVE  tf' = FieldsOf(b, r, (Valued(r, n) \cup {k}) \cup Hashed(r, n))
  <2>1. token' = ValueOf(b, r, k)
    BY <1>5, <1>9 DEF ValueOf
  <2>2. Filling(b, r, k)
    BY <1>2, <1>4, <1>5, <2>1, ValueFills
  <2>3. tf' = FieldsOf(b, r, (Valued(r, n) \cup Hashed(r, n)) \cup {k})
    BY <1>5, <1>8, <1>9, <2>2, FieldFilled
  <2>4. (Valued(r, n) \cup Hashed(r, n)) \cup {k} = (Valued(r, n) \cup {k}) \cup Hashed(r, n)
    OBVIOUS
  <2> QED
    BY <2>3, <2>4
<1> HIDE DEF b
<1>10. CASE status = "int_parse"
  <2>1. token' = TextOf(b, r.items[n + 1]) /\ status' = "int_end" /\ At(r.items, n)'
    BY <1>10 DEF ReadsOn, b
  <2>2. GoalAt(r, n)'
    BY <1>2, <2>1 DEF GoalAt
  <2>3. Valued(r, n)' = Valued(r, n) \cup {k}
    BY <1>5, <1>6, <1>7, <1>10, <2>1, ValuedMore
  <2>4. InfoAt(r, n) => InfoAt(r, n)' /\ Hashed(r, n)' = Hashed(r, n)
    BY <1>1, <1>2, InfoHere
  <2>5. ParsingAt(t, r, n)'
    BY <1>8, <1>9, <2>1, <2>2, <2>3, <2>4 DEF ParsingAt, b
  <2> QED
    BY <1>2, <2>5
<1>11. CASE status = "str_parse"
  <2>1. /\ token' = TextOf(b, r.items[n + 1]) /\ status' = "start" /\ At(r.items, n + 1)'
        /\ r.items[n + 1].type = "s"
    BY <1>11 DEF ReadsOn, b
  <2>2. NoKeyAt(r, n + 1)
    <3> SUFFICES ASSUME NEW j \in DOMAIN r.keys, r.keys[j] = n + 1 PROVE FALSE
      BY DEF NoKeyAt
    <3>1. r.keys[j] = r.keys[k] + 1
      BY <1>5
    <3>2. IsValue(r, r.keys[j])
      BY <3>1 DEF IsValue
    <3> QED
      BY <3>2, TorrentKeys
  <2>3. GoalAt(r, n + 1)'
    BY <1>2, <2>1, <2>2 DEF GoalAt, NoKeyAt
  <2>4. Valued(r, n + 1)' = Valued(r, n) \cup {k}
    BY <1>5, <1>6, <1>7, <1>11, <2>1, ValuedMore
  <2>5. t.fields # NULL /\ "info" \in DOMAIN r.keys => r.ends \in Nat /\ r.ends # n + 1
    BY <2>1, TorrentInfo
  <2>6. t.fields # NULL => InfoAt(r, n + 1)' /\ Hashed(r, n + 1)' = Hashed(r, n)
    BY <1>1, <1>2, <1>6, <1>7, <1>8, <2>2, <2>5, InfoBehind DEF NoKeyAt
  <2>7. ParsingAt(t, r, n + 1)'
    BY <1>9, <2>1, <2>3, <2>4, <2>6 DEF ParsingAt, b
  <2> QED
    BY <1>2, <2>7
<1> QED
  BY <1>3, <1>10, <1>11

\* An item ends inside the data.
LEMMA LastInside ==
  ASSUME NEW at \in Nat, NEW next \in Nat, NEW whole \in Nat, NEW size \in Nat,
         next \in at + 1 .. whole + 1, whole <= size
  PROVE  next - 1 <= size
OBVIOUS

\* What is hashed is the value of info, from its first byte to its last.
LEMMA HashIsInfo ==
  ASSUME TypeOK, main_pc = "parse", goal = "after_info",
         NEW t, NEW r, t.bytes \in Seq(Symbol), IsTorrent(t, r),
         Loaded(t.bytes), t.whole <= data_size, "info" \in DOMAIN r.keys, r.ends \in 1 .. Len(r.items),
         info_start = r.items[r.keys["info"]].next, info_end = r.items[r.ends].next - 1
  PROVE  Hash = InfoOf(t.bytes, r)
<1> DEFINE from == r.items[r.keys["info"]].next
           last == r.items[r.ends].next - 1
           b    == t.bytes
<1>1. /\ mem \in Seq(Symbol) /\ Len(mem) \in Nat /\ data_size \in Nat /\ current \in 1 .. Len(mem) + 1
  BY DEF TypeOK, TokenizerTypeOK, EndOfMem
<1>2. info_start = from /\ info_end = last
  OBVIOUS
<1>3. from \in 1 .. current /\ last \in from .. Len(mem)
  <2>1. HashRange /\ info_end \in info_start .. Len(mem) /\ info_start # NULL
    BY DEF TypeOK, HashRange
  <2>2. info_start \in 1 .. current
    BY <2>1 DEF HashRange
  <2> QED
    BY <1>2, <2>1, <2>2
<1>4. r.items[r.ends] \in Item /\ IsItem(b, t.whole, r.items[r.ends]) /\ t.whole \in Nat
  <2>1. IsReading(b, t.whole, r.items)
    BY TorrentKeys
  <2> QED
    BY <2>1 DEF IsReading
<1>5. last <= data_size
  <2>1. r.items[r.ends].next \in Nat /\ r.items[r.ends].at \in Nat
    BY <1>4 DEF Item
  <2>2. r.items[r.ends].next \in r.items[r.ends].at + 1 .. t.whole + 1
    BY <1>4 DEF IsItem
  <2>3. PICK size \in Nat : size = data_size
    BY <1>1
  <2>4. r.items[r.ends].next - 1 <= size
    BY <1>4, <2>1, <2>2, <2>3, LastInside
  <2> QED
    BY <2>3, <2>4
<1> HIDE DEF from, last, b
<1>6. from \in Nat \ {0} /\ last \in Nat /\ from <= last + 1
  BY <1>1, <1>3
<1>7. SubSeq(mem, from, last) = SubSeq(b, from, last)
  BY <1>1, <1>5, <1>6, SameSlice DEF b
<1> QED
  BY <1>2, <1>7 DEF Hash, InfoOf, from, last, b

\* One token behind info the hash is taken.
LEMMA HashTaken ==
  ASSUME TypeOK, main_pc = "parse",
         NEW t, NEW r, t.bytes \in Seq(Symbol), IsTorrent(t, r), Loaded(t.bytes), t.whole <= data_size,
         NEW n \in 0 .. r.good, n < r.good,
         ParsingAt(t, r, n), ReadsOn(t.bytes, r.items, n), AfterInfo
  PROVE  UNCHANGED parsed /\ (ParsingAt(t, r, n)' \/ ParsingAt(t, r, n + 1)')
<1> DEFINE b == t.bytes
<1>1. /\ goal = "after_info" /\ err' = "OK" /\ UNCHANGED <<key, info_start, info_start_stack_value, info_end>>
  BY DEF AfterInfo, Expect, ReadsOn
<1>2. tf' = [tf EXCEPT !.info_hash = Hash] /\ goal' = "key" /\ UNCHANGED parsed
  BY <1>1 DEF AfterInfo, Refused, Crashed, Seek
<1>3. status = "start" /\ NoKeyAt(r, n)
  BY <1>1 DEF ParsingAt, GoalAt
<1>4. n \in Nat /\ n < Len(r.items) /\ \A k \in DOMAIN r.keys : r.keys[k] \in Nat
  BY TorrentKeys
<1>5. t.fields # NULL =>
        /\ InfoAt(r, n) /\ tf = FieldsOf(b, r, Valued(r, n) \cup Hashed(r, n))
        /\ "info" \in DOMAIN r.keys /\ r.ends = n
  BY <1>1 DEF ParsingAt, InfoAt, Closed
<1>6. t.fields # NULL => tf' = FieldsOf(b, r, Valued(r, n) \cup {"info"})
  <2> SUFFICES ASSUME t.fields # NULL PROVE tf' = FieldsOf(b, r, Valued(r, n) \cup {"info"})
    OBVIOUS
  <2>1. r.ends \in Nat /\ r.keys["info"] + 2 <= r.ends /\ r.ends < Len(r.items)
    BY <1>5, TorrentInfo
  <2>2. r.ends \in 1 .. Len(r.items) /\ Begun(r, n) /\ Closed(r, n)
    BY <1>4, <1>5, <2>1, TorrentKeys DEF Begun, Closed
  <2>3. info_start = r.items[r.keys["info"]].next /\ info_end = r.items[r.ends].next - 1
    BY <1>5, <2>2 DEF InfoAt
  <2>4. Hash = InfoOf(b, r)
    BY <1>1, <1>5, <2>2, <2>3, HashIsInfo
  <2>5. Filling(b, r, "info")
    BY <1>2, <2>4 DEF Filling
  <2>6. Valued(r, n) \cup Hashed(r, n) = Valued(r, n)
    BY <1>1 DEF Hashed
  <2> HIDE DEF b
  <2> QED
    BY <1>5, <2>5, <2>6, FieldFilled
<1> HIDE DEF b
<1>7. CASE At(r.items, n)' /\ status' \in {"int_parse", "str_parse"}
  <2>1. GoalAt(r, n)'
    BY <1>2, <1>3, <1>7 DEF GoalAt, NoKeyAt
  <2>2. Valued(r, n)' = Valued(r, n)
    BY <1>3, ValuedHere
  <2>3. t.fields # NULL => InfoAt(r, n)'
    BY <1>1, <1>2, <1>5, InfoHere
  <2>4. t.fields # NULL => Hashed(r, n)' = {"info"}
    BY <1>2, <1>4, <1>5 DEF Hashed, Closed
  <2>5. ParsingAt(t, r, n)'
    BY <1>6, <1>7, <2>1, <2>2, <2>3, <2>4 DEF ParsingAt, b
  <2> QED
    BY <1>2, <2>5
<1>8. CASE At(r.items, n + 1)' /\ status' = "start" /\ r.items[n + 1].type \in {"l", "d", "e"}
  <2>1. NoKeyAt(r, n + 1)
    BY <1>8, NoKeyThere
  <2>2. GoalAt(r, n + 1)'
    BY <1>2, <1>8, <2>1 DEF GoalAt, NoKeyAt
  <2>3. Valued(r, n + 1)' = Valued(r, n)
    BY <1>3, <1>4, <1>8, ValuedBehind DEF NoKeyAt
  <2>4. t.fields # NULL => InfoAt(r, n + 1)'
    BY <1>1, <1>2, <1>4, <1>5, <2>1, InfoBehind DEF NoKeyAt
  <2>5. t.fields # NULL => Hashed(r, n + 1)' = {"info"}
    BY <1>2, <1>4, <1>5 DEF Hashed, Closed
  <2>6. ParsingAt(t, r, n + 1)'
    BY <1>6, <1>8, <2>2, <2>3, <2>4, <2>5 DEF ParsingAt, b
  <2> QED
    BY <1>2, <2>6
<1> QED
  BY <1>3, <1>7, <1>8 DEF ReadsOn

\* The token of an integer is neither a key nor an end.
LEMMA IntIsNoKey ==
  ASSUME NEW b \in Seq(Symbol), NEW whole \in 1 .. Len(b), NEW x \in Item, IsItem(b, whole, x), x.type = "i",
         NEW c \in Words \cup {"e"}
  PROVE  TextOf(b, x) # <<c>>
<1> SUFFICES ASSUME TextOf(b, x) = <<c>> PROVE FALSE
  OBVIOUS
<1>1. x.at \in Nat /\ x.text \in Nat /\ x.next \in Nat /\ Len(b) \in Nat /\ whole \in Nat
  BY DEF Item
<1>2. /\ x.text = x.at + 1 /\ x.text < x.next /\ x.next \in x.at + 1 .. whole + 1
      /\ \A j \in x.text .. x.next - 2 : b[j] \in Digit \/ (j = x.text /\ b[j] = "-")
  BY DEF IsItem
<1> DEFINE last == x.next - 2
           text == SubSeq(b, x.text, last)
<1>3. x.text \in Nat \ {0} /\ last \in Nat /\ last <= Len(b) /\ x.text <= last + 1
  BY <1>1, <1>2
<1>4. text = <<c>>
  BY DEF TextOf
<1> HIDE DEF last
<1>5. Len(text) = (last + 1) - x.text /\ \A i \in 1 .. (last + 1) - x.text : text[i] = b[(x.text - 1) + i]
  BY <1>3, SliceAt
<1> HIDE DEF text
<1>6. Len(text) = 1 /\ text[1] = c
  BY <1>4
<1>7. (last + 1) - x.text = 1
  BY <1>5, <1>6
<1>8. x.text = last /\ 1 \in 1 .. (last + 1) - x.text /\ (x.text - 1) + 1 = x.text
  BY <1>1, <1>3, <1>7
<1>9. b[x.text] = c
  BY <1>5, <1>6, <1>8
<1>10. x.text \in x.text .. x.next - 2
  BY <1>3, <1>8 DEF last
<1>11. c \in Digit \cup {"-"}
  BY <1>2, <1>9, <1>10
<1> QED
  BY <1>11, DigitsAre DEF Words, Keys, StringKeys, IntKeys

\* Nor are the marks of the scanner.
LEMMA MarksAreNoKeys ==
  ASSUME NEW k \in Words
  PROVE  /\ <<"l">> # <<k>> /\ <<"d">> # <<k>> /\ <<"e">> # <<k>> /\ <<"i">> # <<k>> /\ <<"s">> # <<k>>
         /\ <<"l">> # <<"e">> /\ <<"d">> # <<"e">> /\ <<"i">> # <<"e">> /\ <<"s">> # <<"e">>
<1>1. k \notin {"l", "d", "e", "i", "s"}
  BY DEF Words, Keys, StringKeys, IntKeys
<1>2. ASSUME NEW c, NEW d, <<c>> = <<d>> PROVE c = d
  BY <1>2
<1> QED
  BY <1>1, <1>2

\* NextKey on a token.
LEMMA NextKeyGets ==
  ASSUME NextKey, err' = "OK"
  PROVE  /\ UNCHANGED <<tf, parsed>> /\ goal = "key"
         /\ \/ \E k \in Keys : /\ token' = <<k>> /\ key' = k /\ goal' = "marker"
                               /\ UNCHANGED <<info_start, info_start_stack_value, info_end>>
            \/ /\ token' = <<"info">> /\ info_start' = current' /\ info_start_stack_value' = list_dict_stack'
               /\ goal' = "info" /\ UNCHANGED info_end
            \/ /\ InfoEnds /\ info_end' = current' - 1 /\ goal' = "after_info"
               /\ UNCHANGED <<info_start, info_start_stack_value>>
            \/ /\ ~InfoEnds /\ goal' = "key" /\ \A k \in Words : token' # <<k>>
               /\ UNCHANGED <<info_start, info_start_stack_value, info_end>>
<1>1. UNCHANGED tf /\ goal = "key"
  BY DEF NextKey, Expect
<1>2. \/ /\ err' = "OK" /\ \E k \in Keys : token' = <<k>> /\ key' = k
         /\ Seek("marker")
         /\ UNCHANGED <<info_start, info_end, info_start_stack_value>>
      \/ /\ err' = "OK" /\ token' = <<"info">>
         /\ info_start' = current' /\ info_start_stack_value' = list_dict_stack'
         /\ Seek("info")
         /\ UNCHANGED <<key, info_end>>
      \/ /\ err' = "OK" /\ InfoEnds
         /\ info_end' = current' - 1
         /\ Seek("after_info")
         /\ UNCHANGED <<key, info_start, info_start_stack_value>>
      \/ /\ err' = "OK" /\ ~InfoEnds /\ token' \notin {<<k>> : k \in Keys \cup {"info"}}
         /\ Seek("key")
         /\ UNCHANGED <<key, info_start, info_end, info_start_stack_value>>
  BY DEF NextKey, Crashed
<1>3. token' \notin {<<k>> : k \in Keys \cup {"info"}} => \A k \in Words : token' # <<k>>
  BY DEF Words
<1> QED
  BY <1>1, <1>2, <1>3 DEF Seek

\* A token inside an item.
LEMMA KeyInItem ==
  ASSUME NEW t, NEW r, t.bytes \in Seq(Symbol), IsTorrent(t, r), NEW n \in 0 .. r.good, n < r.good,
         ParsingAt(t, r, n), ReadsOn(t.bytes, r.items, n), NextKey,
         status' \in {"int_parse", "int_end", "str_parse"}
  PROVE  UNCHANGED parsed /\ ParsingAt(t, r, n)'
<1>1. /\ UNCHANGED <<tf, parsed>> /\ goal = "key"
      /\ \/ \E k \in Keys : token' = <<k>>
         \/ token' = <<"info">>
         \/ InfoEnds
         \/ /\ goal' = "key" /\ UNCHANGED <<info_start, info_start_stack_value, info_end>>
  BY NextKeyGets DEF ReadsOn
<1>2. /\ At(r.items, n)' /\ status # "int_end"
      /\ \/ token' = <<"i">> \/ token' = <<"s">>
         \/ r.items[n + 1].type = "i" /\ token' = TextOf(t.bytes, r.items[n + 1])
  BY DEF ReadsOn
<1>3. NoKeyAt(r, n)
  BY <1>1, <1>2 DEF ParsingAt, GoalAt
<1>4. \A c \in Words \cup {"e"} : token' # <<c>>
  <2> SUFFICES ASSUME NEW c \in Words \cup {"e"} PROVE token' # <<c>>
    OBVIOUS
  <2>1. CASE token' = <<"i">> \/ token' = <<"s">>
    <3>1. "name" \in Words
      BY DEF Words, Keys, StringKeys
    <3>2. <<"i">> # <<c>> /\ <<"s">> # <<c>>
      BY <3>1, MarksAreNoKeys
    <3> QED
      BY <2>1, <3>2
  <2>2. CASE r.items[n + 1].type = "i" /\ token' = TextOf(t.bytes, r.items[n + 1])
    <3>1. IsReading(t.bytes, t.whole, r.items)
      BY TorrentKeys
    <3>2. n \in 0 .. Len(r.items) - 1
      BY TorrentItems
    <3>3. /\ t.whole \in 1 .. Len(t.bytes) /\ r.items[n + 1] \in Item
          /\ IsItem(t.bytes, t.whole, r.items[n + 1])
      BY <3>1, <3>2, NextItem
    <3> QED
      BY <2>2, <3>3, IntIsNoKey
  <2> QED
    BY <1>2, <2>1, <2>2
<1>5. goal' = "key" /\ UNCHANGED <<info_start, info_start_stack_value, info_end>>
  <2>1. ~InfoEnds
    BY <1>4 DEF InfoEnds
  <2>2. token' # <<"info">> /\ \A k \in Keys : token' # <<k>>
    BY <1>4 DEF Words
  <2> QED
    BY <1>1, <2>1, <2>2
<1>6. GoalAt(r, n)'
  BY <1>3, <1>5 DEF GoalAt, NoKeyAt
<1> QED
  BY <1>1, <1>2, <1>3, <1>5, <1>6, ParsingHere

\* Place and depth behind an item.
LEMMA BehindItem ==
  ASSUME NEW items, NEW n \in Nat, At(items, n + 1)', status' = "start"
  PROVE  current' = items[n + 1].next /\ list_dict_stack' = items[n + 1].depth
<1>1. n + 1 # 0
  OBVIOUS
<1>2. Place(items, n + 1) = items[n + 1].next /\ Depth(items, n + 1) = items[n + 1].depth
  BY <1>1 DEF Place, Depth
<1>3. current' = Place(items, n + 1) /\ list_dict_stack' = Depth(items, n + 1)
  BY DEF At
<1> QED
  BY <1>2, <1>3

\* A token that is a key is one of the torrent's.
LEMMA KeyIsThere ==
  ASSUME NEW t, NEW r, t.bytes \in Seq(Symbol), IsTorrent(t, r), NEW n \in 0 .. r.good, n < r.good,
         goal = "key", ParsingAt(t, r, n), ReadsOn(t.bytes, r.items, n), status' = "start",
         NEW k \in Words, token' = <<k>>
  PROVE  k \in DOMAIN r.keys /\ r.keys[k] = n + 1 /\ r.items[n + 1].type = "s" /\ NoKeyAt(r, n)
<1>1. r.items[n + 1].type = "s" /\ status = "str_parse" /\ token' = TextOf(t.bytes, r.items[n + 1])
  BY MarksAreNoKeys DEF ReadsOn
<1>2. NoKeyAt(r, n)
  BY <1>1 DEF ParsingAt, GoalAt
<1>3. Spells(t.bytes, r.items[n + 1], k)
  BY <1>1 DEF Spells
<1> QED
  BY <1>1, <1>2, <1>3, TorrentItems DEF NoKeyAt

\* A known key.
LEMMA KeyFound ==
  ASSUME NEW t, NEW r, t.bytes \in Seq(Symbol), IsTorrent(t, r), NEW n \in 0 .. r.good, n < r.good,
         goal = "key", ParsingAt(t, r, n), ReadsOn(t.bytes, r.items, n),
         status' = "start", At(r.items, n + 1)', NEW k \in Keys, token' = <<k>>, key' = k, goal' = "marker",
         UNCHANGED <<tf, info_start, info_start_stack_value, info_end>>
  PROVE  ParsingAt(t, r, n + 1)'
<1>1. k # "info" /\ k \in Words
  BY DEF Words, Keys, StringKeys, IntKeys
<1>2. k \in DOMAIN r.keys /\ r.keys[k] = n + 1 /\ r.items[n + 1].type = "s" /\ NoKeyAt(r, n)
  BY <1>1, KeyIsThere
<1>3. GoalAt(r, n + 1)'
  BY <1>1, <1>2 DEF GoalAt
<1>4. t.fields # NULL /\ "info" \in DOMAIN r.keys => r.keys["info"] # n + 1 /\ r.ends # n + 1
  <2>1. "info" \in DOMAIN r.keys => r.keys["info"] # n + 1
    BY <1>1, <1>2, TorrentKeys
  <2>2. t.fields # NULL /\ "info" \in DOMAIN r.keys => r.ends # n + 1
    BY <1>2, TorrentInfo
  <2> QED
    BY <2>1, <2>2
<1>5. n \in Nat
  BY TorrentKeys
<1> QED
  BY <1>2, <1>3, <1>4, <1>5, ParsingBehind DEF NoKeyAt

\* The key info.
LEMMA InfoFound ==
  ASSUME NEW t, NEW r, t.bytes \in Seq(Symbol), IsTorrent(t, r), NEW n \in 0 .. r.good, n < r.good,
         goal = "key", ParsingAt(t, r, n), ReadsOn(t.bytes, r.items, n),
         status' = "start", At(r.items, n + 1)', token' = <<"info">>, goal' = "info",
         info_start' = current', info_start_stack_value' = list_dict_stack', UNCHANGED <<tf, info_end>>
  PROVE  ParsingAt(t, r, n + 1)'
<1>1. "info" \in Words
  BY DEF Words
<1>2. "info" \in DOMAIN r.keys /\ r.keys["info"] = n + 1 /\ NoKeyAt(r, n)
  BY <1>1, KeyIsThere
<1>3. n \in Nat /\ \A k \in DOMAIN r.keys : r.keys[k] \in Nat
  BY TorrentKeys
<1>4. GoalAt(r, n + 1)'
  BY <1>2 DEF GoalAt
<1>5. current' = r.items[n + 1].next /\ list_dict_stack' = r.items[n + 1].depth
  BY <1>3, BehindItem
<1>6. ASSUME t.fields # NULL
      PROVE  InfoAt(r, n + 1)' /\ tf' = FieldsOf(t.bytes, r, Valued(r, n + 1)' \cup Hashed(r, n + 1)')
  <2>1. r.ends \in Nat /\ (n + 1) + 2 <= r.ends
    BY <1>2, <1>6, TorrentInfo
  <2>2. ~Closed(r, n) /\ ~Closed(r, n + 1)
    BY <1>3, <2>1 DEF Closed
  <2>3. Begun(r, n + 1)
    BY <1>2, <1>3 DEF Begun
  <2>4. InfoAt(r, n) /\ tf = FieldsOf(t.bytes, r, Valued(r, n) \cup Hashed(r, n))
    BY <1>6 DEF ParsingAt
  <2>5. info_end' = NULL
    BY <2>2, <2>4 DEF InfoAt
  <2>6. InfoAt(r, n + 1)'
    BY <1>2, <1>5, <2>2, <2>3, <2>5 DEF InfoAt, Begun, Closed
  <2>7. Valued(r, n + 1)' = Valued(r, n)
    BY <1>2, <1>3, ValuedBehind DEF NoKeyAt
  <2>8. Hashed(r, n + 1)' = {} /\ Hashed(r, n) = {}
    BY <2>2 DEF Hashed, Closed
  <2> QED
    BY <2>4, <2>6, <2>7, <2>8
<1> QED
  BY <1>4, <1>6 DEF ParsingAt

\* NULL is no place.
LEMMA PlacesAreSet ==
  ASSUME NEW b, NEW whole, NEW items, IsReading(b, whole, items), NEW m \in 1 .. Len(items)
  PROVE  /\ items[m].next \in Nat /\ items[m].next # NULL /\ items[m].next - 1 # NULL /\ items[m].depth \in Int
<1>1. items[m] \in Item /\ IsItem(b, whole, items[m]) /\ whole \in 1 .. Len(b)
  BY DEF IsReading
<1>2. items[m].next \in Nat /\ items[m].at \in Nat /\ items[m].depth \in Int
  BY <1>1 DEF Item
<1>3. items[m].next # 0
  <2>1. items[m].next \in items[m].at + 1 .. whole + 1
    BY <1>1 DEF IsItem
  <2> QED
    BY <1>2, <2>1
<1>4. items[m].next - 1 \in Nat
  BY <1>2, <1>3, NaturalBefore
<1> QED
  BY <1>2, <1>4, StartupAssumption

\* The end of the value of info, and what is none.
LEMMA InfoEndsThere ==
  ASSUME NEW t, NEW r, t.bytes \in Seq(Symbol), IsTorrent(t, r), t.fields # NULL,
         NEW n \in 0 .. r.good, n < r.good, ParsingAt(t, r, n), ReadsOn(t.bytes, r.items, n),
         status' = "start", At(r.items, n + 1)'
  PROVE  /\ InfoEnds => Begun(r, n) /\ ~Closed(r, n) /\ r.ends = n + 1
         /\ "info" \in DOMAIN r.keys /\ r.ends = n + 1 => InfoEnds
<1>1. /\ IsReading(t.bytes, t.whole, r.items) /\ Len(r.items) \in Nat /\ n \in Nat /\ n < Len(r.items)
      /\ \A k \in DOMAIN r.keys : r.keys[k] \in 1 .. Len(r.items)
  BY TorrentKeys
<1>2. current' = r.items[n + 1].next /\ list_dict_stack' = r.items[n + 1].depth
  BY <1>1, BehindItem
<1>3. InfoAt(r, n)
  BY DEF ParsingAt
<1>4. ASSUME "info" \in DOMAIN r.keys
      PROVE  /\ r.ends \in Nat /\ r.ends \in 1 .. Len(r.items) /\ r.keys["info"] \in Nat
             /\ r.keys["info"] + 2 <= r.ends /\ r.items[r.ends].type = "e"
             /\ r.items[r.ends].depth = r.items[r.keys["info"]].depth
             /\ \A m \in Nat : r.keys["info"] < m /\ m < r.ends => r.items[m].depth > r.items[r.keys["info"]].depth
             /\ r.items[r.keys["info"]].next # NULL /\ r.items[r.ends].next - 1 # NULL
             /\ r.items[r.keys["info"]].depth \in Int
  <2>1. /\ r.ends \in Nat /\ r.keys["info"] + 2 <= r.ends /\ r.ends < Len(r.items)
        /\ r.items[r.ends].type = "e" /\ r.items[r.ends].depth = r.items[r.keys["info"]].depth
        /\ \A m \in Nat : r.keys["info"] < m /\ m < r.ends => r.items[m].depth > r.items[r.keys["info"]].depth
    BY <1>4, TorrentInfo
  <2>2. r.keys["info"] \in 1 .. Len(r.items) /\ r.keys["info"] \in Nat
    BY <1>1, <1>4
  <2>3. r.ends \in 1 .. Len(r.items)
    BY <1>1, <2>1, <2>2
  <2> QED
    BY <1>1, <2>1, <2>2, <2>3, PlacesAreSet
<1>5. ASSUME InfoEnds PROVE Begun(r, n) /\ ~Closed(r, n) /\ r.ends = n + 1
  <2>1. info_start # NULL /\ info_end = NULL /\ list_dict_stack' = info_start_stack_value
    BY <1>5 DEF InfoEnds
  <2>2. Begun(r, n) /\ "info" \in DOMAIN r.keys /\ r.keys["info"] <= n
    BY <1>3, <2>1 DEF InfoAt, Begun
  <2>3. ~Closed(r, n)
    BY <1>3, <1>4, <2>1, <2>2 DEF InfoAt
  <2>4. ~(r.ends <= n)
    BY <2>2, <2>3 DEF Closed
  <2>5. r.items[n + 1].depth = r.items[r.keys["info"]].depth
    BY <1>2, <1>3, <2>1, <2>2 DEF InfoAt
  <2>6. ~(n + 1 < r.ends)
    <3> SUFFICES ASSUME n + 1 < r.ends PROVE FALSE
      OBVIOUS
    <3>1. n + 1 \in Nat /\ r.keys["info"] < n + 1
      BY <1>1, <1>4, <2>2
    <3>2. r.items[n + 1].depth > r.items[r.keys["info"]].depth /\ r.items[r.keys["info"]].depth \in Int
      BY <1>4, <2>2, <3>1
    <3>3. PICK d \in Int : d = r.items[r.keys["info"]].depth
      BY <3>2
    <3>4. d > d
      BY <2>5, <3>2, <3>3
    <3> QED
      BY <3>4
  <2>7. r.ends = n + 1
    BY <1>1, <1>4, <2>2, <2>4, <2>6
  <2> QED
    BY <2>2, <2>3, <2>7
<1>6. ASSUME "info" \in DOMAIN r.keys, r.ends = n + 1 PROVE InfoEnds
  <2>1. Begun(r, n) /\ ~Closed(r, n)
    BY <1>1, <1>4, <1>6 DEF Begun, Closed
  <2>2. info_start # NULL /\ info_end = NULL /\ info_start_stack_value = r.items[r.keys["info"]].depth
    BY <1>3, <1>4, <1>6, <2>1 DEF InfoAt
  <2>3. token' = <<"e">>
    BY <1>4, <1>6 DEF ReadsOn
  <2> QED
    BY <1>2, <1>4, <1>6, <2>2, <2>3 DEF InfoEnds
<1> QED
  BY <1>5, <1>6

\* A token that spells no key comes from an item that is none.
LEMMA NoKeyRead ==
  ASSUME NEW t, NEW r, t.bytes \in Seq(Symbol), IsTorrent(t, r), NEW n,
         ReadsOn(t.bytes, r.items, n), status' = "start", \A k \in Words : token' # <<k>>
  PROVE  NoKeyAt(r, n + 1)
<1> SUFFICES ASSUME NEW k \in DOMAIN r.keys, r.keys[k] = n + 1 PROVE FALSE
  BY DEF NoKeyAt
<1>1. k \in Words /\ r.items[n + 1].type = "s" /\ TextOf(t.bytes, r.items[n + 1]) = <<k>>
  BY TorrentKeys
<1>2. token' = TextOf(t.bytes, r.items[n + 1])
  BY <1>1 DEF ReadsOn
<1> QED
  BY <1>1, <1>2

\* The value of info is closed.
LEMMA InfoClosed ==
  ASSUME NEW t, NEW r, t.bytes \in Seq(Symbol), IsTorrent(t, r), NEW n \in 0 .. r.good, n < r.good,
         goal = "key", ParsingAt(t, r, n), ReadsOn(t.bytes, r.items, n),
         status' = "start", At(r.items, n + 1)', InfoEnds, info_end' = current' - 1, goal' = "after_info",
         UNCHANGED <<tf, info_start, info_start_stack_value>>
  PROVE  ParsingAt(t, r, n + 1)'
<1>1. \A k \in Words : token' # <<k>>
  BY MarksAreNoKeys DEF InfoEnds
<1>2. NoKeyAt(r, n + 1)
  BY <1>1, NoKeyRead
<1>3. GoalAt(r, n + 1)'
  BY <1>2 DEF GoalAt, NoKeyAt
<1>4. n \in Nat /\ \A k \in DOMAIN r.keys : r.keys[k] \in Nat
  BY TorrentKeys
<1>5. current' = r.items[n + 1].next
  BY <1>4, BehindItem
<1>6. ASSUME t.fields # NULL
      PROVE  InfoAt(r, n + 1)' /\ tf' = FieldsOf(t.bytes, r, Valued(r, n + 1)' \cup Hashed(r, n + 1)')
  <2>1. Begun(r, n) /\ ~Closed(r, n) /\ r.ends = n + 1
    BY <1>6, InfoEndsThere
  <2>2. Begun(r, n + 1) /\ Closed(r, n + 1)
    BY <1>4, <2>1 DEF Begun, Closed
  <2>3. InfoAt(r, n) /\ tf = FieldsOf(t.bytes, r, Valued(r, n) \cup Hashed(r, n))
    BY <1>6 DEF ParsingAt
  <2>4. info_end' = r.items[r.ends].next - 1
    BY <1>5, <2>1
  <2>5. InfoAt(r, n + 1)'
    BY <2>1, <2>2, <2>3, <2>4 DEF InfoAt, Begun, Closed
  <2>6. Valued(r, n + 1)' = Valued(r, n)
    <3>1. status = "int_end" \/ NoKeyAt(r, n)
      BY DEF ParsingAt, GoalAt
    <3> QED
      BY <1>4, <3>1, ValuedBehind DEF NoKeyAt
  <2>7. Hashed(r, n + 1)' = {} /\ Hashed(r, n) = {}
    BY <2>1 DEF Hashed
  <2> QED
    BY <2>3, <2>5, <2>6, <2>7
<1> QED
  BY <1>3, <1>6 DEF ParsingAt

\* Nothing to remember.
LEMMA NothingFound ==
  ASSUME NEW t, NEW r, t.bytes \in Seq(Symbol), IsTorrent(t, r), NEW n \in 0 .. r.good, n < r.good,
         goal = "key", ParsingAt(t, r, n), ReadsOn(t.bytes, r.items, n),
         status' = "start", At(r.items, n + 1)', ~InfoEnds, \A k \in Words : token' # <<k>>, goal' = "key",
         UNCHANGED <<tf, info_start, info_start_stack_value, info_end>>
  PROVE  ParsingAt(t, r, n + 1)'
<1>1. NoKeyAt(r, n + 1)
  BY NoKeyRead
<1>2. GoalAt(r, n + 1)'
  BY <1>1 DEF GoalAt, NoKeyAt
<1>3. n \in Nat
  BY TorrentKeys
<1>4. status = "int_end" \/ NoKeyAt(r, n)
  BY DEF ParsingAt, GoalAt
<1>5. t.fields # NULL /\ "info" \in DOMAIN r.keys => r.keys["info"] # n + 1 /\ r.ends # n + 1
  BY <1>1, InfoEndsThere DEF NoKeyAt
<1> QED
  BY <1>2, <1>3, <1>4, <1>5, ParsingBehind DEF NoKeyAt

\* The last token of an item.
LEMMA KeyBehindItem ==
  ASSUME NEW t, NEW r, t.bytes \in Seq(Symbol), IsTorrent(t, r), NEW n \in 0 .. r.good, n < r.good,
         ParsingAt(t, r, n), ReadsOn(t.bytes, r.items, n), NextKey,
         status' = "start", At(r.items, n + 1)'
  PROVE  UNCHANGED parsed /\ ParsingAt(t, r, n + 1)'
<1>1. /\ UNCHANGED <<tf, parsed>> /\ goal = "key"
      /\ \/ \E k \in Keys : /\ token' = <<k>> /\ key' = k /\ goal' = "marker"
                            /\ UNCHANGED <<info_start, info_start_stack_value, info_end>>
         \/ /\ token' = <<"info">> /\ info_start' = current' /\ info_start_stack_value' = list_dict_stack'
            /\ goal' = "info" /\ UNCHANGED info_end
         \/ /\ InfoEnds /\ info_end' = current' - 1 /\ goal' = "after_info"
            /\ UNCHANGED <<info_start, info_start_stack_value>>
         \/ /\ ~InfoEnds /\ goal' = "key" /\ \A k \in Words : token' # <<k>>
            /\ UNCHANGED <<info_start, info_start_stack_value, info_end>>
  BY NextKeyGets DEF ReadsOn
<1>2. CASE \E k \in Keys : /\ token' = <<k>> /\ key' = k /\ goal' = "marker"
                           /\ UNCHANGED <<info_start, info_start_stack_value, info_end>>
  <2>1. PICK k \in Keys : /\ token' = <<k>> /\ key' = k /\ goal' = "marker"
                          /\ UNCHANGED <<info_start, info_start_stack_value, info_end>>
    BY <1>2
  <2> QED
    BY <1>1, <2>1, KeyFound
<1>3. CASE /\ token' = <<"info">> /\ info_start' = current' /\ info_start_stack_value' = list_dict_stack'
           /\ goal' = "info" /\ UNCHANGED info_end
  BY <1>1, <1>3, InfoFound
<1>4. CASE /\ InfoEnds /\ info_end' = current' - 1 /\ goal' = "after_info"
           /\ UNCHANGED <<info_start, info_start_stack_value>>
  BY <1>1, <1>4, InfoClosed
<1>5. CASE /\ ~InfoEnds /\ goal' = "key" /\ \A k \in Words : token' # <<k>>
           /\ UNCHANGED <<info_start, info_start_stack_value, info_end>>
  BY <1>1, <1>5, NothingFound
<1> QED
  BY <1>1, <1>2, <1>3, <1>4, <1>5

\* Each step of the parser.
LEMMA ParsesOn ==
  ASSUME TypeOK, main_pc = "parse", parsed = NULL, ParseStep,
         NEW t, NEW r, t.bytes \in Seq(Symbol), IsTorrent(t, r), Loaded(t.bytes), t.whole <= data_size,
         ParsedWell(t, r)
  PROVE  ParsedWell(t, r)'
<1>1. TokenizerTypeOK /\ NextToken /\ parsed # FALSE /\ parsed # TRUE
  BY ParseCalls, StartupAssumption DEF TypeOK
<1>2. PICK n \in 0 .. r.good : ParsingAt(t, r, n)
  BY <1>1 DEF ParsedWell
<1>3. GoalAt(r, n)
  BY <1>2 DEF ParsingAt
<1>4. CASE n < r.good /\ ReadsOn(t.bytes, r.items, n)
  <2>1. n + 1 \in 0 .. r.good
    BY <1>4, TorrentKeys
  <2>2. status' # "crash" /\ \/ status' \in {"int_parse", "int_end", "str_parse"}
                             \/ status' = "start" /\ At(r.items, n + 1)'
    BY <1>4 DEF ReadsOn
  <2>3. UNCHANGED parsed /\ (ParsingAt(t, r, n)' \/ ParsingAt(t, r, n + 1)')
    <3>1. CASE NextKey
      BY <1>2, <1>4, <2>2, <3>1, KeyInItem, KeyBehindItem
    <3>2. CASE InfoIsDict
      BY <1>2, <1>4, <3>2, InfoOpened
    <3>3. CASE AfterInfo
      BY <1>2, <1>4, <3>3, HashTaken
    <3>4. CASE ValueMarker
      BY <1>2, <1>4, <3>4, ValueBegun
    <3>5. CASE Value
      BY <1>2, <1>4, <3>5, ValueTaken
    <3> QED
      BY <3>1, <3>2, <3>3, <3>4, <3>5 DEF ParseStep
  <2>4. \E m \in 0 .. r.good : ParsingAt(t, r, m)'
    BY <2>1, <2>3
  <2> QED
    BY <2>2, <2>3, <2>4 DEF ParsedWell
<1>5. CASE /\ n = r.good /\ t.fields = NULL /\ status = "start"
           /\ \/ err' = "MALFORMED"
              \/ /\ err' = "OK" /\ token' = <<r.items[n + 1].type>>
                 /\ \E k \in DOMAIN r.keys : r.keys[k] = n /\ r.items[n + 1].type # TypeOf(k)
  <2>1. parsed' = FALSE
    BY <1>3, <1>5, WrongRefused
  <2> QED
    BY <1>5, <2>1 DEF ParsedWell
<1>6. CASE n = r.good /\ n = Len(r.items) /\ t.fields # NULL /\ status = "start" /\ err' = "END"
  <2>1. parsed' = TRUE /\ tf' = t.fields
    BY <1>2, <1>6, EndUnderstood
  <2> QED
    BY <1>6, <2>1 DEF ParsedWell
<1> QED
  BY <1>1, <1>2, <1>4, <1>5, <1>6, TorrentRead

\* The parser has not looked at anything yet.
LEMMA NothingParsed ==
  ASSUME NEW t, NEW r, t.bytes \in Seq(Symbol), IsTorrent(t, r),
         parsed' = NULL, status' = "start", current' = 1, list_dict_stack' = 0, goal' = "key",
         info_start' = NULL, info_end' = NULL,
         tf' = [announce |-> NULL, comment |-> NULL, info_hash |-> NULL, name |-> NULL,
                length |-> 0, piece_length |-> 0, piece_hashes |-> NULL, num_pieces |-> 0]
  PROVE  ParsedWell(t, r)'
<1>1. /\ Len(r.items) \in Nat /\ r.good \in Nat /\ 1 <= r.good
      /\ \A k \in DOMAIN r.keys : r.keys[k] \in Nat /\ 1 <= r.keys[k]
  BY TorrentKeys
<1>2. 0 \in 0 .. r.good
  BY <1>1
<1>3. At(r.items, 0)'
  BY DEF At, Place, Depth
<1>4. NoKeyAt(r, 0)
  <2> SUFFICES ASSUME NEW k \in DOMAIN r.keys PROVE r.keys[k] # 0
    BY DEF NoKeyAt
  <2>1. r.keys[k] \in Nat /\ 1 <= r.keys[k]
    BY <1>1
  <2> QED
    BY <2>1
<1>5. GoalAt(r, 0)'
  BY <1>4 DEF GoalAt, NoKeyAt
<1>6. ASSUME t.fields # NULL
      PROVE  InfoAt(r, 0)' /\ tf' = FieldsOf(t.bytes, r, Valued(r, 0) \cup Hashed(r, 0))'
  <2>1. ~Begun(r, 0)
    <3> SUFFICES ASSUME "info" \in DOMAIN r.keys, r.keys["info"] <= 0 PROVE FALSE
      BY DEF Begun
    <3>1. r.keys["info"] \in Nat /\ 1 <= r.keys["info"]
      BY <1>1
    <3> QED
      BY <3>1
  <2>2. ~Closed(r, 0)
    <3> SUFFICES ASSUME "info" \in DOMAIN r.keys, r.ends <= 0 PROVE FALSE
      BY DEF Closed
    <3>1. r.keys["info"] \in Nat /\ 1 <= r.keys["info"]
      BY <1>1
    <3>2. r.ends \in Nat /\ r.keys["info"] + 2 <= r.ends
      BY <1>6, TorrentInfo
    <3> QED
      BY <3>1, <3>2
  <2>3. InfoAt(r, 0)'
    BY <2>1, <2>2 DEF InfoAt, Begun, Closed
  <2>4. Valued(r, 0)' = {}
    <3> SUFFICES ASSUME NEW k \in DOMAIN r.keys, r.keys[k] < 0 \/ r.keys[k] = 0 PROVE FALSE
      BY DEF Valued
    <3>1. r.keys[k] \in Nat /\ 1 <= r.keys[k]
      BY <1>1
    <3> QED
      BY <3>1
  <2>5. Hashed(r, 0)' = {}
    BY <2>2 DEF Hashed, Closed
  <2>6. (Valued(r, 0) \cup Hashed(r, 0))' = {}
    BY <2>4, <2>5
  <2>7. tf' = FieldsOf(t.bytes, r, {})
    BY DEF FieldsOf
  <2> QED
    BY <2>3, <2>6, <2>7
<1>7. ParsingAt(t, r, 0)'
  BY <1>3, <1>5, <1>6 DEF ParsingAt
<1> QED
  BY <1>2, <1>7 DEF ParsedWell

\* The inductive invariant for files that are whole.
WholeReading ==
  WholeFile =>
    \/ main_pc = "parse" /\ InitParser /\ status = "start"
    \/ /\ ParsedWell(file.torrent, Readings[file.torrent])
       /\ parsed = NULL =>
            main_pc = "parse" /\ goal # "open" /\ Loaded(file.torrent.bytes) /\ data_size = file.size

\* What has been returned stays right, wherever the scanner goes.
LEMMA WellReturned ==
  ASSUME NEW t, NEW r, ParsedWell(t, r), parsed # NULL, UNCHANGED <<parsed, tf>>
  PROVE  ParsedWell(t, r)'
BY DEF ParsedWell

\* Nothing changes while neither scanner nor parser moves.
LEMMA WellLeft ==
  ASSUME NEW t, NEW r, ParsedWell(t, r), UNCHANGED <<tokenizerVars, parserVars>>
  PROVE  ParsedWell(t, r)'
<1>1. /\ UNCHANGED <<mem, data_size, current, token, status, str_len, list_dict_stack, err>>
      /\ UNCHANGED <<tf, goal, key, info_start, info_end, info_start_stack_value, parsed>>
  BY DEF tokenizerVars, parserVars
<1>2. ASSUME NEW n, ParsingAt(t, r, n) PROVE ParsingAt(t, r, n)'
  <2>1. At(r.items, n)' /\ GoalAt(r, n)' /\ (InfoAt(r, n) => InfoAt(r, n)')
    BY <1>1, <1>2 DEF ParsingAt, At, GoalAt, NoKeyAt, InfoAt, Begun, Closed
  <2>2. UNCHANGED <<Valued(r, n), Hashed(r, n)>>
    BY <1>1 DEF Valued, Hashed, Closed
  <2> QED
    BY <1>1, <1>2, <2>1, <2>2 DEF ParsingAt, FieldsOf
<1> QED
  BY <1>1, <1>2 DEF ParsedWell

\* Opening the file and each step of the parser keep WholeReading.
LEMMA WholeParse ==
  ASSUME TypeOK, WholeReading, Parse
  PROVE  WholeReading'
<1>1. /\ main_pc = "parse" /\ parsed = NULL /\ UNCHANGED <<trackerVars, main_pc, file, reply>>
      /\ OpenFile(Contents, Size) \/ ParseStep
  BY DEF Parse
<1> SUFFICES ASSUME WholeFile
             PROVE  /\ ParsedWell(file.torrent, Readings[file.torrent])'
                    /\ main_pc' = "parse" /\ goal' # "open" /\ Loaded(file.torrent.bytes)' /\ data_size' = file.size
  BY <1>1 DEF WholeReading, WholeFile
<1>2. PICK h : h = file
  OBVIOUS
<1> DEFINE t == h.torrent
           r == Readings[h.torrent]
<1>3. /\ t \in Torrents /\ h.tail \in Tails /\ h.size \in 0 .. Len(t.bytes) /\ t.bytes \in Seq(Symbol)
      /\ IsTorrent(t, r) /\ file # NULL
  BY <1>2, FileIs DEF WholeFile
<1>4. IsReading(t.bytes, t.whole, r.items) /\ h.size >= t.whole
  BY <1>2, <1>3 DEF IsTorrent, WholeFile
<1>5. t.whole \in Nat /\ h.size \in Nat /\ t.whole <= h.size
  BY <1>3, <1>4 DEF IsReading
<1>6. CASE OpenFile(Contents, Size)
  <2>1. /\ Loaded(t.bytes)' /\ data_size' = h.size
        /\ current' = 1 /\ status' = "start" /\ list_dict_stack' = 0 /\ goal' = "key"
        /\ UNCHANGED <<tf, key, info_start, info_end, info_start_stack_value, parsed>>
    BY <1>2, <1>3, <1>6, FileLoaded
  <2>2. InitParser
    <3>1. goal = "open"
      BY <1>6 DEF OpenFile
    <3> QED
      BY <1>1, <3>1 DEF WholeReading
  <2>3. ParsedWell(t, r)'
    BY <1>3, <2>1, <2>2, NothingParsed DEF InitParser
  <2>4. ParsedWell(file.torrent, Readings[file.torrent])'
    BY <1>1, <1>2, <2>3
  <2> QED
    BY <1>1, <1>2, <2>1, <2>4
<1>7. CASE ParseStep
  <2>1. NextToken /\ goal # "open" /\ goal' # "open"
    BY <1>1, <1>7, ParseCalls
  <2>2. ParsedWell(t, r) /\ Loaded(t.bytes) /\ data_size = h.size
    BY <1>1, <1>2, <2>1 DEF WholeReading, InitParser
  <2>3. ParsedWell(t, r)'
    BY <1>1, <1>3, <1>5, <1>7, <2>2, ParsesOn
  <2>4. TokenizerTypeOK
    BY DEF TypeOK
  <2>5. Loaded(t.bytes)' /\ data_size' = h.size
    BY <2>1, <2>2, <2>4, NextTokenMoves DEF Loaded
  <2>6. ParsedWell(file.torrent, Readings[file.torrent])'
    BY <1>1, <1>2, <2>3
  <2> QED
    BY <1>1, <1>2, <2>1, <2>5, <2>6
<1> QED
  BY <1>1, <1>6, <1>7

\* A whole torrent is understood, or refused, as its bytes say, for every torrent, every
\* reading of it and every tail behind the data: each known key gets the value behind
\* it, and perform_hash is given info from its first to its last byte.
THEOREM FieldsAreRightCorrect == Spec => []FieldsAreRight
<1>1. Init => WholeReading
  <2> SUFFICES ASSUME Init PROVE WholeReading
    OBVIOUS
  <2> QED
    BY DEF Init, WholeReading
<1>2. TypeOK /\ WholeReading /\ [Next]_vars => WholeReading'
  <2> SUFFICES ASSUME TypeOK, WholeReading, [Next]_vars, WholeFile' PROVE WholeReading'
    BY DEF WholeReading
  <2> DEFINE t == file.torrent
             r == Readings[file.torrent]
  <2>1. CASE Parse
    BY <2>1, WholeParse
  <2>2. CASE Contact
    <3>1. main_pc = "contact" /\ UNCHANGED <<parserVars, file>>
      BY <2>2 DEF Contact
    <3>2. WholeFile /\ UNCHANGED <<parsed, tf>>
      BY <3>1 DEF WholeFile, parserVars
    <3>3. ParsedWell(t, r) /\ parsed # NULL
      BY <3>1, <3>2 DEF WholeReading
    <3> HIDE DEF t, r
    <3>4. ParsedWell(t, r)'
      BY <3>1, <3>2, <3>3, WellReturned DEF t, r
    <3> QED
      BY <3>2, <3>3, <3>4 DEF WholeReading, t, r
  <2>3. CASE Proceed
    <3>1. UNCHANGED <<parserVars, file>> /\ (parsed # NULL \/ status = "crash" \/ main_pc # "parse")
      BY <2>3, StartupAssumption DEF Proceed, Goto
    <3>2. WholeFile /\ UNCHANGED <<parsed, tf>>
      BY <3>1 DEF WholeFile, parserVars
    <3>3. ParsedWell(t, r) /\ parsed # NULL
      BY <3>1, <3>2, StartupAssumption DEF WholeReading, InitParser, ParsedWell
    <3>4. ParsedWell(t, r)'
      BY <3>1, <3>2, <3>3, WellReturned
    <3> QED
      BY <3>2, <3>3, <3>4 DEF WholeReading
  <2>4. CASE UNCHANGED vars
    <3>1. UNCHANGED <<main_pc, file, tokenizerVars, parserVars>>
      BY <2>4 DEF vars
    <3>2. /\ UNCHANGED <<mem, data_size, status>> /\ WholeFile
          /\ UNCHANGED <<tf, goal, key, info_start, info_end, info_start_stack_value, parsed>>
      BY <3>1 DEF tokenizerVars, parserVars, WholeFile
    <3>3. CASE main_pc = "parse" /\ InitParser /\ status = "start"
      BY <3>1, <3>2, <3>3 DEF WholeReading, InitParser
    <3>4. CASE /\ ParsedWell(t, r)
               /\ parsed = NULL => main_pc = "parse" /\ goal # "open" /\ Loaded(t.bytes) /\ data_size = file.size
      <4>1. ParsedWell(t, r)'
        BY <3>1, <3>4, WellLeft
      <4> QED
        BY <3>1, <3>2, <3>4, <4>1 DEF WholeReading, Loaded
    <3> QED
      BY <3>2, <3>3, <3>4 DEF WholeReading
  <2> QED
    BY <2>1, <2>2, <2>3, <2>4 DEF Next
<1>3. WholeReading => FieldsAreRight
  <2> SUFFICES ASSUME WholeReading, WholeFile, ParseEnded
               PROVE  IF file.torrent.fields = NULL THEN parsed = FALSE
                      ELSE parsed = TRUE /\ tf = file.torrent.fields
    BY DEF FieldsAreRight
  <2>1. ParsedWell(file.torrent, Readings[file.torrent]) /\ parsed # NULL
    BY StartupAssumption DEF WholeReading, ParseEnded, InitParser, ParsedWell
  <2> QED
    BY <2>1 DEF ParsedWell
<1> QED
  BY <1>1, <1>2, <1>3, TypeCorrect, PTL DEF Spec
================================================================================
