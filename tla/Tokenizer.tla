------------------------------- MODULE Tokenizer -------------------------------
(***************************************************************************)
(* The bencode scanner of tokenizer.c: one action NextToken for a call of  *)
(* next(), which runs the function that _status_fn names.                  *)
(*                                                                         *)
(* A symbol is a character, or a key word of the program, which counts as  *)
(* one: 8:announce is <<"1", ":", "announce">>.  The scanner looks at the  *)
(* size of its data in one place only, so that it can run into whatever    *)
(* lies behind: mem is the data and that tail.                             *)
(***************************************************************************)
EXTENDS Integers, Sequences, SequencesExt, FiniteSetsExt

CONSTANT Symbol     \* the symbols of a text

ASSUME SymbolAssumption == "s" \in Symbol

VARIABLES
  mem,              \* t->data, and the heap behind it
  data_size,
  current,          \* t->current, as an index into mem
  token,            \* t->token, cut to t->token_size
  status,           \* t->_status_fn
  str_len,          \* t->_strlen
  list_dict_stack,
  err               \* what the last next() returned

tokenizerVars == <<mem, data_size, current, token, status, str_len, list_dict_stack, err>>

Digits == <<"0", "1", "2", "3", "4", "5", "6", "7", "8", "9">>
Digit  == Range(Digits)
Space  == {" "}

DigitValue == [c \in Digit |-> CHOOSE n \in 0 .. 9 : Digits[n + 1] = c]

Number(s) ==
  LET n[k \in 0 .. Len(s)] == IF k = 0 THEN 0 ELSE 10 * n[k - 1] + DigitValue[s[k]]
  IN  n[Len(s)]

\* A sign, and as many digits as there are; no digit is 0.
Strtol(s) ==
  LET minus == s # <<>> /\ s[1] = "-"
      first == IF minus THEN 2 ELSE 1
      last  == Max({k \in first - 1 .. Len(s) : \A j \in first .. k : s[j] \in Digit})
      n     == Number(SubSeq(s, first, last))
  IN  IF minus THEN -n ELSE n

\* The first place from p on, but not past limit, that has no symbol of S.
After(p, S, limit) == Min({q \in p .. limit : q = limit \/ mem[q] \notin S})

EndOfMem  == Len(mem) + 1
EndOfData == data_size + 1

InitTokenizer(data, size) ==
  /\ mem' = data /\ data_size' = size
  /\ current' = 1 /\ token' = <<>> /\ status' = "start"
  /\ str_len' = 0 /\ list_dict_stack' = 0 /\ err' = "OK"
-------------------------------------------------------------------------------
Emit(from, to, next_status) ==
  /\ token' = SubSeq(mem, from, to - 1) /\ current' = to
  /\ status' = next_status /\ err' = "OK"

\* END, and MALFORMED in a state that is never left.
Stop(p, next_status, code) ==
  /\ current' = p /\ token' = <<>> /\ status' = next_status /\ err' = code
  /\ UNCHANGED <<str_len, list_dict_stack>>

Malformed(p) == Stop(p, "error", "MALFORMED")

\* Memory that the process does not have.
Crash == Stop(current, "crash", "CRASH")

\* Fault: the data may end inside a list or a dictionary.
EndAnywhere(p) == p = EndOfData /\ Stop(p, "end", "END")

\* The end of the data, which is noticed when current meets it exactly.
End(p) ==
  /\ p = EndOfData
  /\ \/ list_dict_stack > 0 /\ Malformed(p)
     \/ list_dict_stack <= 0 /\ Stop(p, "end", "END")

IntStart(p) == mem[p] = "i" /\ Emit(p, p + 1, "int_parse") /\ UNCHANGED <<str_len, list_dict_stack>>

\* The length of a string; the token is the marker "s", not in the data.
StrStart(p) ==
  /\ mem[p] \in Digit
  /\ LET q == After(p, Digit, EndOfMem)
     IN  \/ q = EndOfMem /\ Crash
         \/ q # EndOfMem /\ mem[q] # ":" /\ str_len' = Number(SubSeq(mem, p, q - 1))
            /\ current' = q /\ token' = <<>> /\ status' = "error" /\ err' = "MALFORMED"
            /\ UNCHANGED list_dict_stack
         \/ q # EndOfMem /\ mem[q] = ":" /\ str_len' = Number(SubSeq(mem, p, q - 1))
            /\ current' = q + 1 /\ token' = <<"s">> /\ status' = "str_parse" /\ err' = "OK"
            /\ UNCHANGED list_dict_stack

ListDictStart(p) ==
  /\ mem[p] \in {"l", "d"}
  /\ Emit(p, p + 1, "start")
  /\ list_dict_stack' = list_dict_stack + 1 /\ UNCHANGED str_len

\* Fault: current moves on twice.
EndSkipsOne(p) ==
  /\ mem[p] = "e"
  /\ token' = <<"e">> /\ current' = p + 2 /\ status' = "start" /\ err' = "OK"
  /\ list_dict_stack' = list_dict_stack - 1 /\ UNCHANGED str_len

\* An end with no list or dictionary open passes too.
ListDictEnd(p) ==
  /\ mem[p] = "e"
  /\ Emit(p, p + 1, "start")
  /\ list_dict_stack' = list_dict_stack - 1 /\ UNCHANGED str_len

Start ==
  /\ status = "start"
  /\ LET limit == IF current <= EndOfData THEN EndOfData ELSE EndOfMem
         p     == After(current, Space, limit)
     IN  \/ End(p)
         \/ p # EndOfData /\ p = EndOfMem /\ Crash
         \/ /\ p \notin {EndOfData, EndOfMem}
            /\ \/ IntStart(p) \/ StrStart(p) \/ ListDictStart(p) \/ ListDictEnd(p)
               \/ mem[p] \notin Digit \cup {"i", "l", "d", "e"} /\ Malformed(p)

\* A sign and digits, any of them missing.
IntParse ==
  /\ status = "int_parse"
  /\ LET p == IF current < EndOfMem /\ mem[current] = "-" THEN current + 1 ELSE current
         q == After(p, Digit, EndOfMem)
     IN  \/ q = EndOfMem /\ Crash
         \/ q # EndOfMem /\ Emit(current, q, "int_end") /\ UNCHANGED <<str_len, list_dict_stack>>

IntEnd ==
  /\ status = "int_end"
  /\ \/ mem[current] = "e" /\ Emit(current, current + 1, "start") /\ UNCHANGED <<str_len, list_dict_stack>>
     \/ mem[current] # "e" /\ Malformed(current)

StrParse ==
  /\ status = "str_parse"
  /\ \/ current + str_len > EndOfMem /\ Crash
     \/ /\ current + str_len <= EndOfMem
        /\ Emit(current, current + str_len, "start")
        /\ UNCHANGED <<str_len, list_dict_stack>>

NextToken ==
  /\ \/ Start \/ IntParse \/ IntEnd \/ StrParse
     \/ status = "error" /\ Malformed(current)
  /\ UNCHANGED <<mem, data_size>>
-------------------------------------------------------------------------------
\* The type of the scanner's state.
TokenizerTypeOK ==
  /\ mem \in Seq(Symbol) /\ data_size \in 0 .. Len(mem)
  /\ current \in 1 .. EndOfMem
  /\ token \in Seq(Symbol) /\ Len(token) <= Len(mem)
  /\ status \in {"start", "int_parse", "int_end", "str_parse", "error", "end", "crash"}
  /\ str_len \in Nat /\ list_dict_stack \in Int
  /\ err \in {"OK", "END", "MALFORMED", "CRASH"}
  /\ err = "OK" <=> status \notin {"error", "end", "crash"}
  /\ status = "int_end" => current < EndOfMem
================================================================================
