------------------------------ MODULE TorrentFile ------------------------------
(***************************************************************************)
(* parse_torrent_file (torrent_file.c): a loop over the tokens of the file *)
(* that looks for the keys it knows, at any depth and in any place.        *)
(*                                                                         *)
(* Each action is one call of next() and what the code does with its       *)
(* result; goal says which of the calls comes next.                        *)
(***************************************************************************)
EXTENDS Tokenizer

CONSTANTS
  HashLength,   \* BT_HASH_LENGTH
  SizeRange,    \* how many values a size_t has
  NULL

VARIABLES
  tf,                      \* the torrent_file, by the keys of its fields
  goal,                    \* what the next token is to be
  key,                     \* the key whose value is being read
  info_start, info_end,    \* NULL or places in mem
  info_start_stack_value,
  parsed                   \* what parse_torrent_file returns

parserVars == <<tf, goal, key, info_start, info_end, info_start_stack_value, parsed>>

StringKeys == {"announce", "comment", "name", "pieces"}
IntKeys    == {"length", "piece length"}
Keys       == StringKeys \cup IntKeys

\* init_torrent_file, and the locals of the parser.
InitParser ==
  /\ tf = [announce |-> NULL, comment |-> NULL, info_hash |-> NULL, name |-> NULL,
           length |-> 0, piece_length |-> 0, piece_hashes |-> NULL, num_pieces |-> 0]
  /\ goal = "open" /\ key = NULL /\ info_start = NULL /\ info_end = NULL
  /\ info_start_stack_value = 0 /\ parsed = NULL

Seek(g)      == goal' = g /\ UNCHANGED parsed
ReturnOk(b)  == goal' = "end" /\ parsed' = b

\* read_file and init_tokenizer; a file that cannot be read is a NULL that is
\* dereferenced.
OpenFile(contents, size) ==
  /\ goal = "open"
  /\ \/ /\ contents = NULL
        /\ status' = "crash" /\ err' = "CRASH" /\ Seek("end")
        /\ UNCHANGED <<mem, data_size, current, token, str_len, list_dict_stack>>
     \/ contents # NULL /\ InitTokenizer(contents, size) /\ Seek("key")
  /\ UNCHANGED <<tf, key, info_start, info_end, info_start_stack_value>>

\* A call of next() that has to succeed.
Expect(g) ==
  /\ goal = g
  /\ NextToken

Refused == err' \in {"END", "MALFORMED"} /\ ReturnOk(FALSE)
Crashed == err' = "CRASH" /\ Seek("end")

\* Fault: the loop goes on when the scanner has stopped.
ParseOnAndOn ==
  /\ Expect("key")
  /\ \/ err' = "END" /\ ReturnOk(TRUE)
     \/ err' # "END" /\ Seek("key")
  /\ UNCHANGED <<tf, key, info_start, info_end, info_start_stack_value>>

\* The list that info opened has been closed for the first time.
InfoEnds == /\ info_start # NULL /\ info_end = NULL /\ token' = <<"e">>
            /\ list_dict_stack' = info_start_stack_value

NextKey ==
  /\ Expect("key")
  /\ \/ err' = "END" /\ ReturnOk(TRUE) /\ UNCHANGED <<key, info_start, info_end, info_start_stack_value>>
     \/ (Crashed \/ (err' = "MALFORMED" /\ ReturnOk(FALSE)))
        /\ UNCHANGED <<key, info_start, info_end, info_start_stack_value>>
     \/ /\ err' = "OK" /\ \E k \in Keys : token' = <<k>> /\ key' = k
        /\ Seek("marker")
        /\ UNCHANGED <<info_start, info_end, info_start_stack_value>>
     \/ /\ err' = "OK" /\ token' = <<"info">>
        /\ info_start' = current' /\ info_start_stack_value' = list_dict_stack'
        /\ Seek("info")
        /\ UNCHANGED <<key, info_end>>
     \/ /\ err' = "OK" /\ InfoEnds
        /\ info_end' = current' - 1
        /\ Seek("after_info")
        /\ UNCHANGED <<key, info_start, info_start_stack_value>>
     \/ /\ err' = "OK" /\ ~InfoEnds /\ token' \notin {<<k>> : k \in Keys \cup {"info"}}
        /\ Seek("key")
        /\ UNCHANGED <<key, info_start, info_end, info_start_stack_value>>
  /\ UNCHANGED tf

InfoIsDict ==
  /\ Expect("info")
  /\ \/ Refused \/ Crashed
     \/ err' = "OK" /\ token' # <<"d">> /\ ReturnOk(FALSE)
     \/ err' = "OK" /\ token' = <<"d">> /\ Seek("key")
  /\ UNCHANGED <<tf, key, info_start, info_end, info_start_stack_value>>

\* Fault: the hash leaves out the end of the dictionary.
HashShort == SubSeq(mem, info_start, info_end - 1)

\* perform_hash; two hashes are equal when what was hashed is.
Hash == SubSeq(mem, info_start, info_end)

\* One more token is read, and not looked at, before the hash is taken.
AfterInfo ==
  /\ Expect("after_info")
  /\ \/ (Refused \/ Crashed) /\ UNCHANGED tf
     \/ err' = "OK" /\ tf' = [tf EXCEPT !.info_hash = Hash] /\ Seek("key")
  /\ UNCHANGED <<key, info_start, info_end, info_start_stack_value>>

Marker == IF key \in StringKeys THEN <<"s">> ELSE <<"i">>

ValueMarker ==
  /\ Expect("marker")
  /\ \/ Refused \/ Crashed
     \/ err' = "OK" /\ token' # Marker /\ ReturnOk(FALSE)
     \/ err' = "OK" /\ token' = Marker /\ Seek("value")
  /\ UNCHANGED <<tf, key, info_start, info_end, info_start_stack_value>>

\* The hashes of the pieces; bytes that make no whole hash are dropped.
Hashes(blob) == [i \in 1 .. Len(blob) \div HashLength |->
                   SubSeq(blob, HashLength * (i - 1) + 1, HashLength * i)]

Fill ==
  \/ key \in {"announce", "comment", "name"} /\ tf' = [tf EXCEPT ![key] = token']
  \/ key = "length"       /\ tf' = [tf EXCEPT !.length = Strtol(token') % SizeRange]
  \/ key = "piece length" /\ tf' = [tf EXCEPT !.piece_length = Strtol(token') % SizeRange]
  \/ key = "pieces"       /\ tf' = [tf EXCEPT !.num_pieces = Len(token') \div HashLength,
                                              !.piece_hashes = Hashes(token')]

Value ==
  /\ Expect("value")
  /\ \/ (Refused \/ Crashed) /\ UNCHANGED tf
     \/ err' = "OK" /\ Fill /\ Seek("key")
  /\ UNCHANGED <<key, info_start, info_end, info_start_stack_value>>

ParseStep == NextKey \/ InfoIsDict \/ AfterInfo \/ ValueMarker \/ Value
================================================================================
