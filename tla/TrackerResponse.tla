---------------------------- MODULE TrackerResponse ----------------------------
(***************************************************************************)
(* contact_tracker (tracker_response.c): the request, curl's callback, and *)
(* the reply, which has to be a dictionary of interval and peers in their  *)
(* compact form; its tokens are taken one by one, mostly unseen.           *)
(***************************************************************************)
EXTENDS TorrentFile

CONSTANTS
  AddrSize, PortSize,   \* PEER_ADDR_SIZE, PEER_PORT_SIZE
  MaxChunks             \* bound: how many times curl calls back

VARIABLES
  tr,          \* the tracker_response
  step,        \* how many tokens of the reply have been taken
  body,        \* what curl has still to hand over
  response,    \* response.data, NULL as long as it is not initialized
  chunks,      \* how often curl has called back
  contacted    \* what contact_tracker returns

trackerVars == <<tr, step, body, response, chunks, contacted>>

PeerSize == AddrSize + PortSize
Tokens   == 10

\* init_tracker_response.
InitTracker ==
  /\ tr = [interval |-> 0, peers |-> <<>>]
  /\ step = NULL /\ body = NULL /\ response = NULL /\ chunks = 0 /\ contacted = NULL

\* The request is built from the announce and the hash of the torrent: strcat of
\* a NULL ends the process.
Perform(reply) ==
  /\ body = NULL
  /\ \/ /\ tf.announce = NULL \/ tf.info_hash = NULL
        /\ status' = "crash" /\ err' = "CRASH" /\ UNCHANGED body
     \/ tf.announce # NULL /\ tf.info_hash # NULL /\ body' = reply /\ UNCHANGED <<status, err>>
  /\ UNCHANGED <<tr, step, response, chunks, contacted,
                 mem, data_size, current, token, str_len, list_dict_stack>>

\* parse_response: each call replaces the data of the one before.
KeepChunk(chunk) == response' = chunk

\* curl_easy_perform: any number of chunks.
ReceiveChunk ==
  /\ body # NULL /\ step = NULL /\ contacted = NULL /\ chunks < MaxChunks
  /\ \E k \in 1 .. Len(body) :
       KeepChunk(SubSeq(body, 1, k)) /\ body' = SubSeq(body, k + 1, Len(body))
  /\ chunks' = chunks + 1
  /\ UNCHANGED <<tr, step, contacted, tokenizerVars>>

\* curl_easy_init fails, or curl_easy_perform, whatever has arrived.
CurlFails ==
  /\ step = NULL /\ contacted = NULL
  /\ contacted' = FALSE
  /\ UNCHANGED <<tr, step, body, response, chunks, tokenizerVars>>

\* The reply is complete.  Without a body, response is whatever the stack held.
CurlDone(tail) ==
  /\ body = <<>> /\ step = NULL /\ contacted = NULL
  /\ \/ /\ response = NULL
        /\ status' = "crash" /\ err' = "CRASH" /\ UNCHANGED step
        /\ UNCHANGED <<mem, data_size, current, token, str_len, list_dict_stack>>
     \/ response = NULL /\ InitTokenizer(tail, 0) /\ step' = 0
     \/ response # NULL /\ InitTokenizer(response \o tail, Len(response)) /\ step' = 0
  /\ UNCHANGED <<tr, body, response, chunks, contacted>>

\* A text has a key as one symbol, or spelled in letters.
Letters == [interval |-> <<"i", "n", "t", "e", "r", "v", "a", "l">>,
            peers    |-> <<"p", "e", "e", "r", "s">>]

\* memcmp over the size of the token: every prefix of the key passes.
Matches(k) == token' = <<k>> \/ IsPrefix(token', Letters[k])

\* init_peer for each PEER_BLOB_SIZE bytes; a port is big endian, a byte is
\* taken for a digit.
PeersOf(blob) ==
  [i \in 1 .. Len(blob) \div PeerSize |->
     [address |-> SubSeq(blob, PeerSize * (i - 1) + 1, PeerSize * (i - 1) + AddrSize),
      port    |-> Strtol(SubSeq(blob, PeerSize * (i - 1) + AddrSize + 1, PeerSize * i))]]

\* Fault: the keys are not compared.
AnyKey == contacted' = NULL

\* Fault: peers is expected before interval.
KeysSwapped ==
  \/ step \notin {2, 7} /\ UNCHANGED contacted
  \/ step = 2 /\ contacted' = IF Matches("peers") THEN NULL ELSE FALSE
  \/ step = 7 /\ contacted' = IF Matches("interval") THEN NULL ELSE FALSE

TestKey ==
  \/ step \notin {2, 7} /\ UNCHANGED contacted
  \/ step = 2 /\ contacted' = IF Matches("interval") THEN NULL ELSE FALSE
  \/ step = 7 /\ contacted' = IF Matches("peers") THEN NULL ELSE FALSE

\* A token of the reply: d, s, interval, i, its value, e, s, peers, s, the peers.
TakeToken ==
  /\ step \in 0 .. Tokens - 1 /\ contacted = NULL
  /\ NextToken
  /\ step' = step + 1
  /\ \/ err' \in {"END", "MALFORMED"} /\ contacted' = FALSE /\ UNCHANGED tr
     \/ err' = "CRASH" /\ UNCHANGED <<tr, contacted>>
     \/ err' = "OK" /\ step = 4 /\ tr' = [tr EXCEPT !.interval = Strtol(token')] /\ TestKey
     \/ /\ err' = "OK" /\ step = Tokens - 1
        /\ tr' = [tr EXCEPT !.peers = PeersOf(token')] /\ contacted' = TRUE
     \/ err' = "OK" /\ step \notin {4, Tokens - 1} /\ TestKey /\ UNCHANGED tr
  /\ UNCHANGED <<body, response, chunks>>

ContactStep(tail) == ReceiveChunk \/ CurlFails \/ CurlDone(tail) \/ TakeToken
================================================================================
