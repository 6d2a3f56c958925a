-------------------------------- MODULE Startup --------------------------------
(***************************************************************************)
(* The first two steps of download_torrent in full: parse_torrent_file on  *)
(* a file that may be missing or cut, then contact_tracker.  Client takes  *)
(* each of them for one step that succeeds or fails.                       *)
(***************************************************************************)
EXTENDS Bencode

CONSTANTS
  Torrents,   \* records: the symbols of a torrent and the fields they stand for
  Replies,    \* records: the symbols of a reply, its interval and its peers
  Readings,   \* for each torrent and plain reply, what it is read as
  Tails       \* what may lie behind data on the heap

ASSUME StartupAssumption ==
  /\ HashLength \in Nat \ {0} /\ SizeRange \in Nat \ {0}
  /\ AddrSize \in Nat \ {0} /\ PortSize \in Nat \ {0} /\ MaxChunks \in Nat
  /\ Torrents # {} /\ Replies # {} /\ Tails # {} /\ Tails \subseteq Seq(Symbol)
  /\ \A t \in Torrents : t.bytes \in Seq(Symbol)
  /\ \A r \in Replies : r.bytes \in Seq(Symbol)
  /\ NULL \notin BOOLEAN \cup Nat \cup Seq(Symbol)

ASSUME ReadingAssumption ==
  /\ \A t \in Torrents : IsTorrent(t, Readings[t])
  /\ \A r \in Replies : r.plain => IsPlain(r, Readings[r])

VARIABLES
  main_pc,
  file,     \* the torrent on the disk, how much of it is there, what is behind
  reply     \* what the tracker answers

vars == <<tokenizerVars, parserVars, trackerVars, main_pc, file, reply>>

Init ==
  /\ main_pc = "parse" /\ reply = NULL
  /\ \/ file = NULL
     \/ \E t \in Torrents, tail \in Tails : \E n \in 0 .. Len(t.bytes) :
          file = [torrent |-> t, size |-> n, tail |-> tail]
  /\ InitParser /\ InitTracker
  /\ mem = <<>> /\ data_size = 0 /\ current = 1 /\ token = <<>> /\ status = "start"
  /\ str_len = 0 /\ list_dict_stack = 0 /\ err = "OK"

Size     == IF file = NULL THEN 0 ELSE file.size
Contents == IF file = NULL THEN NULL
            ELSE SubSeq(file.torrent.bytes, 1, file.size) \o file.tail

Parse ==
  /\ main_pc = "parse" /\ parsed = NULL /\ status # "crash"
  /\ OpenFile(Contents, Size) \/ ParseStep
  /\ UNCHANGED <<trackerVars, main_pc, file, reply>>

Contact ==
  /\ main_pc = "contact" /\ contacted = NULL /\ status # "crash"
  /\ \/ \E r \in Replies : Perform(r.bytes) /\ reply' = r
     \/ (\E tail \in Tails : ContactStep(tail)) /\ UNCHANGED reply
  /\ UNCHANGED <<parserVars, main_pc, file>>

Goto(from, to) == main_pc = from /\ main_pc' = to

\* download_torrent goes on, or returns FALSE; a crash ends the process.
Proceed ==
  /\ \/ parsed = FALSE /\ Goto("parse", "returned")
     \/ parsed = TRUE /\ Goto("parse", "contact")
     \/ contacted = FALSE /\ Goto("contact", "returned")
     \/ contacted = TRUE /\ Goto("contact", "spawn")
     \/ status = "crash" /\ (Goto("parse", "crashed") \/ Goto("contact", "crashed"))
  /\ UNCHANGED <<tokenizerVars, parserVars, trackerVars, file, reply>>

Ended == main_pc \in {"returned", "spawn", "crashed"}

Next == Parse \/ Contact \/ Proceed \/ (Ended /\ UNCHANGED vars)

Spec == Init /\ [][Next]_vars

\* The main thread runs, and curl returns.
FairSpec == Spec /\ WF_vars(Parse \/ Contact \/ Proceed)
-------------------------------------------------------------------------------
(* Properties.                                                             *)

Text == Seq(Symbol) \cup {NULL}

TorrentRecord ==
  [announce : Text, comment : Text, info_hash : Text, name : Text,
   length : 0 .. SizeRange - 1, piece_length : 0 .. SizeRange - 1,
   piece_hashes : Seq(Seq(Symbol)) \cup {NULL}, num_pieces : Nat]

TrackerRecord == [interval : Int, peers : Seq([address : Seq(Symbol), port : Int])]

\* The range that perform_hash is given begins behind the key info, is not empty and
\* lies inside the memory of the scanner.
HashRange ==
  /\ goal = "open" => info_start = NULL
  /\ info_start # NULL => info_start \in 1 .. current
  /\ goal = "after_info" => info_start # NULL /\ info_end \in info_start .. Len(mem)

\* The type invariant.
TypeOK ==
  /\ TokenizerTypeOK
  /\ goal \in {"open", "key", "info", "after_info", "marker", "value", "end"}
  /\ key \in Keys \cup {NULL} /\ tf \in TorrentRecord /\ tr \in TrackerRecord
  /\ parsed \in BOOLEAN \cup {NULL} /\ contacted \in BOOLEAN \cup {NULL}
  /\ main_pc = "parse" => HashRange
  /\ step \in 0 .. Tokens \cup {NULL} /\ chunks \in 0 .. MaxChunks
  /\ body \in Text /\ response \in Text
  /\ main_pc \in {"parse", "contact", "returned", "spawn", "crashed"}
  /\ file # NULL => /\ file.torrent \in Torrents /\ file.tail \in Tails
                    /\ file.size \in 0 .. Len(file.torrent.bytes)

WholeFile  == file # NULL /\ file.size >= file.torrent.whole
ParseEnded == parsed # NULL \/ (main_pc = "parse" /\ status = "crash")

\* A torrent is parsed into its fields, whichever keys besides the known ones it
\* has, before, in or behind its info dictionary, and also when its strings spell
\* keys; info_hash covers the info dictionary from its first to its last byte.  A
\* torrent that gives a known key a value of another type is refused.
FieldsAreRight ==
  WholeFile /\ ParseEnded =>
    IF file.torrent.fields = NULL THEN parsed = FALSE
    ELSE parsed = TRUE /\ tf = file.torrent.fields

\* True is only returned where current meets the end of the data exactly, with no
\* list or dictionary open.
TrueMeansAllRead ==
  main_pc = "parse" /\ parsed = TRUE => current = EndOfData /\ list_dict_stack <= 0

\* So a file that ends too early is never taken for a torrent, although the scanner
\* runs past the end of the data into whatever lies there.  An empty file is: it is
\* left out here and belongs to TrueMeansFilled.
CutFileRefused ==
  /\ file # NULL /\ ~WholeFile /\ file.size > 0 => parsed # TRUE
  /\ TrueMeansAllRead

\* Peers are only reported as they are in the reply, in however many chunks it
\* comes, and whichever of them survives.
PeersAreRight ==
  contacted = TRUE /\ reply.peers # NULL => tr.peers = reply.peers

\* A plain reply in one chunk is understood.
OneChunkIsRead ==
  chunks = 1 /\ step # NULL /\ reply.plain =>
    /\ contacted # FALSE /\ status # "crash"
    /\ contacted = TRUE => tr = [interval |-> reply.interval, peers |-> reply.peers]

\* The main thread gets through both parsers, whatever they read.
StartupEnds == <>Ended

\* torrent_file.h:28-29: parse_torrent_file fills the struct, and returns true if
\* it succeeds; contact_tracker needs these two.
TrueMeansFilled == parsed = TRUE => tf.announce # NULL /\ tf.info_hash # NULL
================================================================================
