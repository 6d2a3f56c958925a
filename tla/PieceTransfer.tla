----------------------------- MODULE PieceTransfer -----------------------------
(***************************************************************************)
(* One peer thread and its peer on an open connection: the session and the *)
(* loop of download_torrent_thread_fun, download_piece and                 *)
(* read_message_from_conn on one side, a stream in each direction, an      *)
(* honest peer on the other, which may be one of another torrent.          *)
(*                                                                         *)
(* A message travels as units: its length field, its id and its payload,   *)
(* the first PayloadUnits of a Piece message, so that reads can be short,  *)
(* late or out of step with the message boundaries.  A session that fails  *)
(* is given up; an attempt that fails leaves the connection open and the   *)
(* stream where it is.                                                     *)
(***************************************************************************)
EXTENDS Integers, Sequences, Functions

CONSTANTS
  NumPieces,      \* tf->num_pieces
  PieceLength,    \* tf->piece_length
  FileLength,     \* tf->length
  BlockSize,      \* BLOCK_SIZE
  MaxFails,       \* PEER_MAX_FAILS
  Bitfields,      \* what the peer may have: sets of pieces
  Tearing,        \* whether a send may end inside a request
  MaxFaults,      \* how often the network is late, or delivers a header in parts
  MaxChatter,     \* how many messages the peer sends that nobody asked for
  NULL

ASSUME TransferAssumption ==
  /\ NumPieces \in Nat /\ PieceLength \in Nat \ {0} /\ BlockSize \in Nat \ {0}
  /\ FileLength \in 0 .. NumPieces * PieceLength
  /\ MaxFails \in Nat /\ MaxFaults \in Nat /\ MaxChatter \in Nat
  /\ Bitfields \subseteq SUBSET (0 .. NumPieces - 1) /\ Tearing \in BOOLEAN

VARIABLES
  pc,               \* where the thread is
  phase,            \* what it reads: "handshake", "bitfield", "state" or "download"
  index,            \* p_prog->index
  downloaded,       \* p_prog->downloaded
  buf,              \* p_prog->buf: what each block holds
  failed_attempts,
  msg, want,        \* the message being read, and its units still to come
  stored,           \* what add_piece has put into the file
  sent,             \* requests that the peer has not dealt with, NULL for a torn one
  stream,           \* units that the thread has not received
  faults, chatter,
  peer_hash,        \* the torrent of the peer: "ours" or "theirs"
  peer_bf,          \* the pieces that the peer has
  spoken, due       \* session messages the peer has sent, and how many it owes by now

threadVars == <<pc, phase, index, downloaded, buf, failed_attempts, msg, want, stored>>
netVars    == <<sent, stream, faults, chatter, peer_hash, peer_bf, spoken, due>>
session    == <<phase, peer_hash, peer_bf, spoken, due>>
vars       == <<threadVars, netVars>>

Pieces == 0 .. NumPieces - 1

\* Fault: one block more, also when the length is a multiple of BLOCK_SIZE.
QuotientPlusOne == PieceLength \div BlockSize + 1

\* Not the quotient rounded up: the remainder is added to the quotient.
NumBlocks == PieceLength \div BlockSize + (PieceLength % BlockSize)
Blocks    == 0 .. NumBlocks - 1
-------------------------------------------------------------------------------
(* Messages.                                                               *)

PayloadUnits   == 2
HeaderUnits    == 2    \* the MSG_LEN_BYTES and the MSG_ID_BYTES
HandshakeUnits == 3    \* what comes before the info hash, the hash, the peer id

PieceMessage(i, b) == [id |-> "piece", index |-> i, block |-> b]
Other(id)   == [id |-> id, index |-> NULL, block |-> NULL]

Messages ==
  {PieceMessage(i, b) : i \in Pieces, b \in Blocks} \cup
  {Other(id) : id \in {"handshake", "bitfield", "unchoke", "have", "choke", "keep_alive"}}

\* A keep-alive is a length field of 0 and nothing else.
Size(m) == CASE m.id = "handshake"            -> HandshakeUnits
             [] m.id = "piece"                -> HeaderUnits + PayloadUnits
             [] m.id \in {"have", "bitfield"} -> HeaderUnits + 1
             [] m.id \in {"choke", "unchoke"} -> HeaderUnits
             [] m.id = "keep_alive"           -> 1

Unit == {u \in [of : Messages, part : Nat] : u.part \in 1 .. Size(u.of)}

Units(m) == [k \in 1 .. Size(m) |-> [of |-> m, part |-> k]]

\* What read_message_from_conn makes of units that are not a header: a length
\* and an id that the bytes of the file or of a peer id happen to spell.  That they
\* spell a message the thread waits for, with the very index and offset, is left out.
\* The length goes up to MaxGarbage units, which can be more than is still to come.
Garbage == Other("garbage")
MaxGarbage == 4

\* What a block of the buffer holds: a block of a piece.
Contents == {<<i, b>> : i \in Pieces, b \in Blocks}
Buffer   == [Blocks -> Contents \cup {NULL}]

\* NULL stands for no piece, no block, no message and no stored bytes.
ASSUME NullAssumption ==
  NULL \notin Int /\ NULL \notin Contents /\ NULL \notin Messages \cup {Garbage} /\ NULL \notin Buffer
-------------------------------------------------------------------------------
(* The peer and the network.                                               *)

Init ==
  /\ pc = "greet" /\ phase = "handshake" /\ index = NULL /\ downloaded = 0 /\ buf = [b \in Blocks |-> NULL]
  /\ failed_attempts = 0 /\ msg = NULL /\ want = 0
  /\ stored = [i \in Pieces |-> NULL]
  /\ sent = <<>> /\ stream = <<>> /\ faults = 0 /\ chatter = 0
  /\ peer_hash \in {"ours", "theirs"} /\ peer_bf \in Bitfields /\ spoken = 0 /\ due = 0

\* What the peer says before it serves: two messages once it has our handshake,
\* the third once it knows that we are interested.
SessionMessages == <<"handshake", "bitfield", "unchoke">>

Speak ==
  /\ pc # "left" /\ spoken < due
  /\ spoken' = spoken + 1
  /\ stream' = stream \o Units(Other(SessionMessages[spoken + 1]))
  /\ UNCHANGED <<threadVars, sent, faults, chatter, peer_hash, peer_bf, due>>

\* A request for bytes that the file does not have is not answered, and none behind
\* a torn one: what the peer takes for requests from there on is left out.
Servable(k) ==
  /\ \A j \in 1 .. k : sent[j] # NULL
  /\ sent[k].index * PieceLength + (sent[k].block + 1) * BlockSize <= FileLength
  /\ (sent[k].block + 1) * BlockSize <= PieceLength

\* The peer need not answer requests in their order.
Serve ==
  \E k \in DOMAIN sent :
    /\ Servable(k)
    /\ stream' = stream \o Units(PieceMessage(sent[k].index, sent[k].block))
    /\ sent' = [j \in 1 .. Len(sent) - 1 |-> IF j < k THEN sent[j] ELSE sent[j + 1]]
    /\ UNCHANGED <<threadVars, faults, chatter, peer_hash, peer_bf, spoken, due>>

\* Nobody sends anything before the handshake.
Chatter ==
  /\ pc # "left" /\ spoken > 0
  /\ chatter < MaxChatter
  /\ chatter' = chatter + 1
  /\ \E id \in {"have", "choke", "keep_alive"} : stream' = stream \o Units(Other(id))
  /\ UNCHANGED <<threadVars, sent, faults, peer_hash, peer_bf, spoken, due>>

Fault == faults < MaxFaults /\ faults' = faults + 1

\* Nothing is on its way to the thread, so that it will run into its timeout.
Silent == stream = <<>> /\ spoken = due /\ \A k \in DOMAIN sent : ~Servable(k)

\* Nothing arrives in time.
TimeOut == (Fault \/ (Silent /\ UNCHANGED faults)) /\ UNCHANGED stream

\* recv hands over the first k units.
Receive(k) == k \in 1 .. Len(stream) /\ stream' = SubSeq(stream, k + 1, Len(stream))
-------------------------------------------------------------------------------
(* The thread.                                                             *)

\* An error of the session: the thread returns.
Quit ==
  /\ phase # "download"
  /\ pc' = "left" /\ msg' = NULL /\ want' = 0
  /\ UNCHANGED <<index, downloaded, buf, failed_attempts, stored>>

\* mark_as_undone and the next round: neither connection nor stream is touched.
Retry ==
  /\ phase = "download"
  /\ pc' = "loop"
  /\ failed_attempts' = failed_attempts + 1
  /\ index' = NULL /\ downloaded' = 0 /\ buf' = [b \in Blocks |-> NULL]
  /\ msg' = NULL /\ want' = 0
  /\ UNCHANGED stored

Fail == Quit \/ Retry

SendHandshake ==
  /\ pc = "greet"
  /\ \/ due' = 2 /\ pc' = "handshake"
        /\ UNCHANGED <<index, downloaded, buf, failed_attempts, msg, want, stored, faults>>
     \/ Fault /\ Fail /\ UNCHANGED due
  /\ UNCHANGED <<phase, sent, stream, chatter, peer_hash, peer_bf, spoken>>

\* The info hash after k units of the handshake have arrived: without its own
\* unit it is compared with what malloc has left in the buffer.
SameHash(k)  == k = 1 \/ peer_hash = "ours"
OtherHash(k) == k = 1 \/ peer_hash = "theirs"

\* One receive_data, which may return a part of the handshake; the whole buffer is
\* decoded all the same.
ReadHandshake ==
  /\ pc = "handshake"
  /\ \/ \E k \in 1 .. HandshakeUnits :
          /\ Receive(k)
          /\ (k = HandshakeUnits /\ UNCHANGED faults) \/ (k < HandshakeUnits /\ Fault)
          /\ \/ /\ SameHash(k)
                /\ pc' = "header" /\ phase' = "bitfield"
                /\ UNCHANGED <<index, downloaded, buf, failed_attempts, msg, want, stored>>
             \/ OtherHash(k) /\ Fail /\ UNCHANGED phase
     \/ TimeOut /\ Fail /\ UNCHANGED phase
  /\ UNCHANGED <<sent, chatter, peer_hash, peer_bf, spoken, due>>

\* The message after the handshake has to be the bitfield.
UseBitfield ==
  /\ pc = "payload" /\ want = 0 /\ phase = "bitfield"
  /\ \/ /\ msg.id = "bitfield"
        /\ pc' = "interested" /\ msg' = NULL
        /\ UNCHANGED <<index, downloaded, buf, failed_attempts, want, stored>>
     \/ msg.id # "bitfield" /\ Fail
  /\ UNCHANGED <<phase, netVars>>

SendInterested ==
  /\ pc = "interested"
  /\ \/ due' = 3 /\ pc' = "header" /\ phase' = "state"
        /\ UNCHANGED <<index, downloaded, buf, failed_attempts, msg, want, stored, faults>>
     \/ Fault /\ Fail /\ UNCHANGED <<phase, due>>
  /\ UNCHANGED <<sent, stream, chatter, peer_hash, peer_bf, spoken>>

\* Fault: every message but Choke leads to the loop.
UseAnyState ==
  /\ pc = "payload" /\ want = 0 /\ phase = "state"
  /\ \/ /\ msg.id # "choke"
        /\ pc' = "loop" /\ phase' = "download" /\ msg' = NULL
        /\ UNCHANGED <<index, downloaded, buf, failed_attempts, want, stored>>
     \/ msg.id = "choke" /\ Fail /\ UNCHANGED phase
  /\ UNCHANGED netVars

\* Only an Unchoke as the very next message leads to the loop.
UseState ==
  /\ pc = "payload" /\ want = 0 /\ phase = "state"
  /\ \/ /\ msg.id = "unchoke"
        /\ pc' = "loop" /\ phase' = "download" /\ msg' = NULL
        /\ UNCHANGED <<index, downloaded, buf, failed_attempts, want, stored>>
     \/ msg.id # "unchoke" /\ Fail /\ UNCHANGED phase
  /\ UNCHANGED netVars

\* Fault: one attempt too many.
StayOnceMore == failed_attempts <= MaxFails /\ \E i \in Pieces : stored[i] = NULL

StayInLoop == failed_attempts < MaxFails /\ \E i \in Pieces : stored[i] = NULL

\* Fault: a piece is taken although it is done.
TakeAnyPiece ==
  /\ pc = "loop" /\ StayInLoop
  /\ pc' = "request"
  /\ \E i \in Pieces : index' = i
  /\ UNCHANGED <<phase, downloaded, buf, failed_attempts, msg, want, stored, netVars>>

\* get_piece_index, which depends on the other threads, and init_piece_progress; a
\* piece that the peer does not have is given back at once.
TakePiece ==
  /\ pc = "loop" /\ StayInLoop
  /\ \E i \in Pieces :
       /\ stored[i] = NULL
       /\ \/ i \in peer_bf /\ pc' = "request" /\ index' = i /\ UNCHANGED failed_attempts
          \/ i \notin peer_bf /\ failed_attempts' = failed_attempts + 1 /\ UNCHANGED <<pc, index>>
  /\ UNCHANGED <<phase, downloaded, buf, msg, want, stored, netVars>>

Leave ==
  /\ pc = "loop" /\ ~StayInLoop
  /\ pc' = "left" /\ sent' = <<>> /\ stream' = <<>>
  /\ UNCHANGED <<index, downloaded, buf, failed_attempts, msg, want, stored, faults, chatter, session>>

Request == [index |-> index, block |-> downloaded]

\* What a send that fails has brought to the peer: nothing, all of it, since it may
\* only have been late, or a part.
Brought == {sent, Append(sent, Request)} \cup IF Tearing THEN {Append(sent, NULL)} ELSE {}

SendRequest ==
  /\ pc = "request" /\ downloaded < NumBlocks
  /\ \/ /\ sent' = Append(sent, Request)
        /\ pc' = "header"
        /\ UNCHANGED <<index, downloaded, buf, failed_attempts, msg, want, stored, faults>>
     \/ Fault /\ Fail /\ sent' \in Brought
  /\ UNCHANGED <<stream, chatter, session>>

\* add_piece.
FinishPiece ==
  /\ pc = "request" /\ downloaded = NumBlocks
  /\ stored' = [stored EXCEPT ![index] = buf]
  /\ pc' = "loop" /\ index' = NULL /\ downloaded' = 0 /\ buf' = [b \in Blocks |-> NULL]
  /\ UNCHANGED <<phase, failed_attempts, msg, want, netVars>>

\* The first five bytes as a header.
ParseHeader(u) ==
  \/ u.part = 1 /\ u.of.id = "keep_alive" /\ Fail
  \/ /\ u.part = 1 /\ u.of.id # "keep_alive"
     /\ msg' = u.of /\ want' = Size(u.of) - HeaderUnits
     /\ pc' = "payload"
     /\ UNCHANGED <<index, downloaded, buf, failed_attempts, stored>>
  \/ /\ u.part # 1
     /\ \/ Fail
        \/ /\ msg' = Garbage /\ want' \in 0 .. MaxGarbage
           /\ pc' = "payload"
           /\ UNCHANGED <<index, downloaded, buf, failed_attempts, stored>>

\* One receive_data.  Fewer than five bytes are a failure, and so are bytes that
\* the helper thread of receive_data gets after the timeout: both are consumed.
ReadHeader ==
  /\ pc = "header"
  /\ \/ Receive(HeaderUnits) /\ ParseHeader(stream[1]) /\ UNCHANGED faults
     \/ Receive(HeaderUnits) /\ Fault /\ Fail
     \/ Receive(1) /\ ((Len(stream) = 1 /\ UNCHANGED faults) \/ Fault) /\ Fail
     \/ TimeOut /\ Fail
  /\ UNCHANGED <<sent, chatter, session>>

\* Fault: whatever the first receive_data returns is taken for the payload.
ReadPayloadOnce ==
  /\ pc = "payload" /\ want > 0
  /\ \/ /\ \E k \in 1 .. want : Receive(k)
        /\ want' = 0
        /\ UNCHANGED <<pc, index, downloaded, buf, failed_attempts, msg, stored, faults>>
     \/ TimeOut /\ Fail
  /\ UNCHANGED <<sent, chatter, session>>

\* Fault: the loop goes on when receive_data has failed.
ReadPayloadForEver ==
  /\ pc = "payload" /\ want > 0
  /\ \/ \E k \in 1 .. want : Receive(k) /\ want' = want - k /\ UNCHANGED faults
     \/ TimeOut /\ UNCHANGED want
  /\ UNCHANGED <<pc, index, downloaded, buf, failed_attempts, msg, stored, sent, chatter, session>>

\* One round of the loop over receive_data.
ReadPayload ==
  /\ pc = "payload" /\ want > 0
  /\ \/ /\ \E k \in 1 .. want : Receive(k) /\ want' = want - k
        /\ UNCHANGED <<pc, index, downloaded, buf, failed_attempts, msg, stored, faults>>
     \/ (\E k \in 1 .. want : Receive(k)) /\ Fault /\ Fail
     \/ TimeOut /\ Fail
  /\ UNCHANGED <<sent, chatter, session>>

\* Fault: the index of the piece is not compared.
ExpectedAnyPiece(m) == m.id = "piece" /\ m.block = downloaded

Expected(m) == m.id = "piece" /\ m.index = index /\ m.block = downloaded

UseMessage ==
  /\ pc = "payload" /\ want = 0 /\ phase = "download"
  /\ \/ /\ Expected(msg)
        /\ buf' = [buf EXCEPT ![msg.block] = <<msg.index, msg.block>>]
        /\ downloaded' = downloaded + 1
        /\ pc' = "request" /\ msg' = NULL
        /\ UNCHANGED <<index, failed_attempts, want, stored>>
     \/ ~Expected(msg) /\ Fail
  /\ UNCHANGED <<phase, netVars>>

Thread ==
  \/ SendHandshake \/ ReadHandshake \/ UseBitfield \/ SendInterested \/ UseState
  \/ TakePiece \/ Leave \/ SendRequest \/ FinishPiece
  \/ ReadHeader \/ ReadPayload \/ UseMessage

Terminated == pc = "left" /\ UNCHANGED vars

Next == Thread \/ Speak \/ Serve \/ Chatter \/ Terminated

Spec == Init /\ [][Next]_vars

\* The thread runs, every receive ends by its timeout, the peer speaks and serves.
FairSpec == Spec /\ WF_vars(Thread) /\ WF_vars(Speak) /\ WF_vars(Serve)
-------------------------------------------------------------------------------
(* Properties.                                                             *)

\* The type invariant.
TypeOK ==
  /\ pc \in {"greet", "handshake", "interested", "header", "payload", "loop", "request", "left"}
  /\ phase \in {"handshake", "bitfield", "state", "download"}
  /\ spoken \in 0 .. due /\ due \in 0 .. Len(SessionMessages)
  /\ index \in Pieces \cup {NULL}
  /\ downloaded \in 0 .. NumBlocks
  /\ buf \in Buffer
  /\ failed_attempts \in 0 .. MaxFails
  /\ msg \in Messages \cup {Garbage, NULL} /\ want \in 0 .. MaxGarbage
  /\ stored \in [Pieces -> Buffer \cup {NULL}]
  /\ sent \in Seq([index : Pieces, block : Blocks] \cup {NULL}) /\ stream \in Seq(Unit)
  /\ faults \in 0 .. MaxFaults /\ chatter \in 0 .. MaxChatter
  /\ peer_hash \in {"ours", "theirs"} /\ peer_bf \subseteq Pieces

\* What is stored as block b of piece i is block b of piece i, although answers
\* to requests of failed attempts arrive late and out of order.
StoredBlocksAreRight ==
  \A i \in Pieces : stored[i] # NULL => \A b \in Blocks : stored[i][b] = <<i, b>>

\* Once a block has been accepted, the stream is back at a message boundary,
\* whatever the attempts before have left in it.
AlignedAfterBlock ==
  pc = "request" /\ downloaded > 0 /\ stream # <<>> => Head(stream).part = 1

\* The thread leaves its loop, also when its peer does not answer.
ThreadLeaves == <>(pc = "left")

\* The download loop is only reached with a peer of this torrent that has unchoked
\* the client, and with the stream behind the last message of the session, although
\* a handshake in parts is decoded before it is complete.
LoopMeansSession ==
  phase = "download" /\ pc # "left" =>
    /\ peer_hash = "ours" /\ spoken = Len(SessionMessages)
    /\ \A k \in DOMAIN stream : stream[k].of.id \notin Range(SessionMessages)

\* What the proofs of these three need besides.

\* What is known of the attempt at each place of the thread: the blocks that have
\* been accepted are in the buffer, where they belong.
AttemptState ==
  /\ pc \in {"greet", "handshake"} => phase = "handshake"
  /\ pc = "interested" => phase = "bitfield"
  /\ pc \in {"header", "payload"} => phase # "handshake"
  /\ pc \in {"loop", "request"} => phase = "download"
  /\ index # NULL <=> phase = "download" /\ pc \in {"request", "header", "payload"}
  /\ index = NULL => downloaded = 0
  /\ index # NULL => failed_attempts < MaxFails
  /\ pc \in {"header", "payload"} /\ phase = "download" => downloaded < NumBlocks
  /\ \A b \in 0 .. downloaded - 1 : buf[b] = <<index, b>>
  /\ pc = "payload" => msg # NULL
  /\ want > 0 => pc = "payload"

\* Nothing is lost inside the stream: it is the rest of one message and then whole
\* messages.
WholeMessages ==
  \A k \in DOMAIN stream :
    IF stream[k].part < Size(stream[k].of)
    THEN k < Len(stream) /\ stream[k + 1] = [stream[k] EXCEPT !.part = @ + 1]
    ELSE k < Len(stream) => stream[k + 1].part = 1

AtBoundary == stream = <<>> \/ stream[1].part = 1

\* A payload being read is at the head of the stream, unless the header was none.
ReaderState ==
  pc = "payload" /\ msg # Garbage =>
    IF want = 0 THEN AtBoundary
    ELSE /\ want <= Size(msg) - HeaderUnits
         /\ stream # <<>> /\ stream[1] = [of |-> msg, part |-> Size(msg) - want + 1]

\* How far the session has come, as message number n of it.
Said(n)   == n <= spoken
Unread(n) == \E k \in DOMAIN stream : stream[k].of.id = SessionMessages[n]
Read(n)   == Said(n) /\ ~Unread(n)

\* A handshake in parts leaves the thread at no boundary, and so do all the messages
\* that it may take its rest for.
SessionState ==
  /\ \A n \in 1 .. 3 : Unread(n) => Said(n)
  /\ \A j, k \in DOMAIN stream :
       stream[j] = stream[k] /\ stream[j].of.id \in Range(SessionMessages) => j = k
  /\ due <= 2 \/ phase \in {"state", "download"}
  /\ phase # "download" => sent = <<>>
  /\ phase = "handshake" /\ pc # "left" =>
       \/ spoken = 0 /\ stream = <<>>
       \/ Said(1) /\ stream # <<>> /\ stream[1] = [of |-> Other("handshake"), part |-> 1]
  /\ phase = "bitfield" /\ pc = "header" => (peer_hash = "ours" /\ Read(1)) \/ ~AtBoundary
  /\ phase = "bitfield" /\ pc = "payload" =>
       \/ msg = Garbage
       \/ /\ peer_hash = "ours" /\ Read(1)
          /\ msg.id = "bitfield" =>
               Said(2) /\ \A k \in DOMAIN stream : stream[k].of.id = "bitfield" => k <= want
  /\ phase = "state" \/ pc = "interested" => peer_hash = "ours" /\ Read(1) /\ Read(2)
  /\ phase = "state" /\ pc = "payload" /\ msg.id = "unchoke" => Read(3)

\* The stream keeps its messages whole and in their order whatever is read of it,
\* and the thread knows no more than has been said.
Strengthening == AttemptState /\ WholeMessages /\ ReaderState /\ SessionState

HasEverything == \A i \in Pieces : stored[i] # NULL

\* A peer of this torrent that has every piece, is in time, and sends nothing that it
\* is not asked for, delivers every piece.
PromptPeerCompletes ==
  peer_hash = "ours" /\ peer_bf = Pieces => <>HasEverything \/ <>(faults + chatter > 0)

\* The messages in detail do what the whole download promises of one peer: a
\* piece is reserved from get_piece_index until it is given back or stored, it is
\* stored once, and however the stream runs no piece stays reserved for ever.
Download == INSTANCE PieceDownload WITH
  Piece <- Pieces, Peer <- {1},
  reserved <- {<<1, i>> : i \in {index} \ {NULL}},
  stored <- {i \in Pieces : stored[i] # NULL},
  outcome <- IF pc # "left" THEN "running"
             ELSE IF HasEverything THEN "delivered" ELSE "abandoned"

ImplementsDownload == Download!FairSpec

\* The peer has every piece and serves it: once it has unchoked the thread, the
\* thread gets all of them.
Completes == phase = "download" ~> HasEverything

\* What the source says of a torrent, and the code does not do.

\* torrent_file.h:19-20: length is the size of the entire file to download, so no
\* byte past it is asked for.
RequestsLieInFile ==
  pc = "header" /\ phase = "download" => index * PieceLength + (downloaded + 1) * BlockSize <= FileLength
================================================================================
