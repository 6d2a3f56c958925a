----------------------------- MODULE TransferProofs -----------------------------
(***************************************************************************)
(* Theorems about PieceTransfer for torrents, block sizes and bounds of    *)
(* any size: the thread stays in step with its stream, stores only what it *)
(* asked for, and its messages do what PieceDownload promises of one peer. *)
(***************************************************************************)
EXTENDS PieceTransfer, SequenceTheorems, TLAPS

Ids == {"handshake", "bitfield", "unchoke", "have", "choke", "keep_alive"}

\* An attempt is never longer than the number of its blocks.
LEMMA BlocksAreCounted == NumBlocks \in Nat \ {0}
<1>1. PieceLength \div BlockSize \in Nat /\ PieceLength % BlockSize \in Nat
  BY TransferAssumption
<1>2. PieceLength \div BlockSize = 0 => PieceLength % BlockSize # 0
  BY TransferAssumption
<1> QED
  BY <1>1, <1>2 DEF NumBlocks

\* The messages: an identifier has one message, but a Piece message is told from
\* the others.
LEMMA MessageFacts ==
  /\ \A m \in Messages : m.id \in Ids \cup {"piece"} /\ (m.id \in Ids => m = Other(m.id))
  /\ \A m \in Messages : m.id = "piece" => m.index \in Pieces /\ m.block \in Blocks
  /\ \A id \in Ids : Other(id) \in Messages /\ Other(id).id = id
  /\ \A i \in Pieces, b \in Blocks : PieceMessage(i, b) \in Messages /\ PieceMessage(i, b).id = "piece"
  /\ Garbage \notin Messages /\ Garbage.id = "garbage"
<1>1. \A i, b : PieceMessage(i, b).id = "piece" /\ PieceMessage(i, b).index = i /\ PieceMessage(i, b).block = b
  BY DEF PieceMessage
<1>2. \A id : Other(id).id = id
  BY DEF Other
<1>3. \A m \in Messages :
        (\E i \in Pieces, b \in Blocks : m = PieceMessage(i, b)) \/ (\E id \in Ids : m = Other(id))
  BY DEF Messages, Ids
<1>4. "piece" \notin Ids /\ "garbage" \notin Ids
  BY DEF Ids
<1>5. (\A id \in Ids : Other(id) \in Messages) /\ (\A i \in Pieces, b \in Blocks : PieceMessage(i, b) \in Messages)
  BY DEF Messages, Ids
<1>6. Garbage.id = "garbage"
  BY <1>2 DEF Garbage
<1> QED
  BY <1>1, <1>2, <1>3, <1>4, <1>5, <1>6

\* How many units a message has.
LEMMA SizeFacts ==
  ASSUME NEW m \in Messages
  PROVE  /\ Size(m) \in 1 .. 4
         /\ m.id = "handshake" => Size(m) = 3
         /\ m.id = "bitfield" => Size(m) = 3
         /\ m.id = "unchoke" => Size(m) = 2
         /\ m.id # "keep_alive" => Size(m) >= 2
BY MessageFacts DEF Ids, Size, HandshakeUnits, HeaderUnits, PayloadUnits

\* The messages of the session and their order.
LEMMA SessionFacts ==
  /\ Len(SessionMessages) = 3
  /\ SessionMessages[1] = "handshake" /\ SessionMessages[2] = "bitfield" /\ SessionMessages[3] = "unchoke"
  /\ Range(SessionMessages) = {"handshake", "bitfield", "unchoke"}
  /\ \A n \in 1 .. 3 : SessionMessages[n] \in Ids
<1>1. DOMAIN SessionMessages = {1, 2, 3}
  BY DEF SessionMessages
<1> QED
  BY <1>1 DEF SessionMessages, Range, Ids

\* A message as units.
LEMMA UnitFacts ==
  ASSUME NEW m \in Messages
  PROVE  /\ Units(m) \in Seq(Unit) /\ Len(Units(m)) = Size(m) /\ DOMAIN Units(m) = 1 .. Size(m)
         /\ \A k \in 1 .. Size(m) : Units(m)[k] = [of |-> m, part |-> k]
<1>1. Size(m) \in Nat
  BY SizeFacts
<1>2. \A k \in 1 .. Size(m) : [of |-> m, part |-> k] \in Unit
  BY <1>1 DEF Unit
<1> QED
  BY <1>1, <1>2 DEF Units

\* A unit has a message and a place in it.
LEMMA UnitTyped ==
  ASSUME NEW u \in Unit
  PROVE  u.of \in Messages /\ u.part \in 1 .. Size(u.of) /\ u.part \in Nat /\ u = [of |-> u.of, part |-> u.part]
BY SizeFacts DEF Unit

\* What recv leaves of a stream.
LEMMA RestOfStream ==
  ASSUME NEW s \in Seq(Unit), NEW k \in 1 .. Len(s), NEW t, t = SubSeq(s, k + 1, Len(s))
  PROVE  /\ t \in Seq(Unit) /\ Len(t) = Len(s) - k /\ DOMAIN t = 1 .. Len(t) /\ DOMAIN s = 1 .. Len(s)
         /\ \A j \in 1 .. Len(t) : t[j] = s[j + k] /\ j + k \in 1 .. Len(s)
BY SubSeqProperties, ElementOfSeq, LenProperties

\* A stream that a message is added to.
LEMMA LongerStream ==
  ASSUME NEW s \in Seq(Unit), NEW m \in Messages, NEW t, t = s \o Units(m)
  PROVE  /\ t \in Seq(Unit) /\ Len(t) = Len(s) + Size(m) /\ Size(m) \in 1 .. 4 /\ Len(s) \in Nat
         /\ \A j \in 1 .. Len(t) : t[j] = IF j <= Len(s) THEN s[j] ELSE [of |-> m, part |-> j - Len(s)]
<1>1. Size(m) \in 1 .. 4 /\ Len(s) \in Nat
  BY SizeFacts, LenProperties
<1>2. /\ t \in Seq(Unit) /\ Len(t) = Len(s) + Size(m)
      /\ \A j \in 1 .. Len(s) + Size(m) : t[j] = IF j <= Len(s) THEN s[j] ELSE Units(m)[j - Len(s)]
  <2>1. Units(m) \in Seq(Unit) /\ Len(Units(m)) = Size(m)
    BY UnitFacts
  <2> QED
    BY <2>1, ConcatProperties
<1>3. ASSUME NEW j \in 1 .. Len(t), ~(j <= Len(s))
      PROVE  Units(m)[j - Len(s)] = [of |-> m, part |-> j - Len(s)]
  <2>1. j - Len(s) \in 1 .. Size(m)
    BY <1>1, <1>2, <1>3
  <2> QED
    BY <2>1, UnitFacts
<1> QED
  BY <1>1, <1>2, <1>3
-------------------------------------------------------------------------------
(* What each step does to the stream and to the attempt.                   *)

ThreadTypes ==
  /\ pc \in {"greet", "handshake", "interested", "header", "payload", "loop", "request", "left"}
  /\ phase \in {"handshake", "bitfield", "state", "download"}
  /\ index \in Pieces \cup {NULL}
  /\ downloaded \in 0 .. NumBlocks
  /\ buf \in Buffer
  /\ failed_attempts \in 0 .. MaxFails
  /\ msg \in Messages \cup {Garbage, NULL} /\ want \in 0 .. MaxGarbage
  /\ stored \in [Pieces -> Buffer \cup {NULL}]

NetTypes ==
  /\ spoken \in 0 .. due /\ due \in 0 .. 3
  /\ sent \in Seq([index : Pieces, block : Blocks] \cup {NULL}) /\ stream \in Seq(Unit)
  /\ faults \in 0 .. MaxFaults /\ chatter \in 0 .. MaxChatter
  /\ peer_hash \in {"ours", "theirs"} /\ peer_bf \subseteq Pieces

LEMMA TypesApart == TypeOK <=> ThreadTypes /\ NetTypes
BY SessionFacts DEF TypeOK, ThreadTypes, NetTypes

Received == \E k \in 1 .. Len(stream) : Receive(k)
Extended == \E m \in Messages : stream' = stream \o Units(m)

\* The next message of the session, or one that is not of the session.
Loudly ==
  /\ spoken + 1 \in 1 .. 3 /\ Other(SessionMessages[spoken + 1]) \in Messages
  /\ stream' = stream \o Units(Other(SessionMessages[spoken + 1]))
Quietly ==
  \E m \in Messages : m.id \notin Range(SessionMessages) /\ stream' = stream \o Units(m)

\* The peer only adds messages.
LEMMA PeerExtends ==
  ASSUME NetTypes, Speak \/ Serve \/ Chatter
  PROVE  Extended /\ (Speak => Loudly) /\ (~Speak => Quietly)
<1>1. CASE Speak
  <2>1. spoken + 1 \in 1 .. 3
    BY <1>1 DEF Speak, NetTypes
  <2>2. Other(SessionMessages[spoken + 1]) \in Messages
    BY <2>1, SessionFacts, MessageFacts
  <2> QED
    BY <1>1, <2>1, <2>2 DEF Speak, Extended, Loudly
<1>2. CASE Serve
  <2>1. PICK k \in DOMAIN sent :
          Servable(k) /\ stream' = stream \o Units(PieceMessage(sent[k].index, sent[k].block))
    BY <1>2 DEF Serve
  <2>2. sent[k].index \in Pieces /\ sent[k].block \in Blocks
    <3>1. k \in 1 .. Len(sent)
      BY <2>1, LenProperties DEF NetTypes
    <3>2. sent[k] \in [index : Pieces, block : Blocks] \cup {NULL}
      BY <3>1, ElementOfSeq DEF NetTypes
    <3>3. sent[k] # NULL
      BY <2>1, <3>1 DEF Servable
    <3> QED
      BY <3>2, <3>3
  <2>3. /\ PieceMessage(sent[k].index, sent[k].block) \in Messages
        /\ PieceMessage(sent[k].index, sent[k].block).id \notin Range(SessionMessages)
    BY <2>2, MessageFacts, SessionFacts
  <2>4. Extended /\ Quietly
    BY <2>1, <2>3 DEF Extended, Quietly
  <2> QED
    BY <1>2, <2>4 DEF Serve, Speak
<1>3. CASE Chatter
  <2>1. PICK id \in {"have", "choke", "keep_alive"} : stream' = stream \o Units(Other(id))
    BY <1>3 DEF Chatter
  <2>2. Other(id) \in Messages /\ Other(id).id \notin Range(SessionMessages)
    BY MessageFacts, SessionFacts DEF Ids
  <2>3. Extended /\ Quietly
    BY <2>1, <2>2 DEF Extended, Quietly
  <2> QED
    BY <1>3, <2>3 DEF Chatter, Speak
<1> QED
  BY <1>1, <1>2, <1>3

\* Every step leaves the stream alone, takes units from its head, adds a message at
\* its end, or ends the connection.
LEMMA StreamSteps ==
  ASSUME NetTypes, [Next]_vars
  PROVE  stream' = stream \/ stream' = <<>> \/ Received \/ Extended
<1>1. CASE Thread
  BY <1>1 DEF Thread, SendHandshake, ReadHandshake, UseBitfield, SendInterested, UseState, TakePiece,
              Leave, SendRequest, FinishPiece, ReadHeader, ReadPayload, UseMessage, TimeOut, Receive,
              Received, netVars, session
<1>2. CASE Speak \/ Serve \/ Chatter
  BY <1>2, PeerExtends
<1>3. CASE Terminated \/ UNCHANGED vars
  BY <1>3 DEF Terminated, vars, netVars
<1> QED
  BY <1>1, <1>2, <1>3 DEF Next

\* The stream always consists of units.
LEMMA StreamTyped ==
  ASSUME NetTypes, [Next]_vars
  PROVE  stream' \in Seq(Unit)
<1>1. stream \in Seq(Unit)
  BY DEF NetTypes
<1>2. CASE stream' = stream \/ stream' = <<>>
  BY <1>1, <1>2, EmptySeq
<1>3. CASE Received
  BY <1>1, <1>3, RestOfStream DEF Received, Receive
<1>4. CASE Extended
  BY <1>1, <1>4, LongerStream DEF Extended
<1> QED
  BY <1>2, <1>3, <1>4, StreamSteps

\* The rest of a request queue.
LEMMA RestOfRequests ==
  ASSUME NEW S, NEW q \in Seq(S), NEW k \in DOMAIN q
  PROVE  [j \in 1 .. Len(q) - 1 |-> IF j < k THEN q[j] ELSE q[j + 1]] \in Seq(S)
<1>1. Len(q) \in Nat /\ k \in 1 .. Len(q)
  BY LenProperties
<1>2. \A j \in 1 .. Len(q) - 1 : (IF j < k THEN q[j] ELSE q[j + 1]) \in S
  BY <1>1, ElementOfSeq
<1>3. Len(q) - 1 \in Nat
  BY <1>1
<1> QED
  BY <1>2, <1>3

\* An error ends the session, or the attempt with all that it has got.
LEMMA FailKeepsAttempt ==
  ASSUME ThreadTypes, AttemptState, Fail, phase' = phase, pc \notin {"loop", "left"}
  PROVE  ThreadTypes' /\ AttemptState'
<1>1. CASE Quit
  <2>1. ThreadTypes'
    BY <1>1 DEF Quit, ThreadTypes, MaxGarbage
  <2>2. AttemptState'
    BY <1>1 DEF Quit, ThreadTypes, AttemptState
  <2> QED
    BY <2>1, <2>2
<1>2. CASE Retry
  <2>1. index # NULL /\ failed_attempts < MaxFails
    BY <1>2 DEF Retry, AttemptState, ThreadTypes
  <2>2. buf' \in Buffer
    BY <1>2 DEF Retry, Buffer
  <2>3. ThreadTypes'
    BY <1>2, <2>1, <2>2, TransferAssumption, BlocksAreCounted DEF Retry, ThreadTypes, MaxGarbage
  <2>4. AttemptState'
    BY <1>2 DEF Retry, AttemptState
  <2> QED
    BY <2>3, <2>4
<1> QED
  BY <1>1, <1>2 DEF Fail

\* A header starts a payload, or it fails.
LEMMA HeaderKeepsAttempt ==
  ASSUME ThreadTypes, AttemptState, NEW u \in Unit, ParseHeader(u), phase' = phase, pc = "header"
  PROVE  ThreadTypes' /\ AttemptState'
<1>1. CASE Fail
  BY <1>1, FailKeepsAttempt
<1>2. CASE ~Fail
  <2>1. /\ msg' \in Messages \cup {Garbage} /\ want' \in 0 .. MaxGarbage
        /\ pc' = "payload"
        /\ UNCHANGED <<index, downloaded, buf, failed_attempts, stored>>
    <3>1. u.part = 1 /\ u.of.id # "keep_alive" => u.of \in Messages /\ Size(u.of) - HeaderUnits \in 0 .. MaxGarbage
      BY UnitTyped, SizeFacts DEF HeaderUnits, MaxGarbage
    <3> QED
      BY <1>2, <3>1 DEF ParseHeader
  <2>2. ThreadTypes'
    BY <2>1 DEF ThreadTypes
  <2>3. AttemptState'
    BY <2>1, NullAssumption DEF AttemptState
  <2> QED
    BY <2>2, <2>3
<1> QED
  BY <1>1, <1>2
-------------------------------------------------------------------------------
(* The attempt: what is in the buffer is what was asked for.               *)

\* What an action of the thread does to it.
LEMMA ThreadKeepsAttempt ==
  ASSUME ThreadTypes, NetTypes, AttemptState, Thread
  PROVE  ThreadTypes' /\ AttemptState'
<1> USE BlocksAreCounted
<1>1. CASE SendHandshake
  <2>1. CASE Fail
    BY <1>1, <2>1, FailKeepsAttempt DEF SendHandshake
  <2>2. CASE ~Fail
    BY <1>1, <2>2 DEF SendHandshake, ThreadTypes, AttemptState
  <2> QED
    BY <2>1, <2>2
<1>2. CASE ReadHandshake
  <2>1. CASE Fail /\ UNCHANGED phase
    BY <1>2, <2>1, FailKeepsAttempt DEF ReadHandshake
  <2>2. CASE ~(Fail /\ UNCHANGED phase)
    <3>1. /\ pc = "handshake" /\ pc' = "header" /\ phase' = "bitfield"
          /\ UNCHANGED <<index, downloaded, buf, failed_attempts, msg, want, stored>>
      BY <1>2, <2>2 DEF ReadHandshake
    <3> QED
      BY <3>1 DEF ThreadTypes, AttemptState
  <2> QED
    BY <2>1, <2>2
<1>3. CASE UseBitfield
  <2>1. CASE Fail
    BY <1>3, <2>1, FailKeepsAttempt DEF UseBitfield
  <2>2. CASE ~Fail
    BY <1>3, <2>2 DEF UseBitfield, ThreadTypes, AttemptState
  <2> QED
    BY <2>1, <2>2
<1>4. CASE SendInterested
  <2>1. CASE Fail /\ UNCHANGED phase
    BY <1>4, <2>1, FailKeepsAttempt DEF SendInterested
  <2>2. CASE ~(Fail /\ UNCHANGED phase)
    BY <1>4, <2>2 DEF SendInterested, ThreadTypes, AttemptState
  <2> QED
    BY <2>1, <2>2
<1>5. CASE UseState
  <2>1. CASE Fail /\ UNCHANGED phase
    BY <1>5, <2>1, FailKeepsAttempt DEF UseState
  <2>2. CASE ~(Fail /\ UNCHANGED phase)
    BY <1>5, <2>2 DEF UseState, ThreadTypes, AttemptState
  <2> QED
    BY <2>1, <2>2
<1>6. CASE TakePiece
  <2>1. index = NULL /\ failed_attempts < MaxFails /\ pc = "loop" /\ phase' = phase
        /\ UNCHANGED <<downloaded, buf, msg, want, stored>>
    BY <1>6 DEF TakePiece, StayInLoop, AttemptState
  <2>2. CASE UNCHANGED <<pc, index>> /\ failed_attempts' = failed_attempts + 1
    <3>1. failed_attempts' \in 0 .. MaxFails
      BY <2>1, <2>2, TransferAssumption DEF ThreadTypes
    <3> QED
      BY <2>1, <2>2, <3>1 DEF ThreadTypes, AttemptState
  <2>3. ASSUME NEW i \in Pieces, pc' = "request", index' = i, UNCHANGED failed_attempts
        PROVE  ThreadTypes' /\ AttemptState'
    <3>1. i \in Int
      BY TransferAssumption DEF Pieces
    <3>2. i # NULL
      BY <3>1, NullAssumption
    <3>3. phase = "download" /\ downloaded = 0 /\ want = 0
      BY <2>1 DEF AttemptState, ThreadTypes, MaxGarbage
    <3> QED
      BY <2>1, <2>3, <3>2, <3>3 DEF ThreadTypes, AttemptState
  <2> QED
    BY <1>6, <2>2, <2>3 DEF TakePiece
<1>7. CASE Leave
  BY <1>7 DEF Leave, ThreadTypes, AttemptState, session
<1>8. CASE SendRequest
  <2>1. CASE Fail
    BY <1>8, <2>1, FailKeepsAttempt DEF SendRequest, session
  <2>2. CASE ~Fail
    BY <1>8, <2>2 DEF SendRequest, ThreadTypes, AttemptState, session
  <2> QED
    BY <2>1, <2>2
<1>9. CASE FinishPiece
  <2>1. index \in Pieces
    BY <1>9 DEF FinishPiece, AttemptState, ThreadTypes
  <2>2. stored' \in [Pieces -> Buffer \cup {NULL}]
    BY <1>9, <2>1 DEF FinishPiece, ThreadTypes
  <2>3. buf' \in Buffer
    BY <1>9 DEF FinishPiece, Buffer
  <2> QED
    BY <1>9, <2>2, <2>3 DEF FinishPiece, ThreadTypes, AttemptState
<1>10. CASE ReadHeader
  <2>1. CASE Fail
    BY <1>10, <2>1, FailKeepsAttempt DEF ReadHeader, session
  <2>2. CASE ~Fail
    <3>1. Receive(HeaderUnits) /\ ParseHeader(stream[1]) /\ pc = "header" /\ phase' = phase
      BY <1>10, <2>2 DEF ReadHeader, session
    <3>2. stream[1] \in Unit
      BY <3>1, ElementOfSeq DEF Receive, HeaderUnits, NetTypes
    <3> QED
      BY <3>1, <3>2, HeaderKeepsAttempt
  <2> QED
    BY <2>1, <2>2
<1>11. CASE ReadPayload
  <2>1. CASE Fail
    BY <1>11, <2>1, FailKeepsAttempt DEF ReadPayload, session
  <2>2. CASE ~Fail
    <3>1. PICK k \in 1 .. want : want' = want - k
      BY <1>11, <2>2 DEF ReadPayload
    <3>2. want' \in 0 .. MaxGarbage
      BY <3>1 DEF ThreadTypes, MaxGarbage
    <3> QED
      BY <1>11, <2>2, <3>2 DEF ReadPayload, ThreadTypes, AttemptState, session
  <2> QED
    BY <2>1, <2>2
<1>12. CASE UseMessage
  <2>1. CASE Fail
    BY <1>12, <2>1, FailKeepsAttempt DEF UseMessage
  <2>2. CASE ~Fail
    <3>1. /\ pc = "payload" /\ phase = "download" /\ phase' = phase /\ want = 0
          /\ msg.id = "piece" /\ msg.index = index /\ msg.block = downloaded
          /\ buf' = [buf EXCEPT ![downloaded] = <<index, downloaded>>]
          /\ downloaded' = downloaded + 1 /\ pc' = "request" /\ msg' = NULL
          /\ UNCHANGED <<index, failed_attempts, want, stored>>
      BY <1>12, <2>2 DEF UseMessage, Expected
    <3>2. index \in Pieces /\ downloaded < NumBlocks /\ downloaded \in Blocks
      BY <3>1 DEF AttemptState, ThreadTypes, Blocks
    <3>3. buf' \in Buffer
      BY <3>1, <3>2 DEF ThreadTypes, Buffer, Contents
    <3>4. \A b \in 0 .. downloaded' - 1 : buf'[b] = <<index', b>>
      BY <3>1, <3>2 DEF AttemptState, ThreadTypes, Buffer, Blocks
    <3>5. ThreadTypes'
      BY <3>1, <3>2, <3>3 DEF ThreadTypes, Blocks
    <3>6. AttemptState'
      BY <3>1, <3>2, <3>4 DEF AttemptState, ThreadTypes
    <3> QED
      BY <3>5, <3>6
  <2> QED
    BY <2>1, <2>2
<1> QED
  BY <1>1, <1>2, <1>3, <1>4, <1>5, <1>6, <1>7, <1>8, <1>9, <1>10, <1>11, <1>12 DEF Thread

\* What the peer, the network and a stutter do to it: nothing.
LEMMA OthersKeepAttempt ==
  ASSUME ThreadTypes, AttemptState, Speak \/ Serve \/ Chatter \/ Terminated \/ UNCHANGED vars
  PROVE  ThreadTypes' /\ AttemptState'
<1>1. UNCHANGED threadVars
  BY DEF Speak, Serve, Chatter, Terminated, vars, threadVars
<1> QED
  BY <1>1 DEF threadVars, ThreadTypes, AttemptState

\* The third message of the session is only owed once the thread has said that it
\* is interested.
DueState == due <= 2 \/ phase \in {"state", "download"}

AttemptInv == ThreadTypes /\ NetTypes /\ AttemptState /\ DueState

\* What every step does to the variables of the network.
LEMMA NetSteps ==
  ASSUME [Next]_vars
  PROVE  /\ peer_hash' = peer_hash /\ peer_bf' = peer_bf
         /\ faults' = faults \/ Fault
         /\ chatter' = chatter \/ Chatter
         /\ \/ spoken' = spoken /\ due' = due
            \/ Speak
            \/ spoken' = spoken /\ SendHandshake
            \/ spoken' = spoken /\ SendInterested
         /\ \/ sent' = sent \/ sent' = <<>> \/ Serve
            \/ SendRequest /\ \E q \in {Request, NULL} : sent' = Append(sent, q)
<1>1. CASE Thread
  BY <1>1 DEF Thread, SendHandshake, ReadHandshake, UseBitfield, SendInterested, UseState, TakePiece,
              Leave, SendRequest, Brought, FinishPiece, ReadHeader, ReadPayload, UseMessage, TimeOut,
              session, netVars
<1>2. CASE Speak \/ Serve \/ Chatter \/ Terminated \/ UNCHANGED vars
  BY <1>2 DEF Speak, Serve, Chatter, Terminated, vars, netVars
<1> QED
  BY <1>1, <1>2 DEF Next

\* Every phase but the first follows another one.
LEMMA PhaseSteps ==
  ASSUME AttemptState, [Next]_vars
  PROVE  \/ phase' = phase
         \/ phase = "handshake" /\ phase' = "bitfield" /\ ReadHandshake
         \/ phase' = "state" /\ SendInterested
         \/ phase = "state" /\ phase' = "download" /\ UseState
<1>1. CASE Thread /\ ~ReadHandshake
  BY <1>1 DEF Thread, SendHandshake, UseBitfield, SendInterested, UseState, TakePiece,
              Leave, SendRequest, FinishPiece, ReadHeader, ReadPayload, UseMessage,
              session, netVars
<1>2. CASE Speak \/ Serve \/ Chatter \/ Terminated \/ UNCHANGED vars
  BY <1>2 DEF Speak, Serve, Chatter, Terminated, vars, threadVars
<1>3. CASE ReadHandshake
  BY <1>3 DEF ReadHandshake, AttemptState
<1> QED
  BY <1>1, <1>2, <1>3 DEF Next

LEMMA AttemptStep ==
  ASSUME AttemptInv, [Next]_vars
  PROVE  AttemptInv'
<1> USE DEF AttemptInv
<1>1. ThreadTypes' /\ AttemptState'
  BY ThreadKeepsAttempt, OthersKeepAttempt DEF Next
<1>2. due' \in 0 .. 3 /\ spoken' \in 0 .. due' /\ DueState'
  <2>1. CASE spoken' = spoken /\ due' = due
    BY <2>1, PhaseSteps DEF NetTypes, DueState
  <2>2. CASE Speak
    <3>1. spoken' = spoken + 1 /\ due' = due /\ phase' = phase /\ spoken < due
      BY <2>2 DEF Speak, threadVars
    <3> QED
      BY <3>1 DEF NetTypes, DueState
  <2>3. CASE spoken' = spoken /\ SendHandshake
    <3>1. phase = "handshake" /\ (due' = 2 \/ due' = due) /\ phase' = phase
      BY <2>3 DEF SendHandshake, AttemptState
    <3> QED
      BY <2>3, <3>1 DEF NetTypes, DueState
  <2>4. CASE spoken' = spoken /\ SendInterested
    <3>1. (due' = 3 /\ phase' = "state") \/ (due' = due /\ phase' = phase)
      BY <2>4 DEF SendInterested
    <3> QED
      BY <2>4, <3>1 DEF NetTypes, DueState
  <2> QED
    BY <2>1, <2>2, <2>3, <2>4, NetSteps
<1>3. sent' \in Seq([index : Pieces, block : Blocks] \cup {NULL})
  <2>1. CASE sent' = sent \/ sent' = <<>>
    BY <2>1, EmptySeq DEF NetTypes
  <2>2. CASE Serve
    <3>1. PICK k \in DOMAIN sent : sent' = [j \in 1 .. Len(sent) - 1 |-> IF j < k THEN sent[j] ELSE sent[j + 1]]
      BY <2>2 DEF Serve
    <3> QED
      BY <3>1, RestOfRequests DEF NetTypes
  <2>3. CASE SendRequest /\ \E q \in {Request, NULL} : sent' = Append(sent, q)
    <3>1. index \in Pieces /\ downloaded \in Blocks
      BY <2>3, BlocksAreCounted DEF SendRequest, AttemptState, ThreadTypes, Blocks
    <3>2. Request \in [index : Pieces, block : Blocks]
      BY <3>1 DEF Request
    <3> QED
      BY <2>3, <3>2 DEF NetTypes
  <2> QED
    BY <2>1, <2>2, <2>3, NetSteps
<1>4. faults' \in 0 .. MaxFaults
  BY NetSteps, TransferAssumption DEF Fault, NetTypes
<1>5. chatter' \in 0 .. MaxChatter
  BY NetSteps, TransferAssumption DEF Chatter, NetTypes
<1>6. stream' \in Seq(Unit) /\ peer_hash' \in {"ours", "theirs"} /\ peer_bf' \subseteq Pieces
  BY StreamTyped, NetSteps DEF NetTypes
<1>7. NetTypes'
  BY <1>2, <1>3, <1>4, <1>5, <1>6 DEF NetTypes
<1> QED
  BY <1>1, <1>2, <1>7

LEMMA AttemptInit ==
  ASSUME Init
  PROVE  AttemptInv
<1>1. [b \in Blocks |-> NULL] \in Buffer
  BY DEF Buffer
<1>2. ThreadTypes
  BY <1>1, BlocksAreCounted, TransferAssumption DEF Init, ThreadTypes, MaxGarbage
<1>3. NetTypes
  BY TransferAssumption DEF Init, NetTypes, Pieces
<1>4. AttemptState /\ DueState
  BY DEF Init, AttemptState, DueState
<1> QED
  BY <1>2, <1>3, <1>4 DEF AttemptInv

\* What an attempt has accepted is in its place, by induction on the steps.
THEOREM AttemptInvCorrect == Spec => []AttemptInv
<1>1. Init => AttemptInv
  BY AttemptInit
<1>2. AttemptInv /\ [Next]_vars => AttemptInv'
  BY AttemptStep
<1> QED
  BY <1>1, <1>2, PTL DEF Spec

\* Every variable of the thread and of the network keeps its type: a request names
\* a piece and a block of it, and a thread never fails more often than it may.
THEOREM TypeCorrect == Spec => []TypeOK
<1>1. AttemptInv => TypeOK
  BY TypesApart DEF AttemptInv
<1> QED
  BY <1>1, AttemptInvCorrect, PTL

\* A buffer that is stored is full.
LEMMA StoreStep ==
  ASSUME AttemptInv, StoredBlocksAreRight, [Next]_vars
  PROVE  StoredBlocksAreRight'
<1> USE DEF AttemptInv
<1>1. CASE FinishPiece
  <2>1. /\ index \in Pieces /\ downloaded = NumBlocks
        /\ stored' = [stored EXCEPT ![index] = buf] /\ stored \in [Pieces -> Buffer \cup {NULL}]
    BY <1>1 DEF FinishPiece, AttemptState, ThreadTypes
  <2>2. \A b \in Blocks : buf[b] = <<index, b>>
    BY <2>1, BlocksAreCounted DEF AttemptState, Blocks
  <2>3. \A i \in Pieces : stored'[i] = IF i = index THEN buf ELSE stored[i]
    BY <2>1
  <2> QED
    BY <2>2, <2>3 DEF StoredBlocksAreRight
<1>2. CASE ~FinishPiece
  <2>1. stored' = stored
    <3>1. CASE Thread
      BY <1>2, <3>1 DEF Thread, SendHandshake, ReadHandshake, UseBitfield, SendInterested, UseState,
           TakePiece, Leave, SendRequest, ReadHeader, ParseHeader, ReadPayload, UseMessage,
           Fail, Quit, Retry
    <3>2. CASE Speak \/ Serve \/ Chatter \/ Terminated \/ UNCHANGED vars
      BY <3>2 DEF Speak, Serve, Chatter, Terminated, vars, threadVars
    <3> QED
      BY <3>1, <3>2 DEF Next
  <2> QED
    BY <2>1 DEF StoredBlocksAreRight
<1> QED
  BY <1>1, <1>2

\* Every block that add_piece is given is the block of its place, although answers
\* to the requests of attempts that failed arrive late and out of order.
THEOREM StoredBlocksCorrect == Spec => []StoredBlocksAreRight
<1>1. Init => StoredBlocksAreRight
  BY DEF Init, StoredBlocksAreRight
<1>2. AttemptInv /\ StoredBlocksAreRight /\ [Next]_vars => StoredBlocksAreRight'
  BY StoreStep
<1> QED
  BY <1>1, <1>2, AttemptInvCorrect, PTL DEF Spec
-------------------------------------------------------------------------------
(* The stream: whole messages, one after the other.                        *)

\* What it says of one unit.
LEMMA UnitAfter ==
  ASSUME stream \in Seq(Unit), WholeMessages, NEW k \in 1 .. Len(stream)
  PROVE  /\ stream[k].part < Size(stream[k].of) =>
              k < Len(stream) /\ stream[k + 1] = [stream[k] EXCEPT !.part = @ + 1]
         /\ ~(stream[k].part < Size(stream[k].of)) /\ k < Len(stream) => stream[k + 1].part = 1
<1>1. DOMAIN stream = 1 .. Len(stream)
  BY LenProperties
<1> QED
  BY <1>1 DEF WholeMessages

\* Whatever is received of a stream or added to it, its messages stay whole.
LEMMA StreamStaysWhole ==
  ASSUME NetTypes, WholeMessages, [Next]_vars
  PROVE  WholeMessages'
<1>1. stream \in Seq(Unit) /\ Len(stream) \in Nat
  BY LenProperties DEF NetTypes
<1>2. CASE stream' = stream
  BY <1>2 DEF WholeMessages
<1>3. CASE stream' = <<>>
  BY <1>3 DEF WholeMessages
<1>4. CASE Received
  <2>1. PICK k \in 1 .. Len(stream) : stream' = SubSeq(stream, k + 1, Len(stream))
    BY <1>4 DEF Received, Receive
  <2>2. /\ Len(stream') = Len(stream) - k /\ DOMAIN stream' = 1 .. Len(stream')
        /\ \A j \in 1 .. Len(stream') : stream'[j] = stream[j + k] /\ j + k \in 1 .. Len(stream)
    BY <1>1, <2>1, RestOfStream
  <2> SUFFICES ASSUME NEW j \in 1 .. Len(stream')
               PROVE  IF stream'[j].part < Size(stream'[j].of)
                      THEN j < Len(stream') /\ stream'[j + 1] = [stream'[j] EXCEPT !.part = @ + 1]
                      ELSE j < Len(stream') => stream'[j + 1].part = 1
    BY <2>2 DEF WholeMessages
  <2>3. stream'[j] = stream[j + k] /\ j + k \in 1 .. Len(stream)
    BY <1>1, <2>2
  <2>4. j < Len(stream') <=> j + k < Len(stream)
    BY <1>1, <2>2
  <2>5. j < Len(stream') => stream'[j + 1] = stream[(j + k) + 1]
    BY <1>1, <2>2
  <2> QED
    BY <1>1, <2>3, <2>4, <2>5, UnitAfter
<1>5. CASE Extended
  <2>1. PICK m \in Messages : stream' = stream \o Units(m)
    BY <1>5 DEF Extended
  <2>2. /\ stream' \in Seq(Unit) /\ Len(stream') = Len(stream) + Size(m) /\ Size(m) \in 1 .. 4
        /\ \A j \in 1 .. Len(stream') :
             stream'[j] = IF j <= Len(stream) THEN stream[j] ELSE [of |-> m, part |-> j - Len(stream)]
    BY <1>1, <2>1, LongerStream
  <2>3. DOMAIN stream' = 1 .. Len(stream')
    BY <2>2, LenProperties
  <2> SUFFICES ASSUME NEW j \in 1 .. Len(stream')
               PROVE  IF stream'[j].part < Size(stream'[j].of)
                      THEN j < Len(stream') /\ stream'[j + 1] = [stream'[j] EXCEPT !.part = @ + 1]
                      ELSE j < Len(stream') => stream'[j + 1].part = 1
    BY <2>3 DEF WholeMessages
  <2>4. CASE j < Len(stream)
    <3>1. j \in 1 .. Len(stream) /\ j + 1 \in 1 .. Len(stream') /\ j + 1 <= Len(stream) /\ j < Len(stream')
      BY <1>1, <2>2, <2>4
    <3>2. stream'[j] = stream[j] /\ stream'[j + 1] = stream[j + 1]
      BY <2>2, <2>4, <3>1
    <3> QED
      BY <1>1, <2>4, <3>1, <3>2, UnitAfter
  <2>5. CASE j = Len(stream)
    <3>1. j \in 1 .. Len(stream) /\ j + 1 \in 1 .. Len(stream') /\ ~(j + 1 <= Len(stream)) /\ (j + 1) - Len(stream) = 1
      BY <1>1, <2>2, <2>5
    <3>2. stream'[j] = stream[j] /\ stream'[j + 1] = [of |-> m, part |-> 1]
      BY <2>2, <2>5, <3>1
    <3>3. ~(stream[j].part < Size(stream[j].of))
      <4>1. stream[j].part < Size(stream[j].of) => j < Len(stream)
        BY <1>1, <3>1, UnitAfter
      <4> QED
        BY <1>1, <2>5, <4>1
    <3> QED
      BY <3>2, <3>3
  <2>6. CASE j > Len(stream)
    <3>1. stream'[j] = [of |-> m, part |-> j - Len(stream)]
      BY <1>1, <2>2, <2>6
    <3>2. CASE j < Len(stream')
      <4>1. /\ j + 1 \in 1 .. Len(stream') /\ ~(j + 1 <= Len(stream))
            /\ (j + 1) - Len(stream) = (j - Len(stream)) + 1 /\ j - Len(stream) < Size(m)
        BY <1>1, <2>2, <2>6, <3>2
      <4>2. stream'[j + 1] = [of |-> m, part |-> (j - Len(stream)) + 1]
        BY <2>2, <4>1
      <4> QED
        BY <3>1, <3>2, <4>1, <4>2
    <3>3. CASE ~(j < Len(stream'))
      <4>1. j - Len(stream) = Size(m) /\ Size(m) \in Nat
        BY <1>1, <2>2, <3>3
      <4> QED
        BY <3>1, <3>3, <4>1
    <3> QED
      BY <3>2, <3>3
  <2> QED
    BY <1>1, <2>2, <2>4, <2>5, <2>6
<1> QED
  BY <1>2, <1>3, <1>4, <1>5, StreamSteps

\* The units that follow the first one belong to its message as far as it goes.
LEMMA FirstMessage ==
  ASSUME stream \in Seq(Unit), WholeMessages, stream # <<>>
  PROVE  /\ 1 \in 1 .. Len(stream) /\ stream[1] \in Unit
         /\ stream[1].part < Size(stream[1].of) =>
              2 \in 1 .. Len(stream) /\ stream[2] = [of |-> stream[1].of, part |-> stream[1].part + 1]
         /\ stream[1].part + 1 < Size(stream[1].of) =>
              3 \in 1 .. Len(stream) /\ stream[3] = [of |-> stream[1].of, part |-> stream[1].part + 2]
<1>1. Len(stream) \in Nat /\ Len(stream) # 0
  BY LenProperties, EmptySeq
<1>2. stream[1] \in Unit
  BY <1>1, ElementOfSeq
<1> DEFINE m == stream[1].of
           p == stream[1].part
<1>3. m \in Messages /\ p \in Nat /\ Size(m) \in Nat /\ stream[1] = [of |-> m, part |-> p]
  BY <1>2, UnitTyped, SizeFacts
<1>4. ASSUME p < Size(m)
      PROVE  2 \in 1 .. Len(stream) /\ stream[2] = [of |-> m, part |-> p + 1]
  <2>1. 1 < Len(stream) /\ stream[2] = [stream[1] EXCEPT !.part = @ + 1]
    <3>1. 1 \in 1 .. Len(stream)
      BY <1>1
    <3>2. 1 < Len(stream) /\ stream[1 + 1] = [stream[1] EXCEPT !.part = @ + 1]
      BY <1>4, <3>1, UnitAfter
    <3> QED
      BY <3>2
  <2> QED
    BY <1>1, <1>3, <2>1
<1>5. ASSUME p + 1 < Size(m)
      PROVE  3 \in 1 .. Len(stream) /\ stream[3] = [of |-> m, part |-> p + 2]
  <2>1. p < Size(m)
    BY <1>3, <1>5
  <2>2. 2 \in 1 .. Len(stream) /\ stream[2] = [of |-> m, part |-> p + 1]
    BY <1>4, <2>1
  <2>3. 2 < Len(stream) /\ stream[3] = [stream[2] EXCEPT !.part = @ + 1]
    <3>1. stream[2].part < Size(stream[2].of)
      BY <1>5, <2>2
    <3>2. 2 < Len(stream) /\ stream[2 + 1] = [stream[2] EXCEPT !.part = @ + 1]
      BY <2>2, <3>1, UnitAfter
    <3> QED
      BY <3>2
  <2> QED
    BY <1>1, <1>3, <2>2, <2>3
<1> QED
  BY <1>1, <1>2, <1>4, <1>5

\* recv leaves the thread at a boundary if it has taken the last unit of a message,
\* and inside that message otherwise.
LEMMA AfterReceive ==
  ASSUME stream \in Seq(Unit), WholeMessages, NEW k \in 1 .. Len(stream), Receive(k)
  PROVE  /\ stream[k] \in Unit
         /\ stream[k].part = Size(stream[k].of) => AtBoundary'
         /\ stream[k].part < Size(stream[k].of) =>
              stream' # <<>> /\ stream'[1] = [of |-> stream[k].of, part |-> stream[k].part + 1]
<1>1. Len(stream) \in Nat /\ stream[k] \in Unit
  BY LenProperties, ElementOfSeq
<1>2. /\ stream' \in Seq(Unit) /\ Len(stream') = Len(stream) - k
      /\ \A j \in 1 .. Len(stream') : stream'[j] = stream[j + k]
  BY RestOfStream DEF Receive
<1>3. stream' # <<>> => k < Len(stream) /\ stream'[1] = stream[k + 1]
  <2>1. stream' # <<>> => Len(stream') # 0
    BY <1>2, EmptySeq
  <2> QED
    BY <1>1, <1>2, <2>1
<1>4. k < Len(stream) => stream' # <<>>
  BY <1>1, <1>2, EmptySeq
<1>5. stream[k].part \in Nat /\ Size(stream[k].of) \in Nat /\ stream[k] = [of |-> stream[k].of, part |-> stream[k].part]
  BY <1>1, UnitTyped, SizeFacts
<1>6. ASSUME stream[k].part = Size(stream[k].of)
      PROVE  AtBoundary'
  <2>1. k < Len(stream) => stream[k + 1].part = 1
    <3>1. ~(stream[k].part < Size(stream[k].of))
      BY <1>5, <1>6
    <3> QED
      BY <3>1, UnitAfter
  <2> QED
    BY <1>3, <2>1 DEF AtBoundary
<1>7. ASSUME stream[k].part < Size(stream[k].of)
      PROVE  stream' # <<>> /\ stream'[1] = [of |-> stream[k].of, part |-> stream[k].part + 1]
  <2>1. k < Len(stream) /\ stream[k + 1] = [stream[k] EXCEPT !.part = @ + 1]
    BY <1>1, <1>7, UnitAfter
  <2> QED
    BY <1>3, <1>4, <1>5, <2>1
<1> QED
  BY <1>1, <1>6, <1>7

\* What the peer adds does not change where the thread is in the stream.
LEMMA AfterExtension ==
  ASSUME stream \in Seq(Unit), Extended
  PROVE  /\ AtBoundary' <=> AtBoundary
         /\ stream' # <<>>
         /\ stream # <<>> => stream'[1] = stream[1]
<1>1. PICK m \in Messages : stream' = stream \o Units(m)
  BY DEF Extended
<1>2. /\ stream' \in Seq(Unit) /\ Len(stream') = Len(stream) + Size(m) /\ Size(m) \in 1 .. 4 /\ Len(stream) \in Nat
      /\ \A j \in 1 .. Len(stream') :
           stream'[j] = IF j <= Len(stream) THEN stream[j] ELSE [of |-> m, part |-> j - Len(stream)]
  BY <1>1, LongerStream
<1>3. stream' # <<>> /\ 1 \in 1 .. Len(stream')
  BY <1>2, EmptySeq
<1>4. stream'[1] = IF 1 <= Len(stream) THEN stream[1] ELSE [of |-> m, part |-> 1 - Len(stream)]
  BY <1>2, <1>3
<1>5. stream # <<>> => 1 <= Len(stream)
  BY <1>2, EmptySeq
<1>6. stream = <<>> => Len(stream) = 0
  BY EmptySeq
<1> QED
  BY <1>3, <1>4, <1>5, <1>6 DEF AtBoundary

\* Only two actions lead to a payload, or go on with one.
LEMMA PayloadSteps ==
  ASSUME NetTypes, [Next]_vars, pc' = "payload"
  PROVE  \/ ReadHeader /\ Receive(HeaderUnits) /\ ParseHeader(stream[1]) /\ ~Fail
         \/ ReadPayload /\ (\E k \in 1 .. want : Receive(k) /\ want' = want - k) /\ pc' = pc /\ msg' = msg
         \/ UNCHANGED <<pc, msg, want>> /\ (stream' = stream \/ Extended)
<1>1. ~Fail
  BY DEF Fail, Quit, Retry
<1>2. CASE ReadHeader \/ ReadPayload
  BY <1>1, <1>2 DEF ReadHeader, ReadPayload
<1>3. CASE Thread /\ ~ReadHeader /\ ~ReadPayload
  BY <1>1, <1>3 DEF Thread, SendHandshake, ReadHandshake, UseBitfield, SendInterested, UseState, TakePiece,
                    Leave, SendRequest, FinishPiece, UseMessage
<1>4. CASE Speak \/ Serve \/ Chatter
  BY <1>4, PeerExtends DEF Speak, Serve, Chatter, threadVars
<1>5. CASE Terminated \/ UNCHANGED vars
  BY <1>5 DEF Terminated, vars, threadVars, netVars
<1> QED
  BY <1>2, <1>3, <1>4, <1>5 DEF Next

\* After a header that was one, its payload is next; after the payload, a boundary.
LEMMA ReaderStep ==
  ASSUME AttemptInv, WholeMessages, ReaderState, [Next]_vars
  PROVE  ReaderState'
<1> USE DEF AttemptInv
<1> SUFFICES ASSUME pc' = "payload", msg' # Garbage
             PROVE  IF want' = 0 THEN AtBoundary'
                    ELSE /\ want' <= Size(msg') - HeaderUnits
                         /\ stream' # <<>> /\ stream'[1] = [of |-> msg', part |-> Size(msg') - want' + 1]
  BY DEF ReaderState
<1>1. stream \in Seq(Unit)
  BY DEF NetTypes
<1>2. CASE ReadHeader /\ Receive(HeaderUnits) /\ ParseHeader(stream[1]) /\ ~Fail
  <2> DEFINE m == stream[1].of
  <2>1. stream[1].part = 1 /\ m.id # "keep_alive" /\ msg' = m /\ want' = Size(m) - HeaderUnits
    BY <1>2 DEF ParseHeader
  <2>2. 2 \in 1 .. Len(stream) /\ Receive(2) /\ stream # <<>>
    BY <1>1, <1>2, EmptySeq DEF Receive, HeaderUnits
  <2>3. m \in Messages /\ Size(m) \in 2 .. 4
    <3>1. stream[1] \in Unit
      BY <1>1, <2>2, FirstMessage
    <3> QED
      BY <2>1, <3>1, UnitTyped, SizeFacts
  <2>4. stream[2] = [of |-> m, part |-> 2]
    <3>1. stream[1].part < Size(stream[1].of)
      BY <2>1, <2>3
    <3> QED
      BY <1>1, <2>1, <2>2, <3>1, FirstMessage
  <2>5. CASE Size(m) = 2
    <3>1. AtBoundary'
      <4>1. stream[2].part = Size(stream[2].of)
        BY <2>4, <2>5
      <4> QED
        BY <1>1, <2>2, <4>1, AfterReceive
    <3> QED
      BY <2>1, <2>5, <3>1 DEF HeaderUnits
  <2>6. CASE Size(m) # 2
    <3>1. stream' # <<>> /\ stream'[1] = [of |-> m, part |-> 3]
      <4>1. stream[2].part < Size(stream[2].of)
        BY <2>3, <2>4, <2>6
      <4> QED
        BY <1>1, <2>2, <2>4, <4>1, AfterReceive
    <3>2. want' # 0 /\ Size(m) - want' + 1 = 3 /\ want' <= Size(m) - HeaderUnits
      BY <2>1, <2>3, <2>6 DEF HeaderUnits
    <3> QED
      BY <2>1, <3>1, <3>2
  <2> QED
    BY <2>5, <2>6
<1>3. CASE ReadPayload /\ (\E k \in 1 .. want : Receive(k) /\ want' = want - k) /\ pc' = pc /\ msg' = msg
  <2>1. PICK k \in 1 .. want : Receive(k) /\ want' = want - k
    BY <1>3
  <2>2. msg \in Messages /\ Size(msg) \in 1 .. 4 /\ want \in Nat
    <3>1. msg \in Messages /\ want \in Nat
      BY <1>3 DEF AttemptState, ThreadTypes
    <3> QED
      BY <3>1, SizeFacts
  <2>3. /\ want <= Size(msg) - 2 /\ stream # <<>>
        /\ stream[1] = [of |-> msg, part |-> Size(msg) - want + 1]
    BY <1>3, <2>1 DEF ReaderState, HeaderUnits
  <2>4. want \in 1 .. 2 /\ k \in 1 .. 2 /\ k \in 1 .. Len(stream)
    BY <2>1, <2>2, <2>3 DEF Receive
  <2>5. stream[k] = [of |-> msg, part |-> Size(msg) - want + k]
    <3>1. CASE k = 1
      BY <2>3, <3>1
    <3>2. CASE k = 2
      <4>1. want = 2
        BY <2>1, <2>4, <3>2
      <4>2. stream[1].part < Size(stream[1].of)
        BY <2>2, <2>3, <4>1
      <4>3. stream[2] = [of |-> stream[1].of, part |-> stream[1].part + 1]
        BY <1>1, <2>3, <4>2, FirstMessage
      <4>4. Size(msg) - want + 1 + 1 = Size(msg) - want + 2
        BY <2>2, <2>4
      <4> QED
        BY <2>3, <3>2, <4>3, <4>4
    <3> QED
      BY <2>4, <3>1, <3>2
  <2>6. CASE k = want
    <3>1. stream[k].part = Size(stream[k].of)
      BY <2>2, <2>4, <2>5, <2>6
    <3>2. AtBoundary'
      BY <1>1, <2>1, <2>4, <3>1, AfterReceive
    <3> QED
      BY <2>1, <2>4, <2>6, <3>2
  <2>7. CASE k # want
    <3>1. stream[k].part < Size(stream[k].of)
      BY <2>1, <2>2, <2>4, <2>5, <2>7
    <3>2. stream' # <<>> /\ stream'[1] = [of |-> msg, part |-> (Size(msg) - want + k) + 1]
      BY <1>1, <2>1, <2>4, <2>5, <3>1, AfterReceive
    <3>3. want' # 0 /\ want' <= Size(msg) - HeaderUnits /\ (Size(msg) - want + k) + 1 = Size(msg) - want' + 1
      BY <2>1, <2>2, <2>3, <2>4, <2>7 DEF HeaderUnits
    <3> QED
      BY <1>3, <3>2, <3>3
  <2> QED
    BY <2>6, <2>7
<1>4. CASE UNCHANGED <<pc, msg, want>> /\ (stream' = stream \/ Extended)
  <2>1. AtBoundary => AtBoundary'
    BY <1>1, <1>4, AfterExtension DEF AtBoundary
  <2>2. stream # <<>> => stream' # <<>> /\ stream'[1] = stream[1]
    BY <1>1, <1>4, AfterExtension
  <2> QED
    BY <1>4, <2>1, <2>2 DEF ReaderState
<1> QED
  BY <1>2, <1>3, <1>4, PayloadSteps

\* A block is only accepted at a boundary.
LEMMA AlignedStep ==
  ASSUME AttemptInv, WholeMessages, ReaderState, AlignedAfterBlock, [Next]_vars
  PROVE  AlignedAfterBlock'
<1> USE DEF AttemptInv
<1> SUFFICES ASSUME pc' = "request", downloaded' > 0
             PROVE  AtBoundary'
  BY DEF AlignedAfterBlock, AtBoundary
<1>1. stream \in Seq(Unit)
  BY DEF NetTypes
<1>2. ~Fail
  BY DEF Fail, Quit, Retry
<1>3. CASE UNCHANGED <<pc, downloaded>> /\ (stream' = stream \/ Extended)
  <2>1. AtBoundary
    BY <1>3 DEF AlignedAfterBlock, AtBoundary
  <2> QED
    BY <1>1, <1>3, <2>1, AfterExtension DEF AtBoundary
<1>4. CASE TakePiece
  <2>1. index = NULL /\ downloaded = 0 /\ downloaded' = downloaded
    BY <1>4 DEF TakePiece, AttemptState
  <2> QED
    BY <2>1
<1>5. CASE UseMessage
  <2>1. pc = "payload" /\ want = 0 /\ msg.id = "piece" /\ stream' = stream
    BY <1>2, <1>5 DEF UseMessage, Expected, netVars
  <2>2. msg # Garbage
    BY <2>1, MessageFacts
  <2> QED
    BY <2>1, <2>2 DEF ReaderState, AtBoundary
<1>6. CASE Thread /\ ~TakePiece /\ ~UseMessage
  BY <1>2, <1>6 DEF Thread, SendHandshake, ReadHandshake, UseBitfield, SendInterested, UseState,
                    Leave, SendRequest, FinishPiece, ReadHeader, ParseHeader, ReadPayload
<1>7. CASE Speak \/ Serve \/ Chatter
  <2>1. UNCHANGED <<pc, downloaded>>
    BY <1>7 DEF Speak, Serve, Chatter, threadVars
  <2> QED
    BY <1>3, <1>7, <2>1, PeerExtends
<1>8. CASE Terminated \/ UNCHANGED vars
  BY <1>3, <1>8 DEF Terminated, vars, threadVars, netVars
<1> QED
  BY <1>4, <1>5, <1>6, <1>7, <1>8 DEF Next

StreamInv == WholeMessages /\ ReaderState /\ AlignedAfterBlock

LEMMA StreamInit ==
  ASSUME Init
  PROVE  StreamInv
BY DEF Init, StreamInv, WholeMessages, ReaderState, AlignedAfterBlock

\* The stream is whole at every step, the payload being read is at its head, and once
\* a block is accepted the thread is at a boundary again.
THEOREM StreamInvCorrect == Spec => []StreamInv
<1>1. Init => StreamInv
  BY StreamInit
<1>2. AttemptInv /\ StreamInv /\ [Next]_vars => StreamInv'
  BY StreamStaysWhole, ReaderStep, AlignedStep DEF StreamInv, AttemptInv
<1> QED
  BY <1>1, <1>2, AttemptInvCorrect, PTL DEF Spec

\* An accepted block leaves the thread at a message boundary, whatever the attempts
\* before it have left in the stream.
THEOREM AlignedCorrect == Spec => []AlignedAfterBlock
<1>1. StreamInv => AlignedAfterBlock
  BY DEF StreamInv
<1> QED
  BY <1>1, StreamInvCorrect, PTL
-------------------------------------------------------------------------------
(* The session: what has been said, what of it has been read.              *)

SessionOnce ==
  \A j, k \in DOMAIN stream :
    stream[j] = stream[k] /\ stream[j].of.id \in Range(SessionMessages) => j = k
UnreadIsSaid == \A n \in 1 .. 3 : Unread(n) => Said(n)

\* The units of a session message that has been said are those that were in the
\* stream before, at the same place if nothing has been received.
NothingSaidAgain ==
  \A n \in 1 .. 3 : Said(n) =>
    /\ Said(n)'
    /\ Unread(n)' => Unread(n)
    /\ Extended => \A k \in DOMAIN stream' :
         stream'[k].of.id = SessionMessages[n] => k \in DOMAIN stream /\ stream'[k] = stream[k]

\* LongerStream, for the stream.
LEMMA ExtendedBy ==
  ASSUME stream \in Seq(Unit), NEW m \in Messages, stream' = stream \o Units(m)
  PROVE  /\ stream' \in Seq(Unit) /\ Len(stream') = Len(stream) + Size(m) /\ Size(m) \in 1 .. 4
         /\ \A j \in 1 .. Len(stream') :
              stream'[j] = IF j <= Len(stream) THEN stream[j] ELSE [of |-> m, part |-> j - Len(stream)]
BY LongerStream

\* A step that adds no message of the session keeps what is known of the stream.
LEMMA QuietSteps ==
  ASSUME stream \in Seq(Unit), SessionOnce, UnreadIsSaid, spoken' = spoken,
         stream' = stream \/ stream' = <<>> \/ Received \/ Quietly
  PROVE  SessionOnce' /\ UnreadIsSaid' /\ NothingSaidAgain
<1>1. DOMAIN stream = 1 .. Len(stream) /\ Len(stream) \in Nat
  BY LenProperties
<1>2. Said(1)' = Said(1) /\ Said(2)' = Said(2) /\ Said(3)' = Said(3)
  BY DEF Said
<1>3. CASE stream' = stream
  <2>1. \A n \in 1 .. 3 : Unread(n)' <=> Unread(n)
    BY <1>3 DEF Unread
  <2> QED
    BY <1>3, <2>1 DEF SessionOnce, UnreadIsSaid, NothingSaidAgain, Said
<1>4. CASE stream' = <<>>
  <2>1. DOMAIN stream' = {}
    BY <1>4
  <2> QED
    BY <2>1 DEF SessionOnce, UnreadIsSaid, NothingSaidAgain, Unread, Said
<1>5. CASE Received
  <2>1. PICK k \in 1 .. Len(stream) : stream' = SubSeq(stream, k + 1, Len(stream))
    BY <1>5 DEF Received, Receive
  <2>2. /\ stream' \in Seq(Unit) /\ Len(stream') = Len(stream) - k /\ DOMAIN stream' = 1 .. Len(stream')
        /\ \A j \in 1 .. Len(stream') : stream'[j] = stream[j + k] /\ j + k \in 1 .. Len(stream)
    BY <2>1, RestOfStream
  <2>3. \A n \in 1 .. 3 : Unread(n)' => Unread(n)
    BY <1>1, <2>2 DEF Unread
  <2>4. SessionOnce'
    <3> SUFFICES ASSUME NEW i \in 1 .. Len(stream'), NEW j \in 1 .. Len(stream'),
                        stream'[i] = stream'[j], stream'[i].of.id \in Range(SessionMessages)
                 PROVE  i = j
      BY <2>2 DEF SessionOnce
    <3>1. stream[i + k] = stream[j + k] /\ i + k \in DOMAIN stream /\ j + k \in DOMAIN stream
      BY <1>1, <2>2
    <3>2. stream[i + k].of.id \in Range(SessionMessages)
      BY <2>2
    <3>3. i + k = j + k
      BY <3>1, <3>2 DEF SessionOnce
    <3> QED
      BY <2>2, <3>3
  <2>5. ~Extended
    <3> SUFFICES ASSUME Extended
                 PROVE  FALSE
      OBVIOUS
    <3>1. PICK m \in Messages : stream' = stream \o Units(m)
      BY DEF Extended
    <3>2. Len(stream') = Len(stream) + Size(m) /\ Size(m) \in 1 .. 4
      BY <3>1, LongerStream
    <3> QED
      BY <1>1, <2>2, <3>2
  <2> QED
    BY <2>3, <2>4, <2>5 DEF UnreadIsSaid, NothingSaidAgain, Said
<1>6. CASE Quietly
  <2>1. PICK m \in Messages : m.id \notin Range(SessionMessages) /\ stream' = stream \o Units(m)
    BY <1>6 DEF Quietly
  <2>2. /\ stream' \in Seq(Unit) /\ Len(stream') = Len(stream) + Size(m) /\ Size(m) \in 1 .. 4
        /\ \A j \in 1 .. Len(stream') :
             stream'[j] = IF j <= Len(stream) THEN stream[j] ELSE [of |-> m, part |-> j - Len(stream)]
    BY <2>1, ExtendedBy
  <2>3. DOMAIN stream' = 1 .. Len(stream')
    BY <2>2, LenProperties
  <2>4. \A j \in DOMAIN stream' :
          stream'[j].of.id \in Range(SessionMessages) => j \in DOMAIN stream /\ stream'[j] = stream[j]
    <3> SUFFICES ASSUME NEW j \in 1 .. Len(stream'), stream'[j].of.id \in Range(SessionMessages)
                 PROVE  j \in 1 .. Len(stream) /\ stream'[j] = stream[j]
      BY <1>1, <2>3
    <3>1. ~(j <= Len(stream)) => stream'[j].of = m
      BY <2>2
    <3>2. j <= Len(stream)
      BY <2>1, <3>1
    <3> QED
      BY <1>1, <2>2, <3>2
  <2>5. SessionOnce'
    BY <2>4 DEF SessionOnce
  <2>6. \A n \in 1 .. 3 : SessionMessages[n] \in Range(SessionMessages)
    BY SessionFacts
  <2>7. \A n \in 1 .. 3 : Unread(n)' => Unread(n)
    BY <2>4, <2>6 DEF Unread
  <2> QED
    BY <2>4, <2>5, <2>6, <2>7 DEF UnreadIsSaid, NothingSaidAgain, Said
<1> QED
  BY <1>3, <1>4, <1>5, <1>6

\* The next message of the session is none of those that have been said.
LEMMA LoudStep ==
  ASSUME stream \in Seq(Unit), SessionOnce, UnreadIsSaid, Speak, Loudly, spoken \in Nat
  PROVE  SessionOnce' /\ UnreadIsSaid' /\ NothingSaidAgain
<1> DEFINE m == Other(SessionMessages[spoken + 1])
<1>1. DOMAIN stream = 1 .. Len(stream) /\ Len(stream) \in Nat
  BY LenProperties
<1>2. spoken' = spoken + 1 /\ spoken + 1 \in 1 .. 3 /\ m \in Messages /\ stream' = stream \o Units(m)
  BY DEF Speak, Loudly
<1>3. m.id = SessionMessages[spoken + 1]
  BY DEF Other
<1>4. /\ stream' \in Seq(Unit) /\ Len(stream') = Len(stream) + Size(m) /\ Size(m) \in 1 .. 4
      /\ \A j \in 1 .. Len(stream') :
           stream'[j] = IF j <= Len(stream) THEN stream[j] ELSE [of |-> m, part |-> j - Len(stream)]
  BY <1>2, LongerStream
<1>5. DOMAIN stream' = 1 .. Len(stream')
  BY <1>4, LenProperties
<1>6. \A j \in DOMAIN stream' :
        \/ j \in DOMAIN stream /\ stream'[j] = stream[j]
        \/ stream'[j] = [of |-> m, part |-> j - Len(stream)]
  BY <1>1, <1>4, <1>5
<1>7. ~Unread(spoken + 1)
  BY <1>2 DEF UnreadIsSaid, Said
<1>8. \A j \in DOMAIN stream : stream[j].of.id # m.id
  BY <1>3, <1>7 DEF Unread
<1>9. \A n \in 1 .. 3 : Said(n) => Said(n)' /\ SessionMessages[n] # m.id
  <2> SUFFICES ASSUME NEW n \in 1 .. 3, n <= spoken
               PROVE  n <= spoken' /\ SessionMessages[n] # m.id
    BY DEF Said
  <2>1. n # spoken + 1 /\ n <= spoken'
    BY <1>2
  <2>2. SessionMessages[n] # SessionMessages[spoken + 1]
    BY <1>2, <2>1, SessionFacts
  <2> QED
    BY <1>3, <2>1, <2>2
<1>10. SessionOnce'
  <2> SUFFICES ASSUME NEW i \in DOMAIN stream', NEW j \in DOMAIN stream',
                      stream'[i] = stream'[j], stream'[i].of.id \in Range(SessionMessages)
               PROVE  i = j
    BY DEF SessionOnce
  <2>1. CASE i \in DOMAIN stream /\ stream'[i] = stream[i] /\ j \in DOMAIN stream /\ stream'[j] = stream[j]
    BY <2>1 DEF SessionOnce
  <2>2. CASE stream'[i] = [of |-> m, part |-> i - Len(stream)] /\ stream'[j] = [of |-> m, part |-> j - Len(stream)]
    <3>1. \A a, x, y : [of |-> a, part |-> x] = [of |-> a, part |-> y] => x = y
      <4> SUFFICES ASSUME NEW a, NEW x, NEW y, [of |-> a, part |-> x] = [of |-> a, part |-> y]
                   PROVE  x = y
        OBVIOUS
      <4> QED
        BY [of |-> a, part |-> x].part = [of |-> a, part |-> y].part
    <3>2. [of |-> m, part |-> i - Len(stream)] = [of |-> m, part |-> j - Len(stream)]
      BY <2>2
    <3>3. i - Len(stream) = j - Len(stream)
      BY <3>1, <3>2
    <3> QED
      BY <1>1, <1>4, <1>5, <3>3
  <2>3. CASE stream'[i] = [of |-> m, part |-> i - Len(stream)] /\ j \in DOMAIN stream /\ stream'[j] = stream[j]
    <3>1. stream'[i].of = m
      BY <2>3
    <3>2. stream[j].of = m
      BY <2>3, <3>1
    <3> QED
      BY <1>8, <2>3, <3>2
  <2>4. CASE stream'[j] = [of |-> m, part |-> j - Len(stream)] /\ i \in DOMAIN stream /\ stream'[i] = stream[i]
    <3>1. stream'[j].of = m
      BY <2>4
    <3>2. stream[i].of = m
      BY <2>4, <3>1
    <3> QED
      BY <1>8, <2>4, <3>2
  <2> QED
    BY <1>6, <2>1, <2>2, <2>3, <2>4
<1>11. UnreadIsSaid'
  <2> SUFFICES ASSUME NEW n \in 1 .. 3, NEW j \in DOMAIN stream', stream'[j].of.id = SessionMessages[n]
               PROVE  n <= spoken'
    BY DEF UnreadIsSaid, Said, Unread
  <2>1. CASE j \in DOMAIN stream /\ stream'[j] = stream[j]
    <3>1. Said(n)
      BY <2>1 DEF UnreadIsSaid, Unread
    <3> QED
      BY <1>2, <3>1 DEF Said
  <2>2. CASE stream'[j] = [of |-> m, part |-> j - Len(stream)]
    <3>1. SessionMessages[n] = SessionMessages[spoken + 1]
      BY <1>3, <2>2
    <3>2. n = spoken + 1
      BY <1>2, <3>1, SessionFacts
    <3> QED
      BY <1>2, <3>2
  <2> QED
    BY <1>6, <2>1, <2>2
<1>12. ASSUME NEW n \in 1 .. 3, Said(n), NEW j \in DOMAIN stream', stream'[j].of.id = SessionMessages[n]
       PROVE  j \in DOMAIN stream /\ stream'[j] = stream[j]
  BY <1>6, <1>9, <1>12
<1>13. NothingSaidAgain
  BY <1>9, <1>12 DEF NothingSaidAgain, Unread
<1> QED
  BY <1>10, <1>11, <1>13

\* What each phase knows of the session.
GreetState ==
  phase = "handshake" /\ pc # "left" =>
    \/ spoken = 0 /\ stream = <<>>
    \/ Said(1) /\ stream # <<>> /\ stream[1] = [of |-> Other("handshake"), part |-> 1]
BitfieldState ==
  /\ phase = "bitfield" /\ pc = "header" => (peer_hash = "ours" /\ Read(1)) \/ ~AtBoundary
  /\ phase = "bitfield" /\ pc = "payload" =>
       \/ msg = Garbage
       \/ /\ peer_hash = "ours" /\ Read(1)
          /\ msg.id = "bitfield" =>
               Said(2) /\ \A k \in DOMAIN stream : stream[k].of.id = "bitfield" => k <= want
InterestState ==
  /\ phase = "state" \/ pc = "interested" => peer_hash = "ours" /\ Read(1) /\ Read(2)
  /\ phase = "state" /\ pc = "payload" /\ msg.id = "unchoke" => Read(3)
AskedInLoop == phase # "download" => sent = <<>>
DownloadState ==
  phase = "download" /\ pc # "left" => peer_hash = "ours" /\ Read(1) /\ Read(2) /\ Read(3)

LEMMA SessionParts ==
  SessionState <=> /\ UnreadIsSaid /\ SessionOnce /\ DueState /\ AskedInLoop
                   /\ GreetState /\ BitfieldState /\ InterestState
BY DEF SessionState, UnreadIsSaid, SessionOnce, DueState, AskedInLoop, GreetState, BitfieldState, InterestState

\* Every step keeps the messages of the session apart.
LEMMA SessionStreamStep ==
  ASSUME AttemptInv, UnreadIsSaid, SessionOnce, [Next]_vars
  PROVE  UnreadIsSaid' /\ SessionOnce' /\ NothingSaidAgain
<1>1. stream \in Seq(Unit) /\ spoken \in Nat
  BY DEF AttemptInv, NetTypes
<1>2. CASE Speak
  BY <1>1, <1>2, PeerExtends, LoudStep DEF AttemptInv
<1>3. CASE Serve \/ Chatter
  <2>1. Quietly /\ spoken' = spoken
    <3>1. spoken' = spoken
      BY <1>3 DEF Serve, Chatter
    <3>2. ~Speak
      BY <1>1, <3>1 DEF Speak
    <3> QED
      BY <1>3, <3>1, <3>2, PeerExtends DEF AttemptInv
  <2> QED
    BY <1>1, <2>1, QuietSteps
<1>4. CASE Thread \/ Terminated \/ UNCHANGED vars
  <2>1. spoken' = spoken /\ (stream' = stream \/ stream' = <<>> \/ Received)
    BY <1>4 DEF Thread, SendHandshake, ReadHandshake, UseBitfield, SendInterested, UseState, TakePiece,
                Leave, SendRequest, FinishPiece, ReadHeader, ReadPayload, UseMessage, TimeOut, Receive,
                Received, Terminated, netVars, session, vars
  <2> QED
    BY <1>1, <2>1, QuietSteps
<1> QED
  BY <1>2, <1>3, <1>4 DEF Next

\* What has been read stays read.
LEMMA ReadStays ==
  ASSUME NothingSaidAgain
  PROVE  (Read(1) => Read(1)') /\ (Read(2) => Read(2)') /\ (Read(3) => Read(3)')
<1>1. \A n \in 1 .. 3 : Said(n) => Said(n)' /\ (Unread(n)' => Unread(n))
  BY DEF NothingSaidAgain
<1> QED
  BY <1>1 DEF Read

\* The peer speaks while the thread is where it is.
LEMMA PeerKeepsSession ==
  ASSUME AttemptInv, SessionState, NothingSaidAgain,
         Speak \/ Serve \/ Chatter \/ Terminated \/ UNCHANGED vars
  PROVE  GreetState' /\ BitfieldState' /\ InterestState' /\ AskedInLoop'
<1> USE DEF AttemptInv
<1>1. UNCHANGED <<pc, phase, msg, want>> /\ peer_hash' = peer_hash
  BY DEF Speak, Serve, Chatter, Terminated, vars, threadVars, netVars
<1>2. stream \in Seq(Unit) /\ spoken \in Nat
  BY DEF NetTypes
<1>3. stream' = stream \/ Extended
  BY PeerExtends DEF Terminated, vars, netVars
<1>4. AskedInLoop'
  <2>1. sent' = sent \/ Serve
    BY DEF Speak, Chatter, Terminated, vars, netVars
  <2>2. Serve => sent # <<>>
    BY DEF Serve
  <2> QED
    BY <1>1, <2>1, <2>2 DEF SessionState, AskedInLoop
<1>5. GreetState'
  <2> SUFFICES ASSUME phase = "handshake", pc # "left"
               PROVE  \/ spoken' = 0 /\ stream' = <<>>
                      \/ Said(1)' /\ stream' # <<>> /\ stream'[1] = [of |-> Other("handshake"), part |-> 1]
    BY <1>1 DEF GreetState
  <2>1. CASE Said(1) /\ stream # <<>> /\ stream[1] = [of |-> Other("handshake"), part |-> 1]
    <3>1. stream' # <<>> /\ stream'[1] = stream[1]
      BY <1>2, <1>3, <2>1, AfterExtension
    <3> QED
      BY <2>1, <3>1 DEF NothingSaidAgain
  <2>2. CASE spoken = 0 /\ stream = <<>>
    <3>1. ~Serve
      BY DEF SessionState, Serve
    <3>2. ~Chatter
      BY <2>2 DEF Chatter
    <3>3. CASE Speak
      <4>1. Loudly /\ spoken' = 1
        BY <2>2, <3>3, PeerExtends DEF Speak
      <4>2. Other("handshake") \in Messages /\ stream' = stream \o Units(Other("handshake"))
        BY <2>2, <4>1, SessionFacts DEF Loudly
      <4>3. /\ Len(stream') = Len(stream) + Size(Other("handshake")) /\ Size(Other("handshake")) \in 1 .. 4
            /\ \A j \in 1 .. Len(stream') :
                 stream'[j] = IF j <= Len(stream) THEN stream[j]
                              ELSE [of |-> Other("handshake"), part |-> j - Len(stream)]
        BY <1>2, <4>2, ExtendedBy
      <4>4. Len(stream) = 0
        BY <2>2
      <4>5. 1 \in 1 .. Len(stream')
        BY <4>3, <4>4
      <4>6. stream'[1] = [of |-> Other("handshake"), part |-> 1]
        BY <4>3, <4>4, <4>5
      <4>7. stream' # <<>>
        BY <4>5
      <4> QED
        BY <4>1, <4>6, <4>7 DEF Said
    <3>4. CASE Terminated \/ UNCHANGED vars
      BY <2>2, <3>4 DEF Terminated, vars, netVars
    <3> QED
      BY <3>1, <3>2, <3>3, <3>4
  <2> QED
    BY <2>1, <2>2 DEF SessionState
<1>6. BitfieldState'
  <2>1. AtBoundary' <=> AtBoundary
    BY <1>2, <1>3, AfterExtension DEF AtBoundary
  <2>2. phase = "bitfield" /\ pc = "header" => (peer_hash = "ours" /\ Read(1)') \/ ~AtBoundary'
    BY <2>1, ReadStays DEF SessionState
  <2>3. ASSUME phase = "bitfield", pc = "payload", msg # Garbage
        PROVE  /\ peer_hash = "ours" /\ Read(1)'
               /\ msg.id = "bitfield" =>
                    Said(2)' /\ \A k \in DOMAIN stream' : stream'[k].of.id = "bitfield" => k <= want
    <3>1. peer_hash = "ours" /\ Read(1)'
      BY <2>3, ReadStays DEF SessionState
    <3>2. ASSUME msg.id = "bitfield"
          PROVE  Said(2)' /\ \A k \in DOMAIN stream' : stream'[k].of.id = "bitfield" => k <= want
      <4>1. Said(2) /\ \A k \in DOMAIN stream : stream[k].of.id = "bitfield" => k <= want
        BY <2>3, <3>2 DEF SessionState
      <4>2. Said(2)'
        BY <4>1 DEF NothingSaidAgain
      <4>3. \A k \in DOMAIN stream' : stream'[k].of.id = "bitfield" => k \in DOMAIN stream /\ stream'[k] = stream[k]
        BY <1>3, <4>1, SessionFacts DEF NothingSaidAgain
      <4> QED
        BY <4>1, <4>2, <4>3
    <3> QED
      BY <3>1, <3>2
  <2> QED
    BY <1>1, <2>2, <2>3 DEF BitfieldState
<1>7. InterestState'
  BY <1>1, ReadStays DEF SessionState, InterestState
<1> QED
  BY <1>4, <1>5, <1>6, <1>7

\* A message of the session that has been received in full is no longer in the stream.
LEMMA OutOfStream ==
  ASSUME stream \in Seq(Unit), SessionOnce, NEW k \in 1 .. Len(stream), Receive(k),
         NEW m \in Messages, m.id \in Range(SessionMessages),
         \A p \in 1 .. Size(m) : \E i \in 1 .. k : stream[i] = [of |-> m, part |-> p]
  PROVE  \A j \in DOMAIN stream' : stream'[j].of.id # m.id
<1>1. /\ Len(stream') = Len(stream) - k /\ DOMAIN stream' = 1 .. Len(stream')
      /\ \A j \in 1 .. Len(stream') : stream'[j] = stream[j + k] /\ j + k \in 1 .. Len(stream)
  BY RestOfStream DEF Receive
<1>2. DOMAIN stream = 1 .. Len(stream) /\ Len(stream) \in Nat
  BY LenProperties
<1> SUFFICES ASSUME NEW j \in 1 .. Len(stream'), stream'[j].of.id = m.id
             PROVE  FALSE
  BY <1>1
<1>3. stream[j + k] \in Unit /\ stream[j + k].of.id = m.id /\ j + k \in 1 .. Len(stream)
  BY <1>1, ElementOfSeq
<1>4. stream[j + k].of = m
  <2>1. stream[j + k].of \in Messages
    BY <1>3, UnitTyped
  <2>2. m.id \in Ids
    BY SessionFacts DEF Ids
  <2> QED
    BY <1>3, <2>1, <2>2, MessageFacts
<1>5. PICK p \in 1 .. Size(m) : stream[j + k] = [of |-> m, part |-> p]
  BY <1>3, <1>4, UnitTyped
<1>6. PICK i \in 1 .. k : stream[i] = [of |-> m, part |-> p]
  BY <1>5
<1>7. i \in DOMAIN stream /\ j + k \in DOMAIN stream /\ stream[i] = stream[j + k] /\ stream[i].of.id \in Range(SessionMessages)
  BY <1>2, <1>3, <1>5, <1>6
<1>8. i = j + k
  BY <1>7 DEF SessionOnce
<1> QED
  BY <1>1, <1>2, <1>8

\* Requests are only made in the loop.
LEMMA AskedStep ==
  ASSUME AttemptInv, AskedInLoop, [Next]_vars
  PROVE  AskedInLoop'
<1> SUFFICES ASSUME phase' # "download"
             PROVE  sent' = <<>>
  BY DEF AskedInLoop
<1>1. phase # "download"
  BY PhaseSteps DEF AttemptInv, SendInterested, AttemptState
<1>2. sent = <<>>
  BY <1>1 DEF AskedInLoop
<1>3. ~Serve
  BY <1>2 DEF Serve
<1>4. ~SendRequest
  BY <1>1 DEF SendRequest, AttemptInv, AttemptState
<1> QED
  BY <1>2, <1>3, <1>4, NetSteps

\* A failure says nothing new of the session.
LEMMA FailKeepsSession ==
  ASSUME AttemptInv, SessionState, NothingSaidAgain, Fail, phase' = phase, peer_hash' = peer_hash
  PROVE  GreetState' /\ BitfieldState' /\ InterestState'
<1>1. pc' = "left" \/ (pc' = "loop" /\ phase = "download")
  BY DEF Fail, Quit, Retry
<1>2. GreetState' /\ BitfieldState'
  BY <1>1 DEF GreetState, BitfieldState
<1>3. InterestState'
  BY <1>1, ReadStays DEF SessionState, InterestState
<1> QED
  BY <1>2, <1>3

\* The handshake: decoded in full it is the one of this torrent, and all of it has been
\* read; decoded too early it leaves the thread inside of it.
LEMMA HandshakeKeepsSession ==
  ASSUME AttemptInv, WholeMessages, SessionState, NothingSaidAgain, ReadHandshake
  PROVE  GreetState' /\ BitfieldState' /\ InterestState'
<1> USE DEF AttemptInv
<1>1. CASE Fail /\ UNCHANGED phase
  BY <1>1, FailKeepsSession DEF ReadHandshake
<1>2. CASE ~(Fail /\ UNCHANGED phase)
  <2> DEFINE m == Other("handshake")
  <2>1. PICK k \in 1 .. 3 : Receive(k) /\ SameHash(k) /\ pc' = "header" /\ phase' = "bitfield" /\ peer_hash' = peer_hash
    BY <1>2 DEF ReadHandshake, HandshakeUnits
  <2>2. stream \in Seq(Unit) /\ k \in 1 .. Len(stream) /\ stream # <<>>
    BY <2>1, EmptySeq DEF NetTypes, Receive
  <2>3. Said(1) /\ stream[1] = [of |-> m, part |-> 1]
    BY <1>2, <2>2 DEF ReadHandshake, SessionState, AttemptState
  <2>4. m \in Messages /\ m.id = "handshake" /\ Size(m) = 3
    BY MessageFacts, SizeFacts DEF Ids
  <2> HIDE DEF m
  <2>5. stream[2] = [of |-> m, part |-> 2] /\ stream[3] = [of |-> m, part |-> 3]
    <3>1. stream[1].of = m /\ stream[1].part = 1
      BY <2>3
    <3> QED
      BY <2>2, <2>4, <3>1, FirstMessage
  <2>6. CASE k = 3
    <3>1. \A p \in 1 .. Size(m) : \E i \in 1 .. k : stream[i] = [of |-> m, part |-> p]
      <4> SUFFICES ASSUME NEW p \in 1 .. 3
                   PROVE  p \in 1 .. k /\ stream[p] = [of |-> m, part |-> p]
        BY <2>4
      <4>1. p = 1 \/ p = 2 \/ p = 3
        OBVIOUS
      <4> QED
        BY <2>3, <2>5, <2>6, <4>1
    <3>2. m.id \in Range(SessionMessages)
      BY <2>4, SessionFacts
    <3>3. \A j \in DOMAIN stream' : stream'[j].of.id # m.id
      BY <2>1, <2>2, <2>4, <3>1, <3>2, OutOfStream, SessionParts
    <3>4. Read(1)'
      BY <2>3, <2>4, <3>3, SessionFacts DEF Read, Unread, NothingSaidAgain
    <3>5. peer_hash = "ours"
      BY <2>1, <2>6 DEF SameHash
    <3> QED
      BY <2>1, <3>4, <3>5 DEF GreetState, BitfieldState, InterestState
  <2>7. CASE k # 3
    <3>1. stream[k] = [of |-> m, part |-> k]
      <4>1. k = 1 \/ k = 2
        BY <2>1, <2>7
      <4> QED
        BY <2>3, <2>5, <4>1
    <3>2. stream[k].part < Size(stream[k].of)
      BY <2>1, <2>4, <2>7, <3>1
    <3>3. stream' # <<>> /\ stream'[1] = [of |-> m, part |-> k + 1]
      BY <2>1, <2>2, <3>1, <3>2, AfterReceive
    <3>4. ~AtBoundary'
      <4>1. stream'[1].part = k + 1 /\ k + 1 # 1
        BY <2>1, <3>3
      <4> QED
        BY <3>3, <4>1 DEF AtBoundary
    <3> QED
      BY <2>1, <3>4 DEF GreetState, BitfieldState, InterestState
  <2> QED
    BY <2>6, <2>7
<1> QED
  BY <1>1, <1>2

\* A header: read at a boundary it is the one of the message that is next.
LEMMA HeaderKeepsSession ==
  ASSUME AttemptInv, WholeMessages, ReaderState', SessionState, SessionOnce', NothingSaidAgain, ReadHeader
  PROVE  GreetState' /\ BitfieldState' /\ InterestState'
<1> USE DEF AttemptInv
<1>1. phase' = phase /\ peer_hash' = peer_hash
  BY DEF ReadHeader, session
<1>2. CASE Fail
  BY <1>1, <1>2, FailKeepsSession
<1>3. CASE ~Fail
  <2> DEFINE m == stream[1].of
  <2>1. /\ pc = "header" /\ pc' = "payload" /\ Receive(2) /\ stream \in Seq(Unit) /\ 2 \in 1 .. Len(stream)
        /\ \/ msg' = Garbage
           \/ stream[1].part = 1 /\ m.id # "keep_alive" /\ msg' = m /\ want' = Size(m) - 2
    BY <1>3 DEF ReadHeader, ParseHeader, Receive, HeaderUnits, NetTypes
  <2>2. phase # "handshake"
    BY <2>1 DEF AttemptState
  <2>3. CASE msg' = Garbage
    <3>1. msg'.id # "unchoke"
      BY <2>3, MessageFacts
    <3>2. InterestState'
      BY <1>1, <2>1, <3>1, ReadStays DEF SessionState, InterestState
    <3> QED
      BY <1>1, <2>1, <2>2, <2>3, <3>2 DEF GreetState, BitfieldState
  <2>4. CASE stream[1].part = 1 /\ m.id # "keep_alive" /\ msg' = m /\ want' = Size(m) - 2
    <3>1. stream # <<>> /\ stream[1] \in Unit /\ 1 \in 1 .. Len(stream)
      BY <2>1, EmptySeq, ElementOfSeq
    <3>2. m \in Messages /\ Size(m) \in 2 .. 4 /\ stream[1] = [of |-> m, part |-> 1]
      BY <2>4, <3>1, UnitTyped, SizeFacts
    <3>3. stream[2] = [of |-> m, part |-> 2]
      <4>1. stream[1].part < Size(stream[1].of)
        BY <2>4, <3>2
      <4> QED
        BY <2>1, <2>4, <3>1, <4>1, FirstMessage
    <3>4. CASE phase = "bitfield"
      <4>1. peer_hash = "ours" /\ Read(1)'
        <5>1. AtBoundary
          BY <2>4 DEF AtBoundary
        <5> QED
          BY <2>1, <3>4, <5>1, ReadStays DEF SessionState
      <4>2. ASSUME m.id = "bitfield"
            PROVE  Said(2)' /\ \A k \in DOMAIN stream' : stream'[k].of.id = "bitfield" => k <= want'
        <5>1. Said(2)'
          <6>1. 1 \in DOMAIN stream
            BY <2>1, <3>1, LenProperties
          <6>2. Unread(2)
            BY <4>2, <6>1, SessionFacts DEF Unread
          <6>3. Said(2)
            BY <6>2 DEF SessionState
          <6> QED
            BY <6>3 DEF NothingSaidAgain
        <5>2. Size(m) = 3 /\ want' = 1
          BY <2>4, <3>2, <4>2, SizeFacts
        <5>3. m \in Messages /\ m # Garbage
          BY <3>2, MessageFacts
        <5>4. stream' # <<>> /\ stream'[1] = [of |-> m, part |-> 3]
          BY <2>1, <2>4, <5>2, <5>3 DEF ReaderState
        <5>5. /\ Len(stream') = Len(stream) - 2 /\ DOMAIN stream' = 1 .. Len(stream') /\ stream' \in Seq(Unit)
              /\ \A j \in 1 .. Len(stream') : stream'[j] = stream[j + 2] /\ j + 2 \in 1 .. Len(stream)
          BY <2>1, RestOfStream DEF Receive
        <5> SUFFICES ASSUME NEW j \in 1 .. Len(stream'), stream'[j].of.id = "bitfield"
                     PROVE  j <= want'
          BY <5>1, <5>5
        <5>6. stream'[j] \in Unit
          BY <5>5, ElementOfSeq
        <5>7. stream'[j].of = m
          <6>1. stream'[j].of \in Messages
            BY <5>6, UnitTyped
          <6> QED
            BY <3>2, <4>2, <6>1, MessageFacts DEF Ids
        <5>8. PICK p \in 1 .. 3 : stream'[j] = [of |-> m, part |-> p]
          BY <5>2, <5>6, <5>7, UnitTyped
        <5>9. DOMAIN stream = 1 .. Len(stream) /\ Len(stream) \in Nat
          BY <2>1, LenProperties
        <5>10. m.id \in Range(SessionMessages)
          BY <4>2, SessionFacts
        <5>11. CASE p = 3
          <6>1. 1 \in DOMAIN stream' /\ j \in DOMAIN stream' /\ stream'[1] = stream'[j]
                /\ stream'[1].of.id \in Range(SessionMessages)
            BY <5>4, <5>5, <5>8, <5>9, <5>10, <5>11
          <6>2. 1 = j
            BY <6>1 DEF SessionOnce
          <6> QED
            BY <5>2, <6>2
        <5>12. CASE p # 3
          <6>1. p \in 1 .. 2 /\ stream[p] = [of |-> m, part |-> p]
            <7>1. p = 1 \/ p = 2
              BY <5>12
            <7> QED
              BY <3>2, <3>3, <7>1
          <6>2. p \in DOMAIN stream /\ j + 2 \in DOMAIN stream /\ stream[p] = stream[j + 2]
                /\ stream[p].of.id \in Range(SessionMessages)
            BY <2>1, <5>5, <5>8, <5>9, <5>10, <6>1
          <6>3. p = j + 2
            BY <6>2 DEF SessionState
          <6> QED
            BY <6>1, <6>3
        <5> QED
          BY <5>11, <5>12
      <4>3. BitfieldState'
        BY <1>1, <2>1, <2>4, <4>1, <4>2 DEF BitfieldState
      <4> QED
        BY <1>1, <2>1, <3>4, <4>3 DEF GreetState, InterestState
    <3>5. CASE phase = "state"
      <4>1. peer_hash = "ours" /\ Read(1)' /\ Read(2)'
        BY <3>5, ReadStays DEF SessionState
      <4>2. ASSUME m.id = "unchoke"
            PROVE  Read(3)'
        <5>1. m.id \in Range(SessionMessages) /\ Size(m) = 2
          BY <3>2, <4>2, SessionFacts, SizeFacts
        <5>2. \A p \in 1 .. Size(m) : \E i \in 1 .. 2 : stream[i] = [of |-> m, part |-> p]
          <6> SUFFICES ASSUME NEW p \in 1 .. 2
                       PROVE  stream[p] = [of |-> m, part |-> p]
            BY <5>1
          <6>1. p = 1 \/ p = 2
            OBVIOUS
          <6> QED
            BY <3>2, <3>3, <6>1
        <5>3. \A j \in DOMAIN stream' : stream'[j].of.id # m.id
          BY <2>1, <3>2, <5>1, <5>2, OutOfStream, SessionParts
        <5>4. Said(3)'
          <6>1. 1 \in DOMAIN stream
            BY <2>1, <3>1, LenProperties
          <6>2. Unread(3)
            BY <4>2, <6>1, SessionFacts DEF Unread
          <6>3. Said(3)
            BY <6>2 DEF SessionState
          <6> QED
            BY <6>3 DEF NothingSaidAgain
        <5> QED
          BY <4>2, <5>3, <5>4, SessionFacts DEF Read, Unread
      <4>3. InterestState'
        BY <1>1, <2>1, <2>4, <4>1, <4>2 DEF InterestState
      <4> QED
        BY <1>1, <2>1, <3>5, <4>3 DEF GreetState, BitfieldState
    <3>6. CASE phase = "download"
      BY <1>1, <2>1, <3>6 DEF GreetState, BitfieldState, InterestState
    <3> QED
      BY <2>2, <3>4, <3>5, <3>6 DEF ThreadTypes
  <2> QED
    BY <2>1, <2>3, <2>4
<1> QED
  BY <1>2, <1>3

\* A part of a payload.
LEMMA PayloadKeepsSession ==
  ASSUME AttemptInv, SessionState, NothingSaidAgain, ReadPayload
  PROVE  GreetState' /\ BitfieldState' /\ InterestState'
<1> USE DEF AttemptInv
<1>1. phase' = phase /\ peer_hash' = peer_hash
  BY DEF ReadPayload, session
<1>2. CASE Fail
  BY <1>1, <1>2, FailKeepsSession
<1>3. CASE ~Fail
  <2>1. PICK k \in 1 .. want : Receive(k) /\ want' = want - k
    BY <1>3 DEF ReadPayload
  <2>2. pc = "payload" /\ pc' = pc /\ msg' = msg /\ phase # "handshake"
    BY <1>3 DEF ReadPayload, AttemptState
  <2>3. ASSUME msg.id = "bitfield", phase = "bitfield", msg # Garbage
        PROVE  Said(2)' /\ \A j \in DOMAIN stream' : stream'[j].of.id = "bitfield" => j <= want'
    <3>1. Said(2) /\ \A j \in DOMAIN stream : stream[j].of.id = "bitfield" => j <= want
      BY <2>2, <2>3 DEF SessionState
    <3>2. stream \in Seq(Unit) /\ k \in 1 .. Len(stream) /\ want \in Nat
      BY <2>1 DEF NetTypes, ThreadTypes, Receive
    <3>3. /\ Len(stream') = Len(stream) - k /\ DOMAIN stream' = 1 .. Len(stream')
          /\ \A j \in 1 .. Len(stream') : stream'[j] = stream[j + k] /\ j + k \in 1 .. Len(stream)
      BY <2>1, <3>2, RestOfStream DEF Receive
    <3>4. DOMAIN stream = 1 .. Len(stream)
      BY <3>2, LenProperties
    <3>5. Said(2)'
      BY <3>1 DEF NothingSaidAgain
    <3>6. ASSUME NEW j \in 1 .. Len(stream'), stream'[j].of.id = "bitfield"
          PROVE  j <= want'
      <4>1. j + k \in DOMAIN stream /\ stream[j + k].of.id = "bitfield"
        BY <3>3, <3>4, <3>6
      <4>2. j + k <= want
        BY <3>1, <4>1
      <4> QED
        BY <2>1, <3>2, <4>2
    <3> QED
      BY <3>3, <3>5, <3>6
  <2>4. BitfieldState'
    BY <1>1, <2>2, <2>3, ReadStays DEF SessionState, BitfieldState
  <2>5. InterestState'
    BY <1>1, <2>2, ReadStays DEF SessionState, InterestState
  <2> QED
    BY <1>1, <2>2, <2>4, <2>5 DEF GreetState
<1> QED
  BY <1>2, <1>3

\* The thread goes no further in the session than what it has read.
LEMMA ThreadKeepsSession ==
  ASSUME AttemptInv, WholeMessages, ReaderState', SessionState, SessionOnce', NothingSaidAgain, Thread
  PROVE  GreetState' /\ BitfieldState' /\ InterestState'
<1> USE DEF AttemptInv
<1>1. CASE Fail /\ UNCHANGED <<phase, peer_hash>>
  BY <1>1, FailKeepsSession
<1>2. CASE SendHandshake /\ ~(Fail /\ UNCHANGED <<phase, peer_hash>>)
  <2>1. /\ pc = "greet" /\ pc' = "handshake" /\ phase = "handshake" /\ phase' = phase
        /\ UNCHANGED <<stream, spoken>>
    BY <1>2 DEF SendHandshake, AttemptState
  <2> QED
    BY <2>1 DEF SessionState, GreetState, BitfieldState, InterestState, Said
<1>3. CASE ReadHandshake
  BY <1>3, HandshakeKeepsSession
<1>4. CASE UseBitfield /\ ~(Fail /\ UNCHANGED <<phase, peer_hash>>)
  <2>1. /\ pc = "payload" /\ want = 0 /\ phase = "bitfield" /\ msg.id = "bitfield" /\ pc' = "interested"
        /\ UNCHANGED <<phase, stream, spoken, peer_hash>>
    BY <1>4 DEF UseBitfield, netVars
  <2>2. msg # Garbage
    BY <2>1, MessageFacts
  <2>3. peer_hash = "ours" /\ Read(1) /\ Said(2) /\ \A k \in DOMAIN stream : stream[k].of.id = "bitfield" => k <= 0
    BY <2>1, <2>2 DEF SessionState
  <2>4. \A k \in DOMAIN stream : ~(k <= 0)
    <3>1. DOMAIN stream = 1 .. Len(stream) /\ Len(stream) \in Nat
      BY LenProperties DEF NetTypes
    <3> QED
      BY <3>1
  <2>5. Read(2)
    BY <2>3, <2>4, SessionFacts DEF Read, Unread
  <2> QED
    BY <2>1, <2>3, <2>5, ReadStays DEF GreetState, BitfieldState, InterestState
<1>5. CASE SendInterested /\ ~(Fail /\ UNCHANGED <<phase, peer_hash>>)
  <2>1. pc = "interested" /\ pc' = "header" /\ phase' = "state" /\ peer_hash' = peer_hash
    BY <1>5 DEF SendInterested
  <2> QED
    BY <2>1, ReadStays DEF SessionState, GreetState, BitfieldState, InterestState
<1>6. CASE UseState /\ ~(Fail /\ UNCHANGED <<phase, peer_hash>>)
  <2>1. pc' = "loop" /\ phase' = "download"
    BY <1>6 DEF UseState, netVars
  <2> QED
    BY <2>1 DEF GreetState, BitfieldState, InterestState
<1>7. CASE ReadHeader
  BY <1>7, HeaderKeepsSession
<1>8. CASE ReadPayload
  BY <1>8, PayloadKeepsSession
<1>9. CASE (TakePiece \/ Leave \/ SendRequest \/ FinishPiece \/ UseMessage)
           /\ ~(Fail /\ UNCHANGED <<phase, peer_hash>>)
  <2>1. phase' = "download" /\ pc' # "interested"
    BY <1>9 DEF TakePiece, Leave, SendRequest, FinishPiece, UseMessage, AttemptState, session, netVars
  <2> QED
    BY <2>1 DEF GreetState, BitfieldState, InterestState
<1> QED
  BY <1>1, <1>2, <1>3, <1>4, <1>5, <1>6, <1>7, <1>8, <1>9 DEF Thread

\* Once the session is over, nothing of it comes any more.
LEMMA DownloadStep ==
  ASSUME AttemptInv, SessionState, DownloadState, NothingSaidAgain, [Next]_vars
  PROVE  DownloadState'
<1> USE DEF AttemptInv
<1> SUFFICES ASSUME phase' = "download", pc' # "left"
             PROVE  peer_hash' = "ours" /\ Read(1)' /\ Read(2)' /\ Read(3)'
  BY DEF DownloadState
<1>1. peer_hash' = peer_hash
  BY NetSteps
<1>2. CASE phase = "download"
  <2>1. pc # "left"
    BY DEF Next, Thread, SendHandshake, ReadHandshake, UseBitfield, SendInterested, UseState, TakePiece,
           Leave, SendRequest, FinishPiece, ReadHeader, ReadPayload, UseMessage, Speak, Serve, Chatter,
           Terminated, vars, threadVars
  <2> QED
    BY <1>1, <1>2, <2>1, ReadStays DEF DownloadState
<1>3. CASE phase # "download"
  <2>1. phase = "state" /\ UseState
    BY <1>3, PhaseSteps
  <2>2. pc = "payload" /\ msg.id = "unchoke"
    BY <1>3, <2>1 DEF UseState
  <2> QED
    BY <1>1, <2>1, <2>2, ReadStays DEF SessionState
<1> QED
  BY <1>2, <1>3

SessionInv == SessionState /\ DownloadState

LEMMA SessionInit ==
  ASSUME Init
  PROVE  SessionInv
<1>1. DOMAIN stream = {}
  BY DEF Init
<1>2. UnreadIsSaid /\ SessionOnce
  BY <1>1 DEF UnreadIsSaid, SessionOnce, Unread
<1>3. DueState /\ AskedInLoop /\ GreetState /\ BitfieldState /\ InterestState /\ DownloadState
  BY DEF Init, DueState, AskedInLoop, GreetState, BitfieldState, InterestState, DownloadState
<1> QED
  BY <1>2, <1>3, SessionParts DEF SessionInv

LEMMA SessionStep ==
  ASSUME AttemptInv, StreamInv, ReaderState', SessionInv, [Next]_vars
  PROVE  SessionInv'
<1> USE DEF SessionInv
<1>1. UnreadIsSaid /\ SessionOnce /\ AskedInLoop
  BY SessionParts
<1>2. UnreadIsSaid' /\ SessionOnce' /\ NothingSaidAgain
  BY <1>1, SessionStreamStep
<1>3. DueState'
  BY AttemptStep DEF AttemptInv
<1>4. AskedInLoop'
  BY <1>1, AskedStep
<1>5. GreetState' /\ BitfieldState' /\ InterestState'
  <2>1. CASE Thread
    BY <1>2, <2>1, ThreadKeepsSession DEF StreamInv
  <2>2. CASE ~Thread
    BY <1>2, <2>2, PeerKeepsSession DEF Next
  <2> QED
    BY <2>1, <2>2
<1>6. DownloadState'
  BY <1>2, DownloadStep
<1>7. SessionState'
  BY <1>2, <1>3, <1>4, <1>5 DEF SessionState, UnreadIsSaid, SessionOnce, DueState, AskedInLoop,
                                GreetState, BitfieldState, InterestState
<1> QED
  BY <1>6, <1>7

\* The thread knows of the session what it has read of it, by induction on the steps.
THEOREM SessionInvCorrect == Spec => []SessionInv
<1>1. Init => SessionInv
  BY SessionInit
<1>2. AttemptInv /\ StreamInv /\ StreamInv' /\ SessionInv /\ [Next]_vars => SessionInv'
  BY SessionStep DEF StreamInv
<1> QED
  BY <1>1, <1>2, AttemptInvCorrect, StreamInvCorrect, PTL DEF Spec

\* Only a peer of this torrent that has unchoked the client is asked for pieces, and
\* only once all that it said before has been read, although the handshake is decoded
\* even if it has arrived in part.
THEOREM LoopCorrect == Spec => []LoopMeansSession
<1>1. AttemptInv /\ SessionInv => LoopMeansSession
  <2> SUFFICES ASSUME AttemptInv, SessionInv, phase = "download", pc # "left"
               PROVE  /\ peer_hash = "ours" /\ spoken = Len(SessionMessages)
                      /\ \A k \in DOMAIN stream : stream[k].of.id \notin Range(SessionMessages)
    BY DEF LoopMeansSession
  <2>1. peer_hash = "ours" /\ Read(1) /\ Read(2) /\ Read(3)
    BY DEF SessionInv, DownloadState
  <2>2. spoken = 3
    BY <2>1 DEF Read, Said, AttemptInv, NetTypes
  <2> QED
    BY <2>1, <2>2, SessionFacts DEF Read, Unread
<1> QED
  BY <1>1, AttemptInvCorrect, SessionInvCorrect, PTL

\* The strengthening that TLC checks on its small torrents holds for all of them.
THEOREM StrengtheningCorrect == Spec => []Strengthening
<1>1. AttemptInv /\ StreamInv /\ SessionInv => Strengthening
  BY DEF AttemptInv, StreamInv, SessionInv, Strengthening
<1> QED
  BY <1>1, AttemptInvCorrect, StreamInvCorrect, SessionInvCorrect, PTL
-------------------------------------------------------------------------------
(* The refinement: the messages of the thread are steps of a download.     *)

Reserved == {<<1, i>> : i \in {index} \ {NULL}}
Stored   == {i \in Pieces : stored[i] # NULL}
Outcome  == IF pc # "left" THEN "running" ELSE IF HasEverything THEN "delivered" ELSE "abandoned"

LEMMA ReservedIs == (index = NULL => Reserved = {}) /\ (index # NULL => Reserved = {<<1, index>>})
BY DEF Reserved

\* What a step can mean for the download.
LEMMA StepMeanings ==
  ASSUME AttemptInv, [Next]_vars
  PROVE  \/ UNCHANGED <<index, stored>> /\ (pc = "left" <=> pc' = "left")
         \/ TakePiece /\ index' # index
         \/ FinishPiece
         \/ Retry /\ index # NULL /\ pc # "left"
         \/ pc # "left" /\ pc' = "left" /\ index = NULL /\ index' = NULL /\ stored' = stored
<1> USE DEF AttemptInv
<1>1. CASE Thread /\ Quit
  <2>1. pc # "left"
    BY <1>1 DEF Thread, SendHandshake, ReadHandshake, UseBitfield, SendInterested, UseState, TakePiece,
                Leave, SendRequest, FinishPiece, ReadHeader, ReadPayload, UseMessage
  <2>2. index = NULL
    BY <1>1 DEF Quit, AttemptState
  <2> QED
    BY <1>1, <2>1, <2>2 DEF Quit
<1>2. CASE Thread /\ Retry /\ ~TakePiece /\ ~FinishPiece /\ ~Leave
  <2>1. phase = "download"
    BY <1>2 DEF Retry
  <2>2. pc \in {"request", "header", "payload"}
    BY <1>2, <2>1 DEF Thread, SendHandshake, ReadHandshake, UseBitfield, SendInterested, UseState,
                SendRequest, ReadHeader, ReadPayload, UseMessage, AttemptState
  <2> QED
    BY <1>2, <2>1, <2>2 DEF AttemptState
<1>3. CASE Leave
  <2>1. index = NULL
    BY <1>3 DEF Leave, AttemptState
  <2> QED
    BY <1>3, <2>1 DEF Leave
<1>4. CASE Thread /\ ~Quit /\ ~Retry /\ ~TakePiece /\ ~FinishPiece /\ ~Leave
  BY <1>4 DEF Thread, SendHandshake, ReadHandshake, UseBitfield, SendInterested, UseState,
              SendRequest, ReadHeader, ParseHeader, ReadPayload, UseMessage, Fail
<1>5. CASE Speak \/ Serve \/ Chatter \/ Terminated \/ UNCHANGED vars
  BY <1>5 DEF Speak, Serve, Chatter, Terminated, vars, threadVars
<1>6. CASE TakePiece
  BY <1>6 DEF TakePiece
<1> QED
  BY <1>1, <1>2, <1>3, <1>4, <1>5, <1>6 DEF Next

\* Every step is one of the download, or none for it.
LEMMA StepImplements ==
  ASSUME AttemptInv, AttemptInv', [Next]_vars
  PROVE  [Download!Next]_(Download!vars)
<1> USE DEF AttemptInv
<1> SUFFICES \/ \E i \in Pieces :
                  \/ /\ Outcome = "running" /\ i \notin Stored /\ \A r \in Reserved : r[1] # 1 /\ r[2] # i
                     /\ Reserved' = Reserved \cup {<<1, i>>} /\ Stored' = Stored /\ Outcome' = Outcome
                  \/ /\ <<1, i>> \in Reserved /\ Reserved' = Reserved \ {<<1, i>>}
                     /\ Stored' \in {Stored, Stored \cup {i}} /\ Outcome' = Outcome
             \/ /\ Outcome = "running" /\ Reserved = {} /\ Reserved' = Reserved /\ Stored' = Stored
                /\ Outcome' = "abandoned" \/ (Outcome' = "delivered" /\ Stored = Pieces)
             \/ Reserved' = Reserved /\ Stored' = Stored /\ Outcome' = Outcome
  BY DEF Download!Next, Download!Reserve, Download!Settle, Download!Release, Download!Store,
         Download!Deliver, Download!Abandon, Download!vars, Reserved, Stored, Outcome
<1>1. (index' = NULL => Reserved' = {}) /\ (index' # NULL => Reserved' = {<<1, index'>>})
  BY DEF Reserved
<1>2. stored' = stored => Stored' = Stored /\ HasEverything' = HasEverything
  BY DEF Stored, HasEverything
<1>3. CASE UNCHANGED <<index, stored>> /\ (pc = "left" <=> pc' = "left")
  BY <1>2, <1>3 DEF Reserved, Outcome
<1>4. CASE TakePiece /\ index' # index
  <2>1. PICK i \in Pieces : stored[i] = NULL /\ index' = i /\ pc' = "request"
    BY <1>4 DEF TakePiece
  <2>2. i # NULL
    BY <2>1, NullAssumption, TransferAssumption DEF Pieces
  <2>3. index = NULL /\ stored' = stored /\ pc = "loop"
    BY <1>4 DEF TakePiece, AttemptState
  <2>4. Reserved = {} /\ Reserved' = {<<1, i>>} /\ i \notin Stored
    BY <1>1, <2>1, <2>2, <2>3, ReservedIs DEF Stored
  <2>5. Outcome = "running" /\ Outcome' = "running"
    BY <2>1, <2>3 DEF Outcome
  <2> QED
    BY <1>2, <2>3, <2>4, <2>5
<1>5. CASE FinishPiece
  <2>1. /\ index \in Pieces /\ index # NULL /\ index' = NULL /\ pc = "request" /\ pc' = "loop"
        /\ stored' = [stored EXCEPT ![index] = buf] /\ buf \in Buffer /\ stored \in [Pieces -> Buffer \cup {NULL}]
    BY <1>5 DEF FinishPiece, AttemptState, ThreadTypes
  <2>2. buf # NULL
    BY <2>1, NullAssumption
  <2>3. Stored' = Stored \cup {index}
    BY <2>1, <2>2 DEF Stored
  <2>4. Reserved = {<<1, index>>} /\ Reserved' = {}
    BY <1>1, <2>1, ReservedIs
  <2>5. Outcome = "running" /\ Outcome' = "running"
    BY <2>1 DEF Outcome
  <2> QED
    BY <2>1, <2>3, <2>4, <2>5
<1>6. CASE Retry /\ index # NULL /\ pc # "left"
  <2>1. index \in Pieces /\ index' = NULL /\ stored' = stored /\ pc' = "loop"
    BY <1>6 DEF Retry, ThreadTypes
  <2>2. Reserved = {<<1, index>>} /\ Reserved' = {}
    BY <1>1, <1>6, <2>1, ReservedIs
  <2>3. Outcome = "running" /\ Outcome' = "running"
    BY <1>6, <2>1 DEF Outcome
  <2> QED
    BY <1>2, <2>1, <2>2, <2>3
<1>7. CASE pc # "left" /\ pc' = "left" /\ index = NULL /\ index' = NULL /\ stored' = stored
  <2>1. Reserved = {} /\ Reserved' = {} /\ Outcome = "running"
    BY <1>1, <1>7, ReservedIs DEF Outcome
  <2>2. Outcome' = IF HasEverything THEN "delivered" ELSE "abandoned"
    BY <1>2, <1>7 DEF Outcome
  <2>3. HasEverything => Stored = Pieces
    BY DEF HasEverything, Stored
  <2> QED
    BY <1>2, <1>7, <2>1, <2>2, <2>3
<1> QED
  BY <1>3, <1>4, <1>5, <1>6, <1>7, StepMeanings

LEMMA InitImplements == Init => Download!Init
<1>1. Init => Reserved = {} /\ Stored = {} /\ Outcome = "running"
  BY ReservedIs DEF Init, Stored, Outcome
<1> QED
  BY <1>1 DEF Download!Init, Reserved, Stored, Outcome

\* The safety part of ImplementsDownload: one attempt at a time, of a piece that is not
\* stored, which ends by giving the piece back or by storing it once.
THEOREM TransferImplementsDownload == Spec => Download!Spec
<1>1. AttemptInv /\ AttemptInv' /\ [Next]_vars => [Download!Next]_(Download!vars)
  BY StepImplements
<1> QED
  BY <1>1, InitImplements, AttemptInvCorrect, PTL DEF Spec, Download!Spec
================================================================================
