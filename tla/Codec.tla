--------------------------------- MODULE Codec ---------------------------------
(***************************************************************************)
(* Bytes on the wire: big_endian.c, message.c and handshake_msg.c.  One end *)
(* encodes messages into a stream, the other reads them back as            *)
(* read_message_from_conn does, part by part; and buffers of all lengths   *)
(* are given to the two decoders.                                          *)
(*                                                                         *)
(* Bytes, int and long are scaled: a byte has ByteRange values, an int has *)
(* as many bytes as a length field, a long twice as many.                  *)
(***************************************************************************)
EXTENDS Integers, Sequences, SequencesExt

CONSTANTS
  ByteRange,
  IntBytes,      \* sizeof(int); MSG_LEN_BYTES, PIECE_INDEX_BYTES, BLOCK_OFFSET_BYTES
  Numbers,       \* the piece indexes and block offsets that are sent
  Lengths,       \* the lengths of the blocks that are sent
  MaxMessages,   \* bound: how many messages are sent
  pstr,          \* "BitTorrent protocol"
  Hashes,        \* info hashes and peer ids
  ReservedLen,   \* HANDSHAKE_RESERVED_LEN
  NULL, FAILED

\* What a byte is worth k bytes above the last one: 1 << (8 * k).
Shift[k \in Nat] == IF k = 0 THEN 1 ELSE ByteRange * Shift[k - 1]

IntRange  == Shift[IntBytes]
LongRange == IntRange * IntRange
Byte      == 0 .. ByteRange - 1

ASSUME CodecAssumption ==
  /\ ByteRange \in Nat /\ ByteRange > 7 /\ ByteRange % 2 = 0 /\ IntBytes \in Nat \ {0}
  /\ Numbers \subseteq 0 .. IntRange - 1 /\ Lengths \subseteq Nat
  /\ \A n \in Lengths : 1 + 2 * IntBytes + n < IntRange
  /\ MaxMessages \in Nat /\ ReservedLen \in Nat
  /\ pstr \in Seq(Byte \ {0}) /\ Len(pstr) < ByteRange \div 2
  /\ \A h, g \in Hashes : h \in Seq(Byte) /\ Len(h) = Len(g)

VARIABLES
  sent,      \* the messages that one end has encoded
  stream,    \* the bytes that the other end has not received
  got,       \* the messages that it has returned
  reader,    \* the message it is reading: NULL, FAILED, or its parts
  buf,       \* a buffer for a decoder: what it was encoded from, and its bytes
  decoded    \* what the decoder makes of it

vars == <<sent, stream, got, reader, buf, decoded>>
-------------------------------------------------------------------------------
(* big_endian.c.                                                           *)

\* Fault: what does not fit into the byte stays.
WideBytes(n, size) == [i \in 1 .. size |-> n \div Shift[size - i]]

lu_to_big_endian(n, size) == [i \in 1 .. size |-> (n \div Shift[size - i]) % ByteRange]

\* An int from the bits of n, as the conversion to unsigned long extends it.
AsInt(n) == IF n % IntRange < IntRange \div 2 THEN n % IntRange ELSE (n % IntRange) - IntRange

\* Each byte is shifted as an int, and then added to an unsigned long.
big_endian_to_lu(b) ==
  LET n[i \in 0 .. Len(b)] ==
        IF i = 0 THEN 0 ELSE (n[i - 1] + AsInt(b[i] * Shift[Len(b) - i])) % LongRange
  IN  n[Len(b)]
-------------------------------------------------------------------------------
(* message.c, and the payloads of client.c.                                *)

MsgLenBytes == IntBytes
MsgIdBytes  == 1
HeaderBytes == MsgLenBytes + MsgIdBytes
PieceId     == 7

encode_message(m) ==
  lu_to_big_endian(MsgIdBytes + Len(m.payload), MsgLenBytes) \o <<m.id>> \o m.payload

LengthOf(b) == big_endian_to_lu(SubSeq(b, 1, MsgLenBytes))

\* Fault: bytes may be left over.
DecodeFront(b) ==
  IF LengthOf(b) + MsgLenBytes > Len(b) THEN NULL
  ELSE [id |-> b[HeaderBytes], payload |-> SubSeq(b, HeaderBytes + 1, MsgLenBytes + LengthOf(b))]

\* The length has to be that of the buffer.
decode_message(b) ==
  IF (LengthOf(b) + MsgLenBytes) % LongRange # Len(b) THEN NULL
  ELSE [id |-> b[HeaderBytes], payload |-> SubSeq(b, HeaderBytes + 1, Len(b))]

\* The header of a Piece message as download_piece makes and reads it.
PieceMsg(index, offset, n) ==
  [id |-> PieceId,
   payload |-> lu_to_big_endian(index, IntBytes) \o lu_to_big_endian(offset, IntBytes) \o
               [k \in 1 .. n |-> k % ByteRange]]

\* Fault: the offset is read where the index is.
OffsetAtIndex(m) == big_endian_to_lu(SubSeq(m.payload, 1, IntBytes))

GotIndex(m)  == big_endian_to_lu(SubSeq(m.payload, 1, IntBytes))
GotOffset(m) == big_endian_to_lu(SubSeq(m.payload, IntBytes + 1, 2 * IntBytes))
-------------------------------------------------------------------------------
(* handshake_msg.c.                                                        *)

init_handshake_msg(info_hash, peer_id) ==
  [pstr |-> pstr, reserved |-> [k \in 1 .. ReservedLen |-> 0],
   info_hash |-> info_hash, peer_id |-> peer_id]

\* Fault: the two last fields are swapped.
EncodeIdFirst(hm) == <<Len(hm.pstr)>> \o hm.pstr \o hm.reserved \o hm.peer_id \o hm.info_hash

encode_handshake_msg(hm) ==
  <<Len(hm.pstr)>> \o hm.pstr \o hm.reserved \o hm.info_hash \o hm.peer_id

HashLength == Len(CHOOSE h \in Hashes : TRUE)

\* Where each field ends, given the length of the first; the peer id is as long
\* as a hash.
FieldEnds(p) == <<1, 1 + p, 1 + p + ReservedLen, 1 + p + ReservedLen + HashLength,
                  1 + p + ReservedLen + 2 * HashLength>>

\* One test before each field; what is behind the last field is not looked at.
decode_handshake_msg(b) ==
  IF b = <<>> THEN NULL
  ELSE LET ends == FieldEnds(b[1])
           Field(k) == SubSeq(b, ends[k] + 1, ends[k + 1])
       IN  IF \E k \in DOMAIN ends : Len(b) < ends[k] THEN NULL
           ELSE [pstr |-> Field(1), reserved |-> Field(2),
                 info_hash |-> Field(3), peer_id |-> Field(4)]
-------------------------------------------------------------------------------
Init ==
  /\ sent = <<>> /\ stream = <<>> /\ got = <<>> /\ reader = NULL
  /\ buf = NULL /\ decoded = NULL

Messages == {PieceMsg(i, o, n) : i, o \in Numbers, n \in Lengths}

\* Whatever may be read, and the parts of it.
AnyMessage == [id : Byte, payload : Seq(Byte)]
Parts      == [id : Byte, want : 0 .. LongRange - 1, payload : Seq(Byte)]

ASSUME NullAssumption == NULL # FAILED /\ NULL \notin Parts /\ FAILED \notin Parts

\* send_message_to_conn at the other end.  A behaviour either sends, or gives one
\* buffer to a decoder.
Send ==
  /\ buf = NULL /\ Len(sent) < MaxMessages
  /\ \E m \in Messages : sent' = Append(sent, m) /\ stream' = stream \o encode_message(m)
  /\ UNCHANGED <<got, reader, buf, decoded>>

Receive(k) == k \in 1 .. Len(stream) /\ stream' = SubSeq(stream, k + 1, Len(stream))

\* Fault: the id is counted as payload.
WantWithId(length) == length % LongRange

Want(length) == (length - MsgIdBytes) % LongRange

\* The first receive_data of read_message_from_conn.  A payload that no malloc can
\* hold makes the next recv fail.
ReadHeader ==
  /\ reader = NULL
  /\ \/ \E k \in 1 .. HeaderBytes - 1 : Receive(k) /\ reader' = FAILED
     \/ /\ Receive(HeaderBytes)
        /\ LET length == LengthOf(stream)
           IN  \/ (length = 0 \/ Want(length) >= LongRange \div 2) /\ reader' = FAILED
               \/ /\ length # 0 /\ Want(length) < LongRange \div 2
                  /\ reader' = [id |-> stream[HeaderBytes], want |-> Want(length), payload |-> <<>>]
  /\ UNCHANGED <<sent, got, buf, decoded>>

Reading == reader \notin {NULL, FAILED}

ReadPayload ==
  /\ Reading /\ reader.want > 0
  /\ \E k \in 1 .. reader.want :
       /\ Receive(k)
       /\ reader' = [reader EXCEPT !.want = @ - k, !.payload = @ \o SubSeq(stream, 1, k)]
  /\ UNCHANGED <<sent, got, buf, decoded>>

\* init_message.
ReturnMessage ==
  /\ Reading /\ reader.want = 0
  /\ got' = Append(got, [id |-> reader.id, payload |-> reader.payload])
  /\ reader' = NULL
  /\ UNCHANGED <<sent, stream, buf, decoded>>

\* The buffer ends early, or a byte late.
Resized(bytes, least) == {SubSeq(bytes, 1, n) : n \in least .. Len(bytes)} \cup {bytes \o <<0>>}

\* A decoder gets a buffer; decode_message reads MSG_LEN_BYTES without a test, so
\* that shorter ones are left out.  The length of a message is never 0, so that
\* nothing is read behind a buffer that ends with it.
DecodeMessage ==
  /\ buf = NULL /\ sent = <<>>
  /\ \E m \in Messages : \E b \in Resized(encode_message(m), MsgLenBytes) :
       buf' = [of |-> m, bytes |-> b] /\ decoded' = decode_message(b)
  /\ UNCHANGED <<sent, stream, got, reader>>

DecodeHandshake ==
  /\ buf = NULL /\ sent = <<>>
  /\ \E h, id \in Hashes : LET hm == init_handshake_msg(h, id) IN
       \E b \in Resized(encode_handshake_msg(hm), 0) :
         buf' = [of |-> hm, bytes |-> b] /\ decoded' = decode_handshake_msg(b)
  /\ UNCHANGED <<sent, stream, got, reader>>

Next == Send \/ ReadHeader \/ ReadPayload \/ ReturnMessage \/ DecodeMessage \/ DecodeHandshake

Spec == Init /\ [][Next]_vars
-------------------------------------------------------------------------------
(* Properties.                                                             *)

\* The type invariant.
TypeOK ==
  /\ sent \in Seq(Messages) /\ got \in Seq(AnyMessage)
  /\ stream \in Seq(Byte)
  /\ reader \in {NULL, FAILED} \cup Parts
  /\ buf # NULL => buf.bytes \in Seq(Byte)

\* The bytes of the first k of the messages ms, for each k.
Encoded(ms) ==
  LET bytes[k \in 0 .. Len(ms)] ==
        IF k = 0 THEN <<>> ELSE bytes[k - 1] \o encode_message(ms[k])
  IN  bytes

Consumed ==
  Len(Encoded(sent)[Len(got)]) + IF Reading THEN HeaderBytes + Len(reader.payload) ELSE 0

\* As long as no read has failed, the stream is the rest of what was encoded, and
\* the message being read is the next one, as far as it has come.
NothingSkipped ==
  reader # FAILED =>
    /\ LET all == Encoded(sent)[Len(sent)] IN stream = SubSeq(all, Consumed + 1, Len(all))
    /\ Reading =>
         /\ Len(got) < Len(sent)
         /\ LET m == sent[Len(got) + 1]
            IN  /\ reader.id = m.id /\ reader.want + Len(reader.payload) = Len(m.payload)
                /\ reader.payload = SubSeq(m.payload, 1, Len(reader.payload))

\* What is read is what was sent, message by message and byte by byte, however the
\* stream is cut into parts, and what has not been read is all of the rest.
MessagesArrive == IsPrefix(got, sent) /\ NothingSkipped

\* The tests of download_piece never take a block for another one, although
\* numbers of the upper half of an int do not survive the way back.
BlocksAreTold ==
  \A k \in DOMAIN got : \A i, o \in Numbers :
    GotIndex(got[k]) = i /\ GotOffset(got[k]) = o =>
      \E n \in Lengths : sent[k] = PieceMsg(i, o, n)

IsHandshake(m) == "pstr" \in DOMAIN m

\* A buffer that is no whole message gives none, and a whole one gives the message
\* itself, or nothing when its length falls into the upper half of an int.
DecodedMessageIsRight ==
  buf # NULL /\ ~IsHandshake(buf.of) =>
    LET exact == buf.bytes = encode_message(buf.of)
        short == Len(buf.of.payload) + MsgIdBytes < IntRange \div 2
    IN  decoded = IF exact /\ short THEN buf.of ELSE NULL

\* A handshake is decoded as what it was made from, also from a longer buffer, and
\* no prefix of one is taken for a handshake.
DecodedHandshakeIsRight ==
  buf # NULL /\ IsHandshake(buf.of) =>
    decoded = IF Len(buf.bytes) >= Len(encode_handshake_msg(buf.of)) THEN buf.of ELSE NULL
================================================================================
