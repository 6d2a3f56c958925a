# btb, modelled and proved

`btb` is a small BitTorrent client in C: it reads a `.torrent` file, asks the
tracker for peers, downloads the pieces with one thread per peer and writes one
output file. This directory holds TLA+ modules of its concurrent core, of the
session with a peer and of its parsers and codecs, the TLC configurations that
check them on small instances, and TLAPS proofs of their safety properties for any
number of pieces, peers and threads and for data of any size.

Paths below are relative to the repository (`src/client.c` is the file that
`PROJECT.json` calls `src/src/client.c`).

## 1. Inventory

### Components

| component | state | operations | modelled in |
|---|---|---|---|
| main thread, `download_torrent` (`client.c:278-338`) | locals, four `DEFER`s that free torrent, tracker response, pool and file when the function returns | parse, contact the tracker, spawn a thread per peer, join them, test the pool, write the file | `Client`; the first two in full in `Startup` |
| peer thread, `download_torrent_thread_fun` (`client.c:133-276`) | connection, peer bitfield, current piece, `failed_attempts`, `d->ok` | connect, handshake, bitfield, interested, unchoke, then take / download / store or give back pieces | `Client` (control), `PieceTransfer` (session and download on a stream) |
| `download_piece`, `piece_progress` (`client.c:27-104`) | index, blocks downloaded, buffer | request a block, read the answer, compare index and offset, copy | `PieceTransfer`, `Codec` (the numbers) |
| `pieces_pool` | a bitfield and a mutex | `get_piece_index`, `mark_as_undone`, `is_done`, `get_num_undone_pieces` | `PiecesPool` (atomic), `PiecesPoolLocked` (loops and mutex), `AtomicPool` (its interface) |
| `bitfield` | bytes | `has_piece`, `set_piece`, `unset_piece` | `Bitfield` |
| `downloaded_file` | a buffer per piece and a mutex; the file on disk | `add_piece`, `has_all_pieces`, `write_to_file` | `DownloadedFile` |
| `conn` | a socket; per call a helper thread and its `thread_data` on the caller's stack | `init_conn`, `send_data`, `receive_data`, `free_conn` | `Conn` |
| `message` | none | encode, decode, send, read from a connection | `Codec` (bytes), `PieceTransfer` (late and short reads) |
| `handshake_msg`, `big_endian` | none | encode, decode | `Codec` |
| `tokenizer` | position, current token, a status function, a stack counter | `next` | `Tokenizer` |
| `torrent_file` | the fields, where the info dictionary begins and ends | `parse_torrent_file` | `TorrentFile` |
| `tracker_response`, `peer` | curl's response, interval, peers | `contact_tracker`, curl's callback, `init_peer` | `TrackerResponse` |
| `file_buf`, `hash` | none | read a file, SHA-1 | one step each of `TorrentFile`; `write_file` and `init_file_buf` have no caller in the client |
| `main` | none | arguments | not modelled: no state that a property could be about |

### Interaction

The main thread and the peer threads share two objects, the pool and the
downloaded file, each with its own mutex; every other object belongs to one
thread. The only other synchronization is `pthread_create` and `pthread_join`.
A peer thread reaches its peer through `message` on top of `conn`; every
blocking call of `conn` starts a helper thread, waits for it with a timeout,
and after the timeout cancels and joins it. Both parsers drive one tokenizer
object by calls of `next`; curl calls `parse_response` back once per chunk.

### What is hard, and what makes each part correct

* **Check, then act.** `is_done` and `get_piece_index` are two critical
  sections. Between them another thread may take the last piece, and the loop
  goes on with the index `num_pieces + 1`, which then goes through `has_piece`,
  `download_piece` and `mark_as_undone`. Correct means: no two threads hold one
  piece, a piece is marked exactly when it is held or stored, and every index
  lies inside the bitfield.
* **"Done" means "handed out".** The pool's bits are set when a piece is taken.
  That `is_done` may be read as "downloaded" after the joins rests on the joins
  and on every failing path giving its piece back.
* **Lifetime.** `DEFER`s free what the threads use; returning before all joins
  would be a use after free. `thread_data` of `conn` lives on the caller's stack.
* **Retries over one connection.** A failed attempt leaves the stream where it
  is: late answers, lost bytes and half-read messages meet the next attempt.
  So does a session that starts with a handshake in parts.
* **Timeouts racing completions** in `conn`.
* **The end of the data.** The tokenizer compares its position with the end in
  one place and for equality; correct means that a file cut anywhere is refused
  although the scanner reads on behind it, and that every loop of a parser ends.
* **Keys without structure.** `torrent_file.c` looks for its keys at any depth
  and keeps two pointers and a stack value over many tokens to know which bytes
  to hash; `tracker_response.c` takes ten tokens, mostly unseen.
* **Chunks and parts**: curl's chunks replace each other, messages come in any
  number of parts.
* **Boundaries**: `num_blocks`, the last piece, bit and byte of an index, an
  empty torrent, the sign of an `int` that four bytes are shifted into.
* **Termination** of every thread, without which `pthread_join` never returns.

`PROJECT.json` lists each of these as a hazard at its line, with the properties
that would catch it going wrong, or the reason why none does.

## 2. Modules

### `Client`, over `PiecesPool` and `DownloadedFile`

One action per statement group of the code that another thread can tell apart.
The main thread's `main_pc` walks through `parse`, `contact`, `spawn`, `join`,
`write`, `fwrite`, `cleanup`, `done`; `thread_i` is the loop variable of the
spawn and of the join loop; `deferred` counts the `DEFER`s that are registered
and have not run. A peer thread's `pc` walks through `connect`, `handshake`,
`bitfield`, `interested`, `state`, then the loop `loop` (the `while` condition),
`get`, `has`, `download`, `undone` or `add`, and finally `return` and `done`.
Every pool and file operation is one step, because its mutex makes it one
(`PiecesPoolLocked` shows that of the pool). A blocking call is one step that
succeeds or, for a peer in `Unreliable`, fails. `pieces_buf[i]` names the peer
that piece `i` came from, which is what the properties tell apart of its bytes.
`output` says how the file on disk came about, since `remove` and
`fopen(..., "a")` fail independently.

`PoolBits` is what `init_pieces_pool` allocates: one *byte* per piece, so that
the index `num_pieces + 1` of an exhausted pool falls into spare bits as soon as
there is one piece. With no piece at all nothing is allocated, and the loop is
never entered.

### `PieceDownload`

What a download promises, without threads or bitfields: a piece is reserved by
at most one peer, a peer has one reservation, a stored piece is never reserved
again, the outcome is settled only when no reservation is open, and it is
"delivered" only with all pieces. Its fairness says that no reservation lasts
for ever. `Client!Download` is the refinement mapping: a reservation is a
thread between `get_piece_index` and `mark_as_undone` or `add_piece`.

### `PiecesPoolLocked`, over `Bitfield`, implementing `AtomicPool`

The loops of `pieces_pool.c` with one step per access to the bitfield, between
`pthread_mutex_lock` and `pthread_mutex_unlock`. A byte is the set of its bits
that are 1, numbered so that `BitNumber(index) = 7 - index % 8` is what the
shifts of `bitfield.c` select. `LoopState` says what a thread knows in the middle
of its loop: the bits that it has looked at, and how many of them were 1, are so
*now*. The two loops that only count (`is_done` and
`get_num_undone_pieces`) differ in their results alone. `AtomicPool` extends
`PiecesPool`, so its effects are the very operators that `Client` takes its
steps from.

### `PieceTransfer`

One thread from its handshake on, a stream in each direction and an honest peer,
which may be one of another torrent (`peer_hash`). A message travels as units
(length field, id, and the first `PayloadUnits` units of a payload; three units
for a handshake), so that a read can be short or start in the middle of a message.
The peer has one of the sets of pieces in `Bitfields` (`peer_bf`).
`phase` says what a message is read for: the three phases of the session, in
which an error ends the thread (`Quit`), and the download, in which it costs an
attempt (`Retry`). `ReadHandshake` is the one `receive_data` of
`client.c:161-167`: it may return any part of the handshake, the whole buffer is
decoded, and a hash that has not arrived is whatever `malloc` left there, so that
the comparison may go either way. The peer speaks when it is due (`Speak`): its
handshake and bitfield after ours, Unchoke after Interested.
`ReadHeader` is the first `receive_data` of `read_message_from_conn`, which
takes anything but five bytes for a failure and has consumed the bytes by then;
`ReadPayload` is one round of its loop. `Retry` is the `!ok` branch of the
thread's loop: the piece is given back and the connection is left as it is.
`TakePiece` is `get_piece_index` and `has_piece`: a piece that the peer lacks goes
back at once and costs an attempt. A send that fails may have brought the peer
nothing, the whole request or, when `Tearing`, a part of it (`Brought`,
`conn.c:127`). An honest peer serves nothing behind a torn request (`Servable`); which
messages it takes the bytes behind for is left out. The
peer may answer in any order, may send messages nobody asked for (`Chatter`)
and the network may be late or cut a header (`Fault`).

A read that starts in the middle of a message yields `Garbage`: any length and
an id that is not that of a message the thread waits for. That file content or a
peer id spells precisely such a header is left out; the code would
take it for a block, since hashes of pieces are never compared.

`Strengthening` is what the safety properties rest on: what is known of the
attempt (`AttemptState`), that the stream is the rest of one message followed by
whole ones (`WholeMessages`), where the reader is in it (`ReaderState`) and how far
the session has come (`SessionState`).

`PieceTransfer!Download` maps the detail to `PieceDownload` with one peer: the
index of the current piece is its reservation, and a thread that has left has
settled the outcome.

The constants are the code's `PEER_MAX_FAILS` (8) and `BLOCK_SIZE` (2^14) and
the torrent's numbers, scaled down. The other threads show through
`get_piece_index`, which may return any missing piece.

### `Conn`

The owner of one connection and the helper thread of the current call.
`TimeoutExpires` is `pthread_timedjoin_np` returning with an error, `Cancel` and
`JoinCancelled` the two calls after it; between them the helper may still end on
its own, also successfully. `moved` is what `recv` took from the socket, or
`send` gave away, in the current call; no variable of the code has it, and the
properties compare the results with it. `CallState` ties the helper to its call and
its socket, `Reports` what `thread_data` says to what has been moved.

### `Tokenizer`, `TorrentFile`, `TrackerResponse`, composed in `Startup`

`NextToken` is one call of `next()`: the status function that `_status_fn` names,
with its own error codes. A symbol is a character, or a key word of the program
counted as one (`8:announce` is `<<"1", ":", "announce">>`), which keeps a torrent
at some forty symbols. `mem` is the data *and* what lies behind it on the heap,
since `next` notices the end only when `current` meets it exactly
(`tokenizer.c:22`); a read that runs out of `mem` is a crash. The alphabet is the
constant `Symbol`, of which only the marker `"s"` is known: `next` hands it out for
the length of a string, and it is not in the data.

`TorrentFile` has one action per call of `next()` in `parse_torrent_file`, with
everything the code does with the result; `goal` says which call is next: a key, a
type marker, a value, or the two that follow `info`. `perform_hash` is the range
of bytes it covers. `TrackerResponse` has the request (which dereferences announce
and hash), curl's callback for each chunk, a failure of curl at any time, and the
script of ten tokens over the reply; keys are compared over the size of the token,
so that a prefix passes, as with `memcmp` (`Matches`; a text has a key as one symbol or
spelled in letters). A peer of the reply is a slice of it: the address as its symbols, and
the port as the number that its two symbols make, in base 10 where `peer.c` has 256;
either tells which bytes have been read, and in which order. A reply without a body
leaves `response` uninitialized: either a crash or any data of size 0.

`HashRange`, a part of `Startup!TypeOK`, is what `perform_hash` needs: the range
that it is given begins behind the key `info`, is not empty and lies in `mem`, also
in a file in which `info` comes twice or inside another dictionary.

`Startup` composes the two as the first two calls of `download_torrent`, on a file
that is missing or whole or cut after any symbol, with different heaps behind it.
`MCStartup` writes torrents and replies with an encoder of its own, so that the
expected fields do not come from the parser.

### `Bencode`

Which texts are torrents and which are plain replies, said of their bytes alone and
without the scanner, so that the theorems about both parsers can be about every such
text. A text comes with a reading, the sequence of its *items* (a string, an integer,
the start or the end of a list or dictionary), each with the place where it lies, where
its contents begin, where the next one lies, and the depth behind it. `IsReading` relates
neighbours only, which takes the place of a grammar and of an induction over trees: the
depth is positive between the first item and the last and 0 behind the last.

`IsTorrent` says which of the items are keys that `torrent_file.c` knows (`r.keys`), that
their values have the types that it asks for, and that no other item spells a known key
unless it is such a value; unknown keys, lists and dictionaries may stand anywhere. It
covers torrents that have to be refused too: they are so up to item `r.good`, and
the item behind it is none or the value of a known key with another type. `FieldsOf`
gives the fields that the keys stand for, `InfoOf` the bytes from the first to the last
of `info`. `IsPlain` is a dictionary of `interval` and `peers`.

`Startup` takes a reading for each torrent and each plain reply (`Readings`) and assumes
that it is one (`ReadingAssumption`). This is an assumption on inputs, not on the code:
no action mentions `Readings`, and TLC evaluates it for all torrents and
replies of the runs, whose expected fields `MCStartup` builds besides from the data
that they were encoded from.

### `Codec`

One end encodes Piece messages into a stream of bytes, the other reads them back
in parts of any size; besides, `decode_message` and `decode_handshake_msg` get
each buffer that an encoder makes, every shorter one that they may be given, and
a longer one. Bytes, `int` and `long` are scaled: a byte has `ByteRange` values,
an `int` `IntBytes` of them, as a length field does, a `long` twice as many.
`AsInt` is the shift of a byte as an `int` followed by the conversion to
`unsigned long` (`big_endian.c:17`). `Shift[k]` is what a shift by k bytes multiplies
with; `ByteRange` is even, so that an `int` has a sign bit and half of its range is a
whole number of bytes' worth. `MessagesArrive` has two halves: what has been returned
is a prefix of what was sent, and (`NothingSkipped`) the bytes still in the stream are
all the rest, with the message that is being read as far as it has come.

## 3. Runs

Passing runs:

| run | instance | what it shows |
|---|---|---|
| `client_two` | 3 pieces, 2 peers, 2 attempts, any failure, bitfields with no piece, all, the first one or all but it | pool, threads and file agree in every interleaving; nothing is freed too early; the download ends, completely if no peer fails or lacks the piece it is asked for; it implements `PieceDownload` with its fairness |
| `pool_bytes` | 9 pieces, 2 threads | the pool's loops behave as single steps; only the owner of the mutex is inside, and what a loop has seen stays true |
| `transfer_faults` | 2 pieces of 2 blocks, 4 attempts, 2 faults, 1 unasked message, torn requests, a peer of this torrent or of another, with both pieces or with one | what is stored is right; the reader is back at a message boundary after each accepted block; the loop is only reached by a session with a peer of this torrent; the thread leaves; a peer in time that has everything delivers it; it implements `PieceDownload` with its fairness |
| `startup` | 13 torrents cut after every symbol, 3 heaps, 8 replies in up to 2 chunks | whole torrents give their fields, cut ones are refused, interval and peers are those of the reply, both parsers end |
| `codec` | bytes of 8 values, 2-byte numbers, 2 messages with blocks of 0 to 27 bytes | what is read is what was sent and no byte is skipped or read twice, also with numbers of the upper half of an `int`; decoders take whole buffers and refuse cut ones |
| `conn_calls` | 3 calls of 2 units | helpers stay inside their calls, positive results are exact, `thread_data` never promises more than was done, every call returns |

Why the bounds are enough. Every conflict in `Client` is between two holders of
a piece or between the main thread and one other. Two peers with three pieces
have all of: both working, one idle, the pool emptied between `is_done` and
`get_piece_index`, a piece going from one peer to the other, and a thread
leaving while the other still holds a piece. The four bitfields
make peers with the same, with disjoint and with overlapping pieces, and peers
that lack the first undone piece. Two attempts let a thread fail and
still succeed. The proofs of section 5 cover the other sizes. Nine pieces are
the smallest number with a piece in a second byte and, with one byte per piece,
`num_pieces + 1` in that second byte too; a mutex conflict needs two threads.
In `PieceTransfer` two blocks per piece are needed for an
answer with the right index and the wrong offset, two pieces for the opposite,
and two faults for a late answer that is itself read late; four attempts
suffice to misread a stream and find back. A peer with one piece makes an attempt end
without a request. A misread length of four units
(`MaxGarbage`) is the least that can exceed all that is still to arrive. In `Conn` two units make a short
`send` and a short `recv` possible, and three calls a timeout followed by a
call that meets what it left behind.

The torrents of `startup` have or lack keys before, inside and behind their info
dictionary (with nested empty lists and strings that spell keys or ends), or give
a known key a value of another type. Every prefix matters, since each puts
the end of the data into another state of the scanner; the heaps behind are
empty, one that closes what is open and one that goes on with a string. Hashes of
two symbols and two of them make both divisions of `pieces`; peers of three
symbols have a port of two bytes. Two chunks are the least that lose data. In
`codec` the length fields 7, 31 and 32 lie inside one byte and on both sides of
half an `int`, as do the numbers; two messages are needed for a
boundary between them.

`client_two`, `pool_bytes`, `transfer_faults` and `conn_calls` also check the inductive
invariants that the proofs use (`Strengthening`; `MutualExclusion` and `LoopState`),
each with a bug of its own that breaks it.

Runs that find a disagreement between the code and what its comments say:

| run | property | what happens |
|---|---|---|
| `client_early` | `IncompleteOnlyAfterMaxFails` | a working peer leaves because all pieces are handed out; the other thread then fails, its pieces come back, and nobody is left to take them |
| `transfer_late` | `Completes` | after one late answer each later attempt reads the answer to the one before and fails, up to `PEER_MAX_FAILS` (here the code's own 8). One Have, Choke or keep-alive message between request and answer has the same effect |
| `transfer_short` | `RequestsLieInFile` | the last piece is requested in full although the file ends inside it, so a peer that refuses such requests never delivers it |
| `startup_filled` | `TrueMeansFilled` | `parse_torrent_file` returns true for an empty file and for a torrent without announce; `contact_tracker` then passes the `NULL` to `strcat` |
| `conn_lost` | `FailedReceivesNothing` | `recv` completes between timeout and cancel: its bytes are gone and `receive_data` returns -1 |
| `conn_leak` | `AbortedIsClosed` | a connect that fails or times out leaves its socket open |

## 4. Fairness

* `Client!FairSpec`: weak fairness of the main thread and of each peer thread.
  The scheduler runs every thread, and each blocking call returns within its
  timeout (`TIMEOUT_SEC`; `Conn`'s `CallsReturn`), with the exception of
  `getaddrinfo` in `init_conn` and of curl and the disk in the main thread,
  which are assumed to return. The thread's critical sections are bounded loops.
* `PieceDownload!FairSpec`: a reserved piece is stored or released. `Client`
  implements it; it is no assumption.
* `PieceTransfer!FairSpec`: the thread runs (a receive ends by its timeout, which
  is a step of the thread when nothing arrives), and the peer says what is due
  and serves requests that it can serve. No fairness of faults or unasked messages.
  `ThreadLeaves` and the mapping to `PieceDownload` hold with a peer that answers
  nothing too, because then every receive ends by its timeout.
* `Startup!FairSpec`: the main thread runs and curl returns. Chunks are bounded by
  `MaxChunks`; the parsers' loops have no bound of their own.
* `PiecesPoolLocked` and `Codec` state no fairness and no liveness.
* `Conn!FairSpec`: the owner runs, the timer fires, and a cancelled helper ends
  (`connect`, `send` and `recv` are cancellation points). Nothing makes
  `connect`, `send` or `recv` return on their own.

## 5. Proofs

Every safety invariant and action property of a passing run is a theorem, but for
`PeersAreRight`; the three refinement mappings are theorems as far as they are about
safety. Each proof module `EXTENDS` the
module that it is about, so that a theorem is about the very definitions that TLC
checks; the parameters range over all values that the module's assumption admits.

| module | about | assumes | main theorems |
|---|---|---|---|
| `ClientProofs` | `Client` | `ClientAssumption`: natural numbers, `NULL` is none and no Boolean | ownership, lifetimes, stored once, done means downloaded, `ClientImplementsDownload` |
| `PoolProofs` | `PiecesPoolLocked` | `PoolAssumption`: a natural number of pieces, `NULL` is no thread, operation or result | mutual exclusion, loop state, `PoolIsLinearizable` |
| `TransferProofs` | `PieceTransfer` | `TransferAssumption`, `NullAssumption`: lengths are positive, `NULL` is no data | stored blocks, alignment, session, `TransferImplementsDownload` |
| `ConnProofs` | `Conn` | `ConnAssumption`: the buffer is not empty | helper inside its call, exact results |
| `CodecProofs` | `Codec` | `CodecAssumption`, `NullAssumption`: see below | `NumberAndBack`; messages arrive, both decoders |
| `StartupProofs` | `Startup` and the parsers | `StartupAssumption`, `SymbolAssumption`: sizes are positive, torrents and replies are texts | types with `HashRange`, accepted files are read to the end |
| `ReadingProofs` | `Startup` and the parsers | besides, `ReadingAssumption`: torrents and plain replies consist of items | `CutFileRefused`, `FieldsAreRight`, `OneChunkIsRead` |
| `DataLemmas` | no model | | induction, recursion, slices, division |

### `Client`

By layers that each rest on the ones before:

1. `TypeCorrect`: `TypeOK`. It includes that a piece index is a piece,
   `NoPiece` or unset, so that the pool's bits never leave the pieces.
2. `PhasesCorrect`: `Phases`, which threads can exist in each phase of the main
   thread. During the join loop all threads below `thread_i` are done; hence no
   thread runs once the loop is over. `FreedAfterUse` follows.
3. `AnnouncedCorrect`: between `has_piece` and `add_piece` the piece stays
   announced. `StoredFromAnnouncerCorrect` needs besides that the peer's
   bitfield is read before anything is stored.
4. `OwnershipCorrect`: `HeldPieces`, `ExclusivePieces` and `NoPieceLost` are
   inductive together and none of them alone: that a taken piece is exclusive
   needs that held pieces are marked; that giving back one piece keeps the
   others marked needs exclusiveness; that storing keeps "marked iff held or
   stored" needs that a held piece is not yet stored. `ExclusiveCorrect`,
   `NoPieceLostCorrect` and `PiecesStoredOnce` (an action property) follow.
5. `DoneMeansDownloadedCorrect`: with no thread running nobody holds a piece,
   so by `NoPieceLost` a full pool means a complete file.
6. `PoolAccessCorrect`: every index used lies inside the allocation, also for a
   torrent with no piece.
7. `ClientImplementsDownload`: every step maps to a step of `PieceDownload` or
   leaves its variables unchanged. Reserving needs that the piece taken is
   neither stored nor reserved (4); delivering needs 2 and 5.

`StrengtheningCorrect` collects the parts that are no properties of their own.

### The pool

Types, mutual exclusion and `LoopState` are inductive together (`InvCorrect`), and
none alone: a loop's counter is bounded by the number of pieces only because it is
the size of a set of pieces (`LoopState`), and what a loop has seen stays true only
because nobody else is between lock and unlock. `HasAfterSet` and `HasAfterUnset` are
the facts about `bitfield.c`: setting or clearing a bit changes that bit and none of
the other seven of its byte, nor any other byte, at every index of the field, the
spare index `num_pieces + 1` included.

`PoolIsLinearizable` is the refinement in full: `AtomicPool`'s bitfield is the set of
indices whose bit is 1 (`Marked`), and an operation has its result once the code has
nothing left to do but to unlock (`Ret`). So the step that takes effect is the last one
before the unlock: the setting of the bit, the clearing, or the look at the last
piece, and everything else is a stutter or the call and return themselves. A result
of `get_piece_index` is the *first* undone piece because `LoopState` says that
all before it are still marked; the counts are exact for the same reason.
This is what entitles `Client` to take each pool operation as one step.

### The transfer

Four layers, each an invariant of its own on top of those before:

1. `AttemptInvCorrect` (`TypeOK` and `AttemptState`): the blocks below `downloaded`
   are in the buffer, each in its place. `StoredBlocksCorrect` follows, since a piece
   is only stored with `downloaded = NumBlocks`. Nothing is needed of the stream:
   what protects the buffer is the comparison of index and offset alone.
2. `StreamInvCorrect` (`WholeMessages` and `ReaderState`): the unit behind one that is
   not its message's last is the next of the same message, and a
   payload that is being read is at the head of the stream. Reads only
   remove a front of the stream and senders only append whole messages, which keeps
   the first; the second is what makes a receive that ends in time end at a boundary.
   `AlignedCorrect` follows.
3. `SessionInvCorrect` (`SessionState`): each of the three session messages is sent at
   most once and is read from its first unit on, or not at all. The case that needs
   it is a handshake in parts, after which the reader stands inside a message for
   as long as it takes garbage for headers; it can only leave the session by an unchoke that
   is read as one. `LoopCorrect` follows.
4. `TransferImplementsDownload`: every step is a step of `PieceDownload` with one peer
   or a stutter. It is the safety part of `ImplementsDownload`.

### `conn`

`TypesAndCallsCorrect` and `ReportsCorrect`: a helper exists exactly while its call is
under way, and before it ends `thread_data` still holds what the caller wrote into
it. Both survive the window between the timeout and the join in which the helper may
end on its own, successfully or not, which is why `PositiveIsExact` speaks of positive
results only (`conn_lost` shows what becomes of the others).

### The codecs

Bytes have any even number of values above 7, integers any number of bytes;
`CodecAssumption` bounds lengths so that a length field can hold them, as
`encode_message` takes for granted, and keeps the length byte of the
client's own handshake below half a byte. `NullAssumption` says that the two marks that the
model uses for "no message" and "a read failed" are no messages.

`NumberAndBack` says what is left of a number after both conversions: itself in the lower
half of an `int`, and itself plus all the bits above an `int` in the upper half. Its
proof writes each byte in its place as the difference of two remainders
(`DigitInPlace`), so that the sum telescopes; only the first byte can reach the sign.
The three theorems about messages and numbers, `DecodedMessageCorrect`,
`BlocksAreToldCorrect` and `MessagesArriveCorrect`, rest on it: a number of the upper
half becomes larger than any number that could be asked for, so a wrong block is never
taken, and a longer message is refused.
`MessagesArriveCorrect` places the bytes that are left in the stream in the encoding of
all that was sent, at the end of the messages that have been returned (`At`), either
at a boundary (`Idle`) or inside the next message (`InMessage`), and shows that both
kinds of step, a whole header and a part of a payload, move that place by as
much as they take. `DecodedHandshakeCorrect` takes the five fields apart, in a buffer
that may go on behind them.

### The parsers

`StartupProofs!TypeCorrect` is about any torrent, reply and heap. Each status function
of the scanner leaves `current` inside `mem` and never goes back (`NextTokenMoves`),
and behind an `e` it has gone on, which is what makes the range of the hash non-empty.
A token is a slice of `mem` (a number is read from its digits alone), so that
hashes and peers are slices of tokens (`HashesTyped`, `PeersTyped`): neither division by
`HashLength` or `PeerSize` reads past the end of the string.
`TrueMeansAllReadCorrect`: a file is accepted only where the scanner has met its
end exactly, with nothing open.

The three theorems of `ReadingProofs` are about every text that `Bencode` admits, of any
length and depth. They share one invariant of the scanner: it is *behind n items*
(`At`), with `current` where the next item lies and `list_dict_stack` its depth, or it
has taken the first tokens of the next one. `ItemRead` is the step: one call of `next()`
takes the next token of item n + 1, which is what the bytes say (`ReadsOn`), provided
that the item lies inside the data. No induction over the text is needed: the
induction is the one over steps, and each step is about two neighbours.

* `CutFileRefusedCorrect`. A file that ends early has a first item that does not lie in
  it. `CutReading` says where the scanner can be then (`CutAt`): stopped, at the items
  before or in the middle of one, or already *behind* the end of the data. The four
  `...Cut` lemmas show that each way through the item that is cut jumps over the
  end and does not stop at it, and `PastTheEnd` that the test for the end, an equality, never
  holds from there on, whatever lies on the heap. At the items before, the end of the data
  is met with a dictionary open, since the depth there is positive. So `next()` never
  returns END, which is the only way to true; `TrueMeansAllReadCorrect` gives the rest.
* `OneChunkIsReadCorrect`. `Understood` counts the ten tokens of the script of
  `tracker_response.c` against the six items of a plain reply. That the data is
  the whole reply is an invariant about curl's callback (`ReplyReading`, `OneChunkThere`):
  chunks replace each other, so one chunk and what is still to come are the reply.
* `FieldsAreRightCorrect`. `WholeReading` is the invariant, with `ParsedWell`: nothing has
  gone wrong yet and the parser is behind n items (`ParsingAt`), or the torrent has been
  refused and should be, or it has been understood and the fields are right. `ParsingAt`
  says what the parser waits for (`GoalAt`: a marker exactly behind a key, a value
  behind its marker), that `tf` is `FieldsOf` the keys whose values have been read
  (`Valued`), and what the two pointers of `info` are (`InfoAt`): NULL until the key has
  been read, then where its value begins; NULL until the first `e` that brings
  `list_dict_stack` back to the depth of the key, then the place of that `e`. The two cases
  that need most: the hash is taken one token *after* the end of `info`, when the scanner has
  gone on to the next item (`Hashed` lags behind `Closed`, and `HashIsInfo` shows that the
  range is still that of `info`); and that no `e` inside `info` has the depth
  of the key, although `info` may hold any lists and dictionaries. Nothing can be the end of
  `info` besides: a string `e` is not mistaken for one, because its token comes from
  `str_parse` at a greater depth.

### Induction over data

The library states induction for an operator, which no installed prover can
instantiate. `DataLemmas` states it for sets instead (`Induction`: a set of naturals that has 0 and the
successor of each member has all of them; it follows from `LeastNatural`), and for
functions (`Recursion`: a loop whose body is a function has a value after every
round). With these two, what the recursive functions `Shift`, `big_endian_to_lu` and
`Number` compute is proved for every input.

### Checked by TLC only

* Everything with fairness: `Terminates`, `ReliablePeersComplete`, `ThreadLeaves`,
  `PromptPeerCompletes`, `StartupEnds`, `CallsReturn`, and the liveness part of
  `ImplementsDownload` in `Client` and `PieceTransfer`.
* `PeersAreRight`. It speaks of replies in several chunks, of which the last one
  survives, and it is no general truth: a reply can be made whose second half reads as a
  reply of its own, with other peers. It holds of replies that no part of passes
  the script, and to assume that would be to assume the property. For one chunk,
  `OneChunkIsRead` is the general statement.

## 6. What is left out

* `pthread_create`, `clock_gettime` and `malloc` are taken to succeed. The code
  does not look at their results, or joins an uninitialized thread id.
* `getaddrinfo` may fail but is taken to return.
* A bitfield message whose length differs from the torrent's. The code reads
  pieces out of whatever it has received.
* The peer's answer has the block size that was asked for. The code does not
  compare it.
* `free_pieces_pool` and `free_downloaded_file` lock their mutex and destroy it
  locked; nobody else has it by then (`NoUseAfterFree`).
* The file on disk after a failure: `remove` may fail and `fopen` in append mode
  may succeed, and `output` keeps that apart, but only a comment speaks of it.
* The peer's failures in `Client` are independent of what it was asked, so that
  `ReliablePeersComplete` supposes peers that serve every piece in full. `transfer_short`
  shows that the last one may be refused.
* Which piece a thread takes after a failure: `get_piece_index` gives the first
  undone one, often the one that failed. `Client` has that, `PieceTransfer` allows
  any missing piece; no property speaks of it.
* Piece lengths that `BLOCK_SIZE` does not divide. `NumBlocks` is the code's
  formula, which then asks for bytes behind the piece; the runs have the usual case,
  so that no property would catch it.
* What a peer does with the bytes behind a torn request. It is out of step then; that
  the next attempts run into their timeouts is the outcome that the model has.
* The peer's bitfield as bytes. `has_piece` of it is asked for the index
  `num_pieces + 1` too, which may lie behind its last byte; `Client` lets either answer
  come back, and no property speaks of the read itself.
* Strings with a NUL byte in a torrent, white space and overflow in `strtol`, and
  a string length beyond `size_t`.
* Torrents in which an unknown list or a nested dictionary holds a key word as an
  item (`IsTorrent` excludes them; the code takes the word for the key), and peers as a list of dictionaries (the request asks for the compact form,
  and the code reads no other).
* A foreign handshake whose length byte is 128 or more; and, given to `decode_message`,
  buffers shorter than the length field, or the four bytes of a keep-alive, for which it
  would compute a payload of length -1. The client reads messages with
  `read_message_from_conn` only.
* The text of the tracker request, and with it the 2048 bytes that it is put together in; `free_*` functions that only release memory.

## 7. Plan

Done: `PiecesPool`, `DownloadedFile`, `PieceDownload`, `Client`; `Bitfield`,
`AtomicPool`, `PiecesPoolLocked`; `PieceTransfer` with its session and its refinement
of `PieceDownload`; `Conn`; `Tokenizer`, `TorrentFile`, `TrackerResponse`, `Bencode`,
`Startup`; `Codec`; and the proofs of section 5.

What is left, in this order:

1. `Startup`: what is left of a torrent in which a known key comes twice, or in an
   unknown list (the last one wins, and `info` may be hashed over another range).
2. `Client` and `PiecesPoolLocked` composed by proof: `AtomicPool`'s effects are
   `Client`'s steps by definition, but no module has the threads of one over the mutex
   of the other.

`Client` and `PieceTransfer` meet in `PieceDownload`; a composition of several
threads on streams is beyond TLC at any useful bound.
