-------------------------------- MODULE Client --------------------------------
(***************************************************************************)
(* download_torrent and its threads (client.c): the main thread parses,    *)
(* contacts the tracker, starts one thread per peer, joins them all and    *)
(* writes the file; each peer thread opens a session and then takes pieces *)
(* from the shared pool until the pool is done or it has failed too often. *)
(*                                                                         *)
(* Every blocking call (connect, send, recv: all bounded by TIMEOUT_SEC)   *)
(* is one step that succeeds or, for an unreliable peer, fails: timeout,   *)
(* connection lost, malformed or unexpected message.  Pool and file        *)
(* operations are one step each, as their mutexes make them.               *)
(***************************************************************************)
EXTENDS Integers, FiniteSets

CONSTANTS
  NumPieces,     \* tf->num_pieces
  NumPeers,      \* tr->num_peers
  MaxFails,      \* PEER_MAX_FAILS
  Unreliable,    \* the peers whose calls may fail
  Announced,     \* the bitfields a peer may announce
  NULL

Peer   == 0 .. NumPeers - 1
Pieces == 0 .. NumPieces - 1

ASSUME ClientAssumption ==
  /\ NumPieces \in Nat
  /\ NumPeers \in Nat
  /\ MaxFails \in Nat
  /\ Unreliable \subseteq Peer
  /\ Announced \subseteq SUBSET Pieces
  /\ NULL \notin Nat /\ NULL \notin BOOLEAN

VARIABLES
  main_pc,           \* where the main thread is in download_torrent
  thread_i,          \* i of the spawn and of the join loop
  deferred,          \* how many of the four DEFERs are registered and not run
  result,            \* what download_torrent returns
  pc,                \* where each peer thread is
  peer_bf,           \* each thread's copy of its peer's bitfield
  piece_index,       \* each thread's current piece
  failed_attempts,
  ok,                \* d->ok
  current_bitfield,  \* of the pool
  pieces_buf, output, written

Pool == INSTANCE PiecesPool
File == INSTANCE DownloadedFile

fileVars   == <<pieces_buf, output, written>>
mainVars   == <<main_pc, thread_i, deferred, result>>
threadVars == <<pc, peer_bf, piece_index, failed_attempts, ok>>
vars       == <<mainVars, threadVars, current_bitfield, fileVars>>

\* The DEFERs of download_torrent, in the order they are registered: the
\* torrent file, the tracker response, the pool and the downloaded file.
NumDefers == 4

Init ==
  /\ main_pc = "parse" /\ thread_i = 0 /\ deferred = 1 /\ result = NULL
  /\ pc = [t \in Peer |-> "none"]
  /\ peer_bf = [t \in Peer |-> {}]
  /\ piece_index = [t \in Peer |-> NULL]
  /\ failed_attempts = [t \in Peer |-> 0]
  /\ ok = [t \in Peer |-> FALSE]
  /\ Pool!InitPool
  /\ File!InitFile
-------------------------------------------------------------------------------
(* The main thread.                                                        *)

Return(b) == main_pc' = "cleanup" /\ result' = b

ParseTorrentFile ==
  /\ main_pc = "parse"
  /\ \/ main_pc' = "contact" /\ deferred' = 2 /\ UNCHANGED result
     \/ Return(FALSE) /\ UNCHANGED deferred
  /\ UNCHANGED <<thread_i, threadVars, current_bitfield, fileVars>>

ContactTracker ==
  /\ main_pc = "contact"
  /\ \/ main_pc' = "spawn" /\ deferred' = NumDefers /\ UNCHANGED result
     \/ Return(FALSE) /\ UNCHANGED deferred
  /\ UNCHANGED <<thread_i, threadVars, current_bitfield, fileVars>>

SpawnThread ==
  /\ main_pc = "spawn"
  /\ thread_i < NumPeers
  /\ pc' = [pc EXCEPT ![thread_i] = "connect"]
  /\ thread_i' = thread_i + 1
  /\ UNCHANGED <<main_pc, deferred, result, peer_bf, piece_index, failed_attempts, ok,
                 current_bitfield, fileVars>>

AllSpawned ==
  /\ main_pc = "spawn"
  /\ thread_i = NumPeers
  /\ main_pc' = "join" /\ thread_i' = 0
  /\ UNCHANGED <<deferred, result, threadVars, current_bitfield, fileVars>>

\* Fault: the loop goes on without waiting for the thread.
JoinWithoutWaiting ==
  /\ main_pc = "join"
  /\ thread_i < NumPeers
  /\ thread_i' = thread_i + 1
  /\ UNCHANGED <<main_pc, deferred, result, threadVars, current_bitfield, fileVars>>

JoinThread ==
  /\ main_pc = "join"
  /\ thread_i < NumPeers
  /\ pc[thread_i] = "done"
  /\ thread_i' = thread_i + 1
  /\ UNCHANGED <<main_pc, deferred, result, threadVars, current_bitfield, fileVars>>

CheckDone ==
  /\ main_pc = "join"
  /\ thread_i = NumPeers
  /\ IF Pool!IsDone THEN main_pc' = "write" /\ UNCHANGED result ELSE Return(FALSE)
  /\ UNCHANGED <<thread_i, deferred, threadVars, current_bitfield, fileVars>>

WriteToFile ==
  /\ main_pc = "write"
  /\ \/ ~File!HasAllPieces /\ Return(FALSE) /\ UNCHANGED fileVars
     \/ File!HasAllPieces /\ File!OpenOutput(FALSE) /\ Return(FALSE)
     \/ /\ File!HasAllPieces
        /\ File!OpenOutput(TRUE)
        /\ main_pc' = "fwrite"
        /\ UNCHANGED result
  /\ UNCHANGED <<thread_i, deferred, threadVars, current_bitfield>>

WriteNextPiece ==
  /\ main_pc = "fwrite"
  /\ \/ File!WritePiece /\ UNCHANGED <<main_pc, result>>
     \/ written < NumPieces /\ Return(FALSE) /\ UNCHANGED fileVars  \* short fwrite
     \/ written = NumPieces /\ Return(TRUE) /\ UNCHANGED fileVars
  /\ UNCHANGED <<thread_i, deferred, threadVars, current_bitfield>>

\* DEFERs run last registered first.
Cleanup ==
  /\ main_pc = "cleanup"
  /\ IF deferred > 0
     THEN deferred' = deferred - 1 /\ UNCHANGED main_pc
     ELSE main_pc' = "done" /\ UNCHANGED deferred
  /\ UNCHANGED <<thread_i, result, threadVars, current_bitfield, fileVars>>

Main ==
  \/ ParseTorrentFile \/ ContactTracker \/ SpawnThread \/ AllSpawned
  \/ JoinThread \/ CheckDone \/ WriteToFile \/ WriteNextPiece \/ Cleanup
-------------------------------------------------------------------------------
(* The peer threads: download_torrent_thread_fun.                          *)

Goto(t, from, to) == pc[t] = from /\ pc' = [pc EXCEPT ![t] = to]

Fails(t, from) == t \in Unreliable /\ Goto(t, from, "return")

InitConn(t) ==
  /\ Goto(t, "connect", "handshake") \/ Fails(t, "connect")
  /\ UNCHANGED <<mainVars, peer_bf, piece_index, failed_attempts, ok,
                 current_bitfield, fileVars>>

Handshake(t) ==
  /\ Goto(t, "handshake", "bitfield") \/ Fails(t, "handshake")
  /\ UNCHANGED <<mainVars, peer_bf, piece_index, failed_attempts, ok,
                 current_bitfield, fileVars>>

ReadBitfield(t) ==
  /\ \/ /\ Goto(t, "bitfield", "interested")
        /\ \E bf \in Announced : peer_bf' = [peer_bf EXCEPT ![t] = bf]
     \/ Fails(t, "bitfield") /\ UNCHANGED peer_bf
  /\ UNCHANGED <<mainVars, piece_index, failed_attempts, ok, current_bitfield, fileVars>>

SendInterested(t) ==
  /\ Goto(t, "interested", "state") \/ Fails(t, "interested")
  /\ UNCHANGED <<mainVars, peer_bf, piece_index, failed_attempts, ok,
                 current_bitfield, fileVars>>

\* Only an Unchoke as the very next message leads to the download loop.
ReadState(t) ==
  /\ \/ /\ Goto(t, "state", "loop")
        /\ failed_attempts' = [failed_attempts EXCEPT ![t] = 0]
     \/ Fails(t, "state") /\ UNCHANGED failed_attempts
  /\ UNCHANGED <<mainVars, peer_bf, piece_index, ok, current_bitfield, fileVars>>

StayInLoop(t) == ~Pool!IsDone /\ failed_attempts[t] < MaxFails

LoopTest(t) ==
  /\ \/ StayInLoop(t) /\ Goto(t, "loop", "get") /\ UNCHANGED ok
     \/ /\ ~StayInLoop(t)
        /\ Goto(t, "loop", "return")
        /\ ok' = [ok EXCEPT ![t] = TRUE]
  /\ UNCHANGED <<mainVars, peer_bf, piece_index, failed_attempts, current_bitfield, fileVars>>

TakePiece(t) ==
  /\ Goto(t, "get", "has")
  /\ \E i \in Pieces \cup {Pool!NoPiece} :
       /\ Pool!GetPieceIndex(i)
       /\ piece_index' = [piece_index EXCEPT ![t] = i]
  /\ UNCHANGED <<mainVars, peer_bf, failed_attempts, ok, fileVars>>

\* Fault: the peer is asked for every piece it did not deny by a bitfield.
AssumeSeeder(t) ==
  /\ Goto(t, "has", IF piece_index[t] = Pool!NoPiece THEN "undone" ELSE "download")
  /\ UNCHANGED <<mainVars, peer_bf, piece_index, failed_attempts, ok,
                 current_bitfield, fileVars>>

\* has_piece(peer_bf, NoPiece) reads a spare bit of the peer's bitfield, or
\* a byte past its end: either answer is possible.
HasPiece(t) ==
  /\ \/ piece_index[t] \in peer_bf[t] /\ Goto(t, "has", "download")
     \/ piece_index[t] \notin peer_bf[t] /\ Goto(t, "has", "undone")
     \/ piece_index[t] = Pool!NoPiece /\ Goto(t, "has", "download")
  /\ UNCHANGED <<mainVars, peer_bf, piece_index, failed_attempts, ok,
                 current_bitfield, fileVars>>

\* No peer serves a piece that the torrent does not have.
DownloadPiece(t) ==
  /\ \/ piece_index[t] \in Pieces /\ Goto(t, "download", "add")
     \/ t \in Unreliable /\ Goto(t, "download", "undone")
     \/ piece_index[t] = Pool!NoPiece /\ Goto(t, "download", "undone")
  /\ UNCHANGED <<mainVars, peer_bf, piece_index, failed_attempts, ok,
                 current_bitfield, fileVars>>

\* Fault: the failed branch leaves the piece marked in the pool.
ForgetPiece(t) ==
  /\ Goto(t, "undone", "loop")
  /\ failed_attempts' = [failed_attempts EXCEPT ![t] = @ + 1]
  /\ UNCHANGED <<mainVars, peer_bf, piece_index, ok, current_bitfield, fileVars>>

\* Fault: the failed branch is not counted.
GiveBackUncounted(t) ==
  /\ Goto(t, "undone", "loop")
  /\ Pool!MarkAsUndone(piece_index[t])
  /\ UNCHANGED <<mainVars, peer_bf, piece_index, failed_attempts, ok, fileVars>>

GiveBack(t) ==
  /\ Goto(t, "undone", "loop")
  /\ Pool!MarkAsUndone(piece_index[t])
  /\ failed_attempts' = [failed_attempts EXCEPT ![t] = @ + 1]
  /\ UNCHANGED <<mainVars, peer_bf, piece_index, ok, fileVars>>

StorePiece(t) ==
  /\ Goto(t, "add", "loop")
  /\ File!AddPiece(piece_index[t], t)
  /\ UNCHANGED <<mainVars, peer_bf, piece_index, failed_attempts, ok, current_bitfield>>

\* The thread's own DEFERs (connection, messages, bitfield), then its end.
ReturnFromThread(t) ==
  /\ Goto(t, "return", "done")
  /\ UNCHANGED <<mainVars, peer_bf, piece_index, failed_attempts, ok,
                 current_bitfield, fileVars>>

Thread(t) ==
  \/ InitConn(t) \/ Handshake(t) \/ ReadBitfield(t) \/ SendInterested(t) \/ ReadState(t)
  \/ LoopTest(t) \/ TakePiece(t) \/ HasPiece(t) \/ DownloadPiece(t)
  \/ GiveBack(t) \/ StorePiece(t) \/ ReturnFromThread(t)
-------------------------------------------------------------------------------
Terminated == main_pc = "done" /\ UNCHANGED vars

Next == Main \/ (\E t \in Peer : Thread(t)) \/ Terminated

Spec == Init /\ [][Next]_vars

\* The scheduler runs every thread, and every call of a session returns
\* within its timeout.
FairSpec == Spec /\ WF_vars(Main) /\ \A t \in Peer : WF_vars(Thread(t))
-------------------------------------------------------------------------------
(* Properties.                                                             *)

MainStates == {"parse", "contact", "spawn", "join", "write", "fwrite", "cleanup", "done"}
ThreadStates == {"none", "connect", "handshake", "bitfield", "interested", "state", "loop",
                 "get", "has", "download", "undone", "add", "return", "done"}

\* The type invariant.
TypeOK ==
  /\ main_pc \in MainStates
  /\ thread_i \in 0 .. NumPeers
  /\ deferred \in 0 .. NumDefers
  /\ result \in BOOLEAN \cup {NULL}
  /\ pc \in [Peer -> ThreadStates]
  /\ peer_bf \in [Peer -> SUBSET Pieces]
  /\ piece_index \in [Peer -> Pieces \cup {Pool!NoPiece, NULL}]
  /\ failed_attempts \in [Peer -> Nat]
  /\ ok \in [Peer -> BOOLEAN]
  /\ current_bitfield \subseteq Pieces
  /\ pieces_buf \in [Pieces -> Peer \cup {NULL}]
  /\ output \in {"before", "removed", "created", "appended"}
  /\ written \in 0 .. NumPieces

\* Thread t is between get_piece_index and the matching mark_as_undone or
\* add_piece.
Holding(t) == pc[t] \in {"has", "download", "undone", "add"}
Holds(t, i) == Holding(t) /\ piece_index[t] = i

\* At most one thread works on a piece: what the pool is for (pieces_pool.h
\* calls it a thread-safe structure to extract piece indexes).
ExclusivePieces ==
  \A t, u \in Peer : \A i \in Pieces : Holds(t, i) /\ Holds(u, i) => t = u

\* The pool, the threads and the file agree: a piece is marked in the pool
\* exactly when it is in the file or in the hands of a thread.  A thread that
\* gave up without mark_as_undone would take its piece out of the download.
NoPieceLost ==
  \A i \in Pieces :
    i \in current_bitfield <=> pieces_buf[i] # NULL \/ \E t \in Peer : Holds(t, i)

\* "All pieces have been downloaded" is true when download_torrent prints it, and
\* when it returns true: the pool only knows which pieces were handed out, so
\* this rests on every thread having been joined.
DoneMeansDownloaded ==
  main_pc \in {"write", "fwrite"} \/ result = TRUE => File!HasAllPieces

\* No piece is kept that its peer did not announce, although bitfield, index
\* and buffer travel through several steps of the thread.
StoredFromAnnouncer ==
  \A i \in Pieces : pieces_buf[i] # NULL => i \in peer_bf[pieces_buf[i]]

\* download_torrent frees nothing that a running thread still uses.
NoUseAfterFree ==
  (\E t \in Peer : pc[t] \notin {"none", "done"}) => deferred = NumDefers

\* The indexes the threads pass to the pool's bitfield lie inside its bytes,
\* NoPiece included, and also when the torrent has no piece at all.
PoolAccessInBounds ==
  \A t \in Peer : Holding(t) => piece_index[t] \in Pool!PoolBits

\* A piece is added once: add_piece would leak the first copy.
StoredOnce ==
  [][\A i \in Pieces : pieces_buf[i] # NULL => pieces_buf'[i] = pieces_buf[i]]_vars

\* download_torrent returns whatever the peers do.
Terminates == <>(main_pc = "done")

\* The peer of t has failed: its session, a download, or a piece it does not have.
PeerFails(t) ==
  \/ pc[t] = "undone" /\ piece_index[t] \in Pieces
  \/ pc[t] \in {"return", "done"} /\ ~ok[t]

\* As long as no peer ever fails, every piece gets into the file, although threads
\* leave when all pieces are handed out, and may have tried to take one too many.
ReliablePeersComplete ==
  [](\A t \in Peer : ~PeerFails(t)) =>
    ((main_pc = "spawn" /\ NumPeers > 0) ~> File!HasAllPieces)

\* What the proofs of these properties need besides: see ClientProofs.

\* Which threads exist and run in each phase of the main thread.
Phases ==
  /\ main_pc \in {"parse", "contact"} => \A t \in Peer : pc[t] = "none"
  /\ main_pc = "spawn" => \A t \in Peer : t >= thread_i => pc[t] = "none"
  /\ main_pc = "join" => \A t \in Peer : t < thread_i => pc[t] = "done"
  /\ main_pc \in {"write", "fwrite", "cleanup", "done"} =>
       \A t \in Peer : pc[t] \in {"none", "done"}
  /\ main_pc \in {"spawn", "join", "write", "fwrite"} => deferred = NumDefers
  /\ result = NULL <=> main_pc \notin {"cleanup", "done"}

\* A piece in the hands of a thread is marked in the pool and not yet stored.
HeldPieces ==
  \A t \in Peer : Holding(t) =>
    /\ piece_index[t] # NULL
    /\ piece_index[t] \in Pieces =>
         piece_index[t] \in current_bitfield /\ pieces_buf[piece_index[t]] = NULL

\* The outcome of has_piece stays true until the piece is stored.
AnnouncedPieces ==
  \A t \in Peer :
    /\ pc[t] = "add" => piece_index[t] \in Pieces
    /\ pc[t] \in {"download", "add"} /\ piece_index[t] \in Pieces =>
         piece_index[t] \in peer_bf[t]

\* A thread stores nothing before it has its peer's bitfield.
StoredAfterBitfield ==
  \A i \in Pieces : pieces_buf[i] # NULL =>
    pc[pieces_buf[i]] \notin {"none", "connect", "handshake", "bitfield"}

\* The parts of the inductive invariant that are not properties of their own.
Strengthening == Phases /\ HeldPieces /\ AnnouncedPieces /\ StoredAfterBitfield

\* What download_torrent promises, whatever its threads do: pieces are reserved,
\* given back or stored one owner at a time, the file is delivered only with all
\* of them, and it ends only when nobody holds a piece.
Download == INSTANCE PieceDownload WITH
  Piece    <- Pieces,
  reserved <- {r \in Peer \X Pieces : Holds(r[1], r[2])},
  stored   <- {i \in Pieces : pieces_buf[i] # NULL},
  outcome  <- IF result = NULL THEN "running"
              ELSE IF result = TRUE THEN "delivered" ELSE "abandoned"

\* The threads and the main thread implement that promise; no reservation lasts
\* for ever, because every blocking call of a thread has a timeout.
ImplementsDownload == Download!FairSpec

\* What comments of the source say, and the code does not do.

\* client.c:23-24: a peer is aborted after PEER_MAX_FAILS failed attempts, so
\* pieces can only be missing in the end when every working peer has used them.
IncompleteOnlyAfterMaxFails ==
  main_pc = "join" /\ thread_i = NumPeers /\ ~Pool!IsDone =>
    \A t \in Peer : ok[t] => failed_attempts[t] >= MaxFails
===============================================================================
