----------------------------- MODULE ClientProofs -----------------------------
(***************************************************************************)
(* Theorems about Client for every number of pieces and of peers, every    *)
(* bound on failed attempts and every way the peers behave.                *)
(***************************************************************************)
EXTENDS Client, TLAPS

\* Every reachable state has the types that TypeOK gives the variables: among
\* them, that the pool never marks an index that is not a piece.
THEOREM TypeCorrect == Spec => []TypeOK
<1>1. Init => TypeOK
  BY ClientAssumption
  DEF Init, TypeOK, Peer, Pieces, NumDefers, MainStates, ThreadStates, Pool!InitPool,
      File!InitFile, File!Pieces
<1>2. TypeOK /\ [Next]_vars => TypeOK'
  <2> SUFFICES ASSUME TypeOK, [Next]_vars PROVE TypeOK'
    OBVIOUS
  <2> USE ClientAssumption
      DEF TypeOK, Peer, Pieces, NumDefers, MainStates, ThreadStates, mainVars, threadVars,
          fileVars, Return, Goto, Fails
  <2>1. CASE ParseTorrentFile
    <3>1. main_pc' \in MainStates /\ deferred' \in 0 .. NumDefers
      BY <2>1 DEF ParseTorrentFile
    <3>2. result' \in BOOLEAN \cup {NULL}
      BY <2>1 DEF ParseTorrentFile
    <3> QED
      BY <2>1, <3>1, <3>2 DEF ParseTorrentFile
  <2>2. CASE ContactTracker
    <3>1. main_pc' \in MainStates /\ deferred' \in 0 .. NumDefers
      BY <2>2 DEF ContactTracker
    <3>2. result' \in BOOLEAN \cup {NULL}
      BY <2>2 DEF ContactTracker
    <3> QED
      BY <2>2, <3>1, <3>2 DEF ContactTracker
  <2>3. CASE SpawnThread
    BY <2>3 DEF SpawnThread
  <2>4. CASE AllSpawned
    BY <2>4 DEF AllSpawned
  <2>5. CASE JoinThread
    BY <2>5 DEF JoinThread
  <2>6. CASE CheckDone
    BY <2>6 DEF CheckDone
  <2>7. CASE WriteToFile
    BY <2>7 DEF WriteToFile, File!OpenOutput
  <2>8. CASE WriteNextPiece
    <3>1. main_pc' \in MainStates /\ written' \in 0 .. NumPieces
      BY <2>8 DEF WriteNextPiece, File!WritePiece
    <3>2. result' \in BOOLEAN \cup {NULL}
      BY <2>8 DEF WriteNextPiece
    <3>3. UNCHANGED <<pieces_buf, output>>
      BY <2>8 DEF WriteNextPiece, File!WritePiece
    <3> QED
      BY <2>8, <3>1, <3>2, <3>3 DEF WriteNextPiece
  <2>9. CASE Cleanup
    BY <2>9 DEF Cleanup
  <2>10. ASSUME NEW t \in Peer, Thread(t) PROVE TypeOK'
    <3>1. CASE InitConn(t)
      BY <3>1 DEF InitConn
    <3>2. CASE Handshake(t)
      BY <3>2 DEF Handshake
    <3>3. CASE ReadBitfield(t)
      <4>1. pc' \in [Peer -> ThreadStates]
        BY <3>3 DEF ReadBitfield
      <4>2. peer_bf' \in [Peer -> SUBSET Pieces]
        <5>1. ASSUME NEW bf \in Announced, peer_bf' = [peer_bf EXCEPT ![t] = bf]
              PROVE  peer_bf' \in [Peer -> SUBSET Pieces]
          BY <5>1
        <5> QED
          BY <3>3, <5>1 DEF ReadBitfield
      <4> QED
        BY <3>3, <4>1, <4>2 DEF ReadBitfield
    <3>4. CASE SendInterested(t)
      BY <3>4 DEF SendInterested
    <3>5. CASE ReadState(t)
      <4>1. pc' \in [Peer -> ThreadStates]
        BY <3>5 DEF ReadState
      <4>2. failed_attempts' \in [Peer -> Nat]
        BY <3>5 DEF ReadState
      <4> QED
        BY <3>5, <4>1, <4>2 DEF ReadState
    <3>6. CASE LoopTest(t)
      BY <3>6 DEF LoopTest
    <3>7. CASE TakePiece(t)
      <4>1. /\ pc' \in [Peer -> ThreadStates]
            /\ piece_index' \in [Peer -> Pieces \cup {Pool!NoPiece, NULL}]
        BY <3>7 DEF TakePiece
      <4>2. current_bitfield' \subseteq Pieces
        <5>1. PICK i \in Pieces \cup {Pool!NoPiece} : Pool!GetPieceIndex(i)
          BY <3>7 DEF TakePiece
        <5>2. \/ i \in Pieces /\ current_bitfield' = current_bitfield \cup {i}
              \/ UNCHANGED current_bitfield
          BY <5>1 DEF Pool!GetPieceIndex, Pool!FirstUndone, Pool!Pieces, Pieces
        <5> QED
          BY <5>2
      <4> QED
        BY <3>7, <4>1, <4>2 DEF TakePiece
    <3>8. CASE HasPiece(t)
      BY <3>8 DEF HasPiece
    <3>9. CASE DownloadPiece(t)
      BY <3>9 DEF DownloadPiece
    <3>10. CASE GiveBack(t)
      <4>1. pc' \in [Peer -> ThreadStates] /\ failed_attempts' \in [Peer -> Nat]
        BY <3>10 DEF GiveBack
      <4>2. current_bitfield' \subseteq Pieces
        BY <3>10 DEF GiveBack, Pool!MarkAsUndone
      <4> QED
        BY <3>10, <4>1, <4>2 DEF GiveBack
    <3>11. CASE StorePiece(t)
      BY <3>11 DEF StorePiece, File!AddPiece
    <3>12. CASE ReturnFromThread(t)
      BY <3>12 DEF ReturnFromThread
    <3> QED
      BY <2>10, <3>1, <3>2, <3>3, <3>4, <3>5, <3>6, <3>7, <3>8, <3>9, <3>10, <3>11, <3>12
      DEF Thread
  <2>11. CASE UNCHANGED vars
    BY <2>11 DEF vars
  <2> QED
    BY <2>1, <2>2, <2>3, <2>4, <2>5, <2>6, <2>7, <2>8, <2>9, <2>10, <2>11
    DEF Next, Main, Terminated
<1> QED
  BY <1>1, <1>2, PTL DEF Spec

\* A thread only takes steps between its start and its end, and never touches
\* the state of the main thread.
LEMMA ThreadMoves ==
  ASSUME TypeOK, NEW t \in Peer, Thread(t)
  PROVE  /\ pc[t] \notin {"none", "done"}
         /\ \E x \in ThreadStates \ {"none"} : pc' = [pc EXCEPT ![t] = x]
         /\ UNCHANGED mainVars
BY DEF Thread, InitConn, Handshake, ReadBitfield, SendInterested, ReadState, LoopTest, TakePiece,
       HasPiece, DownloadPiece, GiveBack, StorePiece, ReturnFromThread, Goto, Fails, ThreadStates

\* The phases of the main thread bracket the life of the peer threads: none runs
\* before the spawn loop has reached it, none after the join loop.
THEOREM PhasesCorrect == Spec => []Phases
<1>1. Init => Phases
  BY ClientAssumption DEF Init, Phases
<1>2. TypeOK /\ Phases /\ [Next]_vars => Phases'
  <2> SUFFICES ASSUME TypeOK, Phases, [Next]_vars PROVE Phases'
    OBVIOUS
  <2> USE ClientAssumption DEF Phases
  <2>1. CASE ParseTorrentFile
    BY <2>1 DEF ParseTorrentFile, Return, threadVars
  <2>2. CASE ContactTracker
    BY <2>2 DEF ContactTracker, Return, threadVars
  <2>3. CASE SpawnThread
    BY <2>3 DEF SpawnThread, TypeOK, Peer
  <2>4. CASE AllSpawned
    BY <2>4 DEF AllSpawned, threadVars, Peer
  <2>5. CASE JoinThread
    BY <2>5 DEF JoinThread, threadVars, TypeOK, Peer
  <2>6. CASE CheckDone
    <3>1. \A t \in Peer : pc'[t] = "done"
      BY <2>6 DEF CheckDone, threadVars, Peer
    <3>2. result' = NULL <=> main_pc' \notin {"cleanup", "done"}
      <4>1. CASE Pool!IsDone
        BY <2>6, <4>1 DEF CheckDone
      <4>2. CASE ~Pool!IsDone
        BY <2>6, <4>2 DEF CheckDone, Return
      <4> QED
        BY <4>1, <4>2
    <3>3. main_pc' \in {"write", "cleanup"} /\ deferred' = NumDefers
      BY <2>6 DEF CheckDone, Return
    <3> QED
      BY <3>1, <3>2, <3>3
  <2>7. CASE WriteToFile
    BY <2>7 DEF WriteToFile, Return, threadVars
  <2>8. CASE WriteNextPiece
    BY <2>8 DEF WriteNextPiece, Return, threadVars
  <2>9. CASE Cleanup
    BY <2>9 DEF Cleanup, threadVars
  <2>10. ASSUME NEW t \in Peer, Thread(t) PROVE Phases'
    BY <2>10, ThreadMoves DEF mainVars, TypeOK, Peer
  <2>11. CASE UNCHANGED vars
    BY <2>11 DEF vars, mainVars, threadVars
  <2> QED
    BY <2>1, <2>2, <2>3, <2>4, <2>5, <2>6, <2>7, <2>8, <2>9, <2>10, <2>11
    DEF Next, Main, Terminated
<1> QED
  BY <1>1, <1>2, TypeCorrect, PTL DEF Spec

\* download_torrent never frees what a running thread still uses.
THEOREM FreedAfterUse == Spec => []NoUseAfterFree
<1>1. TypeOK /\ Phases => NoUseAfterFree
  BY DEF TypeOK, Phases, NoUseAfterFree, MainStates
<1> QED
  BY <1>1, TypeCorrect, PhasesCorrect, PTL

\* What get_piece_index returns when nothing is left is not an index.
LEMMA NoPieceIsNoPiece == Pool!NoPiece \notin Pieces
BY ClientAssumption DEF Pool!NoPiece, Pieces

\* The answer of has_piece holds until the piece is stored, and only an index
\* that is a piece reaches add_piece.
THEOREM AnnouncedCorrect == Spec => []AnnouncedPieces
<1>1. Init => AnnouncedPieces
  BY DEF Init, AnnouncedPieces
<1>2. TypeOK /\ AnnouncedPieces /\ [Next]_vars => AnnouncedPieces'
  <2> SUFFICES ASSUME TypeOK, AnnouncedPieces, [Next]_vars PROVE AnnouncedPieces'
    OBVIOUS
  <2> USE DEF AnnouncedPieces, TypeOK
  <2>1. CASE SpawnThread
    BY <2>1 DEF SpawnThread
  <2>2. CASE UNCHANGED threadVars
    BY <2>2 DEF threadVars
  <2>3. ASSUME NEW t \in Peer, Thread(t) PROVE AnnouncedPieces'
    <3>1. CASE HasPiece(t)
      BY <3>1, NoPieceIsNoPiece DEF HasPiece, Goto
    <3>2. CASE DownloadPiece(t)
      BY <3>2 DEF DownloadPiece, Goto
    <3>3. CASE ~HasPiece(t) /\ ~DownloadPiece(t)
      <4>1. \E x \in ThreadStates \ {"download", "add"} : pc' = [pc EXCEPT ![t] = x]
        BY <2>3, <3>3
        DEF Thread, InitConn, Handshake, ReadBitfield, SendInterested, ReadState, LoopTest,
            TakePiece, GiveBack, StorePiece, ReturnFromThread, Goto, Fails, ThreadStates
      <4>2. \A u \in Peer \ {t} : peer_bf'[u] = peer_bf[u] /\ piece_index'[u] = piece_index[u]
        BY <2>3, <3>3
        DEF Thread, InitConn, Handshake, ReadBitfield, SendInterested, ReadState, LoopTest,
            TakePiece, GiveBack, StorePiece, ReturnFromThread
      <4> QED
        BY <4>1, <4>2
    <3> QED
      BY <3>1, <3>2, <3>3
  <2> QED
    BY <2>1, <2>2, <2>3
    DEF Next, Main, Terminated, vars, ParseTorrentFile, ContactTracker, AllSpawned, JoinThread,
        CheckDone, WriteToFile, WriteNextPiece, Cleanup
<1> QED
  BY <1>1, <1>2, TypeCorrect, PTL DEF Spec

\* Where the pool, the hands of the threads and the file stand in relation to
\* each other.  ExclusivePieces alone is not inductive: that a second thread
\* cannot take a held piece follows from its bit, and that a given back piece is
\* free for all from its not being stored.
Ownership == HeldPieces /\ ExclusivePieces /\ NoPieceLost

\* The steps that move no piece between the pool, the threads and the file.
LEMMA QuietStep ==
  ASSUME Ownership,
         \A u \in Peer : Holding(u)' <=> Holding(u),
         UNCHANGED <<piece_index, current_bitfield, pieces_buf>>
  PROVE  Ownership'
BY DEF Ownership, HeldPieces, ExclusivePieces, NoPieceLost, Holds

\* The steps of a thread that are quiet in this sense.
LEMMA QuietThread ==
  ASSUME TypeOK, NEW t \in Peer, Thread(t),
         ~TakePiece(t), ~GiveBack(t), ~StorePiece(t)
  PROVE  /\ \A u \in Peer : Holding(u)' <=> Holding(u)
         /\ UNCHANGED <<piece_index, current_bitfield, pieces_buf>>
<1>1. CASE HasPiece(t) \/ DownloadPiece(t)
  BY <1>1 DEF HasPiece, DownloadPiece, Goto, Holding, TypeOK, fileVars
<1>2. CASE ~HasPiece(t) /\ ~DownloadPiece(t)
  <2>1. /\ pc[t] \notin {"has", "download", "undone", "add"}
        /\ \E x \in ThreadStates \ {"has", "download", "undone", "add"} :
             pc' = [pc EXCEPT ![t] = x]
    BY <1>2
    DEF Thread, InitConn, Handshake, ReadBitfield, SendInterested, ReadState, LoopTest,
        ReturnFromThread, Goto, Fails, ThreadStates
  <2>2. UNCHANGED <<piece_index, current_bitfield, pieces_buf>>
    BY <1>2
    DEF Thread, InitConn, Handshake, ReadBitfield, SendInterested, ReadState, LoopTest,
        ReturnFromThread, fileVars
  <2> QED
    BY <2>1, <2>2 DEF Holding, TypeOK
<1> QED
  BY <1>1, <1>2

\* get_piece_index moves its piece from the pool into the hands of one thread.
LEMMA TakeKeepsOwnership ==
  ASSUME TypeOK, Ownership, NEW t \in Peer, TakePiece(t)
  PROVE  Ownership'
<1> PICK i \in Pieces \cup {Pool!NoPiece} :
      Pool!GetPieceIndex(i) /\ piece_index' = [piece_index EXCEPT ![t] = i]
  BY DEF TakePiece
<1>1. /\ ~Holding(t) /\ Holding(t)' /\ piece_index'[t] = i
      /\ \A u \in Peer \ {t} : Holding(u)' <=> Holding(u)
      /\ \A u \in Peer \ {t} : piece_index'[u] = piece_index[u]
      /\ UNCHANGED pieces_buf
  BY DEF TakePiece, Goto, Holding, TypeOK, fileVars
<1>2. i # NULL /\ \A j \in Pieces : j # NULL
  BY ClientAssumption DEF Pieces, Pool!NoPiece
<1>3. CASE i \in Pieces /\ i \notin current_bitfield /\ current_bitfield' = current_bitfield \cup {i}
  <2>1. pieces_buf[i] = NULL /\ \A u \in Peer : ~Holds(u, i)
    BY <1>3 DEF Ownership, NoPieceLost
  <2>2. HeldPieces'
    BY <1>1, <1>2, <1>3, <2>1 DEF Ownership, HeldPieces
  <2>3. ExclusivePieces'
    BY <1>1, <2>1 DEF Ownership, ExclusivePieces, Holds
  <2>4. NoPieceLost'
    BY <1>1, <1>3 DEF Ownership, NoPieceLost, Holds
  <2> QED
    BY <2>2, <2>3, <2>4 DEF Ownership
<1>4. CASE i \notin Pieces /\ UNCHANGED current_bitfield
  <2>1. HeldPieces'
    BY <1>1, <1>2, <1>4 DEF Ownership, HeldPieces
  <2>2. ExclusivePieces'
    BY <1>1, <1>4 DEF Ownership, ExclusivePieces, Holds
  <2>3. NoPieceLost'
    BY <1>1, <1>4 DEF Ownership, NoPieceLost, Holds
  <2> QED
    BY <2>1, <2>2, <2>3 DEF Ownership
<1> QED
  BY <1>3, <1>4, NoPieceIsNoPiece
  DEF Pool!GetPieceIndex, Pool!FirstUndone, Pool!Pieces, Pieces

\* mark_as_undone moves the piece of a failed attempt back into the pool.
LEMMA GiveBackKeepsOwnership ==
  ASSUME TypeOK, Ownership, NEW t \in Peer, GiveBack(t)
  PROVE  Ownership'
<1> DEFINE i == piece_index[t]
<1>1. /\ Holding(t) /\ ~Holding(t)'
      /\ \A u \in Peer \ {t} : Holding(u)' <=> Holding(u)
      /\ current_bitfield' = current_bitfield \ {i}
      /\ UNCHANGED <<piece_index, pieces_buf>>
  BY DEF GiveBack, Goto, Holding, TypeOK, fileVars, Pool!MarkAsUndone
<1>2. \A u \in Peer \ {t} : i \in Pieces => ~Holds(u, i)
  BY <1>1 DEF Ownership, ExclusivePieces, Holds
<1>3. HeldPieces'
  BY <1>1, <1>2 DEF Ownership, HeldPieces, Holds
<1>4. ExclusivePieces'
  BY <1>1 DEF Ownership, ExclusivePieces, Holds
<1>5. NoPieceLost'
  BY <1>1, <1>2 DEF Ownership, NoPieceLost, HeldPieces, Holds
<1> QED
  BY <1>3, <1>4, <1>5 DEF Ownership

\* add_piece moves a downloaded piece from the hands of its thread into the file.
LEMMA StoreKeepsOwnership ==
  ASSUME TypeOK, AnnouncedPieces, Ownership, NEW t \in Peer, StorePiece(t)
  PROVE  Ownership'
<1> DEFINE i == piece_index[t]
<1>1. /\ Holding(t) /\ ~Holding(t)' /\ i \in Pieces
      /\ \A u \in Peer \ {t} : Holding(u)' <=> Holding(u)
      /\ pieces_buf' = [pieces_buf EXCEPT ![i] = t]
      /\ UNCHANGED <<piece_index, current_bitfield>>
  BY DEF StorePiece, Goto, Holding, TypeOK, AnnouncedPieces, File!AddPiece
<1>2. \A u \in Peer \ {t} : ~Holds(u, i)
  BY <1>1 DEF Ownership, ExclusivePieces, Holds
<1>3. t # NULL
  BY ClientAssumption DEF Peer
<1>4. HeldPieces'
  BY <1>1, <1>2 DEF Ownership, HeldPieces, Holds, TypeOK
<1>5. ExclusivePieces'
  BY <1>1 DEF Ownership, ExclusivePieces, Holds
<1>6. NoPieceLost'
  BY <1>1, <1>2, <1>3 DEF Ownership, NoPieceLost, HeldPieces, Holds, TypeOK
<1> QED
  BY <1>4, <1>5, <1>6 DEF Ownership

\* The three hold together: a piece is in the hands of one thread, and marked in
\* the pool exactly when it is in the file or in the hands of a thread.
THEOREM OwnershipCorrect == Spec => []Ownership
<1>1. Init => Ownership
  BY DEF Init, Ownership, HeldPieces, ExclusivePieces, NoPieceLost, Holds, Holding,
         Pool!InitPool, File!InitFile, File!Pieces, Pieces
<1>2. TypeOK /\ Phases /\ AnnouncedPieces /\ Ownership /\ [Next]_vars => Ownership'
  <2> SUFFICES ASSUME TypeOK, Phases, AnnouncedPieces, Ownership, [Next]_vars
               PROVE  Ownership'
    OBVIOUS
  <2>1. CASE SpawnThread
    <3>1. \A u \in Peer : Holding(u)' <=> Holding(u)
      BY <2>1 DEF SpawnThread, Holding, TypeOK, Phases, Peer
    <3> QED
      BY <2>1, <3>1, QuietStep DEF SpawnThread, fileVars
  <2>2. CASE UNCHANGED <<threadVars, current_bitfield, pieces_buf>>
    BY <2>2, QuietStep DEF threadVars, Holding
  <2>3. ASSUME NEW t \in Peer, TakePiece(t) PROVE Ownership'
    BY <2>3, TakeKeepsOwnership
  <2>4. ASSUME NEW t \in Peer, GiveBack(t) PROVE Ownership'
    BY <2>4, GiveBackKeepsOwnership
  <2>5. ASSUME NEW t \in Peer, StorePiece(t) PROVE Ownership'
    BY <2>5, StoreKeepsOwnership
  <2>6. ASSUME NEW t \in Peer, Thread(t), ~TakePiece(t), ~GiveBack(t), ~StorePiece(t)
        PROVE  Ownership'
    BY <2>6, QuietThread, QuietStep
  <2> QED
    BY <2>1, <2>2, <2>3, <2>4, <2>5, <2>6
    DEF Next, Main, Terminated, vars, ParseTorrentFile, ContactTracker, AllSpawned, JoinThread,
        CheckDone, WriteToFile, WriteNextPiece, Cleanup, fileVars, File!OpenOutput,
        File!WritePiece
<1> QED
  BY <1>1, <1>2, TypeCorrect, PhasesCorrect, AnnouncedCorrect, PTL DEF Spec

\* At every moment at most one thread works on a piece.
THEOREM ExclusiveCorrect == Spec => []ExclusivePieces
<1>1. Ownership => ExclusivePieces
  BY DEF Ownership
<1> QED
  BY <1>1, OwnershipCorrect, PTL

\* No failed attempt, at whatever point it fails, takes its piece out of the download.
THEOREM NoPieceLostCorrect == Spec => []NoPieceLost
<1>1. Ownership => NoPieceLost
  BY DEF Ownership
<1> QED
  BY <1>1, OwnershipCorrect, PTL

\* A piece is never stored twice: the copy of the first thread would be leaked.
THEOREM PiecesStoredOnce == Spec => StoredOnce
<1>1. ASSUME TypeOK, AnnouncedPieces, Ownership, [Next]_vars, NEW i \in Pieces, pieces_buf[i] # NULL
      PROVE  pieces_buf'[i] = pieces_buf[i]
  <2>1. ASSUME NEW t \in Peer, StorePiece(t) PROVE pieces_buf'[i] = pieces_buf[i]
    <3>1. Holding(t) /\ piece_index[t] \in Pieces
      BY <1>1, <2>1 DEF StorePiece, Goto, Holding, AnnouncedPieces
    <3>2. pieces_buf[piece_index[t]] = NULL
      BY <1>1, <3>1 DEF Ownership, HeldPieces
    <3> QED
      BY <1>1, <2>1, <3>2 DEF StorePiece, File!AddPiece, TypeOK
  <2>2. CASE UNCHANGED pieces_buf
    BY <2>2
  <2>3. ASSUME NEW t \in Peer, Thread(t), ~StorePiece(t) PROVE UNCHANGED pieces_buf
    BY <2>3
    DEF Thread, InitConn, Handshake, ReadBitfield, SendInterested, ReadState, LoopTest, TakePiece,
        HasPiece, DownloadPiece, GiveBack, ReturnFromThread, fileVars
  <2> QED
    BY <1>1, <2>1, <2>2, <2>3
    DEF Next, Main, Terminated, vars, ParseTorrentFile, ContactTracker, SpawnThread, AllSpawned,
        JoinThread, CheckDone, WriteToFile, WriteNextPiece, Cleanup, fileVars, File!OpenOutput,
        File!WritePiece
<1>2. TypeOK /\ AnnouncedPieces /\ Ownership /\ [Next]_vars
        => [\A i \in Pieces : pieces_buf[i] # NULL => pieces_buf'[i] = pieces_buf[i]]_vars
  BY <1>1
<1> QED
  BY <1>2, TypeCorrect, AnnouncedCorrect, OwnershipCorrect, PTL DEF Spec, StoredOnce

\* A stored piece came from a thread that had got as far as its peer's bitfield, which
\* announces the piece.
THEOREM StoredPiecesCorrect == Spec => [](StoredAfterBitfield /\ StoredFromAnnouncer)
<1> DEFINE Inv == StoredAfterBitfield /\ StoredFromAnnouncer
<1>1. Init => Inv
  BY DEF Init, File!InitFile, File!Pieces, Pieces, StoredAfterBitfield, StoredFromAnnouncer
<1>2. TypeOK /\ Phases /\ AnnouncedPieces /\ Inv /\ [Next]_vars => Inv'
  <2> SUFFICES ASSUME TypeOK, Phases, AnnouncedPieces, Inv, [Next]_vars PROVE Inv'
    OBVIOUS
  <2> USE DEF StoredAfterBitfield, StoredFromAnnouncer, TypeOK
  <2>1. CASE SpawnThread
    BY <2>1 DEF SpawnThread, Phases, Peer, fileVars
  <2>2. CASE UNCHANGED <<threadVars, pieces_buf>>
    BY <2>2 DEF threadVars
  <2>3. ASSUME NEW t \in Peer, StorePiece(t) PROVE Inv'
    BY <2>3 DEF StorePiece, Goto, AnnouncedPieces, File!AddPiece
  <2>4. ASSUME NEW t \in Peer, ReadBitfield(t) PROVE Inv'
    <3>1. \A i \in Pieces : pieces_buf[i] # t
      <4>1. pc[t] = "bitfield"
        BY <2>4 DEF ReadBitfield, Goto, Fails
      <4>2. t # NULL
        BY ClientAssumption DEF Peer
      <4> QED
        BY <4>1, <4>2
    <3>2. /\ \A u \in Peer \ {t} : pc'[u] = pc[u] /\ peer_bf'[u] = peer_bf[u]
          /\ UNCHANGED pieces_buf
      BY <2>4 DEF ReadBitfield, Goto, Fails, fileVars
    <3> QED
      BY <3>1, <3>2
  <2>5. ASSUME NEW t \in Peer, Thread(t), ~StorePiece(t), ~ReadBitfield(t) PROVE Inv'
    <3>1. /\ UNCHANGED <<peer_bf, pieces_buf>>
          /\ \E x \in ThreadStates : pc' = [pc EXCEPT ![t] = x]
          /\ pc[t] \notin {"none", "connect", "handshake", "bitfield"} =>
               pc'[t] \notin {"none", "connect", "handshake", "bitfield"}
      BY <2>5
      DEF Thread, InitConn, Handshake, SendInterested, ReadState, LoopTest, TakePiece, HasPiece,
          DownloadPiece, GiveBack, ReturnFromThread, fileVars, Goto, Fails, ThreadStates
    <3> QED
      BY <3>1
  <2> QED
    BY <2>1, <2>2, <2>3, <2>4, <2>5
    DEF Next, Main, Terminated, vars, ParseTorrentFile, ContactTracker, AllSpawned, JoinThread,
        CheckDone, WriteToFile, WriteNextPiece, Cleanup, fileVars, File!OpenOutput,
        File!WritePiece
<1> QED
  BY <1>1, <1>2, TypeCorrect, PhasesCorrect, AnnouncedCorrect, PTL DEF Spec

\* Every stored piece came from a peer that had announced it.
THEOREM StoredFromAnnouncerCorrect == Spec => []StoredFromAnnouncer
BY StoredPiecesCorrect, PTL

\* The parts of the inductive invariant that TLC checks with two peers hold for any
\* number of them.
THEOREM StrengtheningCorrect == Spec => []Strengthening
<1>1. Phases /\ Ownership /\ AnnouncedPieces /\ StoredAfterBitfield => Strengthening
  BY DEF Strengthening, Ownership
<1> QED
  BY <1>1, PhasesCorrect, OwnershipCorrect, AnnouncedCorrect, StoredPiecesCorrect, PTL

\* "All pieces have been downloaded" is never a lie, although the pool only says
\* which pieces were handed out.
THEOREM DoneMeansDownloadedCorrect == Spec => []DoneMeansDownloaded
<1>1. Init => DoneMeansDownloaded
  BY ClientAssumption DEF Init, DoneMeansDownloaded
<1>2. TypeOK /\ Phases /\ Ownership /\ DoneMeansDownloaded /\ [Next]_vars => DoneMeansDownloaded'
  <2> SUFFICES ASSUME TypeOK, Phases, Ownership, DoneMeansDownloaded, [Next]_vars
               PROVE  DoneMeansDownloaded'
    OBVIOUS
  <2>1. CASE CheckDone
    <3>1. \A t \in Peer : ~Holding(t)
      BY <2>1, ClientAssumption DEF CheckDone, Phases, Peer, Holding
    <3>2. CASE Pool!IsDone
      <4>1. File!HasAllPieces
        BY <3>1, <3>2
        DEF Ownership, NoPieceLost, Holds, Pool!IsDone, Pool!Pieces, File!HasAllPieces,
            File!Pieces, Pieces
      <4> QED
        BY <2>1, <4>1 DEF CheckDone, DoneMeansDownloaded, fileVars, File!HasAllPieces
    <3>3. CASE ~Pool!IsDone
      BY <2>1, <3>3 DEF CheckDone, Return, DoneMeansDownloaded
    <3> QED
      BY <3>2, <3>3
  <2>2. CASE ParseTorrentFile \/ ContactTracker \/ SpawnThread \/ AllSpawned \/ JoinThread
    <3>1. main_pc' \notin {"write", "fwrite"}
      BY <2>2 DEF ParseTorrentFile, ContactTracker, SpawnThread, AllSpawned, JoinThread, Return
    <3>2. result # TRUE
      BY <2>2, ClientAssumption
      DEF Phases, ParseTorrentFile, ContactTracker, SpawnThread, AllSpawned, JoinThread
    <3>3. result' = FALSE \/ result' = result
      BY <2>2 DEF ParseTorrentFile, ContactTracker, SpawnThread, AllSpawned, JoinThread, Return
    <3> QED
      BY <3>1, <3>2, <3>3 DEF DoneMeansDownloaded
  <2>3. CASE WriteToFile \/ WriteNextPiece \/ Cleanup
    <3>1. UNCHANGED pieces_buf
      BY <2>3
      DEF WriteToFile, WriteNextPiece, Cleanup, fileVars, File!OpenOutput, File!WritePiece
    <3>2. CASE WriteToFile \/ WriteNextPiece
      BY <3>1, <3>2 DEF WriteToFile, WriteNextPiece, DoneMeansDownloaded, File!HasAllPieces
    <3>3. CASE Cleanup
      BY <3>1, <3>3 DEF Cleanup, DoneMeansDownloaded, File!HasAllPieces
    <3> QED
      BY <2>3, <3>2, <3>3
  <2>4. ASSUME NEW t \in Peer, Thread(t) PROVE DoneMeansDownloaded'
    <3>1. main_pc \notin {"write", "fwrite", "cleanup", "done"}
      BY <2>4, ThreadMoves DEF Phases
    <3>2. main_pc' = main_pc /\ result' = result /\ result = NULL
      BY <2>4, <3>1, ThreadMoves DEF Phases, mainVars
    <3> QED
      BY <3>1, <3>2, ClientAssumption DEF DoneMeansDownloaded
  <2>5. CASE UNCHANGED vars
    BY <2>5 DEF vars, mainVars, fileVars, DoneMeansDownloaded, File!HasAllPieces
  <2> QED
    BY <2>1, <2>2, <2>3, <2>4, <2>5 DEF Next, Main, Terminated
<1> QED
  BY <1>1, <1>2, TypeCorrect, PhasesCorrect, OwnershipCorrect, PTL DEF Spec

\* A torrent without pieces has a bitfield of no bytes: no thread gets as far as
\* an access to it, because its pool is done from the start.
EmptyPoolUntouched ==
  NumPieces = 0 => \A t \in Peer : pc[t] \notin {"get", "has", "download", "undone", "add"}

\* Every index that reaches the pool's bitfield lies inside its bytes, the index
\* num_pieces + 1 included that get_piece_index returns when nothing is left.
THEOREM PoolAccessCorrect == Spec => []PoolAccessInBounds
<1>1. Init => EmptyPoolUntouched
  BY DEF Init, EmptyPoolUntouched
<1>2. TypeOK /\ EmptyPoolUntouched /\ [Next]_vars => EmptyPoolUntouched'
  <2> SUFFICES ASSUME TypeOK, EmptyPoolUntouched, [Next]_vars, NumPieces = 0
               PROVE  \A t \in Peer : pc'[t] \notin {"get", "has", "download", "undone", "add"}
    BY DEF EmptyPoolUntouched
  <2> USE DEF EmptyPoolUntouched, TypeOK
  <2>1. CASE SpawnThread
    BY <2>1 DEF SpawnThread
  <2>2. CASE UNCHANGED pc
    BY <2>2
  <2>3. ASSUME NEW t \in Peer, Thread(t)
        PROVE  \A u \in Peer : pc'[u] \notin {"get", "has", "download", "undone", "add"}
    <3>1. ~StayInLoop(t)
      BY DEF StayInLoop, Pool!IsDone, Pool!Pieces
    <3>2. \E x \in ThreadStates \ {"get", "has", "download", "undone", "add"} :
            pc' = [pc EXCEPT ![t] = x]
      BY <2>3, <3>1
      DEF Thread, InitConn, Handshake, ReadBitfield, SendInterested, ReadState, LoopTest,
          TakePiece, HasPiece, DownloadPiece, GiveBack, StorePiece, ReturnFromThread, Goto, Fails,
          ThreadStates
    <3> QED
      BY <3>2
  <2> QED
    BY <2>1, <2>2, <2>3
    DEF Next, Main, Terminated, vars, threadVars, ParseTorrentFile, ContactTracker, AllSpawned,
        JoinThread, CheckDone, WriteToFile, WriteNextPiece, Cleanup
<1>3. TypeOK /\ Ownership /\ EmptyPoolUntouched => PoolAccessInBounds
  <2> SUFFICES ASSUME TypeOK, Ownership, EmptyPoolUntouched, NEW t \in Peer, Holding(t)
               PROVE  piece_index[t] \in Pool!PoolBits
    BY DEF PoolAccessInBounds
  <2>1. NumPieces \in Nat \ {0}
    BY ClientAssumption DEF EmptyPoolUntouched, Holding
  <2>2. piece_index[t] \in Pieces \cup {Pool!NoPiece}
    BY DEF TypeOK, Ownership, HeldPieces
  <2> QED
    BY <2>1, <2>2 DEF Pieces, Pool!NoPiece, Pool!PoolBits
<1> QED
  BY <1>1, <1>2, <1>3, TypeCorrect, OwnershipCorrect, PTL DEF Spec

(* Client implements PieceDownload: the abstract state, and one lemma for   *)
(* each kind of step.                                                      *)

Reserved == {r \in Peer \X Pieces : Holds(r[1], r[2])}
Stored   == {i \in Pieces : pieces_buf[i] # NULL}
Outcome  == IF result = NULL THEN "running" ELSE IF result = TRUE THEN "delivered" ELSE "abandoned"

\* A step that neither moves a piece nor decides the result is a stutter.
LEMMA StutterStep ==
  ASSUME \A u \in Peer, i \in Pieces : Holds(u, i)' <=> Holds(u, i),
         UNCHANGED <<pieces_buf, result>>
  PROVE  UNCHANGED Download!vars
BY DEF Download!vars

\* get_piece_index reserves a piece that nobody has, for a thread without one.
LEMMA TakeReserves ==
  ASSUME TypeOK, Phases, Ownership, NEW t \in Peer, TakePiece(t)
  PROVE  [Download!Next]_(Download!vars)
<1> PICK i \in Pieces \cup {Pool!NoPiece} :
      Pool!GetPieceIndex(i) /\ piece_index' = [piece_index EXCEPT ![t] = i]
  BY DEF TakePiece
<1>1. /\ ~Holding(t) /\ Holding(t)' /\ piece_index'[t] = i
      /\ \A u \in Peer \ {t} : Holding(u)' <=> Holding(u)
      /\ \A u \in Peer \ {t} : piece_index'[u] = piece_index[u]
      /\ UNCHANGED <<pieces_buf, result>>
  BY DEF TakePiece, Goto, Holding, TypeOK, fileVars, mainVars
<1>2. CASE i \in Pieces
  <2>1. pieces_buf[i] = NULL /\ \A u \in Peer : ~Holds(u, i)
    BY <1>2, NoPieceIsNoPiece
    DEF Ownership, NoPieceLost, Pool!GetPieceIndex, Pool!FirstUndone
  <2>2. Reserved' = Reserved \cup {<<t, i>>}
    BY <1>1, <1>2 DEF Reserved, Holds
  <2>3. \A r \in Reserved : r[1] # t /\ r[2] # i
    BY <1>1, <2>1 DEF Reserved, Holds
  <2>4. result = NULL
    BY DEF TakePiece, Goto, Phases, MainStates, TypeOK
  <2>5. Download!Reserve(t, i)
    BY <1>1, <1>2, <2>1, <2>2, <2>3, <2>4 DEF Download!Reserve, Reserved
  <2> QED
    BY <1>2, <2>5 DEF Download!Next
<1>3. CASE i \notin Pieces
  BY <1>1, <1>3, StutterStep DEF Holds
<1> QED
  BY <1>2, <1>3

\* mark_as_undone releases the reservation of its thread.
LEMMA GiveBackReleases ==
  ASSUME TypeOK, Ownership, NEW t \in Peer, GiveBack(t)
  PROVE  [Download!Next]_(Download!vars)
<1> DEFINE i == piece_index[t]
<1>1. /\ Holding(t) /\ ~Holding(t)'
      /\ \A u \in Peer \ {t} : Holding(u)' <=> Holding(u)
      /\ UNCHANGED <<piece_index, pieces_buf, result>>
  BY DEF GiveBack, Goto, Holding, TypeOK, fileVars, mainVars
<1>2. CASE i \in Pieces
  <2>1. Reserved' = Reserved \ {<<t, i>>} /\ <<t, i>> \in Reserved
    BY <1>1, <1>2 DEF Reserved, Holds
  <2>2. Download!Release(t, i)
    BY <1>1, <2>1 DEF Download!Release, Reserved
  <2> QED
    BY <1>2, <2>2 DEF Download!Next, Download!Settle
<1>3. CASE i \notin Pieces
  BY <1>1, <1>3, StutterStep DEF Holds
<1> QED
  BY <1>2, <1>3

\* add_piece ends the reservation of its thread and stores the piece.
LEMMA StoreStores ==
  ASSUME TypeOK, AnnouncedPieces, Ownership, NEW t \in Peer, StorePiece(t)
  PROVE  [Download!Next]_(Download!vars)
<1> PICK i \in Pieces : i = piece_index[t]
  BY DEF StorePiece, Goto, AnnouncedPieces
<1>1. /\ Holding(t) /\ ~Holding(t)'
      /\ \A u \in Peer \ {t} : Holding(u)' <=> Holding(u)
      /\ pieces_buf' = [pieces_buf EXCEPT ![i] = t]
      /\ UNCHANGED <<piece_index, result>>
  BY DEF StorePiece, Goto, Holding, TypeOK, File!AddPiece, mainVars
<1>2. Reserved' = Reserved \ {<<t, i>>} /\ <<t, i>> \in Reserved
  BY <1>1 DEF Reserved, Holds
<1>3. Stored' = Stored \cup {i}
  BY <1>1, ClientAssumption DEF Stored, TypeOK, Peer
<1>4. Download!Store(t, i)
  BY <1>1, <1>2, <1>3 DEF Download!Store, Reserved, Stored
<1> QED
  BY <1>4 DEF Download!Next, Download!Settle

\* The main thread decides the result when no thread holds a piece, and in the
\* positive only with every piece stored.
LEMMA ReturnFinishes ==
  ASSUME Phases, DoneMeansDownloaded', UNCHANGED <<pc, piece_index, pieces_buf>>,
         result = NULL, result' \in BOOLEAN, \A t \in Peer : pc[t] \in {"none", "done"}
  PROVE  [Download!Next]_(Download!vars)
<1>1. Reserved = {} /\ Reserved' = {}
  BY DEF Reserved, Holds, Holding
<1>2. CASE result' = TRUE
  <2>1. Stored = Pieces
    BY <1>2 DEF DoneMeansDownloaded, Stored, File!HasAllPieces, File!Pieces, Pieces
  <2>2. TRUE # NULL
    BY ClientAssumption
  <2>3. Download!Deliver
    BY <1>1, <1>2, <2>1, <2>2 DEF Download!Deliver, Reserved, Stored
  <2> QED
    BY <2>3 DEF Download!Next
<1>3. CASE result' = FALSE
  <2>1. FALSE # NULL
    BY ClientAssumption
  <2>2. Download!Abandon
    BY <1>1, <1>3, <2>1 DEF Download!Abandon, Reserved
  <2> QED
    BY <2>2 DEF Download!Next
<1> QED
  BY <1>2, <1>3

\* Whatever its peers do, a download does what PieceDownload promises: exclusive
\* reservations, no piece stored twice, an end without open reservations, and a
\* delivered file only when it is complete.
THEOREM ClientImplementsDownload == Spec => Download!Spec
<1>1. Init => Download!Init
  BY DEF Init, Download!Init, Holds, Holding, File!InitFile, File!Pieces, Pieces
<1>2. TypeOK /\ Phases /\ AnnouncedPieces /\ Ownership /\ DoneMeansDownloaded'
        /\ [Next]_vars => [Download!Next]_(Download!vars)
  <2> SUFFICES ASSUME TypeOK, Phases, AnnouncedPieces, Ownership, DoneMeansDownloaded',
                      [Next]_vars
               PROVE  [Download!Next]_(Download!vars)
    OBVIOUS
  <2>1. CASE SpawnThread
    <3>1. \A u \in Peer : Holding(u)' <=> Holding(u)
      BY <2>1, ClientAssumption DEF SpawnThread, Holding, TypeOK, Phases, Peer
    <3> QED
      BY <2>1, <3>1, StutterStep DEF SpawnThread, fileVars, Holds
  <2>2. CASE UNCHANGED <<threadVars, pieces_buf, result>>
    BY <2>2, StutterStep DEF threadVars, Holding, Holds
  <2>3. CASE (Main /\ ~SpawnThread) /\ result' # result
    <3>1. UNCHANGED <<pc, piece_index, pieces_buf>>
      BY <2>3
      DEF Main, ParseTorrentFile, ContactTracker, AllSpawned, JoinThread, CheckDone, WriteToFile,
          WriteNextPiece, Cleanup, fileVars, threadVars, File!OpenOutput, File!WritePiece
    <3>2. result' \in BOOLEAN
      BY <2>3
      DEF Main, ParseTorrentFile, ContactTracker, AllSpawned, JoinThread, CheckDone, WriteToFile,
          WriteNextPiece, Cleanup, Return
    <3>3. main_pc \in {"parse", "contact", "join", "write", "fwrite"}
      BY <2>3
      DEF Main, ParseTorrentFile, ContactTracker, AllSpawned, JoinThread, CheckDone, WriteToFile,
          WriteNextPiece, Cleanup
    <3>4. main_pc = "join" => thread_i = NumPeers
      BY <2>3
      DEF Main, ParseTorrentFile, ContactTracker, AllSpawned, JoinThread, CheckDone, WriteToFile,
          WriteNextPiece, Cleanup
    <3>5. \A t \in Peer : pc[t] \in {"none", "done"}
      BY <3>3, <3>4, ClientAssumption DEF Phases, Peer
    <3>6. result = NULL
      BY <3>3 DEF Phases
    <3> QED
      BY <3>1, <3>2, <3>5, <3>6, ReturnFinishes
  <2>4. CASE (Main /\ ~SpawnThread) /\ result' = result
    <3>1. UNCHANGED <<threadVars, pieces_buf>>
      BY <2>4
      DEF Main, ParseTorrentFile, ContactTracker, AllSpawned, JoinThread, CheckDone, WriteToFile,
          WriteNextPiece, Cleanup, fileVars, File!OpenOutput, File!WritePiece
    <3> QED
      BY <2>2, <2>4, <3>1
  <2>5. ASSUME NEW t \in Peer, Thread(t) PROVE [Download!Next]_(Download!vars)
    <3>1. CASE TakePiece(t)
      BY <3>1, TakeReserves
    <3>2. CASE GiveBack(t)
      BY <3>2, GiveBackReleases
    <3>3. CASE StorePiece(t)
      BY <3>3, StoreStores
    <3>4. CASE ~TakePiece(t) /\ ~GiveBack(t) /\ ~StorePiece(t)
      BY <2>5, <3>4, QuietThread, ThreadMoves, StutterStep DEF Holds, mainVars
    <3> QED
      BY <3>1, <3>2, <3>3, <3>4
  <2> QED
    BY <2>1, <2>2, <2>3, <2>4, <2>5 DEF Next, Terminated, vars, mainVars, fileVars
<1> QED
  BY <1>1, <1>2, TypeCorrect, PhasesCorrect, AnnouncedCorrect, OwnershipCorrect,
     DoneMeansDownloadedCorrect, PTL
  DEF Spec, Download!Spec
===============================================================================
