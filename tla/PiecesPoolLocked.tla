--------------------------- MODULE PiecesPoolLocked ---------------------------
(***************************************************************************)
(* The pool of pieces as it is built (pieces_pool.c): bytes of a bitfield  *)
(* under a mutex, each operation a loop over the pieces, one step for each *)
(* access to the bitfield.  Client takes every operation for one step; the *)
(* mutex makes it one: this module implements AtomicPool.                  *)
(***************************************************************************)
EXTENDS Integers, FiniteSets

CONSTANTS NumPieces, Thread, NULL

VARIABLES
  data,         \* current_bitfield->data: num_pieces bytes, all 0 at first
  mutex,        \* the thread that holds _mutex, or NULL
  pc,           \* where each thread is in its call
  call,         \* the call
  i,            \* the loop variable of each thread
  pieces_sum,   \* the counter of is_done and get_num_undone_pieces
  piece_index   \* the result of get_piece_index

INSTANCE Bitfield

locals == <<i, pieces_sum, piece_index>>
vars   == <<data, mutex, pc, call, locals>>

Pieces == 0 .. NumPieces - 1
NoPiece == NumPieces + 1

Op == [op : {"get_piece_index", "is_done", "get_num_undone_pieces"}]
        \cup [op : {"mark_as_undone"}, index : Pieces \cup {NoPiece}]

\* NULL is no thread, no call and no result of a call.
ASSUME PoolAssumption ==
  /\ NumPieces \in Nat /\ NULL \notin Thread
  /\ NULL \notin Op /\ NULL # <<>>
  /\ \A n \in 0 .. NumPieces + 1 : NULL # <<n>>
  /\ \A b \in BOOLEAN : NULL # <<b>>

Init ==
  /\ data = Zeroes(NumPieces)
  /\ mutex = NULL
  /\ pc = [t \in Thread |-> "idle"]
  /\ call = [t \in Thread |-> NULL]
  /\ i = [t \in Thread |-> 0]
  /\ pieces_sum = [t \in Thread |-> 0]
  /\ piece_index = [t \in Thread |-> NoPiece]

Goto(t, from, to) == pc[t] = from /\ pc' = [pc EXCEPT ![t] = to]

Call(t) ==
  /\ Goto(t, "idle", "lock")
  /\ \E c \in Op : call' = [call EXCEPT ![t] = c]
  /\ UNCHANGED <<data, mutex, locals>>

\* What a call does first inside its critical section.
Enter(t) ==
  /\ Goto(t, "lock", IF call[t].op = "mark_as_undone" THEN "unset" ELSE "test")
  /\ UNCHANGED <<data, call, locals>>

\* Fault: the call goes on without waiting for the mutex.
LockInVain(t) == Enter(t) /\ mutex' = t

Lock(t) == mutex = NULL /\ mutex' = t /\ Enter(t)

\* One round of the loop of get_piece_index up to has_piece.
TestPiece(t) ==
  /\ pc[t] = "test" /\ call[t].op = "get_piece_index"
  /\ \/ /\ i[t] < NumPieces /\ has_piece(data, i[t])
        /\ i' = [i EXCEPT ![t] = @ + 1]
        /\ UNCHANGED pc
     \/ i[t] < NumPieces /\ ~has_piece(data, i[t]) /\ Goto(t, "test", "set") /\ UNCHANGED i
     \/ i[t] = NumPieces /\ Goto(t, "test", "unlock") /\ UNCHANGED i
  /\ UNCHANGED <<data, mutex, call, pieces_sum, piece_index>>

SetPiece(t) ==
  /\ Goto(t, "set", "unlock")
  /\ data' = set_piece(data, i[t])
  /\ piece_index' = [piece_index EXCEPT ![t] = i[t]]
  /\ UNCHANGED <<mutex, call, i, pieces_sum>>

\* Fault: the loop runs once more.
CountOneMore(t) ==
  /\ pc[t] = "test" /\ call[t].op \in {"is_done", "get_num_undone_pieces"}
  /\ \/ /\ i[t] <= NumPieces
        /\ pieces_sum' = [pieces_sum EXCEPT ![t] = IF has_piece(data, i[t]) THEN @ + 1 ELSE @]
        /\ i' = [i EXCEPT ![t] = @ + 1]
        /\ UNCHANGED pc
     \/ i[t] > NumPieces /\ Goto(t, "test", "unlock") /\ UNCHANGED <<i, pieces_sum>>
  /\ UNCHANGED <<data, mutex, call, piece_index>>

\* One round of the loop of is_done and of get_num_undone_pieces.
CountPiece(t) ==
  /\ pc[t] = "test" /\ call[t].op \in {"is_done", "get_num_undone_pieces"}
  /\ \/ /\ i[t] < NumPieces
        /\ pieces_sum' = [pieces_sum EXCEPT ![t] = IF has_piece(data, i[t]) THEN @ + 1 ELSE @]
        /\ i' = [i EXCEPT ![t] = @ + 1]
        /\ UNCHANGED pc
     \/ i[t] = NumPieces /\ Goto(t, "test", "unlock") /\ UNCHANGED <<i, pieces_sum>>
  /\ UNCHANGED <<data, mutex, call, piece_index>>

UnsetPiece(t) ==
  /\ Goto(t, "unset", "unlock")
  /\ data' = unset_piece(data, call[t].index)
  /\ UNCHANGED <<mutex, call, locals>>

\* The unlock and the return; the locals die with the call.
Unlock(t) ==
  /\ Goto(t, "unlock", "idle")
  /\ mutex' = NULL
  /\ call' = [call EXCEPT ![t] = NULL]
  /\ i' = [i EXCEPT ![t] = 0]
  /\ pieces_sum' = [pieces_sum EXCEPT ![t] = 0]
  /\ piece_index' = [piece_index EXCEPT ![t] = NoPiece]
  /\ UNCHANGED data

Next ==
  \E t \in Thread :
    \/ Call(t) \/ Lock(t) \/ TestPiece(t) \/ SetPiece(t) \/ CountPiece(t) \/ UnsetPiece(t)
    \/ Unlock(t)

Spec == Init /\ [][Next]_vars
-------------------------------------------------------------------------------
\* The type invariant.
TypeOK ==
  /\ data \in [0 .. NumPieces - 1 -> Byte]
  /\ mutex \in Thread \cup {NULL}
  /\ pc \in [Thread -> {"idle", "lock", "test", "set", "unset", "unlock"}]
  /\ call \in [Thread -> Op \cup {NULL}]
  /\ i \in [Thread -> 0 .. NumPieces]
  /\ pieces_sum \in [Thread -> 0 .. NumPieces]
  /\ piece_index \in [Thread -> Pieces \cup {NoPiece}]

\* The calls inside their critical section.
InCritical(t) == pc[t] \in {"test", "set", "unset", "unlock"}

\* At most one call is between lock and unlock, the one that the mutex names: two
\* loops over the bitfield never overlap.
MutualExclusion ==
  /\ \A t \in Thread : InCritical(t) => mutex = t
  /\ mutex # NULL => InCritical(mutex)

\* The pieces before i[t] whose bit is 1.
Seen(t) == {k \in 0 .. i[t] - 1 : has_piece(data, k)}

CallState(t) ==
  /\ pc[t] = "idle" <=> call[t] = NULL
  /\ pc[t] \in {"idle", "lock"} => i[t] = 0 /\ pieces_sum[t] = 0
  /\ pc[t] \in {"idle", "lock", "test", "set"} => piece_index[t] = NoPiece
  /\ pc[t] = "test" => call[t].op # "mark_as_undone"
  /\ pc[t] = "test" /\ call[t].op = "get_piece_index" => Seen(t) = 0 .. i[t] - 1
  /\ pc[t] = "test" /\ call[t].op # "get_piece_index" => pieces_sum[t] = Cardinality(Seen(t))
  /\ pc[t] = "set" =>
       /\ call[t].op = "get_piece_index"
       /\ i[t] < NumPieces /\ Seen(t) = 0 .. i[t] - 1 /\ ~has_piece(data, i[t])
  /\ pc[t] = "unset" => call[t].op = "mark_as_undone"

\* What a call has found out so far is true of the bitfield as it is now, not only
\* as it was when the loop looked at it.
LoopState == \A t \in Thread : CallState(t)

Result(t) ==
  CASE call[t].op = "get_piece_index"       -> <<piece_index[t]>>
    [] call[t].op = "is_done"               -> <<pieces_sum[t] = NumPieces>>
    [] call[t].op = "get_num_undone_pieces" -> <<NumPieces - pieces_sum[t]>>
    [] call[t].op = "mark_as_undone"        -> <<>>

\* A call has taken effect once it has nothing left to do but to unlock.
Marked == {k \in 0 .. 8 * NumPieces - 1 : has_piece(data, k)}
Ret    == [t \in Thread |-> IF pc[t] = "unlock" THEN Result(t) ELSE NULL]

Atomic == INSTANCE AtomicPool WITH current_bitfield <- Marked, ret <- Ret

\* Every operation of the pool appears to happen at one instant: two threads
\* never get the same index, and counts are exact although a loop computes them.
Linearizable == Atomic!Spec
===============================================================================
