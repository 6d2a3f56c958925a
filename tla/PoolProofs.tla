------------------------------ MODULE PoolProofs ------------------------------
(***************************************************************************)
(* Theorems about PiecesPoolLocked for any number of pieces and threads:   *)
(* the loops under the mutex implement the operations of AtomicPool.       *)
(***************************************************************************)
EXTENDS PiecesPoolLocked, FiniteSetTheorems, TLAPS

Bits == 0 .. 8 * NumPieces - 1

Bytes == [0 .. NumPieces - 1 -> Byte]

\* A bit is named by its byte and its number in it.
LEMMA BitPlace ==
  ASSUME NEW j \in Nat, NEW k \in Nat
  PROVE  /\ ByteIndex(j) = ByteIndex(k) /\ BitNumber(j) = BitNumber(k) => j = k
         /\ ByteIndex(k) \in Nat /\ BitNumber(k) \in 0 .. 7
         /\ k \in Bits => ByteIndex(k) \in 0 .. NumPieces - 1
BY PoolAssumption DEF ByteIndex, BitNumber, Bits

\* Every index that is used lies in the allocation, unless nothing is allocated.
LEMMA IndexInBits ==
  /\ Pieces \subseteq Bits
  /\ NumPieces # 0 => NoPiece \in Bits
BY PoolAssumption DEF Pieces, NoPiece, Bits

\* set_piece sets one bit and keeps all others, those of the same byte included.
LEMMA HasAfterSet ==
  ASSUME NEW b \in Bytes, NEW index \in Bits
  PROVE  /\ set_piece(b, index) \in Bytes
         /\ \A k \in Bits : has_piece(set_piece(b, index), k) <=> k = index \/ has_piece(b, k)
<1>1. index \in Nat /\ ByteIndex(index) \in 0 .. NumPieces - 1 /\ BitNumber(index) \in 0 .. 7
  BY BitPlace, PoolAssumption DEF Bits
<1>2. set_piece(b, index) \in Bytes
  BY <1>1 DEF set_piece, Bytes, Byte
<1>3. ASSUME NEW k \in Bits
      PROVE  has_piece(set_piece(b, index), k) <=> k = index \/ has_piece(b, k)
  <2>1. k \in Nat /\ ByteIndex(k) \in 0 .. NumPieces - 1
    BY BitPlace, PoolAssumption DEF Bits
  <2>2. ByteIndex(k) = ByteIndex(index) /\ BitNumber(k) = BitNumber(index) => k = index
    BY <1>1, <2>1, BitPlace
  <2> QED
    BY <1>1, <2>1, <2>2 DEF set_piece, has_piece, Bytes
<1> QED
  BY <1>2, <1>3

\* unset_piece clears one bit and keeps all others; behind the allocation, which only
\* happens when there is no piece, it finds nothing to clear.
LEMMA HasAfterUnset ==
  ASSUME NEW b \in Bytes, NEW index \in Nat
  PROVE  /\ unset_piece(b, index) \in Bytes
         /\ \A k \in Bits : has_piece(unset_piece(b, index), k) <=> k # index /\ has_piece(b, k)
<1>1. index \in Nat /\ BitNumber(index) \in 0 .. 7
  BY BitPlace
<1>2. unset_piece(b, index) \in Bytes
  BY <1>1 DEF unset_piece, Bytes, Byte
<1>3. ASSUME NEW k \in Bits
      PROVE  has_piece(unset_piece(b, index), k) <=> k # index /\ has_piece(b, k)
  <2>1. k \in Nat /\ ByteIndex(k) \in 0 .. NumPieces - 1
    BY BitPlace, PoolAssumption DEF Bits
  <2>2. ByteIndex(k) = ByteIndex(index) /\ BitNumber(k) = BitNumber(index) => k = index
    BY <1>1, <2>1, BitPlace
  <2>3. unset_piece(b, index)[ByteIndex(k)] =
          IF ByteIndex(k) = ByteIndex(index) THEN b[ByteIndex(k)] \ {BitNumber(index)}
          ELSE b[ByteIndex(k)]
    BY <2>1 DEF unset_piece, Bytes
  <2> QED
    BY <2>1, <2>2, <2>3 DEF has_piece
<1> QED
  BY <1>2, <1>3
-------------------------------------------------------------------------------
\* The numbers of a loop stay within its bounds.
LEMMA CountBound ==
  ASSUME NEW n \in Nat, NEW S \in SUBSET (0 .. n - 1)
  PROVE  IsFiniteSet(S) /\ Cardinality(S) \in 0 .. n
<1>1. IsFiniteSet(0 .. n - 1) /\ Cardinality(0 .. n - 1) = n
  BY FS_Interval
<1>2. IsFiniteSet(S) /\ Cardinality(S) <= Cardinality(0 .. n - 1)
  BY <1>1, FS_Subset
<1> QED
  BY <1>1, <1>2, FS_CardinalityType

\* A call is one of four, and only mark_as_undone has an index.
LEMMA OpCases ==
  \A c \in Op :
    /\ c.op \in {"get_piece_index", "is_done", "get_num_undone_pieces", "mark_as_undone"}
    /\ c.op = "mark_as_undone" => c.index \in Pieces \cup {NoPiece}
BY DEF Op

\* What no step of t touches, the locals of the other calls, leaves their state as
\* it is as long as the bitfield stays.
LEMMA OtherCalls ==
  ASSUME NEW t \in Thread, NEW u \in Thread \ {t}, TypeOK, CallState(u),
         pc'[u] = pc[u], call'[u] = call[u], i'[u] = i[u],
         pieces_sum'[u] = pieces_sum[u], piece_index'[u] = piece_index[u],
         data' = data \/ pc[u] \in {"idle", "lock", "unlock"}
  PROVE  CallState(u)'
<1>1. CASE data' = data
  BY <1>1 DEF CallState, Seen
<1>2. CASE pc[u] \in {"idle", "lock", "unlock"}
  BY <1>2 DEF CallState
<1> QED
  BY <1>1, <1>2

Inv == TypeOK /\ MutualExclusion /\ LoopState

\* No step of one call disturbs another: with the mutex, what a loop knows stays true.
LEMMA CallsKeepTheirState ==
  ASSUME Inv, NEW t \in Thread,
         Call(t) \/ Lock(t) \/ TestPiece(t) \/ SetPiece(t) \/ CountPiece(t) \/ UnsetPiece(t)
           \/ Unlock(t)
  PROVE  \A u \in Thread \ {t} : CallState(u)'
<1> SUFFICES ASSUME NEW u \in Thread \ {t} PROVE CallState(u)'
  OBVIOUS
<1>1. /\ pc'[u] = pc[u] /\ call'[u] = call[u] /\ i'[u] = i[u]
      /\ pieces_sum'[u] = pieces_sum[u] /\ piece_index'[u] = piece_index[u]
  BY DEF Inv, TypeOK, Call, Lock, Enter, TestPiece, SetPiece, CountPiece, UnsetPiece, Unlock,
         Goto, locals
<1>2. data' = data \/ pc[u] \in {"idle", "lock", "unlock"}
  <2>1. CASE SetPiece(t) \/ UnsetPiece(t)
    <3>1. InCritical(t) /\ ~InCritical(u)
      BY <2>1 DEF Inv, MutualExclusion, InCritical, SetPiece, UnsetPiece, Goto
    <3> QED
      BY <3>1 DEF Inv, TypeOK, InCritical
  <2>2. CASE ~SetPiece(t) /\ ~UnsetPiece(t)
    BY <2>2 DEF Call, Lock, Enter, TestPiece, CountPiece, Unlock
  <2> QED
    BY <2>1, <2>2
<1> QED
  BY <1>1, <1>2, OtherCalls DEF Inv, LoopState

\* The mutex names the one call that is between lock and unlock.
LEMMA StepKeepsMutex ==
  ASSUME Inv, NEW t \in Thread,
         Call(t) \/ Lock(t) \/ TestPiece(t) \/ SetPiece(t) \/ CountPiece(t) \/ UnsetPiece(t)
           \/ Unlock(t)
  PROVE  MutualExclusion'
<1> USE PoolAssumption DEF Inv, TypeOK, MutualExclusion, InCritical, Goto
<1>1. CASE Call(t)
  BY <1>1 DEF Call
<1>2. CASE Lock(t)
  BY <1>2 DEF Lock, Enter
<1>3. CASE TestPiece(t) \/ CountPiece(t)
  BY <1>3 DEF TestPiece, CountPiece
<1>4. CASE SetPiece(t) \/ UnsetPiece(t)
  BY <1>4 DEF SetPiece, UnsetPiece
<1>5. CASE Unlock(t)
  BY <1>5 DEF Unlock
<1> QED
  BY <1>1, <1>2, <1>3, <1>4, <1>5

\* The state of the call that takes the step, and the types.  That a count stays
\* within the number of pieces rests on its being the size of a set of them.
LEMMA StepKeepsOwnCall ==
  ASSUME Inv, NEW t \in Thread,
         Call(t) \/ Lock(t) \/ TestPiece(t) \/ SetPiece(t) \/ CountPiece(t) \/ UnsetPiece(t)
           \/ Unlock(t)
  PROVE  TypeOK' /\ CallState(t)'
<1> USE PoolAssumption DEF Inv, LoopState, Goto
<1>1. CASE Call(t)
  <2>1. PICK c \in Op : call' = [call EXCEPT ![t] = c]
    BY <1>1 DEF Call
  <2>2. TypeOK'
    BY <1>1, <2>1 DEF Call, TypeOK, locals
  <2>3. CallState(t)'
    BY <1>1, <2>1 DEF Call, TypeOK, CallState, locals
  <2> QED
    BY <2>2, <2>3
<1>2. CASE Lock(t)
  <2>1. call[t] \in Op /\ i[t] = 0 /\ pieces_sum[t] = 0 /\ piece_index[t] = NoPiece
    BY <1>2 DEF Lock, Enter, TypeOK, CallState
  <2>2. TypeOK'
    BY <1>2 DEF Lock, Enter, TypeOK, locals
  <2>3. pc'[t] = IF call[t].op = "mark_as_undone" THEN "unset" ELSE "test"
    BY <1>2 DEF Lock, Enter, TypeOK
  <2>4. Seen(t)' = {} /\ 0 .. i[t] - 1 = {} /\ Cardinality({}) = 0
    BY <1>2, <2>1, FS_EmptySet DEF Lock, Enter, Seen, locals
  <2> QED
    BY <1>2, <2>1, <2>2, <2>3, <2>4 DEF Lock, Enter, CallState, locals
<1>3. CASE TestPiece(t)
  <2>1. /\ pc[t] = "test" /\ call[t].op = "get_piece_index" /\ i[t] \in 0 .. NumPieces
        /\ Seen(t) = 0 .. i[t] - 1
    BY <1>3 DEF TestPiece, TypeOK, CallState
  <2>2. CASE /\ i[t] < NumPieces /\ has_piece(data, i[t])
             /\ i' = [i EXCEPT ![t] = @ + 1] /\ UNCHANGED pc
    <3>1. TypeOK'
      BY <1>3, <2>1, <2>2 DEF TestPiece, TypeOK
    <3>2. i'[t] = i[t] + 1 /\ data' = data
      BY <1>3, <2>2 DEF TestPiece, TypeOK
    <3>3. Seen(t)' = 0 .. i'[t] - 1
      <4>1. \A k \in 0 .. i[t] - 1 : has_piece(data, k)
        BY <2>1 DEF Seen
      <4>2. \A k \in 0 .. i'[t] - 1 : k \in 0 .. i[t] - 1 \/ k = i[t]
        BY <2>1, <3>2
      <4> QED
        BY <2>2, <3>2, <4>1, <4>2 DEF Seen
    <3> QED
      BY <1>3, <2>1, <2>2, <3>1, <3>3 DEF TestPiece, CallState
  <2>3. CASE i[t] < NumPieces /\ ~has_piece(data, i[t]) /\ Goto(t, "test", "set") /\ UNCHANGED i
    <3>1. TypeOK'
      BY <1>3, <2>3 DEF TestPiece, TypeOK
    <3>2. Seen(t)' = Seen(t)
      BY <1>3, <2>3 DEF TestPiece, Seen
    <3> QED
      BY <1>3, <2>1, <2>3, <3>1, <3>2 DEF TestPiece, CallState, TypeOK
  <2>4. CASE i[t] = NumPieces /\ Goto(t, "test", "unlock") /\ UNCHANGED i
    BY <1>3, <2>1, <2>4 DEF TestPiece, CallState, TypeOK
  <2> QED
    BY <1>3, <2>2, <2>3, <2>4 DEF TestPiece
<1>4. CASE SetPiece(t)
  <2>1. i[t] \in Pieces /\ i[t] \in Bits /\ data \in Bytes
    BY <1>4, IndexInBits DEF SetPiece, CallState, TypeOK, Pieces, Bytes
  <2>2. data' \in Bytes
    BY <1>4, <2>1, HasAfterSet DEF SetPiece
  <2>3. TypeOK'
    BY <1>4, <2>1, <2>2 DEF SetPiece, TypeOK, Bytes
  <2> QED
    BY <1>4, <2>3 DEF SetPiece, CallState, TypeOK
<1>5. CASE CountPiece(t)
  <2>1. /\ pc[t] = "test" /\ call[t].op # "get_piece_index" /\ i[t] \in 0 .. NumPieces
        /\ pieces_sum[t] = Cardinality(Seen(t))
    BY <1>5 DEF CountPiece, TypeOK, CallState
  <2>2. CASE /\ i[t] < NumPieces
             /\ pieces_sum' = [pieces_sum EXCEPT ![t] = IF has_piece(data, i[t]) THEN @ + 1 ELSE @]
             /\ i' = [i EXCEPT ![t] = @ + 1] /\ UNCHANGED pc
    <3>1. i'[t] = i[t] + 1 /\ data' = data /\ pc'[t] = "test"
      BY <1>5, <2>1, <2>2 DEF CountPiece, TypeOK
    <3>2. IsFiniteSet(Seen(t)) /\ Cardinality(Seen(t)) \in 0 .. i[t]
      <4>1. Seen(t) \in SUBSET (0 .. i[t] - 1)
        BY DEF Seen
      <4> QED
        BY <2>1, <4>1, CountBound
    <3>3. i[t] \notin Seen(t)
      BY <2>1 DEF Seen
    <3>4. Seen(t)' = IF has_piece(data, i[t]) THEN Seen(t) \cup {i[t]} ELSE Seen(t)
      <4>1. \A k \in 0 .. i'[t] - 1 : k \in 0 .. i[t] - 1 \/ k = i[t]
        BY <2>1, <3>1
      <4>2. i[t] \in 0 .. i'[t] - 1 /\ 0 .. i[t] - 1 \subseteq 0 .. i'[t] - 1
        BY <2>1, <3>1
      <4> QED
        BY <3>1, <4>1, <4>2 DEF Seen
    <3>5. pieces_sum'[t] = Cardinality(Seen(t)') /\ pieces_sum'[t] \in 0 .. NumPieces
      <4>1. pieces_sum'[t] = IF has_piece(data, i[t]) THEN pieces_sum[t] + 1 ELSE pieces_sum[t]
        BY <2>2 DEF TypeOK
      <4>2. Cardinality(Seen(t) \cup {i[t]}) = Cardinality(Seen(t)) + 1
        BY <3>2, <3>3, FS_AddElement
      <4> QED
        BY <2>1, <2>2, <3>2, <3>4, <4>1, <4>2
    <3>6. TypeOK'
      BY <1>5, <2>1, <2>2, <3>1, <3>5 DEF CountPiece, TypeOK
    <3> QED
      BY <1>5, <2>1, <3>1, <3>5, <3>6 DEF CountPiece, CallState
  <2>3. CASE i[t] = NumPieces /\ Goto(t, "test", "unlock") /\ UNCHANGED <<i, pieces_sum>>
    BY <1>5, <2>1, <2>3 DEF CountPiece, CallState, TypeOK
  <2> QED
    BY <1>5, <2>2, <2>3 DEF CountPiece
<1>6. CASE UnsetPiece(t)
  <2>1. call[t] \in Op /\ call[t].op = "mark_as_undone" /\ data \in Bytes
    BY <1>6 DEF UnsetPiece, CallState, TypeOK, Bytes
  <2>2. call[t].index \in Nat
    BY <2>1, OpCases DEF Pieces, NoPiece
  <2>3. data' \in Bytes
    BY <1>6, <2>1, <2>2, HasAfterUnset DEF UnsetPiece
  <2>4. TypeOK'
    BY <1>6, <2>3 DEF UnsetPiece, TypeOK, Bytes, locals
  <2> QED
    BY <1>6, <2>4 DEF UnsetPiece, CallState, TypeOK
<1>7. CASE Unlock(t)
  BY <1>7 DEF Unlock, CallState, TypeOK
<1> QED
  BY <1>1, <1>2, <1>3, <1>4, <1>5, <1>6, <1>7

\* Types, mutual exclusion and what the loops know are inductive together: the
\* mutex keeps what a loop has seen true, and the size of what it has seen bounds
\* its counter.
THEOREM InvCorrect == Spec => []Inv
<1>1. Init => Inv
  <2> SUFFICES ASSUME Init PROVE Inv
    OBVIOUS
  <2>1. TypeOK
    BY PoolAssumption DEF Init, TypeOK, Zeroes, Byte
  <2>2. MutualExclusion
    BY DEF Init, MutualExclusion, InCritical
  <2>3. LoopState
    BY DEF Init, LoopState, CallState
  <2> QED
    BY <2>1, <2>2, <2>3 DEF Inv
<1>2. Inv /\ [Next]_vars => Inv'
  <2> SUFFICES ASSUME Inv, [Next]_vars PROVE Inv'
    OBVIOUS
  <2>1. CASE UNCHANGED vars
    <3>1. TypeOK'
      BY <2>1 DEF vars, locals, Inv, TypeOK
    <3>2. MutualExclusion'
      BY <2>1 DEF vars, Inv, MutualExclusion, InCritical
    <3>3. LoopState'
      BY <2>1 DEF vars, locals, Inv, LoopState, CallState, Seen
    <3> QED
      BY <3>1, <3>2, <3>3 DEF Inv
  <2>2. ASSUME NEW t \in Thread,
               Call(t) \/ Lock(t) \/ TestPiece(t) \/ SetPiece(t) \/ CountPiece(t)
                 \/ UnsetPiece(t) \/ Unlock(t)
        PROVE  Inv'
    <3>1. TypeOK' /\ CallState(t)'
      BY <2>2, StepKeepsOwnCall
    <3>2. \A u \in Thread \ {t} : CallState(u)'
      BY <2>2, CallsKeepTheirState
    <3>3. MutualExclusion'
      BY <2>2, StepKeepsMutex
    <3> QED
      BY <3>1, <3>2, <3>3 DEF Inv, LoopState
  <2> QED
    BY <2>1, <2>2 DEF Next
<1> QED
  BY <1>1, <1>2, PTL DEF Spec

\* Every reachable state has its types: indexes, counters and results stay within
\* the number of pieces, and every byte within its bits.
THEOREM TypeCorrect == Spec => []TypeOK
<1>1. Inv => TypeOK
  BY DEF Inv
<1> QED
  BY <1>1, InvCorrect, PTL

\* No two calls are between lock and unlock at once.
THEOREM MutualExclusionCorrect == Spec => []MutualExclusion
<1>1. Inv => MutualExclusion
  BY DEF Inv
<1> QED
  BY <1>1, InvCorrect, PTL

\* What a loop has seen stays true while it runs.
THEOREM LoopStateCorrect == Spec => []LoopState
<1>1. Inv => LoopState
  BY DEF Inv
<1> QED
  BY <1>1, InvCorrect, PTL
-------------------------------------------------------------------------------
(* The refinement of AtomicPool.                                           *)

\* A call that has taken effect has a result.
LEMMA ResultIsNotNull ==
  ASSUME Inv, NEW t \in Thread, call[t] \in Op
  PROVE  Result(t) # NULL
<1> USE PoolAssumption
<1>1. CASE call[t].op = "get_piece_index"
  <2>1. piece_index[t] \in 0 .. NumPieces + 1
    BY DEF Inv, TypeOK, Pieces, NoPiece
  <2> QED
    BY <1>1, <2>1, Zenon DEF Result
<1>2. CASE call[t].op = "is_done"
  <2>1. (pieces_sum[t] = NumPieces) \in BOOLEAN
    OBVIOUS
  <2> QED
    BY <1>2, <2>1, Zenon DEF Result
<1>3. CASE call[t].op = "get_num_undone_pieces"
  <2>1. NumPieces - pieces_sum[t] \in 0 .. NumPieces + 1
    BY DEF Inv, TypeOK
  <2> QED
    BY <1>3, <2>1, Zenon DEF Result
<1>4. CASE call[t].op = "mark_as_undone"
  BY <1>4, Zenon DEF Result
<1> QED
  BY <1>1, <1>2, <1>3, <1>4, OpCases

\* The initial states map to initial states: no bit of a fresh bitfield is set.
LEMMA InitImplements == Init => Atomic!Init
<1> SUFFICES ASSUME Init PROVE Atomic!Init
  OBVIOUS
<1>1. \A k \in 0 .. 8 * NumPieces - 1 : ~has_piece(data, k)
  <2>1. \A k \in Bits : k \in Nat /\ ByteIndex(k) \in 0 .. NumPieces - 1
    BY PoolAssumption, BitPlace DEF Bits
  <2> QED
    BY <2>1 DEF Init, Zeroes, has_piece, Bits
<1>2. Atomic!InitPool
  BY <1>1 DEF Atomic!InitPool, Marked
<1>3. \A t \in Thread : pc[t] # "unlock"
  BY DEF Init
<1> QED
  BY <1>2, <1>3 DEF Atomic!Init, Init, Ret

\* The steps before a call takes effect do not show.
LEMMA RetUnchanged ==
  ASSUME \A u \in Thread :
           /\ pc'[u] = "unlock" <=> pc[u] = "unlock"
           /\ pc[u] = "unlock" => /\ call'[u] = call[u] /\ pieces_sum'[u] = pieces_sum[u]
                                  /\ piece_index'[u] = piece_index[u]
  PROVE  Ret' = Ret
<1>1. ASSUME NEW u \in Thread, pc[u] = "unlock" PROVE Result(u)' = Result(u)
  BY <1>1 DEF Result
<1> QED
  BY <1>1 DEF Ret

\* The step at which it does gives the call its result, and no other call.
LEMMA RetOfOne ==
  ASSUME NEW t \in Thread, NEW r, r = IF pc'[t] = "unlock" THEN Result(t)' ELSE NULL,
         \A u \in Thread \ {t} :
           /\ pc'[u] = pc[u] /\ call'[u] = call[u]
           /\ pieces_sum'[u] = pieces_sum[u] /\ piece_index'[u] = piece_index[u]
  PROVE  Ret' = [Ret EXCEPT ![t] = r]
<1>1. ASSUME NEW u \in Thread \ {t} PROVE Ret'[u] = Ret[u]
  <2>1. Result(u)' = Result(u)
    BY <1>1 DEF Result
  <2> QED
    BY <1>1, <2>1 DEF Ret
<1>2. Ret'[t] = r
  BY DEF Ret
<1> QED
  BY <1>1, <1>2 DEF Ret

\* The loop of get_piece_index: it takes effect when the bit is set, or when the
\* last bit has been seen to be 1.
LEMMA GetImplements ==
  ASSUME Inv, NEW t \in Thread, TestPiece(t) \/ SetPiece(t)
  PROVE  Atomic!TakeEffect(t) \/ UNCHANGED <<Marked, call, Ret>>
<1> USE PoolAssumption DEF Inv, Goto
<1>1. call[t] # NULL /\ call[t].op = "get_piece_index" /\ Ret[t] = NULL
  BY DEF TestPiece, SetPiece, TypeOK, LoopState, CallState, Ret
<1>2. CASE SetPiece(t)
  <2>1. i[t] \in Pieces /\ i[t] \in Bits /\ data \in Bytes
    BY <1>2, IndexInBits DEF SetPiece, LoopState, CallState, TypeOK, Pieces, Bytes
  <2>2. Marked' = Marked \cup {i[t]}
    BY <1>2, <2>1, HasAfterSet DEF SetPiece, Marked, Bits
  <2>3. Atomic!FirstUndone(i[t])
    <3>1. Seen(t) = 0 .. i[t] - 1 /\ ~has_piece(data, i[t])
      BY <1>2 DEF SetPiece, LoopState, CallState
    <3>2. 0 .. i[t] - 1 \subseteq Bits
      BY <2>1 DEF Pieces, Bits
    <3> QED
      BY <2>1, <3>1, <3>2 DEF Atomic!FirstUndone, Atomic!Pieces, Pieces, Seen, Marked, Bits
  <2>4. Ret' = [Ret EXCEPT ![t] = <<i[t]>>]
    <3>1. pc'[t] = "unlock" /\ Result(t)' = <<i[t]>>
      BY <1>1, <1>2 DEF SetPiece, TypeOK, Result
    <3>2. \A u \in Thread \ {t} : /\ pc'[u] = pc[u] /\ call'[u] = call[u]
                                  /\ pieces_sum'[u] = pieces_sum[u]
                                  /\ piece_index'[u] = piece_index[u]
      BY <1>2 DEF SetPiece, TypeOK
    <3> QED
      BY <3>1, <3>2, RetOfOne
  <2>5. UNCHANGED call
    BY <1>2 DEF SetPiece
  <2> QED
    BY <1>1, <2>1, <2>2, <2>3, <2>4, <2>5
    DEF Atomic!TakeEffect, Atomic!Answer, Atomic!GetPieceIndex, Atomic!Pieces, Pieces
<1>3. CASE TestPiece(t) /\ pc'[t] = "unlock"
  <2>1. i[t] = NumPieces /\ Goto(t, "test", "unlock") /\ UNCHANGED <<data, call, piece_index>>
    BY <1>3 DEF TestPiece, TypeOK
  <2>2. Atomic!IsDone
    <3>1. \A k \in Pieces : has_piece(data, k)
      BY <1>1, <2>1 DEF LoopState, CallState, Seen, Pieces
    <3> QED
      BY <3>1, IndexInBits DEF Atomic!IsDone, Atomic!Pieces, Pieces, Marked, Bits
  <2>3. Ret' = [Ret EXCEPT ![t] = <<NoPiece>>]
    <3>1. piece_index[t] = NoPiece
      BY <2>1 DEF LoopState, CallState
    <3>2. pc'[t] = "unlock" /\ Result(t)' = <<NoPiece>>
      BY <1>1, <1>3, <2>1, <3>1 DEF Result
    <3>3. \A u \in Thread \ {t} : /\ pc'[u] = pc[u] /\ call'[u] = call[u]
                                  /\ pieces_sum'[u] = pieces_sum[u]
                                  /\ piece_index'[u] = piece_index[u]
      BY <1>3 DEF TestPiece, TypeOK
    <3> QED
      BY <3>2, <3>3, RetOfOne
  <2>4. UNCHANGED <<Marked, call>>
    BY <2>1 DEF Marked
  <2> QED
    BY <1>1, <2>2, <2>3, <2>4
    DEF Atomic!TakeEffect, Atomic!Answer, Atomic!GetPieceIndex, Atomic!NoPiece, NoPiece
<1>4. CASE TestPiece(t) /\ pc'[t] # "unlock"
  <2>1. UNCHANGED <<data, call, pieces_sum, piece_index>>
    BY <1>4 DEF TestPiece
  <2>2. \A u \in Thread : pc'[u] = "unlock" <=> pc[u] = "unlock"
    BY <1>4 DEF TestPiece, TypeOK
  <2> QED
    BY <2>1, <2>2, RetUnchanged DEF Marked
<1> QED
  BY <1>2, <1>3, <1>4

\* The loops of is_done and get_num_undone_pieces: they take effect with their last
\* round, when what they have counted is what the bitfield holds at that moment.
LEMMA CountImplements ==
  ASSUME Inv, NEW t \in Thread, CountPiece(t)
  PROVE  Atomic!TakeEffect(t) \/ UNCHANGED <<Marked, call, Ret>>
<1> USE PoolAssumption DEF Inv, Goto
<1>1. /\ call[t] \in Op /\ call[t] # NULL /\ pc[t] = "test" /\ Ret[t] = NULL
      /\ call[t].op \in {"is_done", "get_num_undone_pieces"}
      /\ UNCHANGED <<data, call, piece_index>>
  BY DEF CountPiece, TypeOK, LoopState, CallState, Ret
<1>2. CASE pc'[t] = "unlock"
  <2>1. i[t] = NumPieces /\ Goto(t, "test", "unlock") /\ UNCHANGED pieces_sum
    BY <1>2 DEF CountPiece, TypeOK
  <2>2. Seen(t) = Pieces \cap Marked /\ Seen(t) \in SUBSET Pieces
    BY <2>1, IndexInBits DEF Seen, Pieces, Marked, Bits
  <2>3. pieces_sum[t] = Cardinality(Pieces \cap Marked)
    BY <1>1, <2>2 DEF LoopState, CallState
  <2>4. pieces_sum[t] = NumPieces <=> Pieces \subseteq Marked
    <3>1. IsFiniteSet(Pieces) /\ Cardinality(Pieces) = NumPieces
      BY FS_Interval DEF Pieces
    <3>2. Seen(t) = Pieces <=> Cardinality(Seen(t)) = NumPieces
      BY <2>2, <3>1, FS_Subset
    <3> QED
      BY <2>2, <2>3, <3>2
  <2>5. Ret' = [Ret EXCEPT ![t] = Result(t)]
    <3>1. pc'[t] = "unlock" /\ Result(t)' = Result(t)
      BY <1>1, <1>2, <2>1 DEF Result
    <3>2. \A u \in Thread \ {t} : /\ pc'[u] = pc[u] /\ call'[u] = call[u]
                                  /\ pieces_sum'[u] = pieces_sum[u]
                                  /\ piece_index'[u] = piece_index[u]
      BY <1>1, <2>1 DEF TypeOK
    <3> QED
      BY <3>1, <3>2, RetOfOne
  <2>6. UNCHANGED <<Marked, call>>
    BY <1>1 DEF Marked
  <2>7. CASE call[t].op = "is_done"
    <3>1. Result(t) = <<Atomic!IsDone>>
      <4>1. Result(t) = <<pieces_sum[t] = NumPieces>>
        BY <2>7 DEF Result
      <4>2. (pieces_sum[t] = NumPieces) = Atomic!IsDone
        BY <2>4 DEF Atomic!IsDone, Atomic!Pieces, Pieces
      <4> QED
        BY <4>1, <4>2, Zenon
    <3> QED
      BY <1>1, <2>5, <2>6, <2>7, <3>1, Zenon DEF Atomic!TakeEffect, Atomic!Answer
  <2>8. CASE call[t].op = "get_num_undone_pieces"
    <3>1. Result(t) = <<Atomic!NumUndone>>
      <4>1. Result(t) = <<NumPieces - pieces_sum[t]>>
        BY <2>8 DEF Result
      <4>2. NumPieces - pieces_sum[t] = Atomic!NumUndone
        <5>1. Atomic!Cardinality(Pieces \cap Marked) = Cardinality(Pieces \cap Marked)
          BY DEF Atomic!Cardinality, Cardinality
        <5> QED
          BY <2>3, <5>1 DEF Atomic!NumUndone, Atomic!Pieces, Pieces
      <4> QED
        BY <4>1, <4>2, Zenon
    <3> QED
      BY <1>1, <2>5, <2>6, <2>8, <3>1, Zenon DEF Atomic!TakeEffect, Atomic!Answer
  <2> QED
    BY <1>1, <2>7, <2>8
<1>3. CASE pc'[t] # "unlock"
  <2>1. pc' = pc /\ \A u \in Thread \ {t} : pieces_sum'[u] = pieces_sum[u]
    BY <1>3 DEF CountPiece, TypeOK
  <2> QED
    BY <1>1, <2>1, RetUnchanged DEF Marked
<1> QED
  BY <1>2, <1>3

\* mark_as_undone takes effect with unset_piece.
LEMMA UnsetImplements ==
  ASSUME Inv, NEW t \in Thread, UnsetPiece(t)
  PROVE  Atomic!TakeEffect(t)
<1> USE PoolAssumption DEF Inv, Goto
<1>1. /\ call[t] \in Op /\ call[t] # NULL /\ pc[t] = "unset" /\ Ret[t] = NULL
      /\ call[t].op = "mark_as_undone"
      /\ UNCHANGED <<call, pieces_sum, piece_index>>
  BY DEF UnsetPiece, TypeOK, LoopState, CallState, Ret, locals
<1>2. call[t].index \in Nat
  BY <1>1, OpCases DEF Pieces, NoPiece
<1>3. Marked' = Marked \ {call[t].index}
  <2>1. data \in Bytes
    BY DEF TypeOK, Bytes
  <2>2. data' = unset_piece(data, call[t].index)
    BY DEF UnsetPiece
  <2> QED
    BY <1>2, <2>1, <2>2, HasAfterUnset DEF Marked, Bits
<1>4. Ret' = [Ret EXCEPT ![t] = <<>>]
  <2>1. pc'[t] = "unlock" /\ Result(t)' = <<>>
    BY <1>1 DEF UnsetPiece, TypeOK, Result
  <2>2. \A u \in Thread \ {t} : pc'[u] = pc[u]
    BY DEF UnsetPiece, TypeOK
  <2> QED
    BY <1>1, <2>1, <2>2, RetOfOne
<1> QED
  BY <1>1, <1>3, <1>4 DEF Atomic!TakeEffect, Atomic!Answer, Atomic!MarkAsUndone

\* The calls and returns of the loops are those of the object.
LEMMA CallAndReturnImplement ==
  ASSUME Inv, NEW t \in Thread, Call(t) \/ Lock(t) \/ Unlock(t)
  PROVE  \/ \E c \in Op : Atomic!Call(t, c)
         \/ Atomic!Return(t)
         \/ UNCHANGED <<Marked, call, Ret>>
<1> USE PoolAssumption DEF Inv, Goto
<1>1. CASE Call(t)
  <2>1. PICK c \in Op : call' = [call EXCEPT ![t] = c]
    BY <1>1 DEF Call
  <2>2. call[t] = NULL /\ UNCHANGED <<Marked, Ret>>
    <3>1. \A u \in Thread : /\ pc'[u] = "unlock" <=> pc[u] = "unlock"
                            /\ pc[u] = "unlock" => call'[u] = call[u]
      BY <1>1, <2>1 DEF Call, TypeOK
    <3> QED
      BY <1>1, <3>1, RetUnchanged DEF Call, LoopState, CallState, locals, Marked
  <2> QED
    BY <2>1, <2>2 DEF Atomic!Call
<1>2. CASE Lock(t)
  <2>1. \A u \in Thread : pc'[u] = "unlock" <=> pc[u] = "unlock"
    BY <1>2 DEF Lock, Enter, TypeOK
  <2> QED
    BY <1>2, <2>1, RetUnchanged DEF Lock, Enter, locals, Marked
<1>3. CASE Unlock(t)
  <2>1. pc[t] = "unlock" /\ call[t] \in Op
    BY <1>3 DEF Unlock, TypeOK, LoopState, CallState
  <2>2. Ret[t] # NULL
    BY <2>1, ResultIsNotNull DEF Ret
  <2>3. Ret' = [Ret EXCEPT ![t] = NULL]
    <3>1. pc'[t] # "unlock"
      BY <1>3 DEF Unlock, TypeOK
    <3>2. \A u \in Thread \ {t} : /\ pc'[u] = pc[u] /\ call'[u] = call[u]
                                  /\ pieces_sum'[u] = pieces_sum[u]
                                  /\ piece_index'[u] = piece_index[u]
      BY <1>3 DEF Unlock, TypeOK
    <3> QED
      BY <3>1, <3>2, RetOfOne
  <2>4. call' = [call EXCEPT ![t] = NULL] /\ UNCHANGED Marked
    BY <1>3 DEF Unlock, Marked
  <2> QED
    BY <2>2, <2>3, <2>4 DEF Atomic!Return
<1> QED
  BY <1>1, <1>2, <1>3

\* Every operation of the pool appears to happen at one instant: the loops under the
\* mutex implement the object that Client takes its steps from.
THEOREM PoolIsLinearizable == Spec => Linearizable
<1>1. Init => Atomic!Init
  BY InitImplements
<1>2. Inv /\ [Next]_vars => [Atomic!Next]_(Atomic!poolVars)
  <2> SUFFICES ASSUME Inv, [Next]_vars PROVE [Atomic!Next]_(Atomic!poolVars)
    OBVIOUS
  <2>1. CASE UNCHANGED vars
    <3>1. UNCHANGED <<Marked, call, Ret>>
      BY <2>1 DEF vars, locals, Marked, Ret, Result
    <3> QED
      BY <3>1 DEF Atomic!poolVars
  <2>2. ASSUME NEW t \in Thread,
               Call(t) \/ Lock(t) \/ TestPiece(t) \/ SetPiece(t) \/ CountPiece(t)
                 \/ UnsetPiece(t) \/ Unlock(t)
        PROVE  \/ \E c \in Op : Atomic!Call(t, c)
               \/ Atomic!TakeEffect(t) \/ Atomic!Return(t)
               \/ UNCHANGED <<Marked, call, Ret>>
    BY <2>2, GetImplements, CountImplements, UnsetImplements, CallAndReturnImplement
  <2>3. Atomic!Op = Op
    BY DEF Atomic!Op, Op, Atomic!Pieces, Pieces, Atomic!NoPiece, NoPiece
  <2> QED
    BY <2>1, <2>2, <2>3 DEF Next, Atomic!Next, Atomic!poolVars
<1> QED
  BY <1>1, <1>2, InvCorrect, PTL DEF Spec, Linearizable, Atomic!Spec
===============================================================================
