------------------------------ MODULE AtomicPool ------------------------------
(***************************************************************************)
(* The pool of pieces as its callers see it: an object whose operations    *)
(* are called, take effect at one instant between call and return, and     *)
(* return.  The effects are those of PiecesPool, the ones Client uses.     *)
(***************************************************************************)
EXTENDS PiecesPool

CONSTANTS Thread, NULL

VARIABLES
  call,    \* the operation each thread is in, or NULL
  ret      \* its result, a sequence of at most one value, once it took effect

poolVars == <<current_bitfield, call, ret>>

Op == [op : {"get_piece_index", "is_done", "get_num_undone_pieces"}]
        \cup [op : {"mark_as_undone"}, index : Pieces \cup {NoPiece}]

Init ==
  /\ InitPool
  /\ call = [t \in Thread |-> NULL]
  /\ ret = [t \in Thread |-> NULL]

Call(t, c) ==
  /\ call[t] = NULL
  /\ call' = [call EXCEPT ![t] = c]
  /\ UNCHANGED <<ret, current_bitfield>>

Answer(t, op, value) == call[t].op = op /\ ret' = [ret EXCEPT ![t] = value]

TakeEffect(t) ==
  /\ call[t] # NULL /\ ret[t] = NULL
  /\ \/ \E i \in Pieces \cup {NoPiece} :
          Answer(t, "get_piece_index", <<i>>) /\ GetPieceIndex(i)
     \/ Answer(t, "mark_as_undone", <<>>) /\ MarkAsUndone(call[t].index)
     \/ Answer(t, "is_done", <<IsDone>>) /\ UNCHANGED current_bitfield
     \/ Answer(t, "get_num_undone_pieces", <<NumUndone>>) /\ UNCHANGED current_bitfield
  /\ UNCHANGED call

Return(t) ==
  /\ ret[t] # NULL
  /\ call' = [call EXCEPT ![t] = NULL]
  /\ ret' = [ret EXCEPT ![t] = NULL]
  /\ UNCHANGED current_bitfield

Next == \E t \in Thread : (\E c \in Op : Call(t, c)) \/ TakeEffect(t) \/ Return(t)

Spec == Init /\ [][Next]_poolVars
===============================================================================
