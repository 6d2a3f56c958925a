------------------------------ MODULE PiecesPool ------------------------------
(***************************************************************************)
(* The pool of piece indexes (pieces_pool.c) with every critical section   *)
(* taken as one step.  current_bitfield is the set of the bits that are 1; *)
(* the code allocates num_pieces BYTES, so the pool owns 8 * NumPieces     *)
(* bits of which only the first NumPieces are ever searched.  A bit set    *)
(* to 1 ("done" in the code) says that the piece has been handed out, not  *)
(* that it has been downloaded.                                            *)
(***************************************************************************)
EXTENDS Integers, FiniteSets

CONSTANT NumPieces          \* tf->num_pieces
VARIABLE current_bitfield

Pieces == 0 .. NumPieces - 1

\* Fault: a byte is allocated for every eight pieces, and none for the rest.
WholeBytesBits == 0 .. 8 * (NumPieces \div 8) - 1

PoolBits == 0 .. 8 * NumPieces - 1

NoPiece == NumPieces + 1   \* what get_piece_index returns when nothing is left

InitPool == current_bitfield = {}

IsDone == Pieces \subseteq current_bitfield

NumUndone == NumPieces - Cardinality(Pieces \cap current_bitfield)

\* The scan stops at the first piece whose bit is 0.
FirstUndone(i) ==
  /\ i \in Pieces \ current_bitfield
  /\ \A j \in 0 .. i - 1 : j \in current_bitfield

\* Fault: the index is returned but its bit is not set.
TakeWithoutMarking(i) ==
  \/ FirstUndone(i) /\ UNCHANGED current_bitfield
  \/ IsDone /\ i = NoPiece /\ UNCHANGED current_bitfield

\* Fault: the scan ends one piece early.
TakeAllButLast(i) ==
  \/ /\ FirstUndone(i) /\ i # NumPieces - 1
     /\ current_bitfield' = current_bitfield \cup {i}
  \/ /\ Pieces \ {NumPieces - 1} \subseteq current_bitfield
     /\ i = NoPiece /\ UNCHANGED current_bitfield

\* i is the index the call returns.
GetPieceIndex(i) ==
  \/ FirstUndone(i) /\ current_bitfield' = current_bitfield \cup {i}
  \/ IsDone /\ i = NoPiece /\ UNCHANGED current_bitfield

\* Fault: the whole byte is cleared instead of one bit of it.
MarkByteAsUndone(i) == current_bitfield' = {j \in current_bitfield : j \div 8 # i \div 8}

MarkAsUndone(i) == current_bitfield' = current_bitfield \ {i}
===============================================================================
