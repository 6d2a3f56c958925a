------------------------------- MODULE Bitfield -------------------------------
(***************************************************************************)
(* A bitfield as bytes (bitfield.c).  A byte is the set of the numbers of  *)
(* its bits that are 1, bit 7 being the most significant: shifting by      *)
(* 7 - offset selects the bit number 7 - offset.                           *)
(***************************************************************************)
EXTENDS Integers

Byte == SUBSET (0 .. 7)

Zeroes(length) == [k \in 0 .. length - 1 |-> {}]

ByteIndex(index) == index \div 8

BitNumber(index) == 7 - (index % 8)

has_piece(b, index) == BitNumber(index) \in b[ByteIndex(index)]

set_piece(b, index) == [b EXCEPT ![ByteIndex(index)] = @ \cup {BitNumber(index)}]

\* Fault: the mask is not inverted, all other bits are cleared.
UnsetOthers(b, index) == [b EXCEPT ![ByteIndex(index)] = @ \cap {BitNumber(index)}]

unset_piece(b, index) == [b EXCEPT ![ByteIndex(index)] = @ \ {BitNumber(index)}]
===============================================================================
