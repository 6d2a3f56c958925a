------------------------------- MODULE MCClient -------------------------------
(* Small instances of Client for TLC.                                      *)
EXTENDS Client

AnyBitfield  == SUBSET Pieces

\* Nothing, everything, and two halves of which only one has the first piece.
HalvesBitfield == {{}, {0}, Pieces \ {0}, Pieces}
===============================================================================
