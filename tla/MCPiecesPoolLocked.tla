-------------------------- MODULE MCPiecesPoolLocked --------------------------
(* Small instances of PiecesPoolLocked for TLC.                            *)
EXTENDS PiecesPoolLocked

CONSTANTS t1, t2

TwoThreads == {t1, t2}
===============================================================================
