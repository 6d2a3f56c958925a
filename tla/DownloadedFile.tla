---------------------------- MODULE DownloadedFile ----------------------------
(***************************************************************************)
(* The file under assembly and its output on disk (downloaded_file.c).     *)
(* pieces_buf[i] is NULL until add_piece copies piece i, then it names the *)
(* peer the copy came from.  output is the file on disk:                   *)
(*   "before"    what was there when the program started, if anything      *)
(*   "removed"   removed, and not created again                            *)
(*   "created"   created empty, then the first `written' pieces            *)
(*   "appended"  the old content, followed by `written' pieces             *)
(***************************************************************************)
EXTENDS Integers

CONSTANTS NumPieces, NULL
VARIABLES pieces_buf, output, written

Pieces == 0 .. NumPieces - 1

InitFile ==
  /\ pieces_buf = [i \in Pieces |-> NULL]
  /\ output = "before"
  /\ written = 0

AddPiece(i, p) ==
  /\ pieces_buf' = [pieces_buf EXCEPT ![i] = p]
  /\ UNCHANGED <<output, written>>

HasAllPieces == \A i \in Pieces : pieces_buf[i] # NULL

\* remove(), whose result is not looked at, then fopen(name, "a").
OpenOutput(opened) ==
  /\ \E removed \in BOOLEAN :
       output' = CASE removed /\ opened   -> "created"
                   [] removed /\ ~opened  -> "removed"
                   [] ~removed /\ opened  -> "appended"
                   [] ~removed /\ ~opened -> "before"
  /\ UNCHANGED <<pieces_buf, written>>

\* Fault: the loop over the pieces runs once more.
WriteOneMore ==
  /\ written <= NumPieces
  /\ written' = written + 1
  /\ UNCHANGED <<pieces_buf, output>>

WritePiece ==
  /\ written < NumPieces
  /\ written' = written + 1
  /\ UNCHANGED <<pieces_buf, output>>
===============================================================================
