---------------------------- MODULE PieceDownload -----------------------------
(***************************************************************************)
(* What a download promises, without threads, bitfields or buffers: every  *)
(* piece is reserved by at most one peer at a time, a peer works on one    *)
(* piece at a time, a stored piece is never reserved or stored again, and  *)
(* the download ends when no piece is reserved, as a delivered file only   *)
(* if all pieces are stored.                                               *)
(***************************************************************************)
CONSTANTS Piece, Peer

VARIABLES
  reserved,  \* the pairs <<p, i>> such that peer p works on piece i
  stored,    \* the pieces that have been downloaded
  outcome    \* "running", "delivered" or "abandoned"

vars == <<reserved, stored, outcome>>

Init ==
  /\ reserved = {}
  /\ stored = {}
  /\ outcome = "running"

Reserve(p, i) ==
  /\ outcome = "running"
  /\ i \notin stored
  /\ \A r \in reserved : r[1] # p /\ r[2] # i
  /\ reserved' = reserved \cup {<<p, i>>}
  /\ UNCHANGED <<stored, outcome>>

Release(p, i) ==
  /\ <<p, i>> \in reserved
  /\ reserved' = reserved \ {<<p, i>>}
  /\ UNCHANGED <<stored, outcome>>

Store(p, i) ==
  /\ <<p, i>> \in reserved
  /\ reserved' = reserved \ {<<p, i>>}
  /\ stored' = stored \cup {i}
  /\ UNCHANGED outcome

Deliver ==
  /\ outcome = "running" /\ reserved = {}
  /\ stored = Piece
  /\ outcome' = "delivered"
  /\ UNCHANGED <<reserved, stored>>

Abandon ==
  /\ outcome = "running" /\ reserved = {}
  /\ outcome' = "abandoned"
  /\ UNCHANGED <<reserved, stored>>

Settle(p) == \E i \in Piece : Release(p, i) \/ Store(p, i)

Next ==
  \/ \E p \in Peer, i \in Piece : Reserve(p, i)
  \/ \E p \in Peer : Settle(p)
  \/ Deliver
  \/ Abandon

Spec == Init /\ [][Next]_vars

FairSpec == Spec /\ \A p \in Peer : WF_vars(Settle(p))
===============================================================================
