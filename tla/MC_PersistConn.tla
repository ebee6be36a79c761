--------------------------- MODULE MC_PersistConn ---------------------------
(* Instances of PersistConn for TLC. *)
EXTENDS PersistConn

CONSTANTS r1, r2
=============================================================================
