--------------------------- MODULE MCWSConnection ---------------------------
(* Small instances of WSConnection for TLC. *)
EXTENDS WSConnection

CONSTANTS u1, r1, c1
=============================================================================
