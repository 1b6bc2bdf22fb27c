---------------------------- MODULE MCWSRequests ----------------------------
(* Small instances of WSRequests for TLC. *)
EXTENDS WSExchange

\* A random identifier that never meets a qid; two requests of the client's
\* own meet under it.
MCRandIds == {7}
=============================================================================
