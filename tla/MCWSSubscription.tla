-------------------------- MODULE MCWSSubscription --------------------------
(* A small instance of WSSubscription for TLC. *)
EXTENDS WSSubscription, TLC
CONSTANTS k1, f1, u1, u2, re, nobody
\* The application's threads do the same things.
UserSymmetry == Permutations(Users)
=============================================================================
