---------------------------- MODULE MCIdentities ----------------------------
(* A small instance of Identities for TLC. *)
EXTENDS Identities, TLC
CONSTANTS o1, o2, o3, d1, d2, l1, l2, c1, c2, c3, i1, i2, k1, k2
\* Two objects have one ID.
MCId == [o \in Identity |-> IF o = o2 THEN d2 ELSE d1]
\* The first controllers of identities have one ID and keys of their own; c3 has
\* the key of one of them and another ID.
MCCtrId == [c \in Controllers |-> IF c = c3 THEN i2 ELSE i1]
MCKey == [c \in Controllers |-> IF c = c1 THEN k1 ELSE k2]
MCFirst == [o \in Identity |-> IF o = o2 THEN c2 ELSE c1]
MCOffered == [o \in Identity |-> IF o = o2 THEN Controllers ELSE {c1}]
MCSymmetry == Permutations(Labels) \cup Permutations({o1, o3})
=============================================================================
