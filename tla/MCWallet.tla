------------------------------ MODULE MCWallet ------------------------------
(* Small instances of Wallet for TLC. *)
EXTENDS Wallet

CONSTANTS o1, o2, o3, o4, f1, a1, a2, a3, l1, l2, s1, s2

\* Two objects for one address, and one of another scrypt strength.
MCObjects == {o1, o2, o3, o4, f1}
MCAddressOf == o1 :> a1 @@ o2 :> a2 @@ o3 :> a2 @@ o4 :> a3 @@ f1 :> a3
MCFitting == [o \in MCObjects |-> {s1}]
MCLabels == {l1, l2}
MCSymmetry == Permutations(MCLabels)
=============================================================================
