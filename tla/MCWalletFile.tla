---------------------------- MODULE MCWalletFile ----------------------------
(* Small instances of WalletFile for TLC. *)
EXTENDS WalletFile

CONSTANTS o1, o2, a1, a2, l1, p1, p2, s1, s2

MCAddressOf == o1 :> a1 @@ o2 :> a2
MCFitting == o1 :> {s1} @@ o2 :> {s1}
\* The two accounts, each with its address, may change places.
MCAccountSymmetry ==
    {f \in Permutations({o1, o2, a1, a2}) :
       \A o \in {o1, o2} : f[o] \in {o1, o2} /\ f[AddressOf[o]] = AddressOf[f[o]]}
=============================================================================
