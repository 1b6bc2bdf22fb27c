------------------------------ MODULE Keystore ------------------------------
(***************************************************************************)
(* What a wallet promises about its accounts: an ordered list of           *)
(* addresses, each with at most one label, no label on two accounts, and   *)
(* one default account as long as there is any.                            *)
(***************************************************************************)
EXTENDS Sequences, Integers

CONSTANTS
    Addresses, Labels,
    NoLabel,      \* not in Labels
    NoAddress     \* not in Addresses

VARIABLES
    order,     \* the accounts, by index
    labelOf,   \* labelOf[a]: the label of the account, NoLabel for none
    default    \* the default account

vars == <<order, labelOf, default>>

Stored == {order[i] : i \in 1..Len(order)}
Free(l) == \A a \in Stored : labelOf[a] # l

Init ==
    /\ order = <<>>
    /\ labelOf = [a \in Addresses |-> NoLabel]
    /\ default = NoAddress

\* The first account becomes the default one.
Add(a, l) ==
    /\ a \notin Stored
    /\ l = NoLabel \/ Free(l)
    /\ order' = Append(order, a)
    /\ labelOf' = [labelOf EXCEPT ![a] = l]
    /\ default' = IF default = NoAddress THEN a ELSE default

\* The accounts behind the removed one move up; the default one stays.
Remove(i) ==
    /\ order[i] # default
    /\ order' = SubSeq(order, 1, i - 1) \o SubSeq(order, i + 1, Len(order))
    /\ labelOf' = [labelOf EXCEPT ![order[i]] = NoLabel]
    /\ UNCHANGED default

MakeDefault(a) ==
    /\ a \in Stored
    /\ default' = a
    /\ UNCHANGED <<order, labelOf>>

Rename(a, l) ==
    /\ a \in Stored
    /\ l = NoLabel \/ Free(l)
    /\ labelOf' = [labelOf EXCEPT ![a] = l]
    /\ UNCHANGED <<order, default>>

Next ==
    \/ \E a \in Addresses, l \in Labels \cup {NoLabel} : Add(a, l) \/ Rename(a, l)
    \/ \E i \in 1..Len(order) : Remove(i)
    \/ \E a \in Addresses : MakeDefault(a)

Spec == Init /\ [][Next]_vars
=============================================================================
