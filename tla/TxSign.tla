------------------------------- MODULE TxSign -------------------------------
(***************************************************************************)
(* Building, signing and sending a transaction: SignToTransaction and      *)
(* MultiSignToTransaction of dna_sdk.go, called by an application or by    *)
(* the calls of native_contract.go, neovm_contract.go and oep4.go.  The    *)
(* payer is part of what is signed, and it is set while signing: by the    *)
(* first signer that is an Account, or by a multi-signature.               *)
(*                                                                         *)
(* A signature is the key that made it and the payer the transaction had   *)
(* when it was hashed; all else that is hashed is fixed when the           *)
(* transaction is built.                                                   *)
(***************************************************************************)
EXTENDS Integers, Sequences, SequencesExt, FiniteSets, FiniteSetsExt

CONSTANTS
    Accounts,     \* signers that are *Account
    Controllers,  \* other signers
    Keys,
    KeyOf,        \* KeyOf[s]: the public key of signer s
    Groups,       \* the lists of keys and thresholds m of multi-signatures
    MaxKeys,      \* MULTI_SIG_MAX_PUBKEY_SIZE
    NoPayer,      \* ADDRESS_EMPTY
    MaxFroms,     \* bound: accounts given to one call of oep4.go
    MaxEntries    \* bound: entries an application makes in a transaction

Signers == Accounts \cup Controllers

\* A list of keys, whatever their order: <<k, i>> stands for the i-th k in it.
KeyLists == SUBSET (Keys \X Nat)

\* An address is a list of keys and how many of them have to sign.
Addresses == [keys : KeyLists, m : Nat]

ASSUME SignersAssumption ==
    /\ Accounts \cap Controllers = {} /\ IsFiniteSet(Accounts)
    /\ KeyOf \in [Signers -> Keys]
ASSUME GroupsAssumption ==
    /\ IsFiniteSet(Keys)
    /\ Groups \subseteq Addresses
    /\ \A g \in Groups : IsFiniteSet(g.keys)
    /\ NoPayer \notin Addresses
ASSUME BoundsAssumption == MaxKeys \in Nat /\ MaxFroms \in Nat /\ MaxEntries \in Nat

VARIABLES
    tx,           \* the transaction: its payer and its Sigs
    stage,        \* "none", "signing", "sent" or "executed" (PreExec)
    call,         \* who signs: the "application" or a call of the SDK
    todo          \* the signatures the call has still to make

signVars == <<tx, stage, call, todo>>

NoTx == [payer |-> NoPayer, sigs |-> <<>>]

SignInit == tx = NoTx /\ stage = "none" /\ call = "none" /\ todo = <<>>

-----------------------------------------------------------------------------
(* The two operations that sign. *)

OneKey(k) == {<<k, 1>>}

\* The keys of a list; one may stand in it more than once.
KeysIn(keys) == {p[1] : p \in keys}
EachOnce(keys) == \A p \in keys : p[2] = 1

AddressOf(s) == [keys |-> OneKey(KeyOf[s]), m |-> 1]

\* Mutated form: any account that signs is the payer.
PayerAfterSignAny(s) == IF s \in Accounts THEN AddressOf(s) ELSE tx.payer

\* The payer SignToTransaction leaves, whatever comes of the signature.
PayerAfterSign(s) ==
    IF tx.payer = NoPayer /\ s \in Accounts THEN AddressOf(s) ELSE tx.payer

\* The transaction is hashed with the payer just set.
Signature(s, payer) == [key |-> KeyOf[s], payer |-> payer]

\* PubKeysEqual: the entry of a list of keys in Sigs, whatever their order.
EntryOf(keys) == {i \in DOMAIN tx.sigs : tx.sigs[i].keys = keys}

\* SignToTransaction: a key that has an entry does not sign again.
Signed(s) ==
    LET payer == PayerAfterSign(s)
        entry == [keys |-> OneKey(KeyOf[s]), m |-> 1, data |-> <<Signature(s, payer)>>]
    IN [payer |-> payer,
        sigs |-> IF EntryOf(OneKey(KeyOf[s])) # {} THEN tx.sigs ELSE Append(tx.sigs, entry)]

\* AddressFromMultiPubKeys of the DNA library: a list of one key has no address.
HasAddress(g) == g.m \in 1..Cardinality(g.keys) /\ Cardinality(g.keys) \in 2..MaxKeys

\* MultiSignToTransaction refuses bad thresholds and foreign signers, and asks
\* for the group's address only when it is to be the payer.
MayMultiSign(g, s) ==
    /\ g.m > 0 /\ g.m <= Cardinality(g.keys) /\ Cardinality(g.keys) <= MaxKeys
    /\ KeyOf[s] \in KeysIn(g.keys)
    /\ tx.payer = NoPayer => HasAddress(g)

\* The payer MultiSignToTransaction leaves, whatever comes of the signature.
PayerAfterMultiSign(g) == IF tx.payer = NoPayer THEN g ELSE tx.payer

\* Mutated form: nobody looks.
HasAlreadySigNot(data, s, payer) == FALSE

\* HasAlreadySig: a signature of this key over the present transaction.
HasAlreadySig(data, s, payer) == Contains(data, [key |-> KeyOf[s], payer |-> payer])

\* The group's entry takes the signature, unless it has it; the threshold of
\* an entry is that of its first signature.
MultiSigned(g, s) ==
    LET payer == PayerAfterMultiSign(g)
        sig == Signature(s, payer)
        entries == EntryOf(g.keys)
        i == Min(entries)
    IN [payer |-> payer,
        sigs |->
          IF entries = {} THEN Append(tx.sigs, [keys |-> g.keys, m |-> g.m, data |-> <<sig>>])
          ELSE IF HasAlreadySig(tx.sigs[i].data, s, payer) THEN tx.sigs
          ELSE [tx.sigs EXCEPT ![i].data = Append(@, sig)]]

-----------------------------------------------------------------------------
(* An application that signs by itself. *)

NewInvokeTransaction ==
    /\ stage # "signing"
    /\ tx' = NoTx /\ stage' = "signing" /\ call' = "application" /\ todo' = <<>>

Application == stage = "signing" /\ call = "application" /\ UNCHANGED <<stage, call, todo>>

Bounded == Len(tx'.sigs) <= MaxEntries

SignToTransaction(s) == Application /\ tx' = Signed(s) /\ Bounded

\* Sign returns an error: the payer stays.
SignFails(s) ==
    /\ Application
    /\ EntryOf(OneKey(KeyOf[s])) = {}
    /\ tx' = [tx EXCEPT !.payer = PayerAfterSign(s)]

MultiSignToTransaction(g, s) ==
    Application /\ MayMultiSign(g, s) /\ tx' = MultiSigned(g, s) /\ Bounded

MultiSignFails(g, s) ==
    /\ Application /\ MayMultiSign(g, s)
    /\ tx' = [tx EXCEPT !.payer = PayerAfterMultiSign(g)]

-----------------------------------------------------------------------------
(* The calls of the SDK: a transaction and the signatures it gets.  A       *)
(* signature is a signer and, for a multi-signature, its group.             *)

Single(s) == [signer |-> s, group |-> NoPayer]

\* Starts a call; the calls give the signatures in order.
Begin(name, signatures) ==
    /\ stage # "signing"
    /\ tx' = NoTx /\ stage' = "signing" /\ call' = name /\ todo' = signatures

\* Gas, GlobalParam, Auth, NeoVM: one account signs.
InvokeContract == \E a \in Accounts : Begin("invoke", <<Single(a)>>)

\* Mutated form: the controller signs first.
InvokeOntIdTurned ==
    \E a \in Accounts, c \in Controllers : Begin("invoke", <<Single(c), Single(a)>>)

\* OntId: the account that pays, then the controller of the identity.
InvokeOntId ==
    \E a \in Accounts, c \in Controllers : Begin("invoke", <<Single(a), Single(c)>>)

\* OntId.VerifySignature: the controller alone, for PreExecTransaction.
VerifySignature == \E c \in Controllers : Begin("preexec", <<Single(c)>>)

\* Oep4.TransferMulti: every account that gives; one may give more than once,
\* and when the lists are empty there is none.
TransferMulti ==
    \E froms \in SeqOf(Accounts, MaxFroms) :
       Begin(IF froms = <<>> THEN "unsigned" ELSE "invoke",
             [i \in DOMAIN froms |-> Single(froms[i])])

\* The keys of a list of accounts.
KeyList(froms) ==
    {<<KeyOf[froms[i]], Cardinality({j \in 1..i : KeyOf[froms[j]] = KeyOf[froms[i]]})>> :
        i \in DOMAIN froms}

\* Oep4.MultiSignTransfer, MultiSignApprove, MultiSignTransferFrom: the group
\* is made of the accounts, which sign in the order given; an account that is
\* given twice has two places in it.
MultiSignCall ==
    \E g \in Groups, froms \in SeqOf(Accounts, MaxFroms) :
       /\ KeyList(froms) = g.keys /\ HasAddress(g)
       /\ Begin("invoke", [i \in DOMAIN froms |-> [signer |-> froms[i], group |-> g]])

\* The next signature of the call.
CallSigns ==
    /\ stage = "signing" /\ todo # <<>>
    /\ LET next == Head(todo) IN
       IF next.group = NoPayer THEN tx' = Signed(next.signer)
       ELSE MayMultiSign(next.group, next.signer) /\ tx' = MultiSigned(next.group, next.signer)
    /\ todo' = Tail(todo)
    /\ UNCHANGED <<stage, call>>

\* A signature fails: the call returns the error, and its transaction is gone.
CallFails ==
    /\ stage = "signing" /\ todo # <<>>
    /\ tx' = NoTx /\ stage' = "none" /\ call' = "none" /\ todo' = <<>>

\* SendTransaction.
Send ==
    /\ stage = "signing" /\ call \in {"application", "invoke", "unsigned"} /\ todo = <<>>
    /\ stage' = "sent"
    /\ UNCHANGED <<tx, call, todo>>

\* PreExecTransaction: the node executes it, and nothing lasts.
PreExec ==
    /\ stage = "signing" /\ call = "preexec" /\ todo = <<>>
    /\ stage' = "executed"
    /\ UNCHANGED <<tx, call, todo>>

SignNext ==
    \/ NewInvokeTransaction
    \/ \E s \in Signers :
          \/ SignToTransaction(s) \/ SignFails(s)
          \/ \E g \in Groups : MultiSignToTransaction(g, s) \/ MultiSignFails(g, s)
    \/ InvokeContract \/ InvokeOntId \/ VerifySignature \/ TransferMulti \/ MultiSignCall
    \/ CallSigns \/ CallFails \/ Send \/ PreExec

-----------------------------------------------------------------------------
(* Properties. *)

SignTypeOK ==
    /\ tx.payer \in Addresses \cup {NoPayer}
    /\ stage \in {"none", "signing", "sent", "executed"}
    /\ call \in {"none", "application", "invoke", "unsigned", "preexec"}
    /\ \A i \in DOMAIN todo : todo[i].signer \in Signers /\ todo[i].group \in Groups \cup {NoPayer}
    /\ \A i \in DOMAIN tx.sigs :
          /\ tx.sigs[i].data # <<>>
          /\ \A j \in DOMAIN tx.sigs[i].data : tx.sigs[i].data[j].key \in KeysIn(tx.sigs[i].keys)

\* The valid signers of an entry: those whose signature is over the
\* transaction as it is now.
Valid(entry) == {sig.key : sig \in {x \in ToSet(entry.data) : x.payer = tx.payer}}

\* What a call of the SDK sends that was given a signer, the node can take:
\* every signature is over the transaction as it was sent, the payer is among
\* those who signed, and every entry reaches its threshold, unless its list
\* names a key twice: the threshold counts the places of the list, and a key
\* signs once.  (TransferMulti of empty lists sends no signature and no payer.)
CallsVerify ==
    stage = "sent" /\ call = "invoke" =>
       /\ \A i \in DOMAIN tx.sigs :
             /\ \A j \in DOMAIN tx.sigs[i].data : tx.sigs[i].data[j].payer = tx.payer
             /\ EachOnce(tx.sigs[i].keys) => Cardinality(Valid(tx.sigs[i])) >= tx.sigs[i].m
       /\ \E i \in DOMAIN tx.sigs : tx.payer = [keys |-> tx.sigs[i].keys, m |-> tx.sigs[i].m]

\* Whoever signs in whatever order, only a signature made while there was no
\* payer can be stale: nothing that is done later invalidates one that was
\* made with a payer.
OnlyEarlyStale ==
    \A i \in DOMAIN tx.sigs : \A j \in DOMAIN tx.sigs[i].data :
       tx.sigs[i].data[j].payer \in {NoPayer, tx.payer}

\* No key is counted twice towards a threshold: a list of keys has one entry,
\* and a key one signature over the transaction in it.
CountedOnce ==
    /\ \A i, j \in DOMAIN tx.sigs : tx.sigs[i].keys = tx.sigs[j].keys => i = j
    /\ \A i \in DOMAIN tx.sigs : IsInjective(tx.sigs[i].data)
=============================================================================
