------------------------------- MODULE Wallet -------------------------------
(***************************************************************************)
(* The accounts of a wallet in memory (wallet.go).  AccountData objects    *)
(* are shared by reference: the list, the two maps and defAcc hold         *)
(* pointers to them, and labels and the default flag are fields of the     *)
(* objects.  Every operation runs under Wallet.lock and is one action; a   *)
(* call that returns an error changes nothing and is not an action.        *)
(* ImportAccounts and ExportAccounts are none either: the AccountData they *)
(* build has no scrypt parameters, and AddAccountData's first test, before *)
(* the lock, dereferences them.                                            *)
(***************************************************************************)
EXTENDS Integers, Sequences, SequencesExt

CONSTANTS
    Objects,      \* AccountData objects
    Addresses, Labels, Schemes, Passwords,
    AddressOf,    \* AddressOf[o]: the address of o's key
    Fitting,      \* Fitting[o]: schemes CheckSigScheme accepts for o's key type
    Foreign,      \* objects encrypted with other scrypt parameters
    NoObject,     \* nil
    NoLabel,      \* the empty label
    NoAddress

ASSUME ObjectsAssumption ==
    /\ NoObject \notin Objects
    /\ AddressOf \in [Objects -> Addresses]
    /\ Fitting \in [Objects -> (SUBSET Schemes) \ {{}}]
    /\ Passwords # {}
    /\ Foreign \subseteq Objects
ASSUME LabelsAssumption == NoLabel \notin Labels
ASSUME AddressAssumption == NoAddress \notin Addresses

VARIABLES
    accounts,        \* Wallet.accounts
    accAddressMap,   \* Wallet.accAddressMap
    accLabelMap,     \* Wallet.accLabelMap
    defAcc,          \* Wallet.defAcc
    label,           \* label[o]: AccountData.Label
    isDefault,       \* isDefault[o]: AccountData.IsDefault
    sigSch,          \* sigSch[o]: AccountData.SigSch
    password         \* password[o]: the password o's key is encrypted with

tableVars == <<accounts, accAddressMap, accLabelMap, defAcc>>
fieldVars == <<label, isDefault, sigSch, password>>
vars == <<tableVars, fieldVars>>

Live == ToSet(accounts)

\* NewWallet.  Objects outside the wallet carry arbitrary fields: AddAccountData
\* below gives an object the ones it is added with.
Init ==
    /\ accounts = <<>>
    /\ accAddressMap = [a \in Addresses |-> NoObject]
    /\ accLabelMap = [l \in Labels |-> NoObject]
    /\ defAcc = NoObject
    /\ label = [o \in Objects |-> NoLabel]
    /\ isDefault = [o \in Objects |-> FALSE]
    /\ sigSch = [o \in Objects |-> CHOOSE s \in Fitting[o] : TRUE]
    /\ password = [o \in Objects |-> CHOOSE p \in Passwords : TRUE]

-----------------------------------------------------------------------------
\* delete(map, key).
Delete(map, key) == [map EXCEPT ![key] = NoObject]

\* Mutated form: two accounts may come with one label.
AddAnyLabel(o, l, d) ==
    /\ o \notin Foreign
    /\ accAddressMap[AddressOf[o]] = NoObject
    /\ ~(defAcc # NoObject /\ d)
    /\ accLabelMap' = IF l = NoLabel THEN accLabelMap ELSE [accLabelMap EXCEPT ![l] = o]
    /\ label' = [label EXCEPT ![o] = l]
    /\ isDefault' = [isDefault EXCEPT ![o] = d \/ accounts = <<>> \/ defAcc = NoObject]
    /\ defAcc' = IF defAcc = NoObject THEN o ELSE defAcc
    /\ accAddressMap' = [accAddressMap EXCEPT ![AddressOf[o]] = o]
    /\ accounts' = Append(accounts, o)

\* Mutated form: the empty label is registered like any other.
AddEmptyLabel(o, l, d) ==
    /\ o \notin Foreign
    /\ accAddressMap[AddressOf[o]] = NoObject
    /\ ~(defAcc # NoObject /\ d)
    /\ l # NoLabel => accLabelMap[l] = NoObject
    /\ accLabelMap' = (l :> o) @@ accLabelMap
    /\ label' = [label EXCEPT ![o] = l]
    /\ isDefault' = [isDefault EXCEPT ![o] = d \/ accounts = <<>> \/ defAcc = NoObject]
    /\ defAcc' = IF defAcc = NoObject THEN o ELSE defAcc
    /\ accAddressMap' = [accAddressMap EXCEPT ![AddressOf[o]] = o]
    /\ accounts' = Append(accounts, o)

\* AddAccountData of an object its owner labelled l and flagged d.  The first
\* account of a wallet becomes its default one.
AddAccountData(o, l, d) ==
    /\ o \notin Foreign
    /\ accAddressMap[AddressOf[o]] = NoObject
    /\ ~(defAcc # NoObject /\ d)
    /\ l # NoLabel => accLabelMap[l] = NoObject
    /\ accLabelMap' = IF l = NoLabel THEN accLabelMap ELSE [accLabelMap EXCEPT ![l] = o]
    /\ label' = [label EXCEPT ![o] = l]
    /\ isDefault' = [isDefault EXCEPT ![o] = d \/ accounts = <<>> \/ defAcc = NoObject]
    /\ defAcc' = IF defAcc = NoObject THEN o ELSE defAcc
    /\ accAddressMap' = [accAddressMap EXCEPT ![AddressOf[o]] = o]
    /\ accounts' = Append(accounts, o)

\* A fresh object, its key encrypted with password p, its scheme a fitting one.
NewAccountData(o, s, p) ==
    /\ s \in Fitting[o]
    /\ sigSch' = [sigSch EXCEPT ![o] = s]
    /\ password' = [password EXCEPT ![o] = p]

\* NewAccount, NewAccountFromWIF; or a caller's own AddAccountData.
NewAccount(o, l, d, s, p) == NewAccountData(o, s, p) /\ AddAccountData(o, l, d)

WithoutAddress(a) == RemoveFirstMatch(accounts, LAMBDA o : AddressOf[o] = a)

\* Mutated form: the default account may go.
DeleteAnyAccount(a) ==
    LET o == accAddressMap[a] IN
    /\ o # NoObject
    /\ accAddressMap' = Delete(accAddressMap, a)
    /\ accLabelMap' = IF label[o] = NoLabel THEN accLabelMap ELSE Delete(accLabelMap, label[o])
    /\ accounts' = WithoutAddress(a)
    /\ UNCHANGED <<defAcc, fieldVars>>

\* Mutated form: the address map keeps the account.
DeleteKeepsAddress(a) ==
    LET o == accAddressMap[a] IN
    /\ o # NoObject
    /\ ~isDefault[o]
    /\ accLabelMap' = IF label[o] = NoLabel THEN accLabelMap ELSE Delete(accLabelMap, label[o])
    /\ accounts' = WithoutAddress(a)
    /\ UNCHANGED <<accAddressMap, defAcc, fieldVars>>

DeleteAccount(a) ==
    LET o == accAddressMap[a] IN
    /\ o # NoObject
    /\ ~isDefault[o]
    /\ accAddressMap' = Delete(accAddressMap, a)
    /\ accLabelMap' = IF label[o] = NoLabel THEN accLabelMap ELSE Delete(accLabelMap, label[o])
    /\ accounts' = WithoutAddress(a)
    /\ UNCHANGED <<defAcc, fieldVars>>

\* Mutated form: the account that was the default one keeps its flag.
SetDefaultKeepsFlag(a) ==
    LET o == accAddressMap[a] IN
    /\ o # NoObject
    /\ isDefault' = [isDefault EXCEPT ![o] = TRUE]
    /\ defAcc' = o
    /\ UNCHANGED <<accounts, accAddressMap, accLabelMap, label, sigSch, password>>

SetDefaultAccount(a) ==
    LET o == accAddressMap[a] IN
    /\ o # NoObject
    /\ isDefault' = [x \in Objects |-> IF x = o THEN TRUE
                                       ELSE IF x = defAcc THEN FALSE ELSE isDefault[x]]
    /\ defAcc' = o
    /\ UNCHANGED <<accounts, accAddressMap, accLabelMap, label, sigSch, password>>

\* A new label must be unknown to accLabelMap; the entry of the old label
\* goes only when the new one is empty.
SetLabel(a, l) ==
    LET o == accAddressMap[a] IN
    /\ o # NoObject
    /\ label[o] # l
    /\ l # NoLabel => accLabelMap[l] = NoObject
    /\ label' = [label EXCEPT ![o] = l]
    /\ accLabelMap' = IF l = NoLabel THEN Delete(accLabelMap, label[o])
                      ELSE [accLabelMap EXCEPT ![l] = o]
    /\ UNCHANGED <<accounts, accAddressMap, defAcc, isDefault, sigSch, password>>

\* The scheme is refused when CheckSigScheme accepts it.
SetSigScheme(a, s) ==
    LET o == accAddressMap[a] IN
    /\ o # NoObject
    /\ s \notin Fitting[o]
    /\ sigSch' = [sigSch EXCEPT ![o] = s]
    /\ UNCHANGED <<tableVars, label, isDefault, password>>

ChangeAccountPassword(a, old, new) ==
    LET o == accAddressMap[a] IN
    /\ o # NoObject
    /\ password[o] = old
    /\ password' = [password EXCEPT ![o] = new]
    /\ UNCHANGED <<tableVars, label, isDefault, sigSch>>

Next ==
    \/ \E o \in Objects, l \in Labels \cup {NoLabel}, d \in BOOLEAN, s \in Schemes, p \in Passwords :
          NewAccount(o, l, d, s, p)
    \/ \E a \in Addresses :
          \/ DeleteAccount(a)
          \/ SetDefaultAccount(a)
          \/ \E l \in Labels \cup {NoLabel} : SetLabel(a, l)
          \/ \E s \in Schemes : SetSigScheme(a, s)
          \/ \E old, new \in Passwords : ChangeAccountPassword(a, old, new)

Spec == Init /\ [][Next]_vars

-----------------------------------------------------------------------------
(* Properties. *)

TypeOK ==
    /\ accounts \in Seq(Objects)
    /\ accAddressMap \in [Addresses -> Objects \cup {NoObject}]
    /\ accLabelMap \in [Labels -> Objects \cup {NoObject}]
    /\ defAcc \in Objects \cup {NoObject}
    /\ label \in [Objects -> Labels \cup {NoLabel}]
    /\ isDefault \in [Objects -> BOOLEAN]
    /\ sigSch \in [Objects -> Schemes]
    /\ password \in [Objects -> Passwords]

\* The list and the address map hold the same accounts, each once, so that
\* the indexed and the addressed operations agree whatever was deleted.
ListMatchesMap ==
    /\ \A i \in 1..Len(accounts) : accAddressMap[AddressOf[accounts[i]]] = accounts[i]
    /\ \A i, j \in 1..Len(accounts) : accounts[i] = accounts[j] => i = j
    /\ \A a \in Addresses :
          accAddressMap[a] # NoObject => accAddressMap[a] \in Live /\ AddressOf[accAddressMap[a]] = a

\* A wallet with accounts has one default account: defAcc and the flag that
\* DeleteAccount tests and Save writes name the same live object.
DefaultAgrees ==
    /\ defAcc = NoObject <=> accounts = <<>>
    /\ defAcc # NoObject => defAcc \in Live /\ isDefault[defAcc]
    /\ \A o \in Live : isDefault[o] => o = defAcc

\* "label cannot duplicate" (README 2.2.15): every label in use finds its own
\* account, so that no label is on two, whatever was relabelled or deleted.
LabelFindsAccount ==
    \A o \in Live : label[o] # NoLabel => accLabelMap[label[o]] = o

\* The wallet implements Keystore.
Order == [i \in 1..Len(accounts) |-> AddressOf[accounts[i]]]
LabelOf == [a \in Addresses |->
              IF accAddressMap[a] = NoObject THEN NoLabel ELSE label[accAddressMap[a]]]
Default == IF defAcc = NoObject THEN NoAddress ELSE AddressOf[defAcc]

KS == INSTANCE Keystore WITH order <- Order, labelOf <- LabelOf, default <- Default
ImplementsKeystore == KS!Spec
=============================================================================
