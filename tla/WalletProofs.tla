---------------------------- MODULE WalletProofs ----------------------------
(***************************************************************************)
(* Proofs about the accounts of a wallet, for any objects, addresses,      *)
(* labels, schemes and passwords: the list, the maps, the labels and the   *)
(* default account always agree, and the wallet implements Keystore.       *)
(***************************************************************************)
EXTENDS Wallet, ListFacts

-----------------------------------------------------------------------------
(* The list. *)

\* The elements of a list of accounts.
LEMMA LiveDef ==
    ASSUME accounts \in Seq(Objects)
    PROVE  /\ Live = {accounts[i] : i \in 1..Len(accounts)}
           /\ Live \subseteq Objects
BY LenProperties DEF Live, ToSet

\* The loop of DeleteAccount takes out the only account of an address.
LEMMA RemoveOnly ==
    ASSUME accounts \in Seq(Objects),
           NEW k \in 1..Len(accounts), NEW a,
           AddressOf[accounts[k]] = a,
           \A i \in 1..Len(accounts) : AddressOf[accounts[i]] = a => i = k
    PROVE  WithoutAddress(a) = RemoveAt(accounts, k)
<1> DEFINE Test(o) == AddressOf[o] = a
           I == {i \in 1..Len(accounts) : Test(accounts[i])}
<1>1. I = {k}
  OBVIOUS
<1>2. Min({k}) = k
  BY DEF Min
<1>3. SelectInSeq(accounts, Test) = k
  BY <1>1, <1>2 DEF SelectInSeq
<1>4. \E i \in 1..Len(accounts) : Test(accounts[i])
  OBVIOUS
<1> QED BY <1>3, <1>4 DEF WithoutAddress, RemoveFirstMatch

-----------------------------------------------------------------------------
(* The inductive invariant, which the properties make together. *)

Inv == TypeOK /\ ListMatchesMap /\ DefaultAgrees /\ LabelFindsAccount

LEMMA Initially == Init => Inv
<1> SUFFICES ASSUME Init PROVE Inv
  OBVIOUS
<1>1. TypeOK
  BY ObjectsAssumption DEF Init, TypeOK
<1>2. Live = {}
  BY EmptySeq DEF Init, Live, ToSet
<1> QED BY <1>1, <1>2 DEF Init, Inv, ListMatchesMap, DefaultAgrees, LabelFindsAccount

\* Live, in the two ways the steps use it.
LEMMA LiveObjects ==
    ASSUME Inv
    PROVE  /\ \A o \in Live : /\ o \in Objects /\ o # NoObject
                              /\ AddressOf[o] \in Addresses
                              /\ accAddressMap[AddressOf[o]] = o
                              /\ \E i \in 1..Len(accounts) : accounts[i] = o
           /\ \A a \in Addresses : accAddressMap[a] # NoObject =>
                /\ accAddressMap[a] \in Live
                /\ AddressOf[accAddressMap[a]] = a
BY LiveDef, ObjectsAssumption DEF Inv, TypeOK, ListMatchesMap

\* The list after an addition.
LEMMA Added ==
    ASSUME Inv, NEW o \in Objects, accounts' = Append(accounts, o)
    PROVE  /\ accounts' \in Seq(Objects)
           /\ Len(accounts') = Len(accounts) + 1 /\ accounts' # <<>>
           /\ \A i \in 1..Len(accounts) : accounts'[i] = accounts[i]
           /\ accounts'[Len(accounts) + 1] = o
           /\ Len(accounts) \in Nat
           /\ Live' = Live \cup {o}
<1>1. accounts \in Seq(Objects)
  BY DEF Inv, TypeOK
<1>2. /\ accounts' \in Seq(Objects)
      /\ Len(accounts') = Len(accounts) + 1 /\ accounts' # <<>>
      /\ \A i \in 1..Len(accounts) : accounts'[i] = accounts[i]
      /\ accounts'[Len(accounts) + 1] = o
      /\ Len(accounts) \in Nat
  BY <1>1, AppendProperties, LenProperties
<1>3. Live = {accounts[i] : i \in 1..Len(accounts)}
  BY <1>1, LiveDef
<1>4. Live' = {accounts'[i] : i \in 1..Len(accounts')}
  BY <1>2, LenProperties DEF Live, ToSet
<1>5. 1..Len(accounts') = 1..Len(accounts) \cup {Len(accounts) + 1}
  BY <1>2
<1> QED BY <1>2, <1>3, <1>4, <1>5

\* The list after a deletion: one place is gone, and with it one account.
LEMMA Removed ==
    ASSUME Inv, NEW a \in Addresses, accAddressMap[a] # NoObject,
           accounts' = WithoutAddress(a)
    PROVE  \E k \in 1..Len(accounts) :
              /\ accounts[k] = accAddressMap[a]
              /\ accounts' = RemoveAt(accounts, k)
              /\ accounts' \in Seq(Objects)
              /\ Len(accounts') = Len(accounts) - 1
              /\ \A j \in 1..Len(accounts') :
                    accounts'[j] = IF j < k THEN accounts[j] ELSE accounts[j + 1]
              /\ Live' = Live \ {accAddressMap[a]}
<1> DEFINE o == accAddressMap[a]
<1>1. accounts \in Seq(Objects) /\ Len(accounts) \in Nat
  BY LenProperties DEF Inv, TypeOK
<1>2. o \in Live /\ AddressOf[o] = a
  BY LiveObjects
<1>3. Live = {accounts[i] : i \in 1..Len(accounts)}
  BY <1>1, LiveDef
<1>4. PICK k \in 1..Len(accounts) : accounts[k] = o
  BY <1>2, <1>3
<1>5. \A i \in 1..Len(accounts) : AddressOf[accounts[i]] = a => i = k
  BY <1>2, <1>4 DEF Inv, ListMatchesMap
<1>6. accounts' = RemoveAt(accounts, k)
  BY <1>1, <1>2, <1>4, <1>5, RemoveOnly
<1>7. /\ accounts' \in Seq(Objects)
      /\ Len(accounts') = Len(accounts) - 1
      /\ \A j \in 1..Len(accounts') :
            accounts'[j] = IF j < k THEN accounts[j] ELSE accounts[j + 1]
  BY <1>1, <1>6, RemoveAtElements
<1>8. Live' = {accounts'[j] : j \in 1..Len(accounts')}
  BY <1>7, LenProperties DEF Live, ToSet
<1>9. \A i, j \in 1..Len(accounts) : accounts[i] = accounts[j] => i = j
  BY DEF Inv, ListMatchesMap
<1>10. Live' \subseteq Live \ {o}
  <2> SUFFICES ASSUME NEW j \in 1..Len(accounts') PROVE accounts'[j] \in Live \ {o}
    BY <1>8
  <2>1. j \in 1..Len(accounts) /\ j + 1 \in 1..Len(accounts)
    BY <1>1, <1>7
  <2>2. CASE j < k
    BY <1>3, <1>4, <1>7, <1>9, <2>1, <2>2
  <2>3. CASE ~(j < k)
    BY <1>3, <1>4, <1>7, <1>9, <2>1, <2>3
  <2> QED BY <2>2, <2>3
<1>11. Live \ {o} \subseteq Live'
  <2> SUFFICES ASSUME NEW i \in 1..Len(accounts), i # k PROVE accounts[i] \in Live'
    BY <1>3, <1>4
  <2>1. CASE i < k
    BY <1>1, <1>7, <1>8, <2>1
  <2>2. CASE ~(i < k)
    <3>1. i - 1 \in 1..Len(accounts') /\ ~(i - 1 < k) /\ (i - 1) + 1 = i
      BY <1>1, <1>7, <2>2
    <3> QED BY <1>7, <1>8, <3>1
  <2> QED BY <2>1, <2>2
<1> QED BY <1>4, <1>6, <1>7, <1>10, <1>11

-----------------------------------------------------------------------------
(* Every operation keeps it. *)

LEMMA NewAccountKeeps ==
    ASSUME Inv, NEW o \in Objects, NEW l \in Labels \cup {NoLabel}, NEW d \in BOOLEAN,
           NEW s \in Schemes, NEW p \in Passwords, NewAccount(o, l, d, s, p)
    PROVE  Inv'
<1> USE DEF NewAccount, NewAccountData, AddAccountData
<1>a. AddressOf[o] \in Addresses /\ o # NoObject
  BY ObjectsAssumption
<1>b. o \notin Live
  BY <1>a, LiveObjects
<1>c. /\ accounts' \in Seq(Objects)
      /\ Len(accounts') = Len(accounts) + 1 /\ accounts' # <<>>
      /\ \A i \in 1..Len(accounts) : accounts'[i] = accounts[i]
      /\ accounts'[Len(accounts) + 1] = o
      /\ Len(accounts) \in Nat
      /\ Live' = Live \cup {o}
  BY Added
<1>d. /\ \A x \in Live : x # o /\ AddressOf[x] # AddressOf[o]
      /\ \A i \in 1..Len(accounts) : accounts[i] \in Live
  BY <1>b, LiveObjects, LiveDef DEF Inv, TypeOK
<1>e. 1..Len(accounts') = 1..Len(accounts) \cup {Len(accounts) + 1}
  BY <1>c
<1>1. TypeOK'
  BY <1>a, <1>c DEF Inv, TypeOK
<1>2. ListMatchesMap'
  <2>1. \A i \in 1..Len(accounts') : accAddressMap'[AddressOf[accounts'[i]]] = accounts'[i]
    BY <1>a, <1>c, <1>d, <1>e DEF Inv, TypeOK, ListMatchesMap
  <2>2. \A i, j \in 1..Len(accounts') : accounts'[i] = accounts'[j] => i = j
    BY <1>c, <1>d, <1>e DEF Inv, ListMatchesMap
  <2>3. \A a \in Addresses : accAddressMap'[a] # NoObject =>
           accAddressMap'[a] \in Live' /\ AddressOf[accAddressMap'[a]] = a
    BY <1>a, <1>c DEF Inv, TypeOK, ListMatchesMap
  <2> QED BY <2>1, <2>2, <2>3 DEF ListMatchesMap
<1>3. DefaultAgrees'
  <2>1. CASE defAcc = NoObject
    <3>1. accounts = <<>> /\ Live' = {o}
      BY <1>c, <2>1, EmptySeq DEF Inv, DefaultAgrees, Live, ToSet
    <3>2. defAcc' = o /\ isDefault'[o]
      BY <2>1 DEF Inv, TypeOK
    <3> QED BY <1>a, <1>c, <3>1, <3>2 DEF DefaultAgrees
  <2>2. CASE defAcc # NoObject
    <3>1. d = FALSE /\ accounts # <<>> /\ isDefault'[o] = FALSE
      BY <2>2 DEF Inv, TypeOK, DefaultAgrees
    <3> QED BY <1>b, <1>c, <1>d, <2>2, <3>1 DEF Inv, TypeOK, DefaultAgrees
  <2> QED BY <2>1, <2>2
<1>4. LabelFindsAccount'
  <2> SUFFICES ASSUME NEW x \in Live', label'[x] # NoLabel
               PROVE  accLabelMap'[label'[x]] = x
    BY DEF LabelFindsAccount
  <2>1. CASE x = o
    BY <2>1 DEF Inv, TypeOK
  <2>2. CASE x # o
    <3>1. x \in Live /\ x \in Objects /\ x # NoObject /\ label'[x] = label[x]
      BY <1>c, <2>2, LiveObjects DEF Inv, TypeOK
    <3>2. accLabelMap[label[x]] = x
      BY <3>1 DEF Inv, LabelFindsAccount
    <3> QED BY <3>1, <3>2 DEF Inv, TypeOK
  <2> QED BY <2>1, <2>2
<1> QED BY <1>1, <1>2, <1>3, <1>4 DEF Inv

LEMMA DeleteAccountKeeps ==
    ASSUME Inv, NEW a \in Addresses, DeleteAccount(a)
    PROVE  Inv'
<1> DEFINE o == accAddressMap[a]
<1> USE DEF DeleteAccount, Delete, fieldVars
<1>a. o \in Live /\ o \in Objects /\ o # NoObject /\ AddressOf[o] = a
  BY LiveObjects
<1>b. PICK k \in 1..Len(accounts) :
         /\ accounts[k] = o
         /\ accounts' \in Seq(Objects)
         /\ Len(accounts') = Len(accounts) - 1
         /\ \A j \in 1..Len(accounts') :
               accounts'[j] = IF j < k THEN accounts[j] ELSE accounts[j + 1]
         /\ Live' = Live \ {o}
  BY Removed
<1>c. Len(accounts) \in Nat
  BY LenProperties DEF Inv, TypeOK
<1>d. defAcc \in Live /\ defAcc # o
  BY <1>a, EmptySeq, LiveObjects DEF Inv, TypeOK, DefaultAgrees, Live, ToSet
<1>1. TypeOK'
  BY <1>b DEF Inv, TypeOK
<1>2. ListMatchesMap'
  <2>1. \A x \in Live' : accAddressMap'[AddressOf[x]] = x
    BY <1>a, <1>b, LiveObjects DEF Inv, TypeOK
  <2>2. \A i \in 1..Len(accounts') : accAddressMap'[AddressOf[accounts'[i]]] = accounts'[i]
    BY <1>b, <2>1, LenProperties DEF Live, ToSet
  <2>3. \A i, j \in 1..Len(accounts') : accounts'[i] = accounts'[j] => i = j
    BY <1>b, <1>c DEF Inv, ListMatchesMap
  <2>4. \A b \in Addresses : accAddressMap'[b] # NoObject =>
           accAddressMap'[b] \in Live' /\ AddressOf[accAddressMap'[b]] = b
    BY <1>a, <1>b DEF Inv, TypeOK, ListMatchesMap
  <2> QED BY <2>2, <2>3, <2>4 DEF ListMatchesMap
<1>3. DefaultAgrees'
  <2>1. accounts' # <<>>
    BY <1>b, <1>d, EmptySeq DEF Live, ToSet
  <2> QED BY <1>b, <1>d, <2>1, LiveObjects DEF Inv, DefaultAgrees
<1>4. LabelFindsAccount'
  BY <1>a, <1>b, LiveObjects DEF Inv, TypeOK, LabelFindsAccount
<1> QED BY <1>1, <1>2, <1>3, <1>4 DEF Inv

LEMMA SetDefaultAccountKeeps ==
    ASSUME Inv, NEW a \in Addresses, SetDefaultAccount(a)
    PROVE  Inv'
<1>a. /\ accAddressMap[a] \in Live /\ accAddressMap[a] \in Objects
      /\ accAddressMap[a] # NoObject
  BY LiveObjects DEF SetDefaultAccount
<1>b. Live' = Live /\ Live \subseteq Objects
  BY LiveObjects DEF SetDefaultAccount, Live
<1>1. TypeOK'
  BY <1>a DEF SetDefaultAccount, Inv, TypeOK
<1>2. DefaultAgrees'
  <2>1. \A x \in Live : isDefault'[x] <=> x = defAcc'
    BY <1>a, <1>b DEF SetDefaultAccount, Inv, TypeOK, DefaultAgrees
  <2>2. accounts' # <<>>
    BY <1>a, EmptySeq DEF SetDefaultAccount, Live, ToSet
  <2> QED BY <1>a, <1>b, <2>1, <2>2 DEF SetDefaultAccount, DefaultAgrees
<1> QED BY <1>1, <1>2, <1>b DEF SetDefaultAccount, Inv, ListMatchesMap, LabelFindsAccount

LEMMA SetLabelKeeps ==
    ASSUME Inv, NEW a \in Addresses, NEW l \in Labels \cup {NoLabel}, SetLabel(a, l)
    PROVE  Inv'
<1> DEFINE o == accAddressMap[a]
<1>a. o \in Live /\ o \in Objects /\ o # NoObject
  BY LiveObjects DEF SetLabel
<1>b. Live' = Live /\ Live \subseteq Objects
  BY LiveObjects DEF SetLabel, Live
<1>1. TypeOK'
  BY <1>a DEF SetLabel, Delete, Inv, TypeOK
<1>2. LabelFindsAccount'
  BY <1>a, <1>b, LabelsAssumption, LiveObjects
  DEF SetLabel, Delete, Inv, TypeOK, LabelFindsAccount
<1> QED BY <1>1, <1>2, <1>b DEF SetLabel, Inv, ListMatchesMap, DefaultAgrees

LEMMA FieldsKeep ==
    ASSUME Inv, NEW a \in Addresses,
           \/ \E s \in Schemes : SetSigScheme(a, s)
           \/ \E old, new \in Passwords : ChangeAccountPassword(a, old, new)
    PROVE  Inv'
<1>a. Live' = Live
  BY DEF SetSigScheme, ChangeAccountPassword, Live, tableVars
<1>1. TypeOK'
  BY DEF SetSigScheme, ChangeAccountPassword, tableVars, Inv, TypeOK
<1> QED BY <1>1, <1>a DEF SetSigScheme, ChangeAccountPassword, tableVars, Inv,
                          ListMatchesMap, DefaultAgrees, LabelFindsAccount

LEMMA NextKeeps == Inv /\ [Next]_vars => Inv'
<1> SUFFICES ASSUME Inv, [Next]_vars PROVE Inv'
  OBVIOUS
<1>1. CASE UNCHANGED vars
  BY <1>1 DEF vars, tableVars, fieldVars, Inv, TypeOK, ListMatchesMap, DefaultAgrees,
              LabelFindsAccount, Live
<1> QED BY <1>1, NewAccountKeeps, DeleteAccountKeeps, SetDefaultAccountKeeps, SetLabelKeeps,
           FieldsKeep DEF Next

LEMMA Invariance == Spec => []Inv
BY Initially, NextKeeps, PTL DEF Spec

-----------------------------------------------------------------------------
(* The theorems. *)

\* Every variable keeps its type through all operations of the wallet.
THEOREM TypeCorrect == Spec => []TypeOK
BY Invariance, PTL DEF Inv

\* Whatever was added and deleted, the list and the address map hold the same
\* accounts, each once (AddAccountData, DeleteAccount).
THEOREM ListHolds == Spec => []ListMatchesMap
BY Invariance, PTL DEF Inv

\* A wallet with accounts has one default account, which all agree on
\* (AddAccountData, DeleteAccount, SetDefaultAccount).
THEOREM DefaultHolds == Spec => []DefaultAgrees
BY Invariance, PTL DEF Inv

\* A label in use finds its own account, and so is on no other
\* (AddAccountData, SetLabel, DeleteAccount).
THEOREM LabelHolds == Spec => []LabelFindsAccount
BY Invariance, PTL DEF Inv

-----------------------------------------------------------------------------
(* The wallet implements Keystore. *)

\* The addresses of a list of objects are a list of addresses.
LEMMA AddressList ==
    ASSUME NEW s \in Seq(Objects), NEW t, t = [i \in 1..Len(s) |-> AddressOf[s[i]]]
    PROVE  t \in Seq(Addresses) /\ Len(t) = Len(s) /\ Len(s) \in Nat
<1>1. Len(s) \in Nat
  BY LenProperties
<1>2. t \in [1..Len(s) -> Addresses]
  BY ElementOfSeq, ObjectsAssumption
<1>3. t \in Seq(Addresses)
  BY <1>1, <1>2, SeqDef
<1>4. Len(t) \in Nat /\ 1..Len(t) = 1..Len(s)
  BY <1>2, <1>3, LenProperties
<1> QED BY <1>1, <1>3, <1>4

\* The abstract list, now and after a step.
LEMMA OrderList ==
    ASSUME Inv
    PROVE  /\ Order \in Seq(Addresses)
           /\ Len(Order) = Len(accounts) /\ Len(accounts) \in Nat
           /\ \A i \in 1..Len(accounts) : Order[i] = AddressOf[accounts[i]]
BY AddressList DEF Order, Inv, TypeOK

LEMMA NextOrderList ==
    ASSUME Inv'
    PROVE  /\ Order' \in Seq(Addresses)
           /\ Len(Order') = Len(accounts')
           /\ \A i \in 1..Len(accounts') : Order'[i] = AddressOf[accounts'[i]]
BY AddressList DEF Order, Inv, TypeOK

\* What is stored is what the address map knows.
LEMMA StoredDef == ASSUME Inv PROVE KS!Stored = {a \in Addresses : accAddressMap[a] # NoObject}
<1>1. KS!Stored = {AddressOf[o] : o \in Live}
  BY OrderList, LiveDef DEF KS!Stored, Inv, TypeOK
<1> QED BY <1>1, LiveObjects

\* A label that accLabelMap does not know is on no account.
LEMMA UnknownIsFree ==
    ASSUME Inv, NEW l \in Labels, accLabelMap[l] = NoObject
    PROVE  KS!Free(l)
<1> SUFFICES ASSUME NEW a \in Addresses, accAddressMap[a] # NoObject, LabelOf[a] = l
             PROVE  FALSE
  BY StoredDef DEF KS!Free
<1>1. accAddressMap[a] \in Live /\ label[accAddressMap[a]] = l
  BY LiveObjects DEF LabelOf
<1> QED BY <1>1, LiveObjects, LabelsAssumption DEF Inv, LabelFindsAccount

LEMMA InitRefines == Init => KS!Init
<1> SUFFICES ASSUME Init PROVE KS!Init
  OBVIOUS
<1>1. Inv
  BY Initially
<1>2. Order = <<>>
  BY <1>1, OrderList, EmptySeq DEF Init
<1> QED BY <1>2 DEF Init, KS!Init, LabelOf, Default

LEMMA NewAccountRefines ==
    ASSUME Inv, Inv', NEW o \in Objects, NEW l \in Labels \cup {NoLabel}, NEW d \in BOOLEAN,
           NEW s \in Schemes, NEW p \in Passwords, NewAccount(o, l, d, s, p)
    PROVE  KS!Add(AddressOf[o], l)
<1> USE DEF NewAccount, NewAccountData, AddAccountData
<1>1. AddressOf[o] \in Addresses /\ o # NoObject
  BY ObjectsAssumption
<1>2. AddressOf[o] \notin KS!Stored
  BY StoredDef
<1>3. l = NoLabel \/ KS!Free(l)
  BY UnknownIsFree
<1>4. Order' = Append(Order, AddressOf[o])
  <2>1. Order' \in Seq(Addresses) /\ Append(Order, AddressOf[o]) \in Seq(Addresses)
    BY <1>1, OrderList, NextOrderList, AppendProperties
  <2>2. Len(Order') = Len(Append(Order, AddressOf[o]))
    BY <1>1, OrderList, NextOrderList, AppendProperties, Added
  <2>3. ASSUME NEW i \in 1..Len(Order') PROVE Order'[i] = Append(Order, AddressOf[o])[i]
    <3>1. Len(Order') = Len(accounts) + 1 /\ Order'[i] = AddressOf[accounts'[i]]
      BY NextOrderList, Added
    <3>2. CASE i = Len(accounts) + 1
      BY <1>1, <3>1, <3>2, OrderList, AppendProperties, Added
    <3>3. CASE i \in 1..Len(accounts)
      BY <1>1, <3>1, <3>3, OrderList, AppendProperties, Added
    <3> QED BY <3>1, <3>2, <3>3, OrderList
  <2> QED BY <2>1, <2>2, <2>3, SeqEqual
<1>5. LabelOf' = [LabelOf EXCEPT ![AddressOf[o]] = l]
  <2>1. \A a \in Addresses : accAddressMap[a] # NoObject => accAddressMap[a] # o /\ accAddressMap[a] \in Objects
    BY LiveObjects
  <2> QED BY <1>1, <2>1 DEF LabelOf, Inv, TypeOK
<1>6. Default' = IF Default = NoAddress THEN AddressOf[o] ELSE Default
  <2>1. defAcc \in Objects => AddressOf[defAcc] # NoAddress
    BY ObjectsAssumption, AddressAssumption
  <2> QED BY <1>1, <2>1 DEF Default, Inv, TypeOK
<1> QED BY <1>2, <1>3, <1>4, <1>5, <1>6 DEF KS!Add

LEMMA DeleteAccountRefines ==
    ASSUME Inv, Inv', NEW a \in Addresses, DeleteAccount(a)
    PROVE  \E k \in 1..Len(Order) : KS!Remove(k)
<1> USE DEF DeleteAccount, Delete, fieldVars
<1> DEFINE o == accAddressMap[a]
<1>1. o \in Live /\ o \in Objects /\ o # NoObject /\ AddressOf[o] = a
  BY LiveObjects
<1>2. PICK k \in 1..Len(accounts) :
         /\ accounts[k] = o
         /\ Len(accounts') = Len(accounts) - 1
         /\ \A j \in 1..Len(accounts') :
               accounts'[j] = IF j < k THEN accounts[j] ELSE accounts[j + 1]
  BY Removed
<1>3. k \in 1..Len(Order) /\ Order[k] = a
  BY <1>1, <1>2, OrderList
<1>4. Order' = RemoveAt(Order, k)
  <2>1. /\ RemoveAt(Order, k) \in Seq(Addresses)
        /\ Len(RemoveAt(Order, k)) = Len(Order) - 1
        /\ \A j \in 1..Len(Order) - 1 :
              RemoveAt(Order, k)[j] = IF j < k THEN Order[j] ELSE Order[j + 1]
    BY <1>3, OrderList, RemoveAtElements
  <2>2. /\ Order' \in Seq(Addresses) /\ Len(Order') = Len(Order) - 1
        /\ \A j \in 1..Len(Order') : Order'[j] = AddressOf[accounts'[j]]
    BY <1>2, OrderList, NextOrderList
  <2>3. ASSUME NEW j \in 1..Len(Order') PROVE Order'[j] = RemoveAt(Order, k)[j]
    <3>1. j \in 1..Len(accounts) /\ j + 1 \in 1..Len(accounts) /\ j \in 1..Len(accounts')
      BY <1>2, <2>2, OrderList
    <3>2. Order[j] = AddressOf[accounts[j]] /\ Order[j + 1] = AddressOf[accounts[j + 1]]
      BY <3>1, OrderList
    <3> QED BY <1>2, <2>1, <2>2, <3>1, <3>2
  <2> QED BY <2>1, <2>2, <2>3, SeqEqual
<1>5. a # Default
  <2>1. defAcc \in Live /\ defAcc # o
    BY <1>1, EmptySeq, LiveObjects DEF Inv, TypeOK, DefaultAgrees, Live, ToSet
  <2> QED BY <1>1, <2>1, LiveObjects DEF Default
<1>6. LabelOf' = [LabelOf EXCEPT ![a] = NoLabel]
  BY <1>1 DEF LabelOf, Inv, TypeOK
<1>7. Default' = Default
  BY DEF Default
<1> QED BY <1>3, <1>4, <1>5, <1>6, <1>7 DEF KS!Remove, RemoveAt

LEMMA SetDefaultAccountRefines ==
    ASSUME Inv, NEW a \in Addresses, SetDefaultAccount(a)
    PROVE  KS!MakeDefault(a)
<1>1. a \in KS!Stored /\ AddressOf[accAddressMap[a]] = a
  BY StoredDef, LiveObjects DEF SetDefaultAccount
<1>2. Default' = a
  BY <1>1 DEF SetDefaultAccount, Default
<1> QED BY <1>1, <1>2 DEF SetDefaultAccount, KS!MakeDefault, Order, LabelOf

LEMMA SetLabelRefines ==
    ASSUME Inv, NEW a \in Addresses, NEW l \in Labels \cup {NoLabel}, SetLabel(a, l)
    PROVE  KS!Rename(a, l)
<1>1. a \in KS!Stored
  BY StoredDef DEF SetLabel
<1>2. l = NoLabel \/ KS!Free(l)
  BY UnknownIsFree DEF SetLabel
<1>3. LabelOf' = [LabelOf EXCEPT ![a] = l]
  <2>1. \A b \in Addresses \ {a} :
           accAddressMap[b] # NoObject => /\ accAddressMap[b] # accAddressMap[a]
                                          /\ accAddressMap[b] \in Objects
    BY LiveObjects DEF SetLabel
  <2>2. accAddressMap[a] \in Objects
    BY LiveObjects DEF SetLabel
  <2> QED BY <2>1, <2>2 DEF SetLabel, LabelOf, Inv, TypeOK
<1> QED BY <1>1, <1>2, <1>3 DEF SetLabel, KS!Rename, Order, Default

\* Schemes and passwords are below what Keystore promises.
LEMMA FieldsStutter ==
    ASSUME NEW a,
           \/ \E s \in Schemes : SetSigScheme(a, s)
           \/ \E old, new \in Passwords : ChangeAccountPassword(a, old, new)
           \/ UNCHANGED vars
    PROVE  UNCHANGED KS!vars
BY DEF SetSigScheme, ChangeAccountPassword, vars, tableVars, fieldVars, KS!vars,
       Order, LabelOf, Default

LEMMA NextRefines == Inv /\ Inv' /\ [Next]_vars => [KS!Next]_(KS!vars)
<1> SUFFICES ASSUME Inv, Inv', [Next]_vars PROVE KS!Next \/ UNCHANGED KS!vars
  OBVIOUS
<1>1. ASSUME NEW o \in Objects, NEW l \in Labels \cup {NoLabel}, NEW d \in BOOLEAN,
             NEW s \in Schemes, NEW p \in Passwords, NewAccount(o, l, d, s, p)
      PROVE  KS!Next
  BY <1>1, NewAccountRefines, ObjectsAssumption DEF KS!Next
<1>2. ASSUME NEW a \in Addresses, DeleteAccount(a) PROVE KS!Next
  BY <1>2, DeleteAccountRefines DEF KS!Next
<1>3. ASSUME NEW a \in Addresses, SetDefaultAccount(a) PROVE KS!Next
  BY <1>3, SetDefaultAccountRefines DEF KS!Next
<1>4. ASSUME NEW a \in Addresses, NEW l \in Labels \cup {NoLabel}, SetLabel(a, l) PROVE KS!Next
  BY <1>4, SetLabelRefines DEF KS!Next
<1> QED BY <1>1, <1>2, <1>3, <1>4, FieldsStutter DEF Next

\* The wallet implements Keystore: an addition, a deletion, a relabelling or a
\* new default account each take the one abstract step it stands for, and no
\* label is ever given to a second account (wallet.go:122-349).
THEOREM Refinement == Spec => ImplementsKeystore
BY InitRefines, NextRefines, Invariance, PTL DEF Spec, ImplementsKeystore, KS!Spec
=============================================================================
