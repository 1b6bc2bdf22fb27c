-------------------------- MODULE WalletFileProofs --------------------------
(***************************************************************************)
(* Proofs about saving and opening a wallet, for any accounts and          *)
(* operations.  What has been saved opens again, and gives the wallet      *)
(* back, whatever number of goroutines save, as long as no other operation *)
(* runs during a Save; it is never lost as long as one goroutine saves;    *)
(* and what many steps do to the file is what Vault does in one.           *)
(***************************************************************************)
EXTENDS WalletFile, WalletProofs, FiniteSetTheorems

-----------------------------------------------------------------------------
(* Types of the texts. *)

FullRecord == [object : Objects, key : Passwords, salt : Passwords,
               label : Labels \cup {NoLabel}, sigSch : Schemes, isDefault : BOOLEAN]
KeyRecord == [object : Objects, key : Passwords]
Texts == [whole : {TRUE}, version : 0..MaxOps, records : Seq(FullRecord)]
Drafts == [whole : {TRUE}, version : 0..MaxOps, records : Seq(FullRecord \cup KeyRecord)]

\* What a saver holds: nothing, a text whose last account has only its key so
\* far, or one of complete accounts.
Holds(s) ==
    /\ pc[s] = "idle" => data[s] = Torn
    /\ pc[s] \in {"key", "open", "write", "rename"} => data[s] \in Texts
    /\ pc[s] = "rest" =>
          /\ data[s] \in Drafts /\ list[s] # <<>> /\ data[s].records # <<>>
          /\ \A i \in 1..Len(data[s].records) - 1 : data[s].records[i] \in FullRecord
          /\ data[s].records[Len(data[s].records)] \in KeyRecord
    /\ open[s] # NoInode <=> pc[s] = "write"

Types ==
    /\ TypeOK
    /\ running \in BOOLEAN
    /\ version \in 0..MaxOps /\ saved \in 0..MaxOps
    /\ pc \in [Savers -> {"idle", "key", "rest", "open", "write", "rename"}]
    /\ list \in [Savers -> Seq(Objects)]
    /\ data \in [Savers -> {Torn} \cup Drafts]
    /\ name \in [Savers -> Names]
    /\ open \in [Savers -> Inodes \cup {NoInode}]
    /\ dir \in [Names -> Inodes \cup {NoInode}]
    /\ content \in [Inodes -> {Torn, Mixed} \cup Texts]
    /\ \A s \in Savers : Holds(s)

LEMMA TextsAreDrafts == Texts \subseteq Drafts
<1> SUFFICES ASSUME NEW t \in Texts PROVE t \in Drafts
  OBVIOUS
<1>1. t.records \in Seq(FullRecord \cup KeyRecord)
  BY SeqMonotonic DEF Texts
<1> QED BY <1>1 DEF Texts, Drafts

\* A text with another list.
LEMMA WithRecords ==
    ASSUME NEW d \in Drafts, NEW r \in Seq(FullRecord \cup KeyRecord),
           NEW e, e = [d EXCEPT !.records = r]
    PROVE  e \in Drafts /\ e.version = d.version /\ e.records = r
BY DEF Drafts

\* A list of complete accounts, by its elements.
LEMMA CompleteList ==
    ASSUME NEW S, NEW T, NEW s \in Seq(S), \A i \in 1..Len(s) : s[i] \in T
    PROVE  s \in Seq(T)
<1>1. Len(s) \in Nat /\ s \in [1..Len(s) -> S]
  BY LenProperties
<1>2. s \in [1..Len(s) -> T]
  BY <1>1
<1> QED BY <1>1, <1>2, SeqDef

\* A set grows by one at most.
LEMMA OneMore ==
    ASSUME NEW S, IsFiniteSet(S), NEW x
    PROVE  IsFiniteSet(S \cup {x}) /\ Cardinality(S \cup {x}) <= Cardinality(S) + 1
<1>1. Cardinality(S) \in Nat
  BY FS_CardinalityType
<1>2. /\ IsFiniteSet(S \cup {x})
      /\ Cardinality(S \cup {x}) = IF x \in S THEN Cardinality(S) ELSE Cardinality(S) + 1
  BY FS_AddElement
<1> QED BY <1>1, <1>2

\* There is a free inode for a saver that has none open: the names take two,
\* the other savers one each.
LEMMA SomeUnused ==
    ASSUME Types, NEW s \in Savers, open[s] = NoInode
    PROVE  Min(Unused) \in Unused
<1> DEFINE others == Savers \ {s}
           opened == {open[t] : t \in others}
           used == (opened \cup {dir["path"]}) \cup {dir["path~"]}
           N == Cardinality(Savers)
<1>1. IsFiniteSet(Savers) /\ N \in Nat
  BY SavingAssumption, FS_CardinalityType
<1>2. IsFiniteSet(others) /\ Cardinality(others) = N - 1
  BY <1>1, FS_RemoveElement
<1>3. IsFiniteSet(opened) /\ Cardinality(opened) <= N - 1
  <2> DEFINE f == [t \in others |-> open[t]]
  <2>1. f \in Surjection(others, opened)
    BY DEF Surjection
  <2> HIDE DEF f, others, opened
  <2> QED BY <1>2, <2>1, FS_Surjection
<1>4. IsFiniteSet(used) /\ Cardinality(used) <= N + 1
  <2> HIDE DEF opened
  <2> DEFINE more == opened \cup {dir["path"]}
  <2>1. IsFiniteSet(more) /\ Cardinality(more) <= Cardinality(opened) + 1
    BY <1>3, OneMore
  <2>2. IsFiniteSet(used) /\ Cardinality(used) <= Cardinality(more) + 1
    <3> HIDE DEF more
    <3> QED BY <2>1, OneMore DEF more
  <2>3. Cardinality(used) \in Nat /\ Cardinality(opened) \in Nat
        /\ Cardinality(more) \in Nat
    BY <1>3, <2>1, <2>2, FS_CardinalityType
  <2> HIDE DEF used, more
  <2> QED BY <1>1, <1>3, <2>1, <2>2, <2>3
<1>5. IsFiniteSet(Inodes) /\ Cardinality(Inodes) = N + 2
  BY <1>1, FS_Interval DEF Inodes
<1>6. PICK i \in Inodes : i \notin used
  <2> SUFFICES ASSUME Inodes \subseteq used PROVE FALSE
    OBVIOUS
  <2> HIDE DEF used
  <2>1. Cardinality(Inodes) <= Cardinality(used)
    BY <1>4, FS_Subset
  <2>2. Cardinality(used) \in Nat
    BY <1>4, FS_CardinalityType
  <2> QED BY <1>1, <1>4, <1>5, <2>1, <2>2
<1>7. ToSet(<<dir["path"], dir["path~"]>>) = {dir["path"], dir["path~"]}
  <2>1. DOMAIN <<dir["path"], dir["path~"]>> = {1, 2}
    OBVIOUS
  <2> QED BY <2>1 DEF ToSet
<1>8. i # NoInode
  BY <1>1 DEF Inodes, NoInode
<1>9. i \in Unused
  BY <1>6, <1>7, <1>8 DEF Unused
<1>10. Unused \subseteq Nat
  BY <1>1 DEF Unused, Inodes
<1> QED BY <1>9, <1>10, Least
-----------------------------------------------------------------------------
(* Every step keeps the types. *)

LEMMA TypesInitially == FileInit => Types
<1> SUFFICES ASSUME FileInit PROVE Types
  OBVIOUS
<1>1. TypeOK
  BY Initially DEF FileInit, Inv
<1>2. 0 \in 0..MaxOps /\ <<>> \in Seq(Objects)
  BY SavingAssumption, EmptySeq
<1>3. \A s \in Savers : Holds(s)
  BY DEF FileInit, Holds
<1> QED BY <1>1, <1>2, <1>3 DEF FileInit, Types, Names

\* The list without the account of an address.
LEMMA DeletedList ==
    ASSUME accounts \in Seq(Objects), NEW a
    PROVE  WithoutAddress(a) \in Seq(Objects)
<1> DEFINE Test(o) == AddressOf[o] = a
           I == {i \in 1..Len(accounts) : Test(accounts[i])}
<1>1. CASE I = {}
  BY <1>1 DEF WithoutAddress, RemoveFirstMatch
<1>2. CASE I # {}
  <2>1. I \subseteq Nat
    OBVIOUS
  <2>2. Min(I) \in I
    <3> HIDE DEF I
    <3> QED BY <1>2, <2>1, Least
  <2>3. SelectInSeq(accounts, Test) = Min(I)
    BY <1>2 DEF SelectInSeq
  <2>4. RemoveAt(accounts, Min(I)) \in Seq(Objects)
    BY <2>2, RemoveAtElements
  <2>5. \E i \in 1..Len(accounts) : Test(accounts[i])
    BY <1>2
  <2> QED BY <2>3, <2>4, <2>5 DEF WithoutAddress, RemoveFirstMatch
<1> QED BY <1>1, <1>2

\* The operations on a wallet keep the types by themselves, however
\* inconsistent the wallet has become.
LEMMA OperationTypes == TypeOK /\ Next => TypeOK'
<1> SUFFICES ASSUME TypeOK, Next PROVE TypeOK'
  OBVIOUS
<1> USE DEF TypeOK
<1>1. ASSUME NEW o \in Objects, NEW l \in Labels \cup {NoLabel}, NEW d \in BOOLEAN,
             NEW s \in Schemes, NEW p \in Passwords, NewAccount(o, l, d, s, p)
      PROVE  TypeOK'
  <2>1. accounts' \in Seq(Objects) /\ AddressOf[o] \in Addresses
    BY <1>1, AppendProperties, ObjectsAssumption DEF NewAccount, AddAccountData
  <2> QED BY <1>1, <2>1 DEF NewAccount, NewAccountData, AddAccountData
<1>2. ASSUME NEW a \in Addresses, DeleteAccount(a) PROVE TypeOK'
  <2>1. accounts' \in Seq(Objects)
    BY <1>2, DeletedList DEF DeleteAccount
  <2> QED BY <1>2, <2>1 DEF DeleteAccount, Delete, fieldVars
<1>3. ASSUME NEW a \in Addresses, SetDefaultAccount(a) PROVE TypeOK'
  BY <1>3 DEF SetDefaultAccount
<1>4. ASSUME NEW a \in Addresses, NEW l \in Labels \cup {NoLabel}, SetLabel(a, l) PROVE TypeOK'
  BY <1>4 DEF SetLabel, Delete
<1>5. ASSUME NEW a \in Addresses, NEW s \in Schemes, SetSigScheme(a, s) PROVE TypeOK'
  BY <1>5 DEF SetSigScheme, tableVars
<1>6. ASSUME NEW a \in Addresses, NEW old \in Passwords, NEW new \in Passwords,
             ChangeAccountPassword(a, old, new)
      PROVE  TypeOK'
  BY <1>6 DEF ChangeAccountPassword, tableVars
<1> QED BY <1>1, <1>2, <1>3, <1>4, <1>5, <1>6 DEF Next

\* The fields of the records that are read back.
LEMMA RecordFields ==
    ASSUME NEW recs \in Seq(FullRecord)
    PROVE  /\ Len(recs) \in Nat
           /\ \A i \in 1..Len(recs) :
                /\ recs[i] \in FullRecord
                /\ recs[i].object \in Objects /\ AddressOf[recs[i].object] \in Addresses
                /\ recs[i].key \in Passwords /\ recs[i].label \in Labels \cup {NoLabel}
                /\ recs[i].sigSch \in Schemes /\ recs[i].isDefault \in BOOLEAN
<1>1. Len(recs) \in Nat /\ \A i \in 1..Len(recs) : recs[i] \in FullRecord
  BY LenProperties, ElementOfSeq
<1> QED BY <1>1, ObjectsAssumption DEF FullRecord

\* Whatever texts hold, a wallet loaded from one is well typed.
LEMMA LoadTypes ==
    ASSUME TypeOK, NEW recs \in Seq(FullRecord), Load(recs)
    PROVE  TypeOK'
<1> DEFINE objects == {recs[i].object : i \in 1..Len(recs)}
<1>a. /\ Len(recs) \in Nat
      /\ \A i \in 1..Len(recs) :
            /\ recs[i] \in FullRecord
            /\ recs[i].object \in Objects /\ AddressOf[recs[i].object] \in Addresses
            /\ recs[i].key \in Passwords /\ recs[i].label \in Labels \cup {NoLabel}
            /\ recs[i].sigSch \in Schemes /\ recs[i].isDefault \in BOOLEAN
  BY RecordFields
<1>1. accounts' \in Seq(Objects)
  <2>1. accounts' \in [1..Len(recs) -> Objects]
    BY <1>a DEF Load
  <2> QED BY <1>a, <2>1, SeqDef
<1>2. ASSUME NEW S, S \subseteq 1..Len(recs) PROVE LastOf(recs, S) \in Objects \cup {NoObject}
  <2>1. CASE S = {}
    BY <2>1 DEF LastOf
  <2>2. CASE S # {}
    <3>1. Max(S) \in S
      BY <1>a, <1>2, <2>2, Greatest
    <3> QED BY <1>a, <1>2, <2>2, <3>1 DEF LastOf
  <2> QED BY <2>1, <2>2
<1>3. accAddressMap' \in [Addresses -> Objects \cup {NoObject}]
  <2>1. \A a \in Addresses :
           LastOf(recs, {i \in 1..Len(recs) : AddressOf[recs[i].object] = a}) \in Objects \cup {NoObject}
    BY <1>2
  <2> QED BY <2>1 DEF Load
<1>4. accLabelMap' \in [Labels -> Objects \cup {NoObject}]
  <2>1. \A l \in Labels :
           LastOf(recs, {i \in 1..Len(recs) : recs[i].label = l}) \in Objects \cup {NoObject}
    BY <1>2
  <2> QED BY <2>1 DEF Load
<1>5. defAcc' \in Objects \cup {NoObject}
  <2>1. CASE recs = <<>>
    BY <2>1 DEF Load
  <2>2. CASE recs # <<>>
    <3>1. 1 \in 1..Len(recs)
      BY <1>a, <2>2, EmptySeq
    <3>2. Defaults(recs) \subseteq 1..Len(recs)
      BY DEF Defaults
    <3>3. Defaults(recs) # {} => Min(Defaults(recs)) \in Defaults(recs)
      BY <1>a, <3>2, Least
    <3> QED BY <1>a, <2>2, <3>1, <3>2, <3>3 DEF Load
  <2> QED BY <2>1, <2>2
<1>6. ASSUME NEW o \in objects
      PROVE  /\ Record(recs, o).key \in Passwords
             /\ Record(recs, o).label \in Labels \cup {NoLabel}
             /\ Record(recs, o).sigSch \in Schemes
             /\ Record(recs, o).isDefault \in BOOLEAN
  <2>1. \E i \in 1..Len(recs) : recs[i].object = o
    OBVIOUS
  <2>2. PICK i \in 1..Len(recs) : Record(recs, o) = recs[i]
    BY <2>1 DEF Record
  <2> QED BY <1>a, <2>2
<1>7. /\ label' \in [Objects -> Labels \cup {NoLabel}]
      /\ isDefault' \in [Objects -> BOOLEAN]
      /\ sigSch' \in [Objects -> Schemes]
      /\ password' \in [Objects -> Passwords]
  BY <1>6 DEF Load, TypeOK
<1> QED BY <1>1, <1>3, <1>4, <1>5, <1>7 DEF TypeOK

\* A step of one saver leaves the others alone.
LEMMA HeldElsewhere ==
    ASSUME NEW s \in Savers, \A t \in Savers : Holds(t), Holds(s)',
           \A t \in Savers \ {s} : /\ pc'[t] = pc[t] /\ list'[t] = list[t]
                                   /\ data'[t] = data[t] /\ open'[t] = open[t]
    PROVE  \A t \in Savers : Holds(t)'
BY DEF Holds

\* The wallet in memory is not touched.
LEMMA WalletSame == ASSUME UNCHANGED vars, TypeOK PROVE TypeOK'
BY DEF vars, tableVars, fieldVars, TypeOK

LEMMA SaveTypes ==
    ASSUME Types, NEW s \in Savers, Save(s)
    PROVE  Types'
<1> USE DEF Save, saverVars, diskVars
<1>1. accounts \in Seq(Objects)
  BY DEF Types, TypeOK
<1>2. Text(version, <<>>) \in Texts
  BY EmptySeq DEF Text, Texts, Types
<1>3. Text(version, <<>>) \in Drafts
  BY <1>2, TextsAreDrafts
<1>4. /\ pc'[s] = "key" /\ data'[s] = Text(version, <<>>) /\ open'[s] = NoInode
      /\ \A t \in Savers \ {s} : pc'[t] = pc[t] /\ list'[t] = list[t] /\ data'[t] = data[t]
                                 /\ open'[t] = open[t]
  BY DEF Types, Holds
<1>5. Holds(s)'
  BY <1>2, <1>4 DEF Holds
<1>6. \A t \in Savers : Holds(t)'
  BY <1>4, <1>5, HeldElsewhere DEF Types
<1>7. TypeOK'
  BY WalletSame DEF Types
<1>8. pc' \in [Savers -> {"idle", "key", "rest", "open", "write", "rename"}]
  BY DEF Types
<1>9. list' \in [Savers -> Seq(Objects)] /\ data' \in [Savers -> {Torn} \cup Drafts]
  BY <1>1, <1>3 DEF Types
<1> QED BY <1>6, <1>7, <1>8, <1>9 DEF Types

LEMMA MarshalKeyTypes ==
    ASSUME Types, NEW s \in Savers, MarshalKey(s)
    PROVE  Types'
<1> DEFINE recs == data[s].records
           rec == [object |-> Head(list[s]), key |-> password[Head(list[s])]]
<1>1. data[s] \in Texts /\ recs \in Seq(FullRecord)
  BY DEF MarshalKey, Types, Holds, Texts
<1>2. Head(list[s]) \in Objects
  BY HeadTailProperties DEF MarshalKey, Types
<1>3. rec \in KeyRecord
  BY <1>2 DEF Types, TypeOK, KeyRecord
<1>4. recs \in Seq(FullRecord \cup KeyRecord)
  BY <1>1, SeqMonotonic
<1> HIDE DEF rec
<1>5. /\ Append(recs, rec) \in Seq(FullRecord \cup KeyRecord) /\ Append(recs, rec) # <<>>
      /\ Len(Append(recs, rec)) = Len(recs) + 1 /\ Len(recs) \in Nat
      /\ \A i \in 1..Len(recs) : Append(recs, rec)[i] = recs[i]
      /\ Append(recs, rec)[Len(recs) + 1] = rec
      /\ \A i \in 1..Len(recs) : recs[i] \in FullRecord
  BY <1>1, <1>3, <1>4, AppendProperties, LenProperties, ElementOfSeq
<1> DEFINE new == Append(recs, rec)
<1>6. /\ pc'[s] = "rest" /\ data'[s] = [data[s] EXCEPT !.records = new]
      /\ open'[s] = NoInode /\ list'[s] # <<>>
      /\ \A t \in Savers \ {s} : pc'[t] = pc[t] /\ list'[t] = list[t] /\ data'[t] = data[t]
                                 /\ open'[t] = open[t]
  BY DEF MarshalKey, saverVars, Types, Holds, rec
<1> HIDE DEF new
<1>7. data'[s] \in Drafts /\ data'[s].records = new
  <2>1. data[s] \in Drafts
    BY <1>1, TextsAreDrafts
  <2>2. data'[s] = [whole |-> TRUE, version |-> data[s].version, records |-> new]
    BY <1>6, <2>1 DEF Drafts
  <2>3. data[s].version \in 0..MaxOps
    BY <2>1 DEF Drafts
  <2>4. new \in Seq(FullRecord \cup KeyRecord)
    BY <1>5 DEF new
  <2> QED BY <2>2, <2>3, <2>4 DEF Drafts
<1>8. Holds(s)'
  BY <1>3, <1>5, <1>6, <1>7 DEF Holds, new
<1>9. \A t \in Savers : Holds(t)'
  BY <1>6, <1>8, HeldElsewhere DEF Types
<1>10. TypeOK'
  BY WalletSame DEF MarshalKey, Types
<1>11. pc' \in [Savers -> {"idle", "key", "rest", "open", "write", "rename"}]
  BY DEF MarshalKey, Types
<1>12. data' \in [Savers -> {Torn} \cup Drafts]
  BY <1>6, <1>7 DEF MarshalKey, Types
<1> QED BY <1>9, <1>10, <1>11, <1>12 DEF MarshalKey, saverVars, diskVars, Types

\* The account whose key was read gets its other fields.
LEMMA RestList ==
    ASSUME Types, NEW s \in Savers, MarshalRest(s)
    PROVE  /\ data'[s] \in Texts
           /\ data'[s].version = data[s].version
           /\ Len(data'[s].records) = Len(data[s].records) /\ Len(data[s].records) \in Nat \ {0}
           /\ \A i \in 1..Len(data[s].records) - 1 : data'[s].records[i] = data[s].records[i]
           /\ LET o == Head(list[s]) IN
              data'[s].records[Len(data[s].records)] =
                 [object |-> o, key |-> data[s].records[Len(data[s].records)].key,
                  salt |-> password[o], label |-> label[o], sigSch |-> sigSch[o],
                  isDefault |-> isDefault[o]]
<1> DEFINE recs == data[s].records
           n == Len(recs)
           o == Head(list[s])
           rec == [object |-> o, key |-> recs[n].key, salt |-> password[o], label |-> label[o],
                   sigSch |-> sigSch[o], isDefault |-> isDefault[o]]
           new == [recs EXCEPT ![n] = rec]
<1>1. data[s] \in Drafts /\ recs \in Seq(FullRecord \cup KeyRecord) /\ recs # <<>>
  BY DEF MarshalRest, Types, Holds, Drafts
<1>2. n \in Nat \ {0} /\ n \in 1..n
  BY <1>1, EmptySeq
<1>3. o \in Objects
  BY HeadTailProperties DEF MarshalRest, Types, Holds
<1>4. recs[n].key \in Passwords
  BY DEF MarshalRest, Types, Holds, KeyRecord
<1>5. rec \in FullRecord
  BY <1>3, <1>4 DEF Types, TypeOK, FullRecord
<1> HIDE DEF rec
<1>6. /\ new \in Seq(FullRecord \cup KeyRecord) /\ Len(new) = n
      /\ \A j \in 1..n : new[j] = IF j = n THEN rec ELSE recs[j]
  BY <1>1, <1>2, <1>5, ExceptSeq
<1>7. data'[s] = [data[s] EXCEPT !.records = new]
  BY DEF MarshalRest, Types, rec
<1> HIDE DEF new
<1>8. data'[s].records = new /\ data'[s].version = data[s].version
      /\ data'[s] = [whole |-> TRUE, version |-> data[s].version, records |-> new]
  BY <1>1, <1>7 DEF Drafts
<1>9. \A j \in 1..Len(new) : new[j] \in FullRecord
  BY <1>2, <1>5, <1>6 DEF MarshalRest, Types, Holds
<1>10. new \in Seq(FullRecord)
  BY <1>6, <1>9, CompleteList
<1>11. data'[s] \in Texts
  <2>1. data[s].version \in 0..MaxOps
    BY <1>1 DEF Drafts
  <2> QED BY <1>8, <1>10, <2>1 DEF Texts
<1> QED BY <1>2, <1>6, <1>8, <1>11 DEF rec

LEMMA MarshalRestTypes ==
    ASSUME Types, NEW s \in Savers, MarshalRest(s)
    PROVE  Types'
<1> USE DEF MarshalRest, saverVars, diskVars
<1>1. data'[s] \in Texts
  BY RestList
<1>2. Tail(list[s]) \in Seq(Objects)
  BY HeadTailProperties DEF Types, Holds
<1>3. /\ pc'[s] = "key" /\ open'[s] = NoInode
      /\ \A t \in Savers \ {s} : pc'[t] = pc[t] /\ list'[t] = list[t] /\ data'[t] = data[t]
                                 /\ open'[t] = open[t]
  BY DEF Types, Holds
<1>4. Holds(s)'
  BY <1>1, <1>3 DEF Holds
<1>5. \A t \in Savers : Holds(t)'
  BY <1>3, <1>4, HeldElsewhere DEF Types
<1>6. TypeOK'
  BY WalletSame DEF Types
<1>7. pc' \in [Savers -> {"idle", "key", "rest", "open", "write", "rename"}]
  BY DEF Types
<1>8. list' \in [Savers -> Seq(Objects)]
  BY <1>2 DEF Types
<1>9. data' \in [Savers -> {Torn} \cup Drafts]
  <2>1. \E d : data' = [data EXCEPT ![s] = d]
    BY Zenon
  <2>2. data'[s] \in Drafts
    BY <1>1, TextsAreDrafts
  <2> QED BY <2>1, <2>2 DEF Types
<1> QED BY <1>5, <1>6, <1>7, <1>8, <1>9 DEF Types

LEMMA FileExistedTypes ==
    ASSUME Types, NEW s \in Savers, FileExisted(s)
    PROVE  Types'
<1> USE DEF FileExisted, saverVars, diskVars
<1>1. /\ pc'[s] = "open" /\ pc[s] = "key"
      /\ \A t \in Savers \ {s} : pc'[t] = pc[t] /\ list'[t] = list[t] /\ data'[t] = data[t]
                                 /\ open'[t] = open[t]
  BY DEF Types
<1>2. Holds(s)'
  BY <1>1 DEF Holds, Types
<1>3. \A t \in Savers : Holds(t)'
  BY <1>1, <1>2, HeldElsewhere DEF Types
<1>4. TypeOK'
  BY WalletSame DEF Types
<1>5. pc' \in [Savers -> {"idle", "key", "rest", "open", "write", "rename"}]
  BY DEF Types
<1>6. name' \in [Savers -> Names]
  BY DEF Types, Names
<1> QED BY <1>3, <1>4, <1>5, <1>6 DEF Types

LEMMA OpenTypes ==
    ASSUME Types, NEW s \in Savers, Open(s)
    PROVE  Types'
<1> USE DEF Open
<1>1. PICK i \in IF dir[name[s]] = NoInode THEN {Min(Unused)} ELSE {dir[name[s]]} :
         /\ dir' = [dir EXCEPT ![name[s]] = i]
         /\ content' = [content EXCEPT ![i] = Torn]
         /\ open' = [open EXCEPT ![s] = i]
  OBVIOUS
<1>2. open[s] = NoInode /\ pc[s] = "open" /\ name[s] \in Names
  BY DEF Types, Holds
<1>3. i \in Inodes /\ i # NoInode
  <2>1. NoInode \notin Inodes
    BY DEF NoInode, Inodes
  <2>2. Min(Unused) \in Inodes
    BY <1>2, SomeUnused DEF Unused
  <2> QED BY <1>1, <1>2, <2>1, <2>2 DEF Types
<1>4. /\ pc'[s] = "write" /\ open'[s] = i /\ data'[s] = data[s]
      /\ \A t \in Savers \ {s} : pc'[t] = pc[t] /\ list'[t] = list[t] /\ data'[t] = data[t]
                                 /\ open'[t] = open[t]
  BY <1>1 DEF Types
<1>5. Holds(s)'
  BY <1>2, <1>3, <1>4 DEF Holds, Types
<1>6. \A t \in Savers : Holds(t)'
  BY <1>4, <1>5, HeldElsewhere DEF Types
<1>7. TypeOK'
  BY WalletSame DEF Types
<1>8. pc' \in [Savers -> {"idle", "key", "rest", "open", "write", "rename"}]
  BY DEF Types
<1>9. /\ dir' \in [Names -> Inodes \cup {NoInode}]
      /\ content' \in [Inodes -> {Torn, Mixed} \cup Texts]
      /\ open' \in [Savers -> Inodes \cup {NoInode}]
  BY <1>1, <1>3 DEF Types
<1> QED BY <1>6, <1>7, <1>8, <1>9 DEF Types

\* What a saver keeps when its Save returns.
LEMMA ReturnTypes ==
    ASSUME Types, NEW s \in Savers, Return(s)
    PROVE  /\ pc' \in [Savers -> {"idle", "key", "rest", "open", "write", "rename"}]
           /\ list' \in [Savers -> Seq(Objects)]
           /\ data' \in [Savers -> {Torn} \cup Drafts]
           /\ name' \in [Savers -> Names]
           /\ open' \in [Savers -> Inodes \cup {NoInode}]
           /\ \A t \in Savers : Holds(t)'
<1> USE DEF Return
<1>1. /\ pc'[s] = "idle" /\ open'[s] = NoInode /\ data'[s] = Torn
      /\ \A t \in Savers \ {s} : pc'[t] = pc[t] /\ list'[t] = list[t] /\ data'[t] = data[t]
                                 /\ open'[t] = open[t]
  BY DEF Types
<1>2. Holds(s)'
  BY <1>1 DEF Holds
<1>3. \A t \in Savers : Holds(t)'
  BY <1>1, <1>2, HeldElsewhere DEF Types
<1>4. <<>> \in Seq(Objects)
  BY EmptySeq
<1> QED BY <1>3, <1>4 DEF Types, Names

LEMMA WriteTypes ==
    ASSUME Types, NEW s \in Savers, Write(s)
    PROVE  Types'
<1> USE DEF Write
<1>1. PICK t \in IF content[open[s]] = Torn THEN {data[s]} ELSE {data[s], Mixed} :
         content' = [content EXCEPT ![open[s]] = t]
  OBVIOUS
<1>2. data[s] \in Texts /\ data[s].version \in 0..MaxOps
  BY DEF Types, Holds, Texts
<1>3. content' \in [Inodes -> {Torn, Mixed} \cup Texts]
  BY <1>1, <1>2 DEF Types
<1>4. TypeOK'
  BY WalletSame DEF Types
<1>5. CASE name[s] = "path"
  BY <1>2, <1>3, <1>4, <1>5, ReturnTypes DEF Types, ReturnSaved
<1>6. CASE name[s] # "path"
  <2>1. /\ pc'[s] = "rename" /\ open'[s] = NoInode /\ data'[s] = data[s]
        /\ \A u \in Savers \ {s} : pc'[u] = pc[u] /\ list'[u] = list[u] /\ data'[u] = data[u]
                                   /\ open'[u] = open[u]
    BY <1>6 DEF Types
  <2>2. Holds(s)'
    BY <1>2, <2>1 DEF Holds
  <2>3. \A u \in Savers : Holds(u)'
    BY <2>1, <2>2, HeldElsewhere DEF Types
  <2> QED BY <1>3, <1>4, <1>6, <2>3 DEF Types
<1> QED BY <1>5, <1>6

LEMMA WriteFailsTypes ==
    ASSUME Types, NEW s \in Savers, WriteFails(s)
    PROVE  Types'
<1>1. TypeOK'
  BY WalletSame DEF Types, WriteFails
<1> QED BY <1>1, ReturnTypes DEF Types, WriteFails, diskVars

LEMMA RenameTypes ==
    ASSUME Types, NEW s \in Savers, Rename(s)
    PROVE  Types'
<1> USE DEF Rename
<1>1. TypeOK'
  BY WalletSame DEF Types
<1>2. data[s].version \in 0..MaxOps
  BY DEF Types, Holds, Texts
<1>3. dir' \in [Names -> Inodes \cup {NoInode}]
  BY DEF Types, Names
<1>4. Return(s)
  BY DEF ReturnSaved
<1>5. saved' \in 0..MaxOps
  BY <1>2 DEF ReturnSaved, Types
<1> QED BY <1>1, <1>3, <1>4, <1>5, ReturnTypes DEF Types

LEMMA CrashTypes ==
    ASSUME Types, Crash
    PROVE  Types'
<1>1. TypeOK'
  BY WalletSame DEF Types, Crash
<1>2. <<>> \in Seq(Objects)
  BY EmptySeq
<1>3. \A t \in Savers : Holds(t)'
  BY DEF Crash, Holds
<1> QED BY <1>1, <1>2, <1>3 DEF Types, Crash, diskVars, Names

\* The savers are idle and stay so.
LEMMA OpeningTypes ==
    ASSUME Types, TypeOK', running' = TRUE, version' \in 0..MaxOps,
           UNCHANGED <<saverVars, diskVars, saved>>
    PROVE  Types'
<1>1. \A t \in Savers : Holds(t)'
  BY DEF Types, Holds, saverVars
<1> QED BY <1>1 DEF Types, saverVars, diskVars

\* A file that opens holds a whole text.
LEMMA WholeFile ==
    ASSUME Types, File.whole
    PROVE  /\ File \in Texts /\ File.version \in 0..MaxOps /\ File.records \in Seq(FullRecord)
           /\ dir["path"] \in Inodes /\ File = content[dir["path"]]
<1>1. dir["path"] # NoInode
  BY DEF File, Torn
<1>2. dir["path"] \in Inodes
  BY <1>1 DEF Types, Names
<1>3. content[dir["path"]] \in Texts
  BY <1>1, <1>2 DEF Types, File, Torn, Mixed
<1> QED BY <1>1, <1>2, <1>3 DEF File, Texts

LEMMA FileStepTypes ==
    ASSUME Types, FileNext
    PROVE  Types'
<1>1. ASSUME Operation PROVE Types'
  <2>1. TypeOK' /\ version' \in 0..MaxOps
    BY <1>1, OperationTypes, SavingAssumption DEF Operation, Types
  <2>2. \A t \in Savers : Holds(t)'
    BY <1>1 DEF Operation, saverVars, Types, Holds
  <2> QED BY <1>1, <2>1, <2>2 DEF Operation, saverVars, diskVars, Types
<1>2. ASSUME NEW s \in Savers, SaveStep(s) PROVE Types'
  BY <1>2, SaveTypes, MarshalKeyTypes, MarshalRestTypes, FileExistedTypes, OpenTypes,
     WriteTypes, WriteFailsTypes, RenameTypes DEF SaveStep
<1>3. ASSUME Crash PROVE Types'
  BY <1>3, CrashTypes
<1>4. ASSUME OpenWallet PROVE Types'
  <2>1. File.version \in 0..MaxOps /\ File.records \in Seq(FullRecord)
    BY <1>4, WholeFile DEF OpenWallet, Opens
  <2>2. TypeOK'
    BY <1>4, <2>1, LoadTypes DEF OpenWallet, Types
  <2> QED BY <1>4, <2>1, <2>2, OpeningTypes DEF OpenWallet
<1>5. ASSUME NewWallet PROVE Types'
  <2>1. <<>> \in Seq(FullRecord) /\ 0 \in 0..MaxOps
    BY EmptySeq, SavingAssumption
  <2>2. TypeOK'
    BY <1>5, <2>1, LoadTypes DEF NewWallet, Types
  <2> QED BY <1>5, <2>1, <2>2, OpeningTypes DEF NewWallet
<1> QED BY <1>1, <1>2, <1>3, <1>4, <1>5 DEF FileNext

LEMMA FileStutter ==
    ASSUME Types, UNCHANGED allVars
    PROVE  Types'
<1> USE DEF allVars, fileVars, saverVars, diskVars
<1>1. TypeOK'
  BY WalletSame DEF Types
<1>2. \A t \in Savers : Holds(t)'
  BY DEF Types, Holds
<1> QED BY <1>1, <1>2 DEF Types

LEMMA AlwaysTyped == FileSpec => []Types
<1>1. Types /\ [FileNext]_allVars => Types'
  BY FileStepTypes, FileStutter
<1> QED BY TypesInitially, <1>1, PTL DEF FileSpec

\* Whatever goroutines save, operate and stop in between, and whatever is read
\* back, the wallet in memory, the savers' texts and the files stay well typed.
THEOREM FileTypeCorrect == FileSpec => []FileTypeOK
<1>1. Types => FileTypeOK
  <2> SUFFICES ASSUME Types PROVE FileTypeOK
    OBVIOUS
  <2>1. ASSUME NEW s \in Savers PROVE list[s] \in Seq(Objects) /\ data[s].version \in 0..MaxOps
    <3>1. data[s] = Torn \/ data[s] \in Drafts
      BY DEF Types
    <3>2. Torn.version \in 0..MaxOps
      BY SavingAssumption DEF Torn
    <3>3. data[s] \in Drafts => data[s].version \in 0..MaxOps
      BY DEF Drafts
    <3> QED BY <3>1, <3>2, <3>3 DEF Types
  <2>2. ASSUME NEW i \in Inodes, content[i].whole PROVE content[i].version \in 0..MaxOps
    <3>1. content[i] \in {Torn, Mixed} \/ content[i] \in Texts
      BY DEF Types
    <3>2. content[i] \notin {Torn, Mixed}
      BY <2>2 DEF Torn, Mixed
    <3> QED BY <3>1, <3>2 DEF Texts
  <2> QED BY <2>1, <2>2 DEF Types, FileTypeOK
<1> QED BY AlwaysTyped, <1>1, PTL

-----------------------------------------------------------------------------
(* One goroutine saves: a file that was saved is never lost. *)

OneSaver == \A s, t \in Savers : s = t

\* Where the saver stands: it creates path only as long as nobody has, what it
\* writes to is the empty file it has opened, and it renames what it has written.
Placed(s) ==
    /\ pc[s] = "open" /\ name[s] = "path" => dir["path"] = NoInode
    /\ pc[s] = "write" => open[s] = dir[name[s]] /\ content[open[s]] = Torn
    /\ pc[s] = "rename" => /\ name[s] = "path~" /\ dir["path~"] # NoInode
                           /\ content[dir["path~"]] = data[s]

\* path and path~ are two files.
Apart == dir["path"] = dir["path~"] => dir["path"] = NoInode

Kept == (\A s \in Savers : Placed(s)) /\ Apart /\ Persisted

\* What a saver does before it opens the file, and all that is not saving.
LEMMA DiskSame ==
    ASSUME Kept, UNCHANGED <<dir, content, saved>>, \A s \in Savers : Placed(s)'
    PROVE  Kept' /\ (File.whole => File'.whole)
BY DEF Kept, Apart, Persisted, File

LEMMA OpenKeeps ==
    ASSUME OneSaver, Types, Kept, NEW s \in Savers, Open(s)
    PROVE  Kept' /\ (File.whole => File'.whole)
<1> USE DEF Open
<1>1. PICK i \in IF dir[name[s]] = NoInode THEN {Min(Unused)} ELSE {dir[name[s]]} :
         /\ dir' = [dir EXCEPT ![name[s]] = i]
         /\ content' = [content EXCEPT ![i] = Torn]
         /\ open' = [open EXCEPT ![s] = i]
  OBVIOUS
<1>2. /\ Placed(s) /\ Apart /\ Persisted
      /\ open[s] = NoInode /\ name[s] \in {"path", "path~"}
      /\ "path" \in Names /\ "path~" \in Names /\ DOMAIN dir = Names
      /\ DOMAIN content = Inodes /\ DOMAIN open = Savers /\ DOMAIN pc = Savers
      /\ NoInode \notin Inodes /\ dir["path"] \in Inodes \cup {NoInode}
      /\ dir["path~"] \in Inodes \cup {NoInode}
  BY DEF Types, Holds, Kept, Names, NoInode, Inodes
<1>3. i \in Inodes /\ (dir[name[s]] = NoInode => i # dir["path"] /\ i # dir["path~"])
  <2>1. CASE dir[name[s]] = NoInode
    <3>1. i \in Unused
      BY <1>1, <1>2, <2>1, SomeUnused
    <3>2. ToSet(<<dir["path"], dir["path~"]>>) = {dir["path"], dir["path~"]}
      <4>1. DOMAIN <<dir["path"], dir["path~"]>> = {1, 2}
        OBVIOUS
      <4> QED BY <4>1 DEF ToSet
    <3> QED BY <3>1, <3>2 DEF Unused
  <2>2. CASE dir[name[s]] # NoInode
    BY <1>1, <1>2, <2>2
  <2> QED BY <2>1, <2>2
<1>4. \A t \in Savers : Placed(t)'
  <2>1. pc'[s] = "write" /\ open'[s] = i /\ content'[i] = Torn /\ name'[s] = name[s]
    BY <1>1, <1>2, <1>3
  <2>2. dir'[name[s]] = i
    BY <1>1, <1>2
  <2>3. Placed(s)'
    BY <2>1, <2>2 DEF Placed
  <2> QED BY <2>3 DEF OneSaver
<1>5. CASE name[s] = "path"
  <2>1. dir["path"] = NoInode /\ ~File.whole /\ ~(saved > 0)
    BY <1>2, <1>5 DEF Placed, Persisted, File, Torn
  <2>2. dir'["path"] = i /\ dir'["path~"] = dir["path~"]
    BY <1>1, <1>2, <1>5
  <2>3. Apart'
    BY <1>3, <1>5, <2>1, <2>2 DEF Apart
  <2> QED BY <1>4, <2>1, <2>3 DEF Kept, Persisted
<1>6. CASE name[s] = "path~"
  <2>1. dir'["path~"] = i /\ dir'["path"] = dir["path"]
    BY <1>1, <1>2, <1>6
  <2>2. dir["path"] # NoInode => i # dir["path"]
    BY <1>1, <1>2, <1>3, <1>6 DEF Apart
  <2>3. Apart'
    BY <1>2, <1>3, <2>1, <2>2 DEF Apart
  <2>4. File' = File
    <3>1. dir["path"] # NoInode => content'[dir["path"]] = content[dir["path"]]
      BY <1>1, <1>2, <2>2
    <3> QED BY <2>1, <3>1 DEF File
  <2> QED BY <1>4, <2>3, <2>4 DEF Kept, Persisted
<1> QED BY <1>2, <1>5, <1>6

LEMMA WriteKeeps ==
    ASSUME OneSaver, Types, Kept, NEW s \in Savers, Write(s)
    PROVE  Kept' /\ (File.whole => File'.whole)
<1> USE DEF Write
<1>1. /\ Placed(s) /\ Apart /\ Persisted
      /\ name[s] \in {"path", "path~"}
      /\ "path" \in Names /\ "path~" \in Names
      /\ DOMAIN content = Inodes /\ DOMAIN open = Savers /\ DOMAIN pc = Savers
      /\ NoInode \notin Inodes /\ dir["path"] \in Inodes \cup {NoInode}
      /\ open[s] \in Inodes /\ data[s].whole /\ data[s].version \in 0..MaxOps
  <2>1. data[s] \in Texts /\ open[s] # NoInode
    BY DEF Types, Holds
  <2>2. data[s].whole /\ data[s].version \in 0..MaxOps
    BY <2>1 DEF Texts
  <2> QED BY <2>1, <2>2 DEF Types, Kept, Names, NoInode, Inodes
<1>2. content' = [content EXCEPT ![open[s]] = data[s]] /\ open[s] = dir[name[s]]
  BY <1>1 DEF Placed
<1>3. dir' = dir /\ Apart'
  BY <1>1 DEF Apart
<1>4. CASE name[s] = "path"
  <2>1. Return(s) /\ saved' = data[s].version
    BY <1>4 DEF ReturnSaved
  <2>2. Placed(s)'
    BY <1>1, <2>1 DEF Placed, Return
  <2>3. \A t \in Savers : Placed(t)'
    BY <2>2 DEF OneSaver
  <2>4. File' = data[s]
    BY <1>1, <1>2, <1>3, <1>4 DEF File
  <2>5. Persisted'
    BY <1>1, <2>1, <2>4 DEF Persisted
  <2> QED BY <1>1, <1>3, <2>3, <2>4, <2>5 DEF Kept
<1>5. CASE name[s] = "path~"
  <2>1. pc'[s] = "rename" /\ UNCHANGED <<data, name, saved>>
    BY <1>1, <1>5
  <2>2. dir["path~"] \in Inodes /\ dir["path~"] # NoInode /\ content'[dir["path~"]] = data[s]
    BY <1>1, <1>2, <1>5
  <2>3. Placed(s)'
    BY <1>3, <1>5, <2>1, <2>2 DEF Placed
  <2>4. \A t \in Savers : Placed(t)'
    BY <2>3 DEF OneSaver
  <2>5. dir["path"] # NoInode => dir["path"] # open[s]
    BY <1>1, <1>2, <1>5 DEF Apart
  <2>6. File' = File
    <3>1. dir["path"] # NoInode => content'[dir["path"]] = content[dir["path"]]
      BY <1>1, <1>2, <2>5
    <3> QED BY <1>3, <3>1 DEF File
  <2> QED BY <1>3, <2>1, <2>4, <2>6 DEF Kept, Persisted
<1> QED BY <1>1, <1>4, <1>5

LEMMA RenameKeeps ==
    ASSUME OneSaver, Types, Kept, NEW s \in Savers, Rename(s)
    PROVE  Kept' /\ (File.whole => File'.whole)
<1> USE DEF Rename
<1>1. /\ Placed(s) /\ DOMAIN pc = Savers /\ dir["path~"] # NoInode
      /\ content[dir["path~"]] = data[s]
      /\ data[s].whole /\ data[s].version \in 0..MaxOps
  BY DEF Types, Holds, Kept, Placed, Texts
<1>2. /\ dir' = [n \in Names |-> IF n = "path" THEN dir["path~"] ELSE NoInode]
      /\ Return(s) /\ saved' = data[s].version /\ content' = content
  BY <1>1 DEF ReturnSaved
<1>3. dir'["path"] = dir["path~"] /\ dir'["path~"] = NoInode
  BY <1>2 DEF Names
<1>4. Placed(s)'
  BY <1>1, <1>2 DEF Placed, Return
<1>5. \A t \in Savers : Placed(t)'
  BY <1>4 DEF OneSaver
<1>6. File' = data[s]
  BY <1>1, <1>2, <1>3 DEF File
<1>7. Persisted'
  BY <1>1, <1>2, <1>6 DEF Persisted
<1>8. Apart'
  BY <1>1, <1>3 DEF Apart
<1> QED BY <1>1, <1>5, <1>6, <1>7, <1>8 DEF Kept

LEMMA FileStepKeeps ==
    ASSUME OneSaver, Types, Kept, FileNext
    PROVE  Kept' /\ (File.whole => File'.whole)
<1> USE DEF saverVars, diskVars
<1>1. ASSUME NEW s \in Savers, SaveStep(s) PROVE Kept' /\ (File.whole => File'.whole)
  <2> HIDE DEF saverVars, diskVars
  <2>1. ASSUME Save(s) \/ MarshalKey(s) \/ MarshalRest(s) \/ FileExisted(s) \/ WriteFails(s)
        PROVE  Kept' /\ (File.whole => File'.whole)
    <3>1. UNCHANGED <<dir, content, saved>>
      BY <2>1 DEF Save, MarshalKey, MarshalRest, FileExisted, WriteFails, diskVars
    <3>2. pc' = [pc EXCEPT ![s] = pc'[s]] /\ DOMAIN pc = Savers /\ DOMAIN name = Savers
      BY <2>1 DEF Save, MarshalKey, MarshalRest, FileExisted, WriteFails, Return, Types
    <3>3. ASSUME FileExisted(s)
          PROVE  pc'[s] = "open" /\ (name'[s] = "path" => dir["path"] = NoInode)
      BY <3>2, <3>3 DEF FileExisted
    <3>4. ~FileExisted(s) => pc'[s] \in {"key", "rest", "idle"}
      BY <2>1, <3>2 DEF Save, MarshalKey, MarshalRest, WriteFails, Return
    <3>5. Placed(s)'
      BY <3>1, <3>3, <3>4 DEF Placed
    <3>6. \A t \in Savers : Placed(t)'
      BY <3>5 DEF OneSaver
    <3> QED BY <3>1, <3>6, DiskSame
  <2> QED BY <1>1, <2>1, OpenKeeps, WriteKeeps, RenameKeeps DEF SaveStep
<1>2. ASSUME Operation PROVE Kept' /\ (File.whole => File'.whole)
  <2>1. UNCHANGED <<pc, open, name, data, dir, content, saved>>
    BY <1>2 DEF Operation
  <2>2. \A t \in Savers : Placed(t)'
    BY <2>1 DEF Kept, Placed
  <2> QED BY <2>1, <2>2, DiskSame
<1>3. ASSUME Crash PROVE Kept' /\ (File.whole => File'.whole)
  <2>1. \A t \in Savers : Placed(t)'
    BY <1>3 DEF Crash, Placed
  <2> QED BY <1>3, <2>1, DiskSame DEF Crash
<1>4. ASSUME OpenWallet \/ NewWallet PROVE Kept' /\ (File.whole => File'.whole)
  <2>1. UNCHANGED <<pc, open, name, data, dir, content, saved>>
    BY <1>4 DEF OpenWallet, NewWallet
  <2>2. \A t \in Savers : Placed(t)'
    BY <2>1 DEF Kept, Placed
  <2> QED BY <2>1, <2>2, DiskSame
<1> QED BY <1>1, <1>2, <1>3, <1>4 DEF FileNext

LEMMA KeptSteps ==
    ASSUME OneSaver, Types, Kept, [FileNext]_allVars
    PROVE  Kept' /\ (File.whole => File'.whole)
<1>1. CASE UNCHANGED allVars
  <2>1. UNCHANGED <<pc, open, name, data, dir, content, saved>>
    BY <1>1 DEF allVars, fileVars, saverVars, diskVars
  <2>2. \A t \in Savers : Placed(t)'
    BY <2>1 DEF Kept, Placed
  <2> QED BY <2>1, <2>2, DiskSame
<1> QED BY <1>1, FileStepKeeps

LEMMA AlwaysKept == ASSUME OneSaver PROVE FileSpec => []Kept
<1>1. FileInit => Kept
  BY DEF FileInit, Kept, Placed, Apart, Persisted, Names
<1>2. Types /\ Kept /\ [FileNext]_allVars => Kept'
  BY KeptSteps
<1> QED BY <1>1, <1>2, AlwaysTyped, PTL DEF FileSpec

\* Where one goroutine saves, whatever the operations beside it, the failures
\* and the stops: what a Save that returned has written stays in the file.
THEOREM PersistedHolds == ASSUME OneSaver PROVE FileSpec => []Persisted
<1>1. Kept => Persisted
  BY DEF Kept
<1> QED BY <1>1, AlwaysKept, PTL

\* And no step of a later Save leaves the file half-written.
THEOREM StaysWholeHolds == ASSUME OneSaver PROVE FileSpec => StaysWhole
<1>1. Types /\ Kept /\ [FileNext]_allVars => [File.whole => File'.whole]_allVars
  BY KeptSteps
<1> QED BY <1>1, AlwaysTyped, AlwaysKept, PTL DEF FileSpec, StaysWhole

-----------------------------------------------------------------------------
(* No other operation runs during a Save: what was saved opens again. *)

\* A consistent wallet, as records.
Good(recs) ==
    /\ \A i, j \in 1..Len(recs) : AddressOf[recs[i].object] = AddressOf[recs[j].object] => i = j
    /\ \A i, j \in 1..Len(recs) : recs[i].label = recs[j].label /\ recs[i].label # NoLabel => i = j
    /\ \A i, j \in 1..Len(recs) : recs[i].isDefault /\ recs[j].isDefault => i = j
    /\ recs # <<>> => \E i \in 1..Len(recs) : recs[i].isDefault
    /\ \A i \in 1..Len(recs) : recs[i].salt = recs[i].key

LEMMA RecordsType ==
    ASSUME TypeOK
    PROVE  /\ Records \in Seq(FullRecord) /\ Len(Records) = Len(accounts) /\ Len(accounts) \in Nat
           /\ \A i \in 1..Len(accounts) :
                /\ accounts[i] \in Objects
                /\ Records[i] = [object |-> accounts[i], key |-> password[accounts[i]],
                                 salt |-> password[accounts[i]], label |-> label[accounts[i]],
                                 sigSch |-> sigSch[accounts[i]],
                                 isDefault |-> isDefault[accounts[i]]]
<1>1. Len(accounts) \in Nat /\ \A i \in 1..Len(accounts) : accounts[i] \in Objects
  BY LenProperties, ElementOfSeq DEF TypeOK
<1>2. \A i \in 1..Len(accounts) :
         Records[i] = [object |-> accounts[i], key |-> password[accounts[i]],
                       salt |-> password[accounts[i]], label |-> label[accounts[i]],
                       sigSch |-> sigSch[accounts[i]], isDefault |-> isDefault[accounts[i]]]
  BY DEF Records
<1>3. \A i \in 1..Len(accounts) : Records[i] \in FullRecord
  <2> TAKE i \in 1..Len(accounts)
  <2> DEFINE o == accounts[i]
  <2>1. /\ o \in Objects /\ password[o] \in Passwords /\ label[o] \in Labels \cup {NoLabel}
        /\ sigSch[o] \in Schemes /\ isDefault[o] \in BOOLEAN
    BY <1>1 DEF TypeOK
  <2>2. Records[i] = [object |-> o, key |-> password[o], salt |-> password[o],
                      label |-> label[o], sigSch |-> sigSch[o], isDefault |-> isDefault[o]]
    BY <1>2
  <2> HIDE DEF o
  <2> QED BY <2>1, <2>2 DEF FullRecord
<1>4. Records \in [1..Len(accounts) -> FullRecord]
  <2>1. DOMAIN Records = 1..Len(accounts) /\ Records = [i \in DOMAIN Records |-> Records[i]]
    BY DEF Records
  <2> HIDE DEF Records
  <2> QED BY <1>3, <2>1
<1>5. Records \in Seq(FullRecord) /\ Len(Records) = Len(accounts)
  <2> HIDE DEF Records
  <2>1. Records \in Seq(FullRecord)
    BY <1>1, <1>4, SeqDef
  <2> QED BY <1>1, <1>4, <2>1, LenProperties
<1> QED BY <1>1, <1>2, <1>5

LEMMA GoodRecords ==
    ASSUME Inv
    PROVE  Good(Records)
<1>1. /\ Len(Records) = Len(accounts)
      /\ \A i \in 1..Len(accounts) :
            /\ accounts[i] \in Live /\ accounts[i] \in Objects
            /\ Records[i].object = accounts[i] /\ Records[i].label = label[accounts[i]]
            /\ Records[i].isDefault = isDefault[accounts[i]]
            /\ Records[i].key = password[accounts[i]] /\ Records[i].salt = password[accounts[i]]
  <2>1. TypeOK /\ accounts \in Seq(Objects)
    BY DEF Inv, TypeOK
  <2>2. \A i \in 1..Len(accounts) : accounts[i] \in Live
    BY <2>1, LiveDef
  <2>3. Len(Records) = Len(accounts)
    BY <2>1, RecordsType
  <2> SUFFICES ASSUME NEW i \in 1..Len(accounts)
               PROVE  /\ accounts[i] \in Objects
                      /\ Records[i].object = accounts[i] /\ Records[i].label = label[accounts[i]]
                      /\ Records[i].isDefault = isDefault[accounts[i]]
                      /\ Records[i].key = password[accounts[i]]
                      /\ Records[i].salt = password[accounts[i]]
    BY <2>2, <2>3, Zenon
  <2>4. accounts[i] \in Objects
    BY <2>1, RecordsType
  <2>5. Records[i] = [object |-> accounts[i], key |-> password[accounts[i]],
                      salt |-> password[accounts[i]], label |-> label[accounts[i]],
                      sigSch |-> sigSch[accounts[i]], isDefault |-> isDefault[accounts[i]]]
    BY <2>1, RecordsType
  <2> QED BY <2>4, <2>5
<1>2. \A i, j \in 1..Len(accounts) : accounts[i] = accounts[j] => i = j
  BY DEF Inv, ListMatchesMap
<1>3. \A i, j \in 1..Len(accounts) : AddressOf[accounts[i]] = AddressOf[accounts[j]] => i = j
  BY <1>2 DEF Inv, ListMatchesMap
<1>4. \A i, j \in 1..Len(accounts) :
         label[accounts[i]] = label[accounts[j]] /\ label[accounts[i]] # NoLabel => i = j
  BY <1>1, <1>2 DEF Inv, LabelFindsAccount
<1>5. \A i, j \in 1..Len(accounts) : isDefault[accounts[i]] /\ isDefault[accounts[j]] => i = j
  BY <1>1, <1>2 DEF Inv, DefaultAgrees
<1>6. ASSUME Records # <<>> PROVE \E i \in 1..Len(accounts) : isDefault[accounts[i]]
  <2>1. accounts # <<>>
    BY <1>1, <1>6, RecordsType, EmptySeq DEF Inv
  <2>2. defAcc \in Live /\ isDefault[defAcc]
    BY <2>1 DEF Inv, DefaultAgrees
  <2> QED BY <2>2, LiveDef DEF Inv, TypeOK
<1> QED BY <1>1, <1>3, <1>4, <1>5, <1>6 DEF Good

LEMMA GoodOpens ==
    ASSUME NEW t, t.whole, t.records \in Seq(FullRecord), Good(t.records)
    PROVE  /\ Opens(t)
           /\ \A i \in 1..Len(t.records) : GetAccount(t.records[i], t.records[i].key)
<1> DEFINE D == Defaults(t.records)
<1>1. \A d, e \in D : d = e
  BY DEF Defaults, Good
<1>2. Cardinality(D) <= 1
  <2> HIDE DEF D
  <2>1. CASE D = {}
    BY <2>1, FS_EmptySet
  <2>2. ASSUME NEW d \in D PROVE Cardinality(D) <= 1
    <3>1. D = {d}
      BY <1>1
    <3>2. Cardinality({d}) = 1
      BY FS_Singleton
    <3> QED BY <3>1, <3>2
  <2> QED BY <2>1, <2>2
<1> QED BY <1>2 DEF Opens, Good, GetAccount

\* What OpenWallet makes of such records is the wallet they were written of.
LEMMA LoadGood ==
    ASSUME TypeOK, NEW recs \in Seq(FullRecord), Good(recs), Load(recs)
    PROVE  Inv' /\ Records' = recs
<1> DEFINE n == Len(recs)
<1>a. /\ n \in Nat
      /\ \A i \in 1..n :
            /\ recs[i] \in FullRecord
            /\ recs[i].object \in Objects /\ AddressOf[recs[i].object] \in Addresses
            /\ recs[i].key \in Passwords /\ recs[i].label \in Labels \cup {NoLabel}
            /\ recs[i].sigSch \in Schemes /\ recs[i].isDefault \in BOOLEAN
  BY RecordFields
<1>b. TypeOK'
  BY LoadTypes
<1>c. Len(accounts') = n /\ \A i \in 1..n : accounts'[i] = recs[i].object
  <2>1. accounts' = [i \in 1..n |-> recs[i].object] /\ accounts' \in Seq(Objects)
    BY <1>b DEF Load, TypeOK
  <2> QED BY <1>a, <2>1, LenProperties
<1>d. Live' = {recs[i].object : i \in 1..n}
  <2>1. accounts' \in Seq(Objects)
    BY <1>b DEF TypeOK
  <2>2. ToSet(accounts') = {accounts'[i] : i \in 1..Len(accounts')}
    BY <2>1, Elements
  <2> QED BY <1>c, <2>2 DEF Live
<1>e. \A i, j \in 1..n : recs[i].object = recs[j].object => i = j
  BY DEF Good
<1>f. \A i \in 1..n : Record(recs, recs[i].object) = recs[i]
  <2> TAKE i \in 1..n
  <2>1. PICK j \in 1..n : j = CHOOSE k \in 1..n : recs[k].object = recs[i].object
    OBVIOUS
  <2>2. recs[j].object = recs[i].object
    BY <2>1
  <2> QED BY <1>e, <2>1, <2>2 DEF Record
<1>g. \A i \in 1..n : /\ label'[recs[i].object] = recs[i].label
                      /\ isDefault'[recs[i].object] = recs[i].isDefault
                      /\ sigSch'[recs[i].object] = recs[i].sigSch
                      /\ password'[recs[i].object] = recs[i].key
  BY <1>a, <1>f DEF Load
<1>1. ListMatchesMap'
  <2>1. ASSUME NEW a \in Addresses, NEW i \in 1..n, AddressOf[recs[i].object] = a
        PROVE  accAddressMap'[a] = recs[i].object
    <3> DEFINE S == {j \in 1..n : AddressOf[recs[j].object] = a}
    <3>1. Max(S) \in S
      BY <1>a, <2>1, Greatest
    <3>2. Max(S) = i
      BY <2>1, <3>1 DEF Good
    <3>3. accAddressMap'[a] = LastOf(recs, S)
      BY DEF Load
    <3>4. S # {}
      BY <2>1
    <3> QED BY <3>2, <3>3, <3>4 DEF LastOf
  <2>2. ASSUME NEW a \in Addresses, accAddressMap'[a] # NoObject
        PROVE  \E i \in 1..n : AddressOf[recs[i].object] = a
    BY <2>2 DEF Load, LastOf
  <2>3. \A i \in 1..Len(accounts') : accAddressMap'[AddressOf[accounts'[i]]] = accounts'[i]
    BY <1>a, <1>c, <2>1
  <2>4. \A i, j \in 1..Len(accounts') : accounts'[i] = accounts'[j] => i = j
    BY <1>c, <1>e
  <2>5. \A a \in Addresses : accAddressMap'[a] # NoObject =>
           accAddressMap'[a] \in Live' /\ AddressOf[accAddressMap'[a]] = a
    <3> SUFFICES ASSUME NEW a \in Addresses, accAddressMap'[a] # NoObject
                 PROVE  accAddressMap'[a] \in Live' /\ AddressOf[accAddressMap'[a]] = a
      OBVIOUS
    <3>1. PICK i \in 1..n : AddressOf[recs[i].object] = a
      BY <2>2
    <3> QED BY <1>d, <2>1, <3>1
  <2> QED BY <2>3, <2>4, <2>5 DEF ListMatchesMap
<1>2. DefaultAgrees'
  <2>1. CASE recs = <<>>
    <3>1. n = 0 /\ defAcc' = NoObject
      BY <2>1, EmptySeq DEF Load
    <3>2. accounts' = <<>> /\ Live' = {}
      BY <1>b, <1>c, <1>d, <3>1, EmptySeq DEF TypeOK
    <3> QED BY <3>1, <3>2 DEF DefaultAgrees
  <2>2. CASE recs # <<>>
    <3>1. Defaults(recs) # {} /\ Defaults(recs) \subseteq Nat
      BY <1>a, <2>2 DEF Good, Defaults
    <3>2. PICK d \in 1..n : d = Min(Defaults(recs)) /\ recs[d].isDefault
      BY <3>1, Least DEF Defaults
    <3>3. defAcc' = recs[d].object
      BY <2>2, <3>1, <3>2 DEF Load
    <3>4. defAcc' \in Live' /\ isDefault'[defAcc'] /\ defAcc' # NoObject
      BY <1>a, <1>d, <1>g, <3>2, <3>3, ObjectsAssumption
    <3>5. \A o \in Live' : isDefault'[o] => o = defAcc'
      BY <1>d, <1>g, <3>2, <3>3 DEF Good
    <3>6. accounts' # <<>>
      BY <1>a, <1>c, <3>2, EmptySeq
    <3> QED BY <3>4, <3>5, <3>6 DEF DefaultAgrees
  <2> QED BY <2>1, <2>2
<1>3. LabelFindsAccount'
  <2> SUFFICES ASSUME NEW i \in 1..n, recs[i].label # NoLabel
               PROVE  accLabelMap'[recs[i].label] = recs[i].object
    BY <1>d, <1>g DEF LabelFindsAccount
  <2> DEFINE S == {j \in 1..n : recs[j].label = recs[i].label}
  <2>1. Max(S) \in S
    BY <1>a, Greatest
  <2>2. Max(S) = i
    BY <2>1 DEF Good
  <2>3. accLabelMap'[recs[i].label] = LastOf(recs, S)
    BY <1>a DEF Load
  <2>4. S # {}
    OBVIOUS
  <2> QED BY <2>2, <2>3, <2>4 DEF LastOf
<1>4. Records' = recs
  <2>1. Records' = [i \in 1..n |-> [object |-> accounts'[i], key |-> password'[accounts'[i]],
                       salt |-> password'[accounts'[i]], label |-> label'[accounts'[i]],
                       sigSch |-> sigSch'[accounts'[i]], isDefault |-> isDefault'[accounts'[i]]]]
    BY <1>c DEF Records
  <2>2. \A i \in 1..n : recs[i] = [object |-> accounts'[i], key |-> password'[accounts'[i]],
                       salt |-> password'[accounts'[i]], label |-> label'[accounts'[i]],
                       sigSch |-> sigSch'[accounts'[i]], isDefault |-> isDefault'[accounts'[i]]]
    <3> TAKE i \in 1..n
    <3>1. recs[i].salt = recs[i].key
      BY DEF Good
    <3>2. recs[i] = [object |-> recs[i].object, key |-> recs[i].key, salt |-> recs[i].salt,
                     label |-> recs[i].label, sigSch |-> recs[i].sigSch,
                     isDefault |-> recs[i].isDefault]
      BY <1>a DEF FullRecord
    <3> QED BY <1>c, <1>g, <3>1, <3>2
  <2>3. recs = [i \in 1..n |-> recs[i]]
    BY <1>a, LenProperties
  <2> QED BY <2>1, <2>2, <2>3
<1> QED BY <1>b, <1>1, <1>2, <1>3, <1>4 DEF Inv

\* A list with one more element, of whatever kind.
LEMMA AppendToAny ==
    ASSUME NEW S, NEW s \in Seq(S), NEW x
    PROVE  /\ Len(Append(s, x)) = Len(s) + 1 /\ Len(s) \in Nat
           /\ \A i \in 1..Len(s) : Append(s, x)[i] = s[i]
           /\ Append(s, x)[Len(s) + 1] = x
<1>1. s \in Seq(S \cup {x})
  BY SeqMonotonic
<1> QED BY <1>1, AppendProperties, LenProperties

\* The text of the first k accounts, those on the saver's list being left.
Marshalled(s, k) ==
    /\ Len(list[s]) = Len(accounts) - k
    /\ \A i \in 1..Len(list[s]) : list[s][i] = accounts[k + i]
    /\ \A i \in 1..k : data[s].records[i] = Records[i]

\* A saver holds what is in the wallet: nothing has changed since it began.
Copied(s) ==
    /\ pc[s] # "idle" => running /\ data[s].version = version
    /\ pc[s] = "key" => Marshalled(s, Len(data[s].records))
    /\ pc[s] = "rest" =>
          /\ Marshalled(s, Len(data[s].records) - 1)
          /\ data[s].records[Len(data[s].records)].key = password[Head(list[s])]
    /\ pc[s] \in {"open", "write", "rename"} => data[s] = Text(version, Records)
    /\ pc[s] = "rename" => name[s] = "path~"

\* Every whole text is that of a consistent wallet.
AllGood == \A i \in Inodes : content[i].whole => Good(content[i].records)

\* What a saver has put under path~, if it is whole, is the wallet: a text that
\* an earlier stop has left there was cut when the saver opened the file.
Fresh(t) == t.whole => t = Text(version, Records)
PathTilde ==
    \A s \in Savers : name[s] = "path~" /\ pc[s] \in {"write", "rename"} /\ dir["path~"] # NoInode =>
                         Fresh(content[dir["path~"]])

\* The file is not newer than the wallet in memory, and the same if as new.
FileOfWallet ==
    running /\ File.whole => File.version <= version /\ (File.version = version => File.records = Records)

Sound == Inv /\ (\A s \in Savers : Copied(s)) /\ AllGood /\ PathTilde /\ FileOfWallet

LEMMA SameWallet ==
    ASSUME UNCHANGED vars
    PROVE  /\ Records' = Records /\ accounts' = accounts /\ password' = password
           /\ Inv => Inv'
<1>1. Inv => Inv'
  BY NextKeeps
<1> QED BY <1>1 DEF vars, tableVars, fieldVars, Records

LEMMA CopiedElsewhere ==
    ASSUME NEW s \in Savers, \A t \in Savers : Copied(t), Copied(s)',
           UNCHANGED <<vars, running, version>>,
           \A t \in Savers \ {s} : /\ pc'[t] = pc[t] /\ list'[t] = list[t]
                                   /\ data'[t] = data[t] /\ name'[t] = name[t]
    PROVE  \A t \in Savers : Copied(t)'
<1>1. Records' = Records /\ accounts' = accounts /\ password' = password
  BY SameWallet
<1> SUFFICES ASSUME NEW t \in Savers \ {s} PROVE Copied(t)'
  OBVIOUS
<1>2. /\ pc'[t] = pc[t] /\ list'[t] = list[t] /\ data'[t] = data[t] /\ name'[t] = name[t]
      /\ running' = running /\ version' = version /\ Copied(t)
  OBVIOUS
<1>a. ASSUME NEW k, Marshalled(t, k) PROVE Marshalled(t, k)'
  BY <1>1, <1>2, <1>a DEF Marshalled
<1>b. PICK k : k = Len(data[t].records)
  OBVIOUS
<1>c. k = Len(data'[t].records)
  BY <1>2, <1>b
<1>3. ASSUME pc[t] = "key" PROVE Marshalled(t, Len(data[t].records))'
  <2>1. Marshalled(t, k)'
    BY <1>2, <1>3, <1>a, <1>b DEF Copied
  <2> QED BY <1>c, <2>1 DEF Marshalled
<1>4. ASSUME pc[t] = "rest" PROVE Marshalled(t, Len(data[t].records) - 1)'
  <2>1. Marshalled(t, k - 1)'
    BY <1>2, <1>4, <1>a, <1>b DEF Copied
  <2> QED BY <1>c, <2>1 DEF Marshalled
<1>5. pc[t] \in {"open", "write", "rename"} => data'[t] = Text(version', Records')
  BY <1>1, <1>2 DEF Copied
<1> QED BY <1>1, <1>2, <1>3, <1>4, <1>5 DEF Copied

\* What a saver does before it opens the file, or gives up.
LEMMA DiskSound ==
    ASSUME Sound, UNCHANGED <<vars, running, version, dir, content>>,
           \A t \in Savers : Copied(t)',
           \A t \in Savers : pc'[t] \in {"write", "rename"} =>
                                pc[t] \in {"write", "rename"} /\ name'[t] = name[t]
    PROVE  Sound'
<1>1. Records' = Records /\ Inv'
  BY SameWallet DEF Sound
<1>2. AllGood' /\ FileOfWallet'
  BY <1>1 DEF Sound, AllGood, FileOfWallet, File, Good
<1>3. PathTilde'
  BY <1>1 DEF Sound, PathTilde, Fresh, Text
<1> QED BY <1>1, <1>2, <1>3 DEF Sound

LEMMA SaveSound ==
    ASSUME Types, Sound, NEW s \in Savers, Save(s)
    PROVE  Sound'
<1> USE DEF Save, diskVars
<1>1. /\ pc' = [pc EXCEPT ![s] = "key"] /\ list' = [list EXCEPT ![s] = accounts]
      /\ data' = [data EXCEPT ![s] = Text(version, <<>>)]
      /\ UNCHANGED <<vars, running, version, name, dir, content>>
  OBVIOUS
<1>2. /\ pc'[s] = "key" /\ list'[s] = accounts /\ data'[s] = Text(version, <<>>)
      /\ \A t \in Savers \ {s} : /\ pc'[t] = pc[t] /\ list'[t] = list[t]
                                 /\ data'[t] = data[t] /\ name'[t] = name[t]
  BY <1>1 DEF Types
<1>3. Records' = Records /\ accounts' = accounts /\ Len(accounts) \in Nat
  BY <1>1, SameWallet, RecordsType DEF Types
<1>4. Len(<<>>) = 0 /\ data'[s].records = <<>> /\ data'[s].version = version
  BY <1>2 DEF Text
<1>5. Marshalled(s, Len(data[s].records))'
  <2>1. Len(data'[s].records) = 0
    BY <1>4
  <2>2. \A i \in 1..Len(accounts) : 0 + i = i
    BY <1>3
  <2>3. Len(list'[s]) = Len(accounts') - 0 /\ \A i \in 1..Len(list'[s]) : list'[s][i] = accounts'[0 + i]
    BY <1>2, <1>3, <2>2
  <2>4. \A i \in 1..0 : data'[s].records[i] = Records'[i]
    OBVIOUS
  <2> QED BY <2>1, <2>3, <2>4, Zenon DEF Marshalled
<1>6. Copied(s)'
  BY <1>1, <1>2, <1>4, <1>5 DEF Copied
<1>7. \A t \in Savers : Copied(t)'
  BY <1>1, <1>2, <1>6, CopiedElsewhere DEF Sound
<1> QED BY <1>1, <1>2, <1>7, DiskSound

LEMMA MarshalKeySound ==
    ASSUME Types, Sound, NEW s \in Savers, MarshalKey(s)
    PROVE  Sound'
<1> DEFINE recs == data[s].records
           rec == [object |-> Head(list[s]), key |-> password[Head(list[s])]]
           new == Append(recs, rec)
<1> USE DEF MarshalKey, diskVars
<1>1. /\ pc'[s] = "rest" /\ list' = list /\ data'[s] = [data[s] EXCEPT !.records = new]
      /\ \A t \in Savers \ {s} : /\ pc'[t] = pc[t] /\ list'[t] = list[t]
                                 /\ data'[t] = data[t] /\ name'[t] = name[t]
      /\ UNCHANGED <<vars, running, version, name, dir, content>>
  BY DEF Types
<1>2. data[s] \in Texts /\ recs \in Seq(FullRecord)
  BY DEF Types, Holds, Texts
<1> HIDE DEF MarshalKey, rec
<1>3. /\ Len(new) = Len(recs) + 1 /\ Len(recs) \in Nat
      /\ \A i \in 1..Len(recs) : new[i] = recs[i]
      /\ new[Len(recs) + 1] = rec
  BY <1>2, AppendToAny
<1>4. rec.key = password[Head(list[s])]
  BY DEF rec
<1>5. pc[s] = "key"
  BY DEF MarshalKey
<1> HIDE DEF new
<1>6. data'[s].records = new /\ data'[s].version = data[s].version
  BY <1>1, <1>2 DEF Texts
<1>7. Records' = Records /\ accounts' = accounts /\ password' = password
  BY <1>1, SameWallet
<1>8. Marshalled(s, Len(recs))
  BY <1>5 DEF Sound, Copied
<1>9. Len(data'[s].records) - 1 = Len(recs)
  BY <1>3, <1>6
<1>10. Marshalled(s, Len(data[s].records) - 1)'
  BY <1>1, <1>3, <1>6, <1>7, <1>8, <1>9 DEF Marshalled
<1>11. data'[s].records[Len(data'[s].records)].key = password'[Head(list'[s])]
  BY <1>1, <1>3, <1>4, <1>6, <1>7
<1>12. Copied(s)'
  BY <1>1, <1>5, <1>6, <1>10, <1>11 DEF Copied, Sound
<1>13. \A t \in Savers : Copied(t)'
  BY <1>1, <1>12, CopiedElsewhere DEF Sound
<1> QED BY <1>1, <1>13, DiskSound

LEMMA MarshalRestSound ==
    ASSUME Types, Sound, NEW s \in Savers, MarshalRest(s)
    PROVE  Sound'
<1> DEFINE o == Head(list[s])
<1>1. /\ pc[s] = "rest" /\ pc'[s] = "key" /\ list'[s] = Tail(list[s])
      /\ \A t \in Savers \ {s} : /\ pc'[t] = pc[t] /\ list'[t] = list[t]
                                 /\ data'[t] = data[t] /\ name'[t] = name[t]
      /\ UNCHANGED <<vars, running, version, name, dir, content>>
  BY DEF MarshalRest, Types, diskVars
<1>2. PICK n \in Nat \ {0} : n = Len(data[s].records)
  BY RestList
<1>3. /\ data'[s].version = data[s].version /\ Len(data'[s].records) = n
      /\ \A i \in 1..n - 1 : data'[s].records[i] = data[s].records[i]
      /\ data'[s].records[n] =
            [object |-> o, key |-> data[s].records[n].key, salt |-> password[o], label |-> label[o],
             sigSch |-> sigSch[o], isDefault |-> isDefault[o]]
  BY <1>2, RestList
<1>4. /\ Records' = Records /\ accounts' = accounts /\ Len(accounts) \in Nat
      /\ \A i \in 1..Len(accounts) : Records[i] =
            [object |-> accounts[i], key |-> password[accounts[i]], salt |-> password[accounts[i]],
             label |-> label[accounts[i]], sigSch |-> sigSch[accounts[i]],
             isDefault |-> isDefault[accounts[i]]]
  BY <1>1, SameWallet, RecordsType DEF Types
<1>5. Marshalled(s, n - 1) /\ data[s].records[n].key = password[o]
  BY <1>1, <1>2 DEF Sound, Copied
<1>6. /\ list[s] \in Seq(Objects) /\ list[s] # <<>>
      /\ o = list[s][1] /\ Len(Tail(list[s])) = Len(list[s]) - 1 /\ Len(list[s]) \in Nat \ {0}
      /\ \A i \in 1..Len(Tail(list[s])) : Tail(list[s])[i] = list[s][i + 1]
  <2>1. list[s] \in Seq(Objects) /\ list[s] # <<>>
    BY <1>1 DEF Types, Holds
  <2> QED BY <2>1, HeadTailProperties, EmptySeq, LenProperties
<1>7. o = accounts[n] /\ n \in 1..Len(accounts)
  BY <1>2, <1>4, <1>5, <1>6 DEF Marshalled
<1>8. data'[s].records[n] = Records[n]
  BY <1>3, <1>4, <1>5, <1>7
<1>9. Marshalled(s, n)'
  <2>1. Len(list'[s]) = Len(accounts) - n
    <3>1. Len(list[s]) = Len(accounts) - (n - 1)
      BY <1>5 DEF Marshalled
    <3>2. Len(list'[s]) = Len(list[s]) - 1
      BY <1>1, <1>6
    <3> QED BY <1>4, <3>1, <3>2
  <2>2. \A i \in 1..Len(list'[s]) : list'[s][i] = accounts[n + i]
    <3> TAKE i \in 1..Len(list'[s])
    <3>1. list'[s][i] = list[s][i + 1] /\ i + 1 \in 1..Len(list[s])
      BY <1>1, <1>6
    <3>2. list[s][i + 1] = accounts[(n - 1) + (i + 1)]
      BY <1>5, <3>1 DEF Marshalled
    <3>3. (n - 1) + (i + 1) = n + i
      <4>1. i \in Int /\ n \in Int
        OBVIOUS
      <4> QED BY <4>1
    <3> QED BY <3>1, <3>2, <3>3
  <2>3. \A i \in 1..n : data'[s].records[i] = Records[i]
    <3> TAKE i \in 1..n
    <3>1. CASE i = n
      BY <1>8, <3>1
    <3>2. CASE i # n
      BY <1>2, <1>3, <1>5, <3>2 DEF Marshalled
    <3> QED BY <3>1, <3>2
  <2> QED BY <1>4, <2>1, <2>2, <2>3 DEF Marshalled
<1>10. Marshalled(s, Len(data[s].records))'
  BY <1>3, <1>9 DEF Marshalled
<1>11. Copied(s)'
  BY <1>1, <1>3, <1>10 DEF Copied, Sound
<1>12. \A t \in Savers : Copied(t)'
  BY <1>1, <1>11, CopiedElsewhere DEF Sound
<1> QED BY <1>1, <1>12, DiskSound

LEMMA FileExistedSound ==
    ASSUME Types, Sound, NEW s \in Savers, FileExisted(s)
    PROVE  Sound'
<1>1. /\ pc[s] = "key" /\ pc'[s] = "open" /\ list[s] = <<>> /\ data' = data
      /\ \A t \in Savers \ {s} : /\ pc'[t] = pc[t] /\ list'[t] = list[t]
                                 /\ data'[t] = data[t] /\ name'[t] = name[t]
      /\ UNCHANGED <<vars, running, version, dir, content>>
  BY DEF FileExisted, Types, diskVars
<1>2. data[s] \in Texts /\ data[s].records \in Seq(FullRecord)
  BY <1>1 DEF Types, Holds, Texts
<1>3. Records \in Seq(FullRecord) /\ Len(Records) = Len(accounts) /\ Len(accounts) \in Nat
  BY RecordsType DEF Types
<1>4. Len(data[s].records) \in Nat
  BY <1>2, LenProperties
<1>5. Marshalled(s, Len(data[s].records))
  BY <1>1 DEF Sound, Copied
<1>6. Len(data[s].records) = Len(Records)
  BY <1>1, <1>3, <1>4, <1>5, EmptySeq DEF Marshalled
<1>7. data[s].records = Records
  BY <1>2, <1>3, <1>5, <1>6, SeqEqual DEF Marshalled
<1>8. data[s].version = version /\ running
  BY <1>1 DEF Sound, Copied
<1>9. data[s] = Text(version, Records)
  BY <1>2, <1>7, <1>8 DEF Texts, Text
<1>10. Records' = Records
  BY <1>1, SameWallet
<1>11. Copied(s)'
  BY <1>1, <1>8, <1>9, <1>10 DEF Copied, Text
<1>12. \A t \in Savers : Copied(t)'
  BY <1>1, <1>11, CopiedElsewhere DEF Sound
<1> QED BY <1>1, <1>12, DiskSound

\* What is left of the file is nothing.
LEMMA OpenSound ==
    ASSUME Types, Sound, NEW s \in Savers, Open(s)
    PROVE  Sound'
<1>1. PICK i \in IF dir[name[s]] = NoInode THEN {Min(Unused)} ELSE {dir[name[s]]} :
         /\ dir' = [dir EXCEPT ![name[s]] = i]
         /\ content' = [content EXCEPT ![i] = Torn]
         /\ open' = [open EXCEPT ![s] = i]
  BY DEF Open
<1>2. /\ pc[s] = "open" /\ pc'[s] = "write" /\ data' = data /\ name' = name
      /\ \A t \in Savers \ {s} : /\ pc'[t] = pc[t] /\ list'[t] = list[t]
                                 /\ data'[t] = data[t] /\ name'[t] = name[t]
      /\ UNCHANGED <<vars, running, version>>
  BY DEF Open, Types
<1>3. Types'
  BY OpenTypes
<1>4. /\ name[s] \in {"path", "path~"} /\ DOMAIN dir = Names /\ DOMAIN content = Inodes
      /\ "path" \in Names /\ "path~" \in Names
  BY DEF Types, Names
<1>5. dir'[name[s]] = i /\ \A n \in Names \ {name[s]} : dir'[n] = dir[n]
  BY <1>1, <1>4 DEF Types
<1>6. \A j : content'[j] # Torn => j # i
  <2>1. i \in Inodes => content'[i] = Torn
    BY <1>1, <1>4
  <2>2. i \in Inodes
    <3>1. pc[s] # "write" => open[s] = NoInode
      BY DEF Types, Holds
    <3>2. Min(Unused) \in Inodes
      BY <1>2, <3>1, SomeUnused DEF Unused
    <3> QED BY <1>1, <3>2 DEF Types
  <2> QED BY <2>1, <2>2
<1>7. \A j \in Inodes : content'[j] = Torn \/ (j # i /\ content'[j] = content[j])
  BY <1>1, <1>4, <1>6
<1>8. Records' = Records /\ Inv'
  BY <1>2, SameWallet DEF Sound
<1>9. Copied(s)'
  BY <1>2, <1>8 DEF Sound, Copied
<1>10. \A t \in Savers : Copied(t)'
  BY <1>2, <1>9, CopiedElsewhere DEF Sound
<1>11. AllGood'
  <2> SUFFICES ASSUME NEW j \in Inodes, content'[j].whole PROVE Good(content'[j].records)
    BY Zenon DEF AllGood, Good
  <2>1. content'[j] = content[j]
    BY <1>7 DEF Torn
  <2> QED BY <2>1 DEF Sound, AllGood
<1>12. PathTilde'
  <2>1. ASSUME NEW t \in Savers, name[t] = "path~", pc'[t] \in {"write", "rename"},
               dir'["path~"] # NoInode
        PROVE  Fresh(content'[dir'["path~"]])
    <3>1. CASE content'[dir'["path~"]] = Torn
      BY <3>1 DEF Fresh, Torn
    <3>2. CASE content'[dir'["path~"]] # Torn
      <4>1. dir'["path~"] # i
        BY <1>6, <3>2
      <4>2. name[s] # "path~" /\ dir'["path~"] = dir["path~"]
        BY <1>4, <1>5, <4>1
      <4>3. t # s /\ pc[t] \in {"write", "rename"}
        BY <1>2, <2>1, <4>2
      <4>4. dir["path~"] \in Inodes
        BY <1>4, <2>1, <4>2 DEF Types
      <4>5. content'[dir["path~"]] = content[dir["path~"]]
        BY <1>7, <3>2, <4>2, <4>4
      <4> QED BY <2>1, <4>2, <4>3, <4>5 DEF Sound, PathTilde
    <3> QED BY <3>1, <3>2
  <2>2. \A t : Fresh(t) => (t.whole => t = Text(version', Records'))
    BY <1>2, <1>8 DEF Fresh
  <2> QED BY <1>2, <2>1, <2>2 DEF PathTilde, Fresh
<1>13. FileOfWallet'
  <2> SUFFICES ASSUME running, File'.whole
               PROVE  File'.version <= version /\ (File'.version = version => File'.records = Records)
    BY <1>2, <1>8 DEF FileOfWallet
  <2>1. dir'["path"] # NoInode /\ content'[dir'["path"]] # Torn /\ File' = content'[dir'["path"]]
    BY DEF File, Torn
  <2>2. name[s] # "path" /\ dir'["path"] = dir["path"] /\ dir'["path"] # i
    BY <1>4, <1>5, <1>6, <2>1
  <2>3. dir["path"] \in Inodes
    BY <1>4, <2>1, <2>2 DEF Types
  <2>4. File' = File
    BY <1>7, <2>1, <2>2, <2>3 DEF File
  <2> QED BY <2>4 DEF Sound, FileOfWallet
<1> QED BY <1>8, <1>10, <1>11, <1>12, <1>13 DEF Sound

\* A Save that returns.
LEMMA ReturnCopied ==
    ASSUME Types, Sound, NEW s \in Savers, Return(s), UNCHANGED <<vars, running, version>>
    PROVE  /\ \A t \in Savers : Copied(t)'
           /\ pc'[s] = "idle"
           /\ \A t \in Savers \ {s} : pc'[t] = pc[t] /\ name'[t] = name[t]
<1>1. /\ pc'[s] = "idle"
      /\ \A t \in Savers \ {s} : /\ pc'[t] = pc[t] /\ list'[t] = list[t]
                                 /\ data'[t] = data[t] /\ name'[t] = name[t]
  BY DEF Return, Types
<1>2. Copied(s)'
  BY <1>1 DEF Copied
<1>3. \A t \in Savers : Copied(t)'
  BY <1>1, <1>2, CopiedElsewhere DEF Sound
<1> QED BY <1>1, <1>3

\* A text is about the same wallet as long as the wallet does not change.
LEMMA StaysFresh ==
    ASSUME UNCHANGED <<vars, version>>
    PROVE  \A t : Fresh(t) => (t.whole => t = Text(version', Records'))
<1>1. Records' = Records
  BY SameWallet
<1> QED BY <1>1 DEF Fresh

LEMMA WriteSound ==
    ASSUME Types, Sound, NEW s \in Savers, Write(s)
    PROVE  Sound'
<1>1. PICK t \in IF content[open[s]] = Torn THEN {data[s]} ELSE {data[s], Mixed} :
         content' = [content EXCEPT ![open[s]] = t]
  BY DEF Write
<1>2. pc[s] = "write" /\ UNCHANGED <<vars, running, version, dir>>
  BY DEF Write
<1>3. data[s] = Text(version, Records) /\ running
  BY <1>2 DEF Sound, Copied
<1>4. Good(Records)
  BY GoodRecords DEF Sound
<1>5. \A j \in Inodes : content'[j] \in {content[j], Text(version, Records), Mixed}
  <2>1. t \in {Text(version, Records), Mixed}
    BY <1>1, <1>3
  <2> QED BY <1>1, <2>1 DEF Types
<1>6. /\ Fresh(Text(version, Records)) /\ Fresh(Mixed) /\ ~Mixed.whole
      /\ Text(version, Records).records = Records /\ Text(version, Records).version = version
  BY DEF Fresh, Text, Mixed
<1>7. /\ \A u \in Savers : Copied(u)'
      /\ \A u \in Savers : pc'[u] \in {"write", "rename"} =>
            pc[u] \in {"write", "rename"} /\ name'[u] = name[u]
  <2>1. CASE name[s] = "path"
    <3>1. Return(s)
      BY <2>1 DEF Write, ReturnSaved
    <3> QED BY <1>2, <3>1, ReturnCopied
  <2>2. CASE name[s] # "path"
    <3>1. /\ pc'[s] = "rename" /\ data' = data /\ name' = name /\ name[s] = "path~"
          /\ \A u \in Savers \ {s} : /\ pc'[u] = pc[u] /\ list'[u] = list[u]
                                     /\ data'[u] = data[u] /\ name'[u] = name[u]
      BY <2>2 DEF Write, Types, Names
    <3>2. Records' = Records
      BY <1>2, SameWallet
    <3>3. Copied(s)'
      BY <1>2, <1>3, <1>6, <3>1, <3>2 DEF Copied
    <3>4. \A u \in Savers : Copied(u)'
      BY <1>2, <3>1, <3>3, CopiedElsewhere DEF Sound
    <3> QED BY <1>2, <3>1, <3>4
  <2> QED BY <2>1, <2>2
<1>8. Records' = Records /\ Inv'
  BY <1>2, SameWallet DEF Sound
<1>9. AllGood'
  <2> SUFFICES ASSUME NEW j \in Inodes, content'[j].whole PROVE Good(content'[j].records)
    BY Zenon DEF AllGood, Good
  <2>1. content'[j] = content[j] \/ content'[j] = Text(version, Records)
    BY <1>5, <1>6
  <2> QED BY <1>4, <1>6, <2>1 DEF Sound, AllGood
<1>10. PathTilde'
  <2>1. ASSUME NEW u \in Savers, name'[u] = "path~", pc'[u] \in {"write", "rename"},
               dir["path~"] # NoInode
        PROVE  Fresh(content'[dir["path~"]])
    <3>1. Fresh(content[dir["path~"]])
      BY <1>7, <2>1 DEF Sound, PathTilde
    <3>2. dir["path~"] \in Inodes
      BY <2>1 DEF Types, Names
    <3> QED BY <1>5, <1>6, <3>1, <3>2
  <2>2. \A u : Fresh(u) => (u.whole => u = Text(version', Records'))
    BY <1>2, StaysFresh
  <2> QED BY <1>2, <2>1, <2>2 DEF PathTilde, Fresh
<1>11. FileOfWallet'
  <2> SUFFICES ASSUME File'.whole
               PROVE  File'.version <= version /\ (File'.version = version => File'.records = Records)
    BY <1>2, <1>8 DEF FileOfWallet
  <2>1. dir["path"] # NoInode /\ File' = content'[dir["path"]]
    BY <1>2 DEF File, Torn
  <2>2. dir["path"] \in Inodes
    BY <2>1 DEF Types, Names
  <2>3. CASE content'[dir["path"]] = content[dir["path"]]
    <3>1. File' = File
      BY <2>1, <2>3 DEF File
    <3> QED BY <1>3, <3>1 DEF Sound, FileOfWallet
  <2>4. CASE content'[dir["path"]] = Text(version, Records)
    <3>1. version \in Nat
      BY DEF Types
    <3> QED BY <1>6, <2>1, <2>4, <3>1
  <2> QED BY <1>5, <1>6, <2>1, <2>2, <2>3, <2>4
<1> QED BY <1>7, <1>8, <1>9, <1>10, <1>11 DEF Sound

LEMMA WriteFailsSound ==
    ASSUME Types, Sound, NEW s \in Savers, WriteFails(s)
    PROVE  Sound'
<1>1. Return(s) /\ UNCHANGED <<vars, running, version, dir, content>>
  BY DEF WriteFails, diskVars
<1>2. /\ \A t \in Savers : Copied(t)'
      /\ pc'[s] = "idle" /\ \A t \in Savers \ {s} : pc'[t] = pc[t] /\ name'[t] = name[t]
  BY <1>1, ReturnCopied
<1> QED BY <1>1, <1>2, DiskSound

\* What goes to path is what this saver or another has put under path~ since
\* the wallet last changed.
LEMMA RenameSound ==
    ASSUME Types, Sound, NEW s \in Savers, Rename(s)
    PROVE  Sound'
<1>1. /\ pc[s] = "rename" /\ Return(s) /\ UNCHANGED <<vars, running, version, content>>
  BY DEF Rename, ReturnSaved
<1>2. /\ \A t \in Savers : Copied(t)'
      /\ pc'[s] = "idle" /\ \A t \in Savers \ {s} : pc'[t] = pc[t] /\ name'[t] = name[t]
  BY <1>1, ReturnCopied
<1>3. CASE dir["path~"] = NoInode
  <2>1. UNCHANGED dir
    BY <1>3 DEF Rename
  <2> QED BY <1>1, <1>2, <2>1, DiskSound
<1>4. CASE dir["path~"] # NoInode
  <2>1. dir'["path"] = dir["path~"] /\ dir'["path~"] = NoInode
    BY <1>4 DEF Rename, Names
  <2>2. name[s] = "path~" /\ running
    BY <1>1 DEF Sound, Copied
  <2>3. Fresh(content[dir["path~"]])
    BY <1>1, <1>4, <2>2 DEF Sound, PathTilde
  <2>4. File' = content[dir["path~"]]
    BY <1>1, <1>4, <2>1 DEF File
  <2>5. Records' = Records /\ Inv'
    BY <1>1, SameWallet DEF Sound
  <2>6. AllGood'
    BY <1>1 DEF Sound, AllGood, Good
  <2>7. PathTilde'
    BY <2>1 DEF PathTilde
  <2>8. FileOfWallet'
    <3> SUFFICES ASSUME File'.whole
                 PROVE  File'.version <= version /\ File'.records = Records
      BY <1>1, <2>5 DEF FileOfWallet
    <3>1. File' = Text(version, Records)
      BY <2>3, <2>4 DEF Fresh
    <3>2. version \in Nat
      BY DEF Types
    <3> QED BY <3>1, <3>2 DEF Text
  <2> QED BY <1>2, <2>5, <2>6, <2>7, <2>8 DEF Sound
<1> QED BY <1>3, <1>4

LEMMA CrashSound ==
    ASSUME Sound, Crash
    PROVE  Sound'
<1>1. UNCHANGED <<vars, version, dir, content>> /\ running' = FALSE
      /\ \A t \in Savers : pc'[t] = "idle"
  BY DEF Crash, diskVars
<1>2. Inv' /\ \A t \in Savers : Copied(t)'
  BY <1>1, SameWallet DEF Sound, Copied
<1>3. AllGood'
  BY <1>1 DEF Sound, AllGood, Good
<1> QED BY <1>1, <1>2, <1>3 DEF Sound, PathTilde, FileOfWallet

\* The records that are loaded are those of the file, or there are none.
LEMMA OpeningSound ==
    ASSUME Types, Sound, NEW recs \in Seq(FullRecord), Good(recs), Load(recs),
           ~running, running' = TRUE, UNCHANGED <<saverVars, diskVars, saved>>,
           File.whole => version' = File.version /\ recs = File.records
    PROVE  Sound'
<1>1. Inv' /\ Records' = recs
  BY LoadGood DEF Types
<1>2. \A t \in Savers : pc'[t] = "idle"
  BY DEF Sound, Copied, saverVars
<1>3. \A t \in Savers : Copied(t)'
  BY <1>2 DEF Copied
<1>4. AllGood' /\ PathTilde'
  BY <1>2 DEF Sound, AllGood, Good, PathTilde, diskVars
<1>5. FileOfWallet'
  <2>1. File' = File
    BY DEF File, diskVars
  <2>2. File.whole => File.version \in Nat
    BY WholeFile
  <2> QED BY <1>1, <2>1, <2>2 DEF FileOfWallet
<1> QED BY <1>1, <1>3, <1>4, <1>5 DEF Sound

LEMMA GoodFile ==
    ASSUME Types, Sound, File.whole
    PROVE  Good(File.records)
BY WholeFile DEF Sound, AllGood

LEMMA OperationSound ==
    ASSUME SaveAlone, Types, Sound, Operation
    PROVE  Sound'
<1>1. /\ \A t \in Savers : pc[t] = "idle" /\ pc'[t] = "idle"
      /\ version' = version + 1 /\ running' = running /\ UNCHANGED <<dir, content>>
  BY DEF Operation, Saving, saverVars, diskVars
<1>2. Inv'
  BY NextKeeps DEF Operation, Sound
<1>3. \A t \in Savers : Copied(t)'
  BY <1>1 DEF Copied
<1>4. AllGood' /\ PathTilde'
  BY <1>1 DEF Sound, AllGood, Good, PathTilde
<1>5. FileOfWallet'
  <2>1. File' = File
    BY <1>1 DEF File
  <2>2. File.whole => File.version \in Nat
    BY WholeFile
  <2>3. version \in Nat
    BY DEF Types
  <2> QED BY <1>1, <2>1, <2>2, <2>3 DEF Sound, FileOfWallet
<1> QED BY <1>2, <1>3, <1>4, <1>5 DEF Sound

LEMMA FileStepSound ==
    ASSUME SaveAlone, Types, Sound, FileNext
    PROVE  Sound'
<1>1. ASSUME NEW s \in Savers, SaveStep(s) PROVE Sound'
  BY <1>1, SaveSound, MarshalKeySound, MarshalRestSound, FileExistedSound, OpenSound, WriteSound,
     WriteFailsSound, RenameSound DEF SaveStep
<1>2. ASSUME OpenWallet PROVE Sound'
  <2>1. File.whole /\ File.records \in Seq(FullRecord) /\ Good(File.records)
    BY <1>2, WholeFile, GoodFile DEF OpenWallet, Opens
  <2> QED BY <1>2, <2>1, OpeningSound DEF OpenWallet
<1>3. ASSUME NewWallet PROVE Sound'
  <2>1. ~File.whole
    BY <1>3, WholeFile, GoodFile, GoodOpens DEF NewWallet
  <2>2. <<>> \in Seq(FullRecord) /\ Good(<<>>)
    BY EmptySeq DEF Good
  <2> QED BY <1>3, <2>1, <2>2, OpeningSound DEF NewWallet
<1> QED BY <1>1, <1>2, <1>3, CrashSound, OperationSound DEF FileNext

LEMMA SoundSteps ==
    ASSUME SaveAlone, Types, Sound, [FileNext]_allVars
    PROVE  Sound'
<1>1. CASE UNCHANGED allVars
  <2>1. UNCHANGED <<vars, running, version, pc, list, data, name, dir, content>>
    BY <1>1 DEF allVars, fileVars, saverVars, diskVars
  <2>2. Records' = Records /\ accounts' = accounts /\ password' = password
    BY <2>1, SameWallet
  <2>3. \A t \in Savers : Copied(t)'
    BY <2>1, <2>2 DEF Sound, Copied, Marshalled
  <2> QED BY <2>1, <2>3, DiskSound
<1> QED BY <1>1, FileStepSound

LEMMA AlwaysSound == ASSUME SaveAlone PROVE FileSpec => []Sound
<1>1. FileInit => Sound
  <2> SUFFICES ASSUME FileInit PROVE Sound
    OBVIOUS
  <2>1. Inv /\ ~File.whole
    BY Initially DEF FileInit, File, Torn, Names
  <2> QED BY <2>1 DEF FileInit, Sound, Copied, AllGood, PathTilde, FileOfWallet, Torn
<1>2. Types /\ Sound /\ [FileNext]_allVars => Sound'
  BY SoundSteps
<1> QED BY <1>1, <1>2, AlwaysTyped, PTL DEF FileSpec

\* Where no other operation runs during a Save, whatever number of goroutines
\* save and wherever the process stops: a wallet that was opened from its file
\* is as consistent as any.
THEOREM RestoredHolds == ASSUME SaveAlone PROVE FileSpec => []Restored
<1>1. Sound => Restored
  BY DEF Sound, Inv, Restored
<1> QED BY <1>1, AlwaysSound, PTL

\* A file as new as the wallet has all of it.
THEOREM RoundTripHolds == ASSUME SaveAlone PROVE FileSpec => []RoundTrip
<1>1. Sound => RoundTrip
  BY DEF Sound, FileOfWallet, RoundTrip
<1> QED BY <1>1, AlwaysSound, PTL

\* A whole file opens, and each of its accounts with its password.
THEOREM OpensAgainHolds == ASSUME SaveAlone PROVE FileSpec => []OpensAgain
<1>1. Types /\ Sound => OpensAgain
  <2> SUFFICES ASSUME Types, Sound, File.whole
               PROVE  Opens(File) /\ \A i \in 1..Len(File.records) :
                                        GetAccount(File.records[i], File.records[i].key)
    BY DEF OpensAgain
  <2>1. File.records \in Seq(FullRecord) /\ Good(File.records)
    BY WholeFile, GoodFile
  <2> QED BY <2>1, GoodOpens
<1> QED BY <1>1, AlwaysTyped, AlwaysSound, PTL

-----------------------------------------------------------------------------
(* Saving and opening implement Vault, when no other operation runs during  *)
(* a Save.                                                                  *)

\* What a step that the running wallet does not see makes of the file.
Becomes ==
    /\ running /\ UNCHANGED <<running, Records>>
    /\ InFile' \in {InFile, {Records}, {}}

LEMMA OpenBecomes ==
    ASSUME Types, Sound, NEW s \in Savers, Open(s)
    PROVE  Becomes
<1>1. PICK i \in IF dir[name[s]] = NoInode THEN {Min(Unused)} ELSE {dir[name[s]]} :
         /\ dir' = [dir EXCEPT ![name[s]] = i]
         /\ content' = [content EXCEPT ![i] = Torn]
  BY DEF Open
<1>2. pc[s] = "open" /\ UNCHANGED <<vars, running>>
  BY DEF Open
<1>3. running /\ Records' = Records
  BY <1>2, SameWallet DEF Sound, Copied
<1>4. InFile' \in {InFile, {}}
  <2> SUFFICES ASSUME File'.whole PROVE InFile' = InFile
    BY DEF InFile
  <2>1. dir'["path"] # NoInode /\ File' = content'[dir'["path"]] /\ ~Torn.whole
    BY DEF File, Torn
  <2>2. /\ name[s] \in {"path", "path~"} /\ DOMAIN dir = Names /\ DOMAIN content = Inodes
        /\ "path" \in Names /\ "path~" \in Names
    BY DEF Types, Names
  <2>3. i \in Inodes
    <3>1. open[s] = NoInode
      BY <1>2 DEF Types, Holds
    <3>2. Min(Unused) \in Inodes
      BY <3>1, SomeUnused DEF Unused
    <3> QED BY <1>1, <2>2, <3>2 DEF Types
  <2>4. name[s] # "path" /\ dir'["path"] = dir["path"] /\ dir["path"] # i
    BY <1>1, <2>1, <2>2, <2>3
  <2>5. File' = File
    BY <1>1, <2>1, <2>2, <2>4 DEF File
  <2> QED BY <2>5 DEF InFile
<1> QED BY <1>2, <1>3, <1>4 DEF Becomes

LEMMA WriteBecomes ==
    ASSUME Types, Sound, NEW s \in Savers, Write(s)
    PROVE  Becomes
<1>1. PICK t \in IF content[open[s]] = Torn THEN {data[s]} ELSE {data[s], Mixed} :
         content' = [content EXCEPT ![open[s]] = t]
  BY DEF Write
<1>2. pc[s] = "write" /\ UNCHANGED <<vars, running, dir>>
  BY DEF Write
<1>3. running /\ Records' = Records /\ data[s] = Text(version, Records)
  BY <1>2, SameWallet DEF Sound, Copied
<1>4. ~Mixed.whole /\ Text(version, Records).whole /\ Text(version, Records).records = Records
  BY DEF Mixed, Text
<1>5. InFile' \in {InFile, {Records}, {}}
  <2> SUFFICES ASSUME File'.whole PROVE InFile' \in {InFile, {Records}}
    BY DEF InFile
  <2>1. dir["path"] # NoInode /\ File' = content'[dir["path"]]
    BY <1>2 DEF File, Torn
  <2>2. dir["path"] \in Inodes /\ DOMAIN content = Inodes
    BY <2>1 DEF Types, Names
  <2>3. CASE dir["path"] # open[s]
    <3>1. File' = File
      BY <1>1, <2>1, <2>2, <2>3 DEF File
    <3> QED BY <3>1 DEF InFile
  <2>4. CASE dir["path"] = open[s]
    <3>1. File' = t
      BY <1>1, <2>1, <2>2, <2>4
    <3>2. t = Text(version, Records)
      BY <1>1, <1>3, <1>4, <3>1
    <3> QED BY <1>4, <3>1, <3>2 DEF InFile
  <2> QED BY <2>3, <2>4
<1> QED BY <1>2, <1>3, <1>5 DEF Becomes

LEMMA RenameBecomes ==
    ASSUME Types, Sound, NEW s \in Savers, Rename(s)
    PROVE  Becomes
<1>1. pc[s] = "rename" /\ UNCHANGED <<vars, running, content>>
  BY DEF Rename
<1>2. running /\ Records' = Records /\ name[s] = "path~"
  BY <1>1, SameWallet DEF Sound, Copied
<1>3. InFile' \in {InFile, {Records}, {}}
  <2>1. CASE dir["path~"] = NoInode
    <3>1. File' = File
      BY <1>1, <2>1 DEF Rename, File
    <3> QED BY <3>1 DEF InFile
  <2>2. CASE dir["path~"] # NoInode
    <3>1. dir'["path"] = dir["path~"]
      BY <2>2 DEF Rename, Names
    <3>2. File' = content[dir["path~"]] /\ Fresh(File')
      BY <1>1, <1>2, <2>2, <3>1 DEF File, Sound, PathTilde
    <3>3. Text(version, Records).records = Records
      BY DEF Text
    <3> QED BY <3>2, <3>3 DEF Fresh, InFile
  <2> QED BY <2>1, <2>2
<1> QED BY <1>1, <1>2, <1>3 DEF Becomes

LEMMA SaveBecomes ==
    ASSUME Types, Sound, NEW s \in Savers, SaveStep(s)
    PROVE  Becomes
<1>1. ASSUME Save(s) \/ MarshalKey(s) \/ MarshalRest(s) \/ FileExisted(s) \/ WriteFails(s)
      PROVE  Becomes
  <2>1. UNCHANGED <<vars, running, dir, content>>
    BY <1>1 DEF Save, MarshalKey, MarshalRest, FileExisted, WriteFails, diskVars
  <2>2. running
    BY <1>1 DEF Save, MarshalKey, MarshalRest, FileExisted, WriteFails, Sound, Copied
  <2>3. InFile' = InFile
    BY <2>1 DEF InFile, File
  <2> QED BY <2>1, <2>2, <2>3, SameWallet DEF Becomes
<1> QED BY <1>1, OpenBecomes, WriteBecomes, RenameBecomes DEF SaveStep

\* What becomes of the file is a step of Vault: it is lost only where two save.
LEMMA BecomesVault ==
    ASSUME Becomes, OneSaver => (File.whole => File'.whole)
    PROVE  Disk!Next \/ UNCHANGED Disk!vars
<1>1. CASE InFile' = InFile
  BY <1>1 DEF Becomes, Disk!vars
<1>2. CASE InFile' = {Records}
  BY <1>2 DEF Becomes, Disk!Next, Disk!Commit
<1>3. CASE InFile' = {}
  <2>1. CASE OneSaver
    <3>1. InFile' = InFile
      BY <1>3, <2>1 DEF InFile
    <3> QED BY <1>1, <3>1
  <2>2. CASE ~OneSaver
    BY <1>3, <2>2 DEF Becomes, OneSaver, Disk!Next, Disk!Lose
  <2> QED BY <2>1, <2>2
<1> QED BY <1>1, <1>2, <1>3 DEF Becomes

\* A program that starts has the wallet of the file.
LEMMA OpeningVault ==
    ASSUME Types, Sound, OpenWallet \/ NewWallet
    PROVE  Disk!Start
<1>1. ~running /\ running' = TRUE /\ InFile' = InFile
  BY DEF OpenWallet, NewWallet, InFile, File, diskVars
<1>2. CASE OpenWallet
  <2>1. File.whole /\ File.records \in Seq(FullRecord) /\ Good(File.records)
    BY <1>2, WholeFile, GoodFile DEF OpenWallet, Opens
  <2>2. Records' = File.records
    BY <1>2, <2>1, LoadGood DEF OpenWallet, Types
  <2> QED BY <1>1, <2>1, <2>2 DEF InFile, Disk!Start
<1>3. CASE NewWallet
  <2>1. ~File.whole
    BY <1>3, WholeFile, GoodFile, GoodOpens DEF NewWallet
  <2>2. <<>> \in Seq(FullRecord) /\ Good(<<>>)
    BY EmptySeq DEF Good
  <2>3. Records' = <<>>
    BY <1>3, <2>2, LoadGood DEF NewWallet, Types
  <2> QED BY <1>1, <2>1, <2>3 DEF InFile, Disk!Start
<1> QED BY <1>2, <1>3

LEMMA VaultSteps ==
    ASSUME Types, Sound, OneSaver => Kept, [FileNext]_allVars
    PROVE  Disk!Next \/ UNCHANGED Disk!vars
<1>1. OneSaver => (File.whole => File'.whole)
  BY KeptSteps
<1>2. ASSUME NEW s \in Savers, SaveStep(s) PROVE Disk!Next \/ UNCHANGED Disk!vars
  BY <1>1, <1>2, SaveBecomes, BecomesVault
<1>3. ASSUME Operation PROVE Disk!Next
  <2>1. running /\ running' = running /\ InFile' = InFile
    BY <1>3 DEF Operation, InFile, File, diskVars
  <2> QED BY <2>1 DEF Disk!Next, Disk!Change
<1>4. ASSUME Crash PROVE Disk!Next
  <2>1. running /\ running' = FALSE /\ InFile' = InFile /\ Records' = Records
    BY <1>4, SameWallet DEF Crash, InFile, File, diskVars
  <2> QED BY <2>1 DEF Disk!Next, Disk!Stop
<1>5. ASSUME OpenWallet \/ NewWallet PROVE Disk!Next
  BY <1>5, OpeningVault DEF Disk!Next
<1>6. ASSUME UNCHANGED allVars PROVE UNCHANGED Disk!vars
  <2>1. UNCHANGED <<vars, running, dir, content>>
    BY <1>6 DEF allVars, fileVars, diskVars
  <2>2. InFile' = InFile
    BY <2>1 DEF InFile, File
  <2> QED BY <2>1, <2>2, SameWallet DEF Disk!vars
<1> QED BY <1>2, <1>3, <1>4, <1>5, <1>6 DEF FileNext

\* Saving and opening implement Vault, for any number of savers: many steps,
\* failures and stops come to one moment at which the file has the wallet of
\* memory, and the program starts again with exactly what the file has.
THEOREM VaultRefinement == ASSUME SaveAlone PROVE FileSpec => ImplementsVault
<1>1. FileInit => Disk!Init
  <2> SUFFICES ASSUME FileInit PROVE Disk!Init
    OBVIOUS
  <2>1. running = TRUE /\ InFile = {}
    BY DEF FileInit, InFile, File, Torn, Names
  <2>2. Records = <<>>
    <3>1. TypeOK /\ accounts = <<>>
      BY Initially DEF FileInit, Inv, Init
    <3>2. Records \in Seq(FullRecord) /\ Len(Records) = 0
      BY <3>1, RecordsType, EmptySeq
    <3> QED BY <3>2, EmptySeq
  <2> QED BY <2>1, <2>2 DEF Disk!Init
<1>2. Types /\ Sound /\ (OneSaver => Kept) /\ [FileNext]_allVars => [Disk!Next]_(Disk!vars)
  BY VaultSteps
<1>3. CASE OneSaver
  <2>1. FileSpec => []Kept
    BY <1>3, AlwaysKept
  <2> QED BY <1>1, <1>2, <2>1, AlwaysTyped, AlwaysSound, PTL DEF FileSpec, ImplementsVault, Disk!Spec
<1>4. CASE ~OneSaver
  <2>1. Types /\ Sound /\ [FileNext]_allVars => [Disk!Next]_(Disk!vars)
    BY <1>2, <1>4
  <2> QED BY <1>1, <2>1, AlwaysTyped, AlwaysSound, PTL DEF FileSpec, ImplementsVault, Disk!Spec
<1> QED BY <1>3, <1>4
=============================================================================
