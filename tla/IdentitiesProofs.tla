-------------------------- MODULE IdentitiesProofs --------------------------
(***************************************************************************)
(* Proofs about the identities of a wallet and their controllers, for any  *)
(* identities, labels and controllers: lists, maps, labels and the default *)
(* identity agree after any operations, Saves and OpenWallets.             *)
(***************************************************************************)
EXTENDS Identities, ListFacts

-----------------------------------------------------------------------------
(* The inductive invariant: the properties, and that a controller is in the *)
(* maps under its own ID and key, so that a deletion finds it in the list.  *)

OwnEntries ==
    \A o \in Identity :
        /\ \A i \in CtrIds : ctrsIdMap[o][i] # None => CtrId[ctrsIdMap[o][i]] = i
        /\ \A k \in Keys : ctrsPubMap[o][k] # None => Key[ctrsPubMap[o][k]] = k

\* Of LabelFindsIdentity, what is not a consequence of the rest.
LabelsFound ==
    ~labelled /\ again = {} =>
        \A o \in Members : label[o] # None => identityLabelMap[label[o]] = o

\* ListMatchesMap of one ID, a list s over the places D, a map m and a set a.
Matches(s, D, m, a, d) ==
    /\ m[d] # None => \E i \in D :
          /\ s[i] = m[d] /\ Id[s[i]] = d
          /\ \A j \in D : Id[s[j]] = d => j <= i
    /\ d \notin a => \A i, j \in D :
          Id[s[i]] = d /\ Id[s[j]] = d => i = j /\ m[d] = s[i]

LEMMA MatchesEach ==
    ListMatchesMap <=> \A d \in Ids :
        Matches(identities, DOMAIN identities, identityMap, again, d)
BY DEF ListMatchesMap, Matches

Inv ==
    TypeOK /\ ListMatchesMap /\ DefaultAgrees /\ ControllersAgree /\ OwnEntries /\ LabelsFound

LEMMA Initially == Init => Inv
<1> SUFFICES ASSUME Init PROVE Inv
  OBVIOUS
<1> USE IdentitiesAssumption DEF Init
<1>1. Members = {} /\ identities \in Seq(Identity) /\ DOMAIN identities = {}
  BY NoElements DEF Members
<1>2. \A o \in Identity : /\ controllers[o] = <<>>
                          /\ ToSet(controllers[o]) = {} /\ IsInjective(controllers[o])
  BY NoElements
<1>3. TypeOK
  BY <1>1, <1>2, NoElements DEF TypeOK, NoCtrs, NoKeys
<1>4. ControllersAgree
  BY <1>2 DEF ControllersAgree, NoCtrs, NoKeys
<1>5. OwnEntries
  BY DEF OwnEntries, NoCtrs, NoKeys
<1> QED BY <1>1, <1>3, <1>4, <1>5 DEF Inv, ListMatchesMap, DefaultAgrees, LabelsFound

\* The list over its places.
LEMMA Places ==
    ASSUME Inv
    PROVE  /\ identities \in Seq(Identity) /\ Len(identities) \in Nat
           /\ DOMAIN identities = 1..Len(identities)
           /\ \A i \in 1..Len(identities) :
                 /\ identities[i] \in Members /\ identities[i] \in Identity
                 /\ Id[identities[i]] \in Ids
           /\ \A o \in Members : o \in Identity /\ \E i \in 1..Len(identities) : identities[i] = o
<1>1. identities \in Seq(Identity)
  BY DEF Inv, TypeOK
<1>2. /\ Len(identities) \in Nat /\ DOMAIN identities = 1..Len(identities)
      /\ \A i \in 1..Len(identities) : identities[i] \in Identity
  BY <1>1, LenProperties, ElementOfSeq
<1>3. Members = {identities[i] : i \in 1..Len(identities)}
  BY <1>1, Elements DEF Members
<1>4. \A o \in Identity : Id[o] \in Ids
  BY IdentitiesAssumption
<1> QED BY <1>1, <1>2, <1>3, <1>4

\* What identityMap has is in the list, under its ID.
LEMMA MapInList ==
    ASSUME Inv, NEW d \in Ids, identityMap[d] # None
    PROVE  identityMap[d] \in Members /\ identityMap[d] \in Identity /\ Id[identityMap[d]] = d
BY Places DEF Inv, ListMatchesMap

\* What is saved is opened: the labels are different, and so are the IDs and
\* the keys of an identity's controllers.
LEMMA SavedOpens ==
    ASSUME Inv, ~labelled, again = {}
    PROVE  Opens(Data)
<1>1. /\ DOMAIN identities = 1..Len(identities)
      /\ \A i \in 1..Len(identities) : identities[i] \in Members /\ identities[i] \in Identity
      /\ \A i, j \in 1..Len(identities) : identities[i] = identities[j] => i = j
  BY Places DEF Inv, ListMatchesMap
<1>2. /\ DOMAIN Data = 1..Len(identities)
      /\ \A i \in 1..Len(identities) : /\ Data[i].label = label[identities[i]]
                                       /\ Data[i].control = controllers[identities[i]]
  BY <1>1 DEF Data, ToIdentityData
<1>3. ASSUME NEW i \in DOMAIN Data, NEW j \in DOMAIN Data, i # j, Data[i].label # None
      PROVE  Data[i].label # Data[j].label
  BY <1>1, <1>2, <1>3 DEF Inv, LabelsFound
<1>4. ASSUME NEW i \in DOMAIN Data, NEW m \in DOMAIN Data[i].control,
             NEW n \in DOMAIN Data[i].control, m # n
      PROVE  /\ CtrId[Data[i].control[m]] # CtrId[Data[i].control[n]]
             /\ Key[Data[i].control[m]] # Key[Data[i].control[n]]
  <2>1. PICK o \in Identity : Data[i].control = controllers[o]
    BY <1>1, <1>2
  <2>2. controllers[o] \in Seq(Controllers) /\ IsInjective(controllers[o])
    BY DEF Inv, TypeOK, ControllersAgree
  <2>3. /\ controllers[o][m] \in ToSet(controllers[o])
        /\ controllers[o][n] \in ToSet(controllers[o])
        /\ controllers[o][m] # controllers[o][n]
        /\ controllers[o][m] \in Controllers /\ controllers[o][n] \in Controllers
    BY <1>4, <2>1, <2>2, Elements DEF IsInjective, ToSet
  <2> QED BY <2>1, <2>3 DEF Inv, ControllersAgree
<1> QED BY <1>3, <1>4 DEF Opens

-----------------------------------------------------------------------------
(* Controllers. *)

\* The controllers of identities other than o stay as they are.
OthersKeep(o) ==
    \A x \in Identity \ {o} : /\ controllers'[x] = controllers[x]
                              /\ ctrsIdMap'[x] = ctrsIdMap[x]
                              /\ ctrsPubMap'[x] = ctrsPubMap[x]

\* An addition: the controller was in neither map, and now is in all three.
LEMMA AddControllerDataKeeps ==
    ASSUME Inv, NEW o \in Identity, NEW c \in Controllers, AddControllerData(o, c)
    PROVE  /\ controllers' \in [Identity -> Seq(Controllers)]
           /\ ctrsIdMap' \in [Identity -> [CtrIds -> Controllers \cup {None}]]
           /\ ctrsPubMap' \in [Identity -> [Keys -> Controllers \cup {None}]]
           /\ ControllersAgree' /\ OwnEntries'
<1> USE IdentitiesAssumption DEF AddControllerData
<1> DEFINE s == controllers[o]
<1>1. s \in Seq(Controllers) /\ IsInjective(s) /\ c \notin ToSet(s)
  BY DEF Inv, TypeOK, ControllersAgree
<1>2. /\ controllers'[o] \in Seq(Controllers)
      /\ ToSet(controllers'[o]) = ToSet(s) \cup {c}
      /\ IsInjective(controllers'[o])
      /\ controllers' = [controllers EXCEPT ![o] = controllers'[o]]
  BY <1>1, Appended DEF Inv, TypeOK
<1>3. OthersKeep(o)
  BY DEF OthersKeep, Inv, TypeOK
<1>4. CtrId[c] \in CtrIds /\ Key[c] \in Keys /\ c # None
  OBVIOUS
<1>5. /\ controllers' \in [Identity -> Seq(Controllers)]
      /\ ctrsIdMap' \in [Identity -> [CtrIds -> Controllers \cup {None}]]
      /\ ctrsPubMap' \in [Identity -> [Keys -> Controllers \cup {None}]]
  <2>1. controllers' \in [Identity -> Seq(Controllers)]
    BY <1>2 DEF Inv, TypeOK
  <2>2. ctrsIdMap' \in [Identity -> [CtrIds -> Controllers \cup {None}]]
    BY <1>4 DEF Inv, TypeOK
  <2>3. ctrsPubMap' \in [Identity -> [Keys -> Controllers \cup {None}]]
    BY <1>4 DEF Inv, TypeOK
  <2> QED BY <2>1, <2>2, <2>3
<1>6. /\ \A i \in CtrIds : ctrsIdMap'[o][i] = IF i = CtrId[c] THEN c ELSE ctrsIdMap[o][i]
      /\ \A k \in Keys : ctrsPubMap'[o][k] = IF k = Key[c] THEN c ELSE ctrsPubMap[o][k]
      /\ ctrsIdMap[o][CtrId[c]] = None /\ ctrsPubMap[o][Key[c]] = None
  BY <1>4 DEF Inv, TypeOK
<1>7. ControllersAgree'
  <2> SUFFICES ASSUME NEW d \in Controllers
               PROVE  /\ d \in ToSet(controllers'[o]) <=> ctrsIdMap'[o][CtrId[d]] = d
                      /\ d \in ToSet(controllers'[o]) <=> ctrsPubMap'[o][Key[d]] = d
    BY <1>2, <1>3 DEF OthersKeep, Inv, ControllersAgree
  <2>1. /\ d \in ToSet(s) <=> ctrsIdMap[o][CtrId[d]] = d
        /\ d \in ToSet(s) <=> ctrsPubMap[o][Key[d]] = d
        /\ CtrId[d] \in CtrIds /\ Key[d] \in Keys /\ d # None
    BY DEF Inv, ControllersAgree
  <2> QED BY <1>2, <1>4, <1>6, <2>1
<1>8. OwnEntries'
  BY <1>3, <1>6 DEF OthersKeep, Inv, OwnEntries
<1> QED BY <1>5, <1>7, <1>8

\* The other variables of the wallet, where an operation leaves them alone.
LEMMA WalletSame ==
    ASSUME Inv, UNCHANGED <<walletVars, fieldVars, history>>
    PROVE  /\ ListMatchesMap' /\ DefaultAgrees' /\ LabelsFound'
           /\ Members' = Members
BY DEF walletVars, fieldVars, history, Inv, ListMatchesMap, DefaultAgrees, LabelsFound, Members

LEMMA NewControllerKeeps ==
    ASSUME Inv, NEW o \in Identity, NEW c \in Controllers, NewController(o, c)
    PROVE  Inv'
<1>1. TypeOK'
  BY AddControllerDataKeeps, WalletSame DEF NewController, walletVars, fieldVars, history, Inv, TypeOK
<1> QED BY <1>1, AddControllerDataKeeps, WalletSame DEF NewController, Inv

\* The list without the controller of an ID: the loop finds that one only.
LEMMA IdTakenOut ==
    ASSUME Inv, NEW o \in Identity, NEW i \in CtrIds, ctrsIdMap[o][i] # None
    PROVE  /\ WithoutId(controllers[o], i) \in Seq(Controllers)
           /\ IsInjective(WithoutId(controllers[o], i))
           /\ ToSet(WithoutId(controllers[o], i)) = ToSet(controllers[o]) \ {ctrsIdMap[o][i]}
<1> DEFINE s == controllers[o]
           c == ctrsIdMap[o][i]
<1>1. c \in Controllers /\ CtrId[c] = i
  BY DEF Inv, TypeOK, OwnEntries
<1>2. s \in Seq(Controllers) /\ IsInjective(s) /\ c \in ToSet(s)
  BY <1>1 DEF Inv, TypeOK, ControllersAgree
<1>3. PICK k \in 1..Len(s) : s[k] = c
  BY <1>2, Elements
<1>4. \A j \in 1..Len(s) : CtrId[s[j]] = i => j = k
  <2> SUFFICES ASSUME NEW j \in 1..Len(s), CtrId[s[j]] = i PROVE j = k
    OBVIOUS
  <2>1. s[j] \in ToSet(s) /\ s[j] \in Controllers
    BY <1>2, Elements
  <2>2. s[j] = c
    BY <2>1 DEF Inv, ControllersAgree
  <2> QED BY <1>2, <1>3, <2>2, Elements
<1> DEFINE Test(d) == CtrId[d] = i
           I == {j \in 1..Len(s) : Test(s[j])}
<1>5. I = {k}
  BY <1>1, <1>3, <1>4
<1>6. Min({k}) = k
  BY DEF Min
<1>7. SelectInSeq(s, Test) = k
  BY <1>5, <1>6 DEF SelectInSeq
<1>8. \E j \in 1..Len(s) : Test(s[j])
  BY <1>1, <1>3
<1>9. WithoutId(s, i) = RemoveAt(s, k)
  BY <1>7, <1>8 DEF WithoutId, RemoveFirstMatch
<1> QED BY <1>2, <1>3, <1>9, TakenOut

LEMMA DeleteControllerDataKeeps ==
    ASSUME Inv, NEW o \in Identity, NEW i \in CtrIds, DeleteControllerData(o, i)
    PROVE  Inv'
<1> USE IdentitiesAssumption
<1> DEFINE c == ctrsIdMap[o][i]
<1>1. c \in Controllers /\ CtrId[c] = i /\ Key[c] \in Keys /\ c # None
  BY DEF DeleteControllerData, Inv, TypeOK, OwnEntries
<1>2. /\ controllers'[o] \in Seq(Controllers)
      /\ ToSet(controllers'[o]) = ToSet(controllers[o]) \ {c}
      /\ IsInjective(controllers'[o])
      /\ controllers' = [controllers EXCEPT ![o] = controllers'[o]]
  BY IdTakenOut DEF DeleteControllerData, Inv, TypeOK
<1>3. OthersKeep(o)
  BY DEF DeleteControllerData, OthersKeep, Inv, TypeOK
<1>4. /\ \A j \in CtrIds : ctrsIdMap'[o][j] = IF j = i THEN None ELSE ctrsIdMap[o][j]
      /\ \A k \in Keys : ctrsPubMap'[o][k] = IF k = Key[c] THEN None ELSE ctrsPubMap[o][k]
  BY DEF DeleteControllerData, Inv, TypeOK
<1>5. TypeOK'
  <2>1. controllers' \in [Identity -> Seq(Controllers)]
    BY <1>2 DEF Inv, TypeOK
  <2>2. ctrsIdMap' \in [Identity -> [CtrIds -> Controllers \cup {None}]]
    BY DEF DeleteControllerData, Inv, TypeOK
  <2>3. ctrsPubMap' \in [Identity -> [Keys -> Controllers \cup {None}]]
    BY <1>1 DEF DeleteControllerData, Inv, TypeOK
  <2> QED BY <2>1, <2>2, <2>3, WalletSame
          DEF DeleteControllerData, walletVars, fieldVars, history, Inv, TypeOK
<1>6. ControllersAgree'
  <2> SUFFICES ASSUME NEW d \in Controllers
               PROVE  /\ d \in ToSet(controllers'[o]) <=> ctrsIdMap'[o][CtrId[d]] = d
                      /\ d \in ToSet(controllers'[o]) <=> ctrsPubMap'[o][Key[d]] = d
    BY <1>2, <1>3 DEF OthersKeep, Inv, ControllersAgree
  <2>1. /\ d \in ToSet(controllers[o]) <=> ctrsIdMap[o][CtrId[d]] = d
        /\ d \in ToSet(controllers[o]) <=> ctrsPubMap[o][Key[d]] = d
        /\ c \in ToSet(controllers[o]) <=> ctrsPubMap[o][Key[c]] = c
        /\ c \in ToSet(controllers[o]) <=> ctrsIdMap[o][CtrId[c]] = c
        /\ CtrId[d] \in CtrIds /\ Key[d] \in Keys /\ d # None
    BY <1>1 DEF Inv, ControllersAgree
  <2> QED BY <1>1, <1>2, <1>4, <2>1
<1>7. OwnEntries'
  BY <1>3, <1>4 DEF OthersKeep, Inv, OwnEntries
<1> QED BY <1>5, <1>6, <1>7, WalletSame DEF DeleteControllerData, Inv

-----------------------------------------------------------------------------
(* Identities. *)

\* One more identity at the end of the list.
LEMMA AddIdentityKeeps ==
    ASSUME Inv, NEW o \in Identity, AddIdentity(o)
    PROVE  /\ identities' \in Seq(Identity)
           /\ identityMap' \in [Ids -> Identity \cup {None}]
           /\ defIdentity' \in Members' \cup {None}
           /\ isDefault' \in [Identity -> BOOLEAN]
           /\ labelled' \in BOOLEAN /\ again' \subseteq Ids
           /\ ListMatchesMap' /\ DefaultAgrees' /\ LabelsFound'
<1> USE IdentitiesAssumption DEF AddIdentity
<1> DEFINE n == Len(identities)
<1>1. /\ n \in Nat /\ DOMAIN identities = 1..n
      /\ \A i \in 1..n : identities[i] \in Members
  BY Places
<1>2. /\ identities' \in Seq(Identity) /\ Members' = Members \cup {o}
  BY Appended DEF Inv, TypeOK, Members
<1>3. /\ DOMAIN identities' = 1..n + 1
      /\ \A i \in 1..n : identities'[i] = identities[i]
      /\ identities'[n + 1] = o
  BY <1>1, <1>2, AppendProperties, LenProperties DEF Inv, TypeOK
<1> HIDE DEF n
<1>4. identities' # <<>>
  BY <1>2, Elements DEF Members
<1>5. \A d \in Ids : identityMap'[d] = IF d = Id[o] THEN o ELSE identityMap[d]
  BY DEF Inv, TypeOK
<1>6. ListMatchesMap'
  <2> SUFFICES ASSUME NEW d \in Ids
               PROVE  Matches(identities', 1..n + 1, identityMap', again', d)
    <3>1. ListMatchesMap' <=> \A c \in Ids :
             Matches(identities', DOMAIN identities', identityMap', again', c)
      BY DEF ListMatchesMap, Matches
    <3> QED BY <1>3, <3>1
  <2>1. /\ identityMap[d] # None => \E i \in 1..n :
              /\ identities[i] = identityMap[d] /\ Id[identities[i]] = d
              /\ \A j \in 1..n : Id[identities[j]] = d => j <= i
        /\ d \notin again => \A i, j \in 1..n :
              Id[identities[i]] = d /\ Id[identities[j]] = d =>
                 i = j /\ identityMap[d] = identities[i]
    <3>1. Matches(identities, DOMAIN identities, identityMap, again, d)
      BY MatchesEach DEF Inv
    <3>2. Matches(identities, 1..n, identityMap, again, d)
      BY <1>1, <3>1
    <3> QED BY <3>2 DEF Matches
  <2>2. n + 1 \in 1..n + 1 /\ \A j \in 1..n + 1 : j <= n + 1 /\ (j \in 1..n \/ j = n + 1)
    BY <1>1
  <2>3. \A j \in 1..n : j \in 1..n + 1
    BY <1>1
  <2>4. CASE d = Id[o]
    <3>1. d \notin again' => d \notin again /\ \A i \in 1..n : Id[identities[i]] # d
      BY <1>1, <2>4
    <3>2. identityMap'[d] = o
      BY <1>5, <2>4
    <3> QED BY <1>3, <2>2, <2>4, <3>1, <3>2 DEF Matches
  <2>5. CASE d # Id[o]
    <3>1. identityMap'[d] = identityMap[d] /\ (d \notin again' => d \notin again)
      BY <1>5, <2>5
    <3>2. \A j \in 1..n + 1 : Id[identities'[j]] = d => j \in 1..n /\ identities'[j] = identities[j]
      BY <1>3, <2>2, <2>5
    <3>3. identityMap'[d] # None => \E i \in 1..n + 1 :
             /\ identities'[i] = identityMap'[d] /\ Id[identities'[i]] = d
             /\ \A j \in 1..n + 1 : Id[identities'[j]] = d => j <= i
      BY <1>3, <2>1, <2>3, <3>1, <3>2
    <3>4. d \notin again' => \A i, j \in 1..n + 1 :
             Id[identities'[i]] = d /\ Id[identities'[j]] = d =>
                i = j /\ identityMap'[d] = identities'[i]
      BY <2>1, <3>1, <3>2
    <3> QED BY <3>3, <3>4 DEF Matches
  <2> QED BY <2>4, <2>5
<1>7. /\ defIdentity' \in Members' \cup {None}
      /\ isDefault' \in [Identity -> BOOLEAN]
      /\ identityMap' \in [Ids -> Identity \cup {None}]
      /\ labelled' \in BOOLEAN /\ again' \subseteq Ids
  BY <1>2 DEF Inv, TypeOK
<1>8. DefaultAgrees'
  <2>1. defIdentity' # None
    BY DEF Inv, TypeOK
  <2>2. \A x \in Identity : isDefault'[x] => x = defIdentity'
    BY DEF Inv, TypeOK, DefaultAgrees
  <2> QED BY <1>4, <2>1, <2>2 DEF DefaultAgrees
<1>9. LabelsFound'
  BY <1>2 DEF Inv, TypeOK, LabelsFound
<1> QED BY <1>2, <1>6, <1>7, <1>8, <1>9

LEMMA NewIdentityKeeps ==
    ASSUME Inv, NEW o \in Identity, NewIdentity(o)
    PROVE  Inv'
<1>1. First[o] \in Controllers
  BY IdentitiesAssumption
<1>2. AddControllerData(o, First[o]) /\ AddIdentity(o)
  BY DEF NewIdentity
<1>3. TypeOK'
  BY <1>1, <1>2, AddControllerDataKeeps, AddIdentityKeeps DEF AddIdentity, Inv, TypeOK
<1> QED BY <1>1, <1>2, <1>3, AddControllerDataKeeps, AddIdentityKeeps DEF Inv

\* Controllers that an operation leaves alone.
LEMMA ControllersSame ==
    ASSUME Inv, UNCHANGED ctrVars
    PROVE  ControllersAgree' /\ OwnEntries'
BY DEF ctrVars, Inv, ControllersAgree, OwnEntries

LEMMA AddAgainKeeps ==
    ASSUME Inv, NEW o \in Identity, AddAgain(o)
    PROVE  Inv'
<1>1. AddIdentity(o) /\ UNCHANGED ctrVars
  BY DEF AddAgain
<1>2. TypeOK'
  BY <1>1, AddIdentityKeeps DEF AddIdentity, ctrVars, Inv, TypeOK
<1> QED BY <1>1, <1>2, AddIdentityKeeps, ControllersSame DEF Inv

\* The list without the first identity of an ID: place k is gone.
LEMMA FirstTakenOut ==
    ASSUME Inv, NEW d \in Ids, identityMap[d] # None
    PROVE  \E k \in 1..Len(identities) :
              /\ Id[identities[k]] = d
              /\ WithoutIdentity(d) \in Seq(Identity)
              /\ Len(WithoutIdentity(d)) = Len(identities) - 1
              /\ \A j \in 1..Len(identities) - 1 :
                    WithoutIdentity(d)[j] = IF j < k THEN identities[j] ELSE identities[j + 1]
<1> DEFINE Test(x) == Id[x] = d
           I == {j \in 1..Len(identities) : Test(identities[j])}
<1>1. \E j \in 1..Len(identities) : Test(identities[j])
  BY MapInList, Places
<1>2. I \subseteq Nat /\ I # {}
  BY <1>1, Places
<1>3. Min(I) \in I
  <2> HIDE DEF I
  <2> QED BY <1>2, Least
<1>4. SelectInSeq(identities, Test) = Min(I)
  BY <1>2 DEF SelectInSeq
<1>5. WithoutIdentity(d) = RemoveAt(identities, Min(I))
  BY <1>1, <1>4 DEF WithoutIdentity, RemoveFirstMatch
<1>6. PICK k \in 1..Len(identities) : k = Min(I) /\ Id[identities[k]] = d
  BY <1>3
<1> HIDE DEF I
<1>7. /\ RemoveAt(identities, k) \in Seq(Identity)
      /\ Len(RemoveAt(identities, k)) = Len(identities) - 1
      /\ \A j \in 1..Len(identities) - 1 :
            RemoveAt(identities, k)[j] = IF j < k THEN identities[j] ELSE identities[j + 1]
  BY <1>6, RemoveAtElements DEF Inv, TypeOK
<1>8. WithoutIdentity(d) = RemoveAt(identities, k)
  BY <1>5, <1>6
<1> QED BY <1>6, <1>7, <1>8

LEMMA DeleteIdentityKeeps ==
    ASSUME Inv, NEW d \in Ids, DeleteIdentity(d)
    PROVE  Inv'
<1> USE IdentitiesAssumption
<1> DEFINE n == Len(identities)
           o == identityMap[d]
<1>1. /\ identityMap[d] # None /\ Id[defIdentity] # d /\ identities' = WithoutIdentity(d)
      /\ o \in Members /\ o \in Identity /\ Id[o] = d
  BY MapInList DEF DeleteIdentity
<1>2. PICK k \in 1..n : /\ Id[identities[k]] = d
                        /\ identities' \in Seq(Identity) /\ Len(identities') = n - 1
                        /\ \A j \in 1..n - 1 : identities'[j] =
                              IF j < k THEN identities[j] ELSE identities[j + 1]
  BY <1>1, FirstTakenOut
<1>3. /\ n \in Nat /\ DOMAIN identities = 1..n
      /\ \A i \in 1..n : identities[i] \in Members /\ identities[i] \in Identity
      /\ \A x \in Members : x \in Identity /\ \E i \in 1..n : identities[i] = x
  BY Places
<1>4. /\ DOMAIN identities' = 1..n - 1
      /\ Members' = {identities'[j] : j \in 1..n - 1}
  BY <1>2, Elements, LenProperties DEF Members
<1> HIDE DEF n, o
\* Where a place of the new list comes from, and where one of the old list goes.
<1> DEFINE old(j) == IF j < k THEN j ELSE j + 1
           new(i) == IF i < k THEN i ELSE i - 1
<1>5. \A j \in 1..n - 1 : /\ old(j) \in 1..n /\ old(j) # k /\ new(old(j)) = j
                          /\ identities'[j] = identities[old(j)]
  BY <1>2, <1>3
<1>6. \A i \in 1..n : i # k => /\ new(i) \in 1..n - 1 /\ old(new(i)) = i
  BY <1>2, <1>3
<1>7. \A i, j \in 1..n : i <= j /\ i # k /\ j # k => new(i) <= new(j)
  BY <1>2, <1>3
<1>8. \A i \in 1..n : i # k => identities'[new(i)] = identities[i]
  BY <1>5, <1>6
<1> HIDE DEF old, new
<1>9. Members' \subseteq Members /\ \A x \in Members : Id[x] # d => x \in Members'
  <2>1. Members' \subseteq Members
    BY <1>3, <1>4, <1>5
  <2>2. ASSUME NEW x \in Members, Id[x] # d PROVE x \in Members'
    <3>1. PICK i \in 1..n : identities[i] = x
      BY <1>3
    <3> QED BY <1>2, <1>4, <1>6, <1>8, <2>2, <3>1
  <2> QED BY <2>1, <2>2
<1>10. defIdentity # None /\ defIdentity \in Members'
  <2>1. identities # <<>>
    BY <1>1, Elements DEF Inv, TypeOK, Members
  <2>2. defIdentity # None
    BY <2>1 DEF Inv, DefaultAgrees
  <2> QED BY <1>1, <1>9, <2>2 DEF Inv, TypeOK
<1>11. identities' # <<>>
  BY <1>2, <1>10, Elements DEF Members
<1>12. identityLabelMap' \in [Labels -> Identity \cup {None}]
  BY DEF DeleteIdentity, WithoutLabelOf, Inv, TypeOK
<1>13. \A e \in Ids : identityMap'[e] = IF e = d THEN None ELSE identityMap[e]
  BY DEF DeleteIdentity, Inv, TypeOK
<1>14. TypeOK'
  <2>1. identityMap' \in [Ids -> Identity \cup {None}]
    BY DEF DeleteIdentity, Inv, TypeOK
  <2>2. /\ defIdentity' = defIdentity /\ label' = label /\ isDefault' = isDefault
        /\ controllers' = controllers /\ ctrsIdMap' = ctrsIdMap /\ ctrsPubMap' = ctrsPubMap
        /\ labelled' = labelled /\ again' = again
    BY DEF DeleteIdentity, fieldVars, ctrVars, history
  <2> QED BY <1>2, <1>10, <1>12, <2>1, <2>2 DEF Inv, TypeOK
<1>15. ListMatchesMap'
  <2> SUFFICES ASSUME NEW e \in Ids
               PROVE  Matches(identities', 1..n - 1, identityMap', again', e)
    <3>1. ListMatchesMap' <=> \A c \in Ids :
             Matches(identities', DOMAIN identities', identityMap', again', c)
      BY DEF ListMatchesMap, Matches
    <3> QED BY <1>4, <3>1
  <2>1. /\ identityMap[e] # None => \E i \in 1..n :
              /\ identities[i] = identityMap[e] /\ Id[identities[i]] = e
              /\ \A j \in 1..n : Id[identities[j]] = e => j <= i
        /\ e \notin again => \A i, j \in 1..n :
              Id[identities[i]] = e /\ Id[identities[j]] = e =>
                 i = j /\ identityMap[e] = identities[i]
    <3>1. Matches(identities, DOMAIN identities, identityMap, again, e)
      BY MatchesEach DEF Inv
    <3>2. Matches(identities, 1..n, identityMap, again, e)
      BY <1>3, <3>1
    <3> QED BY <3>2 DEF Matches
  <2>2. again' = again
    BY DEF DeleteIdentity, history
  <2>3. CASE e = d
    <3>1. identityMap'[e] = None
      BY <1>13, <2>3
    <3>2. e \notin again => \A j \in 1..n - 1 : Id[identities'[j]] # e
      BY <1>2, <1>5, <2>1, <2>3
    <3> QED BY <2>2, <3>1, <3>2 DEF Matches
  <2>4. CASE e # d
    <3>1. identityMap'[e] = identityMap[e]
      BY <1>13, <2>4
    <3>2. ASSUME identityMap[e] # None
          PROVE  \E i \in 1..n - 1 :
                    /\ identities'[i] = identityMap[e] /\ Id[identities'[i]] = e
                    /\ \A j \in 1..n - 1 : Id[identities'[j]] = e => j <= i
      <4>1. PICK i \in 1..n : /\ identities[i] = identityMap[e] /\ Id[identities[i]] = e
                              /\ \A j \in 1..n : Id[identities[j]] = e => j <= i
        BY <2>1, <3>2
      <4>2. i # k
        BY <1>2, <2>4, <4>1
      <4>3. new(i) \in 1..n - 1 /\ identities'[new(i)] = identities[i]
        BY <1>6, <1>8, <4>2
      <4>4. ASSUME NEW j \in 1..n - 1, Id[identities'[j]] = e PROVE j <= new(i)
        <5>1. old(j) \in 1..n /\ old(j) # k /\ new(old(j)) = j /\ old(j) <= i
          BY <1>5, <4>1, <4>4
        <5> QED BY <1>7, <4>2, <5>1
      <4> QED BY <4>1, <4>3, <4>4
    <3>3. ASSUME e \notin again, NEW i \in 1..n - 1, NEW j \in 1..n - 1,
                 Id[identities'[i]] = e, Id[identities'[j]] = e
          PROVE  i = j /\ identityMap[e] = identities'[i]
      <4>1. old(i) = old(j) /\ identityMap[e] = identities[old(i)]
        BY <1>5, <2>1, <3>3
      <4> QED BY <1>5, <4>1
    <3> QED BY <2>2, <3>1, <3>2, <3>3 DEF Matches
  <2> QED BY <2>3, <2>4
<1>16. DefaultAgrees'
  BY <1>10, <1>11 DEF DeleteIdentity, fieldVars, Inv, DefaultAgrees
<1>17. LabelsFound'
  <2> SUFFICES ASSUME ~labelled, again = {}, NEW x \in Members', label[x] # None
               PROVE  identityLabelMap'[label[x]] = x
    BY DEF DeleteIdentity, fieldVars, history, LabelsFound
  <2>1. x \in Members /\ x \in Identity /\ label[x] \in Labels
    BY <1>3, <1>9 DEF Inv, TypeOK
  <2>2. Id[x] # d
    <3>1. PICK j \in 1..n - 1 : identities'[j] = x
      BY <1>4
    <3>2. d \notin again
      OBVIOUS
    <3>3. \A i \in DOMAIN identities : \A l \in DOMAIN identities :
             Id[identities[i]] = d /\ Id[identities[l]] = d => i = l
      BY <3>2 DEF Inv, ListMatchesMap
    <3> QED BY <1>2, <1>3, <1>5, <3>1, <3>3
  <2>3. /\ identityLabelMap[label[x]] = x
        /\ label[o] # None => identityLabelMap[label[o]] = o
    BY <1>1, <2>1 DEF Inv, LabelsFound
  <2>4. label[o] # None => label[o] # label[x]
    BY <1>1, <2>2, <2>3
  <2> QED BY <2>1, <2>3, <2>4 DEF DeleteIdentity, WithoutLabelOf, o, Inv, TypeOK
<1> QED BY <1>14, <1>15, <1>16, <1>17, ControllersSame DEF DeleteIdentity, Inv

LEMMA SetDefaultIdentityKeeps ==
    ASSUME Inv, NEW d \in Ids, SetDefaultIdentity(d)
    PROVE  Inv'
<1> USE IdentitiesAssumption
<1> DEFINE o == identityMap[d]
<1>1. o \in Members /\ o # None /\ o \in Identity /\ Members' = Members
  BY MapInList DEF SetDefaultIdentity, Members
<1>2. TypeOK'
  BY <1>1 DEF SetDefaultIdentity, ctrVars, history, Inv, TypeOK
<1>3. identities # <<>>
  BY <1>1, Elements DEF Inv, TypeOK, Members
<1>4. DefaultAgrees'
  BY <1>1, <1>3 DEF SetDefaultIdentity, Inv, TypeOK, DefaultAgrees
<1>5. ListMatchesMap' /\ LabelsFound'
  BY <1>1 DEF SetDefaultIdentity, history, Inv, ListMatchesMap, LabelsFound
<1> QED BY <1>2, <1>4, <1>5, ControllersSame DEF SetDefaultIdentity, Inv

LEMMA SetIdentityLabelKeeps ==
    ASSUME Inv, NEW d \in Ids, NEW l \in Labels \cup {None}, SetIdentityLabel(d, l)
    PROVE  Inv'
<1> USE IdentitiesAssumption
<1> DEFINE o == identityMap[d]
<1>1. /\ o # None /\ label[o] # l /\ (l # None => identityLabelMap[l] = None)
      /\ label' = [label EXCEPT ![o] = l]
      /\ identityLabelMap' = IF l = None THEN WithoutLabelOf(o)
                             ELSE [identityLabelMap EXCEPT ![l] = o]
      /\ UNCHANGED <<identities, identityMap, defIdentity, isDefault, ctrVars, history>>
  BY DEF SetIdentityLabel, Relabel
<1>2. o \in Members /\ o \in Identity /\ Members' = Members
  BY <1>1, MapInList DEF Members
<1> HIDE DEF o
<1>3. TypeOK'
  <2>1. identityLabelMap' \in [Labels -> Identity \cup {None}]
    BY <1>1, <1>2 DEF WithoutLabelOf, Inv, TypeOK
  <2>2. label' \in [Identity -> Labels \cup {None}]
    BY <1>1, <1>2 DEF Inv, TypeOK
  <2> QED BY <1>1, <1>2, <2>1, <2>2 DEF ctrVars, history, Inv, TypeOK
<1>4. ListMatchesMap' /\ DefaultAgrees'
  BY <1>1 DEF history, Inv, ListMatchesMap, DefaultAgrees
<1>5. LabelsFound'
  <2> SUFFICES ASSUME ~labelled, again = {}, NEW x \in Members, label'[x] # None
               PROVE  identityLabelMap'[label'[x]] = x
    BY <1>1, <1>2 DEF history, LabelsFound
  <2>1. x \in Identity /\ label[x] \in Labels \cup {None} /\ label[o] \in Labels \cup {None}
    BY <1>2, Places DEF Inv, TypeOK
  <2>2. /\ label[x] # None => identityLabelMap[label[x]] = x
        /\ label[o] # None => identityLabelMap[label[o]] = o
    BY <1>2 DEF Inv, LabelsFound
  <2>3. CASE x = o
    <3>1. label'[o] = l /\ l # None /\ l \in Labels
      BY <1>1, <1>2, <2>3 DEF Inv, TypeOK
    <3> QED BY <1>1, <1>2, <2>3, <3>1 DEF Inv, TypeOK
  <2>4. CASE x # o
    <3>1. label'[x] = label[x] /\ label[x] # None /\ label[x] \in Labels
      BY <1>1, <2>1, <2>4 DEF Inv, TypeOK
    <3>2. CASE l = None
      BY <1>1, <2>1, <2>2, <2>4, <3>1, <3>2 DEF WithoutLabelOf, Inv, TypeOK
    <3>3. CASE l # None
      <4>1. l \in Labels /\ x # None /\ l # label[x]
        BY <1>1, <2>1, <2>2, <3>1, <3>3
      <4> QED BY <1>1, <2>2, <3>1, <3>3, <4>1 DEF Inv, TypeOK
    <3> QED BY <3>2, <3>3
  <2> QED BY <2>3, <2>4
<1> QED BY <1>1, <1>3, <1>4, <1>5, ControllersSame DEF Inv

-----------------------------------------------------------------------------
(* Save and OpenWallet. *)

\* A map filled from an identity's controllers, as it was before.
LEMMA MapsFilled ==
    ASSUME Inv, NEW o \in Identity
    PROVE  /\ MapBy(CtrId, CtrIds, o) = ctrsIdMap[o]
           /\ MapBy(Key, Keys, o) = ctrsPubMap[o]
<1> USE IdentitiesAssumption
<1>1. ToSet(controllers[o]) \subseteq Controllers
  BY Elements DEF Inv, TypeOK
<1>2. ASSUME NEW i \in CtrIds
      PROVE  MapBy(CtrId, CtrIds, o)[i] = ctrsIdMap[o][i]
  <2> DEFINE S == {c \in ToSet(controllers[o]) : CtrId[c] = i}
  <2>1. MapBy(CtrId, CtrIds, o)[i] = IF S = {} THEN None ELSE CHOOSE c \in S : TRUE
    BY DEF MapBy
  <2>2. CASE ctrsIdMap[o][i] = None
    <3>1. S = {}
      BY <1>1, <2>2 DEF Inv, ControllersAgree
    <3> QED BY <2>1, <2>2, <3>1
  <2>3. CASE ctrsIdMap[o][i] # None
    <3>1. ctrsIdMap[o][i] \in S
      BY <2>3 DEF Inv, TypeOK, ControllersAgree, OwnEntries
    <3>2. \A c \in S : c = ctrsIdMap[o][i]
      BY <1>1 DEF Inv, ControllersAgree
    <3> QED BY <2>1, <3>1, <3>2
  <2> QED BY <2>2, <2>3
<1>3. ASSUME NEW k \in Keys
      PROVE  MapBy(Key, Keys, o)[k] = ctrsPubMap[o][k]
  <2> DEFINE S == {c \in ToSet(controllers[o]) : Key[c] = k}
  <2>1. MapBy(Key, Keys, o)[k] = IF S = {} THEN None ELSE CHOOSE c \in S : TRUE
    BY DEF MapBy
  <2>2. CASE ctrsPubMap[o][k] = None
    <3>1. S = {}
      BY <1>1, <2>2 DEF Inv, ControllersAgree
    <3> QED BY <2>1, <2>2, <3>1
  <2>3. CASE ctrsPubMap[o][k] # None
    <3>1. ctrsPubMap[o][k] \in S
      BY <2>3 DEF Inv, TypeOK, ControllersAgree, OwnEntries
    <3>2. \A c \in S : c = ctrsPubMap[o][k]
      BY <1>1 DEF Inv, ControllersAgree
    <3> QED BY <2>1, <3>1, <3>2
  <2> QED BY <2>2, <2>3
<1>4. /\ ctrsIdMap[o] \in [CtrIds -> Controllers \cup {None}]
      /\ ctrsPubMap[o] \in [Keys -> Controllers \cup {None}]
  BY DEF Inv, TypeOK
<1> DEFINE f == MapBy(CtrId, CtrIds, o)
           g == MapBy(Key, Keys, o)
<1>5. f = [i \in CtrIds |-> f[i]] /\ g = [k \in Keys |-> g[k]]
  BY DEF MapBy
<1> HIDE DEF f, g
<1>6. f = ctrsIdMap[o] /\ g = ctrsPubMap[o]
  BY <1>2, <1>3, <1>4, <1>5 DEF f, g
<1> QED BY <1>6 DEF f, g

\* What the objects of the opened list are made of.
LEMMA Origins ==
    ASSUME Inv, NEW s \in Objects
    PROVE  /\ s \in Seq(Identity) /\ DOMAIN s = 1..Len(identities) /\ Len(identities) \in Nat
           /\ ToSet(s) = {s[i] : i \in 1..Len(identities)} /\ ToSet(s) \subseteq Identity
           /\ \A i, j \in 1..Len(identities) : s[i] = s[j] => i = j
           /\ \A i \in 1..Len(identities) : /\ s[i] \in Identity /\ Id[s[i]] = Id[identities[i]]
                                            /\ Made(s)[s[i]] = identities[i]
           /\ \A o \in Identity : /\ Made(s)[o] \in Identity \cup {None}
                                  /\ o \in ToSet(s) <=> Made(s)[o] # None
<1> DEFINE n == Len(identities)
<1>1. /\ DOMAIN identities = 1..n /\ n \in Nat
      /\ \A i \in 1..n : identities[i] \in Identity /\ identities[i] # None
  BY IdentitiesAssumption, Places
<1> HIDE DEF n
<1>2. /\ s \in [1..n -> Identity] /\ IsInjective(s)
      /\ \A i \in 1..n : Id[s[i]] = Id[identities[i]]
  BY <1>1 DEF Objects
<1>3. s \in Seq(Identity) /\ DOMAIN s = 1..n
  BY <1>1, <1>2, SeqDef
<1>4. ToSet(s) = {s[i] : i \in 1..n} /\ \A i, j \in 1..n : s[i] = s[j] => i = j
  BY <1>2, <1>3 DEF ToSet, IsInjective
<1>5. ASSUME NEW i \in 1..n PROVE Made(s)[s[i]] = identities[i]
  <2>1. (CHOOSE j \in DOMAIN s : s[j] = s[i]) = i
    BY <1>3, <1>4
  <2>2. s[i] \in Identity /\ \E j \in DOMAIN s : s[j] = s[i]
    BY <1>2, <1>3
  <2> QED BY <2>1, <2>2 DEF Made
<1>6. ASSUME NEW o \in Identity, o \notin ToSet(s) PROVE Made(s)[o] = None
  BY <1>3, <1>4, <1>6 DEF Made
<1>7. ASSUME NEW o \in Identity
      PROVE  /\ Made(s)[o] \in Identity \cup {None}
             /\ o \in ToSet(s) <=> Made(s)[o] # None
  <2>1. CASE o \in ToSet(s)
    BY <1>1, <1>4, <1>5, <2>1
  <2>2. CASE o \notin ToSet(s)
    BY <1>6, <2>2
  <2> QED BY <2>1, <2>2
<1> QED BY <1>1, <1>2, <1>3, <1>4, <1>5, <1>7 DEF n

\* identityMap, filled from the opened list.
LEMMA LastFound ==
    ASSUME Inv, NEW s \in Objects, NEW d \in Ids
    PROVE  LET n == Len(identities) IN
           /\ LastOf(s)[d] \in Identity \cup {None}
           /\ LastOf(s)[d] # None => \E i \in 1..n :
                 /\ s[i] = LastOf(s)[d] /\ Id[s[i]] = d
                 /\ \A j \in 1..n : Id[s[j]] = d => j <= i
           /\ \A i \in 1..n : Id[s[i]] = d => \E j \in 1..n :
                 Id[s[j]] = d /\ LastOf(s)[d] = s[j]
<1> DEFINE n == Len(identities)
           S == {i \in 1..n : Id[s[i]] = d}
<1>1. n \in Nat /\ DOMAIN s = 1..n /\ \A i \in 1..n : s[i] \in Identity
  BY Origins
<1>2. LastOf(s)[d] = IF S = {} THEN None ELSE s[Max(S)]
  BY <1>1 DEF LastOf
<1>3. S # {} => Max(S) \in S /\ \A y \in S : y <= Max(S)
  <2>1. S \subseteq 1..n
    OBVIOUS
  <2> HIDE DEF S, n
  <2> QED BY <1>1, <2>1, Greatest
<1>4. CASE S = {}
  BY <1>2, <1>4
<1>5. CASE S # {}
  <2>1. PICK k \in 1..n : k = Max(S) /\ Id[s[k]] = d /\ \A y \in S : y <= k
    BY <1>3, <1>5
  <2>2. LastOf(s)[d] = s[k]
    BY <1>2, <1>5, <2>1
  <2> QED BY <1>1, <2>1, <2>2
<1> QED BY <1>4, <1>5

\* Whatever else the file may refuse, no two of its identities share a label.
LEMMA LabelsDiffer ==
    ASSUME Inv, Opens(Data), NEW i \in 1..Len(identities), NEW j \in 1..Len(identities),
           label[identities[i]] = label[identities[j]], label[identities[i]] # None
    PROVE  i = j
<1>1. /\ i \in DOMAIN Data /\ j \in DOMAIN Data
      /\ Data[i].label = label[identities[i]] /\ Data[j].label = label[identities[j]]
  BY Places DEF Data, ToIdentityData
<1> QED BY <1>1 DEF Opens

LEMMA SaveAndOpenKeeps == Inv /\ SaveAndOpen => Inv'
<1> SUFFICES ASSUME Inv, SaveAndOpen PROVE Inv'
  OBVIOUS
<1> USE IdentitiesAssumption
<1> DEFINE n == Len(identities)
<1>1. PICK s \in Objects :
         /\ Opens(Data) /\ identities' = s
         /\ identityMap' = LastOf(s)
         /\ defIdentity' = IF s = <<>> THEN None ELSE s[1]
         /\ label' = [o \in Identity |->
               IF Made(s)[o] = None THEN None ELSE label[Made(s)[o]]]
         /\ identityLabelMap' = [l \in Labels |->
               LET S == {o \in ToSet(s) : label'[o] = l} IN
               IF S = {} THEN None ELSE CHOOSE o \in S : TRUE]
         /\ isDefault' = [o \in Identity |-> FALSE]
         /\ controllers' = [o \in Identity |->
               IF Made(s)[o] = None THEN <<>> ELSE controllers[Made(s)[o]]]
         /\ ctrsIdMap' = [o \in Identity |->
               IF Made(s)[o] = None THEN NoCtrs ELSE MapBy(CtrId, CtrIds, Made(s)[o])]
         /\ ctrsPubMap' = [o \in Identity |->
               IF Made(s)[o] = None THEN NoKeys ELSE MapBy(Key, Keys, Made(s)[o])]
         /\ labelled' = FALSE
         /\ again' = {d \in Ids : \E i, j \in DOMAIN s :
                         i # j /\ Id[s[i]] = d /\ Id[s[j]] = d}
  BY Zenon DEF SaveAndOpen
<1>2. /\ s \in Seq(Identity) /\ DOMAIN s = 1..n /\ n \in Nat
      /\ ToSet(s) = {s[i] : i \in 1..n} /\ ToSet(s) \subseteq Identity
      /\ \A i \in 1..n : s[i] \in Identity /\ Made(s)[s[i]] = identities[i]
      /\ \A i \in 1..n : identities[i] \in Identity
  BY Origins, Places
<1>3. \A o \in Identity : /\ Made(s)[o] \in Identity \cup {None}
                          /\ o \in ToSet(s) <=> Made(s)[o] # None
  BY Origins
<1> HIDE DEF n
<1> DEFINE old(o) == Made(s)[o]
<1> HIDE DEF old
<1>4. \A o \in Identity :
         /\ controllers'[o] = IF old(o) # None THEN controllers[old(o)] ELSE <<>>
         /\ ctrsIdMap'[o] = IF old(o) # None THEN ctrsIdMap[old(o)] ELSE NoCtrs
         /\ ctrsPubMap'[o] = IF old(o) # None THEN ctrsPubMap[old(o)] ELSE NoKeys
         /\ label'[o] = IF old(o) # None THEN label[old(o)] ELSE None
  BY <1>1, <1>3, MapsFilled DEF old
<1>5. \A o \in Identity : old(o) \in Identity \cup {None}
  BY <1>3 DEF old
<1>6. Members' = ToSet(s)
  BY <1>1 DEF Members
<1>7. \A o \in Identity : controllers'[o] \in Seq(Controllers)
  <2>1. <<>> \in Seq(Controllers)
    BY NoElements
  <2>2. \A o \in Identity : controllers[o] \in Seq(Controllers)
    BY DEF Inv, TypeOK
  <2> QED BY <1>4, <1>5, <2>1, <2>2
<1>8. s # <<>> => s[1] \in ToSet(s)
  <2>1. s # <<>> => n # 0
    BY <1>2, EmptySeq
  <2> QED BY <1>2, <2>1
<1>9. TypeOK'
  <2>1. controllers' \in [Identity -> Seq(Controllers)]
    BY <1>1, <1>7
  <2>2. ctrsIdMap' \in [Identity -> [CtrIds -> Controllers \cup {None}]]
    <3>1. NoCtrs \in [CtrIds -> Controllers \cup {None}]
      BY DEF NoCtrs
    <3>2. \A o \in Identity : ctrsIdMap[o] \in [CtrIds -> Controllers \cup {None}]
      BY DEF Inv, TypeOK
    <3>3. \A o \in Identity : ctrsIdMap'[o] \in [CtrIds -> Controllers \cup {None}]
      BY <1>4, <1>5, <3>1, <3>2
    <3> QED BY <1>1, <3>3
  <2>3. ctrsPubMap' \in [Identity -> [Keys -> Controllers \cup {None}]]
    <3>1. NoKeys \in [Keys -> Controllers \cup {None}]
      BY DEF NoKeys
    <3>2. \A o \in Identity : ctrsPubMap[o] \in [Keys -> Controllers \cup {None}]
      BY DEF Inv, TypeOK
    <3>3. \A o \in Identity : ctrsPubMap'[o] \in [Keys -> Controllers \cup {None}]
      BY <1>4, <1>5, <3>1, <3>2
    <3> QED BY <1>1, <3>3
  <2>4. identityLabelMap' \in [Labels -> Identity \cup {None}]
    <3>1. \A l \in Labels : identityLabelMap'[l] \in Identity \cup {None}
      BY <1>1, <1>2
    <3> QED BY <1>1, <3>1
  <2>5. label' \in [Identity -> Labels \cup {None}]
    <3>1. \A o \in Identity : label'[o] \in Labels \cup {None}
      BY <1>4, <1>5 DEF Inv, TypeOK
    <3> QED BY <1>1, <3>1
  <2>6. defIdentity' \in Members' \cup {None}
    BY <1>1, <1>6, <1>8
  <2>7. identityMap' \in [Ids -> Identity \cup {None}]
    <3>1. \A d \in Ids : LastOf(s)[d] \in Identity \cup {None}
      BY LastFound
    <3>2. LastOf(s) = [d \in Ids |-> LastOf(s)[d]]
      BY DEF LastOf
    <3> QED BY <1>1, <3>1, <3>2
  <2>8. /\ identities' \in Seq(Identity)
        /\ isDefault' \in [Identity -> BOOLEAN] /\ labelled' \in BOOLEAN /\ again' \subseteq Ids
    BY <1>1, <1>2
  <2> QED BY <2>1, <2>2, <2>3, <2>4, <2>5, <2>6, <2>7, <2>8 DEF TypeOK
<1>10. ListMatchesMap'
  <2>0. identities' = s /\ identityMap' = LastOf(s) /\ DOMAIN s = 1..n
    BY <1>1, <1>2
  <2> SUFFICES ASSUME NEW d \in Ids
               PROVE  /\ LastOf(s)[d] # None => \E i \in 1..n :
                            /\ s[i] = LastOf(s)[d] /\ Id[s[i]] = d
                            /\ \A j \in 1..n : Id[s[j]] = d => j <= i
                      /\ d \notin again' => \A i, j \in 1..n :
                            Id[s[i]] = d /\ Id[s[j]] = d => i = j /\ LastOf(s)[d] = s[i]
    BY <2>0 DEF ListMatchesMap
  <2>1. /\ LastOf(s)[d] # None => \E i \in 1..n :
              /\ s[i] = LastOf(s)[d] /\ Id[s[i]] = d
              /\ \A j \in 1..n : Id[s[j]] = d => j <= i
        /\ \A i \in 1..n : Id[s[i]] = d => \E j \in 1..n :
              Id[s[j]] = d /\ LastOf(s)[d] = s[j]
    BY LastFound DEF n
  <2>2. d \notin again' => \A i, j \in 1..n : Id[s[i]] = d /\ Id[s[j]] = d => i = j
    BY <1>1, <1>2
  <2> QED BY <2>1, <2>2
<1>11. DefaultAgrees'
  <2>1. defIdentity' = None <=> identities' = <<>>
    BY <1>1, <1>2, <1>8
  <2> QED BY <1>1, <2>1 DEF DefaultAgrees
<1>12. ControllersAgree'
  <2> SUFFICES ASSUME NEW o \in Identity, NEW d \in Controllers
               PROVE  /\ IsInjective(controllers'[o])
                      /\ d \in ToSet(controllers'[o]) <=> ctrsIdMap'[o][CtrId[d]] = d
                      /\ d \in ToSet(controllers'[o]) <=> ctrsPubMap'[o][Key[d]] = d
    BY DEF ControllersAgree
  <2>1. CASE old(o) # None
    BY <1>4, <1>5, <2>1 DEF Inv, ControllersAgree
  <2>2. CASE old(o) = None
    <3>1. /\ controllers'[o] = <<>> /\ ToSet(controllers'[o]) = {}
          /\ IsInjective(controllers'[o])
      BY <1>4, <2>2, NoElements
    <3>2. ctrsIdMap'[o][CtrId[d]] = None /\ ctrsPubMap'[o][Key[d]] = None
      BY <1>4, <2>2 DEF NoCtrs, NoKeys
    <3> QED BY <3>1, <3>2
  <2> QED BY <2>1, <2>2
<1>13. OwnEntries'
  <2> SUFFICES ASSUME NEW o \in Identity
               PROVE  /\ \A i \in CtrIds : ctrsIdMap'[o][i] # None => CtrId[ctrsIdMap'[o][i]] = i
                      /\ \A k \in Keys : ctrsPubMap'[o][k] # None => Key[ctrsPubMap'[o][k]] = k
    BY DEF OwnEntries
  <2> QED BY <1>4, <1>5 DEF NoCtrs, NoKeys, Inv, OwnEntries
<1>14. LabelsFound'
  <2> SUFFICES ASSUME NEW x \in ToSet(s), label'[x] # None
               PROVE  identityLabelMap'[label'[x]] = x
    BY <1>6 DEF LabelsFound
  <2> DEFINE S == {o \in ToSet(s) : label'[o] = label'[x]}
  <2>1. label'[x] \in Labels
    BY <1>2, <1>9 DEF TypeOK
  <2>2. identityLabelMap'[label'[x]] = IF S = {} THEN None ELSE CHOOSE o \in S : TRUE
    BY <1>1, <2>1
  <2>3. ASSUME NEW y \in S PROVE y = x
    <3>1. PICK i \in 1..n, j \in 1..n : s[i] = x /\ s[j] = y
      BY <1>2
    <3>2. label'[x] = label[identities[i]] /\ label'[y] = label[identities[j]]
      <4>1. old(x) = identities[i] /\ old(y) = identities[j]
        BY <1>2, <3>1 DEF old
      <4>2. identities[i] # None /\ identities[j] # None /\ x \in Identity /\ y \in Identity
        BY <1>2, <3>1
      <4> QED BY <1>4, <4>1, <4>2
    <3>3. i = j
      BY <1>1, <3>2, LabelsDiffer DEF n
    <3> QED BY <3>1, <3>3
  <2>4. S = {x}
    BY <2>3
  <2> QED BY <2>2, <2>4
<1> QED BY <1>9, <1>10, <1>11, <1>12, <1>13, <1>14 DEF Inv

-----------------------------------------------------------------------------
(* The theorems. *)

LEMMA NextKeeps == Inv /\ [Next]_vars => Inv'
<1> SUFFICES ASSUME Inv, [Next]_vars PROVE Inv'
  OBVIOUS
<1>1. CASE UNCHANGED vars
  BY <1>1 DEF vars, walletVars, fieldVars, ctrVars, history, Inv, TypeOK, ListMatchesMap,
              DefaultAgrees, ControllersAgree, OwnEntries, LabelsFound, Members
<1>2. ASSUME NEW o \in Identity, NEW c \in Offered[o], NewController(o, c) PROVE Inv'
  <2>1. c \in Controllers
    BY IdentitiesAssumption
  <2> QED BY <1>2, <2>1, NewControllerKeeps
<1> QED BY <1>1, <1>2, NewIdentityKeeps, AddAgainKeeps, DeleteIdentityKeeps,
           SetDefaultIdentityKeeps, SetIdentityLabelKeeps, DeleteControllerDataKeeps,
           SaveAndOpenKeeps DEF Next

LEMMA Invariance == Spec => []Inv
BY Initially, NextKeeps, PTL DEF Spec

\* Every variable keeps its type, and the default identity stays one of the
\* wallet's, through all operations, Saves and OpenWallets.
THEOREM TypeCorrect == Spec => []TypeOK
BY Invariance, PTL DEF Inv

\* What identityMap finds is in the list, the last of its ID; and an ID that was
\* never added when the list had it is there once, and found (AddIdentity,
\* DeleteIdentity, OpenWallet).
THEOREM ListHolds == Spec => []ListMatchesMap
BY Invariance, PTL DEF Inv

\* A wallet with identities has a default one, and no other is flagged, in the
\* wallet or out of it (AddIdentity, SetDefaultIdentity, DeleteIdentity).
THEOREM DefaultHolds == Spec => []DefaultAgrees
BY Invariance, PTL DEF Inv

\* A controller is the same by index, ID or key, however often controllers were
\* added, deleted, saved and opened (AddControllerData, DeleteControllerData,
\* NewIdentityFromIdentityData).
THEOREM ControllersHold == Spec => []ControllersAgree
BY Invariance, PTL DEF Inv

\* As long as no identity was added with a label, or with an ID the list had, a
\* label finds its identity and OpenWallet accepts what Save would write
\* (SetIdentityLabel, OpenWallet).
THEOREM LabelHolds == Spec => []LabelFindsIdentity
<1>1. Inv => LabelFindsIdentity
  BY SavedOpens DEF Inv, LabelsFound, LabelFindsIdentity
<1> QED BY <1>1, Invariance, PTL
=============================================================================
