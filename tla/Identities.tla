----------------------------- MODULE Identities -----------------------------
(***************************************************************************)
(* The identities of a wallet (wallet.go) and their controllers            *)
(* (identity.go), in memory and over a Save and an OpenWallet, which are   *)
(* one step here: WalletFile has the steps they are made of.  A call that  *)
(* returns an error changes nothing and is no action.  The controllers'    *)
(* operations take no lock: their callers are taken one at a time.         *)
(***************************************************************************)
EXTENDS Integers, FiniteSets, SequencesExt

CONSTANTS
    Identity,     \* identity objects
    Ids, Id,      \* their IDs, Id[o]: one ID may be that of several objects
    Labels,
    Controllers,  \* controller data, made apart from the wallet
    CtrIds, Keys, \* their IDs and public keys
    CtrId, Key,   \* CtrId[c], Key[c]
    First,        \* First[o]: the controller NewIdentity makes for o
    None,         \* no identity, controller or label
    MaxIdentities,\* bound: the length of the list
    Offered       \* Offered[o], bound: the controllers that are added to o

ASSUME IdentitiesAssumption ==
    /\ Id \in [Identity -> Ids]
    /\ CtrId \in [Controllers -> CtrIds] /\ Key \in [Controllers -> Keys]
    /\ First \in [Identity -> Controllers]
    /\ None \notin Identity \cup Labels \cup Controllers
    /\ MaxIdentities \in Nat /\ Offered \in [Identity -> SUBSET Controllers]

VARIABLES
    identities, identityMap, identityLabelMap, defIdentity,
    label, isDefault,                     \* fields of the identity objects
    controllers, ctrsIdMap, ctrsPubMap,
    labelled,     \* history: an identity was added with a label
    again         \* history: IDs added when the list had them already

walletVars == <<identities, identityMap, identityLabelMap, defIdentity>>
fieldVars == <<label, isDefault>>
ctrVars == <<controllers, ctrsIdMap, ctrsPubMap>>
history == <<labelled, again>>
vars == <<walletVars, fieldVars, ctrVars, history>>

NoCtrs == [i \in CtrIds |-> None]
NoKeys == [k \in Keys |-> None]

Init ==
    /\ identities = <<>> /\ defIdentity = None
    /\ identityMap = [d \in Ids |-> None]
    /\ identityLabelMap = [l \in Labels |-> None]
    /\ label = [o \in Identity |-> None]
    /\ isDefault = [o \in Identity |-> FALSE]
    /\ controllers = [o \in Identity |-> <<>>]
    /\ ctrsIdMap = [o \in Identity |-> NoCtrs]
    /\ ctrsPubMap = [o \in Identity |-> NoKeys]
    /\ labelled = FALSE /\ again = {}

\* The wallet's list as a set.
Members == ToSet(identities)

\* The loop of DeleteControllerData, over the controllers' IDs.
WithoutId(s, i) == RemoveFirstMatch(s, LAMBDA c : CtrId[c] = i)

-----------------------------------------------------------------------------
(* Controllers. *)

\* Mutated form: the ID is not looked up.
AddControllerAnyId(o, c) ==
    /\ ctrsPubMap[o][Key[c]] = None
    /\ controllers' = [controllers EXCEPT ![o] = Append(@, c)]
    /\ ctrsIdMap' = [ctrsIdMap EXCEPT ![o][CtrId[c]] = c]
    /\ ctrsPubMap' = [ctrsPubMap EXCEPT ![o][Key[c]] = c]

\* AddControllerData of a controller with the identity's scrypt parameters.
AddControllerData(o, c) ==
    /\ ctrsIdMap[o][CtrId[c]] = None
    /\ ctrsPubMap[o][Key[c]] = None
    /\ controllers' = [controllers EXCEPT ![o] = Append(@, c)]
    /\ ctrsIdMap' = [ctrsIdMap EXCEPT ![o][CtrId[c]] = c]
    /\ ctrsPubMap' = [ctrsPubMap EXCEPT ![o][Key[c]] = c]

\* NewController, or AddControllerData by the application.
NewController(o, c) ==
    /\ AddControllerData(o, c)
    /\ UNCHANGED <<walletVars, fieldVars, history>>

DeleteControllerData(o, i) ==
    LET c == ctrsIdMap[o][i] IN
    /\ c # None
    /\ controllers' = [controllers EXCEPT ![o] = WithoutId(@, i)]
    /\ ctrsIdMap' = [ctrsIdMap EXCEPT ![o][i] = None]
    /\ ctrsPubMap' = [ctrsPubMap EXCEPT ![o][Key[c]] = None]
    /\ UNCHANGED <<walletVars, fieldVars, history>>

-----------------------------------------------------------------------------
(* Identities. *)

\* The first identity becomes the default one.  Neither the identity nor its ID
\* is looked up: one that is there is appended once more.
AddIdentity(o) ==
    /\ Len(identities) < MaxIdentities
    /\ defIdentity = None \/ ~isDefault[o]
    /\ identities' = Append(identities, o)
    /\ identityMap' = [identityMap EXCEPT ![Id[o]] = o]
    /\ defIdentity' = IF defIdentity = None THEN o ELSE defIdentity
    /\ isDefault' = [isDefault EXCEPT ![o] = @ \/ defIdentity = None]
    /\ labelled' = (labelled \/ label[o] # None)
    /\ again' = again \cup {d \in {Id[o]} : \E x \in Members : Id[x] = d}
    /\ UNCHANGED <<identityLabelMap, label>>

\* The ID that is generated is no other object's yet.
NewIdentity(o) ==
    /\ \A x \in Identity : Id[x] = Id[o] =>
          x \notin Members /\ controllers[x] = <<>> /\ label[x] = None
    /\ AddControllerData(o, First[o])
    /\ AddIdentity(o)

\* An identity the application has: of this list, taken out of it, of another
\* wallet, or a second object with the ID of one of these.
AddAgain(o) == AddIdentity(o) /\ UNCHANGED ctrVars

\* The first of the list with the ID is taken out.
WithoutIdentity(d) == RemoveFirstMatch(identities, LAMBDA o : Id[o] = d)

WithoutLabelOf(o) ==
    IF label[o] = None THEN identityLabelMap
    ELSE [identityLabelMap EXCEPT ![label[o]] = None]

\* Mutated form: the default identity can be deleted.
DeleteAnyIdentity(d) ==
    /\ identityMap[d] # None
    /\ identityMap' = [identityMap EXCEPT ![d] = None]
    /\ identityLabelMap' = WithoutLabelOf(identityMap[d])
    /\ identities' = WithoutIdentity(d)
    /\ UNCHANGED <<defIdentity, fieldVars, ctrVars, history>>

\* Mutated form: the list keeps the identity.
DeleteFromMaps(d) ==
    /\ identityMap[d] # None /\ Id[defIdentity] # d
    /\ identityMap' = [identityMap EXCEPT ![d] = None]
    /\ identityLabelMap' = WithoutLabelOf(identityMap[d])
    /\ UNCHANGED <<identities, defIdentity, fieldVars, ctrVars, history>>

\* The object keeps its label.
DeleteIdentity(d) ==
    /\ identityMap[d] # None /\ Id[defIdentity] # d
    /\ identityMap' = [identityMap EXCEPT ![d] = None]
    /\ identityLabelMap' = WithoutLabelOf(identityMap[d])
    /\ identities' = WithoutIdentity(d)
    /\ UNCHANGED <<defIdentity, fieldVars, ctrVars, history>>

\* Mutated form: the old default identity keeps its flag.
SetDefaultKeepsFlag(d) ==
    /\ identityMap[d] # None
    /\ isDefault' = [isDefault EXCEPT ![identityMap[d]] = TRUE]
    /\ defIdentity' = identityMap[d]
    /\ UNCHANGED <<identities, identityMap, identityLabelMap, label, ctrVars, history>>

SetDefaultIdentity(d) ==
    LET o == identityMap[d] IN
    /\ o # None
    /\ isDefault' = [x \in Identity |-> x = o \/ (isDefault[x] /\ x # defIdentity)]
    /\ defIdentity' = o
    /\ UNCHANGED <<identities, identityMap, identityLabelMap, label, ctrVars, history>>

\* A change from one label to another leaves the old one in identityLabelMap.
Relabel(o, l) ==
    /\ label' = [label EXCEPT ![o] = l]
    /\ identityLabelMap' = IF l = None THEN WithoutLabelOf(o)
                           ELSE [identityLabelMap EXCEPT ![l] = o]
    /\ UNCHANGED <<identities, identityMap, defIdentity, isDefault, ctrVars, history>>

\* Mutated form: a label is not looked up.
SetAnyLabel(d, l) ==
    /\ identityMap[d] # None /\ label[identityMap[d]] # l
    /\ Relabel(identityMap[d], l)

SetIdentityLabel(d, l) ==
    /\ identityMap[d] # None /\ label[identityMap[d]] # l
    /\ l # None => identityLabelMap[l] = None
    /\ Relabel(identityMap[d], l)

-----------------------------------------------------------------------------
(* Save and OpenWallet. *)

\* ToIdentityData: the flag is not copied.
ToIdentityData(o) == [id |-> Id[o], label |-> label[o], control |-> controllers[o]]

Data == [i \in DOMAIN identities |-> ToIdentityData(identities[i])]

\* What OpenWallet refuses, controllers that clash included.
Opens(f) ==
    /\ \A i, j \in DOMAIN f : i # j /\ f[i].label # None => f[i].label # f[j].label
    /\ \A i \in DOMAIN f : \A m, n \in DOMAIN f[i].control : m # n =>
          /\ CtrId[f[i].control[m]] # CtrId[f[i].control[n]]
          /\ Key[f[i].control[m]] # Key[f[i].control[n]]

\* A map filled from the controllers of an identity, by f.
MapBy(f, keys, o) ==
    [k \in keys |-> LET S == {c \in ToSet(controllers[o]) : f[c] = k} IN
        IF S = {} THEN None ELSE CHOOSE c \in S : TRUE]

\* A list of objects made from the records, a new one for each.
Objects == {s \in [DOMAIN identities -> Identity] :
    IsInjective(s) /\ \A i \in DOMAIN s : Id[s[i]] = Id[identities[i]]}

\* The identity that the object o of the list s was made of; None for others.
Made(s) == [o \in Identity |->
    IF \E i \in DOMAIN s : s[i] = o
    THEN identities[CHOOSE i \in DOMAIN s : s[i] = o] ELSE None]

\* identityMap from the list s: the last one with an ID stays in it.
LastOf(s) == [d \in Ids |-> LET S == {i \in DOMAIN s : Id[s[i]] = d} IN
    IF S = {} THEN None ELSE s[Max(S)]]

\* Save, and an OpenWallet of what it wrote.  The objects that s names are the
\* opened wallet's, and no other of the old ones is used any more.  No record
\* is flagged: the first identity becomes the default one, without the flag.
\* (What happens between the two is lost and leaves no trace, so nothing does.)
SaveAndOpen == \E s \in Objects : LET made == Made(s) IN
    /\ Opens(Data)
    /\ identities' = s
    /\ identityMap' = LastOf(s)
    /\ defIdentity' = IF s = <<>> THEN None ELSE s[1]
    /\ label' = [o \in Identity |-> IF made[o] = None THEN None ELSE label[made[o]]]
    /\ identityLabelMap' = [l \in Labels |->
          LET S == {o \in ToSet(s) : label'[o] = l} IN
          IF S = {} THEN None ELSE CHOOSE o \in S : TRUE]
    /\ isDefault' = [o \in Identity |-> FALSE]
    /\ controllers' = [o \in Identity |->
          IF made[o] = None THEN <<>> ELSE controllers[made[o]]]
    /\ ctrsIdMap' = [o \in Identity |->
          IF made[o] = None THEN NoCtrs ELSE MapBy(CtrId, CtrIds, made[o])]
    /\ ctrsPubMap' = [o \in Identity |->
          IF made[o] = None THEN NoKeys ELSE MapBy(Key, Keys, made[o])]
    /\ labelled' = FALSE
    /\ again' = {d \in Ids : \E i, j \in DOMAIN s : i # j /\ Id[s[i]] = d /\ Id[s[j]] = d}

-----------------------------------------------------------------------------
Next ==
    \/ \E o \in Identity :
          \/ NewIdentity(o) \/ AddAgain(o)
          \/ \E c \in Offered[o] : NewController(o, c)
          \/ \E i \in CtrIds : DeleteControllerData(o, i)
    \/ \E d \in Ids :
          \/ DeleteIdentity(d) \/ SetDefaultIdentity(d)
          \/ \E l \in Labels \cup {None} : SetIdentityLabel(d, l)
    \/ SaveAndOpen

Spec == Init /\ [][Next]_vars

-----------------------------------------------------------------------------
(* Properties. *)

\* Besides the types: the default identity is one of the wallet's.
TypeOK ==
    /\ identities \in Seq(Identity)
    /\ identityMap \in [Ids -> Identity \cup {None}]
    /\ identityLabelMap \in [Labels -> Identity \cup {None}]
    /\ defIdentity \in Members \cup {None}
    /\ label \in [Identity -> Labels \cup {None}]
    /\ isDefault \in [Identity -> BOOLEAN]
    /\ controllers \in [Identity -> Seq(Controllers)]
    /\ ctrsIdMap \in [Identity -> [CtrIds -> Controllers \cup {None}]]
    /\ ctrsPubMap \in [Identity -> [Keys -> Controllers \cup {None}]]
    /\ labelled \in BOOLEAN /\ again \subseteq Ids

\* What GetIdentityById finds GetIdentityByIndex has, the last of its ID; and
\* an ID that was never added when the list had it is there once, and found
\* (AddIdentity, DeleteIdentity, OpenWallet).
ListMatchesMap == \A d \in Ids :
    /\ identityMap[d] # None => \E i \in DOMAIN identities :
          /\ identities[i] = identityMap[d] /\ Id[identities[i]] = d
          /\ \A j \in DOMAIN identities : Id[identities[j]] = d => j <= i
    /\ d \notin again => \A i, j \in DOMAIN identities :
          Id[identities[i]] = d /\ Id[identities[j]] = d =>
             i = j /\ identityMap[d] = identities[i]

\* A wallet with identities has a default one, and no other carries the flag,
\* in the wallet or taken out of it (SetDefaultIdentity, DeleteIdentity).
DefaultAgrees ==
    /\ defIdentity = None <=> identities = <<>>
    /\ \A o \in Identity : isDefault[o] => o = defIdentity

\* An identity's list of controllers and its two maps hold the same ones, so
\* a controller is the same by index, ID or key (AddControllerData,
\* DeleteControllerData, NewIdentityFromIdentityData).
ControllersAgree ==
    \A o \in Identity :
        /\ IsInjective(controllers[o])
        /\ \A c \in Controllers : LET has == c \in ToSet(controllers[o]) IN
              /\ has <=> ctrsIdMap[o][CtrId[c]] = c
              /\ has <=> ctrsPubMap[o][Key[c]] = c

\* A label finds its identity (GetIdentityByLabel), so that no two have one and
\* what Save would write now OpenWallet accepts, as long as no identity was
\* added with a label, which AddIdentity does not put into identityLabelMap, or
\* with an ID that the list already had.
LabelFindsIdentity ==
    ~labelled /\ again = {} =>
       /\ \A o \in Members : label[o] # None => identityLabelMap[label[o]] = o
       /\ Opens(Data)
=============================================================================
