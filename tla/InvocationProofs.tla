-------------------------- MODULE InvocationProofs --------------------------
(***************************************************************************)
(* Proofs about signing, sending and waiting, for any signers, groups,     *)
(* keys and heights: what one signature does to a transaction, what the    *)
(* calls of the SDK have done when they send it, and what the wait for     *)
(* blocks says when it returns true.  And about payloads, for any transfer *)
(* of up to 127 states and no amount of 16: what stands where in the       *)
(* payload, where each reader leaves off, and that all of the transfer is  *)
(* read back.                                                              *)
(***************************************************************************)
EXTENDS Invocation, ListFacts, FiniteSetTheorems

-----------------------------------------------------------------------------
(* One signature. *)

Payers == Addresses \cup {NoPayer}
Signatures == [key : Keys, payer : Payers]
Entries == [keys : KeyLists, m : Nat, data : Seq(Signatures)]
Orders == [signer : Signers, group : Groups \cup {NoPayer}]

\* What holds of a transaction at any time, whoever signs it: the types,
\* OnlyEarlyStale and CountedOnce.
EntryOK(e) == e.data # <<>> /\ \A j \in DOMAIN e.data : e.data[j].key \in KeysIn(e.keys)

TxInv ==
    /\ tx \in [payer : Payers, sigs : Seq(Entries)]
    /\ \A i \in DOMAIN tx.sigs : EntryOK(tx.sigs[i])
    /\ OnlyEarlyStale /\ CountedOnce

\* A signature over t.
Made(k, t) == [key |-> k, payer |-> t.payer]

\* t is tx after a signature, or after one that failed: the payer stays, and
\* there is a new entry, or one more signature, over the payer that t has.
NewEntry(t) ==
    \E K \in KeyLists, m \in Nat, k \in Keys :
       /\ k \in KeysIn(K) /\ \A i \in DOMAIN tx.sigs : tx.sigs[i].keys # K
       /\ t.sigs = Append(tx.sigs, [keys |-> K, m |-> m, data |-> <<Made(k, t)>>])

MoreData(t) ==
    \E i \in DOMAIN tx.sigs, k \in Keys :
       /\ k \in KeysIn(tx.sigs[i].keys) /\ Made(k, t) \notin ToSet(tx.sigs[i].data)
       /\ t.sigs = [tx.sigs EXCEPT ![i].data = Append(@, Made(k, t))]

OneSignature(t) ==
    /\ t = [payer |-> t.payer, sigs |-> t.sigs] /\ t.payer \in Payers
    /\ tx.payer # NoPayer => t.payer = tx.payer
    /\ t.sigs = tx.sigs \/ NewEntry(t) \/ MoreData(t)

\* The list of entries, place by place.
LEMMA SigsList ==
    ASSUME TxInv
    PROVE  /\ tx.payer \in Payers /\ tx.sigs \in Seq(Entries)
           /\ Len(tx.sigs) \in Nat /\ DOMAIN tx.sigs = 1..Len(tx.sigs)
           /\ \A i \in DOMAIN tx.sigs :
                /\ tx.sigs[i] \in Entries
                /\ DOMAIN tx.sigs[i].data = 1..Len(tx.sigs[i].data)
                /\ Len(tx.sigs[i].data) \in Nat
<1>1. tx.payer \in Payers /\ tx.sigs \in Seq(Entries)
  BY DEF TxInv
<1>2. /\ Len(tx.sigs) \in Nat /\ DOMAIN tx.sigs = 1..Len(tx.sigs)
      /\ \A i \in DOMAIN tx.sigs : tx.sigs[i] \in Entries
  BY <1>1, LenProperties, ElementOfSeq
<1>3. ASSUME NEW i \in DOMAIN tx.sigs
      PROVE  /\ DOMAIN tx.sigs[i].data = 1..Len(tx.sigs[i].data)
             /\ Len(tx.sigs[i].data) \in Nat
  <2>1. tx.sigs[i].data \in Seq(Signatures)
    BY <1>2 DEF Entries
  <2> QED BY <2>1, LenProperties
<1> QED BY <1>1, <1>2, <1>3

\* A signature keeps TxInv.
LEMMA SignatureKeeps ==
    ASSUME TxInv, OneSignature(tx')
    PROVE  TxInv'
<1> DEFINE p == tx.payer
           q == tx'.payer
           s == tx.sigs
           u == tx'.sigs
<1>1. /\ tx' = [payer |-> q, sigs |-> u]
      /\ q \in Payers /\ (p # NoPayer => q = p)
  BY DEF OneSignature
<1>2. /\ s \in Seq(Entries) /\ Len(s) \in Nat /\ DOMAIN s = 1..Len(s)
      /\ \A i \in DOMAIN s : /\ s[i] \in Entries
                            /\ DOMAIN s[i].data = 1..Len(s[i].data)
                            /\ Len(s[i].data) \in Nat
  BY SigsList
<1>3. /\ \A i \in DOMAIN s : EntryOK(s[i]) /\ IsInjective(s[i].data)
      /\ \A i, j \in DOMAIN s : s[i].keys = s[j].keys => i = j
      /\ \A i \in DOMAIN s : \A j \in DOMAIN s[i].data : s[i].data[j].payer \in {NoPayer, p}
  BY DEF TxInv, OnlyEarlyStale, CountedOnce
<1>4. \A i \in DOMAIN s : \A j \in DOMAIN s[i].data : s[i].data[j].payer \in {NoPayer, q}
  BY <1>1, <1>3
<1>5. SUFFICES /\ u \in Seq(Entries)
               /\ \A i \in DOMAIN u : /\ EntryOK(u[i]) /\ IsInjective(u[i].data)
                                     /\ \A j \in DOMAIN u[i].data :
                                           u[i].data[j].payer \in {NoPayer, q}
               /\ \A i, j \in DOMAIN u : u[i].keys = u[j].keys => i = j
  <2>1. tx' \in [payer : Payers, sigs : Seq(Entries)]
    BY <1>1, <1>5
  <2> QED BY <1>5, <2>1 DEF TxInv, OnlyEarlyStale, CountedOnce
<1>6. CASE u = s
  BY <1>2, <1>3, <1>4, <1>6
<1>7. CASE NewEntry(tx')
  <2>1. PICK K \in KeyLists, m \in Nat, k \in Keys :
           /\ k \in KeysIn(K) /\ \A i \in DOMAIN s : s[i].keys # K
           /\ u = Append(s, [keys |-> K, m |-> m, data |-> <<Made(k, tx')>>])
    BY <1>7 DEF NewEntry
  <2> DEFINE d == <<Made(k, tx')>>
             e == [keys |-> K, m |-> m, data |-> d]
  <2>2. Made(k, tx') \in Signatures /\ Made(k, tx').key = k /\ Made(k, tx').payer = q
    BY <1>1 DEF Made, Signatures
  <2>3. /\ d \in Seq(Signatures) /\ d # <<>> /\ DOMAIN d = {1} /\ d[1] = Made(k, tx')
        /\ IsInjective(d)
    <3>1. d \in Seq(Signatures) /\ Len(d) = 1 /\ d[1] = Made(k, tx')
      BY <2>2
    <3>2. DOMAIN d = {1}
      BY <3>1, LenProperties
    <3> QED BY <3>1, <3>2, EmptySeq DEF IsInjective
  <2> HIDE DEF d
  <2>4. e \in Entries /\ e.keys = K /\ e.data = d
    BY <2>3 DEF Entries
  <2>5. EntryOK(e) /\ IsInjective(e.data)
    BY <2>1, <2>2, <2>3, <2>4 DEF EntryOK
  <2>6. \A j \in DOMAIN e.data : e.data[j].payer \in {NoPayer, q}
    BY <2>2, <2>3, <2>4
  <2>7. u = Append(s, e)
    BY <2>1 DEF d
  <2> HIDE DEF e
  <2>8. /\ u \in Seq(Entries) /\ Len(u) = Len(s) + 1 /\ DOMAIN u = 1..Len(u)
        /\ \A i \in 1..Len(s) : u[i] = s[i]
        /\ u[Len(s) + 1] = e
    BY <1>2, <2>4, <2>7, AppendProperties, LenProperties
  <2>9. DOMAIN u = DOMAIN s \cup {Len(s) + 1} /\ \A i \in DOMAIN s : u[i] = s[i]
    BY <1>2, <2>8
  <2>10. ASSUME NEW i \in DOMAIN u
         PROVE  /\ EntryOK(u[i]) /\ IsInjective(u[i].data)
                /\ \A j \in DOMAIN u[i].data : u[i].data[j].payer \in {NoPayer, q}
    BY <1>3, <1>4, <2>5, <2>6, <2>8, <2>9
  <2>11. \A i, j \in DOMAIN u : u[i].keys = u[j].keys => i = j
    BY <1>3, <2>1, <2>4, <2>8, <2>9
  <2> QED BY <2>8, <2>10, <2>11
<1>8. CASE MoreData(tx')
  <2>1. PICK n \in DOMAIN s, k \in Keys :
           /\ k \in KeysIn(s[n].keys) /\ Made(k, tx') \notin ToSet(s[n].data)
           /\ u = [s EXCEPT ![n].data = Append(@, Made(k, tx'))]
    BY <1>8 DEF MoreData
  <2> DEFINE x == Made(k, tx')
             d == Append(s[n].data, x)
             e == [s[n] EXCEPT !.data = d]
  <2>2. x \in Signatures /\ x.key = k /\ x.payer = q
    BY <1>1 DEF Made, Signatures
  <2>3. s[n].data \in Seq(Signatures) /\ IsInjective(s[n].data) /\ s[n] \in Entries
    BY <1>2, <1>3 DEF Entries
  <2>4. /\ d \in Seq(Signatures) /\ IsInjective(d)
        /\ ToSet(d) = ToSet(s[n].data) \cup {x}
    BY <2>1, <2>2, <2>3, Appended
  <2> HIDE DEF d, x
  <2>5. e \in Entries /\ e.keys = s[n].keys /\ e.data = d
    BY <2>3, <2>4 DEF Entries
  <2>6. \A y \in ToSet(d) : y.key \in KeysIn(e.keys) /\ y.payer \in {NoPayer, q}
    <3>1. \A y \in ToSet(s[n].data) : y.key \in KeysIn(s[n].keys) /\ y.payer \in {NoPayer, q}
      BY <1>3, <1>4 DEF EntryOK, ToSet
    <3> QED BY <2>1, <2>2, <2>4, <2>5, <3>1
  <2>7. d # <<>>
    BY <2>4, Elements
  <2>8. /\ EntryOK(e) /\ IsInjective(e.data)
        /\ \A j \in DOMAIN e.data : e.data[j].payer \in {NoPayer, q}
    BY <2>4, <2>5, <2>6, <2>7 DEF EntryOK, ToSet
  <2>9. u = [s EXCEPT ![n] = e]
    BY <2>1 DEF d, x
  <2> HIDE DEF e
  <2>10. u \in Seq(Entries) /\ DOMAIN u = DOMAIN s
         /\ \A i \in DOMAIN s : u[i] = IF i = n THEN e ELSE s[i]
    BY <1>2, <2>5, <2>9, ExceptSeq
  <2> QED BY <1>2, <1>3, <1>4, <2>5, <2>8, <2>10
<1> QED BY <1>6, <1>7, <1>8 DEF OneSignature

LEMMA NoTxInv == ASSUME tx' = NoTx PROVE TxInv'
<1>1. <<>> \in Seq(Entries) /\ DOMAIN <<>> = {}
  BY EmptySeq
<1>2. tx'.sigs = <<>> /\ tx' \in [payer : Payers, sigs : Seq(Entries)]
  BY <1>1 DEF NoTx, Payers
<1> QED BY <1>1, <1>2 DEF TxInv, OnlyEarlyStale, CountedOnce

LEMMA OneKeyList ==
    ASSUME NEW k \in Keys
    PROVE  OneKey(k) \in KeyLists /\ KeysIn(OneKey(k)) = {k}
BY DEF OneKey, KeyLists, KeysIn

LEMMA SignedIsOne ==
    ASSUME TxInv, NEW s \in Signers
    PROVE  OneSignature(Signed(s))
<1> DEFINE t == Signed(s)
           k == KeyOf[s]
<1>1. k \in Keys /\ OneKey(k) \in KeyLists /\ k \in KeysIn(OneKey(k))
  BY SignersAssumption, OneKeyList
<1>2. t = [payer |-> t.payer, sigs |-> t.sigs] /\ t.payer = PayerAfterSign(s)
  BY DEF Signed
<1>3. t.payer \in Payers /\ (tx.payer # NoPayer => t.payer = tx.payer)
  <2>1. AddressOf(s) \in Addresses
    BY <1>1 DEF AddressOf, Addresses
  <2> QED BY <1>2, <2>1, SigsList DEF PayerAfterSign, Payers
<1>4. CASE EntryOf(OneKey(k)) # {}
  <2>1. t.sigs = tx.sigs
    BY <1>4 DEF Signed
  <2> QED BY <1>2, <1>3, <2>1 DEF OneSignature
<1>5. CASE EntryOf(OneKey(k)) = {}
  <2>1. t.sigs = Append(tx.sigs, [keys |-> OneKey(k), m |-> 1, data |-> <<Made(k, t)>>])
    BY <1>5 DEF Signed, Signature, Made
  <2>2. \A i \in DOMAIN tx.sigs : tx.sigs[i].keys # OneKey(k)
    BY <1>5 DEF EntryOf
  <2> HIDE DEF t, k
  <2>3. NewEntry(t)
    BY <1>1, <2>1, <2>2 DEF NewEntry
  <2> QED BY <1>2, <1>3, <2>3 DEF OneSignature, t
<1> QED BY <1>4, <1>5

\* The entry of a group is the only one with its keys.
LEMMA EntryIsOne ==
    ASSUME TxInv, NEW K, EntryOf(K) # {}
    PROVE  \E i \in DOMAIN tx.sigs : /\ tx.sigs[i].keys = K
                                     /\ EntryOf(K) = {i} /\ Min(EntryOf(K)) = i
<1>1. PICK i \in DOMAIN tx.sigs : tx.sigs[i].keys = K
  BY DEF EntryOf
<1>2. EntryOf(K) = {i}
  BY <1>1 DEF EntryOf, TxInv, CountedOnce
<1>3. i \in Nat
  BY SigsList
<1>4. Min({i}) = i
  BY <1>3 DEF Min
<1> QED BY <1>1, <1>2, <1>4

LEMMA MultiSignedIsOne ==
    ASSUME TxInv, NEW g \in Groups, NEW s \in Signers, MayMultiSign(g, s)
    PROVE  OneSignature(MultiSigned(g, s))
<1> DEFINE t == MultiSigned(g, s)
           k == KeyOf[s]
<1>1. k \in Keys /\ k \in KeysIn(g.keys) /\ g.keys \in KeyLists /\ g.m \in Nat /\ g \in Addresses
  BY SignersAssumption, GroupsAssumption DEF MayMultiSign, Addresses
<1>2. t = [payer |-> t.payer, sigs |-> t.sigs] /\ t.payer = PayerAfterMultiSign(g)
  BY DEF MultiSigned
<1>3. t.payer \in Payers /\ (tx.payer # NoPayer => t.payer = tx.payer)
  BY <1>1, <1>2, SigsList DEF PayerAfterMultiSign, Payers
<1>4. CASE EntryOf(g.keys) = {}
  <2>1. t.sigs = Append(tx.sigs, [keys |-> g.keys, m |-> g.m, data |-> <<Made(k, t)>>])
    BY <1>4 DEF MultiSigned, Signature, Made
  <2>2. \A i \in DOMAIN tx.sigs : tx.sigs[i].keys # g.keys
    BY <1>4 DEF EntryOf
  <2> HIDE DEF t, k
  <2>3. NewEntry(t)
    BY <1>1, <2>1, <2>2 DEF NewEntry
  <2> QED BY <1>2, <1>3, <2>3 DEF OneSignature, t
<1>5. CASE EntryOf(g.keys) # {}
  <2>1. PICK i \in DOMAIN tx.sigs : /\ tx.sigs[i].keys = g.keys
                                    /\ Min(EntryOf(g.keys)) = i
    BY <1>5, EntryIsOne
  <2>2. CASE HasAlreadySig(tx.sigs[i].data, s, t.payer)
    <3>1. t.sigs = tx.sigs
      BY <1>2, <1>5, <2>1, <2>2 DEF MultiSigned
    <3> QED BY <1>2, <1>3, <3>1 DEF OneSignature
  <2>3. CASE ~HasAlreadySig(tx.sigs[i].data, s, t.payer)
    <3>1. t.sigs = [tx.sigs EXCEPT ![i].data = Append(@, Made(k, t))]
      BY <1>2, <1>5, <2>1, <2>3 DEF MultiSigned, Signature, Made
    <3>2. Made(k, t) \notin ToSet(tx.sigs[i].data)
      BY <2>3, SigsList DEF HasAlreadySig, Contains, Made, ToSet
    <3> HIDE DEF t, k
    <3>3. MoreData(t)
      BY <1>1, <2>1, <3>1, <3>2 DEF MoreData
    <3> QED BY <1>2, <1>3, <3>3 DEF OneSignature, t
  <2> QED BY <2>2, <2>3
<1> QED BY <1>4, <1>5

\* A failed signature leaves a payer, at most.
LEMMA FailsIsOne ==
    ASSUME TxInv,
           \/ \E s \in Signers : SignFails(s)
           \/ \E g \in Groups, s \in Signers : MultiSignFails(g, s)
    PROVE  OneSignature(tx')
<1>1. \E p \in Payers : /\ tx' = [tx EXCEPT !.payer = p]
                        /\ tx.payer # NoPayer => p = tx.payer
  <2>1. ASSUME NEW s \in Signers, SignFails(s)
        PROVE  \E p \in Payers : tx' = [tx EXCEPT !.payer = p] /\ (tx.payer # NoPayer => p = tx.payer)
    <3>1. AddressOf(s) \in Addresses
      BY SignersAssumption, OneKeyList DEF AddressOf, Addresses
    <3>2. PayerAfterSign(s) \in Payers /\ (tx.payer # NoPayer => PayerAfterSign(s) = tx.payer)
      BY <3>1, SigsList DEF PayerAfterSign, Payers
    <3> QED BY <2>1, <3>2 DEF SignFails
  <2>2. ASSUME NEW g \in Groups, NEW s \in Signers, MultiSignFails(g, s)
        PROVE  \E p \in Payers : tx' = [tx EXCEPT !.payer = p] /\ (tx.payer # NoPayer => p = tx.payer)
    <3>1. PayerAfterMultiSign(g) \in Payers /\ (tx.payer # NoPayer => PayerAfterMultiSign(g) = tx.payer)
      BY GroupsAssumption, SigsList DEF PayerAfterMultiSign, Payers
    <3> QED BY <2>2, <3>1 DEF MultiSignFails
  <2> QED BY <2>1, <2>2
<1>2. tx = [payer |-> tx.payer, sigs |-> tx.sigs]
  BY DEF TxInv
<1> QED BY <1>1, <1>2 DEF OneSignature

-----------------------------------------------------------------------------
(* The calls of the SDK.  They sign in one of two ways; in both, what has   *)
(* been signed so far is over the transaction as it is.                     *)

AllNow ==
    \A i \in DOMAIN tx.sigs : \A j \in DOMAIN tx.sigs[i].data : tx.sigs[i].data[j].payer = tx.payer

\* Each signer has an entry of its own, and the first one, an account, pays.
ByEach ==
    /\ \A x \in ToSet(todo) : x.group = NoPayer
    /\ \/ tx = NoTx /\ todo # <<>> /\ Head(todo).signer \in Accounts
       \/ /\ AllNow /\ tx.payer # NoPayer
          /\ \A i \in DOMAIN tx.sigs : tx.sigs[i].m = 1
          /\ \E i \in DOMAIN tx.sigs : tx.payer = [keys |-> tx.sigs[i].keys, m |-> tx.sigs[i].m]

TodoKeys == {KeyOf[x.signer] : x \in ToSet(todo)}
DoneKeys == {x.key : x \in ToSet(tx.sigs[1].data)}

\* The signers share the entry of group g, which pays: whoever has not signed
\* has still to.
ByGroup(g) ==
    /\ \A x \in ToSet(todo) : x.group = g
    /\ g.keys # {}
    /\ \/ tx = NoTx /\ TodoKeys = KeysIn(g.keys)
       \/ /\ AllNow /\ tx.payer = g /\ g.m <= Cardinality(g.keys)
          /\ DOMAIN tx.sigs = {1} /\ tx.sigs[1].keys = g.keys /\ tx.sigs[1].m = g.m
          /\ TodoKeys \cup DoneKeys = KeysIn(g.keys)

Ways == ByEach \/ \E g \in Groups : ByGroup(g)

CallInv ==
    /\ stage \in {"none", "signing", "sent", "executed"}
    /\ call \in {"none", "application", "invoke", "unsigned", "preexec"}
    /\ todo \in Seq(Orders)
    /\ stage = "sent" => todo = <<>>
    /\ stage \in {"signing", "sent"} /\ call = "invoke" => Ways

\* Lists of one and two signatures.
LEMMA ShortLists ==
    ASSUME NEW S, NEW x \in S, NEW y \in S
    PROVE  /\ <<x>> \in Seq(S) /\ <<x>> # <<>> /\ Head(<<x>>) = x /\ ToSet(<<x>>) = {x}
           /\ <<x, y>> \in Seq(S) /\ <<x, y>> # <<>> /\ Head(<<x, y>>) = x
           /\ ToSet(<<x, y>>) = {x, y}
<1>1. <<x>> \in Seq(S) /\ Len(<<x>>) = 1 /\ <<x>>[1] = x /\ <<x>> # <<>> /\ Head(<<x>>) = x
  OBVIOUS
<1>2. /\ <<x, y>> \in Seq(S) /\ Len(<<x, y>>) = 2
      /\ <<x, y>>[1] = x /\ <<x, y>>[2] = y /\ <<x, y>> # <<>> /\ Head(<<x, y>>) = x
  OBVIOUS
<1>3. ToSet(<<x>>) = {<<x>>[i] : i \in 1..1}
  BY <1>1, Elements
<1>4. ToSet(<<x, y>>) = {<<x, y>>[i] : i \in 1..2}
  BY <1>2, Elements
<1>5. 1..1 = {1} /\ 1..2 = {1, 2}
  OBVIOUS
<1> QED BY <1>1, <1>2, <1>3, <1>4, <1>5

\* A list made place by place of another one.
LEMMA MappedList ==
    ASSUME NEW S, NEW s \in Seq(S), NEW T, NEW f \in [S -> T],
           NEW t, t = [i \in DOMAIN s |-> f[s[i]]]
    PROVE  /\ t \in Seq(T) /\ ToSet(t) = {f[x] : x \in ToSet(s)}
           /\ s # <<>> => t # <<>> /\ Head(t) = f[s[1]] /\ s[1] \in S
<1>1. Len(s) \in Nat /\ DOMAIN s = 1..Len(s) /\ \A i \in 1..Len(s) : s[i] \in S
  BY LenProperties, ElementOfSeq
<1>2. t \in [1..Len(s) -> T]
  BY <1>1
<1>3. t \in Seq(T)
  BY <1>1, <1>2, SeqDef
<1>4. Len(t) \in Nat /\ DOMAIN t = 1..Len(t)
  BY <1>3, LenProperties
<1>5. Len(t) = Len(s)
  BY <1>1, <1>2, <1>4
<1>6. ToSet(t) = {f[x] : x \in ToSet(s)}
  BY <1>1, <1>2 DEF ToSet
<1>7. ASSUME s # <<>> PROVE t # <<>> /\ Head(t) = f[s[1]] /\ s[1] \in S
  <2>1. 1 \in 1..Len(s)
    BY <1>1, <1>7, EmptySeq
  <2>2. t # <<>>
    BY <1>3, <1>5, <2>1, EmptySeq
  <2>3. Head(t) = t[1]
    BY <1>3, <2>2, HeadTailProperties
  <2> QED BY <1>1, <2>1, <2>2, <2>3
<1> QED BY <1>3, <1>6, <1>7

\* The signatures a call has to make.
LEMMA OrdersOfOne ==
    ASSUME NEW s \in Signers
    PROVE  Single(s) \in Orders /\ Single(s).group = NoPayer /\ Single(s).signer = s
BY DEF Single, Orders

\* What every call starts with: a new transaction.
LEMMA BeginKeeps ==
    ASSUME NEW w \in {"invoke", "unsigned", "preexec"}, NEW l \in Seq(Orders), Begin(w, l),
           w = "invoke" => Ways'
    PROVE  TxInv' /\ CallInv'
BY NoTxInv DEF Begin, CallInv

LEMMA EachBegins ==
    ASSUME NEW l \in Seq(Orders), l # <<>>, Head(l).signer \in Accounts,
           \A x \in ToSet(l) : x.group = NoPayer, Begin("invoke", l)
    PROVE  TxInv' /\ CallInv'
<1>1. Ways'
  BY DEF Begin, Ways, ByEach
<1> QED BY <1>1, BeginKeeps

LEMMA BeginsKeep ==
    ASSUME InvokeContract \/ InvokeOntId \/ VerifySignature \/ TransferMulti \/ MultiSignCall
    PROVE  TxInv' /\ CallInv'
<1> USE DEF Signers
<1>1. CASE InvokeContract
  <2>1. PICK a \in Accounts : Begin("invoke", <<Single(a)>>)
    BY <1>1 DEF InvokeContract
  <2> DEFINE l == <<Single(a)>>
  <2>2. /\ l \in Seq(Orders) /\ l # <<>> /\ Head(l).signer \in Accounts
        /\ \A x \in ToSet(l) : x.group = NoPayer
    <3>1. Single(a) \in Orders
      BY OrdersOfOne
    <3>2. l \in Seq(Orders) /\ l # <<>> /\ Head(l) = Single(a) /\ ToSet(l) = {Single(a)}
      BY <3>1, ShortLists
    <3> HIDE DEF l
    <3> QED BY <3>2, OrdersOfOne
  <2>3. Begin("invoke", l)
    BY <2>1
  <2> HIDE DEF l
  <2> QED BY <2>2, <2>3, EachBegins
<1>2. CASE InvokeOntId
  <2>1. PICK a \in Accounts, c \in Controllers : Begin("invoke", <<Single(a), Single(c)>>)
    BY <1>2 DEF InvokeOntId
  <2>2. Single(a) \in Orders /\ Single(c) \in Orders
    BY OrdersOfOne
  <2> DEFINE l == <<Single(a), Single(c)>>
  <2>3. /\ l \in Seq(Orders) /\ l # <<>> /\ Head(l).signer \in Accounts
        /\ \A x \in ToSet(l) : x.group = NoPayer
    <3>1. /\ l \in Seq(Orders) /\ l # <<>> /\ Head(l) = Single(a)
          /\ ToSet(l) = {Single(a), Single(c)}
      BY <2>2, ShortLists
    <3> HIDE DEF l
    <3> QED BY <3>1, OrdersOfOne
  <2>4. Begin("invoke", l)
    BY <2>1
  <2> HIDE DEF l
  <2> QED BY <2>3, <2>4, EachBegins
<1>3. CASE VerifySignature
  <2>1. PICK c \in Controllers : Begin("preexec", <<Single(c)>>)
    BY <1>3 DEF VerifySignature
  <2>2. <<Single(c)>> \in Seq(Orders)
    BY OrdersOfOne, ShortLists
  <2> QED BY <2>1, <2>2, BeginKeeps
<1>4. CASE TransferMulti
  <2>1. PICK froms \in SeqOf(Accounts, MaxFroms) :
           Begin(IF froms = <<>> THEN "unsigned" ELSE "invoke",
                 [i \in DOMAIN froms |-> Single(froms[i])])
    BY <1>4 DEF TransferMulti
  <2>2. froms \in Seq(Accounts)
    BY SeqDef, BoundsAssumption DEF SeqOf
  <2> DEFINE f == [a \in Accounts |-> Single(a)]
             l == [i \in DOMAIN froms |-> f[froms[i]]]
  <2>3. f \in [Accounts -> Orders] /\ \A a \in Accounts : f[a] = Single(a)
    BY OrdersOfOne
  <2>4. \A i \in DOMAIN froms : froms[i] \in Accounts
    BY <2>2, LenProperties, ElementOfSeq
  <2>5. l = [i \in DOMAIN froms |-> Single(froms[i])]
    BY <2>4
  <2>6. l = [i \in DOMAIN froms |-> f[froms[i]]]
    OBVIOUS
  <2> HIDE DEF l, f
  <2>7. /\ l \in Seq(Orders) /\ ToSet(l) = {f[x] : x \in ToSet(froms)}
        /\ froms # <<>> => l # <<>> /\ Head(l) = f[froms[1]] /\ froms[1] \in Accounts
    BY <2>2, <2>3, <2>6, MappedList
  <2>8. ToSet(froms) \subseteq Accounts
    BY <2>2, Elements
  <2>9. CASE froms = <<>>
    <3>1. Begin("unsigned", l)
      BY <2>1, <2>5, <2>9
    <3> QED BY <2>7, <3>1, BeginKeeps
  <2>10. CASE froms # <<>>
    <3>1. Begin("invoke", l)
      BY <2>1, <2>5, <2>10
    <3>2. /\ \A x \in ToSet(l) : x.group = NoPayer
          /\ Head(l).signer \in Accounts
      BY <2>3, <2>7, <2>8, <2>10, OrdersOfOne
    <3> QED BY <2>7, <2>10, <3>1, <3>2, EachBegins
  <2> QED BY <2>9, <2>10
<1>5. CASE MultiSignCall
  <2>1. PICK g \in Groups, froms \in SeqOf(Accounts, MaxFroms) :
           /\ KeyList(froms) = g.keys /\ HasAddress(g)
           /\ Begin("invoke", [i \in DOMAIN froms |-> [signer |-> froms[i], group |-> g]])
    BY <1>5 DEF MultiSignCall
  <2>2. froms \in Seq(Accounts)
    BY SeqDef, BoundsAssumption DEF SeqOf
  <2>3. g.keys # {}
    BY <2>1, FS_EmptySet DEF HasAddress
  <2>4. KeysIn(g.keys) = {KeyOf[a] : a \in ToSet(froms)}
    <3> DEFINE place(i) == Cardinality({j \in 1..i : KeyOf[froms[j]] = KeyOf[froms[i]]})
    <3>1. g.keys = {<<KeyOf[froms[i]], place(i)>> : i \in DOMAIN froms}
      BY <2>1 DEF KeyList
    <3> HIDE DEF place
    <3>2. ASSUME NEW i \in DOMAIN froms PROVE KeyOf[froms[i]] \in KeysIn(g.keys)
      <4>1. <<KeyOf[froms[i]], place(i)>> \in g.keys
        BY <3>1
      <4>2. <<KeyOf[froms[i]], place(i)>>[1] = KeyOf[froms[i]]
        OBVIOUS
      <4> QED BY <4>1, <4>2 DEF KeysIn
    <3>3. ASSUME NEW k \in KeysIn(g.keys) PROVE \E i \in DOMAIN froms : k = KeyOf[froms[i]]
      <4>1. PICK p \in g.keys : k = p[1]
        BY DEF KeysIn
      <4>2. PICK i \in DOMAIN froms : p = <<KeyOf[froms[i]], place(i)>>
        BY <3>1, <4>1
      <4> QED BY <4>1, <4>2
    <3> QED BY <3>2, <3>3 DEF ToSet
  <2> DEFINE f == [a \in Accounts |-> [signer |-> a, group |-> g]]
             l == [i \in DOMAIN froms |-> f[froms[i]]]
  <2>5. /\ f \in [Accounts -> Orders]
        /\ \A a \in Accounts : f[a].signer = a /\ f[a].group = g
    BY DEF Orders
  <2>6. \A i \in DOMAIN froms : froms[i] \in Accounts
    BY <2>2, LenProperties, ElementOfSeq
  <2>7. l = [i \in DOMAIN froms |-> [signer |-> froms[i], group |-> g]]
    BY <2>6
  <2>8. l = [i \in DOMAIN froms |-> f[froms[i]]]
    OBVIOUS
  <2> HIDE DEF l, f
  <2>9. l \in Seq(Orders) /\ ToSet(l) = {f[x] : x \in ToSet(froms)}
    <3>1. f \in [Accounts -> Orders]
      BY <2>5
    <3> QED BY ONLY <2>2, <2>8, <3>1, MappedList
  <2>10. ToSet(froms) \subseteq Accounts
    BY <2>2, Elements
  <2>11. tx' = NoTx /\ todo' = l
    BY <2>1, <2>7 DEF Begin
  <2>12. \A x \in ToSet(l) : x.group = g
    BY <2>5, <2>9, <2>10
  <2>13. {KeyOf[x.signer] : x \in ToSet(l)} = KeysIn(g.keys)
    BY <2>4, <2>5, <2>9, <2>10
  <2>14. ByGroup(g)'
    BY <2>3, <2>11, <2>12, <2>13 DEF ByGroup, TodoKeys
  <2>15. Ways'
    BY <2>14 DEF Ways
  <2> QED BY <2>1, <2>7, <2>9, <2>15, BeginKeeps
<1> QED BY <1>1, <1>2, <1>3, <1>4, <1>5

\* The list of the signatures to make, without its head.
LEMMA TodoList ==
    ASSUME CallInv, todo # <<>>
    PROVE  /\ Head(todo) \in Orders /\ Head(todo) \in ToSet(todo)
           /\ Tail(todo) \in Seq(Orders)
           /\ ToSet(todo) = {Head(todo)} \cup ToSet(Tail(todo))
<1> DEFINE h == Head(todo)
           t == Tail(todo)
<1>1. todo \in Seq(Orders)
  BY DEF CallInv
<1>2. /\ h = todo[1] /\ t \in Seq(Orders) /\ Len(t) = Len(todo) - 1
      /\ \A i \in 1..Len(t) : t[i] = todo[i + 1]
      /\ Len(todo) \in Nat \ {0}
  BY <1>1, HeadTailProperties, EmptySeq, LenProperties
<1>3. ToSet(todo) = {todo[i] : i \in 1..Len(todo)} /\ ToSet(t) = {t[i] : i \in 1..Len(t)}
  BY <1>1, <1>2, Elements
<1>4. h \in ToSet(todo) /\ h \in Orders
  BY <1>1, <1>2, <1>3, Elements
<1> HIDE DEF h, t
<1>5. ToSet(t) \subseteq ToSet(todo)
  BY <1>2, <1>3
<1>6. ASSUME NEW i \in 1..Len(todo), i # 1 PROVE todo[i] \in ToSet(t)
  <2>1. i - 1 \in 1..Len(t) /\ (i - 1) + 1 = i
    BY <1>2, <1>6
  <2> QED BY <1>2, <1>3, <2>1
<1> QED BY <1>2, <1>3, <1>4, <1>5, <1>6 DEF h, t

\* The transaction after its first signature.
LEMMA FirstSignature ==
    ASSUME NEW e, tx.sigs = <<>>, tx'.sigs = Append(tx.sigs, e)
    PROVE  DOMAIN tx'.sigs = {1} /\ tx'.sigs[1] = e
<1>1. tx'.sigs = <<e>>
  OBVIOUS
<1> QED BY <1>1

\* A signature by a signer with an entry of its own.
LEMMA EachSigns ==
    ASSUME TxInv, ByEach, NEW s \in Signers, tx' = Signed(s),
           tx = NoTx => s \in Accounts,
           ToSet(todo') \subseteq ToSet(todo)
    PROVE  ByEach'
<1> DEFINE k == KeyOf[s]
           p == PayerAfterSign(s)
           e == [keys |-> OneKey(k), m |-> 1, data |-> <<Signature(s, p)>>]
<1>1. \A x \in ToSet(todo') : x.group = NoPayer
  BY DEF ByEach
<1>2. /\ DOMAIN e.data = {1} /\ e.data[1].payer = p /\ e.keys = OneKey(k) /\ e.m = 1
  BY DEF Signature
<1>3. tx'.payer = p
  BY DEF Signed
<1>4. CASE tx = NoTx
  <2>1. tx.sigs = <<>> /\ tx.payer = NoPayer
    BY <1>4 DEF NoTx
  <2>2. p = AddressOf(s) /\ p = [keys |-> e.keys, m |-> e.m]
    BY <1>4, <2>1 DEF PayerAfterSign, AddressOf
  <2>3. p # NoPayer
    <3>1. p \in Addresses
      BY <2>2, SignersAssumption, OneKeyList DEF AddressOf, Addresses
    <3> QED BY <3>1, GroupsAssumption
  <2>4. tx'.sigs = Append(tx.sigs, e)
    <3>1. EntryOf(OneKey(k)) = {}
      BY <2>1 DEF EntryOf
    <3> QED BY <3>1 DEF Signed
  <2> HIDE DEF e, p
  <2>5. DOMAIN tx'.sigs = {1} /\ tx'.sigs[1] = e
    BY <2>1, <2>4, FirstSignature
  <2>6. AllNow'
    BY <1>2, <1>3, <2>5 DEF AllNow
  <2> QED BY <1>1, <1>2, <1>3, <2>2, <2>3, <2>5, <2>6 DEF ByEach
<1>5. CASE tx # NoTx
  <2>1. /\ AllNow /\ tx.payer # NoPayer
        /\ \A i \in DOMAIN tx.sigs : tx.sigs[i].m = 1
        /\ \E i \in DOMAIN tx.sigs : tx.payer = [keys |-> tx.sigs[i].keys, m |-> tx.sigs[i].m]
    BY <1>5 DEF ByEach
  <2>2. tx'.payer = tx.payer /\ p = tx.payer
    BY <1>3, <2>1 DEF PayerAfterSign
  <2>3. CASE EntryOf(OneKey(k)) # {}
    <3>1. tx'.sigs = tx.sigs
      BY <2>3 DEF Signed
    <3>2. AllNow'
      BY <2>1, <2>2, <3>1 DEF AllNow
    <3> QED BY <1>1, <2>1, <2>2, <3>1, <3>2 DEF ByEach
  <2>4. CASE EntryOf(OneKey(k)) = {}
    <3>1. tx'.sigs = Append(tx.sigs, e)
      BY <2>4 DEF Signed
    <3>2. e \in Entries
      <4>1. Signature(s, p) \in Signatures
        BY <2>2, SignersAssumption, SigsList DEF Signature, Signatures
      <4> QED BY <4>1, SignersAssumption, OneKeyList DEF Entries
    <3> HIDE DEF e, p
    <3>3. /\ DOMAIN tx'.sigs = 1..Len(tx.sigs) + 1 /\ tx'.sigs[Len(tx.sigs) + 1] = e
          /\ \A i \in 1..Len(tx.sigs) : tx'.sigs[i] = tx.sigs[i]
      BY <3>1, <3>2, SigsList, AppendProperties, LenProperties
    <3>4. /\ DOMAIN tx'.sigs = DOMAIN tx.sigs \cup {Len(tx.sigs) + 1}
          /\ \A i \in DOMAIN tx.sigs : tx'.sigs[i] = tx.sigs[i]
      BY <3>3, SigsList
    <3>5. AllNow'
      <4> SUFFICES ASSUME NEW i \in DOMAIN tx'.sigs
                   PROVE  \A j \in DOMAIN tx'.sigs[i].data : tx'.sigs[i].data[j].payer = tx'.payer
        BY DEF AllNow
      <4>1. CASE i \in DOMAIN tx.sigs
        BY <2>1, <2>2, <3>4, <4>1 DEF AllNow
      <4>2. CASE i = Len(tx.sigs) + 1
        BY <1>2, <1>3, <3>3, <4>2
      <4> QED BY <3>4, <4>1, <4>2
    <3>6. \A i \in DOMAIN tx'.sigs : tx'.sigs[i].m = 1
      BY <1>2, <2>1, <3>3, <3>4
    <3> QED BY <1>1, <2>1, <2>2, <3>4, <3>5, <3>6 DEF ByEach
  <2> QED BY <2>3, <2>4
<1> QED BY <1>4, <1>5

\* A signature of a group's call.
LEMMA GroupSigns ==
    ASSUME TxInv, NEW g \in Groups, ByGroup(g), NEW s \in Signers, MayMultiSign(g, s),
           tx' = MultiSigned(g, s),
           TodoKeys = {KeyOf[s]} \cup TodoKeys',
           ToSet(todo') \subseteq ToSet(todo)
    PROVE  ByGroup(g)'
<1> DEFINE k == KeyOf[s]
           x == [key |-> k, payer |-> g]
           e == [keys |-> g.keys, m |-> g.m, data |-> <<x>>]
<1>1. /\ \A y \in ToSet(todo') : y.group = g
      /\ g.keys # {} /\ g.m <= Cardinality(g.keys)
  BY DEF ByGroup, MayMultiSign
<1>2. g # NoPayer
  BY GroupsAssumption
<1>3. tx'.payer = g
  <2>1. tx.payer \in {NoPayer, g}
    BY DEF ByGroup, NoTx
  <2> QED BY <2>1 DEF MultiSigned, PayerAfterMultiSign
<1>4. tx'.sigs = MultiSigned(g, s).sigs /\ PayerAfterMultiSign(g) = g
  <2>1. tx.payer \in {NoPayer, g}
    BY DEF ByGroup, NoTx
  <2> QED BY <2>1 DEF PayerAfterMultiSign
<1>5. CASE tx = NoTx /\ TodoKeys = KeysIn(g.keys)
  <2>1. tx.sigs = <<>>
    BY <1>5 DEF NoTx
  <2>2. EntryOf(g.keys) = {}
    BY <2>1 DEF EntryOf
  <2>3. tx'.sigs = Append(tx.sigs, e)
    BY <1>4, <2>2 DEF MultiSigned, Signature
  <2>4. DOMAIN e.data = {1} /\ e.data[1] = x /\ e.keys = g.keys /\ e.m = g.m
    OBVIOUS
  <2> HIDE DEF e
  <2>5. DOMAIN tx'.sigs = {1} /\ tx'.sigs[1] = e
    BY <2>1, <2>3, FirstSignature
  <2>6. AllNow'
    BY <1>3, <2>4, <2>5 DEF AllNow
  <2>7. DoneKeys' = {k}
    BY <2>4, <2>5 DEF DoneKeys, ToSet
  <2>8. TodoKeys' \cup DoneKeys' = KeysIn(g.keys)
    BY <1>5, <2>7
  <2> QED BY <1>1, <1>3, <2>4, <2>5, <2>6, <2>8 DEF ByGroup
<1>6. CASE ~(tx = NoTx /\ TodoKeys = KeysIn(g.keys))
  <2>1. /\ AllNow /\ tx.payer = g
        /\ DOMAIN tx.sigs = {1} /\ tx.sigs[1].keys = g.keys /\ tx.sigs[1].m = g.m
        /\ TodoKeys \cup DoneKeys = KeysIn(g.keys)
    BY <1>6 DEF ByGroup
  <2>2. EntryOf(g.keys) = {1} /\ Min(EntryOf(g.keys)) = 1
    <3>1. EntryOf(g.keys) = {1}
      BY <2>1 DEF EntryOf
    <3>2. Min({1}) = 1
      BY DEF Min
    <3> QED BY <3>1, <3>2
  <2>3. CASE HasAlreadySig(tx.sigs[1].data, s, g)
    <3>1. tx'.sigs = tx.sigs
      BY <1>4, <2>2, <2>3 DEF MultiSigned
    <3>2. AllNow' /\ DoneKeys' = DoneKeys
      BY <1>3, <2>1, <3>1 DEF AllNow, DoneKeys
    <3>3. k \in DoneKeys
      BY <2>1, <2>3, SigsList DEF HasAlreadySig, Contains, DoneKeys, ToSet
    <3> QED BY <1>1, <1>3, <2>1, <3>1, <3>2, <3>3 DEF ByGroup
  <2>4. CASE ~HasAlreadySig(tx.sigs[1].data, s, g)
    <3> DEFINE d == Append(tx.sigs[1].data, x)
    <3>1. tx'.sigs = [tx.sigs EXCEPT ![1].data = d]
      BY <1>4, <2>2, <2>4 DEF MultiSigned, Signature
    <3>2. tx.sigs[1] \in Entries /\ tx.sigs[1].data \in Seq(Signatures)
      BY <2>1, SigsList DEF Entries
    <3>3. x \in Signatures
      BY SignersAssumption, GroupsAssumption DEF Signatures, Payers
    <3>4. d \in Seq(Signatures) /\ ToSet(d) = ToSet(tx.sigs[1].data) \cup {x}
      BY <3>2, <3>3, Appended
    <3>5. x.key = k /\ x.payer = g
      OBVIOUS
    <3> HIDE DEF d, x
    <3>6. /\ DOMAIN tx'.sigs = {1} /\ tx'.sigs[1].keys = g.keys /\ tx'.sigs[1].m = g.m
          /\ tx'.sigs[1].data = d
      BY <2>1, <3>1, <3>2 DEF Entries
    <3>7. \A y \in ToSet(d) : y.payer = g
      <4>1. \A y \in ToSet(tx.sigs[1].data) : y.payer = g
        BY <2>1 DEF AllNow, ToSet
      <4> QED BY <3>4, <3>5, <4>1
    <3>8. AllNow'
      BY <1>3, <3>6, <3>7 DEF AllNow, ToSet
    <3>9. DoneKeys' = DoneKeys \cup {k}
      BY <3>4, <3>5, <3>6 DEF DoneKeys
    <3> QED BY <1>1, <1>3, <2>1, <3>6, <3>8, <3>9 DEF ByGroup
  <2> QED BY <2>3, <2>4
<1> QED BY <1>5, <1>6

LEMMA CallSignsKeeps ==
    ASSUME TxInv, CallInv, CallSigns
    PROVE  TxInv' /\ CallInv'
<1> DEFINE next == Head(todo)
           s == next.signer
           g == next.group
<1>1. /\ stage = "signing" /\ todo # <<>> /\ todo' = Tail(todo)
      /\ UNCHANGED <<stage, call>>
      /\ IF g = NoPayer THEN tx' = Signed(s) ELSE MayMultiSign(g, s) /\ tx' = MultiSigned(g, s)
  BY DEF CallSigns
<1>2. /\ next \in ToSet(todo) /\ s \in Signers /\ g \in Groups \cup {NoPayer}
      /\ todo' \in Seq(Orders) /\ ToSet(todo) = {next} \cup ToSet(todo')
  BY <1>1, TodoList DEF Orders
<1> HIDE DEF next
<1>3. OneSignature(tx')
  BY <1>1, <1>2, SignedIsOne, MultiSignedIsOne
<1>4. TxInv'
  BY <1>3, SignatureKeeps
<1>5. ASSUME ByEach PROVE ByEach'
  <2>1. g = NoPayer /\ (tx = NoTx => s \in Accounts)
    BY <1>2, <1>5 DEF ByEach, NoTx, next
  <2> QED BY <1>1, <1>2, <1>5, <2>1, EachSigns
<1>6. ASSUME NEW h \in Groups, ByGroup(h) PROVE ByGroup(h)'
  <2>1. g = h
    BY <1>2, <1>6 DEF ByGroup
  <2>2. h # NoPayer
    BY GroupsAssumption
  <2>3. TodoKeys = {KeyOf[s]} \cup TodoKeys'
    BY <1>2 DEF TodoKeys
  <2> QED BY <1>1, <1>2, <1>6, <2>1, <2>2, <2>3, GroupSigns
<1>7. Ways => Ways'
  BY <1>5, <1>6 DEF Ways
<1> QED BY <1>1, <1>2, <1>4, <1>7 DEF CallInv

LEMMA SignNextKeeps ==
    ASSUME TxInv, CallInv, SignNext
    PROVE  TxInv' /\ CallInv'
<1>1. CASE NewInvokeTransaction
  <2>1. todo' \in Seq(Orders)
    BY <1>1, EmptySeq DEF NewInvokeTransaction
  <2> QED BY <1>1, <2>1, NoTxInv DEF NewInvokeTransaction, CallInv
<1>2. ASSUME Application, OneSignature(tx') PROVE TxInv' /\ CallInv'
  BY <1>2, SignatureKeeps DEF Application, CallInv
<1>3. ASSUME NEW s \in Signers, SignToTransaction(s) PROVE TxInv' /\ CallInv'
  BY <1>2, <1>3, SignedIsOne DEF SignToTransaction
<1>4. ASSUME NEW s \in Signers, SignFails(s) PROVE TxInv' /\ CallInv'
  BY <1>2, <1>4, FailsIsOne DEF SignFails
<1>5. ASSUME NEW g \in Groups, NEW s \in Signers, MultiSignToTransaction(g, s)
      PROVE  TxInv' /\ CallInv'
  BY <1>2, <1>5, MultiSignedIsOne DEF MultiSignToTransaction
<1>6. ASSUME NEW g \in Groups, NEW s \in Signers, MultiSignFails(g, s)
      PROVE  TxInv' /\ CallInv'
  BY <1>2, <1>6, FailsIsOne DEF MultiSignFails
<1>7. CASE CallFails
  <2>1. todo' \in Seq(Orders)
    BY <1>7, EmptySeq DEF CallFails
  <2> QED BY <1>7, <2>1, NoTxInv DEF CallFails, CallInv
<1>8. CASE Send \/ PreExec
  <2>1. UNCHANGED <<tx, call, todo>>
    BY <1>8 DEF Send, PreExec
  <2>2. TxInv'
    BY <2>1 DEF TxInv, OnlyEarlyStale, CountedOnce
  <2>3. Ways => Ways'
    BY <2>1 DEF Ways, ByEach, ByGroup, AllNow, TodoKeys, DoneKeys
  <2> QED BY <1>8, <2>1, <2>2, <2>3 DEF Send, PreExec, CallInv
<1> QED BY <1>1, <1>3, <1>4, <1>5, <1>6, <1>7, <1>8, BeginsKeep, CallSignsKeeps DEF SignNext

-----------------------------------------------------------------------------
(* The invariant of the whole: signing, and waiting once it is sent. *)

\* As long as the answers come from no chain that is behind, the height that
\* was read first lies between the one at the sending and the present one.
WaitInv ==
    /\ WaitTypeOK
    /\ sentAt \in 0..MaxHeight
    /\ ~fellBack => sentAt <= height
    /\ ~fellBack /\ wait # "idle" => sentAt <= blockHeight /\ blockHeight <= height
    /\ Confirmed

Inv == TxInv /\ CallInv /\ WaitInv /\ transfer \in Transfers \cup {NoTransfer}

LEMMA Initially == Init => Inv
<1> SUFFICES ASSUME Init PROVE Inv
  OBVIOUS
<1> USE DEF Init, SignInit, WaitInit
<1>1. <<>> \in Seq(Entries) /\ <<>> \in Seq(Orders) /\ DOMAIN <<>> = {}
  BY EmptySeq
<1>2. tx.sigs = <<>> /\ tx \in [payer : Payers, sigs : Seq(Entries)]
  BY <1>1 DEF NoTx, Payers
<1>3. TxInv
  BY <1>1, <1>2 DEF TxInv, OnlyEarlyStale, CountedOnce
<1>4. CallInv
  BY <1>1 DEF CallInv
<1>5. 0 \in 0..MaxHeight /\ 0 \in Nat /\ 0 \in 0..MaxSecs
  BY HeightAssumption, WaitAssumption
<1>6. WaitInv
  <2>1. WaitTypeOK
    BY <1>5, Zenon DEF WaitTypeOK
  <2>2. sentAt \in 0..MaxHeight /\ sentAt <= height
    BY <1>5
  <2>3. Confirmed
    BY DEF Confirmed
  <2> QED BY <2>1, <2>2, <2>3, Zenon DEF WaitInv
<1> QED BY <1>3, <1>4, <1>6 DEF Inv

\* A new transaction, a signature or the sending: nobody waits yet.
LEMMA SignKeeps ==
    ASSUME Inv, Sign
    PROVE  Inv'
<1>1. TxInv' /\ CallInv'
  BY SignNextKeeps, BeginsKeep DEF Sign, GasTransfer, Inv
<1>2. height' \in 0..MaxHeight /\ sentAt' = height'
  BY HeightAssumption DEF Sign
<1>3. WaitInv'
  <2>1. wait' = "idle" /\ blockHeight' = 0 /\ count' = 0 /\ secs' = 0 /\ fellBack' = FALSE
    BY DEF Sign
  <2>2. WaitTypeOK'
    <3>1. 0 \in 0..MaxHeight /\ 0 \in Nat /\ 0 \in 0..MaxSecs
      BY HeightAssumption, WaitAssumption
    <3> QED BY <1>2, <2>1, <3>1, Zenon DEF WaitTypeOK
  <2>3. sentAt' <= height'
    BY <1>2, HeightAssumption
  <2>4. Confirmed'
    BY <2>1 DEF Confirmed
  <2> QED BY <1>2, <2>1, <2>2, <2>3, <2>4 DEF WaitInv
<1>4. transfer' \in Transfers \cup {NoTransfer}
  BY DEF Sign, GasTransfer, Inv
<1> QED BY <1>1, <1>3, <1>4 DEF Inv

\* What is signed stays as it is while the application waits.
LEMMA SignSame ==
    ASSUME TxInv, CallInv, UNCHANGED signVars
    PROVE  TxInv' /\ CallInv'
BY DEF signVars, TxInv, OnlyEarlyStale, CountedOnce, CallInv, Ways, ByEach, ByGroup, AllNow,
       TodoKeys, DoneKeys

\* Heights are below Modulus: a client answers the height itself, and the
\* difference of a height and a lower one is exact.
LEMMA ModFacts ==
    ASSUME NEW n \in 0..Modulus - 1
    PROVE  n % Modulus = n /\ (((n + 1) % Modulus) - 1) % Modulus = n
<1>1. Modulus \in Nat \ {0}
  BY HeightAssumption
<1>2. n % Modulus = n
  BY <1>1
<1>3. CASE n + 1 < Modulus
  BY <1>1, <1>2, <1>3
<1>4. CASE n + 1 = Modulus
  <2>1. Modulus % Modulus = 0
    BY <1>1
  <2>2. (0 - 1) % Modulus = Modulus - 1
    BY <1>1
  <2> QED BY <1>1, <1>4, <2>1, <2>2
<1> QED BY <1>1, <1>2, <1>3, <1>4

\* Every client answers the height of the chain.
LEMMA HeightRead ==
    ASSUME WaitTypeOK, NEW c \in Clients
    PROVE  GetCurrentBlockHeight(c) = height
<1>1. height \in 0..Modulus - 1
  BY HeightAssumption DEF WaitTypeOK
<1> QED BY <1>1, ModFacts DEF GetCurrentBlockHeight, BlockCount

\* The parts of WaitInv about numbers, apart from fellBack.
Between == sentAt <= height /\ (wait # "idle" => sentAt <= blockHeight /\ blockHeight <= height)
Grown == wait = "generated" => height - sentAt >= count

LEMMA WaitParts ==
    /\ WaitInv <=> /\ WaitTypeOK /\ sentAt \in 0..MaxHeight
                   /\ ~fellBack => Between /\ Grown
    /\ WaitInv' <=> /\ WaitTypeOK' /\ sentAt' \in 0..MaxHeight
                    /\ ~fellBack' => Between' /\ Grown'
BY Zenon DEF WaitInv, Between, Grown, Confirmed

\* The first read fixes blockHeight.
LEMMA StartWaitKeeps ==
    ASSUME WaitInv, NEW c \in Clients, NEW n \in BlockCounts, NEW s \in 0..MaxSecs,
           StartWait(n, s, c), UNCHANGED sentAt
    PROVE  WaitInv'
<1>1. blockHeight' = height
  BY HeightRead DEF StartWait, WaitInv
<1>2. /\ wait' = "sleep" /\ height' = height /\ fellBack' = fellBack
      /\ count' \in Nat /\ count' > 0 /\ secs' \in 0..MaxSecs /\ secs' > 0
  BY WaitAssumption DEF StartWait, nodeVars, DefaultCount
<1>3. height \in 0..MaxHeight /\ fellBack \in BOOLEAN
  BY DEF WaitInv, WaitTypeOK
<1>4. WaitTypeOK'
  BY <1>1, <1>2, <1>3 DEF WaitTypeOK
<1>5. ASSUME Between PROVE Between' /\ Grown'
  BY <1>1, <1>2, <1>3, <1>5, HeightAssumption DEF Between, Grown, WaitInv
<1> QED BY <1>2, <1>4, <1>5, WaitParts

\* The difference of the uint32 is that of the heights.
LEMMA EnoughIsTrue ==
    ASSUME WaitInv, NEW c \in Clients, Enough(GetCurrentBlockHeight(c)), wait # "idle", ~fellBack
    PROVE  height - sentAt >= count
<1>1. GetCurrentBlockHeight(c) = height
  BY HeightRead DEF WaitInv
<1>2. sentAt <= blockHeight /\ blockHeight <= height
  BY WaitParts DEF Between
<1>3. /\ height \in 0..Modulus - 1 /\ blockHeight \in Nat /\ sentAt \in Nat /\ count \in Nat
      /\ Modulus \in Nat \ {0}
  BY HeightAssumption DEF WaitInv, WaitTypeOK
<1>4. height - blockHeight \in 0..Modulus - 1
  BY <1>2, <1>3
<1>5. (height - blockHeight) % Modulus = height - blockHeight
  BY <1>4, ModFacts
<1>6. height - blockHeight >= count
  BY <1>1, <1>5 DEF Enough
<1> QED BY <1>2, <1>3, <1>6

LEMMA WaitKeeps ==
    ASSUME Inv, Wait
    PROVE  Inv'
<1>1. TxInv' /\ CallInv' /\ UNCHANGED <<sentAt, transfer>>
  BY SignSame DEF Wait, signVars, Inv
<1>2. WaitInv
  BY DEF Inv
<1>3. ASSUME NEW found \in BOOLEAN, Tick(found),
             found /\ ~fellBack => height - sentAt >= count
      PROVE  WaitInv'
  <2>1. /\ UNCHANGED <<height, fellBack, blockHeight, count>>
        /\ wait = "sleep" /\ wait' \in {"sleep", "generated", "timeout"}
        /\ wait' = "sleep" => secs' # 0
        /\ wait' = "generated" => found
        /\ secs > 0 /\ secs' = secs - 1
    BY <1>3 DEF Tick, nodeVars
  <2>2. WaitTypeOK'
    <3>1. secs' \in 0..MaxSecs
      BY <1>2, <2>1, WaitAssumption DEF WaitInv, WaitTypeOK
    <3> QED BY <1>2, <2>1, <3>1 DEF WaitInv, WaitTypeOK
  <2>3. Between => Between'
    BY <1>1, <2>1 DEF Between
  <2>4. ~fellBack => Grown'
    BY <1>1, <1>3, <2>1 DEF Grown
  <2> QED BY <1>1, <1>2, <2>1, <2>2, <2>3, <2>4, WaitParts
<1>4. ASSUME NEW c \in Clients, ReadHeight(c) PROVE WaitInv'
  <2>1. wait # "idle" /\ Enough(GetCurrentBlockHeight(c)) \in BOOLEAN
    BY <1>4 DEF ReadHeight, Tick, Enough
  <2>2. Enough(GetCurrentBlockHeight(c)) /\ ~fellBack => height - sentAt >= count
    BY <1>2, <2>1, EnoughIsTrue
  <2> QED BY <1>3, <1>4, <2>1, <2>2 DEF ReadHeight
<1>5. ASSUME ReadFails PROVE WaitInv'
  <2>1. Tick(FALSE)
    BY <1>5 DEF ReadFails
  <2> QED BY <1>3, <2>1
<1>6. ASSUME Generate PROVE WaitInv'
  <2>1. height' = height + 1 /\ height < MaxHeight /\ UNCHANGED <<callerVars, fellBack>>
    BY <1>6 DEF Generate
  <2>2. WaitTypeOK'
    <3>1. height' \in 0..MaxHeight
      BY <1>2, <2>1, HeightAssumption DEF WaitInv, WaitTypeOK
    <3> QED BY <1>2, <2>1, <3>1 DEF callerVars, WaitInv, WaitTypeOK
  <2>3. ASSUME Between, Grown PROVE Between' /\ Grown'
    <3>1. height \in Nat /\ sentAt \in Nat /\ blockHeight \in Nat /\ count \in Nat
      BY <1>2, HeightAssumption DEF WaitInv, WaitTypeOK
    <3> QED BY <1>1, <2>1, <2>3, <3>1 DEF callerVars, Between, Grown
  <2> QED BY <1>1, <1>2, <2>1, <2>2, <2>3, WaitParts
<1>7. ASSUME FallBack PROVE WaitInv'
  <2>1. /\ height' = height - 1 /\ height > 0 /\ fellBack' = TRUE /\ UNCHANGED callerVars
    BY <1>7 DEF FallBack
  <2>2. WaitTypeOK'
    <3>1. height' \in 0..MaxHeight
      BY <1>2, <2>1, HeightAssumption DEF WaitInv, WaitTypeOK
    <3> QED BY <1>2, <2>1, <3>1 DEF callerVars, WaitInv, WaitTypeOK
  <2> QED BY <1>1, <1>2, <2>1, <2>2, WaitParts
<1>8. WaitInv'
  BY <1>1, <1>2, <1>4, <1>5, <1>6, <1>7, StartWaitKeeps DEF Wait
<1> QED BY <1>1, <1>8 DEF Inv

LEMMA NextKeeps == Inv /\ [Next]_vars => Inv'
<1> SUFFICES ASSUME Inv, [Next]_vars PROVE Inv'
  OBVIOUS
<1>1. CASE UNCHANGED vars
  <2>1. TxInv' /\ CallInv'
    BY <1>1, SignSame DEF vars, Inv
  <2> QED BY <1>1, <2>1 DEF vars, nodeVars, callerVars, Inv, WaitInv, WaitTypeOK, Confirmed
<1> QED BY <1>1, SignKeeps, WaitKeeps DEF Next

LEMMA Invariance == Spec => []Inv
BY Initially, NextKeeps, PTL DEF Spec

-----------------------------------------------------------------------------
(* The theorems. *)

\* Types, and that every entry of Sigs has a signature, by keys of its own
\* (SignToTransaction, MultiSignToTransaction, WaitForGenerateBlock).
THEOREM TypeCorrect == Spec => []TypeOK
<1>1. ASSUME Inv PROVE TypeOK
  <2>1. SignTypeOK
    <3>1. \A i \in DOMAIN todo : todo[i] \in Orders
      BY <1>1, LenProperties, ElementOfSeq DEF Inv, CallInv
    <3> QED BY <1>1, <3>1, SigsList DEF Inv, TxInv, CallInv, EntryOK, Orders, Payers, SignTypeOK
  <2> QED BY <1>1, <2>1 DEF Inv, WaitInv, TypeOK
<1> QED BY <1>1, Invariance, PTL

\* Whoever signs, in whatever order and however often signing fails, only a
\* signature made while there was no payer can be over another transaction
\* than the present one (SignToTransaction, MultiSignToTransaction).
THEOREM OnlyEarlyStaleHolds == Spec => []OnlyEarlyStale
<1>1. Inv => OnlyEarlyStale
  BY DEF Inv, TxInv
<1> QED BY <1>1, Invariance, PTL

\* No key counts twice towards a threshold (PubKeysEqual, HasAlreadySig).
THEOREM CountedOnceHolds == Spec => []CountedOnce
<1>1. Inv => CountedOnce
  BY DEF Inv, TxInv
<1> QED BY <1>1, Invariance, PTL

\* A list in which every key stands once has no more places than keys.
LEMMA KeysOnce ==
    ASSUME NEW g \in Groups, EachOnce(g.keys), IsFiniteSet(KeysIn(g.keys))
    PROVE  /\ Cardinality(g.keys) \in Nat /\ Cardinality(KeysIn(g.keys)) \in Nat
           /\ Cardinality(g.keys) <= Cardinality(KeysIn(g.keys))
<1> DEFINE K == g.keys
           f == [k \in KeysIn(K) |-> <<k, 1>>]
<1>1. K \subseteq Keys \X Nat
  BY GroupsAssumption DEF Addresses, KeyLists
<1>2. \A p \in K : p[1] \in KeysIn(K) /\ p = <<p[1], 1>>
  BY <1>1 DEF EachOnce, KeysIn
<1>3. f \in [KeysIn(K) -> K]
  <2>1. ASSUME NEW k \in KeysIn(K) PROVE <<k, 1>> \in K
    <3>1. PICK p \in K : k = p[1]
      BY DEF KeysIn
    <3> QED BY <1>2, <3>1
  <2> QED BY <2>1
<1>4. \A p \in K : \E k \in KeysIn(K) : f[k] = p
  BY <1>2
<1> HIDE DEF f
<1>5. f \in Surjection(KeysIn(K), K)
  BY <1>3, <1>4 DEF Surjection
<1> QED BY <1>5, FS_Surjection, FS_CardinalityType

\* What the calls of the SDK send is signed as it is sent and by its payer,
\* and to the thresholds of lists that name no key twice, for any number of
\* accounts and any groups (native_contract.go, oep4.go).
THEOREM CallsVerifyHolds == Spec => []CallsVerify
<1>1. ASSUME Inv, stage = "sent", call = "invoke"
      PROVE  /\ \A i \in DOMAIN tx.sigs :
                   /\ \A j \in DOMAIN tx.sigs[i].data : tx.sigs[i].data[j].payer = tx.payer
                   /\ EachOnce(tx.sigs[i].keys) => Cardinality(Valid(tx.sigs[i])) >= tx.sigs[i].m
             /\ \E i \in DOMAIN tx.sigs : tx.payer = [keys |-> tx.sigs[i].keys, m |-> tx.sigs[i].m]
  <2>1. TxInv /\ todo = <<>> /\ Ways
    BY <1>1 DEF Inv, CallInv
  <2>2. ToSet(todo) = {}
    BY <2>1, NoElements
  <2>3. ASSUME AllNow, NEW i \in DOMAIN tx.sigs
        PROVE  /\ Valid(tx.sigs[i]) = {x.key : x \in ToSet(tx.sigs[i].data)}
               /\ IsFiniteSet(Valid(tx.sigs[i])) /\ Valid(tx.sigs[i]) # {}
    <3>1. \A x \in ToSet(tx.sigs[i].data) : x.payer = tx.payer
      BY <2>3 DEF AllNow, ToSet
    <3>2. Valid(tx.sigs[i]) = {x.key : x \in ToSet(tx.sigs[i].data)}
      BY <3>1 DEF Valid
    <3>3. tx.sigs[i].data \in Seq(Signatures) /\ tx.sigs[i].data # <<>>
      BY <2>1, SigsList DEF Entries, TxInv, EntryOK
    <3>4. ToSet(tx.sigs[i].data) # {} /\ ToSet(tx.sigs[i].data) \subseteq Signatures
      BY <3>3, Elements
    <3>5. Valid(tx.sigs[i]) \subseteq Keys
      BY <3>2, <3>4 DEF Signatures
    <3> QED BY <3>2, <3>4, <3>5, GroupsAssumption, FS_Subset
  <2>4. CASE ByEach
    <3>1. /\ AllNow /\ \A i \in DOMAIN tx.sigs : tx.sigs[i].m = 1
          /\ \E i \in DOMAIN tx.sigs : tx.payer = [keys |-> tx.sigs[i].keys, m |-> tx.sigs[i].m]
      BY <2>1, <2>4 DEF ByEach
    <3>2. ASSUME NEW i \in DOMAIN tx.sigs PROVE Cardinality(Valid(tx.sigs[i])) >= 1
      <4>1. IsFiniteSet(Valid(tx.sigs[i])) /\ Valid(tx.sigs[i]) # {}
        BY <2>3, <3>1
      <4> QED BY <4>1, FS_CardinalityType, FS_EmptySet
    <3> QED BY <3>1, <3>2 DEF AllNow
  <2>5. ASSUME NEW g \in Groups, ByGroup(g)
        PROVE  /\ \A i \in DOMAIN tx.sigs :
                     /\ \A j \in DOMAIN tx.sigs[i].data : tx.sigs[i].data[j].payer = tx.payer
                     /\ EachOnce(tx.sigs[i].keys) => Cardinality(Valid(tx.sigs[i])) >= tx.sigs[i].m
               /\ \E i \in DOMAIN tx.sigs : tx.payer = [keys |-> tx.sigs[i].keys, m |-> tx.sigs[i].m]
    <3>1. TodoKeys = {}
      BY <2>2 DEF TodoKeys
    <3>2. g.keys # {} /\ g = [keys |-> g.keys, m |-> g.m] /\ g.m \in Nat
      BY <2>5, GroupsAssumption DEF ByGroup, Addresses
    <3>3. tx # NoTx
      <4>1. KeysIn(g.keys) # {}
        BY <3>2 DEF KeysIn
      <4> QED BY <2>5, <3>1, <4>1, GroupsAssumption DEF ByGroup, NoTx
    <3>4. /\ AllNow /\ tx.payer = g /\ g.m <= Cardinality(g.keys)
          /\ DOMAIN tx.sigs = {1} /\ tx.sigs[1].keys = g.keys /\ tx.sigs[1].m = g.m
          /\ DoneKeys = KeysIn(g.keys)
      BY <2>5, <3>1, <3>3 DEF ByGroup
    <3>5. Valid(tx.sigs[1]) = KeysIn(g.keys) /\ IsFiniteSet(KeysIn(g.keys))
      BY <2>3, <3>4 DEF DoneKeys
    <3>6. EachOnce(g.keys) => Cardinality(KeysIn(g.keys)) >= g.m
      BY <3>2, <3>4, <3>5, GroupsAssumption, KeysOnce DEF Addresses
    <3> QED BY <3>2, <3>4, <3>5, <3>6 DEF AllNow
  <2> QED BY <2>1, <2>4, <2>5 DEF Ways
<1>2. Inv => CallsVerify
  BY <1>1 DEF CallsVerify
<1> QED BY <1>2, Invariance, PTL

\* When WaitForGenerateBlock returns true, and no answer came from a chain
\* that was behind, the chain has grown by the blocks asked for since the node
\* got the transaction: for any heights below 2^32 and any mix of clients.
THEOREM ConfirmedHolds == Spec => []Confirmed
<1>1. Inv => Confirmed
  BY DEF Inv, WaitInv
<1> QED BY <1>1, Invariance, PTL

-----------------------------------------------------------------------------
(* Sources, and what stands where.  c is a payload, p a place in it.        *)

\* A source without an error.
At0(c, p, o, e) == [code |-> c, pos |-> p, out |-> o, end |-> e, err |-> FALSE]

IsOpCode(x) == x.width = 1 /\ x.val \in OPCODE_IN_PAYLOAD

\* In c, opcodes only stand between p and q, and none at q.
OpCodes(c, p, q) ==
    /\ p \in Nat \ {0} /\ q \in p..Len(c) /\ Len(c) \in Nat
    /\ \A i \in p..q - 1 : IsOpCode(c[i])
    /\ c[q].width > 1 \/ c[q].val \notin OPCODE_IN_PAYLOAD

LEMMA Ignored ==
    ASSUME NEW c, NEW p, NEW q, NEW o, NEW e, OpCodes(c, p, q)
    PROVE  IgnoreOpCode(At0(c, p, o, e)) = At0(c, q, o, e)
<1> DEFINE others == {i \in p..Len(c) : c[i].width > 1 \/ c[i].val \notin OPCODE_IN_PAYLOAD}
<1>1. p \in Nat \ {0} /\ q \in p..Len(c) /\ Len(c) \in Nat
  BY DEF OpCodes
<1>2. q \in others /\ others \subseteq Nat
  BY <1>1 DEF OpCodes
<1>3. \A i \in others : q <= i
  <2> SUFFICES ASSUME NEW i \in p..Len(c), i < q PROVE i \notin others
    BY <1>1
  <2>1. i \in p..q - 1
    BY <1>1
  <2>2. c[i].width = 1 /\ c[i].val \in OPCODE_IN_PAYLOAD
    BY <2>1 DEF OpCodes, IsOpCode
  <2> QED BY <2>2
<1>4. Min(others) = q
  <2> HIDE DEF others
  <2>1. Min(others) \in others /\ \A y \in others : Min(others) <= y
    BY <1>2, Least
  <2>2. Min(others) \in Nat /\ q <= Min(others) /\ Min(others) <= q /\ q \in Nat
    BY <1>1, <1>2, <1>3, <2>1
  <2> QED BY <2>2
<1>5. IgnoreOpCode(At0(c, p, o, e)) =
        [At0(c, p, o, e) EXCEPT !.pos = IF others = {} THEN Len(c) + 1 ELSE Min(others)]
  BY DEF IgnoreOpCode, At0
<1> HIDE DEF others
<1> QED BY <1>2, <1>4, <1>5 DEF At0

\* A length and a piece, behind opcodes.
LEMMA VarBytesRead ==
    ASSUME NEW c, NEW p, NEW q, NEW o, NEW e, OpCodes(c, p, q), q < Len(c),
           c[q] = Byte(c[q + 1].width)
    PROVE  /\ Field(At0(c, p, o, e), NextVarBytes) = At0(c, q + 2, Append(o, c[q + 1].val), e)
           /\ c[q] = Byte(20) => Field(At0(c, p, o, e), ReadAddress) =
                                    At0(c, q + 2, Append(o, c[q + 1].val), e)
<1>1. IgnoreOpCode(At0(c, p, o, e)) = At0(c, q, o, e)
  BY Ignored
<1>2. NextVarBytes(At0(c, q, o, e)) = At0(c, q + 2, Append(o, c[q + 1].val), e)
  BY DEF NextVarBytes, AtVarBytes, Read, At0
<1>3. ASSUME c[q] = Byte(20)
      PROVE  ReadAddress(At0(c, q, o, e)) = At0(c, q + 2, Append(o, c[q + 1].val), e)
  BY <1>2, <1>3 DEF ReadAddress, AtVarBytes, At0
<1>4. ~At0(c, p, o, e).err
  BY DEF At0
<1> QED BY <1>1, <1>2, <1>3, <1>4 DEF Field

-----------------------------------------------------------------------------
(* What stands where in a payload. *)

Values == Nat \cup Places \cup
          {TRANSFER_NAME, TRANSFERFROM_NAME, SystemNativeInvoke, OntologyNativeInvoke}
Pieces == [width : Nat, val : Values]

LEMMA BytesArePieces == \A n \in Nat : Byte(n) \in Pieces /\ Byte(n).width = 1 /\ Byte(n).val = n
BY DEF Byte, Piece, Pieces, Values

\* Lists of one and two pieces.
LEMMA FewPieces ==
    ASSUME NEW S, NEW x \in S, NEW y \in S
    PROVE  /\ <<x>> \in Seq(S) /\ Len(<<x>>) = 1 /\ <<x>>[1] = x
           /\ <<x, y>> \in Seq(S) /\ Len(<<x, y>>) = 2 /\ <<x, y>>[1] = x /\ <<x, y>>[2] = y
OBVIOUS

LEMMA OneAt ==
    ASSUME NEW c, NEW p \in Nat, NEW x, At(c, p, <<x>>)
    PROVE  p \in 1..Len(c) /\ c[p] = x
<1>1. Len(<<x>>) = 1 /\ <<x>>[1] = x /\ p + 1 - 1 = p
  OBVIOUS
<1> QED BY <1>1 DEF At

LEMMA TwoAt ==
    ASSUME NEW c, NEW p \in Nat, NEW x, NEW y, At(c, p, <<x, y>>)
    PROVE  p \in 1..Len(c) /\ p + 1 \in 1..Len(c) /\ c[p] = x /\ c[p + 1] = y
<1> DEFINE s == <<x, y>>
<1>1. Len(s) = 2 /\ s[1] = x /\ s[2] = y /\ p + 1 - 1 = p /\ p + 2 - 1 = p + 1
  OBVIOUS
<1>2. \A i \in 1..Len(s) : p + i - 1 \in 1..Len(c) /\ c[p + i - 1] = s[i]
  BY DEF At
<1> HIDE DEF s
<1>3. 1 \in 1..Len(s) /\ 2 \in 1..Len(s)
  BY <1>1
<1> QED BY <1>1, <1>2, <1>3

LEMMA IntegerPushed ==
    ASSUME NEW n \in Nat
    PROVE  /\ PushInteger(n) \in Seq(Pieces) /\ Len(PushInteger(n)) \in {1, 2}
           /\ \/ n = 0 /\ PushInteger(n) = <<Byte(0)>>
              \/ n \in 1..16 /\ PushInteger(n) = <<Byte(80 + n)>>
              \/ n > 16 /\ \E w \in {1, 2, 4} : PushInteger(n) = <<Byte(w), Piece(w, n)>>
<1>1. CASE n = 0
  <2>1. PushInteger(n) = <<Byte(0)>>
    BY <1>1 DEF PushInteger
  <2> QED BY <1>1, <2>1, BytesArePieces, FewPieces
<1>2. CASE n \in 1..16
  <2>1. PushInteger(n) = <<Byte(80 + n)>>
    BY <1>2 DEF PushInteger
  <2> QED BY <1>2, <2>1, BytesArePieces, FewPieces
<1>3. CASE n > 16
  <2>1. PICK w \in {1, 2, 4} : w = IF n < 2^7 THEN 1 ELSE IF n < 2^15 THEN 2 ELSE 4
    OBVIOUS
  <2>2. PushInteger(n) = PushBytes(Piece(w, n))
    BY <1>3, <2>1 DEF PushInteger
  <2>3. Piece(w, n) \in Pieces /\ Piece(w, n).width = w /\ Byte(w) \in Pieces
    BY <2>1, BytesArePieces DEF Piece, Pieces, Values
  <2>4. PushInteger(n) = <<Byte(w), Piece(w, n)>>
    BY <2>2, <2>3 DEF PushBytes
  <2> QED BY <1>3, <2>3, <2>4, FewPieces
<1> QED BY <1>1, <1>2, <1>3

LEMMA OneByte ==
    ASSUME NEW n \in Nat, n \notin 0..16, n < 2^7
    PROVE  PushInteger(n) = <<Byte(1), Piece(1, n)>>
<1>1. n # 0 /\ n \notin 1..16
  OBVIOUS
<1> QED BY <1>1 DEF PushInteger, PushBytes, Piece

\* A value behind opcodes: any but 16 is read as it was pushed.
LEMMA ValueRead ==
    ASSUME NEW c, NEW p, NEW q, NEW o, NEW e, OpCodes(c, p, q),
           NEW n \in Nat \ {16}, At(c, q, PushInteger(n))
    PROVE  Field(At0(c, p, o, e), GetValue) = At0(c, q + Len(PushInteger(n)), Append(o, n), e)
<1>1. q \in Nat /\ q <= Len(c) /\ Len(c) \in Nat
  BY DEF OpCodes
<1>2. IgnoreOpCode(At0(c, p, o, e)) = At0(c, q, o, e) /\ ~At0(c, p, o, e).err
  BY Ignored DEF At0
<1> DEFINE s == At0(c, q, o, e)
<1>3. ~Eof(s) /\ Here(s) = c[q].val
  BY <1>1 DEF Eof, Here, At0
<1>4. ASSUME NEW v \in Nat, PushInteger(n) = <<Byte(v)>>,
             (v = 0 /\ n = 0) \/ (v \in 81..95 /\ n = v - 80)
      PROVE  GetValue(s) = At0(c, q + Len(PushInteger(n)), Append(o, n), e)
  <2>1. At(c, q, <<Byte(v)>>) /\ Len(<<Byte(v)>>) = 1
    BY <1>4
  <2>2. c[q] = Byte(v)
    BY <1>1, <2>1, OneAt
  <2>3. c[q].val = v /\ Len(PushInteger(n)) = 1
    BY <1>4, <2>1, <2>2, BytesArePieces
  <2>4. GetValue(s) = Read(s, n, 1)
    BY <1>3, <1>4, <2>3 DEF GetValue
  <2> QED BY <2>3, <2>4 DEF Read, At0
<1>5. ASSUME NEW w \in {1, 2, 4}, PushInteger(n) = <<Byte(w), Piece(w, n)>>
      PROVE  GetValue(s) = At0(c, q + Len(PushInteger(n)), Append(o, n), e)
  <2>1. At(c, q, <<Byte(w), Piece(w, n)>>)
    BY <1>5
  <2>2. c[q] = Byte(w) /\ c[q + 1] = Piece(w, n) /\ q + 1 \in 1..Len(c)
    <3> DEFINE x == Byte(w)
               y == Piece(w, n)
    <3>1. At(c, q, <<x, y>>)
      BY <2>1
    <3> HIDE DEF x, y
    <3>2. c[q] = x /\ c[q + 1] = y /\ q + 1 \in 1..Len(c)
      BY <1>1, <3>1, TwoAt
    <3> QED BY <3>2 DEF x, y
  <2>3. c[q] = Byte(w) /\ c[q].val = w /\ c[q + 1] = Piece(w, n) /\ q + 1 \in 1..Len(c)
    BY <2>2, BytesArePieces
  <2>4. c[q + 1].width = w /\ c[q + 1].val = n /\ Len(PushInteger(n)) = 2
    BY <1>5, <2>3 DEF Piece
  <2>5. GetValue(s) = NextVarBytes(s)
    BY <1>3, <2>3 DEF GetValue
  <2>6. AtVarBytes(s)
    BY <1>1, <2>3, <2>4 DEF AtVarBytes, At0
  <2>7. NextVarBytes(s) = Read(s, n, 2)
    BY <2>4, <2>6 DEF NextVarBytes, At0
  <2> QED BY <2>4, <2>5, <2>7 DEF Read, At0
<1>6. GetValue(s) = At0(c, q + Len(PushInteger(n)), Append(o, n), e)
  <2>1. CASE n = 0
    <3>1. PushInteger(n) = <<Byte(0)>>
      BY <2>1 DEF PushInteger
    <3>2. 0 \in Nat /\ ((0 = 0 /\ n = 0) \/ (0 \in 81..95 /\ n = 0 - 80))
      BY <2>1
    <3> QED BY <1>4, <3>1, <3>2
  <2>2. CASE n \in 1..15
    <3>1. PushInteger(n) = <<Byte(80 + n)>>
      BY <2>2, IntegerPushed
    <3>2. 80 + n \in 81..95 /\ n = (80 + n) - 80 /\ 80 + n \in Nat
      BY <2>2
    <3> QED BY <1>4, <3>1, <3>2
  <2>3. CASE n > 16
    <3>1. n # 0 /\ n \notin 1..16
      BY <2>3
    <3>2. \E w \in {1, 2, 4} : PushInteger(n) = <<Byte(w), Piece(w, n)>>
      BY <3>1, IntegerPushed, Zenon
    <3>3. PICK w \in {1, 2, 4} : PushInteger(n) = <<Byte(w), Piece(w, n)>>
      BY <3>2
    <3> QED BY <1>5, <3>3
  <2> QED BY <2>1, <2>2, <2>3
<1> QED BY <1>2, <1>6 DEF Field

\* A place or a value.
Fields == Places \cup Nat

LEMMA Pushed ==
    ASSUME NEW v \in Fields
    PROVE  /\ Push(v) \in Seq(Pieces) /\ Len(Push(v)) \in {1, 2}
           /\ v \in Places => Push(v) = <<Byte(20), Piece(20, v)>> /\ Len(Push(v)) = 2
           /\ v \in Nat => Push(v) = PushInteger(v)
<1>1. CASE v \in Places
  <2>1. Piece(20, v) \in Pieces /\ Piece(20, v).width = 20 /\ Byte(20) \in Pieces
    BY <1>1, BytesArePieces DEF Piece, Pieces, Values
  <2>2. Push(v) = <<Byte(20), Piece(20, v)>>
    BY <1>1, <2>1 DEF Push, PushBytes
  <2>3. v \notin Nat
    BY <1>1, PlacesAssumption
  <2> QED BY <2>1, <2>2, <2>3, FewPieces
<1>2. CASE v \notin Places
  BY <1>2, IntegerPushed DEF Push, Fields
<1> QED BY <1>1, <1>2

\* A field of a struct between its opcodes: it begins at at[k - 1], and the
\* next one at at[k].
FieldStands(c, fields, at, k) ==
    /\ at[k] = at[k - 1] + 2 + Len(Push(fields[k]))
    /\ c[at[k - 1]] = Byte(\h6a)
    /\ At(c, at[k - 1] + 1, Push(fields[k]))
    /\ c[at[k] - 1] = Byte(\hc8)

\* A struct with the place of each of its fields.
StructAt(c, p, fields, at) ==
    /\ at[0] = p + 3
    /\ p \in 1..Len(c) /\ c[p] = Byte(0)
    /\ p + 1 \in 1..Len(c) /\ c[p + 1] = Byte(\hc6)
    /\ p + 2 \in 1..Len(c) /\ c[p + 2] = Byte(\h6b)
    /\ \A k \in 1..Len(fields) : FieldStands(c, fields, at, k)
    /\ at[Len(fields)] \in 1..Len(c) /\ c[at[Len(fields)]] = Byte(\h6c)
    /\ at[Len(fields)] + 1 = p + Len(PushStruct(fields))

LEMMA FlattenSeqType ==
    ASSUME NEW S, NEW s \in Seq(Seq(S))
    PROVE  FlattenSeq(s) \in Seq(S)
<1>1. PICK f \in [0..Len(s) -> Seq(S)] : Flat(f, s)
  BY Flattened
<1>2. Len(s) \in 0..Len(s) /\ FlattenSeq(s) = f[Len(s)]
  BY <1>1, LenProperties DEF Flat
<1> QED BY <1>2

LEMMA Three ==
    ASSUME NEW S, NEW a \in Seq(S), NEW v \in Seq(S), NEW z \in Seq(S)
    PROVE  /\ (a \o v) \o z \in Seq(S) /\ Len((a \o v) \o z) = Len(a) + Len(v) + Len(z)
<1>1. Len(a) \in Nat /\ Len(v) \in Nat /\ Len(z) \in Nat
  BY LenProperties
<1>2. a \o v \in Seq(S) /\ Len(a \o v) = Len(a) + Len(v)
  BY ConcatProperties
<1>3. (a \o v) \o z \in Seq(S) /\ Len((a \o v) \o z) = Len(a) + Len(v) + Len(z)
  BY <1>2, ConcatProperties
<1> QED BY <1>3

LEMMA ThreeAt ==
    ASSUME NEW S, NEW a \in Seq(S), NEW v \in Seq(S), NEW z \in Seq(S), NEW c, NEW p \in Nat,
           At(c, p, (a \o v) \o z)
    PROVE  At(c, p, a) /\ At(c, p + Len(a), v) /\ At(c, p + Len(a) + Len(v), z)
<1>1. Len(a) \in Nat /\ Len(v) \in Nat /\ Len(z) \in Nat
  BY LenProperties
<1>2. a \o v \in Seq(S) /\ Len(a \o v) = Len(a) + Len(v)
  BY ConcatProperties
<1>3. At(c, p, a \o v) /\ At(c, p + Len(a \o v), z)
  BY <1>2, AtConcat
<1>4. At(c, p, a) /\ At(c, p + Len(a), v)
  BY <1>3, AtConcat
<1>5. p + Len(a \o v) = p + Len(a) + Len(v)
  BY <1>1, <1>2
<1> QED BY <1>3, <1>4, <1>5

\* A field between its opcodes.
OneField(v) == <<Byte(\h6a)>> \o Push(v) \o <<Byte(\hc8)>>

LEMMA FieldPushed ==
    ASSUME NEW v \in Fields
    PROVE  OneField(v) \in Seq(Pieces) /\ Len(OneField(v)) = 2 + Len(Push(v))
<1> DEFINE a == <<Byte(\h6a)>>
           z == <<Byte(\hc8)>>
           w == Push(v)
<1>1. /\ a \in Seq(Pieces) /\ Len(a) = 1 /\ z \in Seq(Pieces) /\ Len(z) = 1
      /\ w \in Seq(Pieces) /\ Len(w) \in Nat
  BY BytesArePieces, FewPieces, Pushed
<1>2. OneField(v) = (a \o w) \o z
  BY DEF OneField
<1> HIDE DEF a, z, w
<1>3. a \in Seq(Pieces) /\ w \in Seq(Pieces) /\ z \in Seq(Pieces)
  BY <1>1
<1>4. (a \o w) \o z \in Seq(Pieces) /\ Len((a \o w) \o z) = Len(a) + Len(w) + Len(z)
  BY <1>3, Three
<1>5. Len(OneField(v)) = 2 + Len(w)
  BY <1>1, <1>2, <1>4
<1> QED BY <1>2, <1>4, <1>5 DEF w

LEMMA FieldAt ==
    ASSUME NEW v \in Fields, NEW c, NEW p \in Nat, At(c, p, OneField(v))
    PROVE  /\ c[p] = Byte(\h6a) /\ At(c, p + 1, Push(v))
           /\ c[p + 1 + Len(Push(v))] = Byte(\hc8)
<1> DEFINE a == <<Byte(\h6a)>>
           z == <<Byte(\hc8)>>
           w == Push(v)
<1>1. /\ a \in Seq(Pieces) /\ Len(a) = 1 /\ z \in Seq(Pieces) /\ Len(z) = 1
      /\ w \in Seq(Pieces) /\ Len(w) \in Nat
  BY BytesArePieces, FewPieces, Pushed
<1>2. OneField(v) = (a \o w) \o z
  BY DEF OneField
<1>3. At(c, p, a) => c[p] = Byte(\h6a)
  BY OneAt
<1>4. p + 1 + Len(w) \in Nat
  BY <1>1
<1>5. At(c, p + 1 + Len(w), z) => c[p + 1 + Len(w)] = Byte(\hc8)
  BY <1>4, OneAt
<1> HIDE DEF a, z, w
<1>6. At(c, p, (a \o w) \o z)
  BY <1>2
<1>7. At(c, p, a) /\ At(c, p + Len(a), w) /\ At(c, p + Len(a) + Len(w), z)
  BY <1>1, <1>6, ThreeAt
<1> QED BY <1>1, <1>3, <1>5, <1>7 DEF w

Body(fields) == [i \in DOMAIN fields |-> OneField(fields[i])]

\* The parts of a struct.
LEMMA StructParts ==
    ASSUME NEW fields \in Seq(Fields)
    PROVE  /\ Len(fields) \in Nat /\ \A i \in 1..Len(fields) : fields[i] \in Fields
           /\ Body(fields) \in Seq(Seq(Pieces)) /\ Len(Body(fields)) = Len(fields)
           /\ \A i \in 1..Len(fields) : Body(fields)[i] = OneField(fields[i])
           /\ PushStruct(fields) =
                <<Byte(0), Byte(\hc6), Byte(\h6b)>> \o FlattenSeq(Body(fields)) \o <<Byte(\h6c)>>
<1> DEFINE N == Len(fields)
           body == Body(fields)
<1>1. N \in Nat /\ DOMAIN fields = 1..N /\ \A i \in 1..N : fields[i] \in Fields
  BY LenProperties, ElementOfSeq
<1>2. \A i \in 1..N : body[i] = OneField(fields[i]) /\ OneField(fields[i]) \in Seq(Pieces)
  BY <1>1, FieldPushed DEF Body
<1>3. body \in [1..N -> Seq(Pieces)]
  BY <1>1, <1>2 DEF Body
<1>4. PushStruct(fields) =
        <<Byte(0), Byte(\hc6), Byte(\h6b)>> \o FlattenSeq(Body(fields)) \o <<Byte(\h6c)>>
  BY Zenon DEF PushStruct, Body, OneField
<1> HIDE DEF body
<1>5. body \in Seq(Seq(Pieces))
  BY <1>1, <1>3, SeqDef
<1>6. Len(body) = N
  BY <1>1, <1>3, <1>5, LenProperties
<1> QED BY <1>1, <1>2, <1>4, <1>5, <1>6 DEF body

LEMMA StructPushed ==
    ASSUME NEW fields \in Seq(Fields)
    PROVE  /\ PushStruct(fields) \in Seq(Pieces)
           /\ Len(FlattenSeq(Body(fields))) \in Nat
           /\ Len(PushStruct(fields)) = 4 + Len(FlattenSeq(Body(fields)))
<1> DEFINE head == <<Byte(0), Byte(\hc6), Byte(\h6b)>>
           flat == FlattenSeq(Body(fields))
           tail == <<Byte(\h6c)>>
<1>1. PushStruct(fields) = (head \o flat) \o tail /\ Body(fields) \in Seq(Seq(Pieces))
  BY StructParts
<1>2. /\ Byte(0) \in Pieces /\ Byte(\hc6) \in Pieces /\ Byte(\h6b) \in Pieces
      /\ Byte(\h6c) \in Pieces
  BY BytesArePieces
<1>3. head \in Seq(Pieces) /\ Len(head) = 3 /\ tail \in Seq(Pieces) /\ Len(tail) = 1
  BY <1>2
<1>4. flat \in Seq(Pieces)
  BY <1>1, FlattenSeqType
<1> HIDE DEF head, flat, tail
<1>5. head \in Seq(Pieces) /\ flat \in Seq(Pieces) /\ tail \in Seq(Pieces)
  BY <1>3, <1>4
<1>6. Len(flat) \in Nat
  BY <1>4, LenProperties
<1>7. /\ (head \o flat) \o tail \in Seq(Pieces)
      /\ Len((head \o flat) \o tail) = Len(head) + Len(flat) + Len(tail)
  BY <1>5, Three
<1>8. Len(PushStruct(fields)) = 4 + Len(flat)
  BY <1>1, <1>3, <1>6, <1>7
<1> QED BY <1>1, <1>6, <1>7, <1>8 DEF flat

LEMMA StructStands ==
    ASSUME NEW fields \in Seq(Fields), NEW c, NEW p \in Nat, At(c, p, PushStruct(fields))
    PROVE  \E at \in [0..Len(fields) -> Nat] : StructAt(c, p, fields, at)
<1> DEFINE N == Len(fields)
           head == <<Byte(0), Byte(\hc6), Byte(\h6b)>>
           body == Body(fields)
           flat == FlattenSeq(body)
           tail == <<Byte(\h6c)>>
<1>1. /\ N \in Nat /\ \A i \in 1..N : fields[i] \in Fields
      /\ body \in Seq(Seq(Pieces)) /\ Len(body) = N
      /\ \A i \in 1..N : body[i] = OneField(fields[i])
      /\ PushStruct(fields) = (head \o flat) \o tail
  BY StructParts
<1>2. /\ Byte(0) \in Pieces /\ Byte(\hc6) \in Pieces /\ Byte(\h6b) \in Pieces
      /\ Byte(\h6c) \in Pieces
  BY BytesArePieces
<1>3. /\ head \in Seq(Pieces) /\ Len(head) = 3
      /\ head[1] = Byte(0) /\ head[2] = Byte(\hc6) /\ head[3] = Byte(\h6b)
  BY <1>2
<1>4. tail \in Seq(Pieces) /\ Len(tail) = 1
  BY <1>2, FewPieces
<1>5. ASSUME NEW k \in Nat, At(c, k, tail) PROVE k \in 1..Len(c) /\ c[k] = Byte(\h6c)
  BY <1>5, OneAt
<1> HIDE DEF head, body, tail
<1>6. PICK f \in [0..N -> Seq(Pieces)] : Flat(f, body)
  BY <1>1, Flattened
<1>7. \A k \in 0..N : f[k] \in Seq(Pieces) /\ Len(f[k]) \in Nat
  BY LenProperties
<1>8. flat = f[N] /\ Len(f[0]) = 0 /\ 0 \in 0..N /\ N \in 0..N
  BY <1>1, <1>6, EmptySeq DEF Flat
<1>9. ASSUME NEW k \in 1..N PROVE Len(f[k]) = Len(f[k - 1]) + 2 + Len(Push(fields[k]))
  <2>1. Len(f[k]) = Len(f[k - 1]) + Len(body[k])
    BY <1>1, <1>6 DEF Flat
  <2>2. k - 1 \in 0..N /\ fields[k] \in Fields
    BY <1>1
  <2>3. Len(body[k]) = 2 + Len(Push(fields[k])) /\ Len(Push(fields[k])) \in Nat
    BY <1>1, <2>2, FieldPushed, Pushed
  <2>4. PICK m \in Nat : m = Len(f[k - 1])
    BY <1>7, <2>2
  <2>5. PICK l \in Nat : l = Len(Push(fields[k]))
    BY <2>3
  <2>6. m + (2 + l) = m + 2 + l
    OBVIOUS
  <2>7. Len(f[k]) = m + (2 + l)
    BY <2>1, <2>3, <2>4, <2>5, Zenon
  <2> QED BY <2>4, <2>5, <2>6, <2>7, Zenon
<1>10. flat \in Seq(Pieces) /\ Len(flat) \in Nat /\ Len(flat) = Len(f[N])
  BY <1>7, <1>8
<1>11. Len(PushStruct(fields)) = 4 + Len(flat)
  BY StructPushed DEF body
<1> HIDE DEF flat
<1>12. At(c, p, head) /\ At(c, p + 3, flat) /\ At(c, p + 3 + Len(flat), tail)
  <2>1. At(c, p, (head \o flat) \o tail)
    BY <1>1
  <2>2. At(c, p, head) /\ At(c, p + Len(head), flat) /\ At(c, p + Len(head) + Len(flat), tail)
    <3>1. head \in Seq(Pieces) /\ flat \in Seq(Pieces) /\ tail \in Seq(Pieces)
      BY <1>3, <1>4, <1>10
    <3> QED BY <2>1, <3>1, ThreeAt
  <2> QED BY <1>3, <2>2
<1> DEFINE at == [k \in 0..N |-> p + 3 + Len(f[k])]
<1>13. /\ at \in [0..N -> Nat] /\ at[0] = p + 3
       /\ \A k \in 0..N : at[k] = p + 3 + Len(f[k])
  BY <1>7, <1>8
<1> HIDE DEF at
<1>14. \A k \in 1..N : At(c, p + 3 + Len(f[k - 1]), body[k])
  <2>1. At(c, p + 3, FlattenSeq(body)) /\ p + 3 \in Nat
    BY <1>12 DEF flat
  <2> QED BY <1>1, <1>6, <2>1, AtFlattened
<1>15. ASSUME NEW k \in 1..N PROVE FieldStands(c, fields, at, k)
  <2>1. k - 1 \in 0..N /\ k \in 0..N /\ fields[k] \in Fields
    BY <1>1
  <2>2. PICK b \in Nat : b = at[k - 1]
    BY <1>13, <2>1
  <2>3. PICK m \in Nat : m = Len(f[k - 1])
    BY <1>7, <2>1
  <2>4. b = p + 3 + m
    BY <1>13, <2>1, <2>2, <2>3
  <2>5. PICK l \in Nat : l = Len(Push(fields[k]))
    BY <2>1, Pushed
  <2>6. at[k] = p + 3 + (m + 2 + l)
    BY <1>9, <1>13, <2>1, <2>3, <2>5
  <2>7. at[k] = b + 2 + l /\ b + 1 + l = at[k] - 1
    BY <2>4, <2>6
  <2>8. At(c, b, OneField(fields[k]))
    <3>1. body[k] = OneField(fields[k]) /\ At(c, p + 3 + m, body[k])
      BY <1>1, <1>14, <2>3
    <3> QED BY <2>4, <3>1
  <2>9. PICK v \in Fields : v = fields[k]
    BY <2>1
  <2>10. At(c, b, OneField(v))
    BY <2>8, <2>9
  <2>11. c[b] = Byte(\h6a) /\ At(c, b + 1, Push(v)) /\ c[b + 1 + Len(Push(v))] = Byte(\hc8)
    BY <2>10, FieldAt
  <2>12. /\ at[k] = at[k - 1] + 2 + Len(Push(fields[k]))
         /\ c[at[k - 1]] = Byte(\h6a)
         /\ At(c, at[k - 1] + 1, Push(fields[k]))
         /\ c[at[k] - 1] = Byte(\hc8)
    BY <2>2, <2>5, <2>7, <2>9, <2>11
  <2> QED BY <2>12 DEF FieldStands
<1>16. /\ p \in 1..Len(c) /\ c[p] = Byte(0)
       /\ p + 1 \in 1..Len(c) /\ c[p + 1] = Byte(\hc6)
       /\ p + 2 \in 1..Len(c) /\ c[p + 2] = Byte(\h6b)
  <2>1. \A i \in 1..3 : p + i - 1 \in 1..Len(c) /\ c[p + i - 1] = head[i]
    BY <1>3, <1>12 DEF At
  <2>2. /\ p + 1 - 1 = p /\ p + 2 - 1 = p + 1 /\ p + 3 - 1 = p + 2
        /\ 1 \in 1..3 /\ 2 \in 1..3 /\ 3 \in 1..3
    OBVIOUS
  <2> QED BY <1>3, <2>1, <2>2
<1>17. /\ at[N] \in 1..Len(c) /\ c[at[N]] = Byte(\h6c)
       /\ at[N] + 1 = p + Len(PushStruct(fields))
  <2>1. PICK l \in Nat : l = Len(flat)
    BY <1>10
  <2>2. at[N] = p + 3 + l /\ at[N] \in Nat
    BY <1>8, <1>10, <1>13, <2>1
  <2>3. At(c, at[N], tail)
    BY <1>12, <2>1, <2>2
  <2>4. at[N] \in 1..Len(c) /\ c[at[N]] = Byte(\h6c)
    BY <1>5, <2>2, <2>3
  <2>5. Len(PushStruct(fields)) = 4 + l
    BY <1>11, <2>1
  <2>6. at[N] + 1 = p + Len(PushStruct(fields))
    BY <2>2, <2>5
  <2> QED BY <2>4, <2>6
<1>18. StructAt(c, p, fields, at)
  BY <1>13, <1>15, <1>16, <1>17, Zenon DEF StructAt
<1> QED BY <1>13, <1>18

\* The first piece of a field is no opcode.
LEMMA PushStart ==
    ASSUME NEW v \in Fields, NEW c, NEW q \in Nat, At(c, q, Push(v))
    PROVE  /\ q \in 1..Len(c) /\ (c[q].width > 1 \/ c[q].val \notin OPCODE_IN_PAYLOAD)
           /\ v \in Places => /\ q + 1 \in 1..Len(c) /\ c[q] = Byte(20)
                              /\ c[q + 1].width = 20 /\ c[q + 1].val = v
<1>1. ASSUME NEW x, NEW y, At(c, q, <<x, y>>)
      PROVE  q \in 1..Len(c) /\ q + 1 \in 1..Len(c) /\ c[q] = x /\ c[q + 1] = y
  BY <1>1, TwoAt
<1>2. ASSUME v \in Places
      PROVE  /\ q \in 1..Len(c) /\ q + 1 \in 1..Len(c) /\ c[q] = Byte(20)
             /\ c[q + 1].width = 20 /\ c[q + 1].val = v /\ c[q].val = 20
  <2> DEFINE x == Byte(20)
             y == Piece(20, v)
  <2>1. At(c, q, <<x, y>>)
    BY <1>2, Pushed
  <2>2. x.val = 20 /\ y.width = 20 /\ y.val = v
    BY BytesArePieces DEF Piece
  <2> HIDE DEF x, y
  <2>3. q \in 1..Len(c) /\ q + 1 \in 1..Len(c) /\ c[q] = x /\ c[q + 1] = y
    BY <1>1, <2>1
  <2> QED BY <2>2, <2>3 DEF x
<1>3. ASSUME v \in Nat
      PROVE  q \in 1..Len(c) /\ c[q].val \in Nat /\ (c[q].val < 97)
  <2>1. At(c, q, PushInteger(v))
    BY <1>3, Pushed
  <2>2. ASSUME NEW b \in Nat, PushInteger(v) = <<Byte(b)>>, b < 97
        PROVE  q \in 1..Len(c) /\ c[q].val \in Nat /\ c[q].val < 97
    <3>1. At(c, q, <<Byte(b)>>)
      BY <2>1, <2>2
    <3>2. q \in 1..Len(c) /\ c[q] = Byte(b)
      BY <3>1, OneAt
    <3> QED BY <2>2, <3>2, BytesArePieces
  <2>3. ASSUME NEW w \in {1, 2, 4}, PushInteger(v) = <<Byte(w), Piece(w, v)>>
        PROVE  q \in 1..Len(c) /\ c[q].val \in Nat /\ c[q].val < 97
    <3> DEFINE x == Byte(w)
               y == Piece(w, v)
    <3>1. At(c, q, <<x, y>>)
      BY <2>1, <2>3
    <3>2. x.val = w
      BY BytesArePieces
    <3> HIDE DEF x, y
    <3>3. q \in 1..Len(c) /\ c[q] = x
      BY <1>1, <3>1
    <3> QED BY <3>2, <3>3
  <2>4. CASE v = 0
    <3>1. PushInteger(v) = <<Byte(0)>>
      BY <2>4 DEF PushInteger
    <3> QED BY <2>2, <3>1
  <2>5. CASE v \in 1..16
    <3>1. PushInteger(v) = <<Byte(80 + v)>>
      BY <2>5, IntegerPushed
    <3>2. 80 + v \in Nat /\ 80 + v < 97
      BY <2>5
    <3> QED BY <2>2, <3>1, <3>2
  <2>6. CASE v # 0 /\ v \notin 1..16
    <3>1. \E w \in {1, 2, 4} : PushInteger(v) = <<Byte(w), Piece(w, v)>>
      BY <1>3, <2>6, IntegerPushed, Zenon
    <3> QED BY <2>3, <3>1
  <2> QED BY <2>4, <2>5, <2>6
<1>4. \A b \in Nat : b < 97 => b \notin OPCODE_IN_PAYLOAD
  BY DEF OPCODE_IN_PAYLOAD
<1>5. v \in Places \/ v \in Nat
  BY DEF Fields
<1>6. 20 < 97 /\ 20 \in Nat
  OBVIOUS
<1> QED BY <1>2, <1>3, <1>4, <1>5, <1>6

\* Where the reading of a field begins: with the opcode behind the field
\* before it.
Begins(p, at, k) == IF k = 1 THEN p + 1 ELSE at[k - 1] - 1

LEMMA OpCodesBefore ==
    ASSUME NEW fields \in Seq(Fields), NEW c, Len(c) \in Nat, NEW p \in Nat,
           NEW at \in [0..Len(fields) -> Nat], StructAt(c, p, fields, at),
           NEW k \in 1..Len(fields)
    PROVE  OpCodes(c, Begins(p, at, k), at[k - 1] + 1)
<1>1. Len(fields) \in Nat /\ fields[k] \in Fields
  BY StructParts
<1>2. PICK b \in Nat : b = at[k - 1]
  BY <1>1
<1>3. c[b] = Byte(\h6a) /\ At(c, b + 1, Push(fields[k])) /\ b + 1 \in Nat
  <2>1. FieldStands(c, fields, at, k)
    BY DEF StructAt
  <2>2. c[at[k - 1]] = Byte(\h6a) /\ At(c, at[k - 1] + 1, Push(fields[k]))
    BY <2>1 DEF FieldStands
  <2> QED BY <1>2, <2>2
<1>4. b + 1 \in 1..Len(c) /\ (c[b + 1].width > 1 \/ c[b + 1].val \notin OPCODE_IN_PAYLOAD)
  BY <1>1, <1>3, PushStart
<1>5. ASSUME NEW x \in {\hc6, \h6b, \h6a, \hc8} PROVE IsOpCode(Byte(x))
  BY BytesArePieces DEF IsOpCode, OPCODE_IN_PAYLOAD
<1>6. CASE k = 1
  <2>1. b = p + 3 /\ c[p + 1] = Byte(\hc6) /\ c[p + 2] = Byte(\h6b) /\ Begins(p, at, k) = p + 1
    BY <1>2, <1>6 DEF StructAt, Begins
  <2>2. \A i \in p + 1..b + 1 - 1 : IsOpCode(c[i])
    <3> SUFFICES ASSUME NEW i \in p + 1..b + 1 - 1 PROVE IsOpCode(c[i])
      OBVIOUS
    <3>1. i = p + 1 \/ i = p + 2 \/ i = b
      BY <2>1
    <3> QED BY <1>3, <1>5, <2>1, <3>1
  <2>3. p + 1 \in Nat \ {0} /\ b + 1 \in p + 1..Len(c)
    BY <1>4, <2>1
  <2> QED BY <1>2, <1>4, <2>1, <2>2, <2>3 DEF OpCodes
<1>7. CASE k # 1
  <2>1. k - 1 \in 1..Len(fields) /\ k - 1 - 1 \in 0..Len(fields)
    BY <1>1, <1>7
  <2>2. /\ c[b - 1] = Byte(\hc8) /\ Begins(p, at, k) = b - 1
        /\ b = at[k - 1 - 1] + 2 + Len(Push(fields[k - 1]))
    <3>1. FieldStands(c, fields, at, k - 1)
      BY <2>1 DEF StructAt
    <3>2. /\ c[at[k - 1] - 1] = Byte(\hc8)
          /\ at[k - 1] = at[k - 1 - 1] + 2 + Len(Push(fields[k - 1]))
      BY <3>1 DEF FieldStands
    <3>3. Begins(p, at, k) = at[k - 1] - 1
      BY <1>7 DEF Begins
    <3> QED BY <1>2, <3>2, <3>3
  <2>3. fields[k - 1] \in Fields
    BY <2>1, StructParts
  <2>4. PICK d \in Nat, l \in {1, 2} : b = d + 2 + l
    BY <2>1, <2>2, <2>3, Pushed
  <2>5. b - 1 \in Nat \ {0} /\ b + 1 \in b - 1..Len(c)
    BY <1>4, <2>4
  <2>6. \A i \in b - 1..b + 1 - 1 : IsOpCode(c[i])
    <3> SUFFICES ASSUME NEW i \in b - 1..b + 1 - 1 PROVE IsOpCode(c[i])
      OBVIOUS
    <3>1. i = b - 1 \/ i = b
      BY <2>4
    <3>2. IsOpCode(c[b - 1]) /\ IsOpCode(c[b])
      BY <1>3, <1>5, <2>2
    <3> QED BY ONLY <3>1, <3>2
  <2> QED BY <1>2, <1>4, <2>2, <2>5, <2>6 DEF OpCodes
<1> QED BY <1>6, <1>7

\* One field of a struct.
LEMMA FieldRead ==
    ASSUME NEW fields \in Seq(Fields), NEW c, Len(c) \in Nat, NEW p \in Nat,
           NEW at \in [0..Len(fields) -> Nat], StructAt(c, p, fields, at),
           NEW k \in 1..Len(fields), NEW o, NEW e
    PROVE  /\ fields[k] \in Places =>
                Field(At0(c, Begins(p, at, k), o, e), ReadAddress) =
                   At0(c, at[k] - 1, Append(o, fields[k]), e)
           /\ fields[k] \in Nat \ {16} =>
                Field(At0(c, Begins(p, at, k), o, e), GetValue) =
                   At0(c, at[k] - 1, Append(o, fields[k]), e)
<1>1. Len(fields) \in Nat /\ fields[k] \in Fields
  BY StructParts
<1>2. PICK b \in Nat : b = at[k - 1]
  BY <1>1
<1>3. PICK r : r = Begins(p, at, k)
  OBVIOUS
<1>4. OpCodes(c, r, b + 1)
  BY <1>2, <1>3, OpCodesBefore
<1>5. At(c, b + 1, Push(fields[k])) /\ b + 1 \in Nat
  <2>1. FieldStands(c, fields, at, k)
    BY DEF StructAt
  <2>2. At(c, at[k - 1] + 1, Push(fields[k]))
    BY <2>1 DEF FieldStands
  <2> QED BY <1>2, <2>2
<1>6. PICK l \in {1, 2} : l = Len(Push(fields[k]))
  BY <1>1, Pushed
<1>7. at[k] = b + 2 + l
  <2>1. FieldStands(c, fields, at, k)
    BY DEF StructAt
  <2>2. at[k] = at[k - 1] + 2 + Len(Push(fields[k]))
    BY <2>1 DEF FieldStands
  <2> QED BY <1>2, <1>6, <2>2
<1>8. ASSUME fields[k] \in Places
      PROVE  Field(At0(c, r, o, e), ReadAddress) = At0(c, at[k] - 1, Append(o, fields[k]), e)
  <2>1. /\ b + 1 + 1 \in 1..Len(c) /\ c[b + 1] = Byte(20)
        /\ c[b + 1 + 1].width = 20 /\ c[b + 1 + 1].val = fields[k]
    BY <1>1, <1>5, <1>8, PushStart
  <2>2. b + 1 < Len(c)
    BY <2>1
  <2>3. Field(At0(c, r, o, e), ReadAddress) = At0(c, b + 1 + 2, Append(o, c[b + 1 + 1].val), e)
    BY <1>4, <2>1, <2>2, VarBytesRead
  <2>4. l = 2
    BY <1>1, <1>6, <1>8, Pushed
  <2>5. b + 1 + 2 = at[k] - 1
    BY <1>7, <2>4
  <2> QED BY <2>1, <2>3, <2>5
<1>9. ASSUME fields[k] \in Nat \ {16}
      PROVE  Field(At0(c, r, o, e), GetValue) = At0(c, at[k] - 1, Append(o, fields[k]), e)
  <2>1. Push(fields[k]) = PushInteger(fields[k])
    BY <1>1, <1>9, Pushed
  <2>2. At(c, b + 1, PushInteger(fields[k])) /\ l = Len(PushInteger(fields[k]))
    BY <1>5, <1>6, <2>1
  <2>3. Field(At0(c, r, o, e), GetValue) =
          At0(c, b + 1 + Len(PushInteger(fields[k])), Append(o, fields[k]), e)
    BY <1>4, <1>9, <2>2, ValueRead
  <2>4. b + 1 + l = at[k] - 1
    BY <1>7
  <2> QED BY <2>2, <2>3, <2>4
<1> QED BY <1>3, <1>8, <1>9

\* Whether the loop is over.
Going == FALSE
Over == TRUE

\* Some pieces on.
LEMMA Skipped ==
    ASSUME NEW c, NEW p, NEW o, NEW e, NEW n
    PROVE  Skip(At0(c, p, o, e), n) = At0(c, p + n, o, e)
<1>1. PICK r : r = Skip(At0(c, p, o, e), n)
  OBVIOUS
<1>2. r = At0(c, p + n, o, e)
  BY <1>1 DEF Skip, At0
<1> QED BY <1>1, <1>2

LEMMA SkippedOne ==
    ASSUME NEW c, NEW p, NEW o
    PROVE  Skip(At0(c, p, o, Going), 1) = At0(c, p + 1, o, Going)
<1>1. PICK k : k = 1
  OBVIOUS
<1>2. Skip(At0(c, p, o, Going), k) = At0(c, p + k, o, Going)
  BY Skipped
<1> QED BY <1>1, <1>2

LEMMA EndsBehind ==
    ASSUME NEW c, NEW p, NEW o, NEW e, NEW n
    PROVE  [Skip(At0(c, p, o, e), n) EXCEPT !.end = TRUE] = At0(c, p + n, o, Over)
<1>1. PICK t : t = [At0(c, p + n, o, e) EXCEPT !.end = TRUE]
  OBVIOUS
<1>2. t = At0(c, p + n, o, Over)
  BY <1>1 DEF At0, Over
<1>3. Skip(At0(c, p, o, e), n) = At0(c, p + n, o, e)
  BY Skipped
<1>4. [Skip(At0(c, p, o, e), n) EXCEPT !.end = TRUE] = t
  BY <1>1, <1>3
<1> QED BY <1>2, <1>4

LEMMA IsEndShort ==
    ASSUME NEW s, ~Eof(s), Here(s) \in 81..95
    PROVE  IsEnd(s) = [Skip(s, 1) EXCEPT !.end = TRUE]
<1>1. Here(s) # 0 /\ Here(s) \notin \h14..\h50
  OBVIOUS
<1> QED BY <1>1, Zenon DEF IsEnd

LEMMA IsEndLong ==
    ASSUME NEW s, ~Eof(s), Here(s) \in {1, 96}, s.pos # Len(s.code), s.code[s.pos + 1].width = 1
    PROVE  IsEnd(s) = [Skip(s, 2) EXCEPT !.end = TRUE]
<1>1. Here(s) # 0 /\ Here(s) \notin \h14..\h50 /\ Here(s) \notin \h51..\h5f
  <2>1. PICK h \in Nat : h = Here(s)
    OBVIOUS
  <2>2. h # 0 /\ (h < 20 \/ h = 96)
    BY <2>1
  <2>3. h \notin \h14..\h50 /\ h \notin \h51..\h5f
    BY <2>2
  <2> QED BY <2>1, <2>2, <2>3
<1>2. ~(s.code[s.pos + 1].width > 1)
  OBVIOUS
<1> QED BY <1>1, <1>2, Zenon DEF IsEnd

\* What the loop and the reading of the others do, behind the opcodes.
AddressNext(s) == IF s.err THEN s ELSE ReadAddress(IgnoreOpCode(s))
ValueNext(s) == IF s.err THEN s ELSE GetValue(IgnoreOpCode(s))

LEMMA Nexts ==
    ASSUME NEW s
    PROVE  /\ Field(s, ReadAddress) = AddressNext(s) /\ Field(s, GetValue) = ValueNext(s)
           /\ Field(Field(Field(Field(s, ReadAddress), ReadAddress), ReadAddress), GetValue) =
                ValueNext(AddressNext(AddressNext(AddressNext(s))))
BY Zenon DEF Field, AddressNext, ValueNext

LEMMA OneTurn ==
    ASSUME NEW s, ~s.end, ~s.err, ~Eof(s), Here(s) = 0,
           NEW t, t = ValueNext(AddressNext(AddressNext(Skip(s, 1)))), ~t.err
    PROVE  ReadState(s) = IsEnd(IgnoreOpCode(t))
BY Zenon DEF ReadState, Field, AddressNext, ValueNext

\* The fields of a struct, read one by one.
AddressReads(c, p, at, k, v) ==
    \A o : AddressNext(At0(c, Begins(p, at, k), o, Going)) = At0(c, at[k] - 1, Append(o, v), Going)
ValueReads(c, p, at, k, v) ==
    \A o : ValueNext(At0(c, Begins(p, at, k), o, Going)) = At0(c, at[k] - 1, Append(o, v), Going)

LEMMA FieldsRead ==
    ASSUME NEW fields \in Seq(Fields), NEW c, Len(c) \in Nat, NEW p \in Nat,
           NEW at \in [0..Len(fields) -> Nat], StructAt(c, p, fields, at),
           NEW k \in 1..Len(fields)
    PROVE  /\ fields[k] \in Places => AddressReads(c, p, at, k, fields[k])
           /\ fields[k] \in Nat \ {16} => ValueReads(c, p, at, k, fields[k])
<1>1. ASSUME NEW o, fields[k] \in Places
      PROVE  AddressNext(At0(c, Begins(p, at, k), o, Going)) =
               At0(c, at[k] - 1, Append(o, fields[k]), Going)
  <2>1. Field(At0(c, Begins(p, at, k), o, Going), ReadAddress) =
          At0(c, at[k] - 1, Append(o, fields[k]), Going)
    BY <1>1, FieldRead
  <2> QED BY <2>1, Nexts
<1>2. ASSUME NEW o, fields[k] \in Nat \ {16}
      PROVE  ValueNext(At0(c, Begins(p, at, k), o, Going)) =
               At0(c, at[k] - 1, Append(o, fields[k]), Going)
  <2>1. Field(At0(c, Begins(p, at, k), o, Going), GetValue) =
          At0(c, at[k] - 1, Append(o, fields[k]), Going)
    BY <1>2, FieldRead
  <2> QED BY <2>1, Nexts
<1> QED BY <1>1, <1>2 DEF AddressReads, ValueReads

\* Behind a struct: the opcodes end where the next piece is none.
LEMMA OpCodesBehind ==
    ASSUME NEW fields \in Seq(Fields), Len(fields) # 0, NEW c, Len(c) \in Nat, NEW p \in Nat,
           NEW at \in [0..Len(fields) -> Nat], StructAt(c, p, fields, at),
           NEW q, q = p + Len(PushStruct(fields)), q \in 1..Len(c),
           c[q].width > 1 \/ c[q].val \notin OPCODE_IN_PAYLOAD
    PROVE  OpCodes(c, at[Len(fields)] - 1, q)
<1> DEFINE N == Len(fields)
<1>1. N \in 1..N /\ N - 1 \in 0..N /\ N \in 0..N
  <2>1. N \in Nat /\ N # 0
    BY StructParts
  <2> QED BY <2>1
<1>2. PICK b \in Nat : b = at[N]
  BY <1>1
<1>3. b + 1 = q /\ b \in 1..Len(c) /\ c[b] = Byte(\h6c)
  BY <1>2 DEF StructAt
<1>4. FieldStands(c, fields, at, N)
  BY <1>1 DEF StructAt
<1>5. c[b - 1] = Byte(\hc8) /\ b = at[N - 1] + 2 + Len(Push(fields[N]))
  BY <1>2, <1>4 DEF FieldStands
<1>6. fields[N] \in Fields
  BY <1>1, StructParts
<1>7. PICK d \in Nat, l \in {1, 2} : b = d + 2 + l
  BY <1>1, <1>5, <1>6, Pushed
<1>8. ASSUME NEW x \in {\hc8, \h6c} PROVE IsOpCode(Byte(x))
  BY BytesArePieces DEF IsOpCode, OPCODE_IN_PAYLOAD
<1>9. \A i \in b - 1..q - 1 : IsOpCode(c[i])
  <2> SUFFICES ASSUME NEW i \in b - 1..q - 1 PROVE IsOpCode(c[i])
    OBVIOUS
  <2>1. i = b - 1 \/ i = b
    BY <1>3, <1>7
  <2> QED BY <1>3, <1>5, <1>8, <2>1
<1>10. b - 1 \in Nat \ {0} /\ q \in b - 1..Len(c)
  BY <1>3, <1>7
<1>11. OpCodes(c, b - 1, q)
  BY <1>9, <1>10 DEF OpCodes
<1> QED BY <1>2, <1>11

\* The fields of a state, and what is behind it.
StateReads(c, p, at, fields) ==
    \A o : ValueNext(AddressNext(AddressNext(At0(c, Begins(p, at, 1), o, Going)))) =
             At0(c, at[3] - 1, Append(Append(Append(o, fields[1]), fields[2]), fields[3]), Going)

LEMMA ThreeFields ==
    ASSUME NEW fields \in Seq(Fields), NEW c, Len(c) \in Nat, NEW p \in Nat,
           NEW at \in [0..Len(fields) -> Nat], StructAt(c, p, fields, at), Len(fields) = 3,
           fields[1] \in Places, fields[2] \in Places, fields[3] \in Nat \ {16}
    PROVE  StateReads(c, p, at, fields)
<1>1. /\ Begins(p, at, 2) = at[1] - 1 /\ Begins(p, at, 3) = at[2] - 1
      /\ 1 \in 1..Len(fields) /\ 2 \in 1..Len(fields) /\ 3 \in 1..Len(fields)
  BY DEF Begins
<1>2. /\ AddressReads(c, p, at, 1, fields[1]) /\ AddressReads(c, p, at, 2, fields[2])
      /\ ValueReads(c, p, at, 3, fields[3])
  BY <1>1, FieldsRead
<1>3. \A r : AddressNext(At0(c, Begins(p, at, 1), r, Going)) =
               At0(c, at[1] - 1, Append(r, fields[1]), Going)
  BY <1>2 DEF AddressReads
<1>4. \A r : AddressNext(At0(c, at[1] - 1, r, Going)) = At0(c, at[2] - 1, Append(r, fields[2]), Going)
  BY <1>1, <1>2 DEF AddressReads
<1>5. \A r : ValueNext(At0(c, at[2] - 1, r, Going)) = At0(c, at[3] - 1, Append(r, fields[3]), Going)
  BY <1>1, <1>2 DEF ValueReads
<1> QED BY <1>3, <1>4, <1>5 DEF StateReads

\* One turn of the loop reads a state, and then what is behind it.
LEMMA StateRead ==
    ASSUME NEW fields \in Seq(Fields), Len(fields) = 3,
           fields[1] \in Places, fields[2] \in Places, fields[3] \in Nat \ {16},
           NEW c, Len(c) \in Nat, NEW p \in Nat, NEW o, At(c, p, PushStruct(fields)),
           NEW q, q = p + Len(PushStruct(fields)), q \in 1..Len(c),
           c[q].width > 1 \/ c[q].val \notin OPCODE_IN_PAYLOAD
    PROVE  ReadState(At0(c, p, o, Going)) =
             IsEnd(At0(c, q, Append(Append(Append(o, fields[1]), fields[2]), fields[3]), Going))
<1>1. Len(fields) # 0
  OBVIOUS
<1>2. PICK at \in [0..Len(fields) -> Nat] : StructAt(c, p, fields, at)
  BY StructStands
<1>3. PICK r : r = Append(Append(Append(o, fields[1]), fields[2]), fields[3])
  OBVIOUS
<1>4. ValueNext(AddressNext(AddressNext(At0(c, p + 1, o, Going)))) = At0(c, at[3] - 1, r, Going)
  <2>1. Begins(p, at, 1) = p + 1
    BY DEF Begins
  <2>2. ValueNext(AddressNext(AddressNext(At0(c, Begins(p, at, 1), o, Going)))) =
          At0(c, at[3] - 1, r, Going)
    <3>1. StateReads(c, p, at, fields)
      BY <1>2, ThreeFields
    <3> QED BY <1>3, <3>1 DEF StateReads
  <2> QED BY <2>1, <2>2
<1>5. IgnoreOpCode(At0(c, at[3] - 1, r, Going)) = At0(c, q, r, Going)
  <2>1. OpCodes(c, at[Len(fields)] - 1, q)
    BY <1>1, <1>2, OpCodesBehind
  <2>2. OpCodes(c, at[3] - 1, q)
    BY <1>1, <2>1
  <2> QED BY <2>2, Ignored
<1>6. PICK s : s = At0(c, p, o, Going)
  OBVIOUS
<1>7. ~s.end /\ ~s.err /\ ~Eof(s) /\ Here(s) = 0
  <2>1. p \in 1..Len(c) /\ c[p] = Byte(0)
    BY <1>2 DEF StructAt
  <2> QED BY <1>6, <2>1, BytesArePieces DEF At0, Eof, Here, Going
<1>8. PICK t : t = At0(c, at[3] - 1, r, Going)
  OBVIOUS
<1>9. t = ValueNext(AddressNext(AddressNext(Skip(s, 1))))
  BY <1>4, <1>6, <1>8, SkippedOne
<1>10. ~t.err
  BY <1>8 DEF At0
<1>11. ReadState(s) = IsEnd(IgnoreOpCode(t))
  BY <1>7, <1>9, <1>10, OneTurn, Zenon
<1> QED BY <1>3, <1>5, <1>6, <1>8, <1>11

\* The fields of a transferFrom.
LEMMA FourFields ==
    ASSUME NEW fields \in Seq(Fields), NEW c, Len(c) \in Nat,
           NEW at \in [0..Len(fields) -> Nat], StructAt(c, 1, fields, at), Len(fields) = 4,
           fields[1] \in Places, fields[2] \in Places, fields[3] \in Places,
           fields[4] \in Nat \ {16}, NEW o
    PROVE  ValueNext(AddressNext(AddressNext(AddressNext(At0(c, 2, o, Going))))) =
             At0(c, at[4] - 1,
                 Append(Append(Append(Append(o, fields[1]), fields[2]), fields[3]), fields[4]), Going)
<1>1. /\ Begins(1, at, 1) = 2 /\ Begins(1, at, 2) = at[1] - 1
      /\ Begins(1, at, 3) = at[2] - 1 /\ Begins(1, at, 4) = at[3] - 1
      /\ 1 \in 1..Len(fields) /\ 2 \in 1..Len(fields) /\ 3 \in 1..Len(fields)
      /\ 4 \in 1..Len(fields) /\ 1 \in Nat
  BY DEF Begins
<1>2. /\ AddressReads(c, 1, at, 1, fields[1]) /\ AddressReads(c, 1, at, 2, fields[2])
      /\ AddressReads(c, 1, at, 3, fields[3]) /\ ValueReads(c, 1, at, 4, fields[4])
  BY <1>1, FieldsRead
<1>3. AddressNext(At0(c, 2, o, Going)) = At0(c, at[1] - 1, Append(o, fields[1]), Going)
  BY <1>1, <1>2 DEF AddressReads
<1>4. \A r : AddressNext(At0(c, at[1] - 1, r, Going)) = At0(c, at[2] - 1, Append(r, fields[2]), Going)
  BY <1>1, <1>2 DEF AddressReads
<1>5. \A r : AddressNext(At0(c, at[2] - 1, r, Going)) = At0(c, at[3] - 1, Append(r, fields[3]), Going)
  BY <1>1, <1>2 DEF AddressReads
<1>6. \A r : ValueNext(At0(c, at[3] - 1, r, Going)) = At0(c, at[4] - 1, Append(r, fields[4]), Going)
  BY <1>1, <1>2 DEF ValueReads
<1> QED BY <1>3, <1>4, <1>5, <1>6

LEMMA FourRead ==
    ASSUME NEW fields \in Seq(Fields), Len(fields) = 4, fields[1] \in Places,
           fields[2] \in Places, fields[3] \in Places, fields[4] \in Nat \ {16},
           NEW c, Len(c) \in Nat, NEW o, At(c, 1, PushStruct(fields)),
           NEW q, q = 1 + Len(PushStruct(fields)), q \in 1..Len(c),
           c[q].width > 1 \/ c[q].val \notin OPCODE_IN_PAYLOAD
    PROVE  \E r : /\ OpCodes(c, r, q)
                  /\ ValueNext(AddressNext(AddressNext(AddressNext(At0(c, 2, o, Going))))) =
                       At0(c, r, Append(Append(Append(Append(o, fields[1]), fields[2]),
                                               fields[3]), fields[4]), Going)
<1>1. Len(fields) # 0 /\ 1 \in Nat
  OBVIOUS
<1>2. PICK at \in [0..Len(fields) -> Nat] : StructAt(c, 1, fields, at)
  BY <1>1, StructStands
<1>3. OpCodes(c, at[Len(fields)] - 1, q)
  BY <1>1, <1>2, OpCodesBehind
<1>4. OpCodes(c, at[4] - 1, q)
  BY <1>3
<1>5. PICK o4 : o4 = Append(Append(Append(Append(o, fields[1]), fields[2]), fields[3]), fields[4])
  OBVIOUS
<1>6. ValueNext(AddressNext(AddressNext(AddressNext(At0(c, 2, o, Going))))) =
        At0(c, at[4] - 1, o4, Going)
  BY <1>2, <1>5, FourFields
<1> QED BY <1>4, <1>5, <1>6

\* What is behind a state: a further one, or the length of the list, and then
\* PACK.  Whatever the length, the loop ends before or behind PACK.
LEMMA NotEnd ==
    ASSUME NEW c, Len(c) \in Nat, NEW p \in 1..Len(c), c[p] = Byte(0), NEW o
    PROVE  IsEnd(At0(c, p, o, Going)) = At0(c, p, o, Going)
<1>1. PICK s : s = At0(c, p, o, Going)
  OBVIOUS
<1>2. ~Eof(s) /\ Here(s) = 0
  BY <1>1, BytesArePieces DEF Eof, Here, At0
<1>3. IsEnd(s) = s
  BY <1>2, Zenon DEF IsEnd
<1> QED BY <1>1, <1>3

LEMMA Ends ==
    ASSUME NEW c, Len(c) \in Nat, NEW p \in Nat \ {0}, NEW o, NEW n \in Nat \ {0}, n < 2^7,
           At(c, p, PushInteger(n)), NEW q, q = p + Len(PushInteger(n)) + 1,
           c[q - 1] = Byte(\hc1), q \in 1..Len(c),
           c[q].width > 1 \/ c[q].val \notin OPCODE_IN_PAYLOAD
    PROVE  \E r : IsEnd(At0(c, p, o, Going)) = At0(c, r, o, Over) /\ OpCodes(c, r, q)
<1>1. PICK s : s = At0(c, p, o, Going)
  OBVIOUS
<1>2. /\ IsOpCode(Byte(\hc1)) /\ s.pos = p /\ s.code = c
      /\ p <= Len(c) => ~Eof(s) /\ Here(s) = c[p].val
  BY <1>1, BytesArePieces DEF IsOpCode, OPCODE_IN_PAYLOAD, Eof, Here, At0
<1>3. ASSUME ~Eof(s), Here(s) \in 81..95
      PROVE  IsEnd(s) = At0(c, p + 1, o, Over)
  <2>1. IsEnd(s) = [Skip(s, 1) EXCEPT !.end = TRUE]
    BY <1>3, IsEndShort
  <2>2. [Skip(s, 1) EXCEPT !.end = TRUE] = At0(c, p + 1, o, Over)
    BY <1>1, EndsBehind
  <2> QED BY <2>1, <2>2
<1>4. ASSUME ~Eof(s), Here(s) \in {1, 96}, s.pos # Len(s.code), c[p + 1].width = 1
      PROVE  IsEnd(s) = At0(c, p + 2, o, Over)
  <2>1. s.code[s.pos + 1].width = 1
    BY <1>2, <1>4
  <2>2. IsEnd(s) = [Skip(s, 2) EXCEPT !.end = TRUE]
    BY <1>4, <2>1, IsEndLong
  <2>3. [Skip(s, 2) EXCEPT !.end = TRUE] = At0(c, p + 2, o, Over)
    BY <1>1, EndsBehind
  <2> QED BY <2>2, <2>3
<1>5. ASSUME NEW v \in Nat, v = 80 + n, PushInteger(n) = <<Byte(v)>>, n \in 1..16
      PROVE  \E r : IsEnd(s) = At0(c, r, o, Over) /\ OpCodes(c, r, q)
  <2>1. At(c, p, <<Byte(v)>>) /\ Len(<<Byte(v)>>) = 1
    BY <1>5
  <2>2. p \in 1..Len(c) /\ c[p] = Byte(v)
    BY <2>1, OneAt
  <2>3. c[p].val = v /\ q = p + 2 /\ q - 1 = p + 1 /\ ~Eof(s) /\ Here(s) = v /\ s.pos # Len(s.code)
    BY <1>2, <1>5, <2>1, <2>2, BytesArePieces
  <2>4. CASE n \in 1..15
    <3>1. IsEnd(s) = At0(c, p + 1, o, Over)
      BY <1>5, <1>3, <2>3, <2>4
    <3>2. OpCodes(c, p + 1, q)
      BY <1>2, <2>3 DEF OpCodes
    <3> QED BY <3>1, <3>2
  <2>5. CASE n = 16
    <3>1. c[p + 1].width = 1
      <4>1. c[p + 1] = Byte(\hc1)
        BY <2>3
      <4> QED BY <4>1, BytesArePieces
    <3>2. IsEnd(s) = At0(c, p + 2, o, Over)
      BY <1>5, <1>4, <2>3, <2>5, <3>1
    <3>3. OpCodes(c, p + 2, q)
      BY <2>3 DEF OpCodes
    <3> QED BY <3>2, <3>3
  <2>6. n \in 1..15 \/ n = 16
    BY <1>5
  <2> QED BY <2>4, <2>5, <2>6
<1>6. ASSUME PushInteger(n) = <<Byte(1), Piece(1, n)>>
      PROVE  \E r : IsEnd(s) = At0(c, r, o, Over) /\ OpCodes(c, r, q)
  <2> DEFINE x == Byte(1)
             y == Piece(1, n)
  <2>1. At(c, p, <<x, y>>) /\ Len(<<x, y>>) = 2 /\ Len(PushInteger(n)) = Len(<<x, y>>)
    BY <1>6
  <2>2. x.val = 1 /\ y.width = 1
    BY BytesArePieces DEF Piece
  <2> HIDE DEF x, y
  <2>3. p \in 1..Len(c) /\ c[p] = x /\ c[p + 1] = y
    <3>1. At(c, p, <<x, y>>) /\ p \in Nat
      BY <2>1
    <3> QED BY ONLY <3>1, TwoAt
  <2>4. q = p + 3 /\ q - 1 = p + 2 /\ ~Eof(s) /\ Here(s) = 1 /\ s.pos # Len(s.code)
    BY <1>2, <2>1, <2>2, <2>3
  <2>5. c[p + 1].width = 1
    BY <2>2, <2>3
  <2>6. IsEnd(s) = At0(c, p + 2, o, Over)
    BY <1>4, <2>4, <2>5
  <2>7. OpCodes(c, p + 2, q)
    BY <1>2, <2>4 DEF OpCodes
  <2> QED BY <2>6, <2>7
<1>7. CASE n \in 1..16
  <2>1. PushInteger(n) = <<Byte(80 + n)>> /\ 80 + n \in Nat
    BY <1>7 DEF PushInteger
  <2>2. PICK v \in Nat : v = 80 + n
    BY <2>1
  <2>3. PushInteger(n) = <<Byte(v)>>
    BY <2>1, <2>2
  <2>4. \E r : IsEnd(s) = At0(c, r, o, Over) /\ OpCodes(c, r, q)
    BY <1>5, <1>7, <2>2, <2>3
  <2> QED BY <1>1, <2>4
<1>8. CASE n \notin 1..16
  <2>1. n \notin 0..16
    BY <1>8
  <2>2. PushInteger(n) = <<Byte(1), Piece(1, n)>>
    BY <2>1, OneByte
  <2> QED BY <1>1, <1>6, <2>2
<1> QED BY <1>7, <1>8

-----------------------------------------------------------------------------
(* The parts of a payload. *)

LEMMA PartsStand ==
    ASSUME NEW S, NEW f \in Seq(S), NEW m \in Seq(S), NEW b \in Seq(S), NEW g \in Seq(S),
           NEW z \in Seq(S), NEW n \in Seq(S), NEW c, c = f \o m \o b \o g \o z \o n
    PROVE  /\ Len(c) \in Nat /\ Len(f) \in Nat /\ Len(f) <= Len(c)
           /\ Len(m) \in Nat /\ Len(b) \in Nat
           /\ At(c, 1, f) /\ At(c, 1 + Len(f), m) /\ At(c, 1 + Len(f) + Len(m), b)
           /\ At(c, 1 + Len(f) + Len(m) + Len(b), g)
<1> DEFINE x2 == f \o m
           x3 == x2 \o b
           x4 == x3 \o g
           x5 == x4 \o z
<1>1. x2 \in Seq(S) /\ Len(x2) = Len(f) + Len(m)
  BY ConcatProperties
<1>2. c = x5 \o n
  OBVIOUS
<1> HIDE DEF x2
<1>3. x3 \in Seq(S) /\ Len(x3) = Len(x2) + Len(b)
  BY <1>1, ConcatProperties
<1> HIDE DEF x3
<1>4. x4 \in Seq(S) /\ Len(x4) = Len(x3) + Len(g)
  BY <1>3, ConcatProperties
<1> HIDE DEF x4
<1>5. x5 \in Seq(S) /\ Len(x5) = Len(x4) + Len(z)
  BY <1>4, ConcatProperties
<1> HIDE DEF x5
<1>6. c \in Seq(S) /\ Len(c) = Len(x5) + Len(n)
  BY <1>2, <1>5, ConcatProperties
<1>7. /\ Len(f) \in Nat /\ Len(m) \in Nat /\ Len(b) \in Nat /\ Len(g) \in Nat
      /\ Len(z) \in Nat /\ Len(n) \in Nat
  BY LenProperties
<1>8. At(c, 1, x5)
  <2>1. At(c, 1, x5 \o n)
    BY <1>2, <1>6, AtItself
  <2> QED BY <1>5, <2>1, AtConcat
<1>9. At(c, 1, x4)
  BY <1>4, <1>8, AtConcat DEF x5
<1>10. At(c, 1, x3) /\ At(c, 1 + Len(x3), g)
  BY <1>3, <1>9, AtConcat DEF x4
<1>11. At(c, 1, x2) /\ At(c, 1 + Len(x2), b)
  BY <1>1, <1>10, AtConcat DEF x3
<1>12. At(c, 1, f) /\ At(c, 1 + Len(f), m)
  BY <1>11, AtConcat DEF x2
<1>13. /\ 1 + Len(x2) = 1 + Len(f) + Len(m) /\ 1 + Len(x3) = 1 + Len(f) + Len(m) + Len(b)
       /\ Len(c) \in Nat /\ Len(f) <= Len(c)
  BY <1>1, <1>3, <1>4, <1>5, <1>6, <1>7
<1> QED BY <1>7, <1>10, <1>11, <1>12, <1>13

\* The length of the list and PACK, in pieces.
ListPart(method, states) ==
    IF method = Transfer THEN PushInteger(Len(states)) \o <<Byte(\hc1)>> ELSE <<>>

LEMMA ListPartLength ==
    ASSUME NEW method, NEW states, Len(states) \in Nat
    PROVE  /\ ListPart(method, states) \in Seq(Pieces)
           /\ Len(ListPart(method, states)) \in Nat
           /\ method = Transfer => /\ PushInteger(Len(states)) \in Seq(Pieces)
                                   /\ Len(PushInteger(Len(states))) \in Nat
                                   /\ Len(ListPart(method, states)) = Len(PushInteger(Len(states))) + 1
<1>1. CASE method = Transfer
  <2> DEFINE x == PushInteger(Len(states))
             y == <<Byte(\hc1)>>
  <2>1. x \in Seq(Pieces) /\ Len(x) \in Nat
    <3>1. PICK k \in Nat : k = Len(states)
      OBVIOUS
    <3>2. PushInteger(k) \in Seq(Pieces) /\ Len(PushInteger(k)) \in {1, 2}
      BY IntegerPushed
    <3> QED BY <3>1, <3>2
  <2>2. y \in Seq(Pieces) /\ Len(y) = 1
    BY BytesArePieces, FewPieces
  <2>3. ListPart(method, states) = x \o y
    BY <1>1 DEF ListPart
  <2> HIDE DEF x, y
  <2>4. x \o y \in Seq(Pieces) /\ Len(x \o y) = Len(x) + Len(y)
    BY <2>1, <2>2, ConcatProperties
  <2>5. Len(x \o y) = Len(x) + 1 /\ Len(x \o y) \in Nat
    BY <2>1, <2>2, <2>4
  <2> QED BY <2>1, <2>3, <2>4, <2>5 DEF x
<1>2. CASE method # Transfer
  <2>1. ListPart(method, states) = <<>>
    BY <1>2 DEF ListPart
  <2> QED BY <1>2, <2>1, EmptySeq
<1> QED BY <1>1, <1>2

-----------------------------------------------------------------------------
(* The loop over the states of a transfer. *)

IsState(x) == x \in Seq(Fields) /\ Len(x) = 3 /\ x[1] \in Places /\ x[2] \in Places /\ x[3] \in Nat

\* A state takes at least six pieces.
LEMMA StateLong ==
    ASSUME NEW x, IsState(x)
    PROVE  PushStruct(x) \in Seq(Pieces) /\ Len(PushStruct(x)) \in Nat /\ Len(PushStruct(x)) >= 6
<1> DEFINE c == PushStruct(x)
<1>1. x \in Seq(Fields) /\ Len(x) = 3 /\ 1 \in Nat
  BY DEF IsState
<1>2. c \in Seq(Pieces) /\ Len(c) \in Nat
  BY <1>1, StructPushed, LenProperties
<1>3. At(c, 1, c)
  BY <1>2, AtItself
<1>4. PICK at \in [0..Len(x) -> Nat] : StructAt(c, 1, x, at)
  BY <1>1, <1>3, StructStands
<1>5. PICK N \in Nat : N = Len(c)
  BY <1>2
<1>6. at[0] = 4 /\ at[Len(x)] + 1 = 1 + N /\ \A k \in 1..Len(x) : FieldStands(c, x, at, k)
  BY <1>4, <1>5 DEF StructAt
<1>7. at[0] = 4 /\ at[3] = N /\ \A k \in 1..3 : FieldStands(c, x, at, k)
  BY <1>1, <1>4, <1>5, <1>6
<1>8. ASSUME NEW k \in 1..3 PROVE at[k] >= at[k - 1] + 2
  <2>1. x[k] \in Fields
    BY <1>1, StructParts
  <2>2. PICK l \in {1, 2} : l = Len(Push(x[k]))
    BY <2>1, Pushed
  <2>3. at[k] = at[k - 1] + 2 + Len(Push(x[k]))
    BY <1>7 DEF FieldStands
  <2>4. k - 1 \in 0..Len(x)
    BY <1>1
  <2>5. PICK b \in Nat : b = at[k - 1]
    BY <2>4
  <2> QED BY <2>2, <2>3, <2>5
<1>9. PICK a1 \in Nat : a1 = at[1]
  BY <1>1
<1>10. PICK a2 \in Nat : a2 = at[2]
  BY <1>1
<1>11. a1 >= 6 /\ a2 >= a1 + 2 /\ N >= a2 + 2
  <2>1. 1 \in 1..3 /\ 2 \in 1..3 /\ 3 \in 1..3 /\ 1 - 1 = 0 /\ 2 - 1 = 1 /\ 3 - 1 = 2
    OBVIOUS
  <2>2. at[1] >= at[0] + 2 /\ at[2] >= at[1] + 2 /\ at[3] >= at[2] + 2
    BY <1>8, <2>1
  <2> QED BY <1>7, <1>9, <1>10, <2>2
<1> QED BY <1>2, <1>5, <1>11

\* The lists one behind the other grow with each of them.
LEMMA SixEach ==
    ASSUME NEW S, NEW s \in Seq(Seq(S)), NEW f \in [0..Len(s) -> Seq(S)], Flat(f, s),
           \A k \in 1..Len(s) : Len(s[k]) \in Nat /\ Len(s[k]) >= 6
    PROVE  \A k \in 0..Len(s) : Len(f[k]) \in Nat /\ Len(f[k]) >= 6 * k
<1> DEFINE N == Len(s)
           G == {k \in 0..N : Len(f[k]) \in Nat /\ Len(f[k]) >= 6 * k}
<1>1. N \in Nat /\ 0 \in 0..N
  BY LenProperties
<1>2. 0 \in G
  BY <1>1, EmptySeq DEF Flat
<1>3. ASSUME NEW k \in 1..N, k - 1 \in G PROVE k \in G
  <2>1. Len(f[k]) = Len(f[k - 1]) + Len(s[k])
    BY DEF Flat
  <2>2. PICK a \in Nat : a = Len(f[k - 1])
    BY <1>3
  <2>3. PICK b \in Nat : b = Len(s[k])
    OBVIOUS
  <2>4. a >= 6 * (k - 1) /\ b >= 6
    BY <1>3, <2>2, <2>3
  <2>5. a + b \in Nat /\ a + b >= 6 * k
    BY <2>4
  <2>6. k \in 0..N /\ Len(f[k]) = a + b
    BY <1>1, <2>1, <2>2, <2>3
  <2> QED BY <2>5, <2>6
<1> HIDE DEF G
<1>4. \A k \in 0..N : k \in G
  BY <1>1, <1>2, <1>3, Counting
<1> QED BY <1>4 DEF G

\* The turns are what any function with their recursion is.
LEMMA TurnsAre ==
    ASSUME NEW c, NEW M, M = MaxTurns(c), M \in Nat,
           NEW S, NEW r \in [0..M -> S],
           r[0] = Source(c), \A n \in 1..M : r[n] = ReadState(r[n - 1])
    PROVE  Turns(c)[M] = r[M]
<1> DEFINE Rec(g) == g = [n \in 0..M |-> IF n = 0 THEN Source(c) ELSE ReadState(g[n - 1])]
           h == CHOOSE g : Rec(g)
<1>1. Turns(c) = h
  BY Zenon DEF Turns
<1>2. Rec(r)
  <2>1. \A n \in 0..M : r[n] = IF n = 0 THEN Source(c) ELSE ReadState(r[n - 1])
    OBVIOUS
  <2> QED BY <2>1
<1>3. Rec(h)
  <2> HIDE DEF Rec
  <2> QED BY <1>2
<1>4. \A n \in 0..M : h[n] = IF n = 0 THEN Source(c) ELSE ReadState(h[n - 1])
  <2> HIDE DEF h
  <2> QED BY <1>3
<1> DEFINE G == {n \in 0..M : h[n] = r[n]}
<1> HIDE DEF h
<1>5. 0 \in G
  BY <1>4
<1>6. ASSUME NEW n \in 1..M, n - 1 \in G PROVE n \in G
  <2>1. n \in 0..M /\ n # 0 /\ h[n - 1] = r[n - 1]
    BY <1>6
  <2> QED BY <1>4, <2>1
<1>7. \A n \in 0..M : n \in G
  <2> HIDE DEF G
  <2> QED BY <1>5, <1>6, Counting
<1>8. M \in 0..M
  OBVIOUS
<1> QED BY <1>1, <1>7, <1>8

LEMMA ThreeAppended ==
    ASSUME NEW S, NEW o \in Seq(S), NEW x \in Seq(S), Len(x) = 3
    PROVE  o \o x = Append(Append(Append(o, x[1]), x[2]), x[3])
<1>1. x[1] \in S /\ x[2] \in S /\ x[3] \in S
  BY ElementOfSeq
<1>2. PICK a : a = Append(o, x[1])
  OBVIOUS
<1>3. PICK b : b = Append(a, x[2])
  OBVIOUS
<1>4. PICK y : y = Append(b, x[3])
  OBVIOUS
<1>5. PICK N \in Nat : N = Len(o)
  BY LenProperties
<1>6. a \in Seq(S) /\ Len(a) = N + 1 /\ (\A i \in 1..N : a[i] = o[i]) /\ a[N + 1] = x[1]
  BY <1>1, <1>2, <1>5, AppendProperties
<1>7. b \in Seq(S) /\ Len(b) = N + 2 /\ (\A i \in 1..N + 1 : b[i] = a[i]) /\ b[N + 2] = x[2]
  BY <1>1, <1>3, <1>5, <1>6, AppendProperties
<1>8. y \in Seq(S) /\ Len(y) = N + 3 /\ (\A i \in 1..N + 2 : y[i] = b[i]) /\ y[N + 3] = x[3]
  BY <1>1, <1>4, <1>5, <1>7, AppendProperties
<1>9. PICK z : z = o \o x
  OBVIOUS
<1>10. z \in Seq(S) /\ Len(z) = Len(o) + Len(x)
  BY <1>9, ConcatProperties
<1>11. \A i \in 1..Len(o) + Len(x) : z[i] = IF i <= Len(o) THEN o[i] ELSE x[i - Len(o)]
  BY <1>9, ConcatProperties
<1>12. ASSUME NEW i \in 1..N + 3 PROVE y[i] = z[i]
  <2>1. i \in 1..Len(o) + Len(x)
    BY <1>5
  <2>2. z[i] = IF i <= N THEN o[i] ELSE x[i - N]
    BY <1>5, <1>11, <2>1
  <2>3. CASE i <= N
    BY <1>5, <1>6, <1>7, <1>8, <2>2, <2>3
  <2>4. CASE i = N + 1
    BY <1>5, <1>6, <1>7, <1>8, <2>2, <2>4
  <2>5. CASE i = N + 2
    BY <1>5, <1>7, <1>8, <2>2, <2>5
  <2>6. CASE i = N + 3
    BY <1>5, <1>8, <2>2, <2>6
  <2> QED BY <1>5, <2>3, <2>4, <2>5, <2>6
<1>13. Len(z) = N + 3
  BY <1>5, <1>10
<1>14. y = z
  BY <1>8, <1>10, <1>12, <1>13, SeqEqual
<1> QED BY <1>2, <1>3, <1>4, <1>9, <1>14

\* A turn.
LEMMA TurnReads ==
    ASSUME NEW x, IsState(x), x[3] # 16, NEW o \in Seq(Fields),
           NEW c, Len(c) \in Nat, NEW p \in Nat, At(c, p, PushStruct(x)),
           NEW q, q = p + Len(PushStruct(x)), q \in 1..Len(c),
           c[q].width > 1 \/ c[q].val \notin OPCODE_IN_PAYLOAD
    PROVE  ReadState(At0(c, p, o, Going)) = IsEnd(At0(c, q, o \o x, Going))
<1>1. /\ x \in Seq(Fields) /\ Len(x) = 3 /\ x[1] \in Places /\ x[2] \in Places
      /\ x[3] \in Nat \ {16}
  BY DEF IsState
<1>2. ReadState(At0(c, p, o, Going)) =
        IsEnd(At0(c, q, Append(Append(Append(o, x[1]), x[2]), x[3]), Going))
  BY <1>1, StateRead
<1>3. o \o x = Append(Append(Append(o, x[1]), x[2]), x[3])
  BY <1>1, ThreeAppended
<1> QED BY <1>2, <1>3

\* The states of a list stand in the code, each where the one before it ends;
\* read are the states before it.
ListAt(c, states, at, read, L) ==
    /\ at[0] = 1 /\ read[0] = <<>>
    /\ \A k \in 0..L : at[k] \in Nat /\ at[k] >= 1 + 6 * k /\ read[k] \in Seq(Fields)
    /\ \A k \in 1..L :
          /\ IsState(states[k]) /\ states[k][3] # 16
          /\ At(c, at[k - 1], PushStruct(states[k]))
          /\ at[k] = at[k - 1] + Len(PushStruct(states[k]))
          /\ read[k] = read[k - 1] \o states[k]

LEMMA ListStands ==
    ASSUME NEW states \in Seq(Seq(Fields)), NEW L \in Nat \ {0}, L = Len(states),
           \A i \in 1..L : IsState(states[i]) /\ states[i][3] # 16,
           NEW s \in Seq(Seq(Pieces)), Len(s) = L,
           \A i \in 1..L : s[i] = PushStruct(states[i]),
           NEW c, Len(c) \in Nat, At(c, 1, FlattenSeq(s))
    PROVE  \E at, read : /\ ListAt(c, states, at, read, L)
                         /\ at[L] = 1 + Len(FlattenSeq(s)) /\ read[L] = FlattenSeq(states)
<1>1. PICK P \in [0..L -> Seq(Pieces)] : Flat(P, s)
  BY Flattened
<1>2. PICK Q \in [0..L -> Seq(Fields)] : Flat(Q, states)
  BY Flattened
<1>3. /\ P[0] = <<>> /\ FlattenSeq(s) = P[L]
      /\ \A k \in 1..L : Len(P[k]) = Len(P[k - 1]) + Len(s[k])
  BY <1>1 DEF Flat
<1>4. /\ Q[0] = <<>> /\ FlattenSeq(states) = Q[L]
      /\ \A k \in 1..L : Q[k] = Q[k - 1] \o states[k]
  BY <1>2 DEF Flat
<1>5. \A k \in 1..L : At(c, 1 + Len(P[k - 1]), s[k])
  <2>1. 1 \in Nat
    OBVIOUS
  <2> QED BY <1>1, <2>1, AtFlattened
<1>6. ASSUME NEW k \in 1..L PROVE Len(s[k]) \in Nat /\ Len(s[k]) >= 6
  <2>1. PICK x : x = states[k]
    OBVIOUS
  <2>2. IsState(x) /\ s[k] = PushStruct(x)
    BY <2>1
  <2> QED BY <2>2, StateLong
<1>7. \A k \in 0..L : Len(P[k]) \in Nat /\ Len(P[k]) >= 6 * k
  BY <1>1, <1>6, SixEach
<1>8. PICK at : at = [k \in 0..L |-> 1 + Len(P[k])]
  OBVIOUS
<1>9. \A k \in 0..L : at[k] = 1 + Len(P[k]) /\ at[k] \in Nat /\ at[k] >= 1 + 6 * k
  BY <1>7, <1>8
<1>10. at[0] = 1 /\ at[L] = 1 + Len(FlattenSeq(s))
  <2>1. 0 \in 0..L /\ L \in 0..L
    OBVIOUS
  <2>2. Len(P[0]) = 0
    BY <1>3, EmptySeq
  <2>3. at[0] = 1 + Len(P[0])
    BY <1>9, <2>1
  <2>4. at[0] = 1
    BY <2>2, <2>3
  <2>5. at[L] = 1 + Len(P[L])
    BY <1>9, <2>1
  <2> QED BY <1>3, <2>4, <2>5
<1>11. ASSUME NEW k \in 1..L
       PROVE  /\ At(c, at[k - 1], PushStruct(states[k]))
              /\ at[k] = at[k - 1] + Len(PushStruct(states[k]))
  <2>1. k - 1 \in 0..L /\ k \in 0..L
    OBVIOUS
  <2>2. at[k - 1] = 1 + Len(P[k - 1]) /\ at[k] = 1 + Len(P[k])
    BY <1>9, <2>1
  <2>3. s[k] = PushStruct(states[k])
    OBVIOUS
  <2>4. At(c, at[k - 1], PushStruct(states[k]))
    BY <1>5, <2>2, <2>3
  <2>5. PICK a \in Nat : a = Len(P[k - 1])
    BY <1>7, <2>1
  <2>6. PICK b \in Nat : b = Len(s[k])
    BY <1>6
  <2>7. Len(P[k]) = a + b
    BY <1>3, <2>5, <2>6
  <2>8. at[k] = at[k - 1] + b
    <3>1. at[k - 1] = 1 + a /\ at[k] = 1 + (a + b)
      BY ONLY <2>2, <2>5, <2>7
    <3>2. 1 + (a + b) = (1 + a) + b
      OBVIOUS
    <3> QED BY ONLY <3>1, <3>2
  <2>9. at[k] = at[k - 1] + Len(s[k])
    BY <2>6, <2>8
  <2>10. at[k] = at[k - 1] + Len(PushStruct(states[k]))
    BY ONLY <2>3, <2>9
  <2> QED BY ONLY <2>4, <2>10
<1>12. \A k \in 0..L : Q[k] \in Seq(Fields)
  OBVIOUS
<1>13. ListAt(c, states, at, Q, L)
  BY <1>4, <1>9, <1>10, <1>11, <1>12 DEF ListAt
<1> QED BY <1>4, <1>10, <1>13

\* A further state begins like any.
LEMMA StateBegins ==
    ASSUME NEW c, Len(c) \in Nat, NEW p \in Nat, NEW x, IsState(x), At(c, p, PushStruct(x))
    PROVE  /\ p \in 1..Len(c) /\ c[p] = Byte(0)
           /\ c[p].width > 1 \/ c[p].val \notin OPCODE_IN_PAYLOAD
<1>1. x \in Seq(Fields)
  BY DEF IsState
<1>2. PICK at \in [0..Len(x) -> Nat] : StructAt(c, p, x, at)
  BY <1>1, StructStands
<1>3. p \in 1..Len(c) /\ c[p] = Byte(0)
  BY <1>2 DEF StructAt
<1>4. c[p].val = 0
  BY <1>3, BytesArePieces
<1>5. 0 \notin OPCODE_IN_PAYLOAD
  BY DEF OPCODE_IN_PAYLOAD
<1> QED BY <1>3, <1>4, <1>5

LEMMA ListTurns ==
    ASSUME NEW c, Len(c) \in Nat, NEW states, NEW at, NEW read, NEW L \in Nat \ {0},
           ListAt(c, states, at, read, L), at[L] \in 1..Len(c),
           c[at[L]].width > 1 \/ c[at[L]].val \notin OPCODE_IN_PAYLOAD
    PROVE  \A k \in 1..L :
              /\ ReadState(At0(c, at[k - 1], read[k - 1], Going)) = IsEnd(At0(c, at[k], read[k], Going))
              /\ k # L => IsEnd(At0(c, at[k], read[k], Going)) = At0(c, at[k], read[k], Going)
<1> SUFFICES ASSUME NEW k \in 1..L
             PROVE  /\ ReadState(At0(c, at[k - 1], read[k - 1], Going)) =
                         IsEnd(At0(c, at[k], read[k], Going))
                    /\ k # L => IsEnd(At0(c, at[k], read[k], Going)) = At0(c, at[k], read[k], Going)
  OBVIOUS
<1>1. /\ IsState(states[k]) /\ states[k][3] # 16 /\ At(c, at[k - 1], PushStruct(states[k]))
      /\ at[k] = at[k - 1] + Len(PushStruct(states[k])) /\ read[k] = read[k - 1] \o states[k]
  BY DEF ListAt
<1>2. k - 1 \in 0..L /\ k \in 0..L
  OBVIOUS
<1>3. at[k - 1] \in Nat /\ at[k] \in Nat /\ read[k - 1] \in Seq(Fields)
  BY <1>2 DEF ListAt
<1>4. PICK x : x = states[k]
  OBVIOUS
<1>5. PICK p : p = at[k - 1]
  OBVIOUS
<1>6. PICK q : q = at[k]
  OBVIOUS
<1>7. PICK o : o = read[k - 1]
  OBVIOUS
<1>8. ASSUME k # L PROVE c[q] = Byte(0) /\ q \in 1..Len(c)
                         /\ (c[q].width > 1 \/ c[q].val \notin OPCODE_IN_PAYLOAD)
  <2>1. PICK j \in 1..L : j = k + 1 /\ j - 1 = k
    BY <1>8
  <2>2. IsState(states[j]) /\ At(c, at[j - 1], PushStruct(states[j]))
    BY DEF ListAt
  <2>3. PICK y : y = states[j]
    OBVIOUS
  <2>4. IsState(y) /\ At(c, q, PushStruct(y)) /\ q \in Nat
    BY <1>3, <1>6, <2>1, <2>2, <2>3
  <2> QED BY <2>4, StateBegins
<1>9. q \in 1..Len(c) /\ (c[q].width > 1 \/ c[q].val \notin OPCODE_IN_PAYLOAD)
  BY <1>6, <1>8
<1>10. /\ IsState(x) /\ x[3] # 16 /\ At(c, p, PushStruct(x)) /\ q = p + Len(PushStruct(x))
       /\ p \in Nat /\ o \in Seq(Fields) /\ read[k] = o \o x
  BY <1>1, <1>3, <1>4, <1>5, <1>6, <1>7
<1>11. ReadState(At0(c, p, o, Going)) = IsEnd(At0(c, q, o \o x, Going))
  BY <1>9, <1>10, TurnReads
<1>12. ASSUME k # L PROVE IsEnd(At0(c, q, o \o x, Going)) = At0(c, q, o \o x, Going)
  BY <1>8, <1>12, NotEnd
<1> QED BY <1>5, <1>6, <1>7, <1>10, <1>11, <1>12

\* What the turns of the loop have read: as many states, and in the end all of
\* them and the length of the list.
LEMMA LoopReads ==
    ASSUME NEW c, Len(c) \in Nat, NEW states, NEW at, NEW read, NEW L \in Nat \ {0}, L < 2^7,
           ListAt(c, states, at, read, L), At(c, at[L], PushInteger(L)),
           NEW m, m = at[L] + Len(PushInteger(L)) + 1, c[m - 1] = Byte(\hc1), m \in 1..Len(c),
           c[m].width > 1 \/ c[m].val \notin OPCODE_IN_PAYLOAD
    PROVE  \E r : OpCodes(c, r, m) /\ Turns(c)[MaxTurns(c)] = At0(c, r, read[L], Over)
<1>1. PICK q : q = at[L]
  OBVIOUS
<1>2. L \in 0..L
  OBVIOUS
<1>3. q \in Nat /\ q >= 1 + 6 * L
  BY <1>1, <1>2 DEF ListAt
<1>4. q \in 1..Len(c) /\ (c[q].width > 1 \/ c[q].val \notin OPCODE_IN_PAYLOAD)
  <2>1. L \in Fields /\ Push(L) = PushInteger(L)
    BY Pushed DEF Fields
  <2>2. At(c, q, Push(L))
    BY <1>1, <2>1
  <2> QED BY <1>3, <2>1, <2>2, PushStart
<1>5. \A k \in 1..L :
         /\ ReadState(At0(c, at[k - 1], read[k - 1], Going)) = IsEnd(At0(c, at[k], read[k], Going))
         /\ k # L => IsEnd(At0(c, at[k], read[k], Going)) = At0(c, at[k], read[k], Going)
  BY <1>1, <1>4, ListTurns
<1>6. PICK o : o = read[L]
  OBVIOUS
<1>7. q \in Nat \ {0} /\ At(c, q, PushInteger(L)) /\ m = q + Len(PushInteger(L)) + 1
  BY <1>1, <1>3
<1>8. \E r : IsEnd(At0(c, q, o, Going)) = At0(c, r, o, Over) /\ OpCodes(c, r, m)
  BY <1>7, Ends
<1>9. PICK r : IsEnd(At0(c, q, o, Going)) = At0(c, r, o, Over) /\ OpCodes(c, r, m)
  BY <1>8
<1>10. PICK over : over = At0(c, r, o, Over)
  OBVIOUS
<1>11. ReadState(over) = over
  BY <1>10 DEF ReadState, At0, Over
<1>12. PICK M : M = MaxTurns(c)
  OBVIOUS
<1>13. M \in Nat /\ L <= M
  <2>1. PICK N \in Nat : N = Len(c)
    OBVIOUS
  <2>2. q <= N
    BY <1>4, <2>1
  <2>3. N >= 6 * L
    BY <1>3, <2>1, <2>2
  <2>4. M = N \div 6 + 1
    BY <1>12, <2>1 DEF MaxTurns
  <2> QED BY <2>1, <2>3, <2>4
<1>14. PICK f : f = [k \in 0..M |-> IF k < L THEN At0(c, at[k], read[k], Going) ELSE over]
  OBVIOUS
<1>15. \A k \in 0..M : f[k] = IF k < L THEN At0(c, at[k], read[k], Going) ELSE over
  BY <1>14
<1>16. PICK S : f \in [0..M -> S]
  <2>1. f \in [0..M -> {f[k] : k \in 0..M}]
    BY <1>14
  <2> QED BY <2>1
<1>17. f[0] = Source(c)
  <2>1. 0 \in 0..M /\ 0 < L
    BY <1>13
  <2>2. f[0] = At0(c, at[0], read[0], Going)
    BY <1>15, <2>1
  <2>3. f[0] = At0(c, 1, <<>>, Going)
    BY <2>2 DEF ListAt
  <2> QED BY <2>3 DEF Source, At0, Going
<1>18. ASSUME NEW k \in 1..M PROVE f[k] = ReadState(f[k - 1])
  <2>1. k \in 0..M /\ k - 1 \in 0..M
    BY <1>13
  <2>2. CASE k < L
    <3>1. k \in 1..L /\ k # L /\ k - 1 < L
      BY <2>2
    <3>2. f[k - 1] = At0(c, at[k - 1], read[k - 1], Going) /\ f[k] = At0(c, at[k], read[k], Going)
      BY <1>15, <2>1, <2>2, <3>1
    <3>3. ReadState(At0(c, at[k - 1], read[k - 1], Going)) = At0(c, at[k], read[k], Going)
      BY <1>5, <3>1
    <3> QED BY <3>2, <3>3
  <2>3. CASE k = L
    <3>1. k \in 1..L /\ k - 1 < L
      BY <2>3
    <3>2. f[k - 1] = At0(c, at[k - 1], read[k - 1], Going) /\ f[k] = over
      BY <1>15, <2>1, <2>3, <3>1
    <3>3. ReadState(f[k - 1]) = IsEnd(At0(c, at[k], read[k], Going))
      BY <1>5, <3>1, <3>2
    <3>4. at[k] = q /\ read[k] = o
      BY <1>1, <1>6, <2>3
    <3> QED BY <1>9, <1>10, <3>2, <3>3, <3>4
  <2>4. CASE k > L
    <3>1. ~(k - 1 < L) /\ ~(k < L)
      BY <2>4
    <3>2. f[k - 1] = over /\ f[k] = over
      BY <1>15, <2>1, <3>1
    <3> QED BY <1>11, <3>2
  <2> QED BY <2>2, <2>3, <2>4
<1>19. Turns(c)[M] = f[M]
  <2>1. \A n \in 1..M : f[n] = ReadState(f[n - 1])
    BY <1>18
  <2>2. M \in Nat
    BY <1>13
  <2> QED BY ONLY <1>12, <1>16, <1>17, <2>1, <2>2, TurnsAre
<1>20. f[M] = over
  <2>1. M \in 0..M /\ ~(M < L)
    BY <1>13
  <2> QED BY <1>15, <2>1
<1> QED BY <1>6, <1>9, <1>10, <1>12, <1>19, <1>20

-----------------------------------------------------------------------------
(* What is read of a transfer, of a transferFrom, and of what Gas builds.   *)

LEMMA NoOpCode ==
    ASSUME NEW n \in {8, 12}, NEW x, x = Byte(n)
    PROVE  x.val \notin OPCODE_IN_PAYLOAD
<1>1. x.val = n
  BY BytesArePieces
<1> QED BY <1>1 DEF OPCODE_IN_PAYLOAD

\* The call behind the states: where it begins, and what it ends with.
CallAt(c, m) ==
    /\ m \in Nat /\ m + 3 \in 1..Len(c) /\ m \in 1..Len(c) /\ c[m].val \notin OPCODE_IN_PAYLOAD
    /\ c[m] = Byte(c[m + 1].width) /\ c[m + 2] = Byte(20)
    /\ c[m + 3] = Piece(20, GAS_CONTRACT_ADDRESS)

LEMMA CallRead ==
    ASSUME NEW c, Len(c) \in Nat, NEW m, CallAt(c, m), NEW r, OpCodes(c, r, m), NEW o, NEW e
    PROVE  Result(ReadCallee(At0(c, r, o, e))) = Append(o, GAS_CONTRACT_ADDRESS)
<1>1. /\ m \in Nat /\ m + 3 \in 1..Len(c) /\ c[m] = Byte(c[m + 1].width)
       /\ c[m + 2] = Byte(20) /\ c[m + 3].width = 20 /\ c[m + 3].val = GAS_CONTRACT_ADDRESS
  BY DEF CallAt, Piece
<1>2. m < Len(c) /\ m + 2 < Len(c)
  BY <1>1
<1>3. Field(At0(c, r, o, e), NextVarBytes) = At0(c, m + 2, Append(o, c[m + 1].val), e)
  BY <1>2, <1>1, VarBytesRead
<1>4. PICK n : n = At0(c, m + 2, Append(o, c[m + 1].val), e)
  OBVIOUS
<1>5. PICK s : s = At0(c, r, o, e)
  OBVIOUS
<1>6. ~n.err /\ s.out = o
  BY <1>4, <1>5 DEF At0
<1>7. Field(s, NextVarBytes) = n
  BY <1>3, <1>4, <1>5
<1>8. ReadCallee(s) = ReadAddress([n EXCEPT !.out = s.out])
  BY <1>6, <1>7, Zenon DEF ReadCallee
<1>9. PICK t : t = [n EXCEPT !.out = s.out]
  OBVIOUS
<1>10. t = At0(c, m + 2, o, e)
  BY <1>4, <1>6, <1>9 DEF At0
<1>11. ReadAddress(t) = At0(c, m + 4, Append(o, c[m + 3].val), e)
  <2>1. t.pos = m + 2 /\ t.code = c /\ t.out = o
    BY <1>10 DEF At0
  <2>2. m + 2 + 1 = m + 3 /\ m + 2 + 2 = m + 4
    BY <1>1
  <2>3. AtVarBytes(t)
    BY <1>2, <1>1, <2>1, <2>2 DEF AtVarBytes
  <2>4. ReadAddress(t) = Read(t, c[m + 3].val, 2)
    BY <1>1, <2>1, <2>2, <2>3 DEF ReadAddress, NextVarBytes
  <2>5. PICK u : u = Read(t, c[m + 3].val, 2)
    OBVIOUS
  <2>6. u = At0(c, m + 4, Append(o, c[m + 3].val), e)
    BY <1>10, <2>2, <2>5 DEF Read, At0
  <2> QED BY <2>4, <2>5, <2>6
<1>12. PICK u : u = At0(c, m + 4, Append(o, c[m + 3].val), e)
  OBVIOUS
<1>13. ~u.err /\ u.out = Append(o, c[m + 3].val)
  BY <1>12 DEF At0
<1>14. Result(u) = u.out
  BY <1>13, Zenon DEF Result
<1> QED BY <1>5, <1>8, <1>9, <1>11, <1>12, <1>13, <1>14, <1>1

LEMMA OfLength ==
    ASSUME NEW S, NEW n \in Nat, NEW f \in [1..n -> S]
    PROVE  f \in Seq(S)
BY SeqDef

\* The parts of a payload, and the place of its call.
PartsAt(method, states, c, s, m) ==
    /\ s \in Seq(Seq(Pieces)) /\ Len(s) = Len(states)
    /\ \A i \in 1..Len(states) : s[i] = PushStruct(states[i])
    /\ Len(c) \in Nat /\ At(c, 1, FlattenSeq(s)) /\ CallAt(c, m)
    /\ method = Transfer =>
          /\ At(c, 1 + Len(FlattenSeq(s)), PushInteger(Len(states)))
          /\ m = 1 + Len(FlattenSeq(s)) + Len(PushInteger(Len(states))) + 1
          /\ c[m - 1] = Byte(\hc1)
    /\ method = TransferFrom => m = 1 + Len(FlattenSeq(s))

LEMMA CallStands ==
    ASSUME NEW method \in {Transfer, TransferFrom}, NEW states \in Seq(Seq(Fields)),
           NEW name \in {Piece(20, SystemNativeInvoke), Piece(22, OntologyNativeInvoke)},
           NEW c, c = BuildNativeInvokeCode(method, states, name)
    PROVE  \E s, m : PartsAt(method, states, c, s, m)
<1>1. PICK s : s = [i \in DOMAIN states |-> PushStruct(states[i])]
  OBVIOUS
<1>2. PICK q : q = 1 + Len(FlattenSeq(s))
  OBVIOUS
<1>3. PICK l : l = Len(ListPart(method, states))
  OBVIOUS
<1> DEFINE f == FlattenSeq(s)
           p == ListPart(method, states)
           b == PushBytes(method)
           g == Push(GAS_CONTRACT_ADDRESS)
           z == <<Byte(0), Byte(\h68)>>
           n == PushBytes(name)
<1>4. s \in Seq(Seq(Pieces)) /\ Len(s) = Len(states) /\ Len(states) \in Nat
  <2>1. /\ Len(states) \in Nat /\ DOMAIN states = 1..Len(states)
        /\ \A i \in 1..Len(states) : states[i] \in Seq(Fields)
    BY LenProperties, ElementOfSeq
  <2>2. \A i \in 1..Len(states) : PushStruct(states[i]) \in Seq(Pieces)
    BY <2>1, StructPushed
  <2>3. s \in [1..Len(states) -> Seq(Pieces)]
    BY <1>1, <2>1, <2>2
  <2>4. s \in Seq(Seq(Pieces))
    <3>1. PICK N \in Nat : N = Len(states)
      BY <2>1
    <3>2. s \in [1..N -> Seq(Pieces)]
      BY <2>3, <3>1
    <3> QED BY ONLY <3>1, <3>2, OfLength
  <2>5. Len(s) = Len(states)
    BY ONLY <2>1, <2>3, <2>4, LenProperties
  <2> QED BY <2>1, <2>4, <2>5
<1>5. f \in Seq(Pieces)
  BY <1>4, FlattenSeqType
<1>6. p \in Seq(Pieces) /\ Len(p) = l
  BY <1>3, <1>4, ListPartLength
<1>7. /\ method \in Pieces /\ method.width = IF method = Transfer THEN 8 ELSE 12
      /\ name \in Pieces
  BY DEF Transfer, TransferFrom, Piece, Pieces, Values
<1>8. b = <<Byte(method.width), method>> /\ n = <<Byte(name.width), name>>
  BY DEF PushBytes
<1>9. Byte(method.width) \in Pieces /\ Byte(name.width) \in Pieces
  <2>1. method.width \in Nat /\ name.width \in Nat
    BY <1>7 DEF Pieces
  <2> QED BY <2>1, BytesArePieces
<1>10. b \in Seq(Pieces) /\ Len(b) = 2 /\ n \in Seq(Pieces)
  <2> HIDE DEF b, n
  <2> QED BY <1>7, <1>8, <1>9, FewPieces
<1>11. z \in Seq(Pieces)
  BY BytesArePieces, FewPieces
<1>12. /\ GAS_CONTRACT_ADDRESS \in Places /\ GAS_CONTRACT_ADDRESS \in Fields
      /\ g \in Seq(Pieces)
  BY PlacesAssumption, Pushed DEF Fields
<1>13. c = f \o p \o b \o g \o z \o n
  BY <1>1, Zenon DEF BuildNativeInvokeCode, ListPart
<1> HIDE DEF f, p, b, g, z, n
<1>14. /\ Len(c) \in Nat /\ Len(f) \in Nat /\ Len(f) <= Len(c)
       /\ Len(p) \in Nat /\ Len(b) \in Nat
       /\ At(c, 1, f) /\ At(c, 1 + Len(f), p) /\ At(c, 1 + Len(f) + Len(p), b)
       /\ At(c, 1 + Len(f) + Len(p) + Len(b), g)
  BY <1>5, <1>6, <1>10, <1>11, <1>12, <1>13, PartsStand
<1>15. q = 1 + Len(f) /\ q \in Nat /\ q <= Len(c) + 1 /\ l \in Nat
  BY <1>2, <1>6, <1>14 DEF f
<1>16. At(c, q, p) /\ At(c, q + l, b) /\ At(c, q + l + 2, g) /\ q + l \in Nat /\ q + l + 2 \in Nat
  <2>1. PICK h \in Nat : h = Len(f)
    BY <1>14
  <2>2. l \in Nat /\ q = 1 + h
    BY <1>15, <2>1
  <2>3. /\ 1 + h + l = q + l /\ 1 + h + l + 2 = q + l + 2
        /\ q + l \in Nat /\ q + l + 2 \in Nat
    BY <2>2
  <2>4. At(c, 1 + h, p) /\ At(c, 1 + h + l, b) /\ At(c, 1 + h + l + 2, g)
    BY <1>6, <1>10, <1>14, <2>1, Zenon
  <2> QED BY <2>2, <2>3, <2>4, Zenon
<1>17. /\ q + l \in 1..Len(c) /\ q + l + 1 \in 1..Len(c)
       /\ c[q + l] = Byte(method.width) /\ c[q + l + 1] = method
  <2> DEFINE x == Byte(method.width)
  <2>1. At(c, q + l, <<x, method>>)
    BY <1>8, <1>16
  <2> HIDE DEF x
  <2>2. PICK k \in Nat : k = q + l
    BY <1>16
  <2>3. k \in 1..Len(c) /\ k + 1 \in 1..Len(c) /\ c[k] = x /\ c[k + 1] = method
    BY <2>1, <2>2, TwoAt
  <2> QED BY <2>2, <2>3 DEF x
<1>18. /\ q + l + 3 \in 1..Len(c) /\ c[q + l + 2] = Byte(20)
       /\ c[q + l + 3] = Piece(20, GAS_CONTRACT_ADDRESS)
  <2> DEFINE x == Byte(20)
             y == Piece(20, GAS_CONTRACT_ADDRESS)
  <2>1. g = <<x, y>>
    BY <1>12, Pushed DEF g
  <2> HIDE DEF x, y
  <2>2. PICK k \in Nat : k = q + l + 2
    BY <1>16
  <2>3. At(c, k, <<x, y>>)
    BY <1>16, <2>1, <2>2
  <2>4. k + 1 \in 1..Len(c) /\ c[k] = x /\ c[k + 1] = y
    BY <2>3, TwoAt
  <2>5. k + 1 = q + l + 3
    BY <1>15, <2>2
  <2>6. q + l + 3 \in 1..Len(c) /\ c[q + l + 2] = x /\ c[q + l + 3] = y
    BY <2>2, <2>4, <2>5, Zenon
  <2> QED BY <2>6 DEF x, y
<1>19. ASSUME method = Transfer
       PROVE  At(c, q, PushInteger(Len(states))) /\ c[q + l - 1] = Byte(\hc1)
  <2> DEFINE x == PushInteger(Len(states))
             y == Byte(\hc1)
  <2>1. x \in Seq(Pieces) /\ <<y>> \in Seq(Pieces) /\ Len(x) \in Nat
    <3>1. x \in Seq(Pieces) /\ Len(x) \in Nat
      BY <1>4, <1>19, ListPartLength
    <3>2. <<y>> \in Seq(Pieces)
      BY BytesArePieces, FewPieces
    <3> QED BY <3>1, <3>2
  <2>2. p = x \o <<y>> /\ l = Len(x) + 1
    BY <1>3, <1>4, <1>19, ListPartLength DEF p, ListPart
  <2> HIDE DEF x, y
  <2>3. At(c, q, x) /\ At(c, q + Len(x), <<y>>)
    BY <1>15, <1>16, <2>1, <2>2, AtConcat
  <2>4. PICK d \in Nat : d = Len(x)
    BY <2>1
  <2>5. q \in Nat
    BY <1>15
  <2>6. PICK h \in Nat : h = q
    BY <2>5
  <2>7. PICK k \in Nat : k = h + d
    OBVIOUS
  <2>8. c[k] = y
    <3>1. At(c, k, <<y>>)
      BY <2>3, <2>7, <2>4, <2>6
    <3> QED BY <3>1, OneAt
  <2>9. k = q + l - 1
    <3>1. l = d + 1
      BY <2>2, <2>4
    <3> QED BY <2>7, <2>6, <3>1
  <2>10. At(c, q, x) /\ c[q + l - 1] = y
    BY <2>3, <2>8, <2>9, Zenon
  <2> QED BY <2>10 DEF x, y
<1>20. c[q + l] = Byte(c[q + l + 1].width)
  BY <1>17
<1>21. PICK m : m = q + l
  OBVIOUS
<1>22. q # 0
  <2>1. FlattenSeq(s) \in Seq(Pieces)
    BY <1>4, FlattenSeqType
  <2>2. Len(FlattenSeq(s)) \in Nat
    BY <2>1, LenProperties
  <2> QED BY <1>2, <2>2
<1>23. m \in Nat /\ m + 3 \in 1..Len(c) /\ m \in 1..Len(c)
  <2>1. PICK N \in Nat : N = Len(c)
    BY <1>14
  <2>2. q \in Nat /\ l \in Nat /\ q + l + 3 \in 1..N /\ q # 0 /\ N \in Nat
    BY <1>15, <1>18, <1>22, <2>1
  <2>3. m \in Nat /\ m + 3 \in 1..N /\ m \in 1..N
    BY ONLY <1>21, <2>2
  <2> QED BY <2>1, <2>3
<1>24. PICK w \in {8, 12} : c[m] = Byte(w)
  BY <1>7, <1>17, <1>21
<1>25. PICK x : x = c[m]
  OBVIOUS
<1>26. x.val \notin OPCODE_IN_PAYLOAD
  BY <1>24, <1>25, NoOpCode
<1>27. CallAt(c, m)
  <2>1. c[m] = Byte(c[q + l + 1].width) /\ c[m + 2] = Byte(20)
    BY <1>18, <1>20, <1>21
  <2>2. q + l + 1 = m + 1 /\ q + l + 3 = m + 3
    BY <1>15, <1>21
  <2> QED BY <1>18, <1>23, <1>25, <1>26, <2>1, <2>2 DEF CallAt
<1>28. \A i \in 1..Len(states) : s[i] = PushStruct(states[i])
  <2>1. DOMAIN states = 1..Len(states)
    BY LenProperties
  <2> QED BY <1>1, <2>1
<1>29. PICK L \in Nat : L = Len(states)
  BY LenProperties
<1>30. ASSUME method = Transfer
       PROVE  /\ At(c, q, PushInteger(L)) /\ m = q + Len(PushInteger(L)) + 1
              /\ c[m - 1] = Byte(\hc1)
  <2>1. At(c, q, PushInteger(L)) /\ c[q + l - 1] = Byte(\hc1)
    BY <1>19, <1>29, <1>30
  <2>2. Len(PushInteger(L)) \in Nat /\ l = Len(PushInteger(L)) + 1
    BY <1>3, <1>29, <1>30, ListPartLength
  <2>3. PICK k \in Nat : k = Len(PushInteger(L))
    BY <2>2
  <2>4. m = q + k + 1
    <3>1. l = k + 1 /\ q \in Nat /\ k \in Nat
      BY <1>15, <2>2, <2>3
    <3> QED BY ONLY <1>21, <3>1
  <2>5. c[m - 1] = Byte(\hc1)
    <3>1. m - 1 = q + l - 1
      BY <1>15, <1>21
    <3>2. c[q + l - 1] = Byte(\hc1)
      BY <2>1
    <3> QED BY ONLY <3>1, <3>2
  <2>6. m = q + Len(PushInteger(L)) + 1
    BY <2>3, <2>4
  <2> QED BY ONLY <2>1, <2>5, <2>6
<1>31. ASSUME method = TransferFrom PROVE m = q
  <2>1. Transfer.width = 8 /\ TransferFrom.width = 12
    BY DEF Transfer, TransferFrom, Piece
  <2>2. method # Transfer
    BY <1>31, <2>1
  <2>3. l = 0
    BY <1>3, <2>2, EmptySeq DEF ListPart
  <2> QED BY ONLY <1>15, <1>21, <2>3
<1>32. /\ method = Transfer =>
             /\ At(c, 1 + Len(FlattenSeq(s)), PushInteger(Len(states)))
             /\ m = 1 + Len(FlattenSeq(s)) + Len(PushInteger(Len(states))) + 1
             /\ c[m - 1] = Byte(\hc1)
       /\ method = TransferFrom => m = 1 + Len(FlattenSeq(s))
  BY <1>2, <1>29, <1>30, <1>31
<1>33. At(c, 1, FlattenSeq(s))
  BY <1>14 DEF f
<1>34. PartsAt(method, states, c, s, m)
  BY <1>4, <1>14, <1>27, <1>28, <1>32, <1>33 DEF PartsAt
<1> QED BY <1>34

States(states, L) ==
    /\ states \in Seq(Seq(Fields)) /\ L \in Nat \ {0} /\ L = Len(states)
    /\ \A i \in 1..L : IsState(states[i]) /\ states[i][3] # 16
Structs(s, states, L) ==
    /\ s \in Seq(Seq(Pieces)) /\ Len(s) = L
    /\ \A i \in 1..L : s[i] = PushStruct(states[i])

LEMMA StatesStand ==
    ASSUME NEW states, NEW L, States(states, L), NEW s, Structs(s, states, L),
           NEW c, Len(c) \in Nat, At(c, 1, FlattenSeq(s))
    PROVE  \E at, read : /\ ListAt(c, states, at, read, L)
                         /\ at[L] = 1 + Len(FlattenSeq(s)) /\ read[L] = FlattenSeq(states)
<1>1. states \in Seq(Seq(Fields)) /\ L \in Nat \ {0} /\ L = Len(states)
  BY DEF States
<1>2. \A i \in 1..L : IsState(states[i]) /\ states[i][3] # 16
  BY DEF States
<1>3. s \in Seq(Seq(Pieces)) /\ Len(s) = L
  BY DEF Structs
<1>4. \A i \in 1..L : s[i] = PushStruct(states[i])
  BY DEF Structs
<1>5. Len(c) \in Nat /\ At(c, 1, FlattenSeq(s))
  OBVIOUS
<1> QED BY ONLY <1>1, <1>2, <1>3, <1>4, <1>5, ListStands, ZenonT(30)

LEMMA TransferReads ==
    ASSUME NEW states, NEW L, States(states, L), L < 2^7,
           NEW name \in {Piece(20, SystemNativeInvoke), Piece(22, OntologyNativeInvoke)},
           NEW c, c = BuildNativeInvokeCode(Transfer, states, name)
    PROVE  Result(ParseTransfer(c)) = Append(FlattenSeq(states), GAS_CONTRACT_ADDRESS)
<1>1. states \in Seq(Seq(Fields)) /\ L \in Nat \ {0} /\ L < 2^7 /\ L = Len(states)
  BY DEF States
<1>2. PICK s, m : PartsAt(Transfer, states, c, s, m)
  BY <1>1, CallStands
<1>3. s \in Seq(Seq(Pieces)) /\ Len(s) = L
  BY <1>1, <1>2 DEF PartsAt
<1>4. \A i \in 1..L : s[i] = PushStruct(states[i])
  BY <1>1, <1>2 DEF PartsAt
<1>5. Len(c) \in Nat /\ At(c, 1, FlattenSeq(s))
  BY <1>1, <1>2 DEF PartsAt
<1>6. Len(c) \in Nat /\ CallAt(c, m)
  BY <1>1, <1>2 DEF PartsAt
<1>7. /\ At(c, 1 + Len(FlattenSeq(s)), PushInteger(L))
      /\ m = 1 + Len(FlattenSeq(s)) + Len(PushInteger(L)) + 1 /\ c[m - 1] = Byte(\hc1)
  BY <1>1, <1>2 DEF PartsAt
<1>8. \E at, read : /\ ListAt(c, states, at, read, L)
                    /\ at[L] = 1 + Len(FlattenSeq(s)) /\ read[L] = FlattenSeq(states)
  <2>1. States(states, L) /\ Structs(s, states, L)
    BY <1>3, <1>4 DEF Structs
  <2> QED BY ONLY <1>5, <2>1, StatesStand
<1>9. PICK at, read : /\ ListAt(c, states, at, read, L)
                        /\ at[L] = 1 + Len(FlattenSeq(s)) /\ read[L] = FlattenSeq(states)
  BY <1>8
<1>10. ListAt(c, states, at, read, L) /\ c[m - 1] = Byte(\hc1)
  BY <1>7, <1>9
<1>11. m \in 1..Len(c) /\ c[m].val \notin OPCODE_IN_PAYLOAD
  BY <1>6 DEF CallAt
<1>12. At(c, at[L], PushInteger(L)) /\ m = at[L] + Len(PushInteger(L)) + 1 /\ L \in Nat \ {0} /\ L < 2^7
  BY <1>1, <1>7, <1>9
<1>13. \E r : OpCodes(c, r, m) /\ Turns(c)[MaxTurns(c)] = At0(c, r, read[L], Over)
  BY ONLY <1>6, <1>10, <1>11, <1>12, LoopReads
<1>14. PICK r : OpCodes(c, r, m) /\ Turns(c)[MaxTurns(c)] = At0(c, r, read[L], Over)
  BY <1>13
<1>15. PICK o : o = FlattenSeq(states)
  OBVIOUS
<1>16. PICK e : e = Over /\ e \in {Going, Over}
  OBVIOUS
<1>17. ParseTransfer(c) = ReadCallee(At0(c, r, o, e))
  BY <1>9, <1>14, <1>15, <1>16 DEF ParseTransfer
<1>18. Result(ReadCallee(At0(c, r, o, e))) = Append(o, GAS_CONTRACT_ADDRESS)
  BY ONLY <1>6, <1>14, <1>16, CallRead
<1> QED BY <1>15, <1>17, <1>18

\* A list of one list.
LEMMA FlattenOne ==
    ASSUME NEW S, NEW s \in Seq(Seq(S)), Len(s) = 1
    PROVE  FlattenSeq(s) = s[1] /\ s[1] \in Seq(S)
<1>1. PICK f \in [0..Len(s) -> Seq(S)] : Flat(f, s)
  BY Flattened
<1>2. f[0] = <<>> /\ FlattenSeq(s) = f[Len(s)] /\ \A k \in 1..Len(s) : f[k] = f[k - 1] \o s[k]
  BY <1>1 DEF Flat
<1>3. 1 \in 1..Len(s) /\ 1 - 1 = 0
  OBVIOUS
<1>4. f[1] = <<>> \o s[1] /\ s[1] \in Seq(S)
  BY <1>2, <1>3, ElementOfSeq
<1>5. <<>> \o s[1] = s[1]
  BY <1>4, ConcatEmptySeq
<1> QED BY <1>2, <1>4, <1>5

LEMMA OneMore ==
    ASSUME NEW S, NEW s \in Seq(S), NEW e \in S, NEW k \in Nat, Len(s) = k,
           NEW t, t = Append(s, e)
    PROVE  t \in Seq(S) /\ Len(t) = k + 1 /\ (\A i \in 1..k : t[i] = s[i]) /\ t[k + 1] = e
BY AppendProperties

LEMMA FourAppended ==
    ASSUME NEW S, NEW x \in Seq(S), Len(x) = 4
    PROVE  Append(Append(Append(Append(<<>>, x[1]), x[2]), x[3]), x[4]) = x
<1>1. 1 \in 1..Len(x) /\ 2 \in 1..Len(x) /\ 3 \in 1..Len(x) /\ 4 \in 1..Len(x)
  OBVIOUS
<1>2. x[1] \in S /\ x[2] \in S /\ x[3] \in S /\ x[4] \in S
  BY <1>1, ElementOfSeq
<1>3. PICK a : a = Append(<<>>, x[1])
  OBVIOUS
<1>4. PICK b : b = Append(a, x[2])
  OBVIOUS
<1>5. PICK d : d = Append(b, x[3])
  OBVIOUS
<1>6. PICK y : y = Append(d, x[4])
  OBVIOUS
<1>7. a \in Seq(S) /\ Len(a) = 1 /\ a[1] = x[1]
  BY <1>2, <1>3
<1>8. b \in Seq(S) /\ Len(b) = 2 /\ b[1] = x[1] /\ b[2] = x[2]
  <2>1. PICK k \in Nat : k = 1
    OBVIOUS
  <2>2. Len(a) = k
    BY <1>7, <2>1
  <2>3. /\ b \in Seq(S) /\ Len(b) = k + 1
        /\ (\A i \in 1..k : b[i] = a[i]) /\ b[k + 1] = x[2]
    BY <1>2, <1>4, <1>7, <2>2, OneMore
  <2> QED BY <1>7, <2>1, <2>3
<1>9. d \in Seq(S) /\ Len(d) = 3 /\ d[1] = x[1] /\ d[2] = x[2] /\ d[3] = x[3]
  <2>1. PICK k \in Nat : k = 2
    OBVIOUS
  <2>2. Len(b) = k
    BY <1>8, <2>1
  <2>3. /\ d \in Seq(S) /\ Len(d) = k + 1
        /\ (\A i \in 1..k : d[i] = b[i]) /\ d[k + 1] = x[3]
    BY <1>2, <1>5, <1>8, <2>2, OneMore
  <2> QED BY <1>8, <2>1, <2>3
<1>10. y \in Seq(S) /\ Len(y) = 4 /\ y[1] = x[1] /\ y[2] = x[2] /\ y[3] = x[3] /\ y[4] = x[4]
  <2>1. PICK k \in Nat : k = 3
    OBVIOUS
  <2>2. Len(d) = k
    BY <1>9, <2>1
  <2>3. /\ y \in Seq(S) /\ Len(y) = k + 1
        /\ (\A i \in 1..k : y[i] = d[i]) /\ y[k + 1] = x[4]
    BY <1>2, <1>6, <1>9, <2>2, OneMore
  <2> QED BY <1>9, <2>1, <2>3
<1>11. \A i \in 1..4 : y[i] = x[i]
  BY <1>10
<1>12. y = x
  BY <1>10, <1>11, SeqEqual
<1> QED BY <1>3, <1>4, <1>5, <1>6, <1>12

LEMMA TransferFromReads ==
    ASSUME NEW states \in Seq(Seq(Fields)), Len(states) = 1,
           NEW x, x = states[1], Len(x) = 4, x[1] \in Places, x[2] \in Places,
           x[3] \in Places, x[4] \in Nat \ {16},
           NEW name \in {Piece(20, SystemNativeInvoke), Piece(22, OntologyNativeInvoke)},
           NEW c, c = BuildNativeInvokeCode(TransferFrom, states, name)
    PROVE  Result(ParseTransferFrom(c)) = Append(FlattenSeq(states), GAS_CONTRACT_ADDRESS)
<1>1. PICK s, m : PartsAt(TransferFrom, states, c, s, m)
  BY CallStands
<1>2. /\ s \in Seq(Seq(Pieces)) /\ Len(s) = 1 /\ s[1] = PushStruct(x)
      /\ Len(c) \in Nat /\ At(c, 1, FlattenSeq(s)) /\ CallAt(c, m)
      /\ m = 1 + Len(FlattenSeq(s))
  BY <1>1 DEF PartsAt
<1>3. FlattenSeq(s) = PushStruct(x)
  BY <1>2, FlattenOne
<1>4. FlattenSeq(states) = x /\ x \in Seq(Fields)
  BY FlattenOne
<1>5. At(c, 1, PushStruct(x)) /\ m = 1 + Len(PushStruct(x))
  BY <1>2, <1>3
<1>6. m \in 1..Len(c) /\ c[m].val \notin OPCODE_IN_PAYLOAD
  BY <1>2 DEF CallAt
<1>7. PICK o : o = <<>>
  OBVIOUS
<1>8. PICK r : /\ OpCodes(c, r, m)
               /\ ValueNext(AddressNext(AddressNext(AddressNext(At0(c, 2, o, Going))))) =
                    At0(c, r, Append(Append(Append(Append(o, x[1]), x[2]), x[3]), x[4]), Going)
  <2>1. Len(x) = 4 /\ x[1] \in Places /\ x[2] \in Places /\ x[3] \in Places /\ x[4] \in Nat \ {16}
    OBVIOUS
  <2> QED BY ONLY <1>2, <1>4, <1>5, <1>6, <2>1, FourRead
<1>9. Append(Append(Append(Append(o, x[1]), x[2]), x[3]), x[4]) = x
  BY <1>4, <1>7, FourAppended
<1>10. PICK t : t = Skip(Source(c), 1)
  OBVIOUS
<1>11. t = At0(c, 2, o, Going)
  <2>1. Source(c) = At0(c, 1, o, Going)
    BY <1>7 DEF Source, At0, Going
  <2>2. PICK p : p = 1
    OBVIOUS
  <2>3. Skip(At0(c, p, o, Going), 1) = At0(c, p + 1, o, Going)
    BY SkippedOne
  <2>4. p + 1 = 2
    BY <2>2
  <2> QED BY <1>10, <2>1, <2>2, <2>3, <2>4
<1>12. ParseTransferFrom(c) = ReadCallee(ValueNext(AddressNext(AddressNext(AddressNext(t)))))
  <2>1. ParseTransferFrom(c) =
          ReadCallee(Field(Field(Field(Field(t, ReadAddress), ReadAddress), ReadAddress), GetValue))
    BY <1>10, Zenon DEF ParseTransferFrom
  <2> QED BY <2>1, Nexts
<1>13. PICK e : e = Going /\ e \in {Going, Over}
  OBVIOUS
<1>14. ParseTransferFrom(c) = ReadCallee(At0(c, r, x, e))
  BY <1>8, <1>9, <1>11, <1>12, <1>13
<1>15. Result(ReadCallee(At0(c, r, x, e))) = Append(x, GAS_CONTRACT_ADDRESS)
  BY ONLY <1>2, <1>8, <1>13, CallRead
<1> QED BY <1>4, <1>14, <1>15

LEMMA TripleIsState ==
    ASSUME NEW x \in Places \X Places \X Nat
    PROVE  IsState(x) /\ x \in Seq(Fields) /\ Len(x) = 3
<1>1. x = <<x[1], x[2], x[3]>> /\ x[1] \in Places /\ x[2] \in Places /\ x[3] \in Nat
  OBVIOUS
<1>2. PICK a \in Places, b \in Places, n \in Nat : x = <<a, b, n>>
  BY <1>1
<1>3. a \in Fields /\ b \in Fields /\ n \in Fields
  BY DEF Fields
<1>4. x \in Seq(Fields) /\ Len(x) = 3
  BY <1>2, <1>3
<1> QED BY <1>1, <1>4 DEF IsState

LEMMA QuadrupleFields ==
    ASSUME NEW x \in Places \X Places \X Places \X Nat
    PROVE  /\ x \in Seq(Fields) /\ Len(x) = 4 /\ x[1] \in Places /\ x[2] \in Places
           /\ x[3] \in Places /\ x[4] \in Nat
<1>1. /\ x = <<x[1], x[2], x[3], x[4]>> /\ x[1] \in Places /\ x[2] \in Places
      /\ x[3] \in Places /\ x[4] \in Nat
  OBVIOUS
<1>2. PICK a \in Places, b \in Places, d \in Places, n \in Nat : x = <<a, b, d, n>>
  BY <1>1
<1>3. a \in Fields /\ b \in Fields /\ d \in Fields /\ n \in Fields
  BY DEF Fields
<1>4. x \in Seq(Fields) /\ Len(x) = 4
  BY <1>2, <1>3
<1> QED BY <1>1, <1>4

\* What a list holds is in the list of them all.
LEMMA InAll ==
    ASSUME NEW S, NEW s \in Seq(Seq(S)), NEW i \in 1..Len(s), NEW j \in 1..Len(s[i])
    PROVE  s[i][j] \in ToSet(FlattenSeq(s))
<1>1. PICK f \in [0..Len(s) -> Seq(S)] : Flat(f, s)
  BY Flattened
<1>2. PICK c : c = FlattenSeq(s)
  OBVIOUS
<1>3. c \in Seq(S)
  BY <1>2, FlattenSeqType
<1>4. 1 \in Nat /\ At(c, 1, c)
  BY <1>3, AtItself
<1>5. At(c, 1 + Len(f[i - 1]), s[i])
  BY <1>1, <1>2, <1>4, AtFlattened
<1>6. PICK k : k = 1 + Len(f[i - 1]) + j - 1
  OBVIOUS
<1>7. k \in 1..Len(c) /\ c[k] = s[i][j]
  BY <1>5, <1>6 DEF At
<1>8. k \in DOMAIN c
  BY <1>3, <1>7, LenProperties
<1> QED BY <1>2, <1>7, <1>8 DEF ToSet

LEMMA TransferAsked ==
    ASSUME NEW t \in Transfers, 16 \notin ToSet(FlattenSeq(t.states)), Len(t.states) < 2^7,
           NEW c, c = BuildNativeInvokeCode(t.method, t.states, t.name)
    PROVE  FlattenSeq(t.states) \o <<GAS_CONTRACT_ADDRESS>> =
             Result(IF t.method = Transfer THEN ParseTransfer(c) ELSE ParseTransferFrom(c))
<1>1. GAS_CONTRACT_ADDRESS \in Fields
  BY PlacesAssumption DEF Fields
<1>2. PICK states : states = t.states
  OBVIOUS
<1>3. t.name \in {Piece(20, SystemNativeInvoke), Piece(22, OntologyNativeInvoke)}
  BY TransfersAssumption
<1>4. ASSUME states \in Seq(Seq(Fields))
      PROVE  Append(FlattenSeq(states), GAS_CONTRACT_ADDRESS) =
               FlattenSeq(states) \o <<GAS_CONTRACT_ADDRESS>>
  BY <1>1, <1>4, FlattenSeqType, AppendIsConcat
<1>5. 16 \notin ToSet(FlattenSeq(states)) /\ Len(states) < 2^7
  BY <1>2
<1>6. CASE t.method = Transfer /\ states # <<>> /\ states \in Seq(Places \X Places \X Nat)
  <2>1. PICK L \in Nat : L = Len(states)
    BY <1>6, LenProperties
  <2>2. \A i \in 1..L : states[i] \in Places \X Places \X Nat
    BY <1>6, <2>1, ElementOfSeq
  <2>3. \A i \in 1..L : IsState(states[i]) /\ states[i] \in Seq(Fields) /\ Len(states[i]) = 3
    BY <2>2, TripleIsState
  <2>4. states \in Seq(Seq(Fields)) /\ L # 0
    <3>1. states \in [1..L -> Seq(Fields)]
      <4>1. states \in [1..L -> Places \X Places \X Nat]
        BY <1>6, <2>1, LenProperties
      <4> QED BY <2>3, <4>1
    <3>2. states \in Seq(Seq(Fields))
      BY <3>1, OfLength
    <3> QED BY <1>6, <2>1, <3>2, EmptySeq
  <2>5. ASSUME NEW i \in 1..L PROVE states[i][3] # 16
    <3>1. i \in 1..Len(states)
      BY <2>1
    <3>2. Len(states[i]) = 3
      BY <2>3
    <3>3. PICK j \in 1..Len(states[i]) : j = 3
      BY ONLY <3>2
    <3>4. states[i][j] \in ToSet(FlattenSeq(states))
      BY ONLY <2>4, <3>1, InAll
    <3> QED BY ONLY <1>5, <3>3, <3>4
  <2>6. States(states, L)
    BY <1>5, <2>1, <2>3, <2>4, <2>5 DEF States
  <2>7. c = BuildNativeInvokeCode(Transfer, states, t.name)
    BY <1>2, <1>6
  <2>8. Result(ParseTransfer(c)) = Append(FlattenSeq(states), GAS_CONTRACT_ADDRESS)
    <3>1. L < 2^7
      BY <1>5, <2>1
    <3> QED BY ONLY <1>3, <2>6, <2>7, <3>1, TransferReads
  <2> QED BY <1>2, <1>4, <1>6, <2>4, <2>8
<1>7. CASE t.method = TransferFrom /\ Len(states) = 1
           /\ states \in Seq(Places \X Places \X Places \X Nat)
  <2>1. PICK x : x = states[1]
    OBVIOUS
  <2>2. x \in Places \X Places \X Places \X Nat
    <3>1. PICK k \in 1..Len(states) : k = 1
      BY <1>7
    <3>2. states[k] \in Places \X Places \X Places \X Nat
      BY ONLY <1>7, ElementOfSeq
    <3> QED BY <2>1, <3>1, <3>2
  <2>3. /\ x \in Seq(Fields) /\ Len(x) = 4 /\ x[1] \in Places /\ x[2] \in Places
        /\ x[3] \in Places /\ x[4] \in Nat
    BY <2>2, QuadrupleFields
  <2>4. states \in Seq(Seq(Fields))
    <3>1. states \in [1..1 -> Seq(Fields)]
      <4>1. states \in [1..1 -> Places \X Places \X Places \X Nat]
        BY <1>7, LenProperties
      <4>2. \A i \in 1..1 : states[i] \in Seq(Fields)
        BY <2>1, <2>3
      <4> QED BY <4>1, <4>2
    <3>2. PICK n \in Nat : n = 1
      OBVIOUS
    <3> QED BY <3>1, <3>2, OfLength
  <2>5. x[4] # 16
    <3>1. 1 \in 1..Len(states) /\ 4 \in 1..Len(states[1])
      BY <1>7, <2>1, <2>3
    <3>2. states[1][4] # 16
      BY ONLY <1>5, <2>4, <3>1, InAll
    <3> QED BY <2>1, <3>2
  <2>6. c = BuildNativeInvokeCode(TransferFrom, states, t.name)
    BY <1>2, <1>7
  <2>7. Len(states) = 1 /\ x[4] \in Nat \ {16}
    BY <1>7, <2>3, <2>5
  <2>8. Result(ParseTransferFrom(c)) = Append(FlattenSeq(states), GAS_CONTRACT_ADDRESS)
    BY ONLY <1>3, <2>1, <2>3, <2>4, <2>6, <2>7, TransferFromReads
  <2>9. t.method # Transfer
    BY <1>7 DEF Transfer, TransferFrom, Piece
  <2> QED BY <1>2, <1>4, <2>4, <2>8, <2>9
<1> QED BY <1>2, <1>6, <1>7, TransfersAssumption

\* What is behind the tests of ParsePayload reads every transfer as it was
\* built, with any amounts but 16 and up to 127 states.
THEOREM BodyReadsBackHolds == Spec => []BodyReadsBack
<1>1. TypeOK => BodyReadsBack
  <2> SUFFICES ASSUME TypeOK, stage = "signing", transfer # NoTransfer,
                      16 \notin ToSet(FlattenSeq(transfer.states)), Len(transfer.states) < 2^7
               PROVE  Asked = Result(IF transfer.method = Transfer THEN ParseTransfer(Code)
                                     ELSE ParseTransferFrom(Code))
    BY DEF BodyReadsBack
  <2>1. transfer \in Transfers
    BY DEF TypeOK
  <2>2. \A t \in Transfers : 16 \notin ToSet(FlattenSeq(t.states)) /\ Len(t.states) < 2^7 =>
           FlattenSeq(t.states) \o <<GAS_CONTRACT_ADDRESS>> =
             Result(IF t.method = Transfer
                    THEN ParseTransfer(BuildNativeInvokeCode(t.method, t.states, t.name))
                    ELSE ParseTransferFrom(BuildNativeInvokeCode(t.method, t.states, t.name)))
    BY TransferAsked
  <2> QED BY <2>1, <2>2, Zenon DEF Asked, Code
<1> QED BY <1>1, TypeCorrect, PTL
=============================================================================
