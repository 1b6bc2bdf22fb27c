----------------------------- MODULE ListFacts ------------------------------
(***************************************************************************)
(* What an append and a removal leave of a list, for the proofs about the  *)
(* wallet, whose lists Go's append and slices build; that Min and Max find *)
(* what they are asked for; and, for the proofs about payloads, what is    *)
(* flattened into a list and where a list stands in a longer one.          *)
(***************************************************************************)
EXTENDS SequencesExt, SequenceTheorems, WellFoundedInduction, TLAPS

-----------------------------------------------------------------------------
(* A list and its elements. *)

\* ToSet and IsInjective over the places 1..Len(s).
LEMMA Elements ==
    ASSUME NEW S, NEW s \in Seq(S)
    PROVE  /\ Len(s) \in Nat
           /\ ToSet(s) = {s[i] : i \in 1..Len(s)}
           /\ ToSet(s) \subseteq S
           /\ IsInjective(s) <=> \A i, j \in 1..Len(s) : s[i] = s[j] => i = j
           /\ s = <<>> <=> ToSet(s) = {}
<1>1. Len(s) \in Nat /\ DOMAIN s = 1..Len(s) /\ \A i \in 1..Len(s) : s[i] \in S
  BY LenProperties, ElementOfSeq
<1>2. ToSet(s) = {s[i] : i \in 1..Len(s)}
  BY <1>1 DEF ToSet
<1>3. IsInjective(s) <=> \A i, j \in 1..Len(s) : s[i] = s[j] => i = j
  BY <1>1 DEF IsInjective
<1>4. s = <<>> <=> ToSet(s) = {}
  <2>1. s = <<>> => ToSet(s) = {}
    BY <1>2, EmptySeq
  <2>2. s # <<>> => s[1] \in ToSet(s)
    BY <1>1, <1>2, EmptySeq
  <2> QED BY <2>1, <2>2
<1> QED BY <1>1, <1>2, <1>3, <1>4

\* The empty list.
LEMMA NoElements ==
    ASSUME NEW S
    PROVE  <<>> \in Seq(S) /\ ToSet(<<>>) = {} /\ IsInjective(<<>>)
<1>1. <<>> \in Seq(S)
  BY EmptySeq
<1>2. ToSet(<<>>) = {}
  BY <1>1, Elements
<1>3. \A i, j \in 1..Len(<<>>) : <<>>[i] = <<>>[j] => i = j
  BY EmptySeq
<1> QED BY <1>1, <1>2, <1>3, Elements

\* An append adds one element, at the end.
LEMMA Appended ==
    ASSUME NEW S, NEW s \in Seq(S), NEW x \in S
    PROVE  /\ Append(s, x) \in Seq(S)
           /\ ToSet(Append(s, x)) = ToSet(s) \cup {x}
           /\ IsInjective(s) /\ x \notin ToSet(s) => IsInjective(Append(s, x))
<1> DEFINE t == Append(s, x)
<1>1. /\ t \in Seq(S) /\ Len(t) = Len(s) + 1 /\ Len(s) \in Nat
      /\ \A i \in 1..Len(s) : t[i] = s[i]
      /\ t[Len(s) + 1] = x
  BY AppendProperties, LenProperties
<1>2. 1..Len(t) = 1..Len(s) \cup {Len(s) + 1}
  BY <1>1
<1> HIDE DEF t
<1>3. ToSet(t) = ToSet(s) \cup {x}
  BY <1>1, <1>2, Elements
<1>4. ASSUME IsInjective(s), x \notin ToSet(s) PROVE IsInjective(t)
  <2>1. \A i \in 1..Len(s) : s[i] # x
    BY <1>4, Elements
  <2>2. \A i, j \in 1..Len(s) : s[i] = s[j] => i = j
    BY <1>4, Elements
  <2>3. \A i, j \in 1..Len(t) : t[i] = t[j] => i = j
    BY <1>1, <1>2, <2>1, <2>2
  <2> QED BY <1>1, <2>3, Elements
<1> QED BY <1>1, <1>3, <1>4 DEF t

-----------------------------------------------------------------------------
(* A list without one of its elements. *)

\* What is left of a list without its element k.
LEMMA RemoveAtElements ==
    ASSUME NEW S, NEW s \in Seq(S), NEW k \in 1..Len(s)
    PROVE  /\ RemoveAt(s, k) \in Seq(S)
           /\ Len(RemoveAt(s, k)) = Len(s) - 1
           /\ \A j \in 1..Len(s) - 1 : RemoveAt(s, k)[j] = IF j < k THEN s[j] ELSE s[j + 1]
<1>1. Len(s) \in Nat /\ \A i \in 1..Len(s) : s[i] \in S
  BY LenProperties, ElementOfSeq
<1> DEFINE f == SubSeq(s, 1, k - 1)
           b == SubSeq(s, k + 1, Len(s))
<1>2. f \in Seq(S) /\ Len(f) = k - 1 /\ \A j \in 1..k - 1 : f[j] = s[j]
  <2>1. \A i \in 1..k - 1 : s[i] \in S
    BY <1>1
  <2> QED BY <2>1, SubSeqProperties
<1>3. /\ b \in Seq(S) /\ Len(b) = Len(s) - k
      /\ \A j \in 1..Len(s) - k : b[j] = s[k + j]
  <2>1. \A i \in k + 1..Len(s) : s[i] \in S
    BY <1>1
  <2>2. k \in Int /\ k + 1 \in Int /\ Len(s) \in Int /\ k <= Len(s)
    BY <1>1
  <2>3. /\ b \in Seq(S) /\ Len(b) = IF k + 1 <= Len(s) THEN Len(s) - (k + 1) + 1 ELSE 0
        /\ \A j \in 1..Len(s) - (k + 1) + 1 : b[j] = s[(k + 1) + j - 1]
    BY <2>1, <2>2, SubSeqProperties
  <2>4. \A j \in 1..Len(s) - k : (k + 1) + j - 1 = k + j /\ j \in 1..Len(s) - (k + 1) + 1
    BY <2>2
  <2> HIDE DEF b
  <2> QED BY <2>2, <2>3, <2>4
<1> HIDE DEF f, b
<1>4. /\ f \o b \in Seq(S) /\ Len(f \o b) = Len(f) + Len(b)
      /\ \A j \in 1..Len(f) + Len(b) : (f \o b)[j] = IF j <= Len(f) THEN f[j] ELSE b[j - Len(f)]
  BY <1>2, <1>3, ConcatProperties
<1>5. RemoveAt(s, k) = f \o b
  BY DEF RemoveAt, f, b
<1>6. Len(f) + Len(b) = Len(s) - 1
  BY <1>1, <1>2, <1>3
<1>7. ASSUME NEW j \in 1..Len(s) - 1
      PROVE  (f \o b)[j] = IF j < k THEN s[j] ELSE s[j + 1]
  <2>1. (f \o b)[j] = IF j <= k - 1 THEN f[j] ELSE b[j - (k - 1)]
    BY <1>2, <1>4, <1>6
  <2>2. CASE j < k
    BY <1>1, <1>2, <2>1, <2>2
  <2>3. CASE ~(j < k)
    <3>1. j - (k - 1) \in 1..Len(s) - k /\ k + (j - (k - 1)) = j + 1 /\ ~(j <= k - 1)
      BY <1>1, <2>3
    <3> QED BY <1>3, <2>1, <2>3, <3>1
  <2> QED BY <2>2, <2>3
<1> QED BY <1>4, <1>5, <1>6, <1>7

\* Of a list that holds each element once, the one at k is gone.
LEMMA TakenOut ==
    ASSUME NEW S, NEW s \in Seq(S), NEW k \in 1..Len(s), IsInjective(s)
    PROVE  /\ RemoveAt(s, k) \in Seq(S)
           /\ IsInjective(RemoveAt(s, k))
           /\ ToSet(RemoveAt(s, k)) = ToSet(s) \ {s[k]}
<1> DEFINE t == RemoveAt(s, k)
<1>1. /\ t \in Seq(S) /\ Len(t) = Len(s) - 1
      /\ \A j \in 1..Len(t) : t[j] = IF j < k THEN s[j] ELSE s[j + 1]
  BY RemoveAtElements
<1>2. Len(s) \in Nat /\ \A i, j \in 1..Len(s) : s[i] = s[j] => i = j
  BY Elements
<1>3. ToSet(s) = {s[i] : i \in 1..Len(s)} /\ ToSet(t) = {t[j] : j \in 1..Len(t)}
  BY <1>1, Elements
<1> HIDE DEF t
<1>4. ASSUME NEW j \in 1..Len(t) PROVE t[j] \in ToSet(s) \ {s[k]}
  <2>1. j \in 1..Len(s) /\ j + 1 \in 1..Len(s)
    BY <1>1, <1>2
  <2>2. CASE j < k
    BY <1>1, <1>2, <1>3, <2>1, <2>2
  <2>3. CASE ~(j < k)
    BY <1>1, <1>2, <1>3, <2>1, <2>3
  <2> QED BY <2>2, <2>3
<1>5. ASSUME NEW i \in 1..Len(s), i # k PROVE s[i] \in ToSet(t)
  <2>1. CASE i < k
    BY <1>1, <1>2, <1>3, <2>1
  <2>2. CASE ~(i < k)
    <3>1. i - 1 \in 1..Len(t) /\ ~(i - 1 < k) /\ (i - 1) + 1 = i
      BY <1>1, <1>2, <1>5, <2>2
    <3> QED BY <1>1, <1>3, <3>1
  <2> QED BY <2>1, <2>2
<1>6. ToSet(t) = ToSet(s) \ {s[k]}
  BY <1>3, <1>4, <1>5
<1>7. IsInjective(t)
  <2> SUFFICES ASSUME NEW i \in 1..Len(t), NEW j \in 1..Len(t), t[i] = t[j]
               PROVE  i = j
    BY <1>1, Elements
  <2>1. i \in 1..Len(s) /\ i + 1 \in 1..Len(s) /\ j \in 1..Len(s) /\ j + 1 \in 1..Len(s)
    BY <1>1, <1>2
  <2> QED BY <1>1, <1>2, <2>1
<1> QED BY <1>1, <1>6, <1>7 DEF t

-----------------------------------------------------------------------------
(* Least and greatest elements. *)

\* A set of natural numbers has a least element.
LEMMA Least ==
    ASSUME NEW S, S \subseteq Nat, S # {}
    PROVE  Min(S) \in S /\ \A y \in S : Min(S) <= y
<1> DEFINE Below == {p \in Nat \X Nat : p[1] < p[2]}
<1>1. IsWellFoundedOn(Below, Nat)
  BY NatLessThanWellFounded, Zenon DEF OpToRel
<1>2. PICK x \in S : \A y \in S : ~(<<y, x>> \in Below)
  <2> HIDE DEF Below
  <2> QED BY <1>1, WFMin
<1>3. ASSUME NEW y \in S PROVE x <= y
  <2>1. x \in Nat /\ y \in Nat
    OBVIOUS
  <2>2. y < x => <<y, x>> \in Below
    BY <2>1
  <2> QED BY <1>2, <2>1, <2>2
<1> QED BY <1>3 DEF Min

\* A set of places of a list has a last one.
LEMMA Greatest ==
    ASSUME NEW n \in Nat, NEW S, S \subseteq 1..n, S # {}
    PROVE  Max(S) \in S /\ \A y \in S : y <= Max(S)
<1> DEFINE T == {n - x : x \in S}
<1>1. T # {}
  OBVIOUS
<1>2. T \subseteq Nat
  <2>1. \A x \in S : n - x \in Nat
    OBVIOUS
  <2> QED BY <2>1
<1>3. Min(T) \in T /\ \A d \in T : Min(T) <= d
  <2> HIDE DEF T
  <2> QED BY <1>1, <1>2, Least
<1>4. PICK x \in S : n - x = Min(T)
  BY <1>3
<1>5. ASSUME NEW y \in S PROVE y <= x
  <2>1. n - x <= n - y
    BY <1>3, <1>4
  <2>2. x \in 1..n /\ y \in 1..n
    OBVIOUS
  <2> QED BY <2>1, <2>2
<1> QED BY <1>5 DEF Max

-----------------------------------------------------------------------------
(* Induction over the places of a list.                                     *)

\* A set that has 0, and each number up to N whose predecessor it has, has all
\* of them.
LEMMA Counting ==
    ASSUME NEW N \in Nat, NEW G, 0 \in G, \A n \in 1..N : n - 1 \in G => n \in G
    PROVE  \A n \in 0..N : n \in G
<1> DEFINE B == {n \in 0..N : n \notin G}
<1> SUFFICES ASSUME B # {} PROVE FALSE
  OBVIOUS
<1>1. B \subseteq Nat /\ \A n : n \in B <=> n \in 0..N /\ n \notin G
  OBVIOUS
<1> HIDE DEF B
<1>2. PICK m \in B : \A n \in B : m <= n
  BY <1>1, Least
<1>3. m \in 1..N /\ m - 1 \in 0..N
  BY <1>1, <1>2
<1>4. m - 1 \in G
  BY <1>1, <1>2, <1>3
<1> QED BY <1>1, <1>2, <1>3, <1>4

-----------------------------------------------------------------------------
(* Lists that stand in longer ones. *)

\* The list s stands in c, from place p on.
At(c, p, s) == \A i \in 1..Len(s) : p + i - 1 \in 1..Len(c) /\ c[p + i - 1] = s[i]

\* A list stands in itself.
LEMMA AtItself ==
    ASSUME NEW S, NEW s \in Seq(S)
    PROVE  At(s, 1, s)
<1>1. Len(s) \in Nat
  BY LenProperties
<1>2. \A i \in 1..Len(s) : 1 + i - 1 = i
  BY <1>1
<1> QED BY <1>2 DEF At

\* Two lists one behind the other.
LEMMA AtConcat ==
    ASSUME NEW S, NEW s \in Seq(S), NEW t \in Seq(S), NEW c, NEW p \in Nat, At(c, p, s \o t)
    PROVE  At(c, p, s) /\ At(c, p + Len(s), t)
<1>1. /\ Len(s) \in Nat /\ Len(t) \in Nat /\ Len(s \o t) = Len(s) + Len(t)
      /\ \A i \in 1..Len(s) + Len(t) : (s \o t)[i] = IF i <= Len(s) THEN s[i] ELSE t[i - Len(s)]
  BY ConcatProperties, LenProperties
<1> DEFINE u == s \o t
<1>2. \A i \in 1..Len(s) + Len(t) : p + i - 1 \in 1..Len(c) /\ c[p + i - 1] = u[i]
  BY <1>1 DEF At
<1> HIDE DEF u
<1>3. At(c, p, s)
  <2>1. \A i \in 1..Len(s) : i \in 1..Len(s) + Len(t) /\ u[i] = s[i]
    BY <1>1 DEF u
  <2> QED BY <1>2, <2>1 DEF At
<1>4. At(c, p + Len(s), t)
  <2> SUFFICES ASSUME NEW i \in 1..Len(t)
               PROVE  p + Len(s) + i - 1 \in 1..Len(c) /\ c[p + Len(s) + i - 1] = t[i]
    BY DEF At
  <2>1. PICK j \in Nat : j = Len(s) + i
    BY <1>1
  <2>2. j \in 1..Len(s) + Len(t) /\ ~(j <= Len(s)) /\ j - Len(s) = i
    BY <1>1, <2>1
  <2>3. u[j] = t[i]
    BY <1>1, <2>2 DEF u
  <2>4. p + Len(s) + i - 1 = p + j - 1
    BY <1>1, <2>1
  <2> QED BY <1>2, <2>2, <2>3, <2>4
<1> QED BY <1>3, <1>4

\* The lists of s one behind the other: f[k] is made of the first k.
Flat(f, s) ==
    /\ f[0] = <<>> /\ FlattenSeq(s) = f[Len(s)]
    /\ \A k \in 1..Len(s) : f[k] = f[k - 1] \o s[k] /\ Len(f[k]) = Len(f[k - 1]) + Len(s[k])

LEMMA Flattened ==
    ASSUME NEW S, NEW s \in Seq(Seq(S))
    PROVE  \E f \in [0..Len(s) -> Seq(S)] : Flat(f, s)
<1> DEFINE N == Len(s)
<1>1. N \in Nat /\ \A k \in 1..N : s[k] \in Seq(S)
  BY LenProperties, ElementOfSeq
<1> DEFINE Run(f, n) == /\ f \in [0..n -> Seq(S)] /\ f[0] = <<>>
                        /\ \A k \in 1..n : f[k] = f[k - 1] \o s[k]
           G == {n \in 0..N : \E f : Run(f, n)}
<1>2. \A n \in 0..N : n \in G
  <2>1. 0 \in G
    <3> DEFINE f == [k \in 0..0 |-> <<>>]
    <3>1. <<>> \in Seq(S)
      BY EmptySeq
    <3>2. Run(f, 0)
      BY <3>1
    <3>3. 0 \in 0..N
      BY <1>1
    <3> HIDE DEF f, Run
    <3> QED BY <3>2, <3>3
  <2>2. ASSUME NEW m \in 1..N, m - 1 \in G PROVE m \in G
    <3>1. PICK g : Run(g, m - 1)
      BY <2>2
    <3>2. m \in 1..N /\ m - 1 \in Nat
      BY <1>1
    <3> DEFINE last == g[m - 1] \o s[m]
               f == [k \in 0..m |-> IF k = m THEN last ELSE g[k]]
    <3>3. last \in Seq(S)
      <4>1. g[m - 1] \in Seq(S) /\ s[m] \in Seq(S)
        BY <1>1, <3>1, <3>2
      <4> QED BY <4>1, ConcatProperties
    <3>4. f \in [0..m -> Seq(S)] /\ f[0] = <<>>
      <4>1. \A k \in 0..m : k # m => k \in 0..(m - 1)
        BY <3>2
      <4> HIDE DEF last
      <4> QED BY <3>1, <3>2, <3>3, <4>1
    <3>5. ASSUME NEW k \in 1..m PROVE f[k] = f[k - 1] \o s[k]
      <4>1. k \in 0..m /\ k - 1 \in 0..m /\ k - 1 # m
        BY <3>2
      <4>2. f[k - 1] = g[k - 1]
        BY <4>1
      <4>3. CASE k = m
        BY <4>1, <4>2, <4>3
      <4>4. CASE k # m
        <5>1. k \in 1..(m - 1) /\ f[k] = g[k]
          BY <3>2, <4>1, <4>4
        <5> QED BY <3>1, <4>2, <5>1
      <4> QED BY <4>3, <4>4
    <3> HIDE DEF f
    <3>6. Run(f, m)
      BY <3>4, <3>5
    <3>7. m \in 0..N
      BY <1>1
    <3> HIDE DEF Run
    <3> QED BY <3>6, <3>7
  <2> HIDE DEF G
  <2> QED BY <1>1, <2>1, <2>2, Counting
<1>3. PICK f : Run(f, N)
  <2>1. N \in 0..N
    BY <1>1
  <2> QED BY <1>2, <2>1
<1>4. ASSUME NEW k \in 1..N
      PROVE  f[k] = f[k - 1] \o s[k] /\ Len(f[k]) = Len(f[k - 1]) + Len(s[k])
  <2>1. f[k - 1] \in Seq(S) /\ s[k] \in Seq(S) /\ f[k] = f[k - 1] \o s[k]
    <3>1. k - 1 \in 0..N
      BY <1>1
    <3> QED BY <1>1, <1>3, <3>1
  <2> QED BY <2>1, ConcatProperties
<1>5. FlattenSeq(s) = f[N]
  <2>1. CASE N = 0
    <3>1. s = <<>>
      BY <2>1, EmptySeq
    <3>2. FlattenSeq(s) = s
      BY <2>1, Zenon DEF FlattenSeq
    <3> QED BY <1>3, <2>1, <3>1, <3>2
  <2>2. CASE N # 0
    <3> DEFINE Rec(g) == g = [i \in 1..N |-> IF i = 1 THEN s[i] ELSE g[i - 1] \o s[i]]
               h == CHOOSE g : Rec(g)
               r == [i \in 1..N |-> f[i]]
    <3>1. FlattenSeq(s) = h[N]
      BY <2>2, Zenon DEF FlattenSeq
    <3>2. \A i \in 1..N : f[i] = IF i = 1 THEN s[i] ELSE r[i - 1] \o s[i]
      <4> SUFFICES ASSUME NEW i \in 1..N PROVE f[i] = IF i = 1 THEN s[i] ELSE r[i - 1] \o s[i]
        OBVIOUS
      <4>1. CASE i = 1
        <5>1. s[1] \in Seq(S) /\ f[1] = f[0] \o s[1]
          <6>1. 1 \in 1..N /\ 1 - 1 = 0
            BY <4>1
          <6>2. f[1] = f[1 - 1] \o s[1]
            BY <1>4, <6>1
          <6> QED BY <1>1, <6>1, <6>2
        <5>2. <<>> \o s[1] = s[1]
          BY <5>1, ConcatEmptySeq
        <5> QED BY <1>3, <4>1, <5>1, <5>2
      <4>2. CASE i # 1
        <5>1. i - 1 \in 1..N
          BY <1>1, <4>2
        <5> QED BY <1>4, <4>2, <5>1
      <4> QED BY <4>1, <4>2
    <3>3. Rec(r)
      BY <3>2
    <3>4. Rec(h)
      <4> HIDE DEF Rec, r
      <4> QED BY <3>3
    <3>5. \A i \in 1..N : h[i] = IF i = 1 THEN s[i] ELSE h[i - 1] \o s[i]
      <4> HIDE DEF h
      <4> QED BY <3>4
    <3> DEFINE K == {i \in 0..N : i = 0 \/ h[i] = f[i]}
    <3>6. \A i \in 0..N : i \in K
      <4>1. 0 \in K
        BY <1>1
      <4>2. ASSUME NEW m \in 1..N, m - 1 \in K PROVE m \in K
        <5> SUFFICES h[m] = f[m]
          BY <1>1
        <5>1. CASE m = 1
          BY <3>2, <3>5, <5>1
        <5>2. CASE m # 1
          <6>1. h[m - 1] = f[m - 1]
            BY <4>2, <5>2
          <6> QED BY <1>4, <3>5, <5>2, <6>1
        <5> QED BY <5>1, <5>2
      <4> HIDE DEF K
      <4> QED BY <1>1, <4>1, <4>2, Counting
    <3>7. N \in 0..N
      BY <1>1
    <3>8. h[N] = f[N]
      <4> HIDE DEF h
      <4> QED BY <2>2, <3>6, <3>7
    <3> QED BY <3>1, <3>8
  <2> QED BY <2>1, <2>2
<1> QED BY <1>3, <1>4, <1>5 DEF Flat

\* Where they stand, each of them stands.
LEMMA AtFlattened ==
    ASSUME NEW S, NEW s \in Seq(Seq(S)), NEW f \in [0..Len(s) -> Seq(S)], Flat(f, s),
           NEW c, NEW p \in Nat, At(c, p, FlattenSeq(s))
    PROVE  \A k \in 1..Len(s) : At(c, p + Len(f[k - 1]), s[k])
<1> DEFINE N == Len(s)
           G == {d \in 0..N : At(c, p, f[N - d])}
<1>1. N \in Nat /\ \A k \in 1..N : s[k] \in Seq(S)
  BY LenProperties, ElementOfSeq
<1>2. /\ f[0] = <<>> /\ FlattenSeq(s) = f[N]
      /\ \A k \in 1..N : f[k] = f[k - 1] \o s[k] /\ f[k - 1] \in Seq(S)
  <2>1. \A k \in 1..N : k - 1 \in 0..N
    BY <1>1
  <2> QED BY <2>1 DEF Flat
<1>3. ASSUME NEW k \in 1..N, At(c, p, f[k])
      PROVE  At(c, p, f[k - 1]) /\ At(c, p + Len(f[k - 1]), s[k])
  <2>1. At(c, p, f[k - 1] \o s[k]) /\ f[k - 1] \in Seq(S) /\ s[k] \in Seq(S)
    BY <1>1, <1>2, <1>3
  <2> QED BY <2>1, AtConcat
<1>4. \A d \in 0..N : d \in G
  <2>1. 0 \in G
    <3>1. N - 0 = N
      BY <1>1
    <3> QED BY <1>1, <1>2, <3>1
  <2>2. ASSUME NEW d \in 1..N, d - 1 \in G PROVE d \in G
    <3> DEFINE k == N - (d - 1)
    <3>1. k \in 1..N
      BY <1>1
    <3>2. At(c, p, f[k]) /\ k - 1 = N - d /\ d \in 0..N
      BY <1>1, <2>2, <3>1
    <3> HIDE DEF k
    <3>3. At(c, p, f[k - 1])
      BY <1>3, <3>1, <3>2
    <3> QED BY <3>2, <3>3
  <2> HIDE DEF G
  <2> QED BY <1>1, <2>1, <2>2, Counting
<1>5. ASSUME NEW k \in 1..N PROVE At(c, p, f[k])
  <2>1. N - k \in 0..N /\ N - (N - k) = k
    BY <1>1
  <2>2. N - k \in G
    BY <1>4, <2>1
  <2> QED BY <2>1, <2>2
<1> QED BY <1>3, <1>5
=============================================================================
