---------------------------- MODULE MCInvocation ----------------------------
(* A small instance of Invocation for TLC. *)
EXTENDS Invocation, TLC
CONSTANTS a1, a2, c1, c2, k1, k2, k3, from, to, sender, gas
\* Two accounts; a controller with a key of its own, and one with an account's.
MCKeyOf == (a1 :> k1) @@ (a2 :> k2) @@ (c1 :> k3) @@ (c2 :> k1)
\* Both thresholds of one pair of keys and one nobody can reach, a key that is
\* listed twice, and one alone.
MCGroups ==
    [keys : {{<<k1, 1>>, <<k2, 1>>}}, m : 1..3]
    \cup [keys : {{<<k1, 1>>, <<k1, 2>>}}, m : {2}] \cup [keys : {{<<k1, 1>>}}, m : {1}]
MCPlaces == {from, to, sender, gas}
\* Transfers and transferFroms with every kind of amount, alone and in a list,
\* and lists whose length is the last small number that IsEnd knows, the one it
\* does not, and one that has no opcode.  Longer lists need a deeper recursion
\* than TLC's stack has room for.
MCState(v) == <<from, to, v>>
MCLists ==
    {<<MCState(1)>>, <<MCState(0), MCState(15)>>, <<MCState(17), MCState(200)>>,
     <<MCState(16), MCState(1)>>}
    \cup {[i \in 1..n |-> MCState(i % 3)] : n \in 15..17}
MCTransfers ==
    [method : {Transfer}, name : {Piece(20, SystemNativeInvoke)}, states : MCLists]
    \cup [method : {TransferFrom}, name : {Piece(22, OntologyNativeInvoke)},
          states : {<<<<sender, from, to, v>>>> : v \in {0, 15, 16, 200}}]
=============================================================================
