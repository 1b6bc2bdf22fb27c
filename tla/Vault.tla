------------------------------- MODULE Vault -------------------------------
(***************************************************************************)
(* What saving a wallet promises: the file holds one wallet or none.  A    *)
(* Save puts the wallet in memory there as a whole, at one moment, or      *)
(* leaves the file as it was; a program that starts again has the wallet   *)
(* of the file, or an empty one if there is none.                          *)
(***************************************************************************)
CONSTANTS
    Empty,        \* the wallet without accounts
    Exclusive     \* one goroutine saves at a time

VARIABLES
    up,           \* the program runs
    memory,       \* the wallet in memory
    stored        \* the wallet in the file, the only element, if there is one

vars == <<up, memory, stored>>

Init == up = TRUE /\ memory = Empty /\ stored = {}

\* Whatever an operation makes of the wallet.
Change ==
    /\ up
    /\ UNCHANGED <<up, stored>>

Commit ==
    /\ up
    /\ stored' = {memory}
    /\ UNCHANGED <<up, memory>>

\* Two that save at once may spoil the file for each other.
Lose ==
    /\ up /\ ~Exclusive
    /\ stored' = {}
    /\ UNCHANGED <<up, memory>>

Stop ==
    /\ up
    /\ up' = FALSE
    /\ UNCHANGED <<memory, stored>>

Start ==
    /\ ~up
    /\ up' = TRUE
    /\ memory' = IF stored = {} THEN Empty ELSE CHOOSE w \in stored : TRUE
    /\ UNCHANGED stored

Next == Change \/ Commit \/ Lose \/ Stop \/ Start

Spec == Init /\ [][Next]_vars
=============================================================================
