------------------------------ MODULE Exchange ------------------------------
(***************************************************************************)
(* What the web socket client promises of its calls, whatever becomes of   *)
(* connections and messages: a call asks one question or two, under a      *)
(* name, and returns a result only when it has taken an answer for each,   *)
(* to a question under its name that no call has taken before.  It may     *)
(* return an error at any time, and then takes no more.                    *)
(***************************************************************************)
EXTENDS Naturals

CONSTANTS
    Callers,
    Names,
    NoName     \* none of them

Questions == Callers \X {1, 2}

VARIABLES
    state,     \* state[k]: "idle"; "two" or "one", the answers the call has
               \* still to take; or what it returned: "ok" or "error"
    name,      \* name[k]: the name the call asks under
    answer     \* answer[q]: "none", "due" or "taken"

vars == <<state, name, answer>>

\* What one more answer makes of an open call.
After(s) == IF s = "two" THEN "one" ELSE "ok"

Open(k) == state[k] \in {"two", "one"}

Init ==
    /\ state = [k \in Callers |-> "idle"]
    /\ name = [k \in Callers |-> NoName]
    /\ answer = [q \in Questions |-> "none"]

\* A step that no caller sees, the commonest of the client's.
Unseen == UNCHANGED vars

Begin(k) ==
    /\ state[k] = "idle"
    /\ \E s \in {"two", "one"} : state' = [state EXCEPT ![k] = s]
    /\ \E i \in Names : name' = [name EXCEPT ![k] = i]
    /\ UNCHANGED answer

Ask(q) ==
    /\ answer[q] = "none" /\ Open(q[1])
    /\ answer' = [answer EXCEPT ![q] = "due"]
    /\ UNCHANGED <<state, name>>

\* The answer to q may be an error, and may have been meant for another call
\* of the same name.
Take(k, q) ==
    /\ answer[q] = "due" /\ Open(k) /\ name[q[1]] = name[k]
    /\ answer' = [answer EXCEPT ![q] = "taken"]
    /\ \E s \in {"error", After(state[k])} : state' = [state EXCEPT ![k] = s]
    /\ UNCHANGED name

GiveUp(k) ==
    /\ Open(k)
    /\ state' = [state EXCEPT ![k] = "error"]
    /\ UNCHANGED <<name, answer>>

Next ==
    \/ Unseen
    \/ \E k \in Callers : Begin(k) \/ GiveUp(k)
    \/ \E q \in Questions : Ask(q) \/ \E k \in Callers : Take(k, q)

Spec == Init /\ [][Next]_vars
=============================================================================
