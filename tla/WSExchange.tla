----------------------------- MODULE WSExchange -----------------------------
(* The request table of WSRequests implements Exchange. *)
EXTENDS WSRequests

\* A call as its caller sees it: open, it has still to take one answer for
\* each of its requests.
Seen(k) ==
    CASE pc[k] = "new" -> "idle"
      [] pc[k] = "ok" -> "ok"
      [] pc[k] \in {"fail", "nows", "timeout"} -> "error"
      [] OTHER -> IF kind[k] = "two" /\ stage[k] = 1 THEN "two" ELSE "one"

\* An answer is taken when it has been put into a ResCh and is there no more.
Fate(r) ==
    CASE msg[r] = "none" -> "none"
      [] msg[r] \in {"del", "done"} /\ \A s \in Reqs : resCh[s] # r -> "taken"
      [] OTHER -> "due"

Calling == INSTANCE Exchange WITH
    Callers <- Calls, Names <- Ids, NoName <- NoId,
    state <- [k \in Calls |-> Seen(k)],
    name <- id,
    answer <- [r \in Reqs |-> Fate(r)]

\* Every behaviour of the table is one an Exchange allows: sendSyncWSRequest
\* returns a result only from an answer to a request under its identifier, no
\* answer serves twice, getCurrentBlockHash needs two, and a late answer, a
\* timer or a lost connection changes nothing for a call that has returned.
ImplementsExchange == Calling!Spec
=============================================================================
