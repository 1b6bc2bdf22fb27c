--------------------------- MODULE WSSubscription ---------------------------
(***************************************************************************)
(* Subscriptions over the web socket (client/ws.go): what the client       *)
(* believes it has subscribed to (subStatus), what the node has been told, *)
(* and the requests between them.  Every request carries the whole status, *)
(* so the last one the node accepts decides.  subStatus has no lock, and a *)
(* call changes it either before its request (filters, taken back when the *)
(* request fails) or after the answer (flags).  A reconnection repeats the *)
(* subscription, for the node keeps it by connection.                      *)
(*                                                                         *)
(* One answer per request, found by its own caller, is what WSRequests     *)
(* shows; here a request carries its caller.                               *)
(***************************************************************************)
EXTENDS Integers, Sequences

CONSTANTS
    Contracts,    \* addresses of contracts
    Flags,        \* SubscribeEvent, SubscribeRawBlock, SubscribeBlockTxHashes
    Users,        \* application threads that subscribe
    Reconnect,    \* the goroutine of reconnect
    Nobody,       \* the caller of a request that has been given up
    MaxWire       \* bound: requests under way on the connection

ASSUME SubscriptionAssumption ==
    /\ Contracts \cap Flags = {}
    /\ Reconnect \notin Users
    /\ Nobody \notin Users \cup {Reconnect} \cup Contracts \cup Flags
    /\ MaxWire \in Nat

Threads == Users \cup {Reconnect}
Topics == Contracts \cup Flags

\* A call: the topic and whether it is wanted.  reconnect has none.
Calls == [topic : Topics, on : BOOLEAN]
NoCall == [topic |-> Nobody, on |-> FALSE]

VARIABLES
    status,       \* subStatus: the filters and the flags that are set
    pc,           \* pc[t]: where thread t stands
    call,         \* call[t]: its call
    sent,         \* sent[t]: the status in the request it is going to send
    answer,       \* answer[t]: what its ResCh holds
    ws,           \* the connection: "nil", "open" or, still in ws, "closed"
    wire,         \* the requests on their way to the node, in order
    view,         \* what the node has accepted on this connection
    last,         \* history: the last call, if none overlapped it
    before        \* history: status when that call started

callVars == <<pc, call, sent, answer>>
netVars == <<ws, wire, view>>
history == <<last, before>>
vars == <<status, callVars, netVars, history>>

Init ==
    /\ status = {}
    /\ pc = [t \in Threads |-> "idle"]
    /\ call = [t \in Threads |-> NoCall]
    /\ sent = [t \in Threads |-> {}]
    /\ answer = [t \in Threads |-> "none"]
    /\ ws = "nil" /\ wire = <<>> /\ view = {}
    /\ last = "none" /\ before = {}

Goto(t, l) == pc' = [pc EXCEPT ![t] = l]

\* The status with a topic added or removed.
With(s, c) == IF c.on THEN s \cup {c.topic} ELSE s \ {c.topic}

Idle(t) == pc[t] \in {"idle", "dial"}

\* A call that starts alone is the last one; another takes that from it.
Starts(t) ==
    /\ last' = IF \A u \in Threads \ {t} : Idle(u) THEN "running" ELSE "none"
    /\ before' = IF last' = "running" THEN status ELSE {}

\* The end of a call: only one that ran alone says anything afterwards.
Ends(outcome) ==
    /\ last' = IF last = "running" THEN outcome ELSE "none"
    /\ before' = IF last' = "failed" THEN before ELSE {}

-----------------------------------------------------------------------------
(* The calls: AddContractFilter, DelContractFilter, Subscribe*, Unsubscribe*. *)

\* A call for what is the case already returns at once.
Check(t, c) ==
    /\ t \in Users /\ pc[t] = "idle"
    /\ ~(c.topic \in status <=> c.on)
    /\ Goto(t, IF c.topic \in Contracts THEN "change" ELSE "snapshot")
    /\ call' = [call EXCEPT ![t] = c]
    /\ Starts(t)
    /\ UNCHANGED <<status, sent, answer, netVars>>

\* A filter is changed before the node is asked.
Change(t) ==
    /\ pc[t] = "change"
    /\ status' = With(status, call[t])
    /\ Goto(t, "snapshot")
    /\ UNCHANGED <<call, sent, answer, netVars, history>>

\* The parameters of the request: the status, and in it a flag as wanted.
Snapshot(t) ==
    /\ pc[t] = "snapshot"
    /\ sent' = [sent EXCEPT ![t] = IF call[t].topic \in Flags THEN With(status, call[t]) ELSE status]
    /\ Goto(t, "send")
    /\ UNCHANGED <<status, call, answer, netVars, history>>

\* Mutated form: a filter stays when its request fails.
TakeBackNot(t) ==
    /\ status' = status
    /\ Goto(t, "idle")
    /\ call' = [call EXCEPT ![t] = NoCall]
    /\ sent' = [sent EXCEPT ![t] = {}]
    /\ answer' = [answer EXCEPT ![t] = "none"]
    /\ Ends("failed")

\* A failed call takes back its filter.
TakeBack(t) ==
    /\ status' = IF call[t].topic \in Contracts
                 THEN With(status, [call[t] EXCEPT !.on = ~@])
                 ELSE status
    /\ Goto(t, "idle")
    /\ call' = [call EXCEPT ![t] = NoCall]
    /\ sent' = [sent EXCEPT ![t] = {}]
    /\ answer' = [answer EXCEPT ![t] = "none"]
    /\ Ends("failed")

Send(t) ==
    /\ pc[t] = "send" /\ ws = "open"
    /\ Len(wire) < MaxWire
    /\ wire' = Append(wire, [from |-> t, status |-> sent[t]])
    /\ sent' = [sent EXCEPT ![t] = {}]
    /\ Goto(t, "wait")
    /\ UNCHANGED <<status, call, answer, ws, view, history>>

\* No connection, or one that is closed.
SendFails(t) ==
    /\ pc[t] = "send" /\ ws # "open"
    /\ TakeBack(t)
    /\ UNCHANGED netVars

\* Mutated form: the flag is not set after the answer.
ReceiveForgets(t) ==
    /\ pc[t] = "wait" /\ answer[t] = "ok"
    /\ status' = status
    /\ Goto(t, "idle")
    /\ call' = [call EXCEPT ![t] = NoCall]
    /\ answer' = [answer EXCEPT ![t] = "none"]
    /\ Ends("ok")
    /\ UNCHANGED <<sent, netVars>>

\* The answer: a flag is set as wanted; a filter is changed already.
Receive(t) ==
    /\ pc[t] = "wait" /\ answer[t] = "ok"
    /\ status' = IF call[t].topic \in Flags THEN With(status, call[t]) ELSE status
    /\ Goto(t, "idle")
    /\ call' = [call EXCEPT ![t] = NoCall]
    /\ answer' = [answer EXCEPT ![t] = "none"]
    /\ Ends("ok")
    /\ UNCHANGED <<sent, netVars>>

\* The answer carries an error.
Refused(t) ==
    /\ pc[t] = "wait" /\ answer[t] = "error"
    /\ TakeBack(t)
    /\ UNCHANGED netVars

\* Mutated form: a late answer still finds the call.
TimeoutLate(t) ==
    /\ pc[t] = "wait"
    /\ TakeBack(t)
    /\ UNCHANGED netVars

\* The timer fires, at times beside an answer.  The request remains on its way.
Timeout(t) ==
    /\ pc[t] = "wait"
    /\ TakeBack(t)
    /\ wire' = [i \in DOMAIN wire |-> [wire[i] EXCEPT !.from = IF @ = t THEN Nobody ELSE @]]
    /\ UNCHANGED <<ws, view>>

-----------------------------------------------------------------------------
(* reconnect. *)

\* What is on its way is lost with the connection, and the node forgets.
Becomes(c) == ws' = c /\ wire' = <<>> /\ view' = {}

\* The old connection, if any, is taken out and closed.
StartReconnect ==
    /\ pc[Reconnect] = "idle"
    /\ Goto(Reconnect, "dial")
    /\ Becomes("nil")
    /\ last' = "none" /\ before' = {}
    /\ UNCHANGED <<status, call, sent, answer>>

DialFails ==
    /\ pc[Reconnect] = "dial"
    /\ Goto(Reconnect, "idle")
    /\ UNCHANGED <<status, call, sent, answer, netVars, history>>

\* The new connection is installed; reSubscribe follows.
Dial ==
    /\ pc[Reconnect] = "dial"
    /\ Becomes("open")
    /\ Goto(Reconnect, "snapshot")
    /\ Starts(Reconnect)
    /\ UNCHANGED <<status, call, sent, answer>>

\* Connect by the application: nothing is subscribed on the new connection.
Connect ==
    /\ ws = "nil"
    /\ Becomes("open")
    /\ last' = IF last = "running" THEN last ELSE "none"
    /\ before' = IF last = "running" THEN before ELSE {}
    /\ UNCHANGED <<status, callVars>>

-----------------------------------------------------------------------------
(* The node and the network. *)

\* The node takes the next request, or refuses it.
Node(outcome) ==
    /\ ws = "open" /\ wire # <<>>
    /\ wire' = Tail(wire)
    /\ view' = IF outcome = "ok" THEN Head(wire).status ELSE view
    /\ answer' = [t \in Threads |-> IF t = Head(wire).from THEN outcome ELSE answer[t]]
    /\ UNCHANGED <<status, pc, call, sent, ws, history>>

Break ==
    /\ ws = "open"
    /\ Becomes("closed")
    /\ UNCHANGED <<status, callVars, history>>

-----------------------------------------------------------------------------
CallStep(t) ==
    \/ Change(t) \/ Snapshot(t) \/ Send(t) \/ SendFails(t)
    \/ Receive(t) \/ Refused(t) \/ Timeout(t)

Next ==
    \/ \E t \in Threads : CallStep(t) \/ \E c \in Calls : Check(t, c)
    \/ StartReconnect \/ DialFails \/ Dial \/ Connect
    \/ Break \/ \E o \in {"ok", "error"} : Node(o)

Spec == Init /\ [][Next]_vars

-----------------------------------------------------------------------------
(* Properties. *)

\* Besides the types: an answer lies in ResCh, and a request is under way,
\* only while its caller waits.
TypeOK ==
    /\ status \subseteq Topics
    /\ pc \in [Threads -> {"idle", "dial", "change", "snapshot", "send", "wait"}]
    /\ call \in [Threads -> Calls \cup {NoCall}]
    /\ sent \in [Threads -> SUBSET Topics]
    /\ answer \in [Threads -> {"none", "ok", "error"}]
    /\ ws \in {"nil", "open", "closed"} /\ view \subseteq Topics
    /\ last \in {"none", "running", "ok", "failed"}
    /\ before \subseteq Topics
    /\ \A t \in Threads : answer[t] # "none" => pc[t] = "wait"
    /\ wire \in Seq([from : Threads \cup {Nobody}, status : SUBSET Topics])
    /\ Len(wire) <= MaxWire
    /\ \A i \in DOMAIN wire : wire[i].from \in Threads =>
          pc[wire[i].from] = "wait" /\ answer[wire[i].from] = "none"

\* A call, or the reSubscribe of a reconnection, that succeeds without another
\* beside it leaves client and node agreed, whatever went wrong before: late
\* requests of calls that timed out, refusals, lost connections.
Agreement == last = "ok" /\ ws = "open" => view = status

\* A call that fails, with no other beside it, leaves the client believing
\* what it believed before.
FailureRestores == last = "failed" => status = before
=============================================================================
