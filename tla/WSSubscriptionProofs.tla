------------------------ MODULE WSSubscriptionProofs ------------------------
(***************************************************************************)
(* Proofs about the subscriptions, for any contracts, flags and threads,   *)
(* and any number of requests under way.                                   *)
(***************************************************************************)
EXTENDS WSSubscription, SequenceTheorems, TLAPS

-----------------------------------------------------------------------------
(* The inductive invariant. *)

Requests == [from : Threads \cup {Nobody}, status : SUBSET Topics]

\* What the request of call c carries: the status, and in it a flag as wanted.
Carried(c) == IF c.topic \in Flags THEN With(status, c) ELSE status

\* Every call has its topic; reconnect has none.
CallInv ==
    /\ call[Reconnect] = NoCall /\ pc[Reconnect] # "change"
    /\ \A t \in Users : pc[t] # "dial" /\ (pc[t] # "idle" => call[t] \in Calls)
    /\ \A t \in Users : pc[t] = "change" => call[t].topic \in Contracts

\* A thread has one request under way.
WireInv ==
    \A i, j \in DOMAIN wire : wire[i].from = wire[j].from /\ wire[i].from \in Threads => i = j

\* What is said of a call that runs alone, thread t's: the node gets its
\* request last, and what it then holds is what the call leaves in status.
AloneInv(t) ==
    /\ \A u \in Threads \ {t} : Idle(u)
    /\ t \in Users => ~(call[t].topic \in before <=> call[t].on)
    /\ status = IF call[t].topic \in Contracts /\ pc[t] # "change"
                THEN With(before, call[t]) ELSE before
    /\ pc[t] = "send" => sent[t] = Carried(call[t])
    /\ pc[t] = "wait" => ws # "nil"
    /\ pc[t] = "wait" /\ ws = "open" /\ answer[t] = "none" =>
          /\ wire # <<>>
          /\ wire[Len(wire)] = [from |-> t, status |-> Carried(call[t])]
    /\ pc[t] = "wait" /\ ws = "open" /\ answer[t] = "ok" =>
          wire = <<>> /\ view = Carried(call[t])

HistoryInv ==
    /\ last = "running" => \A t \in Threads : ~Idle(t) => AloneInv(t)
    /\ last \in {"ok", "failed"} => \A t \in Threads : Idle(t)
    /\ last = "ok" /\ ws = "open" => wire = <<>> /\ view = status
    /\ last = "failed" => status = before

Inv == TypeOK /\ CallInv /\ WireInv /\ HistoryInv

LEMMA ConstantsOK ==
    /\ Contracts \cap Flags = {} /\ Contracts \subseteq Topics /\ Flags \subseteq Topics
    /\ Reconnect \notin Users /\ Reconnect \in Threads /\ Users \subseteq Threads
    /\ \A t \in Threads : t # Reconnect => t \in Users
    /\ Nobody \notin Threads /\ Nobody \notin Topics
    /\ NoCall.topic = Nobody
    /\ MaxWire \in Nat
    /\ \A c \in Calls : c.topic \in Topics /\ c.on \in BOOLEAN
BY SubscriptionAssumption DEF Threads, Topics, NoCall, Calls

-----------------------------------------------------------------------------
(* The requests under way. *)

LEMMA TailElements ==
    ASSUME NEW S, NEW w \in Seq(S), w # <<>>
    PROVE  /\ Tail(w) \in Seq(S) /\ Len(Tail(w)) = Len(w) - 1 /\ Len(w) \in Nat \ {0}
           /\ Head(w) = w[1] /\ 1 \in DOMAIN w /\ w[1] \in S
           /\ DOMAIN w = 1..Len(w) /\ DOMAIN Tail(w) = 1..Len(w) - 1
           /\ \A i \in DOMAIN Tail(w) :
                 Tail(w)[i] = w[i + 1] /\ i + 1 \in DOMAIN w /\ i + 1 # 1 /\ i \in Nat
<1>1. Len(w) \in Nat \ {0} /\ DOMAIN w = 1..Len(w) /\ Head(w) = w[1]
  BY EmptySeq, LenProperties
<1>2. Tail(w) \in Seq(S) /\ Len(Tail(w)) = Len(w) - 1
  BY HeadTailProperties
<1>3. DOMAIN Tail(w) = 1..Len(w) - 1
  BY <1>2, LenProperties
<1>4. \A i \in 1..Len(w) - 1 : Tail(w)[i] = w[i + 1]
  BY <1>2, HeadTailProperties
<1>5. w[1] \in S
  BY <1>1, ElementOfSeq
<1> QED BY <1>1, <1>2, <1>3, <1>4, <1>5

LEMMA AppendElements ==
    ASSUME NEW S, NEW w \in Seq(S), NEW e \in S
    PROVE  /\ Append(w, e) \in Seq(S) /\ Append(w, e) # <<>> /\ Len(w) \in Nat
           /\ Len(Append(w, e)) = Len(w) + 1 /\ DOMAIN w = 1..Len(w)
           /\ Append(w, e)[Len(w) + 1] = e /\ DOMAIN Append(w, e) = 1..Len(w) + 1
           /\ \A i \in DOMAIN w : Append(w, e)[i] = w[i] /\ i \in DOMAIN Append(w, e)
           /\ \A i \in DOMAIN Append(w, e) : i \in DOMAIN w \/ i = Len(w) + 1
<1>1. Len(w) \in Nat /\ DOMAIN w = 1..Len(w)
  BY LenProperties
<1>2. Append(w, e) \in Seq(S) /\ Len(Append(w, e)) = Len(w) + 1 /\ Append(w, e) # <<>>
  BY AppendProperties
<1>3. DOMAIN Append(w, e) = 1..Len(w) + 1
  BY <1>1, <1>2, LenProperties
<1>4. \A i \in 1..Len(w) : Append(w, e)[i] = w[i]
  BY AppendProperties
<1>5. Append(w, e)[Len(w) + 1] = e
  BY AppendProperties
<1> QED BY <1>1, <1>2, <1>3, <1>4, <1>5

\* A new request of a thread that has none.
LEMMA WireAppend ==
    ASSUME NEW w \in Seq(Requests), NEW t \in Threads, NEW S \in SUBSET Topics,
           \A i \in DOMAIN w : w[i].from # t,
           \A i, j \in DOMAIN w : w[i].from = w[j].from /\ w[i].from \in Threads => i = j
    PROVE  LET x == Append(w, [from |-> t, status |-> S]) IN
           /\ x \in Seq(Requests)
           /\ \A i, j \in DOMAIN x : x[i].from = x[j].from /\ x[i].from \in Threads => i = j
           /\ \A i \in DOMAIN x : x[i].from = t \/ (i \in DOMAIN w /\ x[i] = w[i])
<1> DEFINE e == [from |-> t, status |-> S]
           x == Append(w, e)
<1>1. e \in Requests /\ e.from = t
  BY DEF Requests
<1> HIDE DEF e
<1>2. /\ x \in Seq(Requests) /\ x[Len(w) + 1] = e
      /\ \A i \in DOMAIN w : x[i] = w[i]
      /\ \A i \in DOMAIN x : i \in DOMAIN w \/ i = Len(w) + 1
  BY <1>1, AppendElements
<1> HIDE DEF x
<1>3. \A i \in DOMAIN x : (i \in DOMAIN w /\ x[i] = w[i]) \/ (i = Len(w) + 1 /\ x[i].from = t)
  BY <1>1, <1>2
<1>4. \A i, j \in DOMAIN x : x[i].from = x[j].from /\ x[i].from \in Threads => i = j
  BY <1>3
<1> QED BY <1>2, <1>3, <1>4 DEF x, e

\* The next request is taken.
LEMMA WireTail ==
    ASSUME NEW w \in Seq(Requests), w # <<>>,
           \A i, j \in DOMAIN w : w[i].from = w[j].from /\ w[i].from \in Threads => i = j
    PROVE  LET x == Tail(w) IN
           /\ x \in Seq(Requests) /\ Len(x) <= Len(w)
           /\ Head(w) \in Requests
           /\ \A i, j \in DOMAIN x : x[i].from = x[j].from /\ x[i].from \in Threads => i = j
           /\ \A i \in DOMAIN x : \E j \in DOMAIN w : x[i] = w[j]
           /\ \A i \in DOMAIN x : x[i].from \in Threads => x[i].from # Head(w).from
<1> DEFINE x == Tail(w)
<1>1. /\ x \in Seq(Requests) /\ Len(x) <= Len(w) /\ Head(w) = w[1] /\ 1 \in DOMAIN w
      /\ w[1] \in Requests
      /\ \A i \in DOMAIN x : x[i] = w[i + 1] /\ i + 1 \in DOMAIN w /\ i + 1 # 1 /\ i \in Nat
  <2>1. Len(w) - 1 <= Len(w)
    BY TailElements
  <2> QED BY <2>1, TailElements
<1> HIDE DEF x
<1>2. ASSUME NEW i \in DOMAIN x, NEW j \in DOMAIN x, x[i].from = x[j].from, x[i].from \in Threads
      PROVE  i = j
  <2>1. i + 1 = j + 1
    BY <1>1, <1>2
  <2> QED BY <1>1, <2>1
<1> QED BY <1>1, <1>2 DEF x

\* The requests under way when thread t gives up its own: it is nobody's.
GivenUp(w, t) == [i \in DOMAIN w |-> [w[i] EXCEPT !.from = IF @ = t THEN Nobody ELSE @]]

LEMMA WireGivenUp ==
    ASSUME NEW w \in Seq(Requests), NEW t \in Threads,
           \A i, j \in DOMAIN w : w[i].from = w[j].from /\ w[i].from \in Threads => i = j
    PROVE  LET x == GivenUp(w, t) IN
           /\ x \in Seq(Requests) /\ Len(x) = Len(w)
           /\ \A i, j \in DOMAIN x : x[i].from = x[j].from /\ x[i].from \in Threads => i = j
           /\ \A i \in DOMAIN x : x[i].from \in Threads =>
                 x[i].from # t /\ i \in DOMAIN w /\ x[i].from = w[i].from
<1> DEFINE x == GivenUp(w, t)
<1>1. DOMAIN w = 1..Len(w) /\ Len(w) \in Nat /\ \A i \in DOMAIN w : w[i] \in Requests
  BY LenProperties, ElementOfSeq
<1>2. \A i \in DOMAIN w :
         /\ x[i] \in Requests
         /\ x[i].from = IF w[i].from = t THEN Nobody ELSE w[i].from
  BY <1>1 DEF Requests, GivenUp
<1>3. DOMAIN x = 1..Len(w) /\ x \in [1..Len(w) -> Requests]
  BY <1>1, <1>2 DEF GivenUp
<1> HIDE DEF x
<1>4. x \in Seq(Requests) /\ Len(x) = Len(w)
  <2>1. x \in Seq(Requests)
    BY <1>1, <1>3, SeqDef
  <2> QED BY <1>1, <1>3, <2>1, LenProperties
<1>5. \A i, j \in DOMAIN x : x[i].from = x[j].from /\ x[i].from \in Threads => i = j
  BY <1>1, <1>2, <1>3, ConstantsOK
<1> QED BY <1>1, <1>2, <1>3, <1>4, <1>5, ConstantsOK DEF x

-----------------------------------------------------------------------------
(* Type correctness, and one request per thread. *)

Locations == {"idle", "dial", "change", "snapshot", "send", "wait"}

\* TypeOK in parts: the types, the answers, and the requests under way.
Types ==
    /\ status \subseteq Topics
    /\ pc \in [Threads -> Locations]
    /\ call \in [Threads -> Calls \cup {NoCall}]
    /\ sent \in [Threads -> SUBSET Topics]
    /\ answer \in [Threads -> {"none", "ok", "error"}]
    /\ ws \in {"nil", "open", "closed"} /\ view \subseteq Topics
    /\ last \in {"none", "running", "ok", "failed"}
    /\ before \subseteq Topics

Answers == \A t \in Threads : answer[t] # "none" => pc[t] = "wait"

Wires ==
    /\ wire \in Seq(Requests) /\ Len(wire) <= MaxWire
    /\ \A i \in DOMAIN wire : wire[i].from \in Threads =>
          pc[wire[i].from] = "wait" /\ answer[wire[i].from] = "none"
    /\ WireInv

LEMMA Parts == TypeOK /\ WireInv => Types /\ Answers /\ Wires
BY DEF TypeOK, Types, Answers, Wires, Locations, Requests

\* What a call leaves in the histories.
LEMMA StartsHistory ==
    ASSUME NEW t \in Threads, Starts(t)
    PROVE  \/ /\ last' = "running" /\ before' = status
              /\ \A u \in Threads \ {t} : Idle(u)
           \/ last' = "none" /\ before' = {}
BY DEF Starts

LEMMA EndsHistory ==
    ASSUME NEW o \in {"ok", "failed"}, Ends(o)
    PROVE  \/ /\ last = "running" /\ last' = o
              /\ before' = IF o = "failed" THEN before ELSE {}
           \/ last # "running" /\ last' = "none" /\ before' = {}
BY DEF Ends

LEMMA WithTopics ==
    ASSUME NEW S \in SUBSET Topics, NEW c, c.topic \in Topics
    PROVE  With(S, c) \in SUBSET Topics
BY DEF With

LEMMA TakeBackTypes ==
    ASSUME Types, NEW t \in Threads, TakeBack(t)
    PROVE  /\ status' \subseteq Topics /\ pc' = [pc EXCEPT ![t] = "idle"]
           /\ call' = [call EXCEPT ![t] = NoCall] /\ sent' = [sent EXCEPT ![t] = {}]
           /\ answer' = [answer EXCEPT ![t] = "none"]
           /\ last' \in {"none", "running", "ok", "failed"} /\ before' \subseteq Topics
<1> DEFINE c == [call[t] EXCEPT !.on = ~@]
<1>1. last' \in {"none", "running", "ok", "failed"} /\ before' \subseteq Topics
  BY EndsHistory DEF TakeBack, Types
<1>2. call[t].topic \in Contracts => With(status, c) \in SUBSET Topics
  <2>1. c.topic = call[t].topic
    BY DEF Types, Calls, NoCall
  <2> QED BY <2>1, ConstantsOK, WithTopics DEF Types
<1> QED BY <1>1, <1>2 DEF TakeBack, Goto, Types

\* The types after every step.
LEMMA TypesStep == Types /\ Wires /\ CallInv /\ [Next]_vars => Types'
<1> SUFFICES ASSUME Types, Wires, CallInv, [Next]_vars PROVE Types'
  OBVIOUS
<1> USE ConstantsOK DEF Types, Locations, Goto, netVars, callVars, history
<1>1. ASSUME NEW t \in Threads, NEW c \in Calls, Check(t, c) PROVE Types'
  BY <1>1, StartsHistory DEF Check
<1>2. ASSUME NEW t \in Threads, Change(t) PROVE Types'
  <2>1. call[t].topic \in Topics
    BY <1>2 DEF Change, CallInv
  <2>2. With(status, call[t]) \in SUBSET Topics
    BY <2>1, WithTopics
  <2> QED BY <1>2, <2>2 DEF Change
<1>3. ASSUME NEW t \in Threads, Snapshot(t) PROVE Types'
  <2>1. call[t].topic \in Flags => With(status, call[t]) \in SUBSET Topics
    BY WithTopics
  <2> QED BY <1>3, <2>1 DEF Snapshot
<1>4. ASSUME NEW t \in Threads, Send(t) PROVE Types'
  BY <1>4 DEF Send
<1>5. ASSUME NEW t \in Threads, SendFails(t) \/ Refused(t) \/ Timeout(t) PROVE Types'
  <2>1. TakeBack(t) /\ ws' = ws /\ view' = view
    BY <1>5 DEF SendFails, Refused, Timeout
  <2> QED BY <2>1, TakeBackTypes
<1>6. ASSUME NEW t \in Threads, Receive(t) PROVE Types'
  <2>1. call[t].topic \in Flags => With(status, call[t]) \in SUBSET Topics
    BY WithTopics
  <2>2. last' \in {"none", "running", "ok", "failed"} /\ before' \subseteq Topics
    BY <1>6, EndsHistory DEF Receive
  <2> QED BY <1>6, <2>1, <2>2 DEF Receive
<1>7. CASE StartReconnect \/ DialFails
  BY <1>7 DEF StartReconnect, DialFails, Becomes
<1>8. CASE Dial
  BY <1>8, StartsHistory DEF Dial, Becomes
<1>9. CASE Connect \/ Break
  BY <1>9 DEF Connect, Break, Becomes
<1>10. ASSUME NEW o \in {"ok", "error"}, Node(o) PROVE Types'
  <2>1. Head(wire).status \subseteq Topics
    <3>1. wire \in Seq(Requests) /\ wire # <<>>
      BY <1>10 DEF Node, Wires
    <3>2. Head(wire) \in Requests
      BY <3>1, HeadTailProperties
    <3> QED BY <3>2 DEF Requests
  <2> QED BY <1>10, <2>1 DEF Node
<1>11. CASE UNCHANGED vars
  BY <1>11 DEF vars
<1> QED BY <1>1, <1>2, <1>3, <1>4, <1>5, <1>6, <1>7, <1>8, <1>9, <1>10, <1>11 DEF Next, CallStep

\* A step of thread t leaves the other threads' calls alone.
LEMMA OtherThreads ==
    ASSUME Types, NEW t \in Threads, CallStep(t) \/ \E c \in Calls : Check(t, c),
           NEW u \in Threads \ {t}
    PROVE  UNCHANGED <<pc[u], call[u], sent[u], answer[u]>>
<1> USE DEF Types, Goto, TakeBack
<1>1. CASE Change(t) \/ Snapshot(t) \/ Send(t)
  BY <1>1 DEF Change, Snapshot, Send
<1>2. CASE SendFails(t) \/ Refused(t) \/ Timeout(t)
  BY <1>2 DEF SendFails, Refused, Timeout
<1>3. CASE Receive(t)
  BY <1>3 DEF Receive
<1>4. CASE \E c \in Calls : Check(t, c)
  BY <1>4 DEF Check
<1> QED BY <1>1, <1>2, <1>3, <1>4 DEF CallStep

LEMMA CallStepInv == Types /\ CallInv /\ [Next]_vars => CallInv'
<1> SUFFICES ASSUME Types, CallInv, [Next]_vars PROVE CallInv'
  OBVIOUS
<1>a. /\ pc \in [Threads -> Locations] /\ call \in [Threads -> Calls \cup {NoCall}]
      /\ Users \subseteq Threads /\ Reconnect \in Threads /\ Reconnect \notin Users
  BY ConstantsOK DEF Types
<1> USE DEF CallInv
<1>1. ASSUME NEW t \in Threads, NEW c \in Calls, Check(t, c) PROVE CallInv'
  BY <1>a, <1>1 DEF Check, Goto
<1>2. ASSUME NEW t \in Threads, Change(t) \/ Snapshot(t) \/ Send(t) PROVE CallInv'
  BY <1>a, <1>2 DEF Change, Snapshot, Send, Goto
<1>3. ASSUME NEW t \in Threads, SendFails(t) \/ Refused(t) \/ Timeout(t) \/ Receive(t)
      PROVE CallInv'
  <2>1. pc' = [pc EXCEPT ![t] = "idle"] /\ call' = [call EXCEPT ![t] = NoCall]
    BY <1>3 DEF SendFails, Refused, Timeout, Receive, TakeBack, Goto
  <2> QED BY <1>a, <2>1
<1>4. CASE StartReconnect \/ DialFails \/ Dial
  BY <1>a, <1>4 DEF StartReconnect, DialFails, Dial, Goto
<1>5. CASE Connect \/ Break \/ \E o \in {"ok", "error"} : Node(o)
  BY <1>5 DEF Connect, Break, Node, callVars
<1>6. CASE UNCHANGED vars
  BY <1>6 DEF vars, callVars
<1> QED BY <1>1, <1>2, <1>3, <1>4, <1>5, <1>6 DEF Next, CallStep

\* An answer lies in ResCh only while its caller waits.
LEMMA AnswersStep == Types /\ Answers /\ Wires /\ [Next]_vars => Answers'
<1> SUFFICES ASSUME Types, Answers, Wires, [Next]_vars PROVE Answers'
  OBVIOUS
<1>a. /\ pc \in [Threads -> Locations] /\ answer \in [Threads -> {"none", "ok", "error"}]
      /\ Reconnect \in Threads
  BY ConstantsOK DEF Types
<1> USE DEF Answers
<1>1. ASSUME NEW t \in Threads, NEW c \in Calls, Check(t, c) PROVE Answers'
  BY <1>a, <1>1 DEF Check, Goto
<1>2. ASSUME NEW t \in Threads, Change(t) \/ Snapshot(t) \/ Send(t) PROVE Answers'
  BY <1>a, <1>2 DEF Change, Snapshot, Send, Goto
<1>3. ASSUME NEW t \in Threads, SendFails(t) \/ Refused(t) \/ Timeout(t) \/ Receive(t)
      PROVE Answers'
  <2>1. pc' = [pc EXCEPT ![t] = "idle"] /\ answer' = [answer EXCEPT ![t] = "none"]
    BY <1>3 DEF SendFails, Refused, Timeout, Receive, TakeBack, Goto
  <2> QED BY <1>a, <2>1
<1>4. CASE StartReconnect \/ DialFails \/ Dial
  BY <1>a, <1>4 DEF StartReconnect, DialFails, Dial, Goto
<1>5. CASE Connect \/ Break
  BY <1>5 DEF Connect, Break, callVars
<1>6. ASSUME NEW o \in {"ok", "error"}, Node(o) PROVE Answers'
  <2>1. wire \in Seq(Requests) /\ wire # <<>>
    BY <1>6 DEF Node, Wires
  <2>2. Head(wire) = wire[1] /\ 1 \in DOMAIN wire
    BY <2>1, TailElements
  <2>3. Head(wire).from \in Threads => pc[Head(wire).from] = "wait"
    BY <2>2 DEF Wires
  <2> QED BY <1>6, <2>3 DEF Node
<1>7. CASE UNCHANGED vars
  BY <1>7 DEF vars, callVars
<1> QED BY <1>1, <1>2, <1>3, <1>4, <1>5, <1>6, <1>7 DEF Next, CallStep

\* The requests under way are those of threads that wait, one of each.
LEMMA WiresStep == Types /\ Answers /\ Wires /\ [Next]_vars => Wires'
<1> SUFFICES ASSUME Types, Answers, Wires, [Next]_vars PROVE Wires'
  OBVIOUS
<1>a. /\ pc \in [Threads -> Locations] /\ answer \in [Threads -> {"none", "ok", "error"}]
      /\ Reconnect \in Threads /\ MaxWire \in Nat
  BY ConstantsOK DEF Types
<1>b. wire \in Seq(Requests) /\ \A i \in DOMAIN wire : wire[i] \in Requests
  BY LenProperties, ElementOfSeq DEF Wires
<1>c. ASSUME wire' = wire,
             \A u \in Threads : pc[u] = "wait" => pc'[u] = pc[u] /\ answer'[u] = answer[u]
      PROVE  Wires'
  BY <1>c DEF Wires, WireInv
<1>d. ASSUME wire' = <<>> PROVE Wires'
  <2>1. wire' \in Seq(Requests) /\ Len(wire') = 0
    BY <1>d, EmptySeq
  <2>2. DOMAIN wire' = {}
    BY <2>1, LenProperties
  <2> QED BY <1>a, <2>1, <2>2 DEF Wires, WireInv
<1>1. ASSUME NEW t \in Threads, NEW c \in Calls, Check(t, c) PROVE Wires'
  BY <1>a, <1>c, <1>1 DEF Check, Goto, netVars
<1>2. ASSUME NEW t \in Threads, Change(t) \/ Snapshot(t) PROVE Wires'
  BY <1>a, <1>c, <1>2 DEF Change, Snapshot, Goto, netVars
<1>3. ASSUME NEW t \in Threads, Send(t) PROVE Wires'
  <2>1. /\ pc[t] = "send" /\ pc' = [pc EXCEPT ![t] = "wait"] /\ answer' = answer
        /\ Len(wire) < MaxWire /\ sent[t] \in SUBSET Topics
        /\ wire' = Append(wire, [from |-> t, status |-> sent[t]])
    BY <1>3 DEF Send, Goto, Types
  <2>2. answer[t] = "none" /\ \A i \in DOMAIN wire : wire[i].from # t
    BY <1>a, <2>1 DEF Answers, Wires
  <2>3. PICK S \in SUBSET Topics : S = sent[t]
    BY <2>1
  <2>4. /\ wire' \in Seq(Requests) /\ WireInv'
        /\ \A i \in DOMAIN wire' :
              wire'[i].from = t \/ (i \in DOMAIN wire /\ wire'[i] = wire[i])
    BY <1>b, <2>1, <2>2, <2>3, WireAppend DEF Wires, WireInv
  <2>5. Len(wire') <= MaxWire
    <3>1. Len(wire') = Len(wire) + 1 /\ Len(wire) \in Nat
      BY <1>b, <2>1
    <3> QED BY <1>a, <2>1, <3>1
  <2>6. \A i \in DOMAIN wire' : wire'[i].from \in Threads =>
           pc'[wire'[i].from] = "wait" /\ answer'[wire'[i].from] = "none"
    BY <1>a, <2>1, <2>2, <2>4 DEF Wires
  <2> QED BY <2>4, <2>5, <2>6 DEF Wires
<1>4. ASSUME NEW t \in Threads, SendFails(t) \/ Refused(t) \/ Receive(t) PROVE Wires'
  <2>1. /\ pc' = [pc EXCEPT ![t] = "idle"] /\ answer' = [answer EXCEPT ![t] = "none"]
        /\ wire' = wire
        /\ pc[t] # "wait" \/ answer[t] # "none"
    BY <1>4 DEF SendFails, Refused, Receive, TakeBack, Goto, netVars
  <2> QED BY <1>a, <2>1 DEF Wires, WireInv
<1>5. ASSUME NEW t \in Threads, Timeout(t) PROVE Wires'
  <2>1. /\ pc' = [pc EXCEPT ![t] = "idle"] /\ answer' = [answer EXCEPT ![t] = "none"]
        /\ wire' = GivenUp(wire, t)
    BY <1>5 DEF Timeout, TakeBack, Goto, GivenUp
  <2>2. /\ wire' \in Seq(Requests) /\ Len(wire') = Len(wire) /\ WireInv'
        /\ \A i \in DOMAIN wire' : wire'[i].from \in Threads =>
              wire'[i].from # t /\ i \in DOMAIN wire /\ wire'[i].from = wire[i].from
    <3>1. \A i, j \in DOMAIN wire : wire[i].from = wire[j].from /\ wire[i].from \in Threads => i = j
      BY DEF Wires, WireInv
    <3> HIDE DEF Wires
    <3> QED BY <1>b, <2>1, <3>1, WireGivenUp DEF WireInv
  <2>3. ASSUME NEW i \in DOMAIN wire', wire'[i].from \in Threads
        PROVE  pc'[wire'[i].from] = "wait" /\ answer'[wire'[i].from] = "none"
    <3>1. wire'[i].from # t /\ i \in DOMAIN wire /\ wire'[i].from = wire[i].from
      BY <2>2, <2>3
    <3>2. pc[wire'[i].from] = "wait" /\ answer[wire'[i].from] = "none"
      BY <2>3, <3>1 DEF Wires
    <3> QED BY <1>a, <2>1, <2>3, <3>1, <3>2
  <2>4. Len(wire') <= MaxWire
    BY <2>2 DEF Wires
  <2> QED BY <2>2, <2>3, <2>4 DEF Wires
<1>6. CASE DialFails
  BY <1>a, <1>c, <1>6 DEF DialFails, Goto, netVars
<1>7. CASE StartReconnect \/ Dial \/ Connect \/ Break
  BY <1>d, <1>7 DEF StartReconnect, Dial, Connect, Break, Becomes
<1>8. ASSUME NEW o \in {"ok", "error"}, Node(o) PROVE Wires'
  <2>1. /\ wire # <<>> /\ wire' = Tail(wire) /\ pc' = pc
        /\ answer' = [t \in Threads |-> IF t = Head(wire).from THEN o ELSE answer[t]]
    BY <1>8 DEF Node
  <2>2. /\ wire' \in Seq(Requests) /\ Len(wire') <= Len(wire) /\ WireInv'
        /\ \A i \in DOMAIN wire' : \E j \in DOMAIN wire : wire'[i] = wire[j]
        /\ \A i \in DOMAIN wire' : wire'[i].from \in Threads => wire'[i].from # Head(wire).from
    BY <1>b, <2>1, WireTail DEF Wires, WireInv
  <2>3. Len(wire') <= MaxWire
    <3>1. Len(wire') \in Nat /\ Len(wire) \in Nat
      BY <1>b, <2>2, LenProperties
    <3> QED BY <1>a, <2>2, <3>1 DEF Wires
  <2>4. \A i \in DOMAIN wire' : wire'[i].from \in Threads =>
           pc'[wire'[i].from] = "wait" /\ answer'[wire'[i].from] = "none"
    BY <2>1, <2>2 DEF Wires
  <2> QED BY <2>2, <2>3, <2>4 DEF Wires
<1>9. CASE UNCHANGED vars
  BY <1>9, <1>c DEF vars, callVars, netVars
<1> QED BY <1>1, <1>2, <1>3, <1>4, <1>5, <1>6, <1>7, <1>8, <1>9 DEF Next, CallStep

-----------------------------------------------------------------------------
(* Calls that run alone. *)

\* A call that has begun is the one the histories speak of, or none is.
LEMMA Running ==
    ASSUME Types, HistoryInv, NEW t \in Threads, ~Idle(t)
    PROVE  last = "none" \/ (last = "running" /\ AloneInv(t))
BY DEF Types, HistoryInv

\* The next state of a call that goes on alone.
LEMMA GoesOn ==
    ASSUME NEW t \in Threads, UNCHANGED history, last = "none" \/ last = "running",
           \A u \in Threads \ {t} : pc'[u] = pc[u],
           last = "running" => (\A u \in Threads \ {t} : Idle(u)) /\ AloneInv(t)'
    PROVE  HistoryInv'
<1>1. ASSUME last = "running", NEW u \in Threads, ~Idle(u)' PROVE AloneInv(u)'
  BY <1>1 DEF Idle
<1> QED BY <1>1 DEF HistoryInv, history

LEMMA CheckHistory ==
    ASSUME Types, CallInv, HistoryInv, NEW t \in Threads, NEW c \in Calls, Check(t, c)
    PROVE  HistoryInv'
<1>1. /\ t \in Users /\ ~(c.topic \in status <=> c.on) /\ status' = status
      /\ pc' = [pc EXCEPT ![t] = IF c.topic \in Contracts THEN "change" ELSE "snapshot"]
      /\ call' = [call EXCEPT ![t] = c]
      /\ Starts(t)
  BY DEF Check, Goto
<1>2. CASE last' = "none"
  BY <1>2 DEF HistoryInv
<1>3. CASE last' = "running" /\ before' = status /\ \A u \in Threads \ {t} : Idle(u)
  <2>1. \A u \in Threads \ {t} : Idle(u)'
    BY <1>1, <1>3 DEF Types, Idle
  <2>2. pc'[t] \in {"change", "snapshot"} /\ call'[t] = c
        /\ (c.topic \in Contracts => pc'[t] = "change")
    BY <1>1 DEF Types
  <2>3. AloneInv(t)'
    BY <1>1, <1>3, <2>1, <2>2 DEF AloneInv
  <2> QED BY <1>3, <2>1, <2>3 DEF HistoryInv
<1> QED BY <1>1, <1>2, <1>3, StartsHistory

\* Changing a filter, taking the parameters, sending.
LEMMA ProgressHistory ==
    ASSUME Types, CallInv, Answers, Wires, HistoryInv, NEW t \in Threads,
           Change(t) \/ Snapshot(t) \/ Send(t)
    PROVE  HistoryInv'
<1>a. ~Idle(t) /\ UNCHANGED <<history, call>> /\ call[t] \in Calls \cup {NoCall}
  BY DEF Change, Snapshot, Send, Idle, Types
<1>b. \A u \in Threads \ {t} : pc'[u] = pc[u]
  BY OtherThreads DEF CallStep
<1>c. last = "none" \/ (last = "running" /\ AloneInv(t))
  BY <1>a, Running
<1> SUFFICES ASSUME last = "running", AloneInv(t) PROVE AloneInv(t)'
  BY <1>a, <1>b, <1>c, GoesOn DEF AloneInv
<1>d. \A u \in Threads \ {t} : Idle(u)'
  BY <1>b DEF AloneInv, Idle
<1>1. CASE Change(t)
  <2>1. /\ pc[t] = "change" /\ pc'[t] = "snapshot" /\ before' = before
        /\ status' = With(status, call[t])
        /\ call[t].topic \in Contracts
    BY <1>1, ConstantsOK DEF Change, Goto, Types, history, CallInv
  <2>2. status' = With(before, call[t])
    BY <2>1 DEF AloneInv
  <2> QED BY <1>a, <1>d, <2>1, <2>2 DEF AloneInv
<1>2. CASE Snapshot(t)
  <2>1. /\ pc[t] = "snapshot" /\ pc'[t] = "send" /\ UNCHANGED <<before, status>>
        /\ sent'[t] = Carried(call[t])
    BY <1>2 DEF Snapshot, Goto, Types, history, Carried
  <2>2. (Carried(call[t]))' = Carried(call[t])
    BY <1>a, <2>1 DEF Carried, With
  <2> QED BY <1>a, <1>d, <2>1, <2>2 DEF AloneInv
<1>3. CASE Send(t)
  <2>1. /\ pc[t] = "send" /\ pc'[t] = "wait" /\ UNCHANGED <<before, status, answer>>
        /\ ws = "open" /\ ws' = "open"
        /\ wire' = Append(wire, [from |-> t, status |-> sent[t]])
        /\ sent[t] \in SUBSET Topics
    BY <1>3 DEF Send, Goto, Types, history
  <2>2. answer'[t] = "none"
    BY <2>1 DEF Answers
  <2>3. (Carried(call[t]))' = Carried(call[t]) /\ sent[t] = Carried(call[t])
    BY <1>a, <2>1 DEF Carried, With, AloneInv
  <2>4. wire' # <<>> /\ wire'[Len(wire')] = [from |-> t, status |-> sent[t]]
    <3>1. [from |-> t, status |-> sent[t]] \in Requests
      BY <2>1 DEF Requests
    <3> QED BY <2>1, <3>1, AppendElements DEF Wires
  <2> QED BY <1>a, <1>d, <2>1, <2>2, <2>3, <2>4 DEF AloneInv
<1> QED BY <1>1, <1>2, <1>3

\* Adding what was there not and taking it out, or the reverse, changes nothing.
LEMMA WithBack ==
    ASSUME NEW S, NEW c \in Calls, ~(c.topic \in S <=> c.on)
    PROVE  With(With(S, c), [c EXCEPT !.on = ~@]) = S
<1> DEFINE d == [c EXCEPT !.on = ~@]
<1>1. d.topic = c.topic /\ d.on = ~c.on
  BY DEF Calls
<1>2. c.on = TRUE \/ c.on = FALSE
  BY ConstantsOK
<1> HIDE DEF d
<1>3. CASE c.on = TRUE
  <2>1. c.topic \notin S
    BY <1>3
  <2>2. With(With(S, c), d) = (S \cup {c.topic}) \ {c.topic}
    BY <1>1, <1>3 DEF With
  <2> QED BY <2>1, <2>2 DEF d
<1>4. CASE c.on = FALSE
  <2>1. c.topic \in S
    BY <1>4
  <2>2. With(With(S, c), d) = (S \ {c.topic}) \cup {c.topic}
    BY <1>1, <1>4 DEF With
  <2>3. (S \ {c.topic}) \cup {c.topic} = S
    BY <2>1
  <2> QED BY <2>2, <2>3 DEF d
<1> QED BY <1>2, <1>3, <1>4

LEMMA FailHistory ==
    ASSUME Types, CallInv, HistoryInv, NEW t \in Threads,
           SendFails(t) \/ Refused(t) \/ Timeout(t)
    PROVE  HistoryInv'
<1>1. ~Idle(t) /\ TakeBack(t) /\ pc[t] # "change"
  BY DEF SendFails, Refused, Timeout, Idle
<1>2. /\ pc' = [pc EXCEPT ![t] = "idle"] /\ Ends("failed")
      /\ status' = IF call[t].topic \in Contracts
                   THEN With(status, [call[t] EXCEPT !.on = ~@]) ELSE status
  BY <1>1 DEF TakeBack, Goto
<1>3. CASE last = "none"
  BY <1>2, <1>3, EndsHistory DEF HistoryInv
<1>4. CASE last = "running" /\ AloneInv(t)
  <2>1. last' = "failed" /\ before' = before
    BY <1>2, <1>4, EndsHistory
  <2>2. \A u \in Threads : Idle(u)'
    BY <1>2, <1>4 DEF AloneInv, Idle, Types
  <2>3. status' = before
    <3>1. CASE call[t].topic \in Contracts
      <4>1. t \in Users /\ call[t] \in Calls
        BY <1>1, <3>1, ConstantsOK DEF CallInv, Idle
      <4>2. status = With(before, call[t]) /\ ~(call[t].topic \in before <=> call[t].on)
        BY <1>1, <1>4, <3>1, <4>1 DEF AloneInv
      <4> QED BY <1>2, <3>1, <4>1, <4>2, WithBack
    <3>2. CASE call[t].topic \notin Contracts
      BY <1>2, <1>4, <3>2 DEF AloneInv
    <3> QED BY <3>1, <3>2
  <2> QED BY <2>1, <2>2, <2>3 DEF HistoryInv
<1> QED BY <1>1, <1>3, <1>4, Running

LEMMA ReceiveHistory ==
    ASSUME Types, HistoryInv, NEW t \in Threads, Receive(t)
    PROVE  HistoryInv'
<1>1. /\ ~Idle(t) /\ pc[t] = "wait" /\ answer[t] = "ok"
      /\ pc' = [pc EXCEPT ![t] = "idle"] /\ Ends("ok")
      /\ status' = Carried(call[t]) /\ UNCHANGED <<wire, view, ws>>
  BY DEF Receive, Goto, Idle, Carried, netVars
<1>2. CASE last = "none"
  BY <1>1, <1>2, EndsHistory DEF HistoryInv
<1>3. CASE last = "running" /\ AloneInv(t)
  <2>1. last' = "ok"
    BY <1>1, <1>3, EndsHistory
  <2>2. \A u \in Threads : Idle(u)'
    BY <1>1, <1>3 DEF AloneInv, Idle, Types
  <2>3. ws' = "open" => wire' = <<>> /\ view' = status'
    BY <1>1, <1>3 DEF AloneInv
  <2> QED BY <2>1, <2>2, <2>3 DEF HistoryInv
<1> QED BY <1>1, <1>2, <1>3, Running

LEMMA DialHistory ==
    ASSUME Types, CallInv, HistoryInv, Dial
    PROVE  HistoryInv'
<1>1. /\ Starts(Reconnect) /\ UNCHANGED <<status, call>>
      /\ pc' = [pc EXCEPT ![Reconnect] = "snapshot"]
  BY DEF Dial, Goto
<1>2. CASE last' = "none"
  BY <1>2 DEF HistoryInv
<1>3. CASE last' = "running" /\ before' = status /\ \A u \in Threads \ {Reconnect} : Idle(u)
  <2>1. \A u \in Threads \ {Reconnect} : Idle(u)'
    BY <1>1, <1>3 DEF Types, Idle
  <2>2. /\ pc'[Reconnect] = "snapshot" /\ call'[Reconnect].topic \notin Contracts
        /\ Reconnect \notin Users
    BY <1>1, ConstantsOK DEF Types, CallInv
  <2>3. AloneInv(Reconnect)'
    BY <1>1, <1>3, <2>1, <2>2 DEF AloneInv
  <2> QED BY <1>3, <2>1, <2>3 DEF HistoryInv
<1> QED BY <1>1, <1>2, <1>3, ConstantsOK, StartsHistory

\* A step of nobody's call: the connection, the timer of reconnect.
LEMMA ConnectionHistory ==
    ASSUME Types, HistoryInv, StartReconnect \/ DialFails \/ Connect \/ Break
    PROVE  HistoryInv'
<1>1. CASE StartReconnect
  BY <1>1 DEF StartReconnect, HistoryInv
<1>2. CASE DialFails
  <2>1. \A u \in Threads : Idle(u)' <=> Idle(u)
    BY <1>2, ConstantsOK DEF DialFails, Goto, Idle, Types
  <2>2. /\ UNCHANGED <<status, call, sent, answer, ws, wire, view, last, before>>
        /\ \A u \in Threads : ~Idle(u) => pc'[u] = pc[u]
    BY <1>2, ConstantsOK DEF DialFails, Goto, Idle, Types, netVars, history
  <2>3. \A u \in Threads : Carried(call[u])' = Carried(call[u])
    BY <2>2 DEF Carried, With
  <2>4. ASSUME NEW u \in Threads, ~Idle(u), AloneInv(u) PROVE AloneInv(u)'
    BY <2>1, <2>2, <2>3, <2>4 DEF AloneInv
  <2> QED BY <2>1, <2>2, <2>4 DEF HistoryInv
<1>3. CASE Connect \/ Break
  <2>1. /\ UNCHANGED <<status, pc, call, sent, answer>>
        /\ last' = "none" \/ UNCHANGED <<last, before>>
        /\ \/ ws = "nil" /\ ws' = "open" /\ (last' = "running" <=> last = "running") /\ last' # "ok"
           \/ ws' = "closed"
    BY <1>3 DEF Connect, Break, Becomes, callVars, history
  <2>2. \A u \in Threads : Idle(u)' <=> Idle(u)
    BY <2>1 DEF Idle
  <2>3. \A u \in Threads : Carried(call[u])' = Carried(call[u])
    BY <2>1 DEF Carried, With
  <2>4. ASSUME NEW u \in Threads, AloneInv(u), before' = before PROVE AloneInv(u)'
    BY <2>1, <2>2, <2>3, <2>4 DEF AloneInv
  <2> QED BY <2>1, <2>2, <2>4 DEF HistoryInv
<1> QED BY <1>1, <1>2, <1>3

LEMMA NodeHistory ==
    ASSUME Types, Wires, HistoryInv, NEW o \in {"ok", "error"}, Node(o)
    PROVE  HistoryInv'
<1>1. /\ ws = "open" /\ wire # <<>> /\ wire' = Tail(wire)
      /\ view' = IF o = "ok" THEN Head(wire).status ELSE view
      /\ \A u \in Threads : answer'[u] = IF u = Head(wire).from THEN o ELSE answer[u]
      /\ UNCHANGED <<status, pc, call, sent, ws, last, before>>
  BY DEF Node, history
<1>2. last # "ok"
  BY <1>1 DEF HistoryInv
<1>3. \A u \in Threads : Idle(u)' <=> Idle(u)
  BY <1>1 DEF Idle
<1>4. ASSUME NEW u \in Threads, AloneInv(u) PROVE AloneInv(u)'
  <2>1. (Carried(call[u]))' = Carried(call[u])
    BY <1>1 DEF Carried, With
  <2>a. /\ Len(wire) \in Nat \ {0} /\ Head(wire) = wire[1] /\ 1 \in DOMAIN wire
        /\ Len(wire) \in DOMAIN wire /\ Len(Tail(wire)) = Len(wire) - 1
        /\ Tail(wire) \in Seq(Requests)
        /\ \A i \in 1..Len(wire) - 1 : Tail(wire)[i] = wire[i + 1]
    <3>1. wire \in Seq(Requests)
      BY DEF Wires
    <3>2. DOMAIN Tail(wire) = 1..Len(wire) - 1 /\ DOMAIN wire = 1..Len(wire)
      BY <1>1, <3>1, TailElements
    <3> QED BY <1>1, <3>1, <3>2, TailElements
  <2>2. ASSUME pc[u] = "wait", answer'[u] = "none"
        PROVE  wire' # <<>> /\ wire'[Len(wire')] = [from |-> u, status |-> Carried(call[u])]
    <3>1. /\ Head(wire).from # u /\ answer[u] = "none"
          /\ wire[Len(wire)] = [from |-> u, status |-> Carried(call[u])]
      BY <1>1, <1>4, <2>2 DEF AloneInv
    <3>2. Len(wire) # 1
      BY <2>a, <3>1
    <3>3. Len(wire') = Len(wire) - 1 /\ Len(wire) - 1 \in 1..Len(wire) - 1
      BY <1>1, <2>a, <3>2
    <3>4. wire'[Len(wire')] = wire[Len(wire)]
      BY <1>1, <2>a, <3>3
    <3>5. wire' # <<>>
      BY <2>a, <3>3, EmptySeq
    <3> QED BY <3>1, <3>4, <3>5
  <2>3. ASSUME pc[u] = "wait", answer'[u] = "ok"
        PROVE  wire' = <<>> /\ view' = Carried(call[u])
    <3>1. Head(wire).from = u /\ o = "ok" /\ answer[u] = "none"
      <4>1. answer[u] # "ok"
        BY <1>1, <1>4, <2>3 DEF AloneInv
      <4>2. Head(wire).from = u /\ o = "ok"
        BY <1>1, <2>3, <4>1
      <4> QED BY <2>a, <4>2 DEF Wires
    <3>2. wire[Len(wire)] = [from |-> u, status |-> Carried(call[u])]
      BY <1>1, <1>4, <2>3, <3>1 DEF AloneInv
    <3>3. Len(wire) = 1
      BY <2>a, <3>1, <3>2 DEF Wires, WireInv
    <3>4. wire' = <<>>
      BY <1>1, <2>a, <3>3, EmptySeq
    <3> QED BY <1>1, <2>a, <3>1, <3>2, <3>3, <3>4
  <2> QED BY <1>1, <1>3, <1>4, <2>1, <2>2, <2>3 DEF AloneInv
<1> QED BY <1>1, <1>2, <1>3, <1>4 DEF HistoryInv

LEMMA HistoryStep ==
    Types /\ CallInv /\ Answers /\ Wires /\ HistoryInv /\ [Next]_vars => HistoryInv'
<1> SUFFICES ASSUME Types, CallInv, Answers, Wires, HistoryInv, [Next]_vars PROVE HistoryInv'
  OBVIOUS
<1>1. CASE UNCHANGED vars
  BY <1>1 DEF vars, callVars, netVars, history, HistoryInv, AloneInv, Carried, With, Idle
<1> QED BY <1>1, CheckHistory, ProgressHistory, FailHistory, ReceiveHistory, DialHistory,
           ConnectionHistory, NodeHistory DEF Next, CallStep

-----------------------------------------------------------------------------
(* The theorems. *)

LEMMA Initially == Init => Inv
<1> SUFFICES ASSUME Init PROVE Inv
  OBVIOUS
<1>1. wire \in Seq(Requests) /\ Len(wire) = 0 /\ DOMAIN wire = {}
  <2>1. wire \in Seq(Requests) /\ Len(wire) = 0
    BY EmptySeq DEF Init
  <2> QED BY <2>1, LenProperties
<1>2. TypeOK
  BY <1>1, ConstantsOK DEF Init, TypeOK, Requests
<1>3. CallInv /\ HistoryInv
  BY ConstantsOK DEF Init, CallInv, HistoryInv
<1>4. WireInv
  BY <1>1 DEF WireInv
<1> QED BY <1>2, <1>3, <1>4 DEF Inv

LEMMA Step == Inv /\ [Next]_vars => Inv'
<1> SUFFICES ASSUME Inv, [Next]_vars PROVE Inv'
  OBVIOUS
<1>1. Types /\ Answers /\ Wires /\ CallInv /\ HistoryInv
  BY Parts DEF Inv
<1>2. Types' /\ Answers' /\ Wires' /\ CallInv' /\ HistoryInv'
  BY <1>1, TypesStep, AnswersStep, WiresStep, CallStepInv, HistoryStep
<1>3. TypeOK' /\ WireInv'
  BY <1>2 DEF TypeOK, Types, Answers, Wires, Locations, Requests
<1> QED BY <1>2, <1>3 DEF Inv

\* Every step of calls, of the node and of the connection (ws.go:426-581)
\* keeps the types, what a waiting caller may be answered, what is on its way,
\* and the history of the calls that ran alone.
THEOREM Invariance == Spec => []Inv
BY Initially, Step, PTL DEF Spec

\* The types; and an answer lies in ResCh, or a request is under way, only
\* while its caller waits: a late answer to a call that timed out finds nobody.
THEOREM TypeCorrect == Spec => []TypeOK
<1>1. Inv => TypeOK
  BY DEF Inv
<1> QED BY <1>1, Invariance, PTL

\* A call, or the reSubscribe of a reconnection, that succeeds with no other
\* beside it leaves client and node agreed, for any number of threads and of
\* requests still under way from calls that timed out (ws.go:426-581).
THEOREM AgreementHolds == Spec => []Agreement
<1>1. Inv => Agreement
  BY DEF Inv, HistoryInv, Agreement
<1> QED BY <1>1, Invariance, PTL

\* A call that fails with no other beside it leaves subStatus as it was.
THEOREM FailureRestoresHolds == Spec => []FailureRestores
<1>1. Inv => FailureRestores
  BY DEF Inv, HistoryInv, FailureRestores
<1> QED BY <1>1, Invariance, PTL
=============================================================================
