-------------------------- MODULE WSRequestsProofs --------------------------
(***************************************************************************)
(* Proofs about the request table, for any number of calls, connections    *)
(* and events, any channel capacities and any random identifiers.          *)
(***************************************************************************)
EXTENDS WSExchange, TLAPS

-----------------------------------------------------------------------------
(* The inductive invariant. *)

\* Identifiers are given once, and qids are distinct.
IdInv ==
    \A k \in Calls :
        /\ ~Started(k) => id[k] = NoId /\ kind[k] # "own" /\ stage[k] = 1
        /\ Started(k) => id[k] \in Ids
        /\ Started(k) /\ kind[k] # "own" => id[k] <= qid
        /\ \A j \in Calls \ {k} :
              Started(j) /\ Started(k) /\ "own" \notin {kind[j], kind[k]}
              => id[j] # id[k]

\* A request is with the node only after its call has sent it.
SentInv ==
    \A r \in Reqs :
        msg[r] # "none" =>
            /\ Started(r[1])
            /\ r[2] <= stage[r[1]]
            /\ r[2] = stage[r[1]] => pc[r[1]] \in {"wait", "ok", "fail", "timeout"}

\* Channel ch holds messages of one phase, each once.
Holds(ch, phase) ==
    \A n \in 1..Len(ch) :
        /\ msg[ch[n]] = phase
        /\ \A p \in 1..Len(ch) : ch[p] = ch[n] => p = n

QueueInv == Holds(recvCh, "queued") /\ Holds(actionCh, "inApp")

\* h was registered under identifier i by its call.
RegisteredAs(h, i) == Started(h[1]) /\ id[h[1]] = i /\ h[2] <= stage[h[1]]

TableInv == \A i \in Ids : reqMap[i] # NoReq => RegisteredAs(reqMap[i], i)

HeldInv ==
    \A r \in Reqs :
        /\ msg[r] \in {"put", "del"} <=> held[r] # NoReq
        /\ held[r] # NoReq => RegisteredAs(held[r], id[r[1]])

AnswerInv ==
    \A h \in Reqs :
        resCh[h] # NoReq =>
            /\ RegisteredAs(h, id[resCh[h][1]])
            /\ msg[resCh[h]] \in {"del", "done"}

\* What a call whose identifier nobody else has drawn can rely on.
OwnInv(k) ==
    /\ stage[k] = 2 => msg[<<k, 1>>] \in {"del", "done"}
    /\ stage[k] = 2 /\ pc[k] # "add" => reqMap[id[k]] # <<k, 1>>
    /\ \A s \in {1, 2} : /\ held[<<k, s>>] \in {NoReq, <<k, s>>}
                         /\ resCh[<<k, s>>] \in {NoReq, <<k, s>>}
    /\ stage[k] = 1 /\ pc[k] \in {"getws", "send", "unreg"} => reqMap[id[k]] = <<k, 1>>
    /\ stage[k] = 1 /\ pc[k] = "wait" =>
          IF msg[<<k, 1>>] \in {"del", "done"} THEN resCh[<<k, 1>>] = <<k, 1>>
                                               ELSE reqMap[id[k]] = <<k, 1>>
    /\ pc[k] = "wait" /\ msg[Req(k)] = "done" => reqMap[id[k]] = NoReq
    /\ /\ pc[k] \in {"ok", "fail"}
       /\ \A s \in {1, 2} : msg[<<k, s>>] # "del"
       => reqMap[id[k]] = NoReq

UnsharedInv == \A k \in Calls : Started(k) /\ Unshared(k) => OwnInv(k)

IInv ==
    /\ TypeOK
    /\ IdInv
    /\ SentInv
    /\ QueueInv
    /\ TableInv
    /\ HeldInv
    /\ AnswerInv
    /\ UnsharedInv

-----------------------------------------------------------------------------
(* Type correctness. *)

\* The constants are what the proofs need them to be.
LEMMA ConstantsOK ==
    /\ MaxCalls \in Nat /\ MaxConns \in Nat /\ MaxEvents \in Nat
    /\ RecvChSize \in Nat /\ RecvChSize >= 1
    /\ ActionChSize \in Nat /\ ActionChSize >= 1
    /\ RandIds \subseteq Nat
    /\ NoReq \notin Reqs
    /\ Events \cap Reqs = {}
    /\ NoId \notin Ids
    /\ Ids \subseteq Nat /\ NoId \in Nat
<1>1. Calls \subseteq Nat \ {0}
  BY BoundsAssumption DEF Calls
<1>2. NoReq \notin Reqs
  BY <1>1 DEF NoReq, Reqs
<1>3. Events \cap Reqs = {}
  BY <1>1 DEF Events, Reqs
<1>4. NoId \notin Ids
  BY <1>1, RandIdsAssumption DEF Ids, NoId
<1>5. MaxCalls \in Nat /\ MaxConns \in Nat /\ MaxEvents \in Nat
  BY BoundsAssumption
<1>6. RecvChSize \in Nat /\ RecvChSize >= 1 /\ ActionChSize \in Nat /\ ActionChSize >= 1
  BY ChannelAssumption
<1>7. RandIds \subseteq Nat
  BY RandIdsAssumption
<1>8. Ids \subseteq Nat /\ NoId \in Nat
  BY <1>1, RandIdsAssumption DEF Ids, NoId
<1> QED BY <1>2, <1>3, <1>4, <1>5, <1>6, <1>7, <1>8

\* The state of the client is well typed after every step.
LEMMA TypeInvariance == TypeOK /\ IdInv /\ SentInv /\ [Next]_vars => TypeOK'
<1> SUFFICES ASSUME TypeOK, IdInv, SentInv, [Next]_vars PROVE TypeOK'
  OBVIOUS
<1>a. Reqs \subseteq Messages /\ Events \subseteq Messages
  BY DEF Messages
<1>b. \A k \in Calls : Req(k) \in Reqs
  BY DEF TypeOK, Req, Reqs
<1> USE ConstantsOK, <1>a, <1>b DEF TypeOK
<1>1. ASSUME NEW k \in Calls, StartCall(k) PROVE TypeOK'
  BY <1>1 DEF StartCall, NextQid, IsNext, PCs, answerVars, chanVars, netVars, Ids, Calls
<1>2. ASSUME NEW k \in Calls, StartOwn(k) PROVE TypeOK'
  BY <1>2 DEF StartOwn, PCs, answerVars, chanVars, netVars, Ids
<1>3. ASSUME NEW k \in Calls, CallStep(k) PROVE TypeOK'
  <2>1. CASE AddReq(k)
    BY <2>1 DEF AddReq, PCs, answerVars, chanVars, netVars, Reqs
  <2>2. CASE GetWs(k)
    BY <2>2 DEF GetWs, PCs, answerVars, chanVars, netVars
  <2>3. CASE Send(k)
    <3>1. msg' \in [Messages -> Phases]
      BY <2>3 DEF Send, Phases
    <3>2. via' \in [Messages -> Conns \cup {NoConn}]
      BY <2>3 DEF Send
    <3>3. pc' \in [Calls -> PCs] /\ conn' \in [Calls -> Conns \cup {NoConn}]
      BY <2>3 DEF Send, PCs
    <3>4. UNCHANGED <<qid, kind, stage, id, reqMap, resCh, held, chanVars, netVars>>
      BY <2>3 DEF Send
    <3> QED BY <3>1, <3>2, <3>3, <3>4 DEF chanVars, netVars
  <2>4. CASE Unreg(k)
    BY <2>4 DEF Unreg, PCs, answerVars, chanVars, netVars
  <2>5. CASE Receive(k)
    BY <2>5 DEF Receive, PCs, answerVars, chanVars, netVars
  <2>6. CASE Timeout(k)
    BY <2>6 DEF Timeout, PCs, answerVars, chanVars, netVars
  <2> QED BY <1>3, <2>1, <2>2, <2>3, <2>4, <2>5, <2>6 DEF CallStep
<1>4. ASSUME NEW m \in Messages, ReaderStep(m) PROVE TypeOK'
  <2>1. CASE OnMessage(m)
    BY <2>1 DEF OnMessage, Phases, callVars, netVars
  <2>2. CASE DropMessage(m)
    BY <2>2 DEF DropMessage, Phases, callVars, chanVars, netVars
  <2> QED BY <1>4, <2>1, <2>2 DEF ReaderStep
<1>5. ASSUME NEW r \in Reqs, Answer(r) \/ AnswerStep(r) PROVE TypeOK'
  <2>1. CASE Answer(r)
    BY <2>1 DEF Answer, Phases, callVars, chanVars, netVars
  <2>2. CASE GetReq(r)
    <3>1. r[1] \in Calls /\ Started(r[1])
      BY <2>2 DEF GetReq, SentInv, Reqs
    <3>2. id[r[1]] \in Ids
      BY <3>1 DEF IdInv
    <3> QED BY <2>2, <3>2 DEF GetReq, Phases, callVars, chanVars, netVars
  <2>3. CASE PutRes(r)
    BY <2>3 DEF PutRes, CanPut, Phases, callVars, chanVars, netVars
  <2>4. CASE PutExit(r)
    BY <2>4 DEF PutExit, Phases, callVars, chanVars, netVars
  <2>5. CASE DelReq(r)
    BY <2>5 DEF DelReq, Phases, callVars, chanVars, netVars
  <2> QED BY <1>5, <2>1, <2>2, <2>3, <2>4, <2>5 DEF AnswerStep
<1>6. ASSUME NEW e \in Events, EventStep(e) PROVE TypeOK'
  <2>1. CASE PutEvent(e)
    BY <2>1 DEF PutEvent, Phases, callVars, netVars
  <2>2. CASE DropEvent(e)
    BY <2>2 DEF DropEvent, Phases, callVars, chanVars, netVars
  <2> QED BY <1>6, <2>1, <2>2 DEF EventStep
<1>7. CASE LoopStep
  <2>1. CASE Dispatch
    BY <2>1 DEF Dispatch, LoopTakes, Phases, callVars, netVars
  <2>2. CASE Malformed
    BY <2>2 DEF Malformed, LoopTakes, Phases, callVars, netVars
  <2>3. CASE StopLoop
    BY <2>3 DEF StopLoop, callVars, answerVars, netVars
  <2> QED BY <1>7, <2>1, <2>2, <2>3 DEF LoopStep
<1>8. CASE Environment
  <2>1. CASE Dial
    BY <2>1 DEF Dial, Conns, callVars, answerVars, chanVars
  <2>2. CASE Close
    BY <2>2 DEF Close, callVars, answerVars, netVars
  <2>3. CASE TakeEvent
    BY <2>3 DEF TakeEvent, Phases, callVars, netVars
  <2>4. ASSUME NEW g \in Conns \cup {NoConn}, SetWs(g) PROVE TypeOK'
    BY <2>4 DEF SetWs, callVars, answerVars, chanVars
  <2>5. ASSUME NEW g \in Conns, Down(g) PROVE TypeOK'
    BY <2>5 DEF Down, callVars, answerVars, chanVars
  <2>6. ASSUME NEW e \in Events, PushEvent(e) PROVE TypeOK'
    BY <2>6 DEF PushEvent, Phases, callVars, chanVars, netVars
  <2> QED BY <1>8, <2>1, <2>2, <2>3, <2>4, <2>5, <2>6 DEF Environment
<1>9. CASE UNCHANGED vars
  BY <1>9 DEF vars, callVars, answerVars, chanVars, netVars
<1> QED BY <1>1, <1>2, <1>3, <1>4, <1>5, <1>6, <1>7, <1>8, <1>9 DEF Next

-----------------------------------------------------------------------------
(* What a step may do to a call. *)

\* A step of a started call changes nothing of the other calls.
LEMMA CallStepFrame ==
    ASSUME TypeOK, NEW k \in Calls, CallStep(k)
    PROVE  /\ Started(k) /\ Started(k)'
           /\ UNCHANGED <<qid, kind, id>>
           /\ \A j \in Calls \ {k} : pc'[j] = pc[j] /\ stage'[j] = stage[j]
           /\ stage'[k] = stage[k] \/ (stage[k] = 1 /\ stage'[k] = 2)
<1> USE DEF TypeOK, Started
<1>1. CASE AddReq(k)  BY <1>1 DEF AddReq
<1>2. CASE GetWs(k)   BY <1>2 DEF GetWs
<1>3. CASE Send(k)    BY <1>3 DEF Send
<1>4. CASE Unreg(k)   BY <1>4 DEF Unreg
<1>5. CASE Receive(k) BY <1>5 DEF Receive
<1>6. CASE Timeout(k) BY <1>6 DEF Timeout
<1> QED BY <1>1, <1>2, <1>3, <1>4, <1>5, <1>6 DEF CallStep

\* Only a caller's goroutine changes the state of a call.
LEMMA CallVarsFrame ==
    ASSUME [Next]_vars
    PROVE  \/ \E k \in Calls : StartCall(k) \/ StartOwn(k) \/ CallStep(k)
           \/ UNCHANGED callVars
<1>1. ASSUME NEW m \in Messages, ReaderStep(m) PROVE UNCHANGED callVars
  BY <1>1 DEF ReaderStep, OnMessage, DropMessage
<1>2. ASSUME NEW r \in Reqs, Answer(r) \/ AnswerStep(r) PROVE UNCHANGED callVars
  BY <1>2 DEF Answer, AnswerStep, GetReq, PutRes, PutExit, DelReq
<1>3. ASSUME NEW e \in Events, EventStep(e) PROVE UNCHANGED callVars
  BY <1>3 DEF EventStep, PutEvent, DropEvent
<1>4. ASSUME LoopStep PROVE UNCHANGED callVars
  BY <1>4 DEF LoopStep, Dispatch, Malformed, StopLoop
<1>5. ASSUME Environment PROVE UNCHANGED callVars
  BY <1>5 DEF Environment, Dial, Close, TakeEvent, SetWs, Down, PushEvent
<1>6. UNCHANGED vars => UNCHANGED callVars
  BY DEF vars
<1> QED BY <1>1, <1>2, <1>3, <1>4, <1>5, <1>6 DEF Next

\* Identifiers stay distinct: qid only grows and a call keeps what it drew.
LEMMA IdInvariance == TypeOK /\ IdInv /\ [Next]_vars => IdInv'
<1> SUFFICES ASSUME TypeOK, IdInv, [Next]_vars PROVE IdInv'
  OBVIOUS
<1> USE ConstantsOK
<1>1. ASSUME NEW k \in Calls, StartCall(k) PROVE IdInv'
  <2>1. /\ ~Started(k)
        /\ qid \in Nat /\ qid' = qid + 1 /\ qid' \in Ids
        /\ \A j \in Calls : id[j] \in Nat
        /\ id' = [id EXCEPT ![k] = qid + 1]
        /\ kind'[k] # "own" /\ \A j \in Calls \ {k} : kind'[j] = kind[j]
        /\ pc' = [pc EXCEPT ![k] = "add"]
        /\ UNCHANGED stage
    <3>1. \A j \in Calls : id[j] \in Nat
      BY DEF TypeOK
    <3>2. qid \in Nat /\ \A j \in Calls \ {k} : (kind')[j] = kind[j]
      BY <1>1 DEF StartCall, TypeOK
    <3>3. kind'[k] # "own"
      BY <1>1 DEF StartCall, TypeOK
    <3> QED BY <1>1, <3>1, <3>2, <3>3 DEF StartCall, IsNext, NextQid, Started, Ids
  <2> QED BY <2>1 DEF IdInv, Started, TypeOK
<1>2. ASSUME NEW k \in Calls, StartOwn(k) PROVE IdInv'
  <2>1. /\ ~Started(k)
        /\ \E i \in Ids : id' = [id EXCEPT ![k] = i]
        /\ kind' = [kind EXCEPT ![k] = "own"]
        /\ pc' = [pc EXCEPT ![k] = "add"]
        /\ UNCHANGED <<stage, qid>>
    BY <1>2 DEF StartOwn, IsNext, Started, Ids
  <2> QED BY <2>1 DEF IdInv, Started, TypeOK
<1>3. ASSUME NEW k \in Calls, CallStep(k) PROVE IdInv'
  BY <1>3, CallStepFrame DEF IdInv, Started
<1>4. CASE UNCHANGED callVars
  BY <1>4 DEF callVars, IdInv, Started
<1> QED BY <1>1, <1>2, <1>3, <1>4, CallVarsFrame

\* A started call keeps its identifier, and once shared stays shared.
LEMMA Keeps ==
    ASSUME TypeOK, IdInv, [Next]_vars, NEW k \in Calls
    PROVE  /\ Started(k) => /\ Started(k)' /\ id'[k] = id[k] /\ kind'[k] = kind[k]
                            /\ stage'[k] = stage[k] \/ (stage[k] = 1 /\ stage'[k] = 2)
           /\ Started(k) /\ Unshared(k)' => Unshared(k)
<1>1. ASSUME NEW j \in Calls, Started(j)
      PROVE  /\ Started(j)' /\ id'[j] = id[j] /\ kind'[j] = kind[j]
             /\ stage'[j] = stage[j] \/ (stage[j] = 1 /\ stage'[j] = 2)
  <2>1. ASSUME NEW i \in Calls, StartCall(i) \/ StartOwn(i)
        PROVE  i # j /\ pc'[j] = pc[j] /\ id'[j] = id[j] /\ kind'[j] = kind[j] /\ stage' = stage
    BY <1>1, <2>1 DEF StartCall, StartOwn, IsNext, Started, TypeOK
  <2>2. ASSUME NEW i \in Calls, CallStep(i)
        PROVE  /\ Started(j)' /\ id'[j] = id[j] /\ kind'[j] = kind[j]
               /\ stage'[j] = stage[j] \/ (stage[j] = 1 /\ stage'[j] = 2)
    BY <1>1, <2>2, CallStepFrame DEF Started
  <2>3. CASE UNCHANGED callVars
    BY <1>1, <2>3 DEF callVars, Started
  <2> QED BY <1>1, <2>1, <2>2, <2>3, CallVarsFrame DEF Started
<1> QED BY <1>1 DEF Unshared

-----------------------------------------------------------------------------
(* The channels. *)

\* A message in neither channel may change its phase.
LEMMA PhaseFrame ==
    ASSUME TypeOK, QueueInv, NEW m \in Messages, msg[m] \notin {"queued", "inApp"},
           NEW ph, msg' = [msg EXCEPT ![m] = ph], UNCHANGED <<recvCh, actionCh>>
    PROVE  QueueInv'
<1>1. \A n \in 1..Len(recvCh) : recvCh[n] \in Messages /\ recvCh[n] # m
  BY DEF TypeOK, QueueInv, Holds
<1>2. \A n \in 1..Len(actionCh) : actionCh[n] \in Messages /\ actionCh[n] # m
  BY DEF TypeOK, QueueInv, Holds, Messages
<1> QED BY <1>1, <1>2 DEF QueueInv, Holds, TypeOK

\* Each channel holds a message of its phase once.
LEMMA QueueInvariance == TypeOK /\ SentInv /\ QueueInv /\ [Next]_vars => QueueInv'
<1> SUFFICES ASSUME TypeOK, SentInv, QueueInv, [Next]_vars PROVE QueueInv'
  OBVIOUS
<1>a. Reqs \subseteq Messages /\ Events \subseteq Messages
  BY DEF Messages
<1>b. \A k \in Calls : Req(k) \in Reqs
  BY DEF TypeOK, Req, Reqs
<1>c. ASSUME UNCHANGED <<msg, recvCh, actionCh>> PROVE QueueInv'
  BY <1>c DEF QueueInv, Holds
<1>d. ASSUME NEW m \in Messages, NEW ph, msg[m] \notin {"queued", "inApp"},
             msg' = [msg EXCEPT ![m] = ph], UNCHANGED <<recvCh, actionCh>>
      PROVE  QueueInv'
  BY <1>d, PhaseFrame
<1>1. ASSUME NEW k \in Calls, StartCall(k) \/ StartOwn(k) PROVE QueueInv'
  BY <1>1, <1>c DEF StartCall, StartOwn, answerVars, chanVars
<1>2. ASSUME NEW k \in Calls, CallStep(k) PROVE QueueInv'
  <2>1. CASE Send(k)
    <3>1. msg[Req(k)] = "none"
      BY <2>1, <1>b DEF Send, SentInv, Req
    <3>2. Req(k) \in Messages
      BY <1>a, <1>b
    <3>3. UNCHANGED <<recvCh, actionCh>>
      BY <2>1 DEF Send, chanVars
    <3>4. msg' = [msg EXCEPT ![Req(k)] = "atNode"] \/ UNCHANGED msg
      BY <2>1 DEF Send
    <3> QED BY <3>1, <3>2, <3>3, <3>4, <1>c, <1>d
  <2>2. CASE AddReq(k) \/ GetWs(k) \/ Unreg(k) \/ Receive(k) \/ Timeout(k)
    BY <2>2, <1>c DEF AddReq, GetWs, Unreg, Receive, Timeout, answerVars, chanVars
  <2> QED BY <1>2, <2>1, <2>2 DEF CallStep
<1>3. ASSUME NEW m \in Messages, OnMessage(m) PROVE QueueInv'
  <2>1. /\ msg[m] = "read" /\ msg' = [msg EXCEPT ![m] = "queued"]
        /\ recvCh' = Append(recvCh, m) /\ actionCh' = actionCh
    BY <1>3 DEF OnMessage
  <2>2. \A n \in 1..Len(recvCh) : recvCh[n] \in Messages /\ recvCh[n] # m
    BY <2>1 DEF TypeOK, QueueInv, Holds
  <2>3. \A n \in 1..Len(actionCh) : actionCh[n] \in Messages /\ actionCh[n] # m
    BY <2>1 DEF TypeOK, QueueInv, Holds, Messages
  <2>4. Holds(recvCh, "queued")'
    <3>1. /\ Len(recvCh') = Len(recvCh) + 1 /\ Len(recvCh) \in Nat
          /\ \A n \in 1..Len(recvCh) : recvCh'[n] = recvCh[n]
          /\ recvCh'[Len(recvCh) + 1] = m
      BY <2>1 DEF TypeOK
    <3>2. \A n \in 1..Len(recvCh) + 1 : n \in 1..Len(recvCh) \/ n = Len(recvCh) + 1
      BY <3>1
    <3>3. \A n \in 1..Len(recvCh) + 1 : msg'[recvCh'[n]] = "queued"
      BY <3>1, <3>2, <2>1, <2>2 DEF TypeOK, QueueInv, Holds
    <3>4. \A n, p \in 1..Len(recvCh) + 1 : recvCh'[p] = recvCh'[n] => p = n
      BY <3>1, <3>2, <2>2 DEF QueueInv, Holds
    <3> QED BY <3>1, <3>3, <3>4 DEF Holds
  <2>5. Holds(actionCh, "inApp")'
    BY <2>1, <2>3 DEF TypeOK, QueueInv, Holds
  <2> QED BY <2>4, <2>5 DEF QueueInv
<1>4. ASSUME NEW m \in Messages, DropMessage(m) PROVE QueueInv'
  BY <1>4, <1>d DEF DropMessage, chanVars
<1>5. ASSUME NEW r \in Reqs, Answer(r) \/ AnswerStep(r) PROVE QueueInv'
  BY <1>5, <1>a, <1>d DEF Answer, AnswerStep, GetReq, PutRes, PutExit, DelReq, chanVars
<1>6. ASSUME NEW e \in Events, PutEvent(e) PROVE QueueInv'
  <2>1. /\ msg[e] = "put" /\ msg' = [msg EXCEPT ![e] = "inApp"]
        /\ actionCh' = Append(actionCh, e) /\ recvCh' = recvCh /\ e \in Messages
    BY <1>6, <1>a DEF PutEvent
  <2>2. \A n \in 1..Len(recvCh) : recvCh[n] \in Messages /\ recvCh[n] # e
    BY <2>1 DEF TypeOK, QueueInv, Holds
  <2>3. \A n \in 1..Len(actionCh) : actionCh[n] \in Messages /\ actionCh[n] # e
    BY <2>1 DEF TypeOK, QueueInv, Holds, Messages
  <2>4. Holds(actionCh, "inApp")'
    <3>1. /\ Len(actionCh') = Len(actionCh) + 1 /\ Len(actionCh) \in Nat
          /\ \A n \in 1..Len(actionCh) : actionCh'[n] = actionCh[n]
          /\ actionCh'[Len(actionCh) + 1] = e
      BY <2>1 DEF TypeOK
    <3>2. \A n \in 1..Len(actionCh) + 1 : n \in 1..Len(actionCh) \/ n = Len(actionCh) + 1
      BY <3>1
    <3>3. \A n \in 1..Len(actionCh) + 1 : msg'[actionCh'[n]] = "inApp"
      BY <3>1, <3>2, <2>1, <2>3 DEF TypeOK, QueueInv, Holds
    <3>4. \A n, p \in 1..Len(actionCh) + 1 : actionCh'[p] = actionCh'[n] => p = n
      BY <3>1, <3>2, <2>3 DEF QueueInv, Holds
    <3> QED BY <3>1, <3>3, <3>4 DEF Holds
  <2>5. Holds(recvCh, "queued")'
    BY <2>1, <2>2 DEF TypeOK, QueueInv, Holds
  <2> QED BY <2>4, <2>5 DEF QueueInv
<1>7. ASSUME NEW e \in Events, DropEvent(e) PROVE QueueInv'
  BY <1>7, <1>a, <1>d DEF DropEvent, chanVars
<1>8. CASE Dispatch \/ Malformed
  <2>1. PICK ph \in {"put", "get", "lost"} :
           /\ recvCh # <<>> /\ recvCh' = Tail(recvCh) /\ actionCh' = actionCh
           /\ msg' = [msg EXCEPT ![Head(recvCh)] = ph]
    BY <1>8 DEF Dispatch, Malformed, LoopTakes
  <2>2. /\ Len(recvCh) >= 1 /\ Len(recvCh) \in Nat /\ Head(recvCh) = recvCh[1]
        /\ Len(recvCh') = Len(recvCh) - 1
        /\ \A n \in 1..Len(recvCh') : recvCh'[n] = recvCh[n + 1] /\ n + 1 \in 1..Len(recvCh)
    BY <2>1 DEF TypeOK
  <2>3. \A n \in 1..Len(recvCh') :
           recvCh'[n] \in Messages /\ recvCh'[n] # Head(recvCh) /\ msg[recvCh'[n]] = "queued"
    <3>1. 1 \in 1..Len(recvCh) /\ \A n \in 1..Len(recvCh') : n + 1 # 1
      BY <2>2
    <3>2. \A q \in 1..Len(recvCh) : recvCh[q] \in Messages /\ msg[recvCh[q]] = "queued"
      BY DEF TypeOK, QueueInv, Holds
    <3>3. \A q \in 1..Len(recvCh) : recvCh[q] = recvCh[1] => q = 1
      BY <3>1 DEF QueueInv, Holds
    <3> QED BY <2>2, <3>1, <3>2, <3>3
  <2>4. \A n, p \in 1..Len(recvCh') : recvCh'[p] = recvCh'[n] => p = n
    BY <2>2 DEF QueueInv, Holds
  <2>5. Holds(recvCh, "queued")'
    BY <2>1, <2>3, <2>4 DEF Holds, TypeOK
  <2>6. \A n \in 1..Len(actionCh) : actionCh[n] \in Messages /\ actionCh[n] # Head(recvCh)
    BY <2>2 DEF TypeOK, QueueInv, Holds, Messages
  <2>7. Holds(actionCh, "inApp")'
    BY <2>1, <2>6 DEF Holds, QueueInv, TypeOK
  <2> QED BY <2>5, <2>7 DEF QueueInv
<1>9. CASE StopLoop
  BY <1>9, <1>c DEF StopLoop, answerVars
<1>10. CASE TakeEvent
  <2>1. /\ actionCh # <<>> /\ actionCh' = Tail(actionCh) /\ recvCh' = recvCh
        /\ msg' = [msg EXCEPT ![Head(actionCh)] = "done"]
    BY <1>10 DEF TakeEvent
  <2>2. /\ Len(actionCh) >= 1 /\ Len(actionCh) \in Nat /\ Head(actionCh) = actionCh[1]
        /\ Len(actionCh') = Len(actionCh) - 1
        /\ \A n \in 1..Len(actionCh') :
              actionCh'[n] = actionCh[n + 1] /\ n + 1 \in 1..Len(actionCh)
    BY <2>1 DEF TypeOK
  <2>3. \A n \in 1..Len(actionCh') : /\ actionCh'[n] \in Messages
                                     /\ actionCh'[n] # Head(actionCh)
                                     /\ msg[actionCh'[n]] = "inApp"
    <3>1. 1 \in 1..Len(actionCh) /\ \A n \in 1..Len(actionCh') : n + 1 # 1
      BY <2>2
    <3>2. \A q \in 1..Len(actionCh) : actionCh[q] \in Messages /\ msg[actionCh[q]] = "inApp"
      BY DEF TypeOK, QueueInv, Holds, Messages
    <3>3. \A q \in 1..Len(actionCh) : actionCh[q] = actionCh[1] => q = 1
      BY <3>1 DEF QueueInv, Holds
    <3> QED BY <2>2, <3>1, <3>2, <3>3
  <2>4. \A n, p \in 1..Len(actionCh') : actionCh'[p] = actionCh'[n] => p = n
    BY <2>2 DEF QueueInv, Holds
  <2>5. Holds(actionCh, "inApp")'
    BY <2>1, <2>3, <2>4 DEF Holds, TypeOK
  <2>6. \A n \in 1..Len(recvCh) : recvCh[n] \in Messages /\ recvCh[n] # Head(actionCh)
    BY <2>2 DEF TypeOK, QueueInv, Holds
  <2>7. Holds(recvCh, "queued")'
    BY <2>1, <2>6 DEF Holds, QueueInv, TypeOK
  <2> QED BY <2>5, <2>7 DEF QueueInv
<1>11. ASSUME NEW e \in Events, PushEvent(e) PROVE QueueInv'
  BY <1>11, <1>a, <1>d DEF PushEvent, chanVars
<1>12. CASE Dial \/ Close \/ (\E g \in Conns \cup {NoConn} : SetWs(g)) \/ (\E g \in Conns : Down(g))
  BY <1>12, <1>c DEF Dial, Close, SetWs, Down, answerVars, chanVars
<1>13. CASE UNCHANGED vars
  BY <1>13, <1>c DEF vars, answerVars, chanVars
<1> QED BY <1>1, <1>2, <1>3, <1>4, <1>5, <1>6, <1>7, <1>8, <1>9, <1>10, <1>11, <1>12, <1>13
        DEF Next, ReaderStep, EventStep, LoopStep, Environment

-----------------------------------------------------------------------------
(* The kinds of steps, as far as calls and answers are concerned. *)

\* Everything but the calls and the goroutines of onAction: an answer may
\* move on from the node to onAction, or be lost.
Transit ==
    /\ UNCHANGED <<callVars, reqMap, resCh, held>>
    /\ \A r \in Reqs :
          \/ msg'[r] = msg[r]
          \/ /\ msg[r] \in {"atNode", "read", "queued"}
             /\ msg'[r] \in {"read", "queued", "get", "lost"}

\* Every step is a caller's, is onAction's with an answer, or moves messages.
LEMMA StepKinds ==
    ASSUME TypeOK, QueueInv, [Next]_vars
    PROVE  \/ \E k \in Calls : StartCall(k) \/ StartOwn(k) \/ CallStep(k)
           \/ \E r \in Reqs : AnswerStep(r)
           \/ Transit
<1>a. Reqs \subseteq Messages /\ \A e \in Events : e \in Messages /\ e \notin Reqs
  BY ConstantsOK DEF Messages
<1>b. ASSUME NEW m \in Messages, NEW ph, msg' = [msg EXCEPT ![m] = ph],
             UNCHANGED <<callVars, reqMap, resCh, held>>,
             m \in Events \/ (/\ msg[m] \in {"atNode", "read", "queued"}
                             /\ ph \in {"read", "queued", "get", "lost"})
      PROVE  Transit
  BY <1>a, <1>b DEF Transit, TypeOK
<1>1. ASSUME NEW m \in Messages, ReaderStep(m) PROVE Transit
  BY <1>1, <1>b DEF ReaderStep, OnMessage, DropMessage
<1>2. ASSUME NEW r \in Reqs, Answer(r) PROVE Transit
  BY <1>2, <1>a, <1>b DEF Answer
<1>3. ASSUME NEW e \in Events, EventStep(e) \/ PushEvent(e) PROVE Transit
  BY <1>3, <1>a, <1>b DEF EventStep, PutEvent, DropEvent, PushEvent
<1>4. ASSUME Dispatch \/ Malformed PROVE Transit
  <2>1. /\ recvCh # <<>> /\ UNCHANGED <<callVars, reqMap, resCh, held>>
        /\ \/ msg' = [msg EXCEPT ![Head(recvCh)] = "put"] /\ Head(recvCh) \in Events
           \/ msg' = [msg EXCEPT ![Head(recvCh)] = "get"]
           \/ msg' = [msg EXCEPT ![Head(recvCh)] = "lost"]
    BY <1>4 DEF Dispatch, Malformed, LoopTakes
  <2>2. Head(recvCh) = recvCh[1] /\ 1 \in 1..Len(recvCh) /\ Head(recvCh) \in Messages
    BY <2>1 DEF TypeOK
  <2>3. msg[Head(recvCh)] = "queued"
    BY <2>2 DEF QueueInv, Holds
  <2> QED BY <2>1, <2>2, <2>3, <1>b
<1>5. ASSUME TakeEvent PROVE Transit
  <2>1. actionCh # <<>> /\ Head(actionCh) \in Events
    BY <1>5 DEF TakeEvent, TypeOK
  <2> QED BY <1>5, <2>1, <1>a, <1>b DEF TakeEvent
<1>6. ASSUME StopLoop \/ Dial \/ Close PROVE Transit
  BY <1>6 DEF StopLoop, Dial, Close, Transit, answerVars
<1>7. ASSUME NEW g, SetWs(g) \/ Down(g) PROVE Transit
  BY <1>7 DEF SetWs, Down, Transit, answerVars
<1>8. UNCHANGED vars => Transit
  BY DEF vars, Transit, answerVars
<1> QED BY <1>1, <1>2, <1>3, <1>4, <1>5, <1>6, <1>7, <1>8 DEF Next, LoopStep, Environment

\* The node holds only requests that were sent.
LEMMA SentInvariance ==
    TypeOK /\ SentInv /\ QueueInv /\ [Next]_vars => SentInv'
<1> SUFFICES ASSUME TypeOK, SentInv, QueueInv, [Next]_vars,
                    NEW r \in Reqs, msg'[r] # "none"
             PROVE  /\ Started(r[1])'
                    /\ r[2] <= stage'[r[1]]
                    /\ r[2] = stage'[r[1]] => pc'[r[1]] \in {"wait", "ok", "fail", "timeout"}
  BY DEF SentInv
<1>a. r[1] \in Calls /\ r[2] \in {1, 2} /\ r = <<r[1], r[2]>> /\ r \in Messages
  BY DEF Reqs, Messages
<1>b. \A k \in Calls : stage[k] \in {1, 2} /\ Req(k) \in Reqs
  BY DEF TypeOK, Req, Reqs
<1> DEFINE Goal == /\ Started(r[1])'
                   /\ r[2] <= stage'[r[1]]
                   /\ r[2] = stage'[r[1]] => pc'[r[1]] \in {"wait", "ok", "fail", "timeout"}
<1>c. ASSUME msg[r] # "none", pc'[r[1]] = pc[r[1]], stage'[r[1]] = stage[r[1]]
      PROVE  Goal
  BY <1>c DEF SentInv, Started
<1>1. ASSUME NEW k \in Calls, StartCall(k) \/ StartOwn(k) PROVE Goal
  <2>1. msg' = msg /\ stage' = stage /\ ~Started(k)
    BY <1>1 DEF StartCall, StartOwn, IsNext, Started, answerVars
  <2>2. Started(r[1])
    BY <2>1 DEF SentInv
  <2>3. pc'[r[1]] = pc[r[1]]
    <3>1. r[1] # k
      BY <2>1, <2>2
    <3>2. pc' = [pc EXCEPT ![k] = "add"]
      BY <1>1 DEF StartCall, StartOwn
    <3> QED BY <3>1, <3>2, <1>a DEF TypeOK
  <2>4. msg[r] # "none" /\ stage'[r[1]] = stage[r[1]]
    BY <2>1
  <2> QED BY <2>3, <2>4, <1>c
<1>2. ASSUME NEW k \in Calls, CallStep(k) PROVE Goal
  <2>1. CASE r[1] # k
    <3>1. msg[r] # "none"
      BY <1>2, <2>1, <1>a DEF CallStep, AddReq, GetWs, Send, Unreg, Receive, Timeout,
                              answerVars, Req, TypeOK
    <3> QED BY <1>2, <2>1, <3>1, <1>a, <1>c, CallStepFrame
  <2>2. CASE r[1] = k
    <3>1. CASE AddReq(k) \/ GetWs(k) \/ Unreg(k)
      <4>1. msg' = msg /\ pc[k] \in {"add", "getws", "unreg"} /\ stage' = stage
        BY <3>1 DEF AddReq, GetWs, Unreg, answerVars
      <4>2. r[2] <= stage[k] /\ r[2] # stage[k]
        BY <4>1, <2>2 DEF SentInv
      <4> QED BY <1>2, <2>2, <4>1, <4>2, CallStepFrame
    <3>2. CASE Send(k)
      <4>1. pc[k] = "send" /\ stage' = stage
        BY <3>2 DEF Send
      <4>2. CASE r = Req(k)
        <5>1. msg[r] = "none"
          BY <4>1, <4>2, <2>2 DEF SentInv, Req
        <5>2. pc'[k] = "wait"
          BY <5>1, <3>2, <2>2, <4>2, <1>a DEF Send, TypeOK
        <5> QED BY <5>2, <4>1, <4>2, <2>2 DEF Req, Started, TypeOK
      <4>3. CASE r # Req(k)
        <5>1. msg'[r] = msg[r]
          BY <4>3, <3>2, <1>a DEF Send, TypeOK
        <5>2. r[2] <= stage[k] /\ r[2] # stage[k]
          BY <5>1, <4>3, <2>2, <1>a DEF SentInv, Req
        <5> QED BY <1>2, <2>2, <4>1, <5>2, CallStepFrame
      <4> QED BY <4>2, <4>3
    <3>3. CASE Receive(k)
      <4>1. /\ msg' = msg /\ pc[k] = "wait"
            /\ \/ pc'[k] \in {"ok", "fail"} /\ stage' = stage
               \/ pc'[k] = "add" /\ stage[k] = 1 /\ stage'[k] = 2
        BY <3>3 DEF Receive, answerVars, TypeOK
      <4>2. r[2] <= stage[k]
        BY <4>1, <2>2 DEF SentInv
      <4> QED BY <4>1, <4>2, <2>2, <1>a, <1>b DEF Started
    <3>4. CASE Timeout(k)
      <4>1. msg' = msg /\ pc'[k] = "timeout" /\ stage' = stage
        BY <3>4 DEF Timeout, answerVars, TypeOK
      <4> QED BY <4>1, <2>2 DEF SentInv, Started
    <3> QED BY <1>2, <3>1, <3>2, <3>3, <3>4 DEF CallStep
  <2> QED BY <2>1, <2>2
<1>3. ASSUME NEW q \in Reqs, AnswerStep(q) PROVE Goal
  <2>1. UNCHANGED callVars /\ msg[q] # "none" /\ (msg'[r] = msg[r] \/ r = q)
    BY <1>3, <1>a DEF AnswerStep, GetReq, PutRes, PutExit, DelReq, TypeOK, Messages
  <2> QED BY <2>1, <1>c DEF callVars
<1>4. CASE Transit
  BY <1>4, <1>c DEF Transit, callVars
<1> QED BY <1>1, <1>2, <1>3, <1>4, StepKinds

-----------------------------------------------------------------------------
(* The table, the goroutines' pointers and the ResCh channels. *)

\* A registration outlives the steps of the system.
LEMMA RegisteredKeeps ==
    ASSUME TypeOK, IdInv, [Next]_vars, NEW h \in Reqs, NEW i, RegisteredAs(h, i)
    PROVE  RegisteredAs(h, i)'
<1>1. h[1] \in Calls /\ h[2] \in {1, 2}
  BY DEF Reqs
<1> QED BY <1>1, Keeps DEF RegisteredAs

\* What a caller's step does to the answers: Send alone gives the node one.
LEMMA CallStepAnswers ==
    ASSUME TypeOK, SentInv, NEW k \in Calls, CallStep(k), NEW r \in Reqs
    PROVE  /\ held' = held
           /\ \/ msg'[r] = msg[r]
              \/ Send(k) /\ r = Req(k) /\ msg[r] = "none" /\ msg'[r] = "atNode"
           /\ resCh'[r] = resCh[r] \/ (Receive(k) /\ r = Req(k) /\ resCh'[r] = NoReq)
<1>a. r \in Messages
  BY DEF Messages
<1>1. CASE AddReq(k) \/ GetWs(k) \/ Unreg(k) \/ Timeout(k)
  BY <1>1 DEF AddReq, GetWs, Unreg, Timeout, answerVars
<1>2. CASE Send(k)
  <2>1. held' = held /\ resCh' = resCh /\ pc[k] = "send"
    BY <1>2 DEF Send
  <2>2. r # Req(k) => msg'[r] = msg[r]
    BY <1>2, <1>a DEF Send, TypeOK
  <2>3. r = Req(k) => msg[r] = "none"
    BY <2>1 DEF SentInv, Req
  <2>4. r = Req(k) => msg'[r] \in {msg[r], "atNode"}
    BY <1>2, <1>a DEF Send, TypeOK
  <2> QED BY <1>2, <2>1, <2>2, <2>3, <2>4
<1>3. CASE Receive(k)
  BY <1>3 DEF Receive, answerVars, TypeOK
<1> QED BY <1>1, <1>2, <1>3 DEF CallStep

\* Starting a call touches no answer and no entry.
LEMMA StartFrame ==
    ASSUME TypeOK, NEW k \in Calls, StartCall(k) \/ StartOwn(k)
    PROVE  /\ ~Started(k)
           /\ UNCHANGED <<reqMap, resCh, msg, held, stage>>
           /\ \A j \in Calls \ {k} : pc'[j] = pc[j] /\ id'[j] = id[j]
<1>1. ~Started(k) /\ UNCHANGED <<reqMap, resCh, msg, held, stage>>
  BY DEF StartCall, StartOwn, IsNext, Started, answerVars
<1>2. pc' = [pc EXCEPT ![k] = "add"] /\ \E i : id' = [id EXCEPT ![k] = i]
  BY DEF StartCall, StartOwn
<1> QED BY <1>1, <1>2 DEF TypeOK

\* The identifier of a request that has left its call is in the table's domain.
LEMMA SentId ==
    ASSUME TypeOK, IdInv, SentInv, NEW r \in Reqs, msg[r] # "none"
    PROVE  r[1] \in Calls /\ Started(r[1]) /\ id[r[1]] \in Ids
BY DEF SentInv, IdInv, Reqs

\* An entry of reqMap is a request registered under its own identifier.
LEMMA TableInvariance ==
    TypeOK /\ IdInv /\ SentInv /\ QueueInv /\ TableInv /\ [Next]_vars => TableInv'
<1> SUFFICES ASSUME TypeOK, IdInv, SentInv, QueueInv, TableInv, [Next]_vars,
                    NEW i \in Ids, reqMap'[i] # NoReq
             PROVE  RegisteredAs(reqMap[i], i)'
  BY DEF TableInv, RegisteredAs
<1>a. ASSUME reqMap'[i] = reqMap[i] PROVE RegisteredAs(reqMap[i], i)'
  <2>1. reqMap[i] \in Reqs /\ RegisteredAs(reqMap[i], i)
    BY <1>a DEF TableInv, TypeOK
  <2> QED BY <1>a, <2>1, RegisteredKeeps DEF RegisteredAs
<1>1. ASSUME NEW k \in Calls, AddReq(k) PROVE RegisteredAs(reqMap[i], i)'
  <2>1. CASE i = id[k]
    <3>1. reqMap'[i] = Req(k)
      BY <1>1, <2>1 DEF AddReq, TypeOK
    <3>2. UNCHANGED <<id, stage>> /\ Started(k)' /\ stage[k] \in {1, 2}
      BY <1>1 DEF AddReq, Started, TypeOK
    <3> QED BY <2>1, <3>1, <3>2 DEF RegisteredAs, Req, Started
  <2>2. CASE i # id[k]
    BY <1>1, <2>2, <1>a DEF AddReq, TypeOK
  <2> QED BY <2>1, <2>2
<1>2. ASSUME NEW k \in Calls, CallStep(k), ~AddReq(k) PROVE reqMap'[i] \in {reqMap[i], NoReq}
  BY <1>2 DEF CallStep, GetWs, Send, Unreg, Receive, Timeout, TypeOK
<1>3. ASSUME NEW r \in Reqs, AnswerStep(r) PROVE reqMap'[i] \in {reqMap[i], NoReq}
  BY <1>3 DEF AnswerStep, GetReq, PutRes, PutExit, DelReq, TypeOK
<1>4. ASSUME NEW k \in Calls, StartCall(k) \/ StartOwn(k) PROVE reqMap'[i] = reqMap[i]
  BY <1>4, StartFrame
<1>5. ASSUME Transit PROVE reqMap'[i] = reqMap[i]
  BY <1>5 DEF Transit
<1> QED BY <1>a, <1>1, <1>2, <1>3, <1>4, <1>5, StepKinds

\* onAction holds a request of its answer's identifier.
LEMMA HeldInvariance ==
    TypeOK /\ IdInv /\ SentInv /\ QueueInv /\ TableInv /\ HeldInv /\ [Next]_vars => HeldInv'
<1> SUFFICES ASSUME TypeOK, IdInv, SentInv, QueueInv, TableInv, HeldInv, [Next]_vars,
                    NEW r \in Reqs
             PROVE  /\ msg'[r] \in {"put", "del"} <=> held'[r] # NoReq
                    /\ held'[r] # NoReq => RegisteredAs(held[r], id[r[1]])'
  BY DEF HeldInv
<1> DEFINE Goal == /\ msg'[r] \in {"put", "del"} <=> held'[r] # NoReq
                   /\ held'[r] # NoReq => RegisteredAs(held[r], id[r[1]])'
<1>a. r[1] \in Calls /\ r \in Messages
  BY DEF Reqs, Messages
<1>b. ASSUME held'[r] = held[r],
             msg'[r] = msg[r] \/ {msg[r], msg'[r]} \cap {"put", "del"} = {}
                             \/ (msg[r] = "put" /\ msg'[r] = "del")
      PROVE  Goal
  <2>1. msg'[r] \in {"put", "del"} <=> msg[r] \in {"put", "del"}
    BY <1>b
  <2>2. CASE held[r] = NoReq
    BY <1>b, <2>1, <2>2 DEF HeldInv
  <2>3. CASE held[r] # NoReq
    <3>1. msg[r] \in {"put", "del"} /\ held[r] \in Reqs /\ RegisteredAs(held[r], id[r[1]])
      BY <2>3 DEF HeldInv, TypeOK
    <3>2. id'[r[1]] = id[r[1]]
      BY <3>1, <1>a, SentId, Keeps
    <3>3. RegisteredAs(held[r], id[r[1]])'
      BY <3>1, <3>2, <1>b, RegisteredKeeps DEF RegisteredAs
    <3> QED BY <1>b, <2>1, <2>3, <3>1, <3>3
  <2> QED BY <2>2, <2>3
<1>1. ASSUME NEW k \in Calls, StartCall(k) \/ StartOwn(k) PROVE Goal
  BY <1>1, <1>b, StartFrame
<1>2. ASSUME NEW k \in Calls, CallStep(k) PROVE Goal
  <2>1. /\ held' = held
        /\ msg'[r] = msg[r] \/ (msg[r] = "none" /\ msg'[r] = "atNode")
    BY <1>2, CallStepAnswers
  <2> QED BY <2>1, <1>b
<1>3. ASSUME NEW q \in Reqs, AnswerStep(q), q # r PROVE Goal
  <2>1. held'[r] = held[r] /\ msg'[r] = msg[r]
    BY <1>3, <1>a DEF AnswerStep, GetReq, PutRes, PutExit, DelReq, TypeOK, Messages
  <2> QED BY <2>1, <1>b
<1>4. CASE AnswerStep(r)
  <2>1. CASE GetReq(r)
    <3>1. id[r[1]] \in Ids /\ UNCHANGED <<id, pc, stage>>
      BY <2>1, SentId DEF GetReq, callVars
    <3>2. /\ held'[r] = reqMap[id[r[1]]]
          /\ msg'[r] = IF reqMap[id[r[1]]] = NoReq THEN "lost" ELSE "put"
      BY <2>1, <1>a DEF GetReq, TypeOK
    <3> QED BY <3>1, <3>2 DEF TableInv, RegisteredAs, Started
  <2>2. CASE PutRes(r)
    BY <2>2, <1>a, <1>b DEF PutRes, TypeOK
  <2>3. CASE PutExit(r)
    BY <2>3, <1>a DEF PutExit, TypeOK
  <2>4. CASE DelReq(r)
    BY <2>4, <1>a DEF DelReq, TypeOK
  <2> QED BY <1>4, <2>1, <2>2, <2>3, <2>4 DEF AnswerStep
<1>5. CASE Transit
  BY <1>5, <1>b DEF Transit
<1> QED BY <1>1, <1>2, <1>3, <1>4, <1>5, StepKinds

\* What lies in ResCh is the answer to a request of the same identifier.
LEMMA AnswerInvariance ==
    TypeOK /\ IdInv /\ SentInv /\ QueueInv /\ HeldInv /\ AnswerInv /\ [Next]_vars => AnswerInv'
<1> SUFFICES ASSUME TypeOK, IdInv, SentInv, QueueInv, HeldInv, AnswerInv, [Next]_vars,
                    NEW h \in Reqs, resCh'[h] # NoReq
             PROVE  /\ RegisteredAs(h, id[resCh[h][1]])'
                    /\ msg'[resCh'[h]] \in {"del", "done"}
  BY DEF AnswerInv
<1> DEFINE Goal == /\ RegisteredAs(h, id[resCh[h][1]])'
                   /\ msg'[resCh'[h]] \in {"del", "done"}
<1>b. ASSUME resCh'[h] = resCh[h],
             \A r \in Reqs : msg[r] \in {"del", "done"} => msg'[r] \in {"del", "done"}
      PROVE  Goal
  <2>1. /\ resCh[h] \in Reqs /\ msg[resCh[h]] \in {"del", "done"}
        /\ RegisteredAs(h, id[resCh[h][1]])
    BY <1>b DEF AnswerInv, TypeOK
  <2>2. id'[resCh[h][1]] = id[resCh[h][1]]
    BY <2>1, SentId, Keeps
  <2>3. RegisteredAs(h, id[resCh[h][1]])'
    BY <1>b, <2>1, <2>2, RegisteredKeeps DEF RegisteredAs
  <2> QED BY <1>b, <2>1, <2>3
<1>1. ASSUME NEW k \in Calls, StartCall(k) \/ StartOwn(k) PROVE Goal
  BY <1>1, <1>b, StartFrame
<1>2. ASSUME NEW k \in Calls, CallStep(k) PROVE Goal
  <2>1. resCh'[h] = resCh[h]
    BY <1>2, CallStepAnswers
  <2>2. \A r \in Reqs : msg'[r] = msg[r] \/ msg[r] = "none"
    BY <1>2, CallStepAnswers
  <2> QED BY <2>1, <2>2, <1>b
<1>3. ASSUME NEW r \in Reqs, AnswerStep(r) PROVE Goal
  <2>a. r \in Messages /\ Reqs \subseteq Messages
    BY DEF Messages
  <2>1. CASE PutRes(r) /\ held[r] = h
    <3>1. resCh'[h] = r /\ msg[r] = "put" /\ msg'[r] = "del" /\ UNCHANGED <<id, pc, stage>>
      BY <2>1, <2>a DEF PutRes, TypeOK, callVars
    <3>2. RegisteredAs(h, id[r[1]])
      BY <2>1, <3>1, ConstantsOK DEF HeldInv
    <3> QED BY <3>1, <3>2 DEF RegisteredAs, Started
  <2>2. CASE ~(PutRes(r) /\ held[r] = h)
    <3>1. resCh'[h] = resCh[h]
      BY <1>3, <2>2 DEF AnswerStep, GetReq, PutRes, PutExit, DelReq, TypeOK
    <3>2. /\ \A q \in Reqs \ {r} : msg'[q] = msg[q]
          /\ msg[r] \in {"del", "done"} => msg'[r] \in {"del", "done"}
      BY <1>3, <2>a DEF AnswerStep, GetReq, PutRes, PutExit, DelReq, TypeOK
    <3> QED BY <3>1, <3>2, <1>b
  <2> QED BY <2>1, <2>2
<1>4. CASE Transit
  BY <1>4, <1>b DEF Transit
<1> QED BY <1>1, <1>2, <1>3, <1>4, StepKinds

-----------------------------------------------------------------------------
(* Calls whose identifier nobody else has drawn. *)

\* Such a call is the only one of its identifier.
LEMMA OnlyOwner ==
    ASSUME IdInv, NEW k \in Calls, Started(k), Unshared(k),
           NEW j \in Calls, Started(j), id[j] = id[k]
    PROVE  j = k
BY DEF IdInv, Unshared

\* Before it starts, a call has nothing under way.
LEMMA OwnInvStart ==
    ASSUME TypeOK, IdInv, SentInv, HeldInv, AnswerInv,
           NEW k \in Calls, StartCall(k) \/ StartOwn(k)
    PROVE  OwnInv(k)'
<1>1. ~Started(k) /\ stage[k] = 1
  BY StartFrame DEF IdInv
<1>2. \A s \in {1, 2} : /\ <<k, s>> \in Reqs /\ <<k, s>>[1] = k
                        /\ msg[<<k, s>>] = "none"
                        /\ held[<<k, s>>] = NoReq
                        /\ resCh[<<k, s>>] = NoReq
  <2> SUFFICES ASSUME NEW s \in {1, 2}, NEW r \in Reqs, r = <<k, s>>, r[1] = k
               PROVE  msg[r] = "none" /\ held[r] = NoReq /\ resCh[r] = NoReq
    BY DEF Reqs
  <2>1. msg[r] = "none"
    BY <1>1 DEF SentInv
  <2>2. held[r] = NoReq
    BY <2>1 DEF HeldInv
  <2>3. resCh[r] = NoReq
    BY <1>1 DEF AnswerInv, RegisteredAs
  <2> QED BY <2>1, <2>2, <2>3
<1>3. UNCHANGED <<reqMap, resCh, msg, held, stage>> /\ pc'[k] = "add"
  BY StartFrame DEF StartCall, StartOwn, TypeOK
<1> QED BY <1>1, <1>2, <1>3 DEF OwnInv, Req

\* What OwnInv reads of the rest of the state.
LEMMA OwnInvFrame ==
    ASSUME NEW k \in Calls, OwnInv(k),
           pc'[k] = pc[k], stage'[k] = stage[k], id'[k] = id[k],
           stage[k] \in {1, 2},
           reqMap'[id[k]] = reqMap[id[k]],
           \A s \in {1, 2} :
               /\ held'[<<k, s>>] = held[<<k, s>>]
               /\ resCh'[<<k, s>>] = resCh[<<k, s>>]
               /\ \/ msg'[<<k, s>>] = msg[<<k, s>>]
                  \/ {msg[<<k, s>>], msg'[<<k, s>>]} \cap {"del", "done"} = {}
    PROVE  OwnInv(k)'
<1>1. ASSUME NEW s \in {1, 2}
      PROVE  /\ msg'[<<k, s>>] = "del" <=> msg[<<k, s>>] = "del"
             /\ msg'[<<k, s>>] = "done" <=> msg[<<k, s>>] = "done"
  OBVIOUS
<1>2. msg'[Req(k)'] = "done" <=> msg[Req(k)] = "done"
  BY <1>1 DEF Req
<1> QED BY <1>1, <1>2 DEF OwnInv

\* The call's own steps.
LEMMA OwnInvCall ==
    ASSUME TypeOK, IdInv, SentInv, AnswerInv, NEW k \in Calls, OwnInv(k), CallStep(k)
    PROVE  OwnInv(k)'
<1>a. /\ stage[k] \in {1, 2} /\ id[k] \in Ids /\ id' = id
      /\ \A s \in {1, 2} : /\ <<k, s>> \in Reqs /\ <<k, s>> # NoReq
                           /\ <<k, s>>[1] = k /\ <<k, s>>[2] = s
  <2>1. Started(k) /\ id' = id
    BY CallStepFrame
  <2>2. \A s \in {1, 2} : <<k, s>> \in Reqs
    BY DEF Reqs
  <2>3. \A s \in {1, 2} : <<k, s>> # NoReq
    BY <2>2, ConstantsOK
  <2>4. id[k] \in Ids /\ stage[k] \in {1, 2}
    BY <2>1 DEF IdInv, TypeOK
  <2> QED BY <2>1, <2>2, <2>3, <2>4
<1>b. \A s \in {1, 2} :
         /\ held'[<<k, s>>] = held[<<k, s>>]
         /\ msg'[<<k, s>>] = msg[<<k, s>>] \/ (msg[<<k, s>>] = "none" /\ msg'[<<k, s>>] = "atNode")
         /\ resCh'[<<k, s>>] \in {resCh[<<k, s>>], NoReq}
  BY <1>a, CallStepAnswers
<1>1. CASE AddReq(k)
  <2>1. /\ pc[k] = "add" /\ pc'[k] = "getws" /\ reqMap'[id[k]] = Req(k)
        /\ UNCHANGED <<stage, msg, held, resCh>>
    BY <1>1, <1>a DEF AddReq, answerVars, TypeOK
  <2> QED BY <1>a, <2>1 DEF OwnInv, Req
<1>2. CASE GetWs(k)
  <2>1. /\ pc[k] = "getws" /\ pc'[k] \in {"nows", "send"}
        /\ UNCHANGED <<stage, msg, held, resCh, reqMap>>
    BY <1>2 DEF GetWs, answerVars, TypeOK
  <2> QED BY <1>a, <2>1 DEF OwnInv
<1>3. CASE Send(k)
  <2>1. pc[k] = "send" /\ UNCHANGED <<stage, held, resCh, reqMap>>
    BY <1>3 DEF Send
  <2>2. \/ pc'[k] = "unreg" /\ UNCHANGED msg
        \/ pc'[k] = "wait" /\ msg'[Req(k)] = "atNode"
    <3>1. Req(k) \in Messages
      BY <1>a DEF Req, Messages
    <3>2. msg' = [msg EXCEPT ![Req(k)] = "atNode"] => msg'[Req(k)] = "atNode"
      BY <3>1 DEF TypeOK
    <3> QED BY <1>3, <3>2 DEF Send, TypeOK
  <2>3. CASE pc'[k] = "unreg"
    BY <1>a, <2>1, <2>2, <2>3 DEF OwnInv
  <2>4. CASE pc'[k] = "wait"
    BY <1>a, <1>b, <2>1, <2>2, <2>4 DEF OwnInv, Req
  <2> QED BY <2>2, <2>3, <2>4
<1>4. CASE Unreg(k)
  <2>1. /\ pc[k] = "unreg" /\ pc'[k] = "fail" /\ reqMap'[id[k]] = NoReq
        /\ UNCHANGED <<stage, msg, held, resCh>>
    BY <1>4, <1>a DEF Unreg, answerVars, TypeOK
  <2> QED BY <1>a, <2>1 DEF OwnInv
<1>5. CASE Receive(k)
  <2>1. /\ pc[k] = "wait" /\ resCh[Req(k)] # NoReq
        /\ UNCHANGED <<msg, held, reqMap>>
        /\ \/ pc'[k] \in {"ok", "fail"} /\ stage' = stage
           \/ pc'[k] = "add" /\ stage[k] = 1 /\ stage'[k] = 2
    BY <1>5 DEF Receive, answerVars, TypeOK
  <2>2. resCh[Req(k)] = Req(k) /\ msg[Req(k)] \in {"del", "done"}
    BY <1>a, <2>1 DEF OwnInv, AnswerInv, Req
  <2>3. CASE pc'[k] \in {"ok", "fail"}
    <3>1. stage' = stage
      BY <2>1, <2>3
    <3>2. (\A s \in {1, 2} : msg[<<k, s>>] # "del") => reqMap[id[k]] = NoReq
      BY <1>a, <2>1, <2>2 DEF OwnInv, Req
    <3> QED BY <1>a, <1>b, <2>1, <2>3, <3>1, <3>2 DEF OwnInv
  <2>4. CASE pc'[k] = "add"
    BY <1>a, <1>b, <2>1, <2>2, <2>4 DEF OwnInv, Req
  <2> QED BY <2>1, <2>3, <2>4
<1>6. CASE Timeout(k)
  <2>1. /\ pc[k] = "wait" /\ pc'[k] = "timeout"
        /\ UNCHANGED <<stage, msg, held, resCh, reqMap>>
    BY <1>6 DEF Timeout, answerVars, TypeOK
  <2> QED BY <1>a, <2>1 DEF OwnInv
<1> QED BY <1>1, <1>2, <1>3, <1>4, <1>5, <1>6 DEF CallStep

\* The steps of onAction on an answer to the call.
LEMMA OwnInvAnswer ==
    ASSUME TypeOK, IdInv, SentInv, TableInv, HeldInv, AnswerInv,
           NEW k \in Calls, Started(k), Unshared(k), OwnInv(k),
           NEW s \in {1, 2}, AnswerStep(<<k, s>>)
    PROVE  OwnInv(k)'
<1> DEFINE r == <<k, s>>
<1>a. /\ stage[k] \in {1, 2} /\ id[k] \in Ids
      /\ r \in Reqs /\ r \in Messages /\ r # NoReq /\ r[1] = k /\ r[2] = s
      /\ \A q \in {1, 2} : <<k, q>> \in Reqs /\ <<k, q>> # NoReq
      /\ \A q \in {1, 2} : q # s => <<k, q>> # r
  <2>1. \A q \in {1, 2} : <<k, q>> \in Reqs
    BY DEF Reqs
  <2>2. \A q \in {1, 2} : <<k, q>> # NoReq
    BY <2>1, ConstantsOK
  <2>3. stage[k] \in {1, 2} /\ id[k] \in Ids
    BY DEF IdInv, TypeOK
  <2>4. r \in Messages
    BY <2>1 DEF Messages
  <2> QED BY <2>1, <2>2, <2>3, <2>4
<1>b. UNCHANGED callVars
  BY DEF AnswerStep, GetReq, PutRes, PutExit, DelReq
<1>c. msg[r] # "none" /\ s <= stage[k]
      /\ (s = stage[k] => pc[k] \in {"wait", "ok", "fail", "timeout"})
  <2>1. msg[r] # "none"
    BY DEF AnswerStep, GetReq, PutRes, PutExit, DelReq
  <2> QED BY <1>a, <2>1 DEF SentInv
<1>d. msg[r] \notin {"del", "done"} => s = stage[k]
  BY <1>a, <1>c DEF OwnInv
<1>e. GetReq(r) \/ PutRes(r) \/ PutExit(r) \/ DelReq(r)
  BY DEF AnswerStep
<1> HIDE DEF r
<1>1. CASE GetReq(r)
  <2>1. /\ msg[r] = "get" /\ UNCHANGED <<reqMap, resCh>>
        /\ held'[r] = reqMap[id[k]] /\ msg'[r] \in {"lost", "put"}
        /\ \A q \in Reqs \ {r} : held'[q] = held[q] /\ msg'[q] = msg[q]
    BY <1>1, <1>a DEF GetReq, TypeOK, Messages
  <2>2. reqMap[id[k]] \in {NoReq, r}
    <3> SUFFICES ASSUME reqMap[id[k]] # NoReq PROVE reqMap[id[k]] = r
      OBVIOUS
    <3> DEFINE h == reqMap[id[k]]
    <3>1. h \in Reqs /\ RegisteredAs(h, id[k])
      BY <1>a DEF TypeOK, TableInv
    <3>2. h[1] \in Calls /\ h[2] \in {1, 2} /\ h = <<h[1], h[2]>>
      BY <3>1 DEF Reqs
    <3>3. h[1] = k /\ h[2] <= stage[k]
      BY <3>1, <3>2, OnlyOwner DEF RegisteredAs
    <3>4. s = stage[k] /\ pc[k] # "add"
      BY <1>c, <1>d, <2>1
    <3>5. stage[k] = 2 => h # <<k, 1>>
      BY <3>4 DEF OwnInv
    <3> QED BY <1>a, <3>2, <3>3, <3>4, <3>5 DEF r
  <2> QED BY <1>a, <1>b, <1>c, <1>d, <2>1, <2>2 DEF OwnInv, callVars, r, Req
<1>2. CASE PutRes(r)
  <2>1. /\ msg[r] = "put" /\ held[r] = r
    BY <1>2, <1>a DEF PutRes, HeldInv, OwnInv, r
  <2>2. /\ UNCHANGED <<reqMap, held>>
        /\ resCh'[r] = r /\ msg'[r] = "del"
        /\ \A q \in Reqs \ {r} : resCh'[q] = resCh[q] /\ msg'[q] = msg[q]
    BY <1>2, <1>a, <2>1 DEF PutRes, TypeOK, Messages
  <2> QED BY <1>a, <1>b, <1>c, <1>d, <2>1, <2>2 DEF OwnInv, callVars, r, Req
<1>3. CASE PutExit(r)
  <2>1. /\ msg[r] = "put" /\ UNCHANGED <<reqMap, resCh>>
        /\ held'[r] = NoReq /\ msg'[r] = "lost"
        /\ \A q \in Reqs \ {r} : held'[q] = held[q] /\ msg'[q] = msg[q]
    BY <1>3, <1>a DEF PutExit, TypeOK, Messages
  <2> QED BY <1>a, <1>b, <1>c, <1>d, <2>1 DEF OwnInv, callVars, r, Req
<1>4. CASE DelReq(r)
  <2>1. /\ msg[r] = "del" /\ UNCHANGED resCh
        /\ held'[r] = NoReq /\ msg'[r] = "done" /\ reqMap'[id[k]] = NoReq
        /\ \A q \in Reqs \ {r} : held'[q] = held[q] /\ msg'[q] = msg[q]
    BY <1>4, <1>a DEF DelReq, TypeOK, Messages
  <2> QED BY <1>a, <1>b, <1>c, <1>d, <2>1 DEF OwnInv, callVars, r, Req
<1> QED BY <1>e, <1>1, <1>2, <1>3, <1>4

\* Unshared calls keep what they rely on through every step.
LEMMA UnsharedInvariance == IInv /\ [Next]_vars => UnsharedInv'
<1> SUFFICES ASSUME IInv, [Next]_vars, NEW k \in Calls, Started(k)', Unshared(k)'
             PROVE  OwnInv(k)'
  BY DEF UnsharedInv
<1> USE DEF IInv
<1>1. CASE ~Started(k)
  <2>1. StartCall(k) \/ StartOwn(k)
    <3>1. ASSUME NEW j \in Calls, StartCall(j) \/ StartOwn(j) PROVE j = k
      BY <1>1, <3>1, StartFrame DEF Started
    <3>2. ASSUME NEW j \in Calls, CallStep(j) PROVE FALSE
      BY <1>1, <3>2, CallStepFrame DEF Started
    <3>3. ASSUME UNCHANGED callVars PROVE FALSE
      BY <1>1, <3>3 DEF callVars, Started
    <3> QED BY <3>1, <3>2, <3>3, CallVarsFrame
  <2> QED BY <2>1, OwnInvStart
<1>2. CASE Started(k)
  <2>a. /\ OwnInv(k) /\ Unshared(k) /\ id'[k] = id[k]
        /\ stage[k] \in {1, 2} /\ id[k] \in Ids
    BY <1>2, Keeps DEF UnsharedInv, TypeOK, IdInv
  <2>b. \A s \in {1, 2} : <<k, s>> \in Reqs /\ <<k, s>>[1] = k
    BY DEF Reqs
  <2>1. ASSUME NEW j \in Calls, StartCall(j) \/ StartOwn(j) PROVE OwnInv(k)'
    <3>1. j # k
      BY <1>2, <2>1, StartFrame
    <3> QED BY <2>1, <2>a, <3>1, StartFrame, OwnInvFrame
  <2>2. ASSUME NEW j \in Calls, CallStep(j) PROVE OwnInv(k)'
    <3>1. CASE j = k
      BY <2>2, <2>a, <3>1, OwnInvCall
    <3>2. CASE j # k
      <4>1. Started(j) /\ pc'[k] = pc[k] /\ stage'[k] = stage[k]
        BY <2>2, <3>2, CallStepFrame
      <4>2. id[j] # id[k]
        BY <1>2, <2>a, <3>2, <4>1, OnlyOwner
      <4>3. reqMap'[id[k]] = reqMap[id[k]]
        BY <2>2, <2>a, <4>2
           DEF CallStep, AddReq, GetWs, Send, Unreg, Receive, Timeout, TypeOK
      <4>4. \A s \in {1, 2} : <<k, s>> # Req(j)
        BY <3>2 DEF Req
      <4>5. \A s \in {1, 2} : /\ held'[<<k, s>>] = held[<<k, s>>]
                              /\ resCh'[<<k, s>>] = resCh[<<k, s>>]
                              /\ msg'[<<k, s>>] = msg[<<k, s>>]
        BY <2>2, <2>b, <4>4, CallStepAnswers
      <4> QED BY <2>a, <4>1, <4>3, <4>5, OwnInvFrame
    <3> QED BY <3>1, <3>2
  <2>3. ASSUME NEW r \in Reqs, AnswerStep(r) PROVE OwnInv(k)'
    <3>a. r = <<r[1], r[2]>> /\ r[1] \in Calls /\ r[2] \in {1, 2} /\ r \in Messages
      BY DEF Reqs, Messages
    <3>1. CASE r[1] = k
      <4>1. r = <<k, r[2]>>
        BY <3>1, <3>a
      <4> QED BY <1>2, <2>3, <2>a, <3>a, <4>1, OwnInvAnswer
    <3>2. CASE r[1] # k
      <4>1. UNCHANGED callVars /\ msg[r] # "none"
        BY <2>3 DEF AnswerStep, GetReq, PutRes, PutExit, DelReq
      <4>2. Started(r[1]) /\ id[r[1]] # id[k]
        BY <1>2, <2>a, <3>2, <3>a, <4>1, SentId, OnlyOwner
      <4>3. reqMap'[id[k]] = reqMap[id[k]]
        BY <2>3, <2>a, <4>2 DEF AnswerStep, GetReq, PutRes, PutExit, DelReq, TypeOK
      <4>4. ASSUME NEW s \in {1, 2}
            PROVE  /\ held'[<<k, s>>] = held[<<k, s>>]
                   /\ resCh'[<<k, s>>] = resCh[<<k, s>>]
                   /\ msg'[<<k, s>>] = msg[<<k, s>>]
        <5>1. <<k, s>> # r /\ <<k, s>> \in Reqs /\ <<k, s>> \in Messages
          BY <2>b, <3>2 DEF Messages
        <5>2. held'[<<k, s>>] = held[<<k, s>>] /\ msg'[<<k, s>>] = msg[<<k, s>>]
          BY <2>3, <5>1 DEF AnswerStep, GetReq, PutRes, PutExit, DelReq, TypeOK
        <5>3. PutRes(r) => held[r] # <<k, s>>
          <6> SUFFICES ASSUME PutRes(r), held[r] = <<k, s>> PROVE FALSE
            OBVIOUS
          <6>1. RegisteredAs(held[r], id[r[1]])
            BY <5>1, ConstantsOK DEF HeldInv
          <6> QED BY <2>b, <4>2, <6>1 DEF RegisteredAs
        <5>4. resCh'[<<k, s>>] = resCh[<<k, s>>]
          BY <2>3, <5>1, <5>3 DEF AnswerStep, GetReq, PutRes, PutExit, DelReq, TypeOK
        <5> QED BY <5>2, <5>4
      <4> QED BY <2>a, <4>1, <4>3, <4>4, OwnInvFrame DEF callVars
    <3> QED BY <3>1, <3>2
  <2>4. CASE Transit
    <3>1. \A s \in {1, 2} : \/ msg'[<<k, s>>] = msg[<<k, s>>]
                           \/ {msg[<<k, s>>], msg'[<<k, s>>]} \cap {"del", "done"} = {}
      BY <2>4, <2>b DEF Transit
    <3> QED BY <2>4, <2>a, <3>1, OwnInvFrame DEF Transit, callVars
  <2> QED BY <2>1, <2>2, <2>3, <2>4, StepKinds
<1> QED BY <1>1, <1>2

-----------------------------------------------------------------------------
(* The theorems. *)

\* The client starts in the inductive invariant.
LEMMA InitIInv == Init => IInv
<1> SUFFICES ASSUME Init PROVE IInv
  OBVIOUS
<1> USE ConstantsOK DEF Init
<1>1. TypeOK
  <2>1. /\ qid \in 0..MaxCalls /\ dialled \in 0..MaxConns
    OBVIOUS
  <2>2. recvCh \in Seq(Messages) /\ Len(recvCh) <= RecvChSize
    OBVIOUS
  <2>3. actionCh \in Seq(Events) /\ Len(actionCh) <= ActionChSize
    OBVIOUS
  <2>4. /\ pc \in [Calls -> PCs] /\ msg \in [Messages -> Phases]
        /\ kind \in [Calls -> {"one", "two", "own"}] /\ stage \in [Calls -> {1, 2}]
    BY DEF PCs, Phases
  <2>5. /\ id \in [Calls -> Ids \cup {NoId}] /\ conn \in [Calls -> Conns \cup {NoConn}]
        /\ reqMap \in [Ids -> Reqs \cup {NoReq}] /\ resCh \in [Reqs -> Reqs \cup {NoReq}]
        /\ via \in [Messages -> Conns \cup {NoConn}] /\ held \in [Reqs -> Reqs \cup {NoReq}]
    OBVIOUS
  <2>6. /\ loop \in BOOLEAN /\ exit \in BOOLEAN /\ ws \in Conns \cup {NoConn}
        /\ up \in [Conns -> BOOLEAN]
    OBVIOUS
  <2> QED BY <2>1, <2>2, <2>3, <2>4, <2>5, <2>6 DEF TypeOK
<1>2. IdInv /\ TableInv /\ UnsharedInv
  BY DEF IdInv, TableInv, UnsharedInv, Started
<1>3. SentInv /\ HeldInv /\ AnswerInv
  BY DEF SentInv, HeldInv, AnswerInv, Messages
<1>4. QueueInv
  BY DEF QueueInv, Holds
<1> QED BY <1>1, <1>2, <1>3, <1>4 DEF IInv

\* Every step of the client keeps the inductive invariant.
LEMMA NextIInv == IInv /\ [Next]_vars => IInv'
BY TypeInvariance, IdInvariance, SentInvariance, QueueInvariance, TableInvariance,
   HeldInvariance, AnswerInvariance, UnsharedInvariance DEF IInv

\* The inductive invariant holds in every behaviour of the client.
THEOREM Invariance == Spec => []IInv
<1>1. Init => IInv
  BY InitIInv
<1>2. IInv /\ [Next]_vars => IInv'
  BY NextIInv
<1> QED BY <1>1, <1>2, PTL DEF Spec

\* The client's state stays well typed; the channels stay within their size.
THEOREM TypeCorrect == Spec => []TypeOK
<1>1. IInv => TypeOK
  BY DEF IInv
<1> QED BY <1>1, Invariance, PTL

\* A caller never finds another request's answer (onAction, sendSyncWSRequest).
THEOREM OwnAnswerHolds == Spec => []OwnAnswer
<1>1. IInv => OwnAnswer
  <2> SUFFICES ASSUME IInv, NEW r \in Reqs, Unshared(r[1]), resCh[r] # NoReq
               PROVE  resCh[r] = r
    BY DEF OwnAnswer
  <2>1. r[1] \in Calls /\ r[2] \in {1, 2} /\ r = <<r[1], r[2]>>
    BY DEF Reqs
  <2>2. Started(r[1])
    BY DEF IInv, AnswerInv, RegisteredAs
  <2>3. OwnInv(r[1])
    BY <2>1, <2>2 DEF IInv, UnsharedInv
  <2>4. resCh[<<r[1], r[2]>>] \in {NoReq, <<r[1], r[2]>>}
    BY <2>1, <2>3 DEF OwnInv
  <2> QED BY <2>1, <2>4
<1> QED BY <1>1, Invariance, PTL

\* The answer to a first request reaches its caller (addReq, delReq, onAction).
THEOREM FirstReachableHolds == Spec => []FirstReachable
<1>1. IInv => FirstReachable
  <2> SUFFICES ASSUME IInv, NEW k \in Calls, pc[k] = "wait", stage[k] = 1, Unshared(k)
               PROVE  Reachable(Req(k))
    BY DEF FirstReachable
  <2>1. OwnInv(k)
    BY DEF IInv, UnsharedInv, Started
  <2>2. resCh[<<k, 1>>] = <<k, 1>> \/ reqMap[id[k]] = <<k, 1>>
    BY <2>1 DEF OwnInv
  <2>3. <<k, 1>> \in Reqs
    BY DEF Reqs
  <2> QED BY <2>2, <2>3, ConstantsOK DEF Reachable, Req
<1> QED BY <1>1, Invariance, PTL

\* An answer to a call that has given up blocks no goroutine (onAction).
THEOREM NeverBlocked == Spec => []DispatcherNeverBlocked
<1>1. IInv => DispatcherNeverBlocked
  <2> SUFFICES ASSUME IInv, NEW r \in Reqs, msg[r] = "put", Unshared(r[1])
               PROVE  CanPut(held[r])
    BY DEF DispatcherNeverBlocked
  <2>1. r[1] \in Calls /\ r[2] \in {1, 2} /\ r = <<r[1], r[2]>>
    BY DEF Reqs
  <2>2. Started(r[1]) /\ held[r] # NoReq
    BY DEF IInv, SentInv, HeldInv
  <2>3. /\ held[<<r[1], r[2]>>] \in {NoReq, <<r[1], r[2]>>}
        /\ resCh[<<r[1], r[2]>>] \in {NoReq, <<r[1], r[2]>>}
    BY <2>1, <2>2 DEF IInv, UnsharedInv, OwnInv
  <2>4. held[r] = r /\ resCh[r] \in {NoReq, r}
    BY <2>1, <2>2, <2>3
  <2>5. resCh[r] # r
    BY ConstantsOK DEF IInv, AnswerInv
  <2> QED BY <2>4, <2>5 DEF CanPut
<1> QED BY <1>1, Invariance, PTL

\* A call that is answered leaves no entry (delReq after ResCh, delReq after Send).
THEOREM NothingLeft == Spec => []NothingLeftBehind
<1>1. IInv => NothingLeftBehind
  BY DEF IInv, UnsharedInv, OwnInv, NothingLeftBehind, Started
<1> QED BY <1>1, Invariance, PTL

-----------------------------------------------------------------------------
(* The table implements Exchange. *)

\* An answer lies in one ResCh at most: onAction fills the one it has found,
\* once.
OneChannel ==
    \A h, g \in Reqs : resCh[h] # NoReq /\ resCh[g] = resCh[h] => g = h

LEMMA OneChannelInvariance == IInv /\ OneChannel /\ [Next]_vars => OneChannel'
<1> SUFFICES ASSUME IInv, OneChannel, [Next]_vars,
                    NEW h \in Reqs, NEW g \in Reqs, resCh'[h] # NoReq, resCh'[g] = resCh'[h]
             PROVE  g = h
  BY DEF OneChannel
<1>a. TypeOK /\ SentInv /\ QueueInv /\ HeldInv /\ AnswerInv
  BY DEF IInv
<1>b. (\A q \in Reqs : resCh'[q] \in {resCh[q], NoReq}) => g = h
  BY DEF OneChannel
<1>1. ASSUME NEW k \in Calls, StartCall(k) \/ StartOwn(k) PROVE g = h
  BY <1>1, <1>a, <1>b, StartFrame
<1>2. ASSUME NEW k \in Calls, CallStep(k) PROVE g = h
  BY <1>2, <1>a, <1>b, CallStepAnswers
<1>3. ASSUME NEW r \in Reqs, AnswerStep(r) PROVE g = h
  <2>1. CASE PutRes(r)
    <3>1. msg[r] = "put" /\ resCh' = [resCh EXCEPT ![held[r]] = r]
      BY <2>1 DEF PutRes
    <3>2. \A q \in Reqs : resCh[q] # r
      BY <1>a, <3>1, ConstantsOK DEF AnswerInv
    <3>3. \A q \in Reqs : resCh'[q] = IF q = held[r] THEN r ELSE resCh[q]
      BY <1>a, <3>1 DEF TypeOK
    <3> QED BY <3>2, <3>3 DEF OneChannel
  <2>2. CASE ~PutRes(r)
    BY <1>3, <1>b, <2>2 DEF AnswerStep, GetReq, PutExit, DelReq
  <2> QED BY <2>1, <2>2
<1>4. CASE Transit
  BY <1>4, <1>b DEF Transit
<1> QED BY <1>a, <1>1, <1>2, <1>3, <1>4, StepKinds

\* The inductive invariant and OneChannel hold in every behaviour.
LEMMA ExchangeInvariance == Spec => [](IInv /\ OneChannel)
<1>1. Init => OneChannel
  BY DEF Init, OneChannel
<1> QED BY <1>1, Invariance, OneChannelInvariance, PTL DEF Spec

-----------------------------------------------------------------------------
(* What a step changes of a call and of an answer, as Exchange sees them. *)

\* A call changes for its caller only when it starts, takes an answer or
\* returns.
LEMMA SeenKeeps ==
    ASSUME NEW k \in Calls, kind'[k] = kind[k], stage'[k] = stage[k],
           \/ pc'[k] = pc[k]
           \/ /\ pc[k] \in {"add", "getws", "send", "unreg", "wait"}
              /\ pc'[k] \in {"add", "getws", "send", "unreg", "wait"}
    PROVE  Seen(k)' = Seen(k)
BY DEF Seen

LEMMA FateKeeps ==
    ASSUME NEW r \in Reqs,
           \A s \in Reqs : resCh'[s] = r <=> resCh[s] = r,
           \/ msg'[r] = msg[r]
           \/ {msg[r], msg'[r]} \cap {"none", "del", "done"} = {}
           \/ {msg[r], msg'[r]} \subseteq {"del", "done"}
    PROVE  Fate(r)' = Fate(r)
BY DEF Fate

\* The fate of an answer, case by case.
LEMMA FateCases ==
    ASSUME NEW r \in Reqs
    PROVE  /\ msg[r] = "none" => Fate(r) = "none"
           /\ msg[r] # "none" /\ (\E s \in Reqs : resCh[s] = r) => Fate(r) = "due"
           /\ msg[r] \notin {"none", "del", "done"} => Fate(r) = "due"
BY DEF Fate

\* Whatever moves messages, and the goroutines of onAction, are below it.
LEMMA Hidden ==
    ASSUME TypeOK, UNCHANGED callVars, \A r \in Reqs : Fate(r)' = Fate(r)
    PROVE  UNCHANGED Calling!vars
<1>1. \A k \in Calls : Seen(k)' = Seen(k)
  BY DEF callVars, Seen
<1>2. id' = id
  BY DEF callVars
<1> QED BY <1>1, <1>2 DEF Calling!vars

LEMMA TransitHidden ==
    ASSUME TypeOK, Transit
    PROVE  UNCHANGED Calling!vars
<1>1. \A r \in Reqs : Fate(r)' = Fate(r)
  BY FateKeeps DEF Transit
<1> QED BY <1>1, Hidden DEF Transit

LEMMA AnswerStepHidden ==
    ASSUME IInv, NEW r \in Reqs, AnswerStep(r)
    PROVE  UNCHANGED Calling!vars
<1>a. TypeOK /\ AnswerInv /\ HeldInv /\ r \in Messages /\ Reqs \subseteq Messages
  BY DEF IInv, Messages
<1>b. UNCHANGED callVars /\ \A q \in Reqs \ {r} : msg'[q] = msg[q]
  BY <1>a DEF AnswerStep, GetReq, PutRes, PutExit, DelReq, TypeOK
<1>1. ASSUME NEW q \in Reqs PROVE Fate(q)' = Fate(q)
  <2>1. CASE PutRes(r)
    <3>1. /\ msg[r] = "put" /\ msg'[r] = "del" /\ held[r] \in Reqs
          /\ resCh[held[r]] = NoReq /\ resCh'[held[r]] = r
          /\ \A s \in Reqs \ {held[r]} : resCh'[s] = resCh[s]
      <4>1. msg[r] = "put" /\ held[r] \in Reqs
        BY <2>1, <1>a DEF PutRes, HeldInv, TypeOK
      <4> QED BY <2>1, <4>1, <1>a DEF PutRes, CanPut, TypeOK
    <3>2. CASE q = r
      BY <3>1, <3>2 DEF Fate
    <3>3. CASE q # r
      <4>1. \A s \in Reqs : resCh'[s] = q <=> resCh[s] = q
        BY <3>1, <3>3, ConstantsOK
      <4> QED BY <4>1, <3>3, <1>b, FateKeeps
    <3> QED BY <3>2, <3>3
  <2>2. CASE GetReq(r) \/ PutExit(r) \/ DelReq(r)
    <3>1. /\ resCh' = resCh
          /\ \/ {msg[r], msg'[r]} \cap {"none", "del", "done"} = {}
             \/ {msg[r], msg'[r]} \subseteq {"del", "done"}
      BY <2>2, <1>a DEF GetReq, PutExit, DelReq, TypeOK
    <3> QED BY <3>1, <1>b, FateKeeps
  <2> QED BY <2>1, <2>2 DEF AnswerStep
<1> QED BY <1>a, <1>b, <1>1, Hidden

-----------------------------------------------------------------------------
(* The steps of a call. *)

\* A step that changes call k alone, as its caller sees it.
LEMMA OneSeen ==
    ASSUME NEW k \in Calls, NEW s, Seen(k)' = s,
           \A j \in Calls \ {k} : Seen(j)' = Seen(j)
    PROVE  [j \in Calls |-> Seen(j)]' = [[j \in Calls |-> Seen(j)] EXCEPT ![k] = s]
OBVIOUS

LEMMA OneFate ==
    ASSUME NEW r \in Reqs, NEW f, Fate(r)' = f,
           \A q \in Reqs \ {r} : Fate(q)' = Fate(q)
    PROVE  [q \in Reqs |-> Fate(q)]' = [[q \in Reqs |-> Fate(q)] EXCEPT ![r] = f]
OBVIOUS

\* The others see nothing of a call's step.
LEMMA OthersSeen ==
    ASSUME TypeOK, NEW k \in Calls, CallStep(k), NEW j \in Calls \ {k}
    PROVE  Seen(j)' = Seen(j)
<1>1. pc'[j] = pc[j] /\ stage'[j] = stage[j] /\ kind' = kind
  BY CallStepFrame
<1> QED BY <1>1, SeenKeeps

LEMMA StartRefines ==
    ASSUME TypeOK, IdInv, NEW k \in Calls, StartCall(k) \/ StartOwn(k)
    PROVE  Calling!Begin(k)
<1>1. /\ ~Started(k) /\ pc[k] = "new" /\ stage' = stage /\ stage[k] = 1
      /\ \A j \in Calls \ {k} : pc'[j] = pc[j]
      /\ UNCHANGED <<msg, resCh>>
  BY StartFrame DEF IdInv, Started
<1>2. /\ pc'[k] = "add" /\ \A j \in Calls \ {k} : kind'[j] = kind[j]
  BY DEF StartCall, StartOwn, TypeOK
<1>3. \E i \in Ids : id' = [id EXCEPT ![k] = i]
  BY DEF StartCall, StartOwn, Ids
<1>4. Seen(k) = "idle" /\ Seen(k)' \in {"two", "one"}
  BY <1>1, <1>2 DEF Seen
<1>5. \A j \in Calls \ {k} : Seen(j)' = Seen(j)
  BY <1>1, <1>2, SeenKeeps
<1>6. \A r \in Reqs : Fate(r)' = Fate(r)
  BY <1>1, FateKeeps
<1>7. PICK s \in {"two", "one"} :
         [j \in Calls |-> Seen(j)]' = [[j \in Calls |-> Seen(j)] EXCEPT ![k] = s]
  BY <1>4, <1>5, OneSeen
<1> QED BY <1>3, <1>4, <1>6, <1>7 DEF Calling!Begin

\* A failed write, a timer and a missing connection: the call returns an error.
LEMMA GiveUpRefines ==
    ASSUME TypeOK, NEW k \in Calls,
           Unreg(k) \/ Timeout(k) \/ (GetWs(k) /\ ws = NoConn)
    PROVE  Calling!GiveUp(k)
<1>1. CallStep(k) /\ UNCHANGED <<kind, stage, id, msg, resCh>>
  BY DEF CallStep, Unreg, Timeout, GetWs, answerVars
<1>2. pc[k] \in {"unreg", "wait", "getws"} /\ pc'[k] \in {"fail", "timeout", "nows"}
  BY DEF Unreg, Timeout, GetWs, TypeOK
<1>3. Seen(k) \in {"two", "one"} /\ Seen(k)' = "error"
  BY <1>2 DEF Seen
<1>4. [j \in Calls |-> Seen(j)]' = [[j \in Calls |-> Seen(j)] EXCEPT ![k] = "error"]
  BY <1>1, <1>3, OneSeen, OthersSeen
<1>5. \A r \in Reqs : Fate(r)' = Fate(r)
  BY <1>1, FateKeeps
<1> QED BY <1>1, <1>3, <1>4, <1>5 DEF Calling!GiveUp, Calling!Open

\* Registering, finding a connection and failing to write are the call's own.
LEMMA OwnSteps ==
    ASSUME TypeOK, NEW k \in Calls,
           \/ AddReq(k)
           \/ GetWs(k) /\ ws # NoConn
           \/ Send(k) /\ pc'[k] = "unreg" /\ msg' = msg
    PROVE  UNCHANGED Calling!vars
<1>1. CallStep(k) /\ UNCHANGED <<kind, stage, id, msg, resCh>>
  BY DEF CallStep, AddReq, GetWs, Send, answerVars
<1>2. /\ pc[k] \in {"add", "getws", "send"}
      /\ pc'[k] \in {"getws", "send", "unreg"}
  BY DEF AddReq, GetWs, Send, TypeOK
<1>3. \A j \in Calls : Seen(j)' = Seen(j)
  BY <1>1, <1>2, SeenKeeps, OthersSeen
<1>4. \A r \in Reqs : Fate(r)' = Fate(r)
  BY <1>1, FateKeeps
<1> QED BY <1>1, <1>3, <1>4 DEF Calling!vars

LEMMA SendRefines ==
    ASSUME TypeOK, SentInv, NEW k \in Calls, Send(k), NEW r \in Reqs, r = Req(k)
    PROVE  UNCHANGED Calling!vars \/ Calling!Ask(r)
<1>1. CASE pc'[k] = "unreg" /\ msg' = msg
  BY <1>1, OwnSteps
<1>2. CASE pc'[k] = "wait" /\ msg' = [msg EXCEPT ![Req(k)] = "atNode"]
  <2>1. /\ pc[k] = "send" /\ UNCHANGED <<kind, stage, id, resCh>> /\ CallStep(k)
        /\ r[1] = k
    BY DEF Send, CallStep, Req, TypeOK
  <2>2. /\ msg[r] = "none" /\ msg'[r] = "atNode"
        /\ \A q \in Reqs \ {r} : msg'[q] = msg[q]
    BY <1>2, <2>1 DEF SentInv, Req, TypeOK, Messages
  <2>3. \A j \in Calls : Seen(j)' = Seen(j)
    BY <1>2, <2>1, SeenKeeps, OthersSeen
  <2>4. Fate(r) = "none" /\ Fate(r)' = "due"
    BY <2>2 DEF Fate
  <2>5. \A q \in Reqs \ {r} : Fate(q)' = Fate(q)
    BY <2>1, <2>2, FateKeeps
  <2>6. [q \in Reqs |-> Fate(q)]' = [[q \in Reqs |-> Fate(q)] EXCEPT ![r] = "due"]
    BY <2>1, <2>4, <2>5, OneFate
  <2>7. Seen(k) \in {"two", "one"}
    BY <2>1 DEF Seen
  <2> QED BY <2>1, <2>3, <2>4, <2>6, <2>7 DEF Calling!Ask, Calling!Open
<1> QED BY <1>1, <1>2 DEF Send, TypeOK

\* The call takes what lies in its ResCh, an answer to a request under its
\* identifier that lies in no other.
LEMMA ReceiveRefines ==
    ASSUME IInv, OneChannel, NEW k \in Calls, Receive(k),
           NEW r \in Reqs, r = resCh[Req(k)]
    PROVE  Calling!Take(k, r)
<1>a. TypeOK /\ AnswerInv /\ SentInv
  BY DEF IInv
<1>b. Req(k) \in Reqs /\ Req(k)[1] = k
  BY <1>a DEF Req, Reqs, TypeOK
<1>1. /\ r # NoReq /\ pc[k] = "wait"
      /\ UNCHANGED <<kind, id, msg>> /\ CallStep(k)
      /\ resCh' = [resCh EXCEPT ![Req(k)] = NoReq]
  BY <1>b, ConstantsOK DEF Receive, CallStep, answerVars
<1>2. r[1] \in Calls /\ id[r[1]] = id[k] /\ msg[r] \in {"del", "done"}
  BY <1>a, <1>b, <1>1 DEF AnswerInv, RegisteredAs, Reqs
<1>3. Fate(r) = "due" /\ Fate(r)' = "taken"
  <2>1. \A s \in Reqs : resCh'[s] # r
    BY <1>a, <1>b, <1>1, ConstantsOK DEF OneChannel, TypeOK
  <2>2. msg[r] # "none" /\ msg'[r] \in {"del", "done"}
    BY <1>1, <1>2
  <2>3. Fate(r) = "due"
    BY <1>b, <1>1, <2>2, FateCases
  <2>4. Fate(r)' = "taken"
    BY <2>1, <2>2 DEF Fate
  <2> QED BY <2>3, <2>4
<1>4. \A q \in Reqs \ {r} : Fate(q)' = Fate(q)
  <2>1. \A q \in Reqs \ {r}, s \in Reqs : resCh'[s] = q <=> resCh[s] = q
    BY <1>a, <1>1, ConstantsOK DEF TypeOK
  <2> QED BY <1>1, <2>1, FateKeeps
<1>5. Seen(k) \in {"two", "one"} /\ Seen(k)' \in {"error", Calling!After(Seen(k))}
  <2>1. \/ pc'[k] = "fail"
        \/ kind[k] = "two" /\ stage[k] = 1 /\ stage'[k] = 2 /\ pc'[k] = "add"
        \/ ~(kind[k] = "two" /\ stage[k] = 1) /\ pc'[k] = "ok"
    BY <1>a DEF Receive, TypeOK
  <2>2. Seen(k) = IF kind[k] = "two" /\ stage[k] = 1 THEN "two" ELSE "one"
    BY <1>1 DEF Seen
  <2>3. CASE pc'[k] = "fail"
    BY <2>2, <2>3 DEF Seen
  <2>4. CASE kind[k] = "two" /\ stage[k] = 1 /\ stage'[k] = 2 /\ pc'[k] = "add"
    BY <1>1, <2>2, <2>4 DEF Seen, Calling!After
  <2>5. CASE ~(kind[k] = "two" /\ stage[k] = 1) /\ pc'[k] = "ok"
    BY <2>2, <2>5 DEF Seen, Calling!After
  <2> QED BY <2>1, <2>3, <2>4, <2>5
<1>6. PICK s \in {"error", Calling!After(Seen(k))} :
         [j \in Calls |-> Seen(j)]' = [[j \in Calls |-> Seen(j)] EXCEPT ![k] = s]
  BY <1>a, <1>1, <1>5, OneSeen, OthersSeen
<1>7. [q \in Reqs |-> Fate(q)]' = [[q \in Reqs |-> Fate(q)] EXCEPT ![r] = "taken"]
  BY <1>1, <1>3, <1>4, OneFate
<1> QED BY <1>1, <1>2, <1>3, <1>5, <1>6, <1>7 DEF Calling!Take, Calling!Open

-----------------------------------------------------------------------------
(* The theorem. *)

LEMMA InitRefines == Init => Calling!Init
BY ConstantsOK DEF Init, Calling!Init, Calling!Questions, Seen, Fate, Reqs, Messages

LEMMA StepRefines == IInv /\ OneChannel /\ [Next]_vars => [Calling!Next]_(Calling!vars)
<1> SUFFICES ASSUME IInv, OneChannel, [Next]_vars
             PROVE  Calling!Next \/ UNCHANGED Calling!vars
  OBVIOUS
<1>a. TypeOK /\ IdInv /\ SentInv /\ QueueInv /\ Calling!Questions = Reqs
  BY DEF IInv, Calling!Questions, Reqs
<1>b. \A k \in Calls : Req(k) \in Reqs
  BY <1>a DEF Req, Reqs, TypeOK
<1>1. ASSUME NEW k \in Calls, StartCall(k) \/ StartOwn(k) PROVE Calling!Next
  BY <1>1, <1>a, StartRefines DEF Calling!Next
<1>2. ASSUME NEW k \in Calls, CallStep(k) PROVE Calling!Next \/ UNCHANGED Calling!vars
  <2>1. CASE AddReq(k) \/ (GetWs(k) /\ ws # NoConn)
    BY <2>1, <1>a, OwnSteps
  <2>2. CASE Unreg(k) \/ Timeout(k) \/ (GetWs(k) /\ ws = NoConn)
    BY <2>2, <1>a, GiveUpRefines DEF Calling!Next
  <2>3. CASE Send(k)
    <3>1. PICK r \in Reqs : r = Req(k)
      BY <1>b
    <3> QED BY <2>3, <3>1, <1>a, SendRefines DEF Calling!Next
  <2>4. CASE Receive(k)
    <3>1. PICK r \in Reqs : r = resCh[Req(k)]
      BY <2>4, <1>a, <1>b DEF Receive, TypeOK
    <3> QED BY <2>4, <3>1, <1>a, ReceiveRefines DEF Calling!Next
  <2> QED BY <1>2, <2>1, <2>2, <2>3, <2>4 DEF CallStep
<1>3. ASSUME NEW r \in Reqs, AnswerStep(r) PROVE UNCHANGED Calling!vars
  BY <1>3, AnswerStepHidden
<1>4. Transit => UNCHANGED Calling!vars
  BY <1>a, TransitHidden
<1> QED BY <1>a, <1>1, <1>2, <1>3, <1>4, StepKinds

\* The request table implements Exchange: a call returns a result only from
\* answers under its own identifier, each taken once, and a late answer, a
\* timer, a lost connection or Close changes nothing for a call that has
\* returned (ws.go:334-372, 689-741).
THEOREM Refinement == Spec => ImplementsExchange
BY InitRefines, StepRefines, ExchangeInvariance, PTL DEF Spec, ImplementsExchange, Calling!Spec
=============================================================================
