----------------------------- MODULE WSRequests -----------------------------
(***************************************************************************)
(* The request table of the web socket client (client/ws.go).             *)
(*                                                                         *)
(* A caller registers a request under an identifier, writes it to the      *)
(* connection and waits on the request's own one-place channel ResCh.  A   *)
(* reader goroutine per connection (doRecv) puts every message into        *)
(* recvCh; one loop (start) takes them out and gives each one a goroutine  *)
(* of its own (onAction), which looks the request up, fills its ResCh and  *)
(* only then deletes the entry.  Events of a subscription travel the same  *)
(* way and end in actionCh, which the application reads.                   *)
(*                                                                         *)
(* Every step below is one atomic section of the code: what a goroutine    *)
(* does between two lock acquisitions or channel operations.  The          *)
(* connection (Connect, reconnect, Close, doRecv's deferred Close) is an   *)
(* environment here: connections are dialled, installed in WSClient.ws,    *)
(* removed from it and lost at any moment.                                 *)
(***************************************************************************)
EXTENDS Integers, Sequences

CONSTANTS
    MaxCalls,      \* bound: requests issued by the application and by the client
    MaxConns,      \* bound: connections dialled
    MaxEvents,     \* bound: events the node pushes
    RandIds,       \* what rand.Int31 may return for a request of the client itself
    RecvChSize,    \* capacity of recvCh (WS_RECV_CHAN_SIZE)
    ActionChSize   \* capacity of actionCh (WS_RECV_CHAN_SIZE)

ASSUME BoundsAssumption ==
    /\ MaxCalls \in Nat \ {0}
    /\ MaxConns \in Nat \ {0}
    /\ MaxEvents \in Nat
ASSUME RandIdsAssumption == RandIds \subseteq Nat \ {0}
ASSUME ChannelAssumption ==
    /\ RecvChSize \in Nat \ {0}
    /\ ActionChSize \in Nat \ {0}

Calls == 1..MaxCalls
Conns == 1..MaxConns
NoConn == 0

\* A call sends one request, or, for getCurrentBlockHash, two: <<k, 1>>, <<k, 2>>.
Reqs == Calls \X {1, 2}
NoReq == <<0, 0>>
Events == {0} \X (1..MaxEvents)
Messages == Reqs \cup Events

\* The keys of reqMap: qids count from 1, the client's own are random; 0 is unset.
Ids == Calls \cup RandIds
NoId == 0

VARIABLES
    qid,        \* ClientMgr.qid: the last identifier given to a call
    pc,         \* pc[k]: where call k stands in sendSyncWSRequest
    kind,       \* kind[k]: "one" request, "two" requests, or the client's "own"
    stage,      \* stage[k]: which of its requests the call is at
    id,         \* id[k]: the identifier of the call's requests
    conn,       \* conn[k]: the connection getWsClient returned to the call
    reqMap,     \* WSClient.reqMap: the request registered under an identifier
    resCh,      \* resCh[r]: request whose answer lies in r's ResCh, or NoReq
    msg,        \* msg[m]: where request r's answer, or event m, has got to
    via,        \* via[m]: the connection the message travels on
    held,       \* held[r]: the request onAction found for the answer to r
    recvCh,     \* WSClient.recvCh
    actionCh,   \* WSClient.actionCh
    loop,       \* the goroutine of start() is alive
    exit,       \* exitCh is closed
    ws,         \* WSClient.ws
    up,         \* up[g]: connection g is open
    dialled     \* connections dialled so far

callVars == <<qid, pc, kind, stage, id, conn>>
netVars == <<ws, up, dialled>>
chanVars == <<recvCh, actionCh, loop, exit>>
answerVars == <<msg, via, held>>
vars == <<callVars, reqMap, resCh, answerVars, chanVars, netVars>>

PCs == {"new", "add", "getws", "send", "unreg", "wait",
        "ok", "fail", "nows", "timeout"}
Returned == {"ok", "fail", "nows", "timeout"}
Phases == {"none", "atNode", "read", "queued", "get", "put", "del",
           "inApp", "done", "lost"}

Init ==
    /\ qid = 0
    /\ pc = [k \in Calls |-> "new"]
    /\ kind = [k \in Calls |-> "one"]
    /\ stage = [k \in Calls |-> 1]
    /\ id = [k \in Calls |-> NoId]
    /\ conn = [k \in Calls |-> NoConn]
    /\ reqMap = [i \in Ids |-> NoReq]
    /\ resCh = [r \in Reqs |-> NoReq]
    /\ msg = [m \in Messages |-> "none"]
    /\ via = [m \in Messages |-> NoConn]
    /\ held = [r \in Reqs |-> NoReq]
    /\ recvCh = <<>> /\ actionCh = <<>>
    /\ loop = TRUE /\ exit = FALSE
    /\ ws = NoConn
    /\ up = [g \in Conns |-> FALSE]
    /\ dialled = 0

-----------------------------------------------------------------------------
(* The caller's goroutine. *)

Req(k) == <<k, stage[k]>>

\* Mutated form: the increment is not atomic, and later ones are lost.
NextQidLost == IF qid = 0 THEN 1 ELSE qid

\* ClientMgr.getNextQid: an atomic increment.
NextQid == qid + 1

\* Calls are named in the order they start.
IsNext(k) == pc[k] = "new" /\ \A j \in 1..(k - 1) : pc[j] # "new"

\* An API call of ClientMgr that goes to the web socket client.
StartCall(k) ==
    /\ IsNext(k)
    /\ NextQid \in Calls
    /\ qid' = NextQid
    /\ id' = [id EXCEPT ![k] = NextQid]
    /\ \E kd \in {"one", "two"} : kind' = [kind EXCEPT ![k] = kd]
    /\ pc' = [pc EXCEPT ![k] = "add"]
    /\ UNCHANGED <<stage, conn, reqMap, resCh, answerVars, chanVars, netVars>>

\* A request of the client's own (a heartbeat, a subscription): the
\* identifier is random.
StartOwn(k) ==
    /\ IsNext(k)
    /\ \E i \in RandIds : id' = [id EXCEPT ![k] = i]
    /\ kind' = [kind EXCEPT ![k] = "own"]
    /\ pc' = [pc EXCEPT ![k] = "add"]
    /\ UNCHANGED <<qid, stage, conn, reqMap, resCh, answerVars, chanVars, netVars>>

AddReq(k) ==
    /\ pc[k] = "add"
    /\ reqMap' = [reqMap EXCEPT ![id[k]] = Req(k)]
    /\ pc' = [pc EXCEPT ![k] = "getws"]
    /\ UNCHANGED <<qid, kind, stage, id, conn, resCh, answerVars, chanVars, netVars>>

\* Without a connection the call fails and leaves its entry in reqMap.
GetWs(k) ==
    /\ pc[k] = "getws"
    /\ conn' = [conn EXCEPT ![k] = ws]
    /\ pc' = [pc EXCEPT ![k] = IF ws = NoConn THEN "nows" ELSE "send"]
    /\ UNCHANGED <<qid, kind, stage, id, reqMap, resCh, answerVars, chanVars, netVars>>

\* ws.Send on the connection the call got, which may be closed or replaced
\* by now; a write to an open connection may fail too, or take for ever.
Send(k) ==
    /\ pc[k] = "send"
    /\ \/ /\ up[conn[k]]
          /\ msg' = [msg EXCEPT ![Req(k)] = "atNode"]
          /\ via' = [via EXCEPT ![Req(k)] = conn[k]]
          /\ pc' = [pc EXCEPT ![k] = "wait"]
       \/ /\ pc' = [pc EXCEPT ![k] = "unreg"]
          /\ UNCHANGED <<msg, via>>
    /\ conn' = [conn EXCEPT ![k] = NoConn]
    /\ UNCHANGED <<qid, kind, stage, id, reqMap, resCh, held, chanVars, netVars>>

\* Mutated form: the error path of Send forgets delReq.
UnregKeepsEntry(k) ==
    /\ pc[k] = "unreg"
    /\ pc' = [pc EXCEPT ![k] = "fail"]
    /\ UNCHANGED <<qid, kind, stage, id, conn, reqMap, resCh, answerVars, chanVars, netVars>>

\* delReq after a failed Send.
Unreg(k) ==
    /\ pc[k] = "unreg"
    /\ reqMap' = [reqMap EXCEPT ![id[k]] = NoReq]
    /\ pc' = [pc EXCEPT ![k] = "fail"]
    /\ UNCHANGED <<qid, kind, stage, id, conn, resCh, answerVars, chanVars, netVars>>

\* The answer is taken from ResCh.  An error code, or a height that does not
\* parse, fails the call; getCurrentBlockHash goes on with its second
\* request, under the same identifier.
Receive(k) ==
    /\ pc[k] = "wait"
    /\ resCh[Req(k)] # NoReq
    /\ resCh' = [resCh EXCEPT ![Req(k)] = NoReq]
    /\ \/ /\ pc' = [pc EXCEPT ![k] = "fail"]
          /\ UNCHANGED stage
       \/ /\ kind[k] = "two" /\ stage[k] = 1
          /\ stage' = [stage EXCEPT ![k] = 2]
          /\ pc' = [pc EXCEPT ![k] = "add"]
       \/ /\ ~(kind[k] = "two" /\ stage[k] = 1)
          /\ pc' = [pc EXCEPT ![k] = "ok"]
          /\ UNCHANGED stage
    /\ UNCHANGED <<qid, kind, id, conn, reqMap, answerVars, chanVars, netVars>>

\* Mutated form: the timer only fires while the connection is open.
TimeoutOnlyUp(k) ==
    /\ pc[k] = "wait"
    /\ ws # NoConn
    /\ pc' = [pc EXCEPT ![k] = "timeout"]
    /\ UNCHANGED <<qid, kind, stage, id, conn, reqMap, resCh, answerVars, chanVars, netVars>>

\* Mutated form: the timer's case returns no error.
TimeoutNoError(k) ==
    /\ pc[k] = "wait"
    /\ pc' = [pc EXCEPT ![k] = "ok"]
    /\ UNCHANGED <<qid, kind, stage, id, conn, reqMap, resCh, answerVars, chanVars, netVars>>

\* The timer fires, possibly with the answer already in ResCh; the entry
\* stays in reqMap.
Timeout(k) ==
    /\ pc[k] = "wait"
    /\ pc' = [pc EXCEPT ![k] = "timeout"]
    /\ UNCHANGED <<qid, kind, stage, id, conn, reqMap, resCh, answerVars, chanVars, netVars>>

-----------------------------------------------------------------------------
(* The node and doRecv, one reader per connection. *)

\* The reader of a connection holds one message at a time.
Reading(g) == \E m \in Messages : msg[m] = "read" /\ via[m] = g

\* The node answers a request once, on the connection the request came by.
Answer(r) ==
    /\ msg[r] = "atNode"
    /\ up[via[r]] /\ ~Reading(via[r])
    /\ msg' = [msg EXCEPT ![r] = "read"]
    /\ UNCHANGED <<callVars, reqMap, resCh, via, held, chanVars, netVars>>

PushEvent(e) ==
    /\ msg[e] = "none"
    /\ \E g \in Conns :
          /\ up[g] /\ ~Reading(g)
          /\ via' = [via EXCEPT ![e] = g]
    /\ msg' = [msg EXCEPT ![e] = "read"]
    /\ UNCHANGED <<callVars, reqMap, resCh, held, chanVars, netVars>>

\* Mutated form: recvCh takes any number of messages.
OnMessageUnbounded(m) ==
    /\ msg[m] = "read"
    /\ recvCh' = Append(recvCh, m)
    /\ msg' = [msg EXCEPT ![m] = "queued"]
    /\ via' = [via EXCEPT ![m] = NoConn]
    /\ UNCHANGED <<callVars, reqMap, resCh, held, actionCh, loop, exit, netVars>>

\* onMessage: the reader waits for room in recvCh.
OnMessage(m) ==
    /\ msg[m] = "read"
    /\ Len(recvCh) < RecvChSize
    /\ recvCh' = Append(recvCh, m)
    /\ msg' = [msg EXCEPT ![m] = "queued"]
    /\ via' = [via EXCEPT ![m] = NoConn]
    /\ UNCHANGED <<callVars, reqMap, resCh, held, actionCh, loop, exit, netVars>>

\* onMessage gives up once exitCh is closed; a connection that reconnect has
\* closed has no OnMessage any more.
DropMessage(m) ==
    /\ msg[m] = "read"
    /\ exit \/ ~up[via[m]]
    /\ msg' = [msg EXCEPT ![m] = "lost"]
    /\ via' = [via EXCEPT ![m] = NoConn]
    /\ UNCHANGED <<callVars, reqMap, resCh, held, chanVars, netVars>>

-----------------------------------------------------------------------------
(* The loop of start(). *)

\* Mutated form: onAction is called in the loop and not in a goroutine, so
\* that a message is taken only when no earlier one is still being handled.
LoopTakesInline ==
    /\ loop /\ recvCh # <<>>
    /\ \A m \in Messages : msg[m] \notin {"get", "put", "del"}

LoopTakes == loop /\ recvCh # <<>>

\* A goroutine for the next message: an event has no identifier and goes to
\* its handler, an answer is looked up in reqMap.
Dispatch ==
    /\ LoopTakes
    /\ recvCh' = Tail(recvCh)
    /\ msg' = [msg EXCEPT ![Head(recvCh)] = IF Head(recvCh) \in Events THEN "put" ELSE "get"]
    /\ UNCHANGED <<callVars, reqMap, resCh, via, held, actionCh, loop, exit, netVars>>

\* A message that does not parse is reported and dropped: the JSON of an
\* answer here, the payload or action of an event in its handler.
Malformed ==
    /\ LoopTakes
    /\ recvCh' = Tail(recvCh)
    /\ msg' = [msg EXCEPT ![Head(recvCh)] = "lost"]
    /\ UNCHANGED <<callVars, reqMap, resCh, via, held, actionCh, loop, exit, netVars>>

StopLoop ==
    /\ loop /\ exit
    /\ loop' = FALSE
    /\ UNCHANGED <<callVars, reqMap, resCh, answerVars, recvCh, actionCh, exit, netVars>>

-----------------------------------------------------------------------------
(* onAction, a goroutine per message. *)

GetReq(r) ==
    /\ msg[r] = "get"
    /\ held' = [held EXCEPT ![r] = reqMap[id[r[1]]]]
    /\ msg' = [msg EXCEPT ![r] = IF reqMap[id[r[1]]] = NoReq THEN "lost" ELSE "put"]
    /\ UNCHANGED <<callVars, reqMap, resCh, via, chanVars, netVars>>

\* Mutated form: ResCh has no buffer, so its reader must still be waiting.
CanPutUnbuffered(h) ==
    /\ resCh[h] = NoReq
    /\ pc[h[1]] = "wait"

\* ResCh has one place.
CanPut(h) == resCh[h] = NoReq

PutRes(r) ==
    /\ msg[r] = "put"
    /\ CanPut(held[r])
    /\ resCh' = [resCh EXCEPT ![held[r]] = r]
    /\ msg' = [msg EXCEPT ![r] = "del"]
    /\ UNCHANGED <<callVars, reqMap, via, held, chanVars, netVars>>

\* The select on exitCh returns before delReq.
PutExit(r) ==
    /\ msg[r] = "put"
    /\ exit
    /\ msg' = [msg EXCEPT ![r] = "lost"]
    /\ held' = [held EXCEPT ![r] = NoReq]
    /\ UNCHANGED <<callVars, reqMap, resCh, via, chanVars, netVars>>

\* Mutated form: the whole table is cleared.
DelReqClears(r) ==
    /\ msg[r] = "del"
    /\ reqMap' = [i \in Ids |-> NoReq]
    /\ msg' = [msg EXCEPT ![r] = "done"]
    /\ held' = [held EXCEPT ![r] = NoReq]
    /\ UNCHANGED <<callVars, resCh, via, chanVars, netVars>>

\* delReq deletes by identifier, whatever request is registered there now.
DelReq(r) ==
    /\ msg[r] = "del"
    /\ reqMap' = [reqMap EXCEPT ![id[r[1]]] = NoReq]
    /\ msg' = [msg EXCEPT ![r] = "done"]
    /\ held' = [held EXCEPT ![r] = NoReq]
    /\ UNCHANGED <<callVars, resCh, via, chanVars, netVars>>

\* onRawBlockAction and its siblings: wait for room in actionCh.
PutEvent(e) ==
    /\ msg[e] = "put"
    /\ Len(actionCh) < ActionChSize
    /\ actionCh' = Append(actionCh, e)
    /\ msg' = [msg EXCEPT ![e] = "inApp"]
    /\ UNCHANGED <<callVars, reqMap, resCh, via, held, recvCh, loop, exit, netVars>>

DropEvent(e) ==
    /\ msg[e] = "put"
    /\ exit
    /\ msg' = [msg EXCEPT ![e] = "lost"]
    /\ UNCHANGED <<callVars, reqMap, resCh, via, held, chanVars, netVars>>

\* The application reads actionCh, or never does.
TakeEvent ==
    /\ actionCh # <<>>
    /\ actionCh' = Tail(actionCh)
    /\ msg' = [msg EXCEPT ![Head(actionCh)] = "done"]
    /\ UNCHANGED <<callVars, reqMap, resCh, via, held, recvCh, loop, exit, netVars>>

-----------------------------------------------------------------------------
(* The connection: what Connect, reconnect, doRecv's deferred Close and      *)
(* Close do to the state above, in any order.                                *)

Dial ==
    /\ dialled < MaxConns
    /\ dialled' = dialled + 1
    /\ up' = [up EXCEPT ![dialled + 1] = TRUE]
    /\ UNCHANGED <<callVars, reqMap, resCh, answerVars, chanVars, ws>>

SetWs(g) ==
    /\ g \in 1..dialled \/ g = NoConn
    /\ ws # g
    /\ ws' = g
    /\ UNCHANGED <<callVars, reqMap, resCh, answerVars, chanVars, up, dialled>>

Down(g) ==
    /\ up[g]
    /\ up' = [up EXCEPT ![g] = FALSE]
    /\ UNCHANGED <<callVars, reqMap, resCh, answerVars, chanVars, ws, dialled>>

\* Close closes exitCh, then the connection by Down.
Close ==
    /\ ~exit
    /\ exit' = TRUE
    /\ UNCHANGED <<callVars, reqMap, resCh, answerVars, recvCh, actionCh, loop, netVars>>

-----------------------------------------------------------------------------
CallStep(k) == \/ AddReq(k) \/ GetWs(k) \/ Send(k) \/ Unreg(k)
               \/ Receive(k) \/ Timeout(k)
ReaderStep(m) == OnMessage(m) \/ DropMessage(m)
LoopStep == Dispatch \/ Malformed \/ StopLoop
AnswerStep(r) == GetReq(r) \/ PutRes(r) \/ PutExit(r) \/ DelReq(r)
EventStep(e) == PutEvent(e) \/ DropEvent(e)
Environment ==
    \/ Dial \/ Close \/ TakeEvent
    \/ \E g \in Conns \cup {NoConn} : SetWs(g)
    \/ \E g \in Conns : Down(g)
    \/ \E e \in Events : PushEvent(e)

Next ==
    \/ \E k \in Calls : StartCall(k) \/ StartOwn(k) \/ CallStep(k)
    \/ \E m \in Messages : ReaderStep(m)
    \/ \E r \in Reqs : Answer(r) \/ AnswerStep(r)
    \/ \E e \in Events : EventStep(e)
    \/ LoopStep
    \/ Environment

\* Every goroutine of the client is scheduled; the application, the node and
\* the network owe nothing.  Send has no fairness: WriteMessage has no deadline
\* (websocket.go:77) and may never return.
Fairness ==
    /\ \A k \in Calls : WF_vars(pc[k] # "send" /\ CallStep(k))
    /\ \A m \in Messages : WF_vars(ReaderStep(m))
    /\ \A r \in Reqs : WF_vars(AnswerStep(r))
    /\ \A e \in Events : WF_vars(EventStep(e))
    /\ WF_vars(LoopStep)

Spec == Init /\ [][Next]_vars
FairSpec == Spec /\ Fairness

-----------------------------------------------------------------------------
(* Properties. *)

TypeOK ==
    /\ qid \in 0..MaxCalls
    /\ pc \in [Calls -> PCs]
    /\ kind \in [Calls -> {"one", "two", "own"}]
    /\ stage \in [Calls -> {1, 2}]
    /\ id \in [Calls -> Ids \cup {NoId}]
    /\ conn \in [Calls -> Conns \cup {NoConn}]
    /\ reqMap \in [Ids -> Reqs \cup {NoReq}]
    /\ resCh \in [Reqs -> Reqs \cup {NoReq}]
    /\ msg \in [Messages -> Phases]
    /\ via \in [Messages -> Conns \cup {NoConn}]
    /\ held \in [Reqs -> Reqs \cup {NoReq}]
    /\ recvCh \in Seq(Messages) /\ Len(recvCh) <= RecvChSize
    /\ actionCh \in Seq(Events) /\ Len(actionCh) <= ActionChSize
    /\ loop \in BOOLEAN /\ exit \in BOOLEAN
    /\ ws \in Conns \cup {NoConn}
    /\ up \in [Conns -> BOOLEAN]
    /\ dialled \in 0..MaxConns

Started(k) == pc[k] # "new"

\* No request of the client's own has met the identifier of call k: a random
\* identifier may meet a qid or another random one.
Unshared(k) ==
    \A j \in Calls \ {k} :
        Started(j) /\ "own" \in {kind[j], kind[k]} => id[j] # id[k]

\* A caller never finds another request's answer in its ResCh, however
\* late answers, timeouts and reconnections interleave (onAction, ws.go:350-359).
OwnAnswer ==
    \A r \in Reqs : Unshared(r[1]) /\ resCh[r] # NoReq => resCh[r] = r

Reachable(r) == reqMap[id[r[1]]] = r \/ resCh[r] # NoReq \/ held[r] = r

\* The answer to a first request that is still awaited can reach its caller:
\* the entry is in reqMap, or an onAction goroutine has already found it, or
\* the answer is in ResCh.  Nobody else's delReq removes the entry.
FirstReachable ==
    \A k \in Calls : pc[k] = "wait" /\ stage[k] = 1 /\ Unshared(k) => Reachable(Req(k))

\* The same for both requests of getCurrentBlockHash, as its callers need it.
EveryReachable ==
    \A k \in Calls : pc[k] = "wait" /\ Unshared(k) => Reachable(Req(k))

\* onAction never waits for room in ResCh: a caller that timed out does not
\* leave a goroutine behind, blocked for ever on the answer (ws.go:354-358).
DispatcherNeverBlocked ==
    \A r \in Reqs : msg[r] = "put" /\ Unshared(r[1]) => CanPut(held[r])

\* A call that returned with its answer or with a send error leaves no entry
\* in reqMap once the goroutine of its answer is through delReq.  (A call
\* that times out or finds no connection does leave one.)
NothingLeftBehind ==
    \A k \in Calls :
        /\ pc[k] \in {"ok", "fail"}
        /\ Unshared(k)
        /\ \A s \in {1, 2} : msg[<<k, s>>] # "del"
        => reqMap[id[k]] = NoReq

\* Every call returns, whatever the node, the network and the application do,
\* but one whose write hangs for ever: the timer starts after it (ws.go:693-697).
CallReturns ==
    \A k \in Calls : pc[k] # "new" ~> pc[k] \in Returned \/ [](pc[k] = "send")

\* Answers do not wait behind events: an application that never reads
\* actionCh does not keep an answer the reader has received from its caller
\* (the goroutine per message of start, ws.go:298).
AnswersOvertakeEvents ==
    \A r \in Reqs :
        msg[r] = "read" ~> msg[r] \in {"done", "lost"} \/ ~loop \/ ~Unshared(r[1])
=============================================================================
