---------------------------- MODULE WSConnection ----------------------------
(***************************************************************************)
(* The connection of the web socket client: WSClient.Connect, reconnect    *)
(* and Close (client/ws.go), over WebSocketClient (utils/websocket.go),    *)
(* whose goroutine doRecv reads until an error and then closes.            *)
(* Application threads call Connect and Close; the loop start() gives each *)
(* reconnect a goroutine when nothing has been received for                *)
(* heartbeatTimeout seconds.  Time is left out: silence may be found at    *)
(* any tick.                                                               *)
(***************************************************************************)
EXTENDS Integers, FiniteSets

CONSTANTS
    Users,        \* application threads that call Connect
    Reconnects,   \* goroutines of reconnect
    Closers,      \* application threads that call Close, once each
    MaxConns,     \* bound: connections established
    Traffic       \* bound: connections that are written to and bring messages

ASSUME ThreadsAssumption ==
    /\ Users \cap Reconnects = {}
    /\ (Users \cup Reconnects) \cap Closers = {}
    /\ MaxConns \in Nat \ {0}
    /\ Traffic \subseteq 1..MaxConns

PCs == {"idle", "check", "dial", "set", "get", "unset", "close", "unhook",
        "getws", "closews", "closed"}

Connectors == Users \cup Reconnects
Threads == Connectors \cup Closers
Conns == 1..MaxConns
NoConn == 0

VARIABLES
    addr,         \* an address has been given to Connect
    ws,           \* WSClient.ws
    exit,         \* exitCh is closed
    loop,         \* the goroutine of start() is alive
    pc,           \* pc[t]: where thread t stands
    mine,         \* mine[t]: t's local variable ws
    established,  \* connections established so far
    status,       \* status[g]: WebSocketClient.status
    wire,         \* wire[g]: the network connection is up
    hook,         \* hook[g]: OnMessage is not nil
    reader,       \* reader[g]: where doRecv of g stands
    writing,      \* writing[g]: a Send is in WriteMessage, with g's lock
    panicked,
    overlapped,   \* history: connectors at work that have met another at work
    had           \* history: WSClient.ws when Close was called

clientVars == <<addr, ws, exit, loop>>
threadVars == <<pc, mine>>
connVars == <<established, status, wire, hook, reader, writing>>
vars == <<clientVars, threadVars, connVars, panicked, overlapped, had>>

Init ==
    /\ addr = FALSE /\ ws = NoConn /\ exit = FALSE /\ loop = TRUE
    /\ pc = [t \in Threads |-> "idle"]
    /\ mine = [t \in Threads |-> NoConn]
    /\ established = 0
    /\ status = [g \in Conns |-> FALSE]
    /\ wire = [g \in Conns |-> FALSE]
    /\ hook = [g \in Conns |-> FALSE]
    /\ reader = [g \in Conns |-> "none"]
    /\ writing = [g \in Conns |-> FALSE]
    /\ panicked = FALSE
    /\ overlapped = {} /\ had = NoConn

Goto(t, l) == pc' = [pc EXCEPT ![t] = l]

\* A reconnect that waits in Close, maybe behind a write, touches nothing.
Busy(t) == pc[t] \notin {"idle", "close"}

-----------------------------------------------------------------------------
(* Connect. *)

CallConnect(t) ==
    /\ t \in Users /\ pc[t] = "idle"
    /\ Goto(t, "check")
    /\ UNCHANGED <<clientVars, mine, connVars, panicked>>

\* Mutated form: a connection in use is not noticed.
CheckNothing(t) ==
    /\ pc[t] = "check"
    /\ IF t \in Reconnects /\ ~addr
       THEN Goto(t, "idle") /\ UNCHANGED addr
       ELSE Goto(t, "dial") /\ addr' = TRUE
    /\ UNCHANGED <<ws, exit, loop, mine, connVars, panicked>>

\* "already connect", or an address that is empty: reconnect before any Connect.
Check(t) ==
    /\ pc[t] = "check"
    /\ IF ws # NoConn \/ (t \in Reconnects /\ ~addr)
       THEN Goto(t, "idle") /\ UNCHANGED addr
       ELSE Goto(t, "dial") /\ addr' = TRUE
    /\ UNCHANGED <<ws, exit, loop, mine, connVars, panicked>>

DialFails(t) ==
    /\ pc[t] = "dial"
    /\ Goto(t, "idle")
    /\ UNCHANGED <<clientVars, mine, connVars, panicked>>

\* Mutated form: the WebSocketClient of the first connection is used again.
EstablishedAgain(t) ==
    /\ pc[t] = "dial"
    /\ established' = 1
    /\ status' = [status EXCEPT ![1] = TRUE]
    /\ wire' = [wire EXCEPT ![1] = TRUE]
    /\ hook' = [hook EXCEPT ![1] = TRUE]
    /\ reader' = [reader EXCEPT ![1] = "read"]
    /\ mine' = [mine EXCEPT ![t] = 1]
    /\ Goto(t, "set")
    /\ UNCHANGED <<clientVars, writing, panicked>>

\* The dial succeeds and OnConnect has run: status is set and doRecv started.
Established(t) ==
    /\ pc[t] = "dial"
    /\ established < MaxConns
    /\ established' = established + 1
    /\ status' = [status EXCEPT ![established'] = TRUE]
    /\ wire' = [wire EXCEPT ![established'] = TRUE]
    /\ hook' = [hook EXCEPT ![established'] = TRUE]
    /\ reader' = [reader EXCEPT ![established'] = "read"]
    /\ mine' = [mine EXCEPT ![t] = established']
    /\ Goto(t, "set")
    /\ UNCHANGED <<clientVars, writing, panicked>>

\* Mutated form: the new connection is not stored.
SetNothing(t) ==
    /\ pc[t] = "set"
    /\ mine' = [mine EXCEPT ![t] = NoConn]
    /\ Goto(t, "idle")
    /\ UNCHANGED <<clientVars, connVars, panicked>>

Set(t) ==
    /\ pc[t] = "set"
    /\ ws' = mine[t]
    /\ mine' = [mine EXCEPT ![t] = NoConn]
    /\ Goto(t, "idle")
    /\ UNCHANGED <<addr, exit, loop, connVars, panicked>>

-----------------------------------------------------------------------------
(* reconnect. *)

\* A tick of the heartbeat timer finds the silence too long.
StartReconnect(t) ==
    /\ t \in Reconnects /\ pc[t] = "idle"
    /\ loop
    /\ Goto(t, "get")
    /\ UNCHANGED <<clientVars, mine, connVars, panicked>>

\* Mutated form: the test for nil is missing.
GetOldBlind(t) ==
    /\ pc[t] = "get"
    /\ mine' = [mine EXCEPT ![t] = ws]
    /\ Goto(t, "unset")
    /\ UNCHANGED <<clientVars, connVars, panicked>>

GetOld(t) ==
    /\ pc[t] = "get"
    /\ mine' = [mine EXCEPT ![t] = ws]
    /\ Goto(t, IF ws = NoConn THEN "check" ELSE "unset")
    /\ UNCHANGED <<clientVars, connVars, panicked>>

Unset(t) ==
    /\ pc[t] = "unset"
    /\ ws' = NoConn
    /\ Goto(t, "close")
    /\ UNCHANGED <<addr, exit, loop, mine, connVars, panicked>>

\* Somebody waits for the lock of g to close it.
Closing(g) ==
    \/ \E t \in Threads : pc[t] \in {"close", "closews"} /\ mine[t] = g
    \/ reader[g] = "close"

\* Send takes the lock for reading, so that several may be in WriteMessage; a
\* Close that waits lets no other in.
StartWrite(g) ==
    /\ g \in Traffic
    /\ status[g] /\ ~writing[g] /\ ~Closing(g)
    /\ writing' = [writing EXCEPT ![g] = TRUE]
    /\ UNCHANGED <<clientVars, threadVars, established, status, wire, hook, reader, panicked>>

\* The last of them returns; nobody knows when, if the node does not read.
EndWrite(g) ==
    /\ writing[g]
    /\ writing' = [writing EXCEPT ![g] = FALSE]
    /\ UNCHANGED <<clientVars, threadVars, established, status, wire, hook, reader, panicked>>

\* WebSocketClient.Close of connection g, which waits for the lock and does
\* nothing a second time.
CloseConn(g) ==
    /\ ~writing[g]
    /\ status' = [status EXCEPT ![g] = FALSE]
    /\ wire' = [wire EXCEPT ![g] = IF status[g] THEN FALSE ELSE @]

\* Mutated form: the old connection is left to itself.
CloseOldNot(t) ==
    /\ pc[t] = "close"
    /\ Goto(t, "unhook")
    /\ UNCHANGED <<clientVars, mine, connVars, panicked>>

CloseOld(t) ==
    /\ pc[t] = "close"
    /\ CloseConn(mine[t])
    /\ Goto(t, "unhook")
    /\ UNCHANGED <<clientVars, mine, established, hook, reader, writing, panicked>>

\* ws.OnMessage = nil
Unhook(t) ==
    /\ pc[t] = "unhook"
    /\ hook' = [hook EXCEPT ![mine[t]] = FALSE]
    /\ mine' = [mine EXCEPT ![t] = NoConn]
    /\ Goto(t, "check")
    /\ UNCHANGED <<clientVars, established, status, wire, reader, writing, panicked>>

-----------------------------------------------------------------------------
(* doRecv of connection g. *)

\* ReadMessage returns a message or, when the connection is down, an error.
Read(g) ==
    /\ reader[g] = "read"
    /\ \/ wire[g] /\ g \in Traffic /\ reader' = [reader EXCEPT ![g] = "check"]
       \/ ~wire[g] /\ reader' = [reader EXCEPT ![g] = "close"]
    /\ UNCHANGED <<clientVars, threadVars, established, status, wire, hook, writing, panicked>>

\* if this.OnMessage != nil
CheckHook(g) ==
    /\ reader[g] = "check"
    /\ reader' = [reader EXCEPT ![g] = IF hook[g] THEN "call" ELSE "read"]
    /\ UNCHANGED <<clientVars, threadVars, established, status, wire, hook, writing, panicked>>

\* this.OnMessage(data): the field is read again.
CallHook(g) ==
    /\ reader[g] = "call"
    /\ panicked' = ~hook[g]
    /\ reader' = [reader EXCEPT ![g] = "read"]
    /\ UNCHANGED <<clientVars, threadVars, established, status, wire, hook, writing>>

\* The deferred Close.
ReaderCloses(g) ==
    /\ reader[g] = "close"
    /\ CloseConn(g)
    /\ reader' = [reader EXCEPT ![g] = "done"]
    /\ UNCHANGED <<clientVars, threadVars, established, hook, writing, panicked>>

\* The network or the node breaks the connection.
Break(g) ==
    /\ wire[g]
    /\ wire' = [wire EXCEPT ![g] = FALSE]
    /\ UNCHANGED <<clientVars, threadVars, established, status, hook, reader, writing, panicked>>

-----------------------------------------------------------------------------
(* Close. *)

\* close(this.exitCh), which panics when it is closed already.
CallClose(t) ==
    /\ t \in Closers /\ pc[t] = "idle"
    /\ exit' = TRUE
    /\ panicked' = exit
    /\ IF exit THEN UNCHANGED pc ELSE Goto(t, "getws")
    /\ UNCHANGED <<addr, ws, loop, mine, connVars>>

CloseGet(t) ==
    /\ pc[t] = "getws"
    /\ mine' = [mine EXCEPT ![t] = ws]
    /\ Goto(t, IF ws = NoConn THEN "closed" ELSE "closews")
    /\ UNCHANGED <<clientVars, connVars, panicked>>

\* Mutated form: a Close gives up on a connection that is being written.
CloseWsHasty(t) ==
    /\ pc[t] = "closews"
    /\ IF writing[mine[t]] THEN UNCHANGED <<status, wire>> ELSE CloseConn(mine[t])
    /\ mine' = [mine EXCEPT ![t] = NoConn]
    /\ Goto(t, "closed")
    /\ UNCHANGED <<clientVars, established, hook, reader, writing, panicked>>

CloseWs(t) ==
    /\ pc[t] = "closews"
    /\ CloseConn(mine[t])
    /\ mine' = [mine EXCEPT ![t] = NoConn]
    /\ Goto(t, "closed")
    /\ UNCHANGED <<clientVars, established, hook, reader, writing, panicked>>

StopLoop ==
    /\ loop /\ exit
    /\ loop' = FALSE
    /\ UNCHANGED <<addr, ws, exit, threadVars, connVars, panicked>>

-----------------------------------------------------------------------------
ConnectStep(t) == Check(t) \/ DialFails(t) \/ Established(t) \/ Set(t)
ReconnectStep(t) == GetOld(t) \/ Unset(t) \/ CloseOld(t) \/ Unhook(t)
ReaderStep(g) == Read(g) \/ CheckHook(g) \/ CallHook(g) \/ ReaderCloses(g)
CloseStep(t) == CloseGet(t) \/ CloseWs(t)

\* The history: a connector that meets another at work is overlapped until it
\* rests.
Remember ==
    /\ overlapped' = {t \in Connectors :
          Busy(t)' /\ (t \in overlapped \/ \E u \in Connectors \ {t} : Busy(u)')}
    /\ had' = IF exit' /\ ~exit THEN ws ELSE had

\* A panic in a goroutine ends the process.
Dead == panicked /\ UNCHANGED vars

Next ==
    \/ /\ ~panicked
       /\ \/ \E t \in Connectors : \/ CallConnect(t) \/ StartReconnect(t)
                                    \/ ConnectStep(t) \/ ReconnectStep(t)
          \/ \E t \in Closers : CallClose(t) \/ CloseStep(t)
          \/ \E g \in Conns : ReaderStep(g) \/ Break(g) \/ StartWrite(g) \/ EndWrite(g)
          \/ StopLoop
       /\ Remember
    \/ Dead

Connected == ws # NoConn /\ wire[ws]

\* No connection can bring a message: each of them is lost.
Silent == \A g \in Conns : ~wire[g]

\* Every goroutine is scheduled, and the timer fires when nothing can be
\* received any more (any message of any connection sets it back).  Of the
\* environment one thing is asked: a node that reconnect dials again and again
\* answers at last.  A write may hang for ever.
Fairness ==
    /\ \A t \in Connectors : WF_vars(~panicked /\ (ConnectStep(t) \/ ReconnectStep(t)) /\ Remember)
    /\ \A t \in Reconnects :
          /\ SF_vars(~panicked /\ Established(t) /\ Remember)
          /\ WF_vars(~panicked /\ Silent /\ StartReconnect(t) /\ Remember)
    /\ \A g \in Conns : WF_vars(~panicked /\ ReaderStep(g) /\ Remember)

Spec == Init /\ [][Next]_vars
FairSpec == Spec /\ Fairness

-----------------------------------------------------------------------------
(* Properties. *)

HistoryOK == overlapped \subseteq Connectors /\ had \in Conns \cup {NoConn}

\* Besides the types: a thread has a connection in hand just where it is
\* going to use one.
TypeOK ==
    /\ {addr, exit, loop, panicked} \subseteq BOOLEAN
    /\ ws \in Conns \cup {NoConn}
    /\ pc \in [Threads -> PCs]
    /\ mine \in [Threads -> Conns \cup {NoConn}]
    /\ \A t \in Threads :
          mine[t] # NoConn <=> pc[t] \in {"set", "unset", "close", "unhook", "closews"}
    /\ established \in 0..MaxConns
    /\ status \in [Conns -> BOOLEAN] /\ wire \in [Conns -> BOOLEAN] /\ hook \in [Conns -> BOOLEAN]
    /\ reader \in [Conns -> {"none", "read", "check", "call", "close", "done"}]
    /\ writing \in [Conns -> BOOLEAN] /\ \A g \in Conns : writing[g] => status[g]
    /\ HistoryOK

\* A connection in use is not replaced before it is taken out of use: Connect
\* refuses a client that "has already connect" (ws.go:124-126).
NeverReplaced == [][ws # NoConn => ws' \in {ws, NoConn}]_vars

\* A reconnect is about to close g.
InHand(g) == \E t \in Connectors : mine[t] = g /\ pc[t] \in {"unset", "close"}

\* The open connections nobody will close: neither in WSClient.ws nor about
\* to be put there or closed.
Forgotten ==
    {g \in Conns : /\ status[g] /\ ws # g /\ ~InHand(g)
                    /\ ~\E t \in Connectors : mine[t] = g /\ pc[t] = "set"}

\* An open connection is forgotten only by a Connect or reconnect whose work
\* another's has overlapped; one that runs by itself loses none, whatever
\* overlaps went before it and however many wait to close theirs (Connect,
\* reconnect).
OnlyOverlapForgets ==
    [][Forgotten' \subseteq Forgotten \/ \E t \in overlapped : pc'[t] # pc[t]]_vars

\* When Close has returned, the connection the client had when it was called is
\* closed, though a reconnect may have come between: that one is then about to
\* close it, and only an overlap leaves it open.
CloseReaches ==
    (\E t \in Closers : pc[t] = "closed") /\ had # NoConn /\ status[had] =>
        InHand(had) \/ had \in Forgotten

\* A message of an open connection finds OnMessage: reconnect sets it to nil
\* only after the connection is closed, however long a write has kept it open,
\* so that nothing is dropped or dies of the nil (websocket.go:90-91) but the
\* reader of a connection that is given up.
OpenIsHooked == \A g \in Conns : status[g] => hook[g]

\* The bounds are used up: every connection they allow has been established
\* and lost, or every goroutine they give reconnect waits behind a write.
Exhausted ==
    \/ established = MaxConns /\ Silent
    \/ \A t \in Reconnects : pc[t] = "close" /\ writing[mine[t]]

\* A client that has lost its connections gets a new one into WSClient.ws,
\* unless it is closed or dies of the nil OnMessage in CallHook: the timer and
\* reconnect see to it, a Connect of the application beside them or not.
Recovers == addr /\ Silent ~> Connected \/ exit \/ panicked \/ Exhausted

\* What the requests take for granted of the connection: WSRequests lets it
\* be dialled, installed, removed and lost in any order, and this module does
\* nothing else.
Requests == INSTANCE WSRequests WITH
    MaxCalls <- 1, MaxEvents <- 0, RandIds <- {7}, RecvChSize <- 1, ActionChSize <- 1,
    qid <- 0, pc <- <<"new">>, kind <- <<"one">>, stage <- <<1>>, id <- <<0>>, conn <- <<NoConn>>,
    reqMap <- [i \in {1, 7} |-> <<0, 0>>],
    resCh <- [r \in {1} \X {1, 2} |-> <<0, 0>>],
    msg <- [r \in {1} \X {1, 2} |-> "none"],
    via <- [r \in {1} \X {1, 2} |-> NoConn],
    held <- [r \in {1} \X {1, 2} |-> <<0, 0>>],
    recvCh <- <<>>, actionCh <- <<>>,
    up <- status, dialled <- established
ImplementsRequests == Requests!Spec
=============================================================================
