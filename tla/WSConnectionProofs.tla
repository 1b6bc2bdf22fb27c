-------------------------- MODULE WSConnectionProofs --------------------------
(***************************************************************************)
(* Proofs about the connection of the web socket client, for any number of *)
(* threads and connections and any overlap of Connects, reconnects and     *)
(* Closes.                                                                 *)
(***************************************************************************)
EXTENDS WSConnection, FiniteSetTheorems, TLAPS

-----------------------------------------------------------------------------
(* Types. *)

LEMMA ConnsOK ==
    /\ MaxConns \in Nat /\ Conns \subseteq Nat \ {0}
    /\ NoConn \notin Conns /\ NoConn \in Nat
    /\ Users \subseteq Connectors /\ Reconnects \subseteq Connectors
    /\ Connectors \subseteq Threads /\ Closers \subseteq Threads
    /\ Connectors \cap Closers = {} /\ Threads = Connectors \cup Closers
<1>1. MaxConns \in Nat /\ Conns \subseteq Nat \ {0} /\ NoConn \notin Conns /\ NoConn \in Nat
  BY ThreadsAssumption DEF Conns, NoConn
<1>2. /\ Users \subseteq Connectors /\ Reconnects \subseteq Connectors
      /\ Connectors \subseteq Threads /\ Closers \subseteq Threads
      /\ Connectors \cap Closers = {} /\ Threads = Connectors \cup Closers
  BY ThreadsAssumption DEF Connectors, Threads
<1> QED BY <1>1, <1>2

LEMMA TypeInit == Init => TypeOK
<1> SUFFICES ASSUME Init PROVE TypeOK
  OBVIOUS
<1>1. {addr, exit, loop, panicked} \subseteq BOOLEAN
  BY DEF Init
<1>2. pc \in [Threads -> PCs] /\ mine \in [Threads -> Conns \cup {NoConn}]
  BY DEF Init, PCs
<1>3. ws \in Conns \cup {NoConn} /\ established \in 0..MaxConns
  BY ConnsOK DEF Init
<1>4. /\ \A t \in Threads : mine[t] = NoConn /\ pc[t] = "idle"
      /\ \A g \in Conns : ~writing[g]
  BY DEF Init
<1>5. /\ status \in [Conns -> BOOLEAN] /\ wire \in [Conns -> BOOLEAN]
      /\ hook \in [Conns -> BOOLEAN] /\ writing \in [Conns -> BOOLEAN]
      /\ reader \in [Conns -> {"none", "read", "check", "call", "close", "done"}]
  BY DEF Init
<1>6. HistoryOK
  BY ConnsOK DEF Init, HistoryOK
<1> QED BY <1>1, <1>2, <1>3, <1>4, <1>5, <1>6 DEF TypeOK

\* One step of each kind keeps the types.
LEMMA TypeStep == TypeOK /\ [Next]_vars => TypeOK'
<1> SUFFICES ASSUME TypeOK, [Next]_vars PROVE TypeOK'
  OBVIOUS
<1>0. HistoryOK'
  <2>1. CASE Remember
    <3>1. overlapped' \subseteq Connectors
      BY <2>1 DEF Remember
    <3>2. had' \in Conns \cup {NoConn}
      BY <2>1 DEF Remember, TypeOK, HistoryOK
    <3> QED BY <3>1, <3>2 DEF HistoryOK, Conns
  <2>2. CASE UNCHANGED vars
    BY <2>2 DEF vars, TypeOK, HistoryOK, Conns
  <2> QED BY <2>1, <2>2 DEF Next, Dead
<1> USE <1>0, ConnsOK DEF TypeOK, PCs, clientVars, threadVars, connVars, Goto
<1>1. ASSUME NEW t \in Connectors, CallConnect(t) \/ StartReconnect(t) PROVE TypeOK'
  BY <1>1 DEF CallConnect, StartReconnect
<1>2. ASSUME NEW t \in Connectors, Check(t) PROVE TypeOK'
  <2>1. CASE ws # NoConn \/ (t \in Reconnects /\ ~addr)
    BY <1>2, <2>1 DEF Check
  <2>2. CASE ~(ws # NoConn \/ (t \in Reconnects /\ ~addr))
    BY <1>2, <2>2 DEF Check
  <2> QED BY <2>1, <2>2
<1>3. ASSUME NEW t \in Connectors, DialFails(t) PROVE TypeOK'
  BY <1>3 DEF DialFails
<1>4. ASSUME NEW t \in Connectors, Established(t) PROVE TypeOK'
  <2>1. established' \in Conns /\ established' \in 0..MaxConns
    BY <1>4 DEF Established, Conns
  <2> QED BY <1>4, <2>1 DEF Established
<1>5. ASSUME NEW t \in Connectors, Set(t) PROVE TypeOK'
  BY <1>5 DEF Set
<1>6. ASSUME NEW t \in Connectors, GetOld(t) PROVE TypeOK'
  BY <1>6 DEF GetOld
<1>7. ASSUME NEW t \in Connectors, Unset(t) PROVE TypeOK'
  BY <1>7 DEF Unset
<1>8. ASSUME NEW t \in Connectors, CloseOld(t) PROVE TypeOK'
  BY <1>8 DEF CloseOld, CloseConn
<1>9. ASSUME NEW t \in Connectors, Unhook(t) PROVE TypeOK'
  BY <1>9 DEF Unhook
<1>10. ASSUME NEW t \in Closers, CallClose(t) PROVE TypeOK'
  BY <1>10 DEF CallClose
<1>11. ASSUME NEW t \in Closers, CloseGet(t) PROVE TypeOK'
  BY <1>11 DEF CloseGet
<1>12. ASSUME NEW t \in Closers, CloseWs(t) PROVE TypeOK'
  BY <1>12 DEF CloseWs, CloseConn
<1>13. ASSUME NEW g \in Conns, Read(g) \/ CheckHook(g) PROVE TypeOK'
  BY <1>13 DEF Read, CheckHook
<1>14. ASSUME NEW g \in Conns, CallHook(g) PROVE TypeOK'
  BY <1>14 DEF CallHook
<1>15. ASSUME NEW g \in Conns, ReaderCloses(g) PROVE TypeOK'
  BY <1>15 DEF ReaderCloses, CloseConn
<1>16. ASSUME NEW g \in Conns, Break(g) \/ StartWrite(g) \/ EndWrite(g) PROVE TypeOK'
  BY <1>16 DEF Break, StartWrite, EndWrite
<1>17. ASSUME StopLoop PROVE TypeOK'
  BY <1>17 DEF StopLoop
<1>18. CASE UNCHANGED vars
  BY <1>18 DEF vars
<1> QED BY <1>1, <1>2, <1>3, <1>4, <1>5, <1>6, <1>7, <1>8, <1>9, <1>10, <1>11, <1>12, <1>13,
           <1>14, <1>15, <1>16, <1>17, <1>18
        DEF Next, ConnectStep, ReconnectStep, ReaderStep, CloseStep, Dead

-----------------------------------------------------------------------------
(* Connections in hand are established ones. *)

\* Nothing refers to a connection that has yet to be established.
NothingAhead ==
    /\ ws <= established
    /\ \A t \in Threads : mine[t] <= established
    /\ \A g \in Conns : status[g] => g <= established

\* reconnect drops OnMessage only of a connection it has closed.
UnhookAfterClose ==
    \A t \in Connectors : pc[t] = "unhook" => ~status[mine[t]]

LooseInv == TypeOK /\ NothingAhead /\ UnhookAfterClose /\ OpenIsHooked

LEMMA LooseInit == Init => LooseInv
<1> SUFFICES ASSUME Init PROVE LooseInv
  OBVIOUS
<1>1. NothingAhead
  BY ConnsOK DEF Init, NothingAhead, NoConn
<1>2. UnhookAfterClose /\ OpenIsHooked
  BY ConnsOK DEF Init, UnhookAfterClose, OpenIsHooked
<1> QED BY <1>1, <1>2, TypeInit DEF LooseInv

\* A connection that is dialled anew is nobody's yet.
LEMMA Fresh ==
    ASSUME TypeOK, NothingAhead, NEW u \in Connectors, Established(u)
    PROVE  /\ established' \in Conns /\ established' = established + 1
           /\ ws # established' /\ ~status[established']
           /\ \A t \in Threads : mine[t] # established'
<1>1. established \in Nat /\ established' = established + 1 /\ established' \in Conns
  BY ConnsOK DEF TypeOK, Established, Conns
<1>2. ws \in Nat /\ \A t \in Threads : mine[t] \in Nat
  BY ConnsOK DEF TypeOK
<1> QED BY <1>1, <1>2, ConnsOK DEF NothingAhead

\* Which steps touch what: the connections in hand, their status and OnMessage.
LEMMA NothingAheadStep == TypeOK /\ NothingAhead /\ [Next]_vars => NothingAhead'
<1> SUFFICES ASSUME TypeOK, NothingAhead, [Next]_vars PROVE NothingAhead'
  OBVIOUS
<1>a. /\ established \in Nat /\ ws \in Nat
      /\ mine \in [Threads -> Conns \cup {NoConn}] /\ status \in [Conns -> BOOLEAN]
      /\ \A t \in Threads : mine[t] \in Nat
      /\ NoConn <= established
  <2>1. \A t \in Threads : mine[t] \in Nat
    BY ConnsOK DEF TypeOK
  <2>2. established \in Nat /\ ws \in Nat /\ NoConn <= established
    BY ConnsOK DEF TypeOK, NoConn
  <2> QED BY <2>1, <2>2 DEF TypeOK
<1> USE <1>a, ConnsOK DEF NothingAhead, clientVars, threadVars, connVars
<1>1. ASSUME NEW t \in Connectors,
             \/ CallConnect(t) \/ StartReconnect(t) \/ Check(t) \/ DialFails(t) \/ Set(t)
             \/ GetOld(t) \/ Unset(t) \/ Unhook(t)
      PROVE  NothingAhead'
  BY <1>1 DEF CallConnect, StartReconnect, Check, DialFails, Set, GetOld, Unset, Unhook
<1>2. ASSUME NEW t \in Connectors, CloseOld(t) PROVE NothingAhead'
  BY <1>2 DEF CloseOld, CloseConn
<1>3. ASSUME NEW u \in Connectors, Established(u) PROVE NothingAhead'
  BY <1>3, Fresh DEF Established
<1>4. ASSUME NEW t \in Closers, CallClose(t) \/ CloseGet(t) PROVE NothingAhead'
  BY <1>4 DEF CallClose, CloseGet
<1>5. ASSUME NEW t \in Closers, CloseWs(t) PROVE NothingAhead'
  BY <1>5 DEF CloseWs, CloseConn
<1>6. ASSUME NEW g \in Conns, ReaderStep(g) \/ Break(g) \/ StartWrite(g) \/ EndWrite(g)
      PROVE  NothingAhead'
  BY <1>6 DEF ReaderStep, Read, CheckHook, CallHook, ReaderCloses, CloseConn, Break,
              StartWrite, EndWrite
<1>7. CASE StopLoop \/ UNCHANGED vars
  BY <1>7 DEF StopLoop, vars
<1> QED BY <1>1, <1>2, <1>3, <1>4, <1>5, <1>6, <1>7
        DEF Next, ConnectStep, ReconnectStep, CloseStep, Dead

LEMMA UnhookStep ==
    TypeOK /\ NothingAhead /\ UnhookAfterClose /\ [Next]_vars => UnhookAfterClose'
<1> SUFFICES ASSUME TypeOK, NothingAhead, UnhookAfterClose, [Next]_vars PROVE UnhookAfterClose'
  OBVIOUS
<1>a. /\ pc \in [Threads -> PCs] /\ mine \in [Threads -> Conns \cup {NoConn}]
      /\ status \in [Conns -> BOOLEAN]
      /\ \A t \in Connectors : pc[t] = "unhook" => mine[t] \in Conns
  BY ConnsOK DEF TypeOK
<1> USE <1>a, ConnsOK DEF UnhookAfterClose, clientVars, threadVars, connVars, Goto
<1>1. ASSUME NEW t \in Connectors,
             CallConnect(t) \/ StartReconnect(t) \/ Check(t) \/ DialFails(t) \/ Set(t)
      PROVE  UnhookAfterClose'
  BY <1>1 DEF CallConnect, StartReconnect, Check, DialFails, Set
<1>2. ASSUME NEW t \in Connectors, GetOld(t) \/ Unset(t) \/ Unhook(t) PROVE UnhookAfterClose'
  BY <1>2 DEF GetOld, Unset, Unhook
<1>3. ASSUME NEW t \in Connectors, CloseOld(t) PROVE UnhookAfterClose'
  <2>1. mine[t] \in Conns
    BY <1>3 DEF CloseOld, TypeOK
  <2> QED BY <1>3, <2>1 DEF CloseOld, CloseConn
<1>4. ASSUME NEW u \in Connectors, Established(u) PROVE UnhookAfterClose'
  BY <1>4, Fresh DEF Established
<1>5. ASSUME NEW t \in Closers, CallClose(t) \/ CloseGet(t) PROVE UnhookAfterClose'
  BY <1>5 DEF CallClose, CloseGet
<1>6. ASSUME NEW t \in Closers, CloseWs(t) PROVE UnhookAfterClose'
  BY <1>6 DEF CloseWs, CloseConn
<1>7. ASSUME NEW g \in Conns, ReaderStep(g) \/ Break(g) \/ StartWrite(g) \/ EndWrite(g)
      PROVE  UnhookAfterClose'
  BY <1>7 DEF ReaderStep, Read, CheckHook, CallHook, ReaderCloses, CloseConn, Break,
              StartWrite, EndWrite
<1>8. CASE StopLoop \/ UNCHANGED vars
  BY <1>8 DEF StopLoop, vars
<1> QED BY <1>1, <1>2, <1>3, <1>4, <1>5, <1>6, <1>7, <1>8
        DEF Next, ConnectStep, ReconnectStep, CloseStep, Dead

LEMMA HookedStep == TypeOK /\ UnhookAfterClose /\ OpenIsHooked /\ [Next]_vars => OpenIsHooked'
<1> SUFFICES ASSUME TypeOK, UnhookAfterClose, OpenIsHooked, [Next]_vars PROVE OpenIsHooked'
  OBVIOUS
<1>a. status \in [Conns -> BOOLEAN] /\ hook \in [Conns -> BOOLEAN]
  BY DEF TypeOK
<1> USE <1>a, ConnsOK DEF OpenIsHooked, clientVars, threadVars, connVars
<1>1. ASSUME NEW t \in Connectors,
             \/ CallConnect(t) \/ StartReconnect(t) \/ Check(t) \/ DialFails(t) \/ Set(t)
             \/ GetOld(t) \/ Unset(t)
      PROVE  OpenIsHooked'
  BY <1>1 DEF CallConnect, StartReconnect, Check, DialFails, Set, GetOld, Unset
<1>2. ASSUME NEW t \in Connectors, CloseOld(t) PROVE OpenIsHooked'
  BY <1>2 DEF CloseOld, CloseConn
<1>3. ASSUME NEW t \in Connectors, Unhook(t) PROVE OpenIsHooked'
  BY <1>3 DEF Unhook, UnhookAfterClose
<1>4. ASSUME NEW u \in Connectors, Established(u) PROVE OpenIsHooked'
  BY <1>4 DEF Established
<1>5. ASSUME NEW t \in Closers, CallClose(t) \/ CloseStep(t) PROVE OpenIsHooked'
  BY <1>5 DEF CallClose, CloseStep, CloseGet, CloseWs, CloseConn
<1>6. ASSUME NEW g \in Conns, ReaderStep(g) \/ Break(g) \/ StartWrite(g) \/ EndWrite(g)
      PROVE  OpenIsHooked'
  BY <1>6 DEF ReaderStep, Read, CheckHook, CallHook, ReaderCloses, CloseConn, Break,
              StartWrite, EndWrite
<1>7. CASE StopLoop \/ UNCHANGED vars
  BY <1>7 DEF StopLoop, vars
<1> QED BY <1>1, <1>2, <1>3, <1>4, <1>5, <1>6, <1>7
        DEF Next, ConnectStep, ReconnectStep, Dead

LEMMA LooseStep == LooseInv /\ [Next]_vars => LooseInv'
BY TypeStep, NothingAheadStep, UnhookStep, HookedStep DEF LooseInv

LEMMA LooseInvariance == Spec => []LooseInv
BY LooseInit, LooseStep, PTL DEF Spec

\* Every variable keeps its type, and a thread has a connection in hand just
\* where it is going to use one.
THEOREM TypeCorrect == Spec => []TypeOK
BY LooseInvariance, PTL DEF LooseInv

\* A message of an open connection finds OnMessage, whatever Connects,
\* reconnects and Closes overlap (reconnect, doRecv).
THEOREM OpenIsHookedHolds == Spec => []OpenIsHooked
BY LooseInvariance, PTL DEF LooseInv

-----------------------------------------------------------------------------
(* A Connect or reconnect that no other overlaps. *)

\* The steps of threads and connections that leave a connector's hand, its
\* place and WSClient.ws as they are.
LEMMA NoHand ==
    ASSUME TypeOK,
           \/ \E t \in Closers : CallClose(t) \/ CloseStep(t)
           \/ \E g \in Conns : ReaderStep(g) \/ Break(g) \/ StartWrite(g) \/ EndWrite(g)
           \/ StopLoop
           \/ UNCHANGED vars
    PROVE  /\ ws' = ws
           /\ \A u \in Connectors : pc'[u] = pc[u] /\ mine'[u] = mine[u]
           /\ \A g \in Conns : status'[g] => status[g]
<1>a. /\ pc \in [Threads -> PCs] /\ mine \in [Threads -> Conns \cup {NoConn}]
      /\ status \in [Conns -> BOOLEAN]
  BY DEF TypeOK
<1> USE <1>a, ConnsOK DEF clientVars, threadVars, connVars, Goto
<1>1. ASSUME NEW t \in Closers, CallClose(t) \/ CloseGet(t)
      PROVE  /\ ws' = ws /\ status' = status
             /\ \A u \in Connectors : pc'[u] = pc[u] /\ mine'[u] = mine[u]
  BY <1>1 DEF CallClose, CloseGet
<1>2. ASSUME NEW t \in Closers, CloseWs(t)
      PROVE  /\ ws' = ws
             /\ \A u \in Connectors : pc'[u] = pc[u] /\ mine'[u] = mine[u]
             /\ \A g \in Conns : status'[g] => status[g]
  BY <1>2 DEF CloseWs, CloseConn
<1>3. ASSUME NEW g \in Conns, ReaderStep(g) \/ Break(g) \/ StartWrite(g) \/ EndWrite(g)
      PROVE  /\ ws' = ws /\ pc' = pc /\ mine' = mine
             /\ \A h \in Conns : status'[h] => status[h]
  BY <1>3 DEF ReaderStep, Read, CheckHook, CallHook, ReaderCloses, CloseConn, Break,
              StartWrite, EndWrite
<1>4. ASSUME StopLoop \/ UNCHANGED vars
      PROVE  ws' = ws /\ pc' = pc /\ mine' = mine /\ status' = status
  BY <1>4 DEF StopLoop, vars
<1> QED BY <1>1, <1>2, <1>3, <1>4 DEF CloseStep

\* It works alone, and WSClient.ws is as it has found it.
AloneInv ==
    \A t \in Connectors : Busy(t) /\ t \notin overlapped =>
        /\ \A u \in Connectors \ {t} : ~Busy(u)
        /\ pc[t] \in {"dial", "set"} => ws = NoConn
        /\ pc[t] = "unset" => ws = mine[t]

\* A step of a connector begins at work or begins work, and is seen in pc.
LEMMA ConnectorStep ==
    ASSUME TypeOK, NEW t \in Connectors,
           CallConnect(t) \/ StartReconnect(t) \/ ConnectStep(t) \/ ReconnectStep(t)
    PROVE  /\ Busy(t) \/ Busy(t)'
           /\ pc'[t] # pc[t]
           /\ \A u \in Threads \ {t} : pc'[u] = pc[u] /\ mine'[u] = mine[u]
           /\ exit' = exit
<1>a. pc \in [Threads -> PCs] /\ mine \in [Threads -> Conns \cup {NoConn}]
  BY DEF TypeOK
<1> USE <1>a, ConnsOK DEF clientVars, threadVars, connVars, Goto, Busy
<1>1. CASE CallConnect(t) \/ StartReconnect(t)
  BY <1>1 DEF CallConnect, StartReconnect
<1>2. CASE Check(t)
  BY <1>2 DEF Check
<1>3. CASE DialFails(t) \/ Established(t) \/ Set(t)
  BY <1>3 DEF DialFails, Established, Set
<1>4. CASE GetOld(t)
  BY <1>4 DEF GetOld
<1>5. CASE Unset(t) \/ CloseOld(t) \/ Unhook(t)
  BY <1>5 DEF Unset, CloseOld, Unhook
<1> QED BY <1>1, <1>2, <1>3, <1>4, <1>5 DEF ConnectStep, ReconnectStep

LEMMA AloneInit == Init => AloneInv
BY ConnsOK DEF Init, AloneInv, Busy

LEMMA AloneStep == TypeOK /\ AloneInv /\ [Next]_vars => AloneInv'
<1> SUFFICES ASSUME TypeOK, AloneInv, [Next]_vars,
                    NEW t \in Connectors, Busy(t)', t \notin overlapped'
             PROVE  /\ \A u \in Connectors \ {t} : ~Busy(u)'
                    /\ pc'[t] \in {"dial", "set"} => ws' = NoConn
                    /\ pc'[t] = "unset" => ws' = mine'[t]
  BY DEF AloneInv
<1>a. /\ pc \in [Threads -> PCs] /\ mine \in [Threads -> Conns \cup {NoConn}]
      /\ \A x \in Threads : pc[x] = "set" => mine[x] # NoConn
  BY DEF TypeOK
<1> USE <1>a, ConnsOK DEF clientVars, threadVars, connVars, Goto
<1>1. CASE Remember
  <2>1. t \notin overlapped /\ \A u \in Connectors \ {t} : ~Busy(u)'
    BY <1>1 DEF Remember
  <2>2. ASSUME Busy(t)
        PROVE  /\ \A u \in Connectors \ {t} : ~Busy(u)
               /\ pc[t] \in {"dial", "set"} => ws = NoConn
               /\ pc[t] = "unset" => ws = mine[t]
    BY <2>1, <2>2 DEF AloneInv
  \* A step of its own.
  <2>3. CASE CallConnect(t) \/ StartReconnect(t) \/ CloseOld(t) \/ Unhook(t)
    <3>1. pc'[t] \notin {"dial", "set", "unset"}
      BY <2>3 DEF CallConnect, StartReconnect, CloseOld, Unhook
    <3> QED BY <2>1, <3>1
  <2>4. CASE Check(t)
    <3>1. pc'[t] \in {"idle", "dial"} /\ (pc'[t] = "dial" => ws' = NoConn)
      BY <2>4 DEF Check
    <3> QED BY <2>1, <3>1
  <2>5. CASE DialFails(t) \/ Set(t) \/ Unset(t)
    <3>1. pc'[t] \notin {"dial", "set", "unset"}
      BY <2>5 DEF DialFails, Set, Unset
    <3> QED BY <2>1, <3>1
  <2>6. CASE Established(t)
    <3>1. pc[t] = "dial" /\ pc'[t] = "set" /\ ws' = ws
      BY <2>6 DEF Established
    <3>2. ws = NoConn
      BY <2>2, <3>1 DEF Busy
    <3> QED BY <2>1, <3>1, <3>2
  <2>7. CASE GetOld(t)
    <3>1. pc'[t] \in {"check", "unset"} /\ mine'[t] = ws /\ ws' = ws
      BY <2>7 DEF GetOld
    <3> QED BY <2>1, <3>1
  \* A step of another connector: the two would overlap.
  <2>8. ASSUME NEW u \in Connectors \ {t},
               CallConnect(u) \/ StartReconnect(u) \/ ConnectStep(u) \/ ReconnectStep(u)
        PROVE  FALSE
    <3>1. (Busy(u) \/ Busy(u)') /\ pc'[t] = pc[t]
      BY <2>8, ConnectorStep
    <3>2. Busy(t)
      BY <3>1 DEF Busy
    <3> QED BY <2>1, <2>2, <3>1, <3>2
  \* A step of nobody else.
  <2>9. CASE \/ \E c \in Closers : CallClose(c) \/ CloseStep(c)
             \/ \E g \in Conns : ReaderStep(g) \/ Break(g) \/ StartWrite(g) \/ EndWrite(g)
             \/ StopLoop
    <3>1. ws' = ws /\ pc'[t] = pc[t] /\ mine'[t] = mine[t]
      BY <2>9, NoHand
    <3>2. Busy(t)
      BY <3>1 DEF Busy
    <3> QED BY <2>1, <2>2, <3>1, <3>2
  <2>10. \/ \E u \in Connectors :
               CallConnect(u) \/ StartReconnect(u) \/ ConnectStep(u) \/ ReconnectStep(u)
         \/ \E c \in Closers : CallClose(c) \/ CloseStep(c)
         \/ \E g \in Conns : ReaderStep(g) \/ Break(g) \/ StartWrite(g) \/ EndWrite(g)
         \/ StopLoop
         \/ UNCHANGED vars
    BY DEF Next, Dead
  <2>11. CASE UNCHANGED vars
    <3>1. ws' = ws /\ pc' = pc /\ mine' = mine
      BY <2>11 DEF vars
    <3>2. Busy(t)
      BY <3>1 DEF Busy
    <3> QED BY <2>1, <2>2, <3>1, <3>2
  <2> QED BY <2>3, <2>4, <2>5, <2>6, <2>7, <2>8, <2>9, <2>10, <2>11 DEF ConnectStep, ReconnectStep
<1>2. CASE UNCHANGED vars
  <2>1. ws' = ws /\ pc' = pc /\ mine' = mine /\ overlapped' = overlapped
    BY <1>2 DEF vars
  <2> QED BY <2>1 DEF AloneInv, Busy
<1> QED BY <1>1, <1>2 DEF Next, Dead

\* What a step does to the connections nobody will close.
LEMMA ForgetStep ==
    TypeOK /\ AloneInv /\ [Next]_vars =>
        Forgotten' \subseteq Forgotten \/ \E t \in overlapped : pc'[t] # pc[t]
<1> SUFFICES ASSUME TypeOK, AloneInv, [Next]_vars, ~\E t \in overlapped : pc'[t] # pc[t],
                    NEW g \in Conns, g \in Forgotten'
             PROVE  g \in Forgotten
  BY DEF Forgotten
<1>a. /\ pc \in [Threads -> PCs] /\ mine \in [Threads -> Conns \cup {NoConn}]
      /\ status \in [Conns -> BOOLEAN]
  BY DEF TypeOK
<1>b. /\ status'[g] /\ ws' # g
      /\ \A t \in Connectors : mine'[t] = g => pc'[t] \notin {"set", "unset", "close"}
  BY DEF Forgotten, InHand
<1>c. SUFFICES /\ status[g] /\ ws # g
               /\ \A t \in Connectors : mine[t] = g => pc[t] \notin {"set", "unset", "close"}
  BY DEF Forgotten, InHand
<1> USE <1>a, <1>b, ConnsOK DEF clientVars, threadVars, connVars, Goto
<1>1. ASSUME NEW t \in Connectors,
             \/ CallConnect(t) \/ StartReconnect(t) \/ Check(t) \/ DialFails(t)
             \/ GetOld(t) \/ Unhook(t)
      PROVE  /\ status[g] /\ ws # g
             /\ \A u \in Connectors : mine[u] = g => pc[u] \notin {"set", "unset", "close"}
  <2>1. pc[t] \notin {"set", "unset", "close"} /\ ws' = ws /\ status' = status
    BY <1>1 DEF CallConnect, StartReconnect, Check, DialFails, GetOld, Unhook
  <2>2. \A u \in Connectors \ {t} : pc'[u] = pc[u] /\ mine'[u] = mine[u]
    BY <1>1, ConnectorStep DEF ConnectStep, ReconnectStep
  <2> QED BY <2>1, <2>2
<1>2. ASSUME NEW t \in Connectors, Established(t)
      PROVE  /\ status[g] /\ ws # g
             /\ \A u \in Connectors : mine[u] = g => pc[u] \notin {"set", "unset", "close"}
  <2>1. /\ pc[t] = "dial" /\ ws' = ws
        /\ pc' = [pc EXCEPT ![t] = "set"] /\ mine' = [mine EXCEPT ![t] = established']
        /\ status' = [status EXCEPT ![established'] = TRUE]
    BY <1>2 DEF Established
  <2> QED BY <2>1
<1>3. ASSUME NEW t \in Connectors, Set(t)
      PROVE  /\ status[g] /\ ws # g
             /\ \A u \in Connectors : mine[u] = g => pc[u] \notin {"set", "unset", "close"}
  <2>1. /\ pc[t] = "set" /\ ws' = mine[t] /\ status' = status
        /\ pc' = [pc EXCEPT ![t] = "idle"] /\ mine' = [mine EXCEPT ![t] = NoConn]
    BY <1>3 DEF Set
  <2>2. ws = NoConn
    BY <2>1 DEF AloneInv, Busy
  <2> QED BY <2>1, <2>2
<1>4. ASSUME NEW t \in Connectors, Unset(t)
      PROVE  /\ status[g] /\ ws # g
             /\ \A u \in Connectors : mine[u] = g => pc[u] \notin {"set", "unset", "close"}
  <2>1. /\ pc[t] = "unset" /\ ws' = NoConn /\ status' = status
        /\ pc' = [pc EXCEPT ![t] = "close"] /\ mine' = mine
    BY <1>4 DEF Unset
  <2>2. ws = mine[t]
    BY <2>1 DEF AloneInv, Busy
  <2> QED BY <2>1, <2>2
<1>5. ASSUME NEW t \in Connectors, CloseOld(t)
      PROVE  /\ status[g] /\ ws # g
             /\ \A u \in Connectors : mine[u] = g => pc[u] \notin {"set", "unset", "close"}
  <2>1. /\ ws' = ws /\ status' = [status EXCEPT ![mine[t]] = FALSE]
        /\ pc' = [pc EXCEPT ![t] = "unhook"] /\ mine' = mine
    BY <1>5 DEF CloseOld, CloseConn
  <2> QED BY <2>1
<1>6. CASE \/ \E t \in Closers : CallClose(t) \/ CloseStep(t)
           \/ \E h \in Conns : ReaderStep(h) \/ Break(h) \/ StartWrite(h) \/ EndWrite(h)
           \/ StopLoop
           \/ UNCHANGED vars
  BY <1>6, NoHand
<1> QED BY <1>1, <1>2, <1>3, <1>4, <1>5, <1>6 DEF Next, ConnectStep, ReconnectStep, Dead

\* However Connects and reconnects overlap, a connection is forgotten open
\* only by one that another overlaps: the test "already connect" and the
\* closing of the old connection keep it whenever they run undisturbed.
THEOREM OnlyOverlapForgetsHolds == Spec => OnlyOverlapForgets
<1> DEFINE F == Forgotten' \subseteq Forgotten \/ \E t \in overlapped : pc'[t] # pc[t]
<1>1. TypeOK /\ AloneInv /\ [Next]_vars => [F]_vars
  BY ForgetStep
<1> QED BY <1>1, AloneInit, AloneStep, TypeCorrect, PTL DEF Spec, OnlyOverlapForgets

-----------------------------------------------------------------------------
(* Close. *)

\* A connection that has been in WSClient.ws is not put there again, so that
\* the one Close was called upon is there for it or has been taken away.
HadInv ==
    /\ had <= established
    /\ \A t, u \in Connectors :
          pc[t] = "set" /\ pc[u] = "set" /\ mine[t] = mine[u] => t = u
    /\ \A t \in Connectors : pc[t] = "set" => mine[t] # ws /\ mine[t] # had
    /\ \A t \in Closers :
          /\ pc[t] # "idle" => exit
          /\ pc[t] = "closews" /\ ws = had /\ had # NoConn => mine[t] = had
          /\ pc[t] = "closed" /\ ws = had /\ had # NoConn => ~status[had]

LEMMA HadInit == Init => HadInv
BY ConnsOK DEF Init, HadInv, NoConn

\* had stays as it is but when Close closes exitCh.
LEMMA HadStays ==
    ASSUME Remember \/ UNCHANGED vars, exit' = exit \/ exit
    PROVE  had' = had
BY DEF Remember, vars

LEMMA HadStep == TypeOK /\ NothingAhead /\ HadInv /\ [Next]_vars => HadInv'
<1> SUFFICES ASSUME TypeOK, NothingAhead, HadInv, [Next]_vars PROVE HadInv'
  OBVIOUS
<1>a. /\ pc \in [Threads -> PCs] /\ mine \in [Threads -> Conns \cup {NoConn}]
      /\ status \in [Conns -> BOOLEAN]
      /\ had \in Conns \cup {NoConn} /\ established \in Nat
      /\ \A t \in Threads : pc[t] = "set" => mine[t] # NoConn
      /\ ws <= established
  BY ConnsOK DEF TypeOK, HistoryOK, NothingAhead
<1>b. Remember \/ UNCHANGED vars
  BY DEF Next, Dead
<1> USE <1>a, ConnsOK DEF clientVars, threadVars, connVars, Goto
\* Steps of a connector.
<1>1. ASSUME NEW t \in Connectors,
             CallConnect(t) \/ StartReconnect(t) \/ ConnectStep(t) \/ ReconnectStep(t)
      PROVE  /\ had' = had /\ exit' = exit
             /\ \A u \in Threads \ {t} : pc'[u] = pc[u] /\ mine'[u] = mine[u]
             /\ \A u \in Closers : pc'[u] = pc[u] /\ mine'[u] = mine[u]
  BY <1>1, <1>b, ConnectorStep, HadStays
<1>2. ASSUME NEW t \in Connectors,
             \/ CallConnect(t) \/ StartReconnect(t) \/ Check(t) \/ DialFails(t)
             \/ GetOld(t) \/ Unhook(t)
      PROVE  HadInv'
  <2>1. pc'[t] # "set" /\ ws' = ws /\ status' = status /\ established' = established
    BY <1>2 DEF CallConnect, StartReconnect, Check, DialFails, GetOld, Unhook
  <2> QED BY <1>1, <1>2, <2>1 DEF HadInv, ConnectStep, ReconnectStep
<1>3. ASSUME NEW t \in Connectors, Established(t) PROVE HadInv'
  <2>1. /\ established' = established + 1 /\ ws # established'
        /\ \A u \in Threads : mine[u] # established'
    BY <1>3, Fresh
  <2>2. /\ ws' = ws /\ mine' = [mine EXCEPT ![t] = established']
        /\ status' = [status EXCEPT ![established'] = TRUE]
    BY <1>3 DEF Established
  <2>3. had # established' /\ had <= established'
    BY <2>1 DEF HadInv
  <2> QED BY <1>1, <1>3, <2>1, <2>2, <2>3 DEF HadInv, ConnectStep
<1>4. ASSUME NEW t \in Connectors, Set(t) PROVE HadInv'
  <2>1. /\ pc[t] = "set" /\ ws' = mine[t] /\ status' = status /\ established' = established
        /\ pc' = [pc EXCEPT ![t] = "idle"]
    BY <1>4 DEF Set
  <2>2. ws' # had
    BY <2>1 DEF HadInv
  <2> QED BY <1>1, <1>4, <2>1, <2>2 DEF HadInv, ConnectStep
<1>5. ASSUME NEW t \in Connectors, Unset(t) PROVE HadInv'
  <2>1. /\ pc'[t] # "set" /\ ws' = NoConn /\ status' = status /\ established' = established
    BY <1>5 DEF Unset
  <2> QED BY <1>1, <1>5, <2>1 DEF HadInv, ReconnectStep
<1>6. ASSUME NEW t \in Connectors, CloseOld(t) PROVE HadInv'
  <2>1. /\ pc'[t] # "set" /\ ws' = ws /\ established' = established
        /\ status' = [status EXCEPT ![mine[t]] = FALSE]
    BY <1>6 DEF CloseOld, CloseConn
  <2> QED BY <1>1, <1>6, <2>1 DEF HadInv, ReconnectStep
\* Steps of a Close.
<1>7. ASSUME NEW t \in Closers, CallClose(t) PROVE HadInv'
  <2>1. ws' = ws /\ mine' = mine /\ status' = status /\ established' = established /\ exit'
    BY <1>7 DEF CallClose
  <2>2. CASE exit
    <3>1. had' = had /\ pc' = pc
      BY <1>7, <1>b, <2>2, HadStays DEF CallClose
    <3> QED BY <2>1, <2>2, <3>1 DEF HadInv
  <2>3. CASE ~exit
    <3>1. pc' = [pc EXCEPT ![t] = "getws"]
      BY <1>7, <2>3 DEF CallClose
    <3>2. had' = ws
      BY <1>b, <2>1, <2>3 DEF Remember, vars
    <3>3. \A u \in Closers : pc[u] = "idle"
      BY <2>3 DEF HadInv
    <3> QED BY <2>1, <3>1, <3>2, <3>3 DEF HadInv
  <2> QED BY <2>2, <2>3
<1>8. ASSUME NEW t \in Closers, CloseGet(t) PROVE HadInv'
  <2>1. /\ pc[t] = "getws" /\ UNCHANGED <<exit, ws, status, established>>
        /\ pc' = [pc EXCEPT ![t] = IF ws = NoConn THEN "closed" ELSE "closews"]
        /\ mine' = [mine EXCEPT ![t] = ws]
    BY <1>8 DEF CloseGet
  <2>2. had' = had
    BY <1>b, <2>1, HadStays
  <2> QED BY <2>1, <2>2 DEF HadInv
<1>9. ASSUME NEW t \in Closers, CloseWs(t) PROVE HadInv'
  <2>1. /\ pc[t] = "closews" /\ UNCHANGED <<exit, ws, established>>
        /\ pc' = [pc EXCEPT ![t] = "closed"] /\ mine' = [mine EXCEPT ![t] = NoConn]
        /\ status' = [status EXCEPT ![mine[t]] = FALSE]
    BY <1>9 DEF CloseWs, CloseConn
  <2>2. had' = had
    BY <1>b, <2>1, HadStays
  <2>3. \A u \in Connectors : pc'[u] = pc[u] /\ mine'[u] = mine[u]
    BY <2>1
  <2>4. ws = had /\ had # NoConn => ~status'[had]
    BY <2>1 DEF HadInv
  <2> QED BY <2>1, <2>2, <2>3, <2>4 DEF HadInv
\* The other steps.
<1>10. ASSUME UNCHANGED <<exit, pc, mine, ws, established>>,
              \A g \in Conns : status'[g] => status[g]
       PROVE  HadInv'
  <2>1. had' = had
    BY <1>10, <1>b, HadStays
  <2> QED BY <1>10, <2>1 DEF HadInv
<1>11. ASSUME NEW g \in Conns, ReaderStep(g) \/ Break(g) \/ StartWrite(g) \/ EndWrite(g)
       PROVE  HadInv'
  <2>1. UNCHANGED <<exit, pc, mine, ws, established>>
    BY <1>11 DEF ReaderStep, Read, CheckHook, CallHook, ReaderCloses, Break, StartWrite, EndWrite
  <2> QED BY <1>10, <1>11, <2>1, NoHand
<1>12. CASE StopLoop \/ UNCHANGED vars
  BY <1>10, <1>12 DEF StopLoop, vars
<1> QED BY <1>2, <1>3, <1>4, <1>5, <1>6, <1>7, <1>8, <1>9, <1>11, <1>12
        DEF Next, ConnectStep, ReconnectStep, CloseStep, Dead

\* When a Close has returned, the connection the client had when it was called
\* is closed or a reconnect is about to close it, unless an overlap has made
\* the client forget it (WSClient.Close, ws.go:786).
THEOREM CloseReachesHolds == Spec => []CloseReaches
<1>1. TypeOK /\ HadInv => CloseReaches
  <2> SUFFICES ASSUME TypeOK, HadInv, NEW t \in Closers, pc[t] = "closed",
                      had # NoConn, status[had]
               PROVE  InHand(had) \/ had \in Forgotten
    BY DEF CloseReaches
  <2>1. had \in Conns /\ ws # had
    BY DEF TypeOK, HistoryOK, HadInv
  <2>2. ~\E u \in Connectors : mine[u] = had /\ pc[u] = "set"
    BY DEF HadInv
  <2> QED BY <2>1, <2>2 DEF Forgotten
<1>2. LooseInv => TypeOK /\ NothingAhead
  BY DEF LooseInv
<1> QED BY <1>1, <1>2, HadInit, HadStep, LooseInvariance, PTL DEF Spec

-----------------------------------------------------------------------------
(* What WSRequests takes for granted of the connection. *)

LEMMA InitRequests == Init => Requests!Init
<1> SUFFICES ASSUME Init PROVE Requests!Init
  OBVIOUS
<1>1. Requests!Calls = {1} /\ Requests!Ids = {1, 7} /\ Requests!Events = {}
  BY DEF Requests!Calls, Requests!Ids, Requests!Events
<1>2. Requests!Reqs = {1} \X {1, 2} /\ Requests!Messages = {1} \X {1, 2}
  BY <1>1 DEF Requests!Reqs, Requests!Messages
<1>3. /\ <<"new">> = [k \in {1} |-> "new"] /\ <<"one">> = [k \in {1} |-> "one"]
      /\ <<1>> = [k \in {1} |-> 1] /\ <<0>> = [k \in {1} |-> 0]
      /\ <<NoConn>> = [k \in {1} |-> NoConn]
  OBVIOUS
<1> QED BY <1>1, <1>2, <1>3 DEF Init, Conns, NoConn, Requests!Init, Requests!Conns,
        Requests!NoReq, Requests!NoId, Requests!NoConn

\* A step of the connection that changes nothing the requests see.
LEMMA RequestsStutter ==
    ASSUME UNCHANGED <<ws, exit, loop, status, established>>
    PROVE  UNCHANGED Requests!vars
BY DEF Requests!vars, Requests!callVars, Requests!answerVars, Requests!chanVars, Requests!netVars

\* Closing a connection is losing it, or nothing when it was closed before.
LEMMA CloseIsDown ==
    ASSUME TypeOK, NEW g \in Conns, CloseConn(g), UNCHANGED <<ws, exit, loop, established>>
    PROVE  Requests!Next \/ UNCHANGED Requests!vars
<1>1. status' = [status EXCEPT ![g] = FALSE] /\ status \in [Conns -> BOOLEAN]
  BY DEF CloseConn, TypeOK
<1>2. CASE status[g]
  <2>1. Requests!Down(g)
    BY <1>1, <1>2 DEF Requests!Down, Requests!callVars, Requests!answerVars, Requests!chanVars
  <2> QED BY <2>1 DEF Requests!Next, Requests!Environment, Requests!Conns, Conns
<1>3. CASE ~status[g]
  BY <1>1, <1>3, RequestsStutter
<1> QED BY <1>2, <1>3

\* A new value of WSClient.ws is an established connection or none.
LEMMA SetIsSetWs ==
    ASSUME TypeOK, NEW g \in Conns \cup {NoConn}, g <= established, ws' = g,
           UNCHANGED <<exit, loop, status, established>>
    PROVE  Requests!Next \/ UNCHANGED Requests!vars
<1>1. CASE ws = g
  BY <1>1, RequestsStutter
<1>2. CASE ws # g
  <2>1. g \in 1..established \/ g = Requests!NoConn
    BY ConnsOK DEF TypeOK, Conns, NoConn, Requests!NoConn
  <2>2. Requests!SetWs(g)
    BY <1>2, <2>1 DEF Requests!SetWs, Requests!callVars, Requests!answerVars, Requests!chanVars
  <2>3. g \in Requests!Conns \cup {Requests!NoConn}
    BY DEF Conns, NoConn, Requests!Conns, Requests!NoConn
  <2> QED BY <2>2, <2>3 DEF Requests!Next, Requests!Environment
<1> QED BY <1>1, <1>2

LEMMA StepRequests ==
    TypeOK /\ NothingAhead /\ [Next]_vars => [Requests!Next]_(Requests!vars)
<1> SUFFICES ASSUME TypeOK, NothingAhead, [Next]_vars
             PROVE  Requests!Next \/ UNCHANGED Requests!vars
  OBVIOUS
<1> USE ConnsOK DEF clientVars, threadVars, connVars, Goto
<1>1. ASSUME NEW t \in Connectors,
             \/ CallConnect(t) \/ StartReconnect(t) \/ Check(t) \/ DialFails(t)
             \/ GetOld(t) \/ Unhook(t)
      PROVE  UNCHANGED Requests!vars
  BY <1>1, RequestsStutter DEF CallConnect, StartReconnect, Check, DialFails, GetOld, Unhook
<1>2. ASSUME NEW t \in Connectors, Established(t) PROVE Requests!Next
  <2>1. Requests!Dial
    BY <1>2 DEF Established, Requests!Dial, Requests!callVars, Requests!answerVars,
                Requests!chanVars
  <2> QED BY <2>1 DEF Requests!Next, Requests!Environment
<1>3. ASSUME NEW t \in Connectors, Set(t) PROVE Requests!Next \/ UNCHANGED Requests!vars
  <2>1. /\ mine[t] \in Conns \cup {NoConn} /\ mine[t] <= established /\ ws' = mine[t]
        /\ UNCHANGED <<exit, loop, status, established>>
    BY <1>3 DEF Set, TypeOK, NothingAhead
  <2> QED BY <2>1, SetIsSetWs
<1>4. ASSUME NEW t \in Connectors, Unset(t) PROVE Requests!Next \/ UNCHANGED Requests!vars
  <2>1. NoConn <= established /\ ws' = NoConn /\ UNCHANGED <<exit, loop, status, established>>
    BY <1>4 DEF Unset, TypeOK, NoConn
  <2> QED BY <2>1, SetIsSetWs
<1>5. ASSUME NEW t \in Connectors, CloseOld(t) PROVE Requests!Next \/ UNCHANGED Requests!vars
  <2>1. /\ mine[t] \in Conns /\ CloseConn(mine[t])
        /\ UNCHANGED <<ws, exit, loop, established>>
    BY <1>5 DEF CloseOld, TypeOK
  <2> QED BY <2>1, CloseIsDown
<1>6. ASSUME NEW t \in Closers, CloseWs(t) PROVE Requests!Next \/ UNCHANGED Requests!vars
  <2>1. /\ mine[t] \in Conns /\ CloseConn(mine[t])
        /\ UNCHANGED <<ws, exit, loop, established>>
    BY <1>6 DEF CloseWs, TypeOK
  <2> QED BY <2>1, CloseIsDown
<1>7. ASSUME NEW g \in Conns, ReaderCloses(g) PROVE Requests!Next \/ UNCHANGED Requests!vars
  <2>1. CloseConn(g) /\ UNCHANGED <<ws, exit, loop, established>>
    BY <1>7 DEF ReaderCloses
  <2> QED BY <2>1, CloseIsDown
<1>8. ASSUME NEW t \in Closers, CallClose(t) PROVE Requests!Next \/ UNCHANGED Requests!vars
  <2>1. exit' = TRUE /\ UNCHANGED <<ws, loop, status, established>>
    BY <1>8 DEF CallClose
  <2>2. CASE exit
    BY <2>1, <2>2, RequestsStutter DEF TypeOK
  <2>3. CASE ~exit
    <3>1. Requests!Close
      BY <2>1, <2>3 DEF Requests!Close, Requests!callVars, Requests!answerVars, Requests!netVars
    <3> QED BY <3>1 DEF Requests!Next, Requests!Environment
  <2> QED BY <2>2, <2>3
<1>9. CASE StopLoop
  <2>1. Requests!StopLoop
    BY <1>9 DEF StopLoop, Requests!StopLoop, Requests!callVars, Requests!answerVars,
                Requests!netVars
  <2> QED BY <2>1 DEF Requests!Next, Requests!LoopStep
<1>10. ASSUME NEW t \in Closers, CloseGet(t) PROVE UNCHANGED Requests!vars
  BY <1>10, RequestsStutter DEF CloseGet
<1>11. ASSUME NEW g \in Conns,
              \/ Read(g) \/ CheckHook(g) \/ CallHook(g) \/ Break(g)
              \/ StartWrite(g) \/ EndWrite(g)
       PROVE  UNCHANGED Requests!vars
  BY <1>11, RequestsStutter DEF Read, CheckHook, CallHook, Break, StartWrite, EndWrite
<1>12. CASE UNCHANGED vars
  BY <1>12, RequestsStutter DEF vars
<1> QED BY <1>1, <1>2, <1>3, <1>4, <1>5, <1>6, <1>7, <1>8, <1>9, <1>10, <1>11, <1>12
        DEF Next, ConnectStep, ReconnectStep, ReaderStep, CloseStep, Dead

\* The connection is an environment the request table allows, however Connect,
\* reconnect, Close and the readers interleave: what is proved of WSRequests
\* holds over it.
THEOREM Refinement == Spec => ImplementsRequests
<1>1. LooseInv => TypeOK /\ NothingAhead
  BY DEF LooseInv
<1> QED BY <1>1, InitRequests, StepRequests, LooseInvariance, PTL
        DEF Spec, ImplementsRequests, Requests!Spec
=============================================================================
