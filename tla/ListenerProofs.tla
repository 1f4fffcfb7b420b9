--------------------------- MODULE ListenerProofs ---------------------------
(***************************************************************************)
(* Proofs about Listener for any number of connections, calls, listener    *)
(* threads and failures.                                                   *)
(***************************************************************************)
EXTENDS Listener, FiniteSetTheorems, TLAPS

\* A listener is registered while calls wait for it, and without a failure all
\* the calls that are not finalized are counted.
ManagerInv ==
    /\ manager.set <=> manager.waiting > 0
    /\ manager.waiting + finished <= calls
    /\ faults = 0 => manager.waiting + finished = calls
    /\ app = "close" => ~manager.set

\* The threads that were started, and the pointers that a thread follows without
\* a test: they are not null.
PointerInv ==
    /\ \A g \in Gen : pc[g] # "none" <=> g <= spawned
    /\ target # NULL <=> app \in {"close", "close_free"}
    /\ \A g \in Gen : loop[g] # NULL <=> pc[g] \in {"test", "accept", "accepting", "dispatch"}

\* The types of two variables.
ManagerState == [set : BOOLEAN, waiting : 0..MaxCalls]
ReceiverState == [mem : {"live", "freed"}, svr_thread : Gen \cup {NULL}]

\* Null is not the number of a thread or of a connection.
LEMMA NullNumber == NULL = 0 /\ NULL \notin Gen /\ NULL \notin Conns
  BY ListenerAssumption DEF NULL, Gen, Conns

\* The application starts with no listener and no call.
LEMMA TypeInit == Init => TypeOK /\ ManagerInv /\ PointerInv
<1> SUFFICES ASSUME Init PROVE TypeOK /\ ManagerInv /\ PointerInv
  OBVIOUS
<1>1. NoServer \in ServerState /\ NoConn \in ConnState
  BY DEF NoServer, NoConn, ServerState, ConnState
<1>2. manager \in [set : BOOLEAN, waiting : 0..MaxCalls]
  BY ListenerAssumption DEF Init
<1>3. receiver \in [mem : {"live", "freed"}, svr_thread : Gen \cup {NULL}]
  BY DEF Init
<1>4. bad \in BOOLEAN
  BY DEF Init
<1>5. TypeOK
  BY <1>1, <1>2, <1>3, <1>4, ListenerAssumption DEF Init, TypeOK, Pcs
<1>6. manager.set = FALSE /\ manager.waiting = 0 /\ calls = 0 /\ finished = 0 /\ app # "close"
  BY DEF Init
<1>7. PointerInv
  BY DEF Init, PointerInv, Gen
<1> QED BY <1>5, <1>6, <1>7 DEF ManagerInv

\* What the steps do to a server keeps its type.
LEMMA ServerType ==
    ASSUME TypeOK, NEW s \in Gen \cup {NULL}
    PROVE  /\ Stopped(s) \in [Gen -> ServerState]
           /\ [svr EXCEPT ![s].listen = FALSE] \in [Gen -> ServerState]
           /\ [svr EXCEPT ![s] = NewServer] \in [Gen -> ServerState]
           /\ [svr EXCEPT ![s] = [mem |-> "freed", stopped |-> TRUE, listen |-> FALSE,
                                  worker |-> NULL]] \in [Gen -> ServerState]
           /\ \A g \in Gen : [svr EXCEPT ![s].worker = g] \in [Gen -> ServerState]
<1>1. ASSUME NEW r \in ServerState PROVE [svr EXCEPT ![s] = r] \in [Gen -> ServerState]
  BY DEF TypeOK
<1>2. s \in Gen => svr[s] \in ServerState
  BY DEF TypeOK
<1>3. NewServer \in ServerState
  BY DEF NewServer, ServerState
<1>4. [mem |-> "freed", stopped |-> TRUE, listen |-> FALSE, worker |-> NULL] \in ServerState
  BY DEF ServerState
<1>5. s \in Gen => [svr[s] EXCEPT !.stopped = TRUE] \in ServerState
  BY Zenon, <1>2 DEF ServerState
<1>6. s \in Gen => [svr[s] EXCEPT !.listen = FALSE] \in ServerState
  BY Zenon, <1>2 DEF ServerState
<1>7. ASSUME NEW g \in Gen PROVE s \in Gen => [svr[s] EXCEPT !.worker = g] \in ServerState
  BY Zenon, <1>2 DEF ServerState
<1>8. Stopped(s) \in [Gen -> ServerState]
  BY <1>5 DEF Stopped, TypeOK
<1>9. [svr EXCEPT ![s].listen = FALSE] \in [Gen -> ServerState]
  BY <1>6 DEF TypeOK
<1>10. \A g \in Gen : [svr EXCEPT ![s].worker = g] \in [Gen -> ServerState]
  BY <1>7 DEF TypeOK
<1> QED BY <1>1, <1>3, <1>4, <1>8, <1>9, <1>10

\* A connection that ends keeps its type.
LEMMA EndedType ==
    ASSUME TypeOK, NEW c \in Conns \cup {NULL}, NEW how \in {"closed", "leaked"}
    PROVE  Ended(c, how) \in [Conns -> ConnState]
<1>1. c \in Conns => [conn[c] EXCEPT !.st = how] \in ConnState
  BY DEF TypeOK, ConnState
<1> QED BY <1>1 DEF Ended, TypeOK

\* A connection that is queued, accepted or reset keeps its type.
LEMMA ConnType ==
    ASSUME TypeOK, NEW c \in Conns, NEW at \in Gen \cup {NULL},
           NEW st \in {"queued", "accepted", "closed"}
    PROVE  [conn EXCEPT ![c] = [st |-> st, at |-> at]] \in [Conns -> ConnState]
<1>1. [st |-> st, at |-> at] \in ConnState
  BY DEF ConnState
<1> QED BY <1>1 DEF TypeOK

\* The two ways in which the receiver's structure is written keep its type.
LEMMA ReceiverType ==
    ASSUME TypeOK, NEW s \in Gen \cup {NULL}
    PROVE  /\ Keeping(s) \in ReceiverState
           /\ FreedReceiver \in ReceiverState
<1>1. Keeping(s) \in ReceiverState
  BY Zenon DEF Keeping, TypeOK, ReceiverState
<1> QED BY <1>1 DEF FreedReceiver, ReceiverState

\* Every step keeps the types.
LEMMA TypeStep == TypeOK /\ ManagerInv /\ PointerInv /\ [Next]_vars => TypeOK'
<1> SUFFICES ASSUME TypeOK, ManagerInv, PointerInv, [Next]_vars PROVE TypeOK'
  OBVIOUS
<1>1. CASE UNCHANGED vars
  BY <1>1 DEF TypeOK, vars, appvars, loopvars, connvars
<1>2. CASE process = "up" /\ Start
  <2>1. manager' \in ManagerState
    <3>1. manager.waiting + 1 \in 0..MaxCalls
      <4>1. manager.waiting \in Nat /\ calls \in Nat /\ finished \in Nat /\ calls < MaxCalls
        BY <1>2 DEF Start, TypeOK
      <4> QED BY <4>1, ListenerAssumption DEF ManagerInv
    <3>2. [set |-> TRUE, waiting |-> 1] \in ManagerState
      BY <1>2, ListenerAssumption DEF Start, TypeOK, ManagerState
    <3>3. [manager EXCEPT !.waiting = manager.waiting + 1] \in ManagerState
      BY Zenon, <3>1 DEF TypeOK, ManagerState
    <3>4. manager \in ManagerState
      BY DEF TypeOK, ManagerState
    <3> QED BY <1>2, <3>2, <3>3, <3>4 DEF Start
  <2>2. pc' \in [Gen -> Pcs]
    BY <1>2 DEF Start, TypeOK, Pcs, Gen
  <2>3. spawned' \in 0..MaxGen /\ faults' \in 0..MaxFaults /\ calls' \in 0..MaxCalls /\ app' =
        "send"
    BY <1>2, ListenerAssumption DEF Start, Fault, TypeOK
  <2>4. UNCHANGED <<loop, socket, conn, serving, bad, receiver, svr, workers, target, finished,
        process>>
    BY Zenon, <1>2 DEF Start, connvars
  <2> QED BY <2>1, <2>2, <2>3, <2>4 DEF TypeOK, ManagerState
<1>3. CASE process = "up" /\ Send
  BY <1>3 DEF Send, TypeOK, loopvars, connvars
<1>4. CASE process = "up" /\ FinalizeInvoke
  <2>1. manager' \in ManagerState
    <3>1. manager.set => manager.waiting - 1 \in 0..MaxCalls
      <4>1. manager.waiting \in 0..MaxCalls
        BY DEF TypeOK
      <4> QED BY <4>1, ListenerAssumption DEF ManagerInv
    <3>2. [set |-> FALSE, waiting |-> 0] \in ManagerState
      BY ListenerAssumption DEF ManagerState
    <3>3. manager.set => [manager EXCEPT !.waiting = OneLess] \in ManagerState
      BY Zenon, <3>1 DEF TypeOK, ManagerState, OneLess
    <3>4. manager \in ManagerState
      BY DEF TypeOK, ManagerState
    <3> QED BY <1>4, <3>2, <3>3, <3>4 DEF FinalizeInvoke
  <2>2. svr' \in [Gen -> ServerState]
    <3>1. svr \in [Gen -> ServerState] /\ receiver.svr_thread \in Gen \cup {NULL}
      BY DEF TypeOK
    <3>2. \/ svr' = svr
          \/ svr' = Stopped(receiver.svr_thread)
      BY Zenon, <1>4 DEF FinalizeInvoke, StopServer, Destroy
    <3> QED BY <1>4, <3>1, <3>2, ServerType
  <2>3. app' \in {"run", "close"} /\ process' \in {"up", "freed"} /\ target' \in Gen \cup {NULL}
    BY <1>4 DEF FinalizeInvoke, StopServer, Destroy, FollowFreed, TypeOK
  <2>4. finished' \in 0..MaxCalls
    BY <1>4, ListenerAssumption DEF FinalizeInvoke, TypeOK
  <2>5. UNCHANGED <<calls, spawned, pc, loop, socket, conn, serving, bad, receiver, workers,
        faults>>
    BY Zenon, <1>4 DEF FinalizeInvoke, appvars, loopvars, connvars
  <2> QED BY <2>1, <2>2, <2>3, <2>4, <2>5 DEF TypeOK, ManagerState, ReceiverState
<1>5. CASE process = "up" /\ CloseListenSocket
  <2>1. svr' \in [Gen -> ServerState]
    BY <1>5, ServerType DEF CloseListenSocket, TypeOK
  <2>2. app' \in {"run", "free"} /\ process' \in {"up", "freed"} /\ target' = NULL
    BY <1>5 DEF CloseListenSocket, FollowFreed
  <2>3. UNCHANGED <<manager, calls, finished, spawned, pc, loop, socket, conn, serving, bad,
        receiver, workers, faults>>
    BY Zenon, <1>5 DEF CloseListenSocket, appvars, loopvars, connvars
  <2> QED BY <2>1, <2>2, <2>3 DEF TypeOK, ManagerState, ReceiverState
<1>6. CASE process = "up" /\ FreeReceiver
  <2>1. svr' \in [Gen -> ServerState]
    <3>1. svr \in [Gen -> ServerState] /\ receiver.svr_thread \in Gen \cup {NULL}
      BY DEF TypeOK
    <3>2. \/ svr' = svr
          \/ svr' = Stopped(receiver.svr_thread)
      BY Zenon, <1>6 DEF FreeReceiver, Destroy
    <3> QED BY <1>6, <3>1, <3>2, ServerType
  <2>2. receiver' \in ReceiverState
    BY <1>6, ReceiverType DEF FreeReceiver, TypeOK, ReceiverState
  <2>3. app' \in {"run", "close_free", "free", "gone"} /\ process' \in {"up", "freed"} /\ target'
        \in Gen \cup {NULL}
    BY <1>6 DEF FreeReceiver, Destroy, FollowFreed, TypeOK
  <2>4. UNCHANGED <<manager, calls, finished, spawned, pc, loop, socket, conn, serving, bad,
        workers, faults>>
    BY Zenon, <1>6 DEF FreeReceiver, appvars, loopvars, connvars
  <2> QED BY <2>1, <2>2, <2>3, <2>4 DEF TypeOK, ManagerState, ReceiverState
<1>7. CASE process = "up" /\ FreeServer
  <2>1. svr' \in [Gen -> ServerState]
    <3>1. svr \in [Gen -> ServerState] /\ receiver.svr_thread \in Gen \cup {NULL}
      BY DEF TypeOK
    <3>2. \/ svr' = svr
          \/ svr' = [svr EXCEPT ![receiver.svr_thread] =
                                    [mem |-> "freed", stopped |-> TRUE, listen |-> FALSE,
                                     worker |-> NULL]]
      BY Zenon, <1>7 DEF FreeServer, SvrThreadFree
    <3> QED BY <1>7, <3>1, <3>2, ServerType
  <2>2. workers' \in [Gen -> {"none", "live", "freed"}]
    BY <1>7 DEF FreeServer, SvrThreadFree, TypeOK
  <2>3. receiver' \in ReceiverState
    BY <1>7, ReceiverType DEF FreeServer, TypeOK
  <2>4. app' = "gone" /\ process' \in {"up", "freed"}
    BY <1>7 DEF FreeServer, SvrThreadFree, FollowFreed
  <2>5. UNCHANGED <<manager, calls, finished, target, spawned, pc, loop, socket, conn, serving,
        bad, faults>>
    BY Zenon, <1>7 DEF FreeServer, appvars, loopvars, connvars
  <2> QED BY <2>1, <2>2, <2>3, <2>4, <2>5 DEF TypeOK, ManagerState, ReceiverState
<1>8. ASSUME process = "up", NEW g \in Gen, CreateServer(g) PROVE TypeOK'
  <2>1. svr' \in [Gen -> ServerState]
    <3>1. svr \in [Gen -> ServerState] /\ receiver.svr_thread \in Gen \cup {NULL}
      BY DEF TypeOK
    <3>2. \/ svr' = svr
          \/ svr' = [svr EXCEPT ![g] = NewServer]
      BY Zenon, <1>8 DEF CreateServer
    <3> QED BY <1>8, <3>1, <3>2, ServerType
  <2>2. receiver' \in ReceiverState
    BY <1>8, ReceiverType DEF CreateServer, TypeOK, ReceiverState
  <2>3. pc' \in [Gen -> Pcs]
    BY <1>8 DEF CreateServer, Goto, TypeOK, Pcs
  <2>4. faults' \in 0..MaxFaults /\ process' \in {"up", "freed"}
    BY <1>8, ListenerAssumption DEF CreateServer, Fault, FollowFreed, TypeOK
  <2>5. UNCHANGED <<manager, app, target, calls, finished, spawned, loop, socket, conn, serving,
        bad, workers>>
    BY Zenon, <1>8 DEF CreateServer, appvars, loopvars, connvars
  <2> QED BY <2>1, <2>2, <2>3, <2>4, <2>5 DEF TypeOK, ManagerState, ReceiverState
<1>9. ASSUME process = "up", NEW g \in Gen, SetWorker(g) PROVE TypeOK'
  <2>1. svr' \in [Gen -> ServerState]
    <3>1. svr \in [Gen -> ServerState] /\ receiver.svr_thread \in Gen \cup {NULL}
      BY DEF TypeOK
    <3>2. \/ svr' = svr
          \/ svr' = [svr EXCEPT ![receiver.svr_thread] =
                                    [mem |-> "freed", stopped |-> TRUE, listen |-> FALSE,
                                     worker |-> NULL]]
          \/ svr' = [svr EXCEPT ![receiver.svr_thread].worker = g]
      BY Zenon, <1>9 DEF SetWorker, SvrThreadFree
    <3>3. [svr EXCEPT ![receiver.svr_thread].worker = g] \in [Gen -> ServerState]
      BY <1>9, <3>1, ServerType
    <3>4. [svr EXCEPT ![receiver.svr_thread] =
                            [mem |-> "freed", stopped |-> TRUE, listen |-> FALSE,
                             worker |-> NULL]] \in [Gen -> ServerState]
      BY <3>1, ServerType
    <3> QED BY <3>1, <3>2, <3>3, <3>4
  <2>2. workers' \in [Gen -> {"none", "live", "freed"}]
    BY <1>9 DEF SetWorker, SvrThreadFree, TypeOK
  <2>3. pc' \in [Gen -> Pcs]
    BY <1>9 DEF SetWorker, Goto, TypeOK, Pcs
  <2>4. faults' \in 0..MaxFaults /\ process' \in {"up", "freed", "null"}
    BY <1>9, ListenerAssumption DEF SetWorker, SvrThreadFree, Fault, FollowFreed, FollowNull, TypeOK
  <2>5. UNCHANGED <<manager, app, target, calls, finished, spawned, loop, socket, conn, serving,
        bad, receiver>>
    BY Zenon, <1>9 DEF SetWorker, appvars, loopvars, connvars
  <2> QED BY <2>1, <2>2, <2>3, <2>4, <2>5 DEF TypeOK, ManagerState, ReceiverState
<1>10. ASSUME process = "up", NEW g \in Gen, Run(g) PROVE TypeOK'
  <2>1. loop' \in [Gen -> Gen \cup {NULL}]
    BY <1>10 DEF Run, TypeOK
  <2>2. pc' \in [Gen -> Pcs]
    BY <1>10 DEF Run, Goto, TypeOK, Pcs
  <2>3. process' \in {"up", "freed", "null"}
    BY <1>10 DEF Run, FollowFreed, FollowNull
  <2>4. UNCHANGED <<manager, app, target, calls, finished, spawned, socket, conn, serving, bad,
        receiver, svr, workers, faults>>
    BY Zenon, <1>10 DEF Run, appvars, loopvars, connvars
  <2> QED BY <2>1, <2>2, <2>3, <2>4 DEF TypeOK, ManagerState, ReceiverState
<1>11. ASSUME process = "up", NEW g \in Gen, TestStopped(g) PROVE TypeOK'
  <2>1. loop' \in [Gen -> Gen \cup {NULL}]
    BY <1>11 DEF TestStopped, TypeOK
  <2>2. pc' \in [Gen -> Pcs]
    BY <1>11 DEF TestStopped, Goto, TypeOK, Pcs
  <2>3. process' \in {"up", "freed"}
    BY <1>11 DEF TestStopped, FollowFreed
  <2>4. UNCHANGED <<manager, app, target, calls, finished, spawned, socket, conn, serving, bad,
        receiver, svr, workers, faults>>
    BY Zenon, <1>11 DEF TestStopped, appvars, loopvars, connvars
  <2> QED BY <2>1, <2>2, <2>3, <2>4 DEF TypeOK, ManagerState, ReceiverState
<1>12. ASSUME process = "up", NEW g \in Gen, CallAccept(g) PROVE TypeOK'
  <2>1. pc' \in [Gen -> Pcs]
    BY <1>12 DEF CallAccept, Goto, TypeOK, Pcs
  <2>2. process' \in {"up", "freed"}
    BY <1>12 DEF CallAccept, FollowFreed
  <2>3. UNCHANGED <<manager, app, target, calls, finished, spawned, loop, socket, conn, serving,
        bad, receiver, svr, workers, faults>>
    BY Zenon, <1>12 DEF CallAccept, appvars, loopvars, connvars
  <2> QED BY <2>1, <2>2, <2>3 DEF TypeOK, ManagerState, ReceiverState
<1>13. ASSUME process = "up", NEW g \in Gen, Dispatch(g) PROVE TypeOK'
  <2>1. conn' \in [Conns -> ConnState]
    BY <1>13, EndedType DEF Dispatch, Refuse, TypeOK
  <2>2. serving' \in [Conns -> Gen \cup {NULL}]
    <3>1. loop[g] \in Gen => svr[loop[g]].worker \in Gen \cup {NULL}
      BY DEF TypeOK, ServerState
    <3>2. loop[g] \in Gen
      BY <1>13 DEF Dispatch, PointerInv, TypeOK
    <3> QED BY <1>13, <3>1, <3>2 DEF Dispatch, TypeOK
  <2>3. bad' \in BOOLEAN
    BY <1>13 DEF Dispatch, TypeOK
  <2>4. socket' \in [Gen -> Conns \cup {NULL}]
    BY <1>13 DEF Dispatch, TypeOK
  <2>5. pc' \in [Gen -> Pcs]
    BY <1>13 DEF Dispatch, Goto, TypeOK, Pcs
  <2>6. faults' \in 0..MaxFaults /\ process' \in {"up", "freed"}
    BY <1>13, ListenerAssumption DEF Dispatch, Fault, FollowFreed, TypeOK
  <2>7. UNCHANGED <<manager, app, target, calls, finished, spawned, loop, receiver, svr, workers>>
    BY Zenon, <1>13 DEF Dispatch, appvars, loopvars, connvars
  <2> QED BY <2>1, <2>2, <2>3, <2>4, <2>5, <2>6, <2>7 DEF TypeOK, ManagerState, ReceiverState
<1>14. ASSUME process = "up", NEW g \in Gen, AcceptFails(g) PROVE TypeOK'
  <2>1. pc' \in [Gen -> Pcs]
    BY <1>14 DEF AcceptFails, Goto, TypeOK, Pcs
  <2>2. faults' \in 0..MaxFaults
    BY <1>14, ListenerAssumption DEF AcceptFails, Fault, TypeOK
  <2>3. UNCHANGED <<manager, app, target, calls, finished, spawned, loop, socket, conn, serving,
        bad, receiver, svr, workers, process>>
    BY Zenon, <1>14 DEF AcceptFails, appvars, loopvars, connvars
  <2> QED BY <2>1, <2>2, <2>3 DEF TypeOK, ManagerState, ReceiverState
<1>15. ASSUME process = "up", NEW g \in Gen, NEW c \in Conns, AcceptConn(g, c) PROVE TypeOK'
  <2>1. conn' \in [Conns -> ConnState]
    BY <1>15, ConnType DEF AcceptConn
  <2>2. pc' \in [Gen -> Pcs]
    BY <1>15 DEF AcceptConn, Goto, TypeOK, Pcs
  <2>3. socket' \in [Gen -> Conns \cup {NULL}]
    BY <1>15 DEF AcceptConn, TypeOK
  <2>4. UNCHANGED <<manager, app, target, calls, finished, spawned, loop, serving, bad, receiver,
        svr, workers, faults, process>>
    BY Zenon, <1>15 DEF AcceptConn, appvars, loopvars, connvars
  <2> QED BY <2>1, <2>2, <2>3, <2>4 DEF TypeOK, ManagerState, ReceiverState
<1>16. ASSUME process = "up", NEW c \in Conns, ServeConn(c) PROVE TypeOK'
  <2>1. conn' \in [Conns -> ConnState]
    BY <1>16, EndedType DEF ServeConn, ConnFree, TypeOK
  <2>2. serving' \in [Conns -> Gen \cup {NULL}]
    BY <1>16 DEF ServeConn, TypeOK
  <2>3. process' \in {"up", "freed"}
    BY <1>16 DEF ServeConn, FollowFreed
  <2>4. UNCHANGED <<manager, app, target, calls, finished, spawned, pc, loop, socket, bad,
        receiver, svr, workers, faults>>
    BY Zenon, <1>16 DEF ServeConn, appvars, loopvars, connvars
  <2> QED BY <2>1, <2>2, <2>3, <2>4 DEF TypeOK, ManagerState, ReceiverState
<1>17. CASE process = "up" /\ FreeNoStream
  BY <1>17 DEF FreeNoStream, FollowNull, TypeOK, appvars, loopvars, connvars
<1>18. ASSUME process = "up", NEW c \in Conns, Connect(c) PROVE TypeOK'
  <2>1. conn' \in [Conns -> ConnState]
    <3>1. PICK s \in Gen : conn' = [conn EXCEPT ![c] = [st |-> "queued", at |-> s]]
      BY <1>18 DEF Connect
    <3> QED BY <3>1, ConnType
  <2>2. UNCHANGED <<manager, app, target, calls, finished, spawned, pc, loop, socket, serving,
        bad, receiver, svr, workers, faults, process>>
    BY Zenon, <1>18 DEF Connect, appvars, loopvars, connvars
  <2> QED BY <2>1, <2>2 DEF TypeOK, ManagerState, ReceiverState
<1>19. ASSUME process = "up", NEW c \in Conns, Reset(c) PROVE TypeOK'
  <2>1. conn' \in [Conns -> ConnState]
    BY <1>19, ConnType DEF Reset
  <2>2. UNCHANGED <<manager, app, target, calls, finished, spawned, pc, loop, socket, serving,
        bad, receiver, svr, workers, faults, process>>
    BY Zenon, <1>19 DEF Reset, appvars, loopvars, connvars
  <2> QED BY <2>1, <2>2 DEF TypeOK, ManagerState, ReceiverState
<1> QED BY <1>1, <1>2, <1>3, <1>4, <1>5, <1>6, <1>7, <1>8, <1>9, <1>10, <1>11, <1>12, <1>13,
           <1>14, <1>15, <1>16, <1>17, <1>18, <1>19 DEF Next, AppStep, ListenerStep, NetworkStep

\* Every step keeps the manager's count and the calls together.
LEMMA ManagerStep == TypeOK /\ ManagerInv /\ PointerInv /\ [Next]_vars => ManagerInv'
<1> SUFFICES ASSUME TypeOK, ManagerInv, PointerInv, [Next]_vars PROVE ManagerInv'
  OBVIOUS
<1> USE DEF TypeOK, ManagerInv, appvars, loopvars, connvars
<1>1. CASE UNCHANGED vars
  BY <1>1, ListenerAssumption DEF vars, appvars, loopvars, connvars
<1>2. CASE process = "up" /\ Start
  BY <1>2, ListenerAssumption DEF Start, Fault
<1>3. CASE process = "up" /\ Send
  BY <1>3, ListenerAssumption DEF Send
<1>4. CASE process = "up" /\ FinalizeInvoke
  <2>1. calls' = calls /\ faults' = faults /\ finished' = finished + 1 /\ app = "run"
    BY <1>4 DEF FinalizeInvoke
  <2>2. CASE ~manager.set
    BY <1>4, <2>1, <2>2 DEF FinalizeInvoke
  <2>3. CASE manager.set /\ LastCall
    <3>1. manager' = [set |-> FALSE, waiting |-> 0]
      BY <1>4, <2>3 DEF FinalizeInvoke
    <3> QED BY <2>1, <2>3, <3>1 DEF LastCall
  <2>4. CASE manager.set /\ ~LastCall
    <3>1. manager'.set = manager.set /\ manager'.waiting = manager.waiting - 1 /\ app' = "run"
      BY <1>4, <2>4 DEF FinalizeInvoke, OneLess
    <3> QED BY <2>1, <2>4, <3>1 DEF LastCall
  <2> QED BY <2>2, <2>3, <2>4
<1>5. CASE process = "up" /\ CloseListenSocket
  BY <1>5, ListenerAssumption DEF CloseListenSocket, FollowFreed
<1>6. CASE process = "up" /\ FreeReceiver
  BY <1>6, ListenerAssumption DEF FreeReceiver, FreedReceiver, Destroy, Stopped, FollowFreed
<1>7. CASE process = "up" /\ FreeServer
  BY <1>7, ListenerAssumption DEF FreeServer, SvrThreadFree, FreedReceiver, FollowFreed
<1>8. ASSUME process = "up", NEW g \in Gen, CreateServer(g) PROVE ManagerInv'
  BY <1>8, ListenerAssumption DEF CreateServer, Keeping, NewServer, Goto, Fault, FollowFreed
<1>9. ASSUME process = "up", NEW g \in Gen, SetWorker(g) PROVE ManagerInv'
  BY <1>9, ListenerAssumption DEF SetWorker, SvrThreadFree, Goto, Fault, FollowFreed, FollowNull
<1>10. ASSUME process = "up", NEW g \in Gen, Run(g) PROVE ManagerInv'
  BY <1>10, ListenerAssumption DEF Run, Goto, FollowFreed, FollowNull
<1>11. ASSUME process = "up", NEW g \in Gen, TestStopped(g) PROVE ManagerInv'
  BY <1>11, ListenerAssumption DEF TestStopped, Goto, FollowFreed
<1>12. ASSUME process = "up", NEW g \in Gen, CallAccept(g) PROVE ManagerInv'
  BY <1>12, ListenerAssumption DEF CallAccept, Goto, FollowFreed
<1>13. ASSUME process = "up", NEW g \in Gen, Dispatch(g) PROVE ManagerInv'
  BY <1>13, ListenerAssumption DEF Dispatch, Refuse, Ended, Goto, Fault, FollowFreed
<1>14. ASSUME process = "up", NEW g \in Gen, AcceptFails(g) PROVE ManagerInv'
  BY <1>14, ListenerAssumption DEF AcceptFails, Goto, Fault
<1>15. ASSUME process = "up", NEW g \in Gen, NEW c \in Conns, AcceptConn(g, c) PROVE ManagerInv'
  BY <1>15, ListenerAssumption DEF AcceptConn, Goto
<1>16. ASSUME process = "up", NEW c \in Conns, ServeConn(c) PROVE ManagerInv'
  BY <1>16, ListenerAssumption DEF ServeConn, ConnFree, Ended, FollowFreed
<1>17. CASE process = "up" /\ FreeNoStream
  BY <1>17, ListenerAssumption DEF FreeNoStream, FollowNull
<1>18. ASSUME process = "up", NEW c \in Conns, Connect(c) PROVE ManagerInv'
  BY <1>18, ListenerAssumption DEF Connect
<1>19. ASSUME process = "up", NEW c \in Conns, Reset(c) PROVE ManagerInv'
  BY <1>19, ListenerAssumption DEF Reset
<1> QED BY <1>1, <1>2, <1>3, <1>4, <1>5, <1>6, <1>7, <1>8, <1>9, <1>10, <1>11, <1>12, <1>13,
           <1>14, <1>15, <1>16, <1>17, <1>18, <1>19 DEF Next, AppStep, ListenerStep, NetworkStep

\* A pointer that is followed without a test was set before.
LEMMA PointerStep == TypeOK /\ ManagerInv /\ PointerInv /\ [Next]_vars => PointerInv'
<1> SUFFICES ASSUME TypeOK, ManagerInv, PointerInv, [Next]_vars PROVE PointerInv'
  OBVIOUS
<1> USE DEF PointerInv, TypeOK, appvars, loopvars, connvars
<1>1. CASE UNCHANGED vars
  BY <1>1, NullNumber DEF vars, appvars, loopvars, connvars
<1>2. CASE process = "up" /\ Start
  <2>1. UNCHANGED <<target, loop>> /\ app = "run" /\ app' = "send"
    BY <1>2 DEF Start
  <2>2. CASE UNCHANGED <<spawned, pc>>
    BY <2>1, <2>2
  <2>3. CASE /\ spawned < MaxGen /\ spawned' = spawned + 1
             /\ pc' = [pc EXCEPT ![spawned + 1] = "create"]
    <3>1. spawned + 1 \in Gen /\ ~(spawned + 1 <= spawned) /\ Gen \subseteq Int
      BY <2>3, ListenerAssumption DEF Gen
    <3>2. pc[spawned + 1] = "none" /\ loop[spawned + 1] = NULL
      BY <3>1
    <3> QED BY <2>1, <2>3, <3>1, <3>2
  <2> QED BY <1>2, <2>2, <2>3 DEF Start
<1>3. CASE process = "up" /\ Send
  BY <1>3, NullNumber DEF Send
<1>4. CASE process = "up" /\ FinalizeInvoke
  BY <1>4, NullNumber DEF FinalizeInvoke, StopServer, Destroy, Stopped, FollowFreed
<1>5. CASE process = "up" /\ CloseListenSocket
  BY <1>5, NullNumber DEF CloseListenSocket, FollowFreed
<1>6. CASE process = "up" /\ FreeReceiver
  BY <1>6, NullNumber DEF FreeReceiver, FreedReceiver, Destroy, Stopped, FollowFreed
<1>7. CASE process = "up" /\ FreeServer
  BY <1>7, NullNumber DEF FreeServer, SvrThreadFree, FreedReceiver, FollowFreed
<1>8. ASSUME process = "up", NEW g \in Gen, CreateServer(g) PROVE PointerInv'
  BY <1>8, NullNumber DEF CreateServer, Keeping, NewServer, Goto, Fault, FollowFreed
<1>9. ASSUME process = "up", NEW g \in Gen, SetWorker(g) PROVE PointerInv'
  BY <1>9, NullNumber DEF SetWorker, SvrThreadFree, Goto, Fault, FollowFreed, FollowNull
<1>10. ASSUME process = "up", NEW g \in Gen, Run(g) PROVE PointerInv'
  BY <1>10, NullNumber DEF Run, Goto, FollowFreed, FollowNull
<1>11. ASSUME process = "up", NEW g \in Gen, TestStopped(g) PROVE PointerInv'
  BY <1>11, NullNumber DEF TestStopped, Goto, FollowFreed
<1>12. ASSUME process = "up", NEW g \in Gen, CallAccept(g) PROVE PointerInv'
  BY <1>12, NullNumber DEF CallAccept, Goto, FollowFreed
<1>13. ASSUME process = "up", NEW g \in Gen, Dispatch(g) PROVE PointerInv'
  BY <1>13, NullNumber DEF Dispatch, Refuse, Ended, Goto, Fault, FollowFreed
<1>14. ASSUME process = "up", NEW g \in Gen, AcceptFails(g) PROVE PointerInv'
  BY <1>14, NullNumber DEF AcceptFails, Goto, Fault
<1>15. ASSUME process = "up", NEW g \in Gen, NEW c \in Conns, AcceptConn(g, c) PROVE PointerInv'
  BY <1>15, NullNumber DEF AcceptConn, Goto
<1>16. ASSUME process = "up", NEW c \in Conns, ServeConn(c) PROVE PointerInv'
  BY <1>16, NullNumber DEF ServeConn, ConnFree, Ended, FollowFreed
<1>17. CASE process = "up" /\ FreeNoStream
  BY <1>17, NullNumber DEF FreeNoStream, FollowNull
<1>18. ASSUME process = "up", NEW c \in Conns, Connect(c) PROVE PointerInv'
  BY <1>18, NullNumber DEF Connect
<1>19. ASSUME process = "up", NEW c \in Conns, Reset(c) PROVE PointerInv'
  BY <1>19, NullNumber DEF Reset
<1> QED BY <1>1, <1>2, <1>3, <1>4, <1>5, <1>6, <1>7, <1>8, <1>9, <1>10, <1>11, <1>12, <1>13,
           <1>14, <1>15, <1>16, <1>17, <1>18, <1>19 DEF Next, AppStep, ListenerStep, NetworkStep

\* The state of the manager, the receiver and the threads keeps its type.
THEOREM TypeCorrect == Spec => []TypeOK
  BY TypeInit, TypeStep, ManagerStep, PointerStep, PTL DEF Spec
-----------------------------------------------------------------------------
(* Freed memory.                                                           *)

\* Nothing is freed before the receiver, unless a worker could not be created.
FreedInv ==
    receiver.mem = "live" /\ faults = 0 => \A g \in Gen : ~Freed(g) /\ workers[g] # "freed"

\* Nothing is freed at the start.
LEMMA FreedInit == Init => FreedInv
  BY DEF Init, FreedInv, Freed, NoServer

\* Without a failure, only freeing the receiver frees servers and workers.
LEMMA FreedStep == TypeOK /\ PointerInv /\ FreedInv /\ [Next]_vars => FreedInv'
<1> SUFFICES ASSUME TypeOK, PointerInv, FreedInv, [Next]_vars PROVE FreedInv'
  OBVIOUS
<1> USE DEF FreedInv, Freed, TypeOK, ServerState, appvars, loopvars, connvars
<1>1. CASE UNCHANGED vars
  BY <1>1, NullNumber DEF vars, appvars, loopvars, connvars
<1>2. CASE process = "up" /\ Start
  BY <1>2, NullNumber DEF Start, Fault
<1>3. CASE process = "up" /\ Send
  BY <1>3, NullNumber DEF Send
<1>4. CASE process = "up" /\ FinalizeInvoke
  BY <1>4, NullNumber DEF FinalizeInvoke, StopServer, Destroy, Stopped, FollowFreed
<1>5. CASE process = "up" /\ CloseListenSocket
  BY <1>5, NullNumber DEF CloseListenSocket, FollowFreed
<1>6. CASE process = "up" /\ FreeReceiver
  <2>1. faults' = faults /\ workers' = workers
    BY Zenon, <1>6 DEF FreeReceiver
  <2>2. CASE receiver'.mem = "freed"
    BY <2>2
  <2>3. CASE receiver'.mem # "freed"
    <3>1. receiver' = receiver /\ (svr' = svr \/ svr' = Stopped(receiver.svr_thread))
      BY <1>6, <2>3 DEF FreeReceiver, FreedReceiver, Destroy
    <3>2. \A g \in Gen : svr'[g].mem = svr[g].mem
      BY <3>1 DEF Stopped
    <3> QED BY <2>1, <3>1, <3>2
  <2> QED BY <2>2, <2>3
<1>7. CASE process = "up" /\ FreeServer
  BY <1>7, NullNumber DEF FreeServer, SvrThreadFree, FreedReceiver, FollowFreed
<1>8. ASSUME process = "up", NEW g \in Gen, CreateServer(g) PROVE FreedInv'
  BY <1>8, NullNumber DEF CreateServer, Keeping, NewServer, Goto, Fault, FollowFreed
<1>9. ASSUME process = "up", NEW g \in Gen, SetWorker(g) PROVE FreedInv'
  <2>1. CASE faults' = faults + 1
    BY <2>1
  <2>2. CASE faults' = faults
    <3>1. receiver' = receiver
      BY Zenon, <1>9 DEF SetWorker
    <3>2. workers' = workers \/ workers' = [workers EXCEPT ![g] = "live"]
      BY <1>9, <2>2 DEF SetWorker, Fault
    <3>3. svr' = svr \/ svr' = [svr EXCEPT ![receiver.svr_thread].worker = g]
      BY <1>9, <2>2 DEF SetWorker, Fault
    <3>4. \A h \in Gen : svr'[h].mem = svr[h].mem
      BY <3>3
    <3>5. \A h \in Gen : workers[h] # "freed" => workers'[h] # "freed"
      BY <3>2
    <3> QED BY <2>2, <3>1, <3>4, <3>5
  <2> QED BY <1>9, <2>1, <2>2 DEF SetWorker, Fault
<1>10. ASSUME process = "up", NEW g \in Gen, Run(g) PROVE FreedInv'
  BY <1>10, NullNumber DEF Run, Goto, FollowFreed, FollowNull
<1>11. ASSUME process = "up", NEW g \in Gen, TestStopped(g) PROVE FreedInv'
  BY <1>11, NullNumber DEF TestStopped, Goto, FollowFreed
<1>12. ASSUME process = "up", NEW g \in Gen, CallAccept(g) PROVE FreedInv'
  BY <1>12, NullNumber DEF CallAccept, Goto, FollowFreed
<1>13. ASSUME process = "up", NEW g \in Gen, Dispatch(g) PROVE FreedInv'
  BY <1>13, NullNumber DEF Dispatch, Refuse, Ended, Goto, Fault, FollowFreed
<1>14. ASSUME process = "up", NEW g \in Gen, AcceptFails(g) PROVE FreedInv'
  BY <1>14, NullNumber DEF AcceptFails, Goto, Fault
<1>15. ASSUME process = "up", NEW g \in Gen, NEW c \in Conns, AcceptConn(g, c) PROVE FreedInv'
  BY <1>15, NullNumber DEF AcceptConn, Goto
<1>16. ASSUME process = "up", NEW c \in Conns, ServeConn(c) PROVE FreedInv'
  BY <1>16, NullNumber DEF ServeConn, ConnFree, Ended, FollowFreed
<1>17. CASE process = "up" /\ FreeNoStream
  BY <1>17, NullNumber DEF FreeNoStream, FollowNull
<1>18. ASSUME process = "up", NEW c \in Conns, Connect(c) PROVE FreedInv'
  BY <1>18, NullNumber DEF Connect
<1>19. ASSUME process = "up", NEW c \in Conns, Reset(c) PROVE FreedInv'
  BY <1>19, NullNumber DEF Reset
<1> QED BY <1>1, <1>2, <1>3, <1>4, <1>5, <1>6, <1>7, <1>8, <1>9, <1>10, <1>11, <1>12, <1>13,
           <1>14, <1>15, <1>16, <1>17, <1>18, <1>19 DEF Next, AppStep, ListenerStep, NetworkStep

\* A thread that follows a pointer finds live memory.
LEMMA FollowStep == TypeOK /\ PointerInv /\ FreedInv /\ StopFreesNothing /\ [Next]_vars =>
    StopFreesNothing'
<1> SUFFICES ASSUME TypeOK, PointerInv, FreedInv, StopFreesNothing, [Next]_vars PROVE
  StopFreesNothing'
  OBVIOUS
<1> USE DEF StopFreesNothing, FreedInv, PointerInv, Freed, TypeOK, appvars, loopvars, connvars
<1>1. CASE UNCHANGED vars
  BY <1>1, NullNumber DEF vars, appvars, loopvars, connvars
<1>2. CASE process = "up" /\ Start
  BY <1>2, NullNumber DEF Start, Fault
<1>3. CASE process = "up" /\ Send
  BY <1>3, NullNumber DEF Send
<1>4. CASE process = "up" /\ FinalizeInvoke
  BY <1>4, NullNumber DEF FinalizeInvoke, StopServer, Destroy, Stopped, FollowFreed
<1>5. CASE process = "up" /\ CloseListenSocket
  BY <1>5, NullNumber DEF CloseListenSocket, FollowFreed
<1>6. CASE process = "up" /\ FreeReceiver
  BY <1>6, NullNumber DEF FreeReceiver, FreedReceiver, Destroy, Stopped, FollowFreed
<1>7. CASE process = "up" /\ FreeServer
  BY <1>7, NullNumber DEF FreeServer, SvrThreadFree, FreedReceiver, FollowFreed
<1>8. ASSUME process = "up", NEW g \in Gen, CreateServer(g) PROVE StopFreesNothing'
  BY <1>8, NullNumber DEF CreateServer, Keeping, NewServer, Goto, Fault, FollowFreed
<1>9. ASSUME process = "up", NEW g \in Gen, SetWorker(g) PROVE StopFreesNothing'
  BY <1>9, NullNumber DEF SetWorker, SvrThreadFree, Goto, Fault, FollowFreed, FollowNull
<1>10. ASSUME process = "up", NEW g \in Gen, Run(g) PROVE StopFreesNothing'
  BY <1>10, NullNumber DEF Run, Goto, FollowFreed, FollowNull
<1>11. ASSUME process = "up", NEW g \in Gen, TestStopped(g) PROVE StopFreesNothing'
  BY <1>11, NullNumber DEF TestStopped, Goto, FollowFreed
<1>12. ASSUME process = "up", NEW g \in Gen, CallAccept(g) PROVE StopFreesNothing'
  BY <1>12, NullNumber DEF CallAccept, Goto, FollowFreed
<1>13. ASSUME process = "up", NEW g \in Gen, Dispatch(g) PROVE StopFreesNothing'
  BY <1>13, NullNumber DEF Dispatch, Refuse, Ended, Goto, Fault, FollowFreed
<1>14. ASSUME process = "up", NEW g \in Gen, AcceptFails(g) PROVE StopFreesNothing'
  BY <1>14, NullNumber DEF AcceptFails, Goto, Fault
<1>15. ASSUME process = "up", NEW g \in Gen, NEW c \in Conns, AcceptConn(g, c)
       PROVE  StopFreesNothing'
  BY <1>15, NullNumber DEF AcceptConn, Goto
<1>16. ASSUME process = "up", NEW c \in Conns, ServeConn(c) PROVE StopFreesNothing'
  BY <1>16, NullNumber DEF ServeConn, ConnFree, Ended, FollowFreed
<1>17. CASE process = "up" /\ FreeNoStream
  BY <1>17, NullNumber DEF FreeNoStream, FollowNull
<1>18. ASSUME process = "up", NEW c \in Conns, Connect(c) PROVE StopFreesNothing'
  BY <1>18, NullNumber DEF Connect
<1>19. ASSUME process = "up", NEW c \in Conns, Reset(c) PROVE StopFreesNothing'
  BY <1>19, NullNumber DEF Reset
<1> QED BY <1>1, <1>2, <1>3, <1>4, <1>5, <1>6, <1>7, <1>8, <1>9, <1>10, <1>11, <1>12, <1>13,
           <1>14, <1>15, <1>16, <1>17, <1>18, <1>19 DEF Next, AppStep, ListenerStep, NetworkStep

\* A stop frees nothing: what the accept loops and the workers follow is freed
\* by the end of the receiver or by a failed start, whatever the interleaving.
THEOREM StopIsSafe == Spec => []StopFreesNothing
<1>1. Init => StopFreesNothing
  BY DEF Init, StopFreesNothing
<1> QED BY <1>1, TypeInit, TypeStep, ManagerStep, PointerStep, FreedInit, FreedStep, FollowStep,
           PTL DEF Spec
-----------------------------------------------------------------------------
(* Null pointers.                                                          *)

\* What is known of the servers: their thread creates them, and they listen
\* until they are stopped.
ServerInv ==
    /\ \A g \in Gen : pc[g] \in {"none", "create"} => svr[g] = NoServer
    /\ \A s \in Gen : svr[s].mem # "none" => svr[s].listen \/ svr[s].stopped
    /\ receiver.svr_thread # NULL => svr[receiver.svr_thread].mem # "none"
    /\ \A g \in Gen : loop[g] # NULL => svr[loop[g]].mem # "none"
    /\ target # NULL => svr[target].mem # "none" /\ svr[target].stopped

\* No step but the creation makes a server, and a stop is final.
ServersKept ==
    \A g \in Gen :
        /\ svr[g].mem = "none" => svr'[g] = svr[g]
        /\ svr[g].mem # "none" => svr'[g].mem # "none" /\ (svr'[g].listen \/ svr'[g].stopped)
        /\ svr[g].stopped => svr'[g].stopped

\* What is done to a server that was created.
LEMMA ServerEffect ==
    ASSUME TypeOK, ServerInv, NEW s \in Gen, svr[s].mem # "none", NEW w,
           \/ svr' = Stopped(s)
           \/ svr' = [svr EXCEPT ![s].worker = w]
           \/ svr[s].stopped /\ svr' = [svr EXCEPT ![s].listen = FALSE]
           \/ svr' = [svr EXCEPT ![s] = [mem |-> "freed", stopped |-> TRUE,
                                        listen |-> FALSE, worker |-> NULL]]
    PROVE  ServersKept
<1> USE DEF TypeOK, ServerState, ServerInv, ServersKept
<1>1. CASE svr' = Stopped(s)
  BY <1>1 DEF Stopped
<1>2. CASE svr' = [svr EXCEPT ![s].worker = w]
  BY <1>2
<1>3. CASE svr[s].stopped /\ svr' = [svr EXCEPT ![s].listen = FALSE]
  BY <1>3
<1>4. CASE svr' = [svr EXCEPT ![s] = [mem |-> "freed", stopped |-> TRUE,
                                      listen |-> FALSE, worker |-> NULL]]
  BY <1>4
<1> QED BY <1>1, <1>2, <1>3, <1>4

\* The steps that change a server through a pointer to it keep all of this.
LEMMA ServersMove ==
    ASSUME TypeOK, PointerInv, ServerInv,
           \/ FinalizeInvoke \/ FreeReceiver \/ CloseListenSocket \/ FreeServer
           \/ \E g \in Gen : SetWorker(g)
    PROVE  ServersKept
<1>1. CASE svr' = svr
  BY <1>1 DEF ServersKept, ServerInv
<1>2. receiver.svr_thread \in Gen \cup {NULL}
  BY DEF TypeOK
<1>3. CASE FinalizeInvoke \/ FreeReceiver
  <2>1. svr' = svr \/ (receiver.svr_thread # NULL /\ svr' = Stopped(receiver.svr_thread))
    BY <1>3 DEF FinalizeInvoke, FreeReceiver, StopServer, Destroy
  <2> QED BY <1>1, <1>2, <2>1, ServerEffect DEF ServerInv
<1>4. CASE CloseListenSocket
  <2>1. target \in Gen
    BY <1>4, NullNumber DEF CloseListenSocket, PointerInv, TypeOK
  <2>2. svr[target].mem # "none" /\ svr[target].stopped
    BY <2>1, NullNumber DEF ServerInv
  <2>3. svr' = svr \/ svr' = [svr EXCEPT ![target].listen = FALSE]
    BY <1>4 DEF CloseListenSocket
  <2> QED BY <1>1, <2>1, <2>2, <2>3, ServerEffect
<1>5. ASSUME FreeServer \/ \E g \in Gen : SetWorker(g) PROVE ServersKept
  <2>1. \/ svr' = svr
        \/ /\ receiver.svr_thread # NULL
           /\ \/ \E g \in Gen : svr' = [svr EXCEPT ![receiver.svr_thread].worker = g]
              \/ svr' = [svr EXCEPT ![receiver.svr_thread] =
                              [mem |-> "freed", stopped |-> TRUE, listen |-> FALSE,
                               worker |-> NULL]]
    BY Zenon, <1>5 DEF FreeServer, SetWorker, SvrThreadFree
  <2> QED BY <1>1, <1>2, <2>1, ServerEffect DEF ServerInv, ServersKept
<1> QED BY <1>3, <1>4, <1>5

\* A step that keeps the servers.
LEMMA KeptInv ==
    ASSUME TypeOK, ServerInv, ServersKept, loop' = loop,
           \A h \in Gen : pc'[h] \in {"none", "create"} => pc[h] \in {"none", "create"},
           receiver'.svr_thread \in {receiver.svr_thread, NULL},
           target' # NULL => svr'[target'].mem # "none" /\ svr'[target'].stopped
    PROVE  ServerInv'
<1>1. \A g \in Gen : pc'[g] \in {"none", "create"} => svr'[g] = NoServer
  <2> SUFFICES ASSUME NEW g \in Gen, pc'[g] \in {"none", "create"} PROVE svr'[g] = NoServer
    OBVIOUS
  <2>1. svr[g] = NoServer
    BY DEF ServerInv
  <2>2. svr[g].mem = "none"
    BY <2>1 DEF NoServer
  <2> QED BY <2>1, <2>2 DEF ServersKept
<1>2. \A s \in Gen : svr'[s].mem # "none" => svr'[s].listen \/ svr'[s].stopped
  BY DEF ServersKept
<1>3. receiver'.svr_thread # NULL => svr'[receiver'.svr_thread].mem # "none"
  BY DEF ServersKept, ServerInv, TypeOK
<1>4. \A g \in Gen : loop'[g] # NULL => svr'[loop'[g]].mem # "none"
  BY DEF ServersKept, ServerInv, TypeOK
<1> QED BY <1>1, <1>2, <1>3, <1>4 DEF ServerInv

\* No server exists at the start.
LEMMA ServerInit == Init => ServerInv
  BY DEF Init, ServerInv, NoServer

\* Every step keeps what is known of the servers.
LEMMA ServerStep == TypeOK /\ PointerInv /\ ServerInv /\ [Next]_vars => ServerInv'
<1> SUFFICES ASSUME TypeOK, PointerInv, ServerInv, [Next]_vars PROVE ServerInv'
  OBVIOUS
<1> USE DEF ServerInv, PointerInv, Freed, TypeOK, ServerState, NoServer, appvars, loopvars,
    connvars
<1>1. CASE UNCHANGED vars
  BY <1>1, NullNumber DEF vars, appvars, loopvars, connvars
<1>2. CASE process = "up" /\ Start
  BY <1>2, NullNumber DEF Start, Fault
<1>3. CASE process = "up" /\ Send
  BY <1>3, NullNumber DEF Send
<1>4. CASE process = "up" /\ FinalizeInvoke
  <2>1. ServersKept
    BY <1>4, ServersMove
  <2>2. UNCHANGED <<pc, loop, receiver>>
    BY Zenon, <1>4 DEF FinalizeInvoke
  <2>3. \/ target' = target
        \/ receiver.svr_thread \in Gen /\ target' = receiver.svr_thread
           /\ svr' = Stopped(receiver.svr_thread)
    BY <1>4, NullNumber DEF FinalizeInvoke, StopServer, Destroy
  <2>4. target' # NULL => svr'[target'].mem # "none" /\ svr'[target'].stopped
    BY <2>1, <2>3, NullNumber DEF ServersKept, Stopped
  <2> QED BY <2>1, <2>2, <2>4, KeptInv
<1>5. CASE process = "up" /\ CloseListenSocket
  <2>1. ServersKept
    BY <1>5, ServersMove
  <2>2. UNCHANGED <<pc, loop, receiver>> /\ target' = NULL
    BY <1>5 DEF CloseListenSocket
  <2> QED BY <2>1, <2>2, KeptInv
<1>6. CASE process = "up" /\ FreeReceiver
  <2>1. ServersKept
    BY <1>6, ServersMove
  <2>2. UNCHANGED <<pc, loop>> /\ (receiver'.svr_thread = NULL \/ receiver' = receiver)
    BY <1>6 DEF FreeReceiver, FreedReceiver
  <2>3. \/ target' = target
        \/ receiver.svr_thread \in Gen /\ target' = receiver.svr_thread
           /\ svr' = Stopped(receiver.svr_thread)
    BY <1>6, NullNumber DEF FreeReceiver, Destroy
  <2>4. target' # NULL => svr'[target'].mem # "none" /\ svr'[target'].stopped
    BY <2>1, <2>3, NullNumber DEF ServersKept, Stopped
  <2> QED BY <2>1, <2>2, <2>4, KeptInv
<1>7. CASE process = "up" /\ FreeServer
  <2>1. ServersKept
    BY <1>7, ServersMove
  <2>2. UNCHANGED <<pc, loop, target>> /\ receiver'.svr_thread = NULL
    BY <1>7 DEF FreeServer, FreedReceiver
  <2>3. target' # NULL => svr'[target'].mem # "none" /\ svr'[target'].stopped
    BY <2>1, <2>2 DEF ServersKept
  <2> QED BY <2>1, <2>2, <2>3, KeptInv
<1>8. ASSUME process = "up", NEW g \in Gen, CreateServer(g) PROVE ServerInv'
  <2>1. UNCHANGED <<loop, target>>
    BY Zenon, <1>8 DEF CreateServer
  <2>2. CASE svr' = svr
    <3>1. receiver' = receiver \/ receiver'.svr_thread = NULL
          \/ svr' = [svr EXCEPT ![g] = NewServer]
      BY <1>8 DEF CreateServer, Keeping
    <3>2. svr[g] = NoServer /\ svr' # [svr EXCEPT ![g] = NewServer]
      BY <1>8, <2>2 DEF CreateServer, NewServer
    <3>3. \A h \in Gen : pc'[h] \in {"none", "create"} => pc[h] \in {"none", "create"}
      BY <1>8 DEF CreateServer, Goto
    <3> QED BY <2>1, <2>2, <3>1, <3>2, <3>3, NullNumber
  <2>3. CASE svr' = [svr EXCEPT ![g] = NewServer] /\ pc' = [pc EXCEPT ![g] = "set_worker"]
             /\ receiver'.svr_thread = g
    <3>1. svr[g] = NoServer
      BY <1>8 DEF CreateServer
    <3>2. \A h \in Gen : svr'[h] = IF h = g THEN NewServer ELSE svr[h]
      BY <2>3
    <3>3. target # g /\ \A h \in Gen : loop[h] # g
      BY <3>1, NullNumber
    <3>4. \A h \in Gen : pc'[h] \in {"none", "create"} => h # g /\ pc[h] \in {"none", "create"}
      BY <2>3
    <3>5. NewServer.mem # "none" /\ NewServer.listen
      BY DEF NewServer
    <3>6. \A h \in Gen : pc'[h] \in {"none", "create"} => svr'[h] = NoServer
      BY <3>2, <3>4
    <3>7. \A s \in Gen : svr'[s].mem # "none" => svr'[s].listen \/ svr'[s].stopped
      BY <3>2, <3>5
    <3>8. target' # NULL => svr'[target'].mem # "none" /\ svr'[target'].stopped
      BY <2>1, <3>2, <3>3
    <3>9. \A h \in Gen : loop'[h] # NULL => svr'[loop'[h]].mem # "none"
      BY <2>1, <3>2, <3>3
    <3> QED BY <2>3, <3>2, <3>5, <3>6, <3>7, <3>8, <3>9
  <2> QED BY <1>8, <2>2, <2>3 DEF CreateServer, Keeping, Goto
<1>9. ASSUME process = "up", NEW g \in Gen, SetWorker(g) PROVE ServerInv'
  <2>1. ServersKept
    BY <1>9, ServersMove
  <2>2. UNCHANGED <<loop, target, receiver>>
    BY Zenon, <1>9 DEF SetWorker
  <2>3. \A h \in Gen : pc'[h] \in {"none", "create"} => pc[h] \in {"none", "create"}
    BY <1>9 DEF SetWorker, Goto
  <2> QED BY <2>1, <2>2, <2>3, KeptInv DEF ServersKept
<1>10. ASSUME process = "up", NEW g \in Gen, Run(g) PROVE ServerInv'
  BY <1>10, NullNumber DEF Run, Goto, FollowFreed, FollowNull
<1>11. ASSUME process = "up", NEW g \in Gen, TestStopped(g) PROVE ServerInv'
  BY <1>11, NullNumber DEF TestStopped, Goto, FollowFreed
<1>12. ASSUME process = "up", NEW g \in Gen, CallAccept(g) PROVE ServerInv'
  BY <1>12, NullNumber DEF CallAccept, Goto, FollowFreed
<1>13. ASSUME process = "up", NEW g \in Gen, Dispatch(g) PROVE ServerInv'
  BY <1>13, NullNumber DEF Dispatch, Refuse, Ended, Goto, Fault, FollowFreed
<1>14. ASSUME process = "up", NEW g \in Gen, AcceptFails(g) PROVE ServerInv'
  BY <1>14, NullNumber DEF AcceptFails, Goto, Fault
<1>15. ASSUME process = "up", NEW g \in Gen, NEW c \in Conns, AcceptConn(g, c) PROVE ServerInv'
  BY <1>15, NullNumber DEF AcceptConn, Goto
<1>16. ASSUME process = "up", NEW c \in Conns, ServeConn(c) PROVE ServerInv'
  BY <1>16, NullNumber DEF ServeConn, ConnFree, Ended, FollowFreed
<1>17. CASE process = "up" /\ FreeNoStream
  BY <1>17, NullNumber DEF FreeNoStream, FollowNull
<1>18. ASSUME process = "up", NEW c \in Conns, Connect(c) PROVE ServerInv'
  BY <1>18, NullNumber DEF Connect
<1>19. ASSUME process = "up", NEW c \in Conns, Reset(c) PROVE ServerInv'
  BY <1>19, NullNumber DEF Reset
<1> QED BY <1>1, <1>2, <1>3, <1>4, <1>5, <1>6, <1>7, <1>8, <1>9, <1>10, <1>11, <1>12, <1>13,
           <1>14, <1>15, <1>16, <1>17, <1>18, <1>19 DEF Next, AppStep, ListenerStep, NetworkStep

\* A failure, or a stop.
Disturbed == faults > 0 \/ \E s \in Gen : svr[s].stopped

\* Without a second start the pointer of the receiver is not null while the
\* thread that set it goes on, and a failed accept is the effect of a failure or
\* of a stop.
NullInv ==
    /\ spawned <= 1 /\ receiver.mem = "live" =>
           \A g \in Gen : pc[g] \in {"set_worker", "run"} => receiver.svr_thread # NULL
    /\ process = "up" => \A g \in Gen : pc[g] = "dispatch" /\ socket[g] = NULL => Disturbed
    /\ bad => Disturbed

\* No pointer of a running thread is null at the start.
LEMMA NullInit == Init => NullInv
  BY DEF Init, NullInv

\* What disturbed the listener stays.
LEMMA DisturbedStep ==
    ASSUME TypeOK, PointerInv, ServerInv, Disturbed, [Next]_vars
    PROVE  Disturbed'
<1>1. faults' = faults \/ Fault
  BY Zenon
  DEF Next, vars, AppStep, ListenerStep, NetworkStep, Start, Send, FinalizeInvoke,
      CloseListenSocket, FreeReceiver, FreeServer, CreateServer, SetWorker, Run, TestStopped,
      CallAccept, Dispatch, AcceptFails, AcceptConn, ServeConn, FreeNoStream, Connect, Reset
<1>2. CASE faults > 0
  BY <1>1, <1>2 DEF Disturbed, Fault, TypeOK
<1>3. ASSUME NEW s \in Gen, svr[s].stopped PROVE svr'[s].stopped
  <2>1. CASE svr' = svr
    BY <1>3, <2>1
  <2>2. ASSUME NEW g \in Gen, CreateServer(g) PROVE svr'[s].stopped
    <3>1. g # s
      BY <1>3, <2>2 DEF CreateServer, ServerInv, NoServer
    <3>2. svr' = svr \/ svr' = [svr EXCEPT ![g] = NewServer]
      BY <2>2 DEF CreateServer
    <3> QED BY <1>3, <3>1, <3>2 DEF TypeOK
  <2>3. CASE ServersKept
    BY <1>3, <2>3 DEF ServersKept
  <2>4. \/ svr' = svr
        \/ \E g \in Gen : CreateServer(g) \/ SetWorker(g)
        \/ FinalizeInvoke \/ FreeReceiver \/ CloseListenSocket \/ FreeServer
    BY DEF Next, vars, AppStep, ListenerStep, NetworkStep, Start, Send, Run, TestStopped,
       CallAccept, Dispatch, AcceptFails, AcceptConn, ServeConn, FreeNoStream, Connect, Reset
  <2> QED BY <2>1, <2>2, <2>3, <2>4, ServersMove
<1> QED BY <1>2, <1>3 DEF Disturbed

\* A second start, a stop or a failure is needed to change that.
LEMMA NullStep == TypeOK /\ PointerInv /\ ServerInv /\ NullInv /\ [Next]_vars => NullInv'
<1> SUFFICES ASSUME TypeOK, PointerInv, ServerInv, NullInv, [Next]_vars PROVE NullInv'
  OBVIOUS
<1> USE DEF NullInv, PointerInv, TypeOK, appvars, loopvars, connvars
<1>0. Disturbed => Disturbed'
  BY DisturbedStep
<1>1. CASE UNCHANGED vars
  BY <1>1, <1>0, NullNumber DEF vars, appvars, loopvars, connvars
<1>2. CASE process = "up" /\ Start
  BY <1>2, <1>0, NullNumber DEF Start, Fault
<1>3. CASE process = "up" /\ Send
  BY <1>3, <1>0, NullNumber DEF Send
<1>4. CASE process = "up" /\ FinalizeInvoke
  BY <1>4, <1>0, NullNumber DEF FinalizeInvoke, StopServer, Destroy, Stopped, FollowFreed
<1>5. CASE process = "up" /\ CloseListenSocket
  BY <1>5, <1>0, NullNumber DEF CloseListenSocket, FollowFreed
<1>6. CASE process = "up" /\ FreeReceiver
  BY <1>6, <1>0, NullNumber DEF FreeReceiver, FreedReceiver, Destroy, Stopped, FollowFreed
<1>7. CASE process = "up" /\ FreeServer
  BY <1>7, <1>0, NullNumber DEF FreeServer, SvrThreadFree, FreedReceiver, FollowFreed
<1>8. ASSUME process = "up", NEW g \in Gen, CreateServer(g) PROVE NullInv'
  <2>1. UNCHANGED <<spawned, socket, bad>>
    BY Zenon, <1>8 DEF CreateServer, connvars
  <2>2. \A h \in Gen : pc'[h] = "dispatch" => pc[h] = "dispatch"
    BY <1>8 DEF CreateServer, Goto
  <2>3. spawned <= 1 => \A h \in Gen : pc[h] # "none" => h = g
    BY <1>8 DEF CreateServer, Gen
  <2>4. spawned <= 1 /\ receiver'.mem = "live" =>
            \A h \in Gen : pc'[h] \in {"set_worker", "run"} => receiver'.svr_thread # NULL
    <3>1. receiver'.svr_thread = g \/ \A h \in Gen : pc'[h] = pc[h] \/ pc'[h] = "done"
      BY <1>8 DEF CreateServer, Keeping, Goto
    <3> QED BY <1>8, <2>3, <3>1, NullNumber DEF CreateServer, Goto
  <2> QED BY <1>8, <1>0, <2>1, <2>2, <2>4
<1>9. ASSUME process = "up", NEW g \in Gen, SetWorker(g) PROVE NullInv'
  BY <1>9, <1>0, NullNumber DEF SetWorker, SvrThreadFree, Goto, Fault, FollowFreed, FollowNull
<1>10. ASSUME process = "up", NEW g \in Gen, Run(g) PROVE NullInv'
  BY <1>10, <1>0, NullNumber DEF Run, Goto, FollowFreed, FollowNull
<1>11. ASSUME process = "up", NEW g \in Gen, TestStopped(g) PROVE NullInv'
  BY <1>11, <1>0, NullNumber DEF TestStopped, Goto, FollowFreed
<1>12. ASSUME process = "up", NEW g \in Gen, CallAccept(g) PROVE NullInv'
  <2>1. UNCHANGED <<spawned, socket, bad, receiver, faults, svr>>
    BY Zenon, <1>12 DEF CallAccept, connvars
  <2>2. \A h \in Gen : pc'[h] \in {"set_worker", "run"} => pc[h] \in {"set_worker", "run"}
    BY <1>12 DEF CallAccept, Goto
  <2>3. loop[g] \in Gen /\ svr[loop[g]].mem # "none"
    BY <1>12 DEF CallAccept, ServerInv
  <2>4. \A h \in Gen : pc'[h] = "dispatch" => pc[h] = "dispatch" \/ ~svr[loop[g]].listen
    BY <1>12 DEF CallAccept, Goto
  <2>5. ~svr[loop[g]].listen => Disturbed
    BY <2>3 DEF ServerInv, Disturbed
  <2> QED BY <1>12, <1>0, <2>1, <2>2, <2>4, <2>5
<1>13. ASSUME process = "up", NEW g \in Gen, Dispatch(g) PROVE NullInv'
  <2>1. UNCHANGED <<spawned, receiver>>
    BY Zenon, <1>13 DEF Dispatch
  <2>2. \A h \in Gen : pc'[h] \in {"set_worker", "run"} => pc[h] \in {"set_worker", "run"}
    BY <1>13 DEF Dispatch, Goto
  <2>3. bad' => bad \/ socket[g] = NULL
    BY Zenon, <1>13 DEF Dispatch
  <2>4. bad' => Disturbed'
    BY <1>13, <1>0, <2>3 DEF Dispatch
  <2>5. process' = "up" =>
            \A h \in Gen : pc'[h] = "dispatch" /\ socket'[h] = NULL => Disturbed'
    BY <1>13, <1>0 DEF Dispatch, Goto, FollowFreed
  <2> QED BY <2>1, <2>2, <2>4, <2>5
<1>14. ASSUME process = "up", NEW g \in Gen, AcceptFails(g) PROVE NullInv'
  <2>1. UNCHANGED <<spawned, socket, bad, receiver, svr>>
    BY Zenon, <1>14 DEF AcceptFails, connvars
  <2>2. \A h \in Gen : pc'[h] \in {"set_worker", "run"} => pc[h] \in {"set_worker", "run"}
    BY <1>14 DEF AcceptFails, Goto
  <2>3. loop[g] \in Gen /\ svr[loop[g]].mem # "none"
    BY <1>14 DEF AcceptFails, ServerInv
  <2>4. svr[loop[g]].listen => faults' > 0
    BY <1>14 DEF AcceptFails, Fault
  <2>5. ~svr[loop[g]].listen => Disturbed
    BY <2>3 DEF ServerInv, Disturbed
  <2>6. Disturbed'
    BY <1>0, <2>4, <2>5 DEF Disturbed
  <2> QED BY <2>1, <2>2, <2>6
<1>15. ASSUME process = "up", NEW g \in Gen, NEW c \in Conns, AcceptConn(g, c) PROVE NullInv'
  BY <1>15, <1>0, NullNumber DEF AcceptConn, Goto
<1>16. ASSUME process = "up", NEW c \in Conns, ServeConn(c) PROVE NullInv'
  BY <1>16, <1>0, NullNumber DEF ServeConn, ConnFree, Ended, FollowFreed
<1>17. CASE process = "up" /\ FreeNoStream
  BY <1>17, <1>0, NullNumber DEF FreeNoStream, FollowNull
<1>18. ASSUME process = "up", NEW c \in Conns, Connect(c) PROVE NullInv'
  BY <1>18, <1>0, NullNumber DEF Connect
<1>19. ASSUME process = "up", NEW c \in Conns, Reset(c) PROVE NullInv'
  BY <1>19, <1>0, NullNumber DEF Reset
<1> QED BY <1>1, <1>2, <1>3, <1>4, <1>5, <1>6, <1>7, <1>8, <1>9, <1>10, <1>11, <1>12, <1>13,
           <1>14, <1>15, <1>16, <1>17, <1>18, <1>19 DEF Next, AppStep, ListenerStep, NetworkStep

\* A null pointer is followed only after one of these.
LEMMA CrashStep ==
    TypeOK /\ PointerInv /\ ServerInv /\ NullInv /\ CrashNeedsStop /\ [Next]_vars
        => CrashNeedsStop'
<1> SUFFICES ASSUME TypeOK, PointerInv, ServerInv, NullInv, CrashNeedsStop, [Next]_vars,
                    process' = "null"
             PROVE  Disturbed' \/ spawned' > 1
  BY DEF CrashNeedsStop, Disturbed
<1>1. CASE UNCHANGED vars
  BY <1>1 DEF vars, loopvars, CrashNeedsStop, Disturbed
<1>2. CASE Next
  <2>1. process = "up"
    BY <1>2 DEF Next
  <2>2. CASE FreeNoStream
    BY <2>2, DisturbedStep DEF FreeNoStream, NullInv
  <2>3. ASSUME NEW g \in Gen, SetWorker(g) \/ Run(g) PROVE spawned' > 1
    <3>1. /\ receiver.mem = "live" /\ receiver.svr_thread = NULL
          /\ pc[g] \in {"set_worker", "run"} /\ spawned' = spawned
      BY <2>1, <2>3 DEF SetWorker, Run, SvrThreadFree, FollowFreed, loopvars
    <3> QED BY <3>1 DEF NullInv, TypeOK
  <2>4. FreeNoStream \/ \E g \in Gen : SetWorker(g) \/ Run(g)
    BY <1>2, <2>1
    DEF Next, AppStep, ListenerStep, NetworkStep, Start, Send, FinalizeInvoke, StopServer, Destroy,
        CloseListenSocket, FreeReceiver, FreeServer, SvrThreadFree, CreateServer, TestStopped,
        CallAccept, Dispatch, AcceptFails, AcceptConn, ServeConn, Connect, Reset, FollowFreed
  <2> QED BY <2>2, <2>3, <2>4
<1> QED BY <1>1, <1>2

\* A process whose listener was started once is ended by a null pointer only
\* after a failure or a stop.
THEOREM StartIsSafe == Spec => []CrashNeedsStop
<1>1. Init => CrashNeedsStop
  BY DEF Init, CrashNeedsStop
<1> QED BY <1>1, TypeInit, TypeStep, ManagerStep, PointerStep, ServerInit, ServerStep, NullInit,
           NullStep, CrashStep, PTL DEF Spec
-----------------------------------------------------------------------------
(* Connections that are forgotten.                                         *)

Leaked == {c \in Conns : conn[c].st = "leaked"}

\* There are finitely many connections.
LEMMA ConnsFinite == IsFiniteSet(Conns)
  BY FS_Interval, ListenerAssumption DEF Conns

\* Only a dispatch that fails forgets a connection, and forgets one.
LEMMA LeakedMove ==
    ASSUME TypeOK, [Next]_vars
    PROVE  \/ Leaked' \subseteq Leaked /\ (faults' = faults \/ Fault)
           \/ Fault /\ \E c \in Conns : Leaked' \subseteq Leaked \cup {c}
<1>1. faults' = faults \/ Fault
  BY Zenon
  DEF Next, vars, AppStep, ListenerStep, NetworkStep, Start, Send, FinalizeInvoke,
      CloseListenSocket, FreeReceiver, FreeServer, CreateServer, SetWorker, Run, TestStopped,
      CallAccept, Dispatch, AcceptFails, AcceptConn, ServeConn, FreeNoStream, Connect, Reset
<1>2. CASE conn' = conn
  BY <1>1, <1>2 DEF Leaked
<1>3. ASSUME NEW c \in Conns, ServeConn(c) PROVE Leaked' \subseteq Leaked
  <2>1. conn' = conn \/ conn' = [conn EXCEPT ![c].st = "closed"]
    BY <1>3, NullNumber DEF ServeConn, ConnFree, Ended
  <2> QED BY <2>1 DEF Leaked, TypeOK, ConnState
<1>4. ASSUME NEW c \in Conns, Connect(c) \/ Reset(c) \/ \E g \in Gen : AcceptConn(g, c)
      PROVE  Leaked' \subseteq Leaked
  BY <1>4 DEF Connect, Reset, AcceptConn, Leaked, TypeOK
<1>5. ASSUME NEW g \in Gen, Dispatch(g)
      PROVE  \/ Leaked' \subseteq Leaked
             \/ Fault /\ \E c \in Conns : Leaked' \subseteq Leaked \cup {c}
  <2>1. socket[g] \in Conns \cup {NULL}
    BY DEF TypeOK
  <2>2. \/ conn' = conn
        \/ conn' = Ended(socket[g], "closed")
        \/ Fault /\ conn' = Ended(socket[g], "leaked")
    BY Zenon, <1>5 DEF Dispatch, Refuse
  <2>3. CASE conn' = conn
    BY <2>3 DEF Leaked
  <2>4. CASE conn' = Ended(socket[g], "closed")
    BY <2>1, <2>4 DEF Ended, Leaked, TypeOK
  <2>5. CASE Fault /\ conn' = Ended(socket[g], "leaked")
    BY <2>1, <2>5 DEF Ended, Leaked, TypeOK
  <2> QED BY <2>2, <2>3, <2>4, <2>5
<1>6. \/ conn' = conn
      \/ \E c \in Conns : \/ ServeConn(c) \/ Connect(c) \/ Reset(c)
                          \/ \E g \in Gen : AcceptConn(g, c)
      \/ \E g \in Gen : Dispatch(g)
  BY Zenon
  DEF Next, vars, connvars, AppStep, ListenerStep, NetworkStep, Start, Send, FinalizeInvoke,
      CloseListenSocket, FreeReceiver, FreeServer, CreateServer, SetWorker, Run, TestStopped,
      CallAccept, AcceptFails, FreeNoStream
<1> QED BY <1>1, <1>2, <1>3, <1>4, <1>5, <1>6

\* A connection is forgotten only when a system call failed.
LEMMA LeakStep == TypeOK /\ LeakNeedsFault /\ [Next]_vars => LeakNeedsFault'
<1> SUFFICES ASSUME TypeOK, LeakNeedsFault, [Next]_vars PROVE LeakNeedsFault'
  OBVIOUS
<1>1. Cardinality(Leaked) <= faults
  BY DEF LeakNeedsFault, Leaked
<1>2. IsFiniteSet(Leaked) /\ Cardinality(Leaked) \in Nat /\ faults \in Nat
  BY ConnsFinite, FS_Subset, FS_CardinalityType DEF Leaked, TypeOK
<1>3. CASE Leaked' \subseteq Leaked /\ (faults' = faults \/ Fault)
  <2>1. Cardinality(Leaked') <= Cardinality(Leaked)
    BY <1>2, <1>3, FS_Subset
  <2>2. Cardinality(Leaked') \in Nat
    BY <1>2, <1>3, FS_Subset, FS_CardinalityType
  <2>3. faults' >= faults /\ faults' \in Nat
    BY <1>2, <1>3 DEF Fault
  <2>4. Cardinality(Leaked') <= faults'
    BY <1>1, <1>2, <2>1, <2>2, <2>3
  <2> QED BY <2>4 DEF LeakNeedsFault, Leaked
<1>4. ASSUME Fault, NEW c \in Conns, Leaked' \subseteq Leaked \cup {c} PROVE LeakNeedsFault'
  <2>1. /\ IsFiniteSet(Leaked \cup {c})
        /\ Cardinality(Leaked \cup {c}) <= Cardinality(Leaked) + 1
    BY <1>2, FS_AddElement
  <2>2. Cardinality(Leaked') <= Cardinality(Leaked \cup {c})
    BY <1>4, <2>1, FS_Subset
  <2>3. Cardinality(Leaked') \in Nat /\ Cardinality(Leaked \cup {c}) \in Nat
    BY <1>4, <2>1, FS_Subset, FS_CardinalityType
  <2>4. faults' = faults + 1
    BY <1>4 DEF Fault
  <2>5. Cardinality(Leaked') <= faults'
    BY <1>1, <1>2, <2>1, <2>2, <2>3, <2>4
  <2> QED BY <2>5 DEF LeakNeedsFault, Leaked
<1> QED BY <1>3, <1>4, LeakedMove

\* Every connection that is forgotten costs a failure, however many connections
\* and listener threads there are.
THEOREM LeaksAreFaults == Spec => []LeakNeedsFault
<1>1. Init => LeakNeedsFault
  <2> SUFFICES ASSUME Init PROVE LeakNeedsFault
    OBVIOUS
  <2>1. Leaked = {} /\ faults = 0
    BY DEF Init, Leaked, NoConn
  <2>2. Cardinality(Leaked) = 0
    BY <2>1, FS_EmptySet
  <2> QED BY <2>1, <2>2 DEF LeakNeedsFault, Leaked
<1> QED BY <1>1, TypeInit, TypeStep, ManagerStep, PointerStep, LeakStep, PTL DEF Spec
-----------------------------------------------------------------------------
(* Calls that wait.                                                        *)

\* No call waits at the start.
LEMMA WaitingInit == Init => WaitingCallsKeepListener
  BY DEF Init, WaitingCallsKeepListener

\* Finalizing one call leaves the listener of the others alone.
LEMMA WaitingStep == TypeOK /\ ManagerInv /\ PointerInv /\ ServerInv /\ WaitingCallsKeepListener
    /\ [Next]_vars => WaitingCallsKeepListener'
<1> SUFFICES ASSUME TypeOK, ManagerInv, PointerInv, ServerInv, WaitingCallsKeepListener,
  [Next]_vars PROVE WaitingCallsKeepListener'
  OBVIOUS
<1> USE DEF WaitingCallsKeepListener, PointerInv, ManagerInv, TypeOK, appvars, loopvars, connvars
<1>1. CASE UNCHANGED vars
  BY <1>1, NullNumber DEF vars, appvars, loopvars, connvars
<1>2. CASE process = "up" /\ Start
  <2>1. UNCHANGED <<receiver, svr, finished>> /\ app = "run"
    BY <1>2 DEF Start
  <2>2. CASE manager.set
    <3>1. UNCHANGED <<spawned, pc, faults>> /\ calls' = calls + 1
      BY <1>2, <2>2 DEF Start
    <3>2. finished < calls
      BY <2>2
    <3> QED BY <2>1, <3>1, <3>2
  <2>3. CASE ~manager.set /\ faults' = 0
    <3>1. spawned < MaxGen /\ spawned' = spawned + 1 /\ pc' = [pc EXCEPT ![spawned + 1] = "create"]
      BY <1>2, <2>3 DEF Start, Fault
    <3>2. spawned + 1 \in Gen
      BY <3>1, ListenerAssumption DEF Gen
    <3> QED BY <3>1, <3>2
  <2> QED BY <2>2, <2>3
<1>3. CASE process = "up" /\ Send
  BY <1>3, NullNumber DEF Send
<1>4. CASE process = "up" /\ FinalizeInvoke
  BY <1>4, NullNumber DEF FinalizeInvoke, StopServer, Destroy, Stopped, FollowFreed
<1>5. CASE process = "up" /\ CloseListenSocket
  BY <1>5, NullNumber DEF CloseListenSocket, FollowFreed
<1>6. CASE process = "up" /\ FreeReceiver
  BY <1>6, NullNumber DEF FreeReceiver, FreedReceiver, Destroy, Stopped, FollowFreed
<1>7. CASE process = "up" /\ FreeServer
  BY <1>7, NullNumber DEF FreeServer, SvrThreadFree, FreedReceiver, FollowFreed
<1>8. ASSUME process = "up", NEW g \in Gen, CreateServer(g) PROVE WaitingCallsKeepListener'
  BY <1>8, NullNumber DEF CreateServer, Keeping, NewServer, Goto, Fault, FollowFreed
<1>9. ASSUME process = "up", NEW g \in Gen, SetWorker(g) PROVE WaitingCallsKeepListener'
  <2>1. spawned \in Gen
    BY <1>9, ListenerAssumption DEF SetWorker, Gen
  <2>2. pc[spawned] = "create" => pc'[spawned] = "create"
    BY <1>9, <2>1 DEF SetWorker, Goto
  <2>3. UNCHANGED <<app, finished, calls, receiver, spawned>>
    BY Zenon, <1>9 DEF SetWorker, appvars
  <2>4. faults' = 0 =>
           /\ faults = 0
           /\ svr' = svr \/ svr' = [svr EXCEPT ![receiver.svr_thread].worker = g]
    BY <1>9 DEF SetWorker, Fault
  <2>5. faults' = 0 => \A s \in Gen : svr'[s].stopped => svr[s].stopped
    BY <2>4 DEF ServerState
  <2> QED BY <2>2, <2>3, <2>4, <2>5, NullNumber
<1>10. ASSUME process = "up", NEW g \in Gen, Run(g) PROVE WaitingCallsKeepListener'
  <2>1. spawned \in Gen
    BY <1>10, ListenerAssumption DEF Run, Gen
  <2>2. pc[spawned] = "create" => pc'[spawned] = "create"
    BY <1>10, <2>1 DEF Run, Goto
  <2>3. UNCHANGED <<app, finished, calls, receiver, spawned, svr>>
    BY Zenon, <1>10 DEF Run, appvars
  <2>4. faults' = 0 => faults = 0
    BY <1>10 DEF Run, Fault
  <2> QED BY <2>2, <2>3, <2>4
<1>11. ASSUME process = "up", NEW g \in Gen, TestStopped(g) PROVE WaitingCallsKeepListener'
  <2>1. spawned \in Gen
    BY <1>11, ListenerAssumption DEF TestStopped, Gen
  <2>2. pc[spawned] = "create" => pc'[spawned] = "create"
    BY <1>11, <2>1 DEF TestStopped, Goto
  <2>3. UNCHANGED <<app, finished, calls, receiver, spawned, svr>>
    BY Zenon, <1>11 DEF TestStopped, appvars
  <2>4. faults' = 0 => faults = 0
    BY <1>11 DEF TestStopped, Fault
  <2> QED BY <2>2, <2>3, <2>4
<1>12. ASSUME process = "up", NEW g \in Gen, CallAccept(g) PROVE WaitingCallsKeepListener'
  <2>1. spawned \in Gen
    BY <1>12, ListenerAssumption DEF CallAccept, Gen
  <2>2. pc[spawned] = "create" => pc'[spawned] = "create"
    BY <1>12, <2>1 DEF CallAccept, Goto
  <2>3. UNCHANGED <<app, finished, calls, receiver, spawned, svr>>
    BY Zenon, <1>12 DEF CallAccept, appvars
  <2>4. faults' = 0 => faults = 0
    BY <1>12 DEF CallAccept, Fault
  <2> QED BY <2>2, <2>3, <2>4
<1>13. ASSUME process = "up", NEW g \in Gen, Dispatch(g) PROVE WaitingCallsKeepListener'
  <2>1. spawned \in Gen
    BY <1>13, ListenerAssumption DEF Dispatch, Gen
  <2>2. pc[spawned] = "create" => pc'[spawned] = "create"
    BY <1>13, <2>1 DEF Dispatch, Goto
  <2>3. UNCHANGED <<app, finished, calls, receiver, spawned, svr>>
    BY Zenon, <1>13 DEF Dispatch, appvars
  <2>4. faults' = 0 => faults = 0
    BY <1>13 DEF Dispatch, Fault
  <2> QED BY <2>2, <2>3, <2>4
<1>14. ASSUME process = "up", NEW g \in Gen, AcceptFails(g) PROVE WaitingCallsKeepListener'
  BY <1>14, NullNumber DEF AcceptFails, Goto, Fault
<1>15. ASSUME process = "up", NEW g \in Gen, NEW c \in Conns, AcceptConn(g, c)
       PROVE  WaitingCallsKeepListener'
  BY <1>15, NullNumber DEF AcceptConn, Goto
<1>16. ASSUME process = "up", NEW c \in Conns, ServeConn(c) PROVE WaitingCallsKeepListener'
  BY <1>16, NullNumber DEF ServeConn, ConnFree, Ended, FollowFreed
<1>17. CASE process = "up" /\ FreeNoStream
  BY <1>17, NullNumber DEF FreeNoStream, FollowNull
<1>18. ASSUME process = "up", NEW c \in Conns, Connect(c) PROVE WaitingCallsKeepListener'
  BY <1>18, NullNumber DEF Connect
<1>19. ASSUME process = "up", NEW c \in Conns, Reset(c) PROVE WaitingCallsKeepListener'
  BY <1>19, NullNumber DEF Reset
<1> QED BY <1>1, <1>2, <1>3, <1>4, <1>5, <1>6, <1>7, <1>8, <1>9, <1>10, <1>11, <1>12, <1>13,
           <1>14, <1>15, <1>16, <1>17, <1>18, <1>19 DEF Next, AppStep, ListenerStep, NetworkStep

\* The count of waiting calls protects them: no stop reaches the server of a
\* call that still waits for its answer.
THEOREM WaitingCallsSafe == Spec => []WaitingCallsKeepListener
  BY TypeInit, TypeStep, ManagerStep, PointerStep, ServerInit, ServerStep, WaitingInit,
     WaitingStep, PTL DEF Spec
=============================================================================
