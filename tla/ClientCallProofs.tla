-------------------------- MODULE ClientCallProofs --------------------------
(***************************************************************************)
(* Proofs about ClientCall, for any number of calls, receiver threads and  *)
(* delivered copies and for any timeouts.                                  *)
(***************************************************************************)
EXTENDS ClientCall, TLAPS

(* The type invariant is inductive together with what the indices used by   *)
(* the application thread and the receiver threads denote.                  *)
Bounds ==
    /\ app \notin {"idle", "freed"} => n \in Calls
    /\ \A t \in Threads : listener[t].pc # "idle" => listener[t].call \in Calls
    /\ \A c \in Calls : c > n => kind[c] = "none"
    /\ \A c \in Calls : block[c] # NULL <=> kind[c] \in WithCallback
    /\ app = "wait" => kind[n] = "dual_blocking"

\* Updating a function at one point keeps its type.
LEMMA ExceptType ==
    ASSUME NEW S, NEW T, NEW f \in [S -> T], NEW x, NEW v \in T
    PROVE  [f EXCEPT ![x] = v] \in [S -> T]
  OBVIOUS

\* The initial state has the types.
LEMMA TypeInit == Init => TypeOK /\ Bounds
<1>1. 0 \in 0..MaxCalls /\ 0 \in 0..MaxCopies
  BY ClientAssumption
<1> QED
  BY <1>1 DEF Init, TypeOK, Bounds, Idle, Thread, ThreadType, NULL, Unset, Calls, KindNames,
     WithCallback, Async

\* Completing a callback keeps the types of its fields.
LEMMA CompleteType ==
    ASSUME NEW c, NEW b, NEW stage, NEW e \in Calls \cup {NULL},
           CompleteStep(c, b, stage, e),
           envelope \in [Calls -> Calls \cup {NULL}],
           on_complete \in [Calls -> Nat], complete \in [Calls -> BOOLEAN]
    PROVE  /\ envelope' \in [Calls -> Calls \cup {NULL}]
           /\ on_complete' \in [Calls -> Nat]
           /\ complete' \in [Calls -> BOOLEAN]
<1>1. CASE SetEnvelope(b, e)
  BY <1>1, ExceptType DEF SetEnvelope
<1>2. CASE OnComplete(b)
  <2>1. CASE b \in Calls
    BY <1>2, <2>1 DEF OnComplete
  <2>2. CASE b \notin Calls
    BY <1>2, <2>2 DEF OnComplete
  <2> QED BY <2>1, <2>2
<1>3. CASE SetComplete(b)
  BY <1>3, ExceptType DEF SetComplete
<1> QED BY <1>1, <1>2, <1>3 DEF CompleteStep

\* Every action keeps the types.
LEMMA TypeStep == TypeOK /\ Bounds /\ [Next]_vars => TypeOK' /\ Bounds'
<1> SUFFICES ASSUME TypeOK, Bounds, [Next]_vars PROVE TypeOK' /\ Bounds'
  OBVIOUS
<1> USE ClientAssumption
<1>0. Calls \subseteq Int /\ NULL \in Int
  BY DEF Calls, NULL
<1>1. ASSUME NEW k \in KindNames, Call(k) PROVE TypeOK' /\ Bounds'
  <2>1. n + 1 \in Calls /\ n + 1 \in 0..MaxCalls /\ k \in KindNames
    BY <1>1 DEF Call, TypeOK, Calls
  <2>2. freed' \subseteq Calls
    BY <1>1, <1>0 DEF Call, FreeLast, TypeOK
  <2>3. /\ block' \in [Calls -> Calls \cup {NULL}] /\ complete' \in [Calls -> BOOLEAN]
        /\ envelope' \in [Calls -> Calls \cup {NULL}]
        /\ on_complete' \in [Calls -> Nat]
        /\ \A c \in Calls : c # n + 1 => block'[c] = block[c]
        /\ k \in WithCallback => block'[n + 1] \in Calls
        /\ k \notin WithCallback => block'[n + 1] = block[n + 1]
    <3>1. CASE k \in WithCallback
      <4>1. PICK b \in Reusable \cup {n + 1} :
              /\ block' = [block EXCEPT ![n + 1] = b]
              /\ complete' = [complete EXCEPT ![b] = FALSE]
              /\ envelope' = [envelope EXCEPT ![b] = NULL]
              /\ on_complete' = [on_complete EXCEPT ![b] = 0]
        BY <1>1, <3>1 DEF Call, CreateCallback
      <4>2. b \in Calls
        BY <2>1 DEF Reusable
      <4> QED BY <2>1, <3>1, <4>1, <4>2, ExceptType DEF TypeOK
    <3>2. CASE k \notin WithCallback
      BY <1>1, <3>2 DEF Call, CreateCallback, callback, TypeOK
    <3> QED BY <3>1, <3>2
  <2>4. /\ kind' = [kind EXCEPT ![n + 1] = k] /\ kind' \in [Calls -> KindNames \cup {"none"}]
        /\ app' = "execute" /\ n' = n + 1 /\ UNCHANGED listener
    BY <1>1, <2>1 DEF Call, TypeOK, netvars
  <2>5. kind[n + 1] = "none" /\ block[n + 1] = NULL /\ n \in Int /\ NULL \notin Calls
    <3>1. n \in Int /\ n + 1 > n /\ NULL \notin Calls
      BY DEF TypeOK, NULL, Calls
    <3>2. kind[n + 1] = "none"
      BY <2>1, <3>1 DEF Bounds
    <3>3. block[n + 1] = NULL
      BY <2>1, <3>2 DEF Bounds, WithCallback, Async
    <3> QED BY <3>1, <3>2, <3>3
  <2>6. Bounds'
    <3>1. \A c \in Calls : block'[c] # NULL <=> kind'[c] \in WithCallback
      BY <2>1, <2>3, <2>4, <2>5 DEF Bounds, TypeOK
    <3>2. \A c \in Calls : c > n' => kind'[c] = "none"
      BY <1>0, <2>1, <2>4, <2>5 DEF Bounds, TypeOK
    <3> QED BY <2>1, <2>4, <3>1, <3>2 DEF Bounds, TypeOK, Calls
  <2> QED
    BY <1>1, <2>1, <2>2, <2>3, <2>4, <2>6 DEF Call, TypeOK, sendvars, netvars
<1>1a. ASSUME Execute PROVE TypeOK' /\ Bounds'
  <2>1. UNCHANGED <<n, kind, block, listener>> /\ app' # "wait" /\ n \in Calls
    BY <1>1a DEF Execute, netvars, callback, Bounds
  <2>2. Bounds'
    BY <2>1 DEF Bounds, TypeOK, Calls
  <2>3. /\ worker' \in {worker, [worker EXCEPT ![n] = "send"]}
        /\ app' \in {"two_way", "spawn", "send", "enter"}
    BY <1>1a DEF Execute, TypeOK
  <2> QED BY <1>1a, <2>2, <2>3, ExceptType DEF Execute, TypeOK, netvars, callback
<1>1b. ASSUME ExecuteFails PROVE TypeOK' /\ Bounds'
  <2>1. n \in Calls
    BY <1>1b DEF ExecuteFails, Bounds
  <2>2. /\ result' \in [Calls -> Int] /\ index' \in [Calls -> Int]
        /\ seen' \subseteq Calls /\ app' \in {"idle", "wait"}
    <3>1. /\ seen' \subseteq Calls /\ app' \in {"idle", "wait"}
          /\ result' \in {result, [result EXCEPT ![n] = NULL]}
          /\ index' \in {index, [index EXCEPT ![n] = CallTimeout]}
      BY <1>1b, <2>1 DEF ExecuteFails, TypeOK
    <3> QED BY <3>1, <1>0, ExceptType DEF TypeOK
  <2>3. app' = "wait" => kind[n] = "dual_blocking"
    BY <1>1b DEF ExecuteFails
  <2> QED
    BY <1>1b, <2>1, <2>2, <2>3 DEF ExecuteFails, TypeOK, Bounds, sendvars,
       netvars, callback
<1>2. ASSUME Spawn PROVE TypeOK' /\ Bounds'
  BY <1>2 DEF Spawn, TypeOK, Bounds, netvars, callback
<1>3. ASSUME DualEnter PROVE TypeOK' /\ Bounds'
  BY <1>3 DEF DualEnter, AfterDual, TypeOK, Bounds, sendvars, netvars, callback
<1>4. ASSUME AddCallback PROVE TypeOK' /\ Bounds'
  BY <1>4, <1>0 DEF AddCallback, AfterDual, TypeOK, Bounds, sendvars, callback
<1>5. ASSUME DualSend PROVE TypeOK' /\ Bounds'
  <2>1. /\ n \in Calls /\ seen' \subseteq Calls /\ sent' \subseteq Calls
        /\ send_failed' \subseteq Calls /\ app' \in {"idle", "wait"}
        /\ app' = "wait" => kind[n] = "dual_blocking"
        /\ result' \in {result, [result EXCEPT ![n] = n]}
    BY <1>5 DEF DualSend, AfterDual, TypeOK, Bounds
  <2>2. result' \in [Calls -> Int]
    BY <1>0, <2>1, ExceptType DEF TypeOK
  <2> QED
    BY <1>5, <2>1, <2>2 DEF DualSend, TypeOK, Bounds, callback
<1>5a. ASSUME DualSpins PROVE TypeOK' /\ Bounds'
  BY <1>5a DEF DualSpins, TypeOK, Bounds, sendvars, callback
<1>6. ASSUME DualWait PROVE TypeOK' /\ Bounds'
  <2>1. n \in Calls /\ envelope[block[n]] \in Int /\ NULL \in Int
    BY <1>6, <1>0 DEF DualWait, TypeOK, Bounds, WithCallback
  <2>2. result' \in [Calls -> Int]
    BY <1>6, <2>1 DEF DualWait, TypeOK
  <2>3. index' \in [Calls -> Int]
    BY <1>6, <2>1 DEF DualWait, Decrement, TypeOK
  <2>4. seen' \subseteq Calls /\ app' \in {"idle", "wait"}
    BY <1>6, <2>1 DEF DualWait, TypeOK
  <2> QED
    BY <1>6, <2>1, <2>2, <2>3, <2>4 DEF DualWait, TypeOK, Bounds, sendvars,
       netvars, callback
<1>7. ASSUME TwoWayReturn PROVE TypeOK' /\ Bounds'
  BY <1>7, <1>0 DEF TwoWayReturn, TypeOK, Bounds, netvars, callback
<1>8. ASSUME Poll PROVE TypeOK' /\ Bounds'
  <2>1. op_client \in Calls /\ envelope[block[op_client]] \in Int
    BY <1>8, <1>0 DEF Poll, TypeOK, Bounds, WithCallback
  <2> QED
    BY <1>8, <2>1 DEF Poll, TypeOK, Bounds, sendvars, netvars, callback
<1>9. ASSUME SvcClientFree PROVE TypeOK' /\ Bounds'
  BY <1>9, <1>0 DEF SvcClientFree, FreeLast, TypeOK, Bounds, sendvars, netvars,
                    callback
<1>10. ASSUME NEW c \in Calls, TwoWaySend(c) PROVE TypeOK' /\ Bounds'
  <2>1. arrived' \in [Calls -> BOOLEAN]
    BY <1>10 DEF TwoWaySend, TypeOK
  <2>2. err' \in [Calls -> {"SUCCESS", "FAILURE"}]
    BY <1>10 DEF TwoWaySend, StatusOnFailure, TypeOK
  <2>3. index' \in [Calls -> Int]
    BY <1>10 DEF TwoWaySend, TypeOK
  <2>4. /\ worker' \in [Calls -> {"off", "op_ctx", "send", "spinning", "wait",
                             "returned", "set_envelope", "on_complete", "set_complete",
                             "finished", "done"}]
        /\ response' \in [Calls -> {"none", "NULL", "empty", "answer"}]
        /\ send_failed' \subseteq Calls
    BY <1>10 DEF TwoWaySend, Answer, To, TypeOK
  <2> QED
    BY <1>10, <2>1, <2>2, <2>3, <2>4 DEF TwoWaySend, two_way_unmoved, TypeOK,
       Bounds, appvars, netvars, callback
<1>10a. ASSUME NEW c \in Calls, TwoWaySpins(c) PROVE TypeOK' /\ Bounds'
  BY <1>10a DEF TwoWaySpins, To, two_way_unmoved, TypeOK, Bounds, appvars,
                netvars, callback
<1>11. ASSUME NEW c \in Calls, TwoWayWait(c) PROVE TypeOK' /\ Bounds'
  BY <1>11 DEF TwoWayWait, Decrement, Answer, To, two_way_unmoved, TypeOK,
               Bounds, appvars, netvars, callback
<1>12. ASSUME NEW c \in Calls, TwoWayTimeout(c) PROVE TypeOK' /\ Bounds'
  BY <1>12 DEF TwoWayTimeout, Answer, To, two_way_unmoved, TypeOK, Bounds,
               appvars, netvars, callback
<1>13. ASSUME NEW c \in Calls, EnvelopeArrives(c) PROVE TypeOK' /\ Bounds'
  BY <1>13 DEF EnvelopeArrives, two_way_unmoved, TypeOK, Bounds, appvars,
               netvars, callback
<1>14. ASSUME NEW c \in Calls, WorkerOpCtx(c) PROVE TypeOK' /\ Bounds'
  BY <1>14 DEF WorkerOpCtx, To, UseOpClient, worker_unmoved, TypeOK, Bounds,
               appvars, netvars, callback
<1>15. ASSUME NEW c \in Calls, WorkerResult(c) PROVE TypeOK' /\ Bounds'
  BY <1>15 DEF WorkerResult, To, UseOpClient, worker_unmoved, TypeOK, Bounds,
               appvars, netvars, callback
<1>16. ASSUME NEW c \in Calls, WorkerComplete(c) PROVE TypeOK' /\ Bounds'
  <2>1. /\ envelope' \in [Calls -> Calls \cup {NULL}]
        /\ on_complete' \in [Calls -> Nat]
        /\ complete' \in [Calls -> BOOLEAN]
    <3>1. PICK e \in AsyncResult(c) : CompleteStep(c, block[c], worker[c], e)
      BY <1>16 DEF WorkerComplete
    <3>2. 1..n \subseteq Calls
      BY DEF TypeOK, Calls
    <3>3. e \in Calls \cup {NULL}
      BY <3>1, <3>2 DEF AsyncResult, Returned
    <3> QED BY <3>1, <3>3, CompleteType DEF TypeOK
  <2>2. worker' \in [Calls -> {"off", "op_ctx", "send", "spinning", "wait",
                             "returned", "set_envelope", "on_complete", "set_complete",
                             "finished", "done"}]
    BY <1>16 DEF WorkerComplete, To, After, TypeOK
  <2>3. misused' \subseteq Calls /\ block' = block /\ op_misused' \subseteq Calls
    BY <1>16 DEF WorkerComplete, CompleteStep, UseCallback, UseOpClient, TypeOK
  <2> QED
    BY <1>16, <2>1, <2>2, <2>3 DEF WorkerComplete, worker_unmoved, TypeOK,
       Bounds, appvars, netvars
<1>17. ASSUME NEW c \in Calls, WorkerCleanup(c) PROVE TypeOK' /\ Bounds'
  BY <1>17 DEF WorkerCleanup, To, UseOpClient, worker_unmoved, TypeOK, Bounds,
               appvars, netvars, callback
<1>18. ASSUME NEW t \in Threads, CallbackLookup(t) PROVE TypeOK' /\ Bounds'
  <2>1. PICK th \in {Idle, Thread("set_envelope", listener[t].call,
                                  CallbackOf(listener[t].call))} :
           listener' = [listener EXCEPT ![t] = th]
    BY <1>18 DEF CallbackLookup
  <2>2. listener[t].call \in Calls
    BY <1>18 DEF CallbackLookup, Bounds
  <2>3. th \in ThreadType /\ (th.pc # "idle" => th.call \in Calls)
    BY <2>1, <2>2 DEF Idle, Thread, ThreadType, CallbackOf, TypeOK
  <2>4. listener' \in [Threads -> ThreadType]
    BY <2>1, <2>3, ExceptType DEF TypeOK
  <2>5. Bounds'
    BY <1>18, <2>1, <2>3 DEF CallbackLookup, Bounds, TypeOK, listener_unmoved,
       appvars, Calls, callback
  <2>6. unmatched' \subseteq Calls /\ misused' \subseteq Calls
    BY <1>18, <2>2 DEF CallbackLookup, TypeOK
  <2> QED
    BY <1>18, <2>4, <2>5, <2>6 DEF CallbackLookup, listener_unmoved, TypeOK,
       appvars, sendvars, callback
<1>19. ASSUME NEW t \in Threads, CallbackReceive(t) PROVE TypeOK' /\ Bounds'
  <2> DEFINE b == listener[t].callback
             e == listener[t].call
  <2>1. e \in Calls \cup {NULL} /\ CompleteStep(e, b, listener[t].pc, e)
    BY <1>19 DEF CallbackReceive, TypeOK, ThreadType
  <2>2. listener[t].pc \in {"set_envelope", "on_complete", "set_complete"}
    BY <2>1 DEF CompleteStep
  <2>3. listener' = [listener EXCEPT ![t] = ThreadAfter(listener[t])]
    BY <1>19 DEF CallbackReceive
  <2>4. /\ ThreadAfter(listener[t]) \in ThreadType
        /\ ThreadAfter(listener[t]).pc # "idle" =>
              ThreadAfter(listener[t]).call = listener[t].call
    BY <2>2 DEF ThreadAfter, After, Idle, Thread, ThreadType, TypeOK
  <2>5. listener' \in [Threads -> ThreadType]
    BY <2>3, <2>4, ExceptType DEF TypeOK
  <2>6. Bounds'
    BY <1>19, <2>1, <2>2, <2>3, <2>4 DEF CallbackReceive, CompleteStep, Bounds,
       listener_unmoved, appvars, TypeOK, Calls
  <2> HIDE DEF b, e
  <2>7. /\ envelope' \in [Calls -> Calls \cup {NULL}]
        /\ on_complete' \in [Calls -> Nat]
        /\ complete' \in [Calls -> BOOLEAN]
    BY <2>1, CompleteType DEF TypeOK
  <2>8. misused' \subseteq Calls /\ block' = block
    <3>1. freed \subseteq Calls
      BY DEF TypeOK
    <3> QED BY <2>1, <3>1 DEF CompleteStep, UseCallback, TypeOK
  <2> QED
    BY <1>19, <2>5, <2>6, <2>7, <2>8 DEF CallbackReceive, listener_unmoved,
       TypeOK, appvars, sendvars
<1>20. ASSUME NEW t \in Threads, NEW c \in Calls, ResponseArrives(t, c)
       PROVE  TypeOK' /\ Bounds'
  <2> DEFINE th == Thread("lookup", c, NULL)
  <2>1. th \in ThreadType /\ th.call = c
    BY DEF Thread, ThreadType
  <2>2. listener' = [listener EXCEPT ![t] = th]
    BY <1>20 DEF ResponseArrives
  <2> HIDE DEF th
  <2>3. listener' \in [Threads -> ThreadType]
    BY <2>1, <2>2, ExceptType DEF TypeOK
  <2>4. Bounds'
    BY <1>20, <2>1, <2>2 DEF ResponseArrives, Bounds, listener_unmoved, appvars,
       TypeOK, Calls, callback
  <2> QED
    BY <1>20, <2>3, <2>4 DEF ResponseArrives, listener_unmoved, TypeOK, appvars,
       sendvars, callback
<1>21. ASSUME UNCHANGED vars PROVE TypeOK' /\ Bounds'
  BY <1>21 DEF vars, appvars, sendvars, callback, netvars, TypeOK, Bounds
<1> QED
  BY <1>1, <1>1a, <1>1b, <1>2, <1>3, <1>4, <1>5, <1>5a, <1>6, <1>7, <1>8, <1>9,
     <1>10, <1>10a, <1>11, <1>12,
     <1>13, <1>14, <1>15, <1>16, <1>17, <1>18, <1>19, <1>20, <1>21
     DEF Next, AppStep, CallStep, ListenerStep,
         SendRobust, SendReceive, SendReceiveNonBlocking

\* Every reachable state of ClientCall has the types.
THEOREM TypeCorrect == Spec => []TypeOK
  BY TypeInit, TypeStep, PTL DEF Spec
-----------------------------------------------------------------------------
(* What the kind of a call says about who works for it, and which calls     *)
(* were freed.                                                              *)

Active(t) == listener[t].pc # "idle"
Listening == {"dual_robust", "dual_blocking", "dual"}

\* The application has not handed its call to a worker or to the network.
Starting == {"execute", "spawn", "enter", "add_callback", "send"}

\* A call is sent by two_way_send, by a worker, or through the separate channel;
\* receiver threads only work for calls of the last kind, and those that wait.
KindInv ==
    /\ \A c \in Calls : worker[c] # "off" => kind[c] \in OneChannel \cup {"non_blocking"}
    /\ \A c \in Calls :
          worker[c] \in {"op_ctx", "set_envelope", "on_complete", "set_complete", "finished"}
             => kind[c] = "non_blocking"
    /\ \A c \in sent : kind[c] \in Listening
    /\ app \in Starting => kind[n] # "none" /\ worker[n] = "off" /\ n \notin sent
    /\ app \in {"enter", "add_callback"} => kind[n] \in {"dual", "dual_blocking"}
    /\ app \in {"send", "spinning"} => kind[n] \in Listening
    /\ app = "spawn" => kind[n] = "non_blocking"
    /\ app = "two_way" => kind[n] \in OneChannel
    /\ \A t \in Threads : Active(t) =>
          listener[t].call \in sent /\ kind[listener[t].call] # "dual_robust"

\* Nobody works before the first call.
LEMMA KindInit == Init => KindInv
  BY DEF Init, KindInv, Starting, Active, Idle, Thread

\* Every action keeps a call with those that its kind names.
LEMMA KindStep == TypeOK /\ Bounds /\ KindInv /\ [Next]_vars => KindInv'
<1> SUFFICES ASSUME TypeOK, Bounds, KindInv, [Next]_vars PROVE KindInv'
  OBVIOUS
<1> USE DEF KindInv, Starting, Active, Listening, TypeOK, Bounds, appvars, sendvars,
    callback, netvars, two_way_unmoved, worker_unmoved, listener_unmoved
<1>1. ASSUME NEW k \in KindNames, Call(k) PROVE KindInv'
  <2>1. /\ n \in Int /\ n + 1 > n /\ n + 1 \in Calls /\ n' = n + 1 /\ app' = "execute"
        /\ UNCHANGED <<worker, sent, listener>>
    BY <1>1, ClientAssumption DEF Call, Calls
  <2>2. kind[n + 1] = "none" /\ kind'[n + 1] # "none" /\ \A c \in Calls : c # n + 1 => kind'[c] = kind[c]
    BY <1>1, <2>1, ClientAssumption DEF Call, KindNames
  <2>3. worker[n + 1] = "off" /\ n + 1 \notin sent
    BY <2>1, <2>2 DEF OneChannel
  <2> QED BY <2>1, <2>2, <2>3
<1>2. ASSUME Execute PROVE KindInv'
  <2>1. n \in Calls /\ worker[n] = "off" /\ n \notin sent /\ UNCHANGED <<n, kind, sent, listener>>
    BY <1>2 DEF Execute
  <2>2. /\ kind[n] \in OneChannel => worker' = [worker EXCEPT ![n] = "send"] /\ app' = "two_way"
        /\ kind[n] \notin OneChannel => worker' = worker
    <3>1. CASE kind[n] \in OneChannel
      <4>1. worker' = [worker EXCEPT ![n] = "send"]
        BY <1>2, <3>1 DEF Execute
      <4>2. app' = "two_way"
        BY <1>2, <3>1 DEF Execute, OneChannel
      <4> QED BY <3>1, <4>1, <4>2
    <3>2. CASE kind[n] \notin OneChannel
      <4>1. worker' = [worker EXCEPT ![n] = worker[n]]
        BY <1>2, <3>2 DEF Execute
      <4> QED BY <3>2, <4>1
    <3> QED BY <3>1, <3>2
  <2>3. kind[n] \notin OneChannel =>
           \/ kind[n] = "non_blocking" /\ app' = "spawn"
           \/ kind[n] = "dual_robust" /\ app' = "send"
           \/ kind[n] \notin OneChannel \cup {"non_blocking", "dual_robust"} /\ app' = "enter"
    BY <1>2 DEF Execute
  <2>4. kind[n] # "none" /\ kind[n] \in KindNames \cup {"none"}
    BY <1>2, <2>1 DEF Execute
  <2>5. CASE kind[n] \in OneChannel
    BY <2>1, <2>2, <2>5 DEF OneChannel
  <2>6. CASE kind[n] \notin OneChannel
    BY <2>1, <2>2, <2>3, <2>4, <2>6 DEF OneChannel, KindNames
  <2> QED BY <2>5, <2>6
<1>3. ASSUME ExecuteFails PROVE KindInv'
  BY <1>3 DEF ExecuteFails
<1>4. ASSUME Spawn PROVE KindInv'
  BY <1>4 DEF Spawn
<1>5. ASSUME DualEnter \/ AddCallback PROVE KindInv'
  BY <1>5 DEF DualEnter, AddCallback, AfterDual
<1>6. ASSUME DualSend \/ DualSpins PROVE KindInv'
  <2>1. /\ n \in Calls /\ kind[n] \in Listening /\ app' \in {"idle", "wait", "spinning"}
        /\ sent' \subseteq sent \cup {n} /\ sent \subseteq sent'
        /\ UNCHANGED <<n, kind, worker, listener>>
    BY <1>6 DEF DualSend, DualSpins, AfterDual
  <2> QED BY <2>1
<1>7. ASSUME DualWait \/ Poll \/ SvcClientFree PROVE KindInv'
  BY <1>7 DEF DualWait, Poll, SvcClientFree
<1>8. ASSUME TwoWayReturn PROVE KindInv'
  BY <1>8 DEF TwoWayReturn
<1>9. ASSUME NEW c \in Calls,
             \/ TwoWaySend(c) \/ TwoWaySpins(c) \/ TwoWayWait(c) \/ TwoWayTimeout(c)
             \/ EnvelopeArrives(c) \/ WorkerOpCtx(c) \/ WorkerResult(c) \/ WorkerCleanup(c)
             \/ WorkerComplete(c)
      PROVE  KindInv'
  <2>1. UNCHANGED <<n, kind, app, sent, listener>>
    BY <1>9 DEF TwoWaySend, TwoWaySpins, TwoWayWait, TwoWayTimeout, EnvelopeArrives,
       WorkerOpCtx, WorkerResult, WorkerCleanup, WorkerComplete
  <2>2. /\ worker[c] # "off" /\ \A d \in Calls : d # c => worker'[d] = worker[d]
        /\ \/ worker'[c] \in {"send", "returned", "wait", "spinning", "done"}
           \/ kind[c] = "non_blocking"
    <3>1. CASE WorkerOpCtx(c) \/ WorkerResult(c) \/ WorkerCleanup(c)
      BY <3>1 DEF WorkerOpCtx, WorkerResult, WorkerCleanup, To
    <3>2. CASE WorkerComplete(c)
      BY <3>2 DEF WorkerComplete, CompleteStep, To
    <3>3. CASE TwoWaySend(c) \/ TwoWaySpins(c) \/ TwoWayWait(c) \/ TwoWayTimeout(c)
      BY <3>3 DEF TwoWaySend, TwoWaySpins, TwoWayWait, TwoWayTimeout, Answer, To
    <3>4. CASE EnvelopeArrives(c)
      BY <3>4 DEF EnvelopeArrives
    <3> QED BY <1>9, <3>1, <3>2, <3>3, <3>4
  <2> QED BY <2>1, <2>2
<1>10. ASSUME NEW t \in Threads, ListenerStep(t) PROVE KindInv'
  <2>1. UNCHANGED <<n, kind, app, worker, sent>>
    BY <1>10 DEF ListenerStep, CallbackLookup, CallbackReceive
  <2>2. /\ Active(t) /\ \A u \in Threads : u # t => listener'[u] = listener[u]
        /\ listener'[t].pc # "idle" => listener'[t].call = listener[t].call
    BY <1>10 DEF ListenerStep, CallbackLookup, CallbackReceive, CompleteStep, ThreadAfter,
       Idle, Thread
  <2> QED BY <2>1, <2>2
<1>11. ASSUME NEW t \in Threads, NEW c \in Calls, ResponseArrives(t, c) PROVE KindInv'
  <2>1. UNCHANGED <<n, kind, app, worker, sent>> /\ c \in sent /\ kind[c] # "dual_robust"
    BY <1>11 DEF ResponseArrives
  <2>2. /\ \A u \in Threads : u # t => listener'[u] = listener[u]
        /\ listener'[t].call = c
    BY <1>11 DEF ResponseArrives, Thread
  <2> QED BY <2>1, <2>2
<1>12. CASE UNCHANGED vars
  BY <1>12 DEF vars
<1> QED
  BY <1>1, <1>2, <1>3, <1>4, <1>5, <1>6, <1>7, <1>8, <1>9, <1>10, <1>11, <1>12
     DEF Next, AppStep, CallStep, SendRobust, SendReceive, SendReceiveNonBlocking

\* Calls are numbered in order, and the one before the last is freed by the next.
OwnInv ==
    /\ op_client = n
    /\ \A c \in Calls : c \in freed <=> c < n \/ (c = n /\ app = "freed")
    /\ misused \subseteq freed /\ op_misused \subseteq freed
    /\ \A c \in seen : c <= n
    /\ app \notin {"idle", "freed"} => n \notin seen
    /\ \A c \in Calls : c > n => result[c] = Unset /\ c \notin send_failed

\* Nothing is freed or used before the first call.
LEMMA OwnInit == Init => OwnInv
  BY DEF Init, OwnInv, NULL, Calls

\* The application only touches its last call.
LEMMA OwnStep == TypeOK /\ Bounds /\ KindInv /\ OwnInv /\ [Next]_vars => OwnInv'
<1> SUFFICES ASSUME TypeOK, Bounds, KindInv, OwnInv, [Next]_vars PROVE OwnInv'
  OBVIOUS
<1> USE DEF OwnInv, TypeOK, Bounds, appvars, sendvars, callback, netvars, two_way_unmoved,
    worker_unmoved, listener_unmoved
<1>0. Calls \subseteq Int /\ n \in Int /\ NULL \notin Calls
  BY DEF Calls, NULL
<1>1. ASSUME NEW k \in KindNames, Call(k) PROVE OwnInv'
  <2>1. /\ n' = n + 1 /\ app = "idle" /\ app' = "execute" /\ op_client' = n + 1
        /\ freed' = freed \cup ({n} \ {NULL})
        /\ UNCHANGED <<misused, op_misused, seen, result, send_failed>>
    BY <1>1 DEF Call, FreeLast
  <2>2. n \in Calls \/ n = NULL
    BY DEF Calls, NULL
  <2> QED BY <1>0, <2>1, <2>2
<1>2. ASSUME Execute \/ Spawn \/ DualEnter \/ AddCallback \/ DualSpins PROVE OwnInv'
  BY <1>0, <1>2 DEF Execute, Spawn, DualEnter, AddCallback, DualSpins, AfterDual
<1>3. ASSUME ExecuteFails \/ DualSend \/ DualWait \/ TwoWayReturn PROVE OwnInv'
  <2>1. /\ n \in Calls /\ app \notin {"idle", "freed"}
        /\ UNCHANGED <<n, op_client, freed, misused, op_misused>>
    BY <1>3 DEF ExecuteFails, DualSend, DualWait, TwoWayReturn
  <2>2. /\ app' \in {"idle", "wait"}
        /\ seen' = seen \/ (seen' = seen \cup {n} /\ app' = "idle")
    BY <1>3 DEF ExecuteFails, DualSend, DualWait, TwoWayReturn, AfterDual
  <2>3. send_failed' \subseteq send_failed \cup {n}
    BY <1>3 DEF ExecuteFails, DualSend, DualWait, TwoWayReturn
  <2>4. \A c \in Calls : c # n => result'[c] = result[c]
    BY <1>3 DEF ExecuteFails, DualSend, DualWait, TwoWayReturn
  <2>5. \A c \in Calls : c > n => result'[c] = Unset /\ c \notin send_failed'
    BY <1>0, <2>3, <2>4
  <2>6. (\A c \in seen' : c <= n) /\ (app' # "idle" => n \notin seen')
    <3>1. n \notin seen /\ n <= n /\ \A c \in seen : c <= n
      BY <1>0, <2>1
    <3>2. CASE seen' = seen
      BY <3>1, <3>2
    <3>3. CASE seen' = seen \cup {n} /\ app' = "idle"
      BY <3>1, <3>3
    <3> QED BY <2>2, <3>2, <3>3
  <2>7. \A c \in Calls : c \in freed <=> c < n
    BY <1>0, <2>1
  <2> QED BY <2>1, <2>2, <2>5, <2>6, <2>7
<1>4. ASSUME Poll PROVE OwnInv'
  BY <1>0, <1>4 DEF Poll
<1>5. ASSUME SvcClientFree PROVE OwnInv'
  <2>1. /\ freed' = freed \cup ({n} \ {NULL}) /\ app = "idle" /\ app' = "freed"
        /\ UNCHANGED <<n, op_client, misused, op_misused, seen, result, send_failed>>
    BY <1>5 DEF SvcClientFree, FreeLast
  <2>2. n \in Calls \/ n = NULL
    BY DEF Calls, NULL
  <2> QED BY <1>0, <2>1, <2>2
<1>6. ASSUME NEW c \in Calls,
             \/ TwoWaySend(c) \/ TwoWaySpins(c) \/ TwoWayWait(c) \/ TwoWayTimeout(c)
             \/ EnvelopeArrives(c)
      PROVE  OwnInv'
  <2>1. UNCHANGED <<appvars, misused, op_misused>>
    BY <1>6 DEF TwoWaySend, TwoWaySpins, TwoWayWait, TwoWayTimeout, EnvelopeArrives
  <2>2. send_failed' \subseteq send_failed \cup {c} /\ ~(c > n)
    <3>1. send_failed' \subseteq send_failed \cup {c} /\ worker[c] # "off"
      BY <1>6 DEF TwoWaySend, TwoWaySpins, TwoWayWait, TwoWayTimeout, EnvelopeArrives
    <3> QED BY <3>1 DEF KindInv, OneChannel
  <2> QED BY <2>1, <2>2
<1>7. ASSUME NEW c \in Calls,
             WorkerOpCtx(c) \/ WorkerResult(c) \/ WorkerCleanup(c) \/ WorkerComplete(c)
      PROVE  OwnInv'
  <2>1. UNCHANGED appvars /\ UNCHANGED send_failed
    BY <1>7 DEF WorkerOpCtx, WorkerResult, WorkerCleanup, WorkerComplete
  <2>2. misused' = misused \/ misused' = IF c \in freed THEN misused \cup {c} ELSE misused
    BY <1>7 DEF WorkerOpCtx, WorkerResult, WorkerCleanup, WorkerComplete, CompleteStep,
       UseCallback
  <2>3. \/ op_misused' = op_misused
        \/ op_misused' = IF c \in freed THEN op_misused \cup {c} ELSE op_misused
    BY <1>7 DEF WorkerOpCtx, WorkerResult, WorkerCleanup, WorkerComplete, UseOpClient
  <2> QED BY <2>1, <2>2, <2>3
<1>8. ASSUME NEW t \in Threads, ListenerStep(t) PROVE OwnInv'
  <2> DEFINE c == listener[t].call
  <2>1. UNCHANGED appvars /\ UNCHANGED <<op_misused, send_failed>> /\ Active(t)
    BY <1>8 DEF ListenerStep, CallbackLookup, CallbackReceive, CompleteStep, Active
  <2>2. c \in Calls /\ ~(c > n)
    BY <2>1 DEF KindInv, Active, Listening
  <2>3. \/ misused' = misused
        \/ misused' = misused \cup {c} /\ (app = "freed" \/ c \in freed)
    BY <1>8 DEF ListenerStep, CallbackLookup, CallbackReceive, CompleteStep, UseCallback
  <2> HIDE DEF c
  <2>4. app = "freed" => c \in freed
    BY <1>0, <2>2
  <2> QED BY <2>1, <2>3, <2>4
<1>9. ASSUME NEW t \in Threads, NEW c \in Calls, ResponseArrives(t, c) PROVE OwnInv'
  BY <1>9 DEF ResponseArrives
<1>10. CASE UNCHANGED vars
  BY <1>10 DEF vars
<1> QED
  BY <1>1, <1>2, <1>3, <1>4, <1>5, <1>6, <1>7, <1>8, <1>9, <1>10
     DEF Next, AppStep, CallStep, SendRobust, SendReceive, SendReceiveNonBlocking
-----------------------------------------------------------------------------
(* Responses are matched with calls: an entry of callback_map is the block  *)
(* of its own call and is there before the request leaves; a receiver       *)
(* thread has found the block of the call it works for.                     *)
MatchInv ==
    /\ \A c \in Calls : callback_map[c] \in {NULL, block[c]}
    /\ \A c \in sent : callback_map[c] = block[c]
    /\ app = "send" => callback_map[n] = block[n]
    /\ \A t \in Threads : listener[t].pc \notin {"idle", "lookup"} =>
          listener[t].callback = block[listener[t].call]
    /\ ResponseFindsCallback

\* Nothing is registered before the first call.
LEMMA MatchInit == Init => MatchInv
  BY DEF Init, MatchInv, Idle, Thread, ResponseFindsCallback

\* A call with a callback is registered before it is sent; one without has none
\* to be found, and no response.
LEMMA MatchStep == TypeOK /\ Bounds /\ KindInv /\ MatchInv /\ [Next]_vars => MatchInv'
<1> SUFFICES ASSUME TypeOK, Bounds, KindInv, MatchInv, [Next]_vars PROVE MatchInv'
  OBVIOUS
<1> USE DEF MatchInv, ResponseFindsCallback, TypeOK, Bounds, appvars, sendvars, callback,
    netvars, two_way_unmoved, worker_unmoved, listener_unmoved
<1>0. NULL \notin Calls
  BY DEF NULL, Calls
<1>1. ASSUME NEW k \in KindNames, Call(k) PROVE MatchInv'
  <2>1. /\ n \in Int /\ n + 1 > n /\ n + 1 \in Calls /\ app' = "execute"
        /\ UNCHANGED <<callback_map, sent, listener, unmatched>>
    BY <1>1, ClientAssumption DEF Call, Calls
  <2>2. \A c \in Calls : c # n + 1 => block'[c] = block[c]
    BY <1>1, <2>1 DEF Call, CreateCallback
  <2>3. kind[n + 1] = "none"
    BY <2>1
  <2>4. block[n + 1] = NULL
    BY <2>1, <2>3 DEF WithCallback, Async
  <2>5. n + 1 \notin sent /\ callback_map[n + 1] = NULL
    BY <2>1, <2>3, <2>4 DEF KindInv, Listening
  <2>6. \A t \in Threads : Active(t) => listener[t].call \in Calls /\ listener[t].call # n + 1
    BY <2>5 DEF KindInv, Active
  <2>7. \A c \in Calls : callback_map[c] \in {NULL, block'[c]}
    BY <2>2, <2>5
  <2>8. \A c \in sent : callback_map[c] = block'[c]
    BY <2>2, <2>5
  <2>9. \A t \in Threads : listener[t].pc \notin {"idle", "lookup"} =>
          listener[t].callback = block'[listener[t].call]
    BY <2>2, <2>6 DEF Active
  <2> QED BY <2>1, <2>7, <2>8, <2>9
<1>2. ASSUME Execute PROVE MatchInv'
  <2>1. n \in Calls /\ (app' = "send" => kind[n] = "dual_robust")
    BY <1>2 DEF Execute
  <2>2. app' = "send" => callback_map[n] = NULL /\ block[n] = NULL
    BY <2>1 DEF WithCallback, Async
  <2> QED BY <1>2, <2>2 DEF Execute
<1>3. ASSUME AddCallback PROVE MatchInv'
  <2>1. n \in Calls /\ callback_map' = [callback_map EXCEPT ![n] = block[n]] /\ n \notin sent
    BY <1>3 DEF AddCallback, KindInv, Starting
  <2>2. UNCHANGED <<n, sent, listener, unmatched, block>>
    BY <1>3 DEF AddCallback
  <2> QED BY <2>1, <2>2
<1>4. ASSUME DualSend \/ DualSpins PROVE MatchInv'
  <2>1. /\ n \in Calls /\ callback_map[n] = block[n] /\ sent' \subseteq sent \cup {n}
        /\ app' # "send" /\ UNCHANGED <<callback_map, listener, unmatched, block>>
    BY <1>4 DEF DualSend, DualSpins, AfterDual
  <2> QED BY <2>1
<1>5. ASSUME \/ ExecuteFails \/ Spawn \/ DualEnter \/ DualWait \/ TwoWayReturn \/ Poll
             \/ SvcClientFree
      PROVE  MatchInv'
  <2>1. app' # "send" /\ UNCHANGED <<callback_map, sent, listener, unmatched, block>>
    BY <1>5 DEF ExecuteFails, Spawn, DualEnter, AfterDual, DualWait, TwoWayReturn, Poll,
       SvcClientFree
  <2> QED BY <2>1
<1>6. ASSUME NEW c \in Calls,
             \/ TwoWaySend(c) \/ TwoWaySpins(c) \/ TwoWayWait(c) \/ TwoWayTimeout(c)
             \/ EnvelopeArrives(c) \/ WorkerOpCtx(c) \/ WorkerResult(c) \/ WorkerCleanup(c)
             \/ WorkerComplete(c)
      PROVE  MatchInv'
  <2>1. UNCHANGED <<n, app, callback_map, sent, listener, unmatched, block>>
    BY <1>6 DEF TwoWaySend, TwoWaySpins, TwoWayWait, TwoWayTimeout, EnvelopeArrives,
       WorkerOpCtx, WorkerResult, WorkerCleanup, WorkerComplete, CompleteStep
  <2> QED BY <2>1
<1>7. ASSUME NEW t \in Threads, CallbackLookup(t) PROVE MatchInv'
  <2> DEFINE c == listener[t].call
  <2>1. c \in sent /\ kind[c] \in WithCallback
    BY <1>7 DEF CallbackLookup, KindInv, Active, Listening, WithCallback, Async
  <2>2. CallbackOf(c) = block[c] /\ block[c] # NULL
    BY <2>1 DEF CallbackOf
  <2>3. /\ listener' = [listener EXCEPT ![t] = Thread("set_envelope", c, block[c])]
        /\ UNCHANGED <<n, app, callback_map, sent, unmatched, block>>
    BY <1>7, <2>2 DEF CallbackLookup
  <2> HIDE DEF c
  <2>4. \A u \in Threads : listener'[u].pc \notin {"idle", "lookup"} =>
           listener'[u].callback = block[listener'[u].call]
    BY <2>3 DEF Thread
  <2> QED BY <2>3, <2>4
<1>8. ASSUME NEW t \in Threads, CallbackReceive(t) PROVE MatchInv'
  <2>1. /\ listener' = [listener EXCEPT ![t] = ThreadAfter(listener[t])]
        /\ listener[t].pc \in {"set_envelope", "on_complete", "set_complete"}
        /\ UNCHANGED <<n, app, callback_map, sent, unmatched, block>>
    BY <1>8 DEF CallbackReceive, CompleteStep
  <2>2. ThreadAfter(listener[t]).pc # "idle" =>
           /\ ThreadAfter(listener[t]).call = listener[t].call
           /\ ThreadAfter(listener[t]).callback = listener[t].callback
    BY DEF ThreadAfter, Thread, Idle
  <2>3. \A u \in Threads : listener'[u].pc \notin {"idle", "lookup"} =>
           listener'[u].callback = block[listener'[u].call]
    BY <2>1, <2>2
  <2> QED BY <2>1, <2>3
<1>9. ASSUME NEW t \in Threads, NEW c \in Calls, ResponseArrives(t, c) PROVE MatchInv'
  <2>1. /\ listener' = [listener EXCEPT ![t] = Thread("lookup", c, NULL)]
        /\ UNCHANGED <<n, app, callback_map, sent, unmatched, block>>
    BY <1>9 DEF ResponseArrives
  <2> QED BY <2>1 DEF Thread
<1>10. CASE UNCHANGED vars
  BY <1>10 DEF vars
<1> QED
  BY <1>1, <1>2, <1>3, <1>4, <1>5, <1>6, <1>7, <1>8, <1>9, <1>10
     DEF Next, AppStep, CallStep, ListenerStep, SendRobust, SendReceive,
         SendReceiveNonBlocking

\* A response that reaches the callback receiver always finds a callback:
\* axis2_op_client_execute registers it before it sends.
THEOREM ResponsesFindCallbacks == Spec => []ResponseFindsCallback
<1>1. MatchInv => ResponseFindsCallback
  BY DEF MatchInv
<1> QED
  BY <1>1, TypeInit, TypeStep, KindInit, KindStep, MatchInit, MatchStep, PTL DEF Spec
-----------------------------------------------------------------------------
(* Every thread at work for a call took a copy of its response.             *)
CopyInv ==
    /\ \A t \in Threads : Active(t) => copies[listener[t].call] >= 1
    /\ \A t, u \in Threads :
          t # u /\ Active(t) /\ Active(u) /\ listener[t].call = listener[u].call =>
              copies[listener[t].call] > 1

\* Nothing is delivered before the first call.
LEMMA CopyInit == Init => CopyInv
  BY DEF Init, CopyInv, Active, Idle, Thread

\* A copy is taken by one thread.
LEMMA CopyStep == TypeOK /\ Bounds /\ CopyInv /\ [Next]_vars => CopyInv'
<1> SUFFICES ASSUME TypeOK, Bounds, CopyInv, [Next]_vars PROVE CopyInv'
  OBVIOUS
<1> USE DEF CopyInv, Active, TypeOK, Bounds, netvars, two_way_unmoved, worker_unmoved,
    listener_unmoved
<1>1. ASSUME NEW t \in Threads, ListenerStep(t) PROVE CopyInv'
  <2>1. \A u \in Threads : u # t => listener'[u] = listener[u]
    BY <1>1 DEF ListenerStep, CallbackLookup, CallbackReceive
  <2>2. Active(t) /\ (listener'[t].pc = "idle" \/ listener'[t].call = listener[t].call)
    BY <1>1 DEF ListenerStep, CallbackLookup, CallbackReceive, CompleteStep, ThreadAfter,
       Idle, Thread
  <2>3. UNCHANGED copies
    BY <1>1 DEF ListenerStep, CallbackLookup, CallbackReceive
  <2> QED BY <2>1, <2>2, <2>3
<1>2. ASSUME NEW t \in Threads, NEW c \in Calls, ResponseArrives(t, c) PROVE CopyInv'
  <2>1. \A u \in Threads : u # t => listener'[u] = listener[u]
    BY <1>2 DEF ResponseArrives
  <2>2. ~Active(t) /\ listener'[t].call = c
    BY <1>2 DEF ResponseArrives, Idle, Thread
  <2>3. /\ copies'[c] = copies[c] + 1 /\ copies[c] \in Nat
        /\ \A d \in Calls : d # c => copies'[d] = copies[d]
    BY <1>2 DEF ResponseArrives
  <2> QED BY <2>1, <2>2, <2>3
<1>3. \/ UNCHANGED <<copies, listener>>
      \/ \E t \in Threads : ListenerStep(t)
      \/ \E t \in Threads, c \in Calls : ResponseArrives(t, c)
  BY Zenon
  DEF Next, AppStep, CallStep, SendRobust, SendReceive, SendReceiveNonBlocking, vars, Call,
      Execute, ExecuteFails, Spawn, DualEnter, AddCallback, DualSend, DualSpins, DualWait,
      TwoWayReturn, Poll, SvcClientFree, TwoWaySend, TwoWaySpins, TwoWayWait, TwoWayTimeout,
      EnvelopeArrives, WorkerOpCtx, WorkerResult, WorkerComplete, WorkerCleanup
<1>4. CASE UNCHANGED <<copies, listener>>
  BY <1>4
<1> QED BY <1>1, <1>2, <1>3, <1>4
-----------------------------------------------------------------------------
(* The callback of the last call.  Every other call was freed, so only its  *)
(* own worker and the threads that took a copy of its response write to it, *)
(* unless a thread of a freed call goes through the same memory, and then   *)
(* the call counts as Shared.                                               *)

\* What a call shares it goes on sharing: blocks stay with their calls.
LEMMA SharedKept ==
    ASSUME TypeOK, Bounds, OwnInv, [Next]_vars
    PROVE  /\ n' = n \/ n' = n + 1
           /\ \A c \in Calls : c <= n => block'[c] = block[c] /\ kind'[c] = kind[c]
           /\ \A c \in Calls : c <= n /\ Shared(c) => Shared(c)'
<1> USE DEF TypeOK, appvars, sendvars, callback, netvars, two_way_unmoved, worker_unmoved,
    listener_unmoved
<1>0. Calls \subseteq Int /\ n \in Int
  BY DEF Calls
<1>1. /\ n' = n \/ n' = n + 1
      /\ \A c \in Calls : c <= n => block'[c] = block[c] /\ kind'[c] = kind[c]
  <2>1. ASSUME NEW k \in KindNames, Call(k)
        PROVE  n' = n + 1 /\ \A c \in Calls : c <= n => block'[c] = block[c] /\ kind'[c] = kind[c]
    BY <1>0, <2>1 DEF Call, CreateCallback
  <2>2. \/ \E k \in KindNames : Call(k)
        \/ UNCHANGED <<n, block, kind>>
    BY DEF Next, AppStep, CallStep, ListenerStep, SendRobust, SendReceive,
       SendReceiveNonBlocking, vars, Execute, ExecuteFails, Spawn, DualEnter, AddCallback,
       DualSend, DualSpins, DualWait, TwoWayReturn, Poll, SvcClientFree, TwoWaySend,
       TwoWaySpins, TwoWayWait, TwoWayTimeout, EnvelopeArrives, WorkerOpCtx, WorkerResult,
       WorkerComplete, WorkerCleanup, CallbackLookup, CallbackReceive, ResponseArrives,
       CompleteStep
  <2> QED BY <2>1, <2>2
<1>2. misused \subseteq misused' /\ op_misused \subseteq op_misused'
  BY DEF Next, AppStep, CallStep, ListenerStep, SendRobust, SendReceive,
     SendReceiveNonBlocking, vars, Call, Execute, ExecuteFails, Spawn, DualEnter,
     AddCallback, DualSend, DualSpins, DualWait, TwoWayReturn, Poll, SvcClientFree,
     TwoWaySend, TwoWaySpins, TwoWayWait, TwoWayTimeout, EnvelopeArrives, WorkerOpCtx,
     WorkerResult, WorkerComplete, WorkerCleanup, CallbackLookup, CallbackReceive,
     ResponseArrives, CompleteStep, UseCallback, UseOpClient
<1>3. ASSUME NEW c \in Calls, c <= n, Shared(c) PROVE Shared(c)'
  <2>1. \A d \in misused : d \in Calls /\ (d < c => d <= n)
    BY <1>0, <1>3
  <2> QED BY <1>1, <1>2, <1>3, <2>1 DEF Shared
<1> QED BY <1>1, <1>3

\* The last call has a callback, and the memory is its own.
Live == n \in Calls /\ app # "freed" /\ block[n] # NULL /\ ~Shared(n)

\* What a thread at this stage of completing the callback has stored.
Stored(stage) ==
    /\ stage \in {"on_complete", "set_complete"} => envelope[block[n]] = n
    /\ stage = "set_complete" => on_complete[block[n]] > 0

\* Who completed the callback has finished with it.
Completed ==
    /\ on_complete[block[n]] > 0
    /\ n \in sent \/ response[n] = "answer" => envelope[block[n]] = n
    /\ n \notin sent => worker[n] \in {"finished", "done"}
    /\ n \in sent => copies[n] >= 1
    /\ \A t \in Threads : Active(t) /\ listener[t].call = n => copies[n] > 1

Consistent ==
    /\ envelope[block[n]] \in {NULL, n}
    /\ app \in Starting => ~complete[block[n]]
    /\ \A t \in Threads : listener[t].call = n => Stored(listener[t].pc)
    /\ response[n] = "answer" => Stored(worker[n])
    /\ worker[n] = "set_complete" => on_complete[block[n]] > 0
    /\ complete[block[n]] => Completed

LiveInv == Live => Consistent

\* There is no callback before the first call.
LEMMA LiveInit == Init => LiveInv
  BY DEF Init, LiveInv, Live, NULL, Calls

\* A new callback: its fields are reset and nobody works for the call yet.
LEMMA LiveCall ==
    ASSUME TypeOK, Bounds, KindInv, NEW k \in KindNames, Call(k), Live'
    PROVE  Consistent'
<1>1. /\ n \in Int /\ n + 1 > n /\ n + 1 \in Calls /\ n' = n + 1
      /\ UNCHANGED <<worker, response, sent, copies, listener>>
  BY ClientAssumption DEF Call, TypeOK, Calls, netvars, sendvars
<1>2. kind[n + 1] = "none"
  BY <1>1 DEF Bounds
<1>3. block[n + 1] = NULL /\ worker[n + 1] = "off" /\ n + 1 \notin sent
  BY <1>1, <1>2 DEF Bounds, KindInv, WithCallback, Async, OneChannel, Listening
<1>4. k \in WithCallback
  BY <1>1, <1>3 DEF Call, CreateCallback, callback, Live
<1>5. PICK b \in Reusable \cup {n + 1} :
         /\ block' = [block EXCEPT ![n + 1] = b]
         /\ complete' = [complete EXCEPT ![b] = FALSE]
         /\ envelope' = [envelope EXCEPT ![b] = NULL]
         /\ on_complete' = [on_complete EXCEPT ![b] = 0]
  BY <1>4 DEF Call, CreateCallback
<1>6. b \in Calls
  BY <1>1 DEF Reusable
<1>7. block'[n'] = b /\ ~complete'[b] /\ envelope'[b] = NULL
  BY <1>1, <1>5, <1>6 DEF TypeOK
<1>8. \A t \in Threads : listener[t].call = n + 1 => listener[t].pc = "idle"
  BY <1>3 DEF KindInv, Active
<1> QED
  BY <1>1, <1>3, <1>7, <1>8 DEF Consistent, Stored

\* The application's own steps write to no callback; they hand the call on only
\* while it is not complete.
LEMMA LiveApp ==
    ASSUME Consistent, n' = n,
           UNCHANGED <<callback, listener, copies, response>>,
           app' \in Starting => app \in Starting,
           \/ UNCHANGED <<worker, sent>>
           \/ app \in Starting /\ worker'[n] \in {"off", "op_ctx"}
    PROVE  Consistent'
  BY DEF Consistent, Stored, Completed, callback, Starting, Active

\* two_way_send and the worker outside the callback: if they work for this call,
\* it is not complete, or the worker has finished with it.
LEMMA LiveTwoWay ==
    ASSUME TypeOK, Consistent, n \in Calls, n' = n, NEW c \in Calls,
           UNCHANGED <<callback, listener, copies, app, sent>>,
           \A d \in Calls : d # c => worker'[d] = worker[d] /\ response'[d] = response[d],
           c \notin sent,
           \/ /\ worker[c] \notin {"off", "finished", "done"}
              /\ worker'[c] \notin {"on_complete", "set_complete"}
           \/ /\ worker[c] = "finished" /\ worker'[c] = "done"
              /\ response'[c] = response[c]
    PROVE  Consistent'
<1>1. CASE c # n
  BY <1>1 DEF Consistent, Stored, Completed, callback, Active
<1>2. CASE c = n /\ worker[c] = "finished"
  BY <1>2 DEF Consistent, Stored, Completed, callback, Active
<1>3. CASE c = n /\ worker[c] # "finished"
  <2>1. ~complete[block[n]]
    BY <1>3 DEF Consistent, Completed
  <2>2. worker'[n] \notin {"on_complete", "set_complete"}
    BY <1>3
  <2> QED BY <1>3, <2>1, <2>2 DEF Consistent, Stored, callback
<1> QED BY <1>1, <1>2, <1>3

\* A thread of a freed call that writes to the block of the last one makes the
\* two share it.
LEMMA Elsewhere ==
    ASSUME TypeOK, OwnInv, n \in Calls, app # "freed", n' = n, block[n] \in Calls,
           NEW d \in Calls, d # n, d <= n, NEW stage, NEW e,
           CompleteStep(d, block[d], stage, e), ~Shared(n)'
    PROVE  /\ block' = block
           /\ envelope'[block[n]] = envelope[block[n]]
           /\ on_complete'[block[n]] = on_complete[block[n]]
           /\ complete'[block[n]] = complete[block[n]]
<1>1. d < n /\ Calls \subseteq Int
  BY DEF TypeOK, Calls
<1>2. d \in freed
  BY <1>1 DEF OwnInv
<1>3. d \in misused' /\ block' = block
  BY <1>2 DEF CompleteStep, UseCallback
<1>4. block[d] # block[n]
  BY <1>1, <1>3 DEF Shared
<1> QED
  BY <1>3, <1>4 DEF CompleteStep, SetEnvelope, OnComplete, SetComplete, TypeOK

\* The worker of the last call completes its callback with its own result: the
\* operation client was not freed and no worker wrote through an older one.
LEMMA LiveWorker ==
    ASSUME TypeOK, Bounds, KindInv, OwnInv, Live, Consistent, NEW c \in Calls,
           WorkerComplete(c), Live'
    PROVE  Consistent'
<1>1. PICK e \in AsyncResult(c) : CompleteStep(c, block[c], worker[c], e)
  BY DEF WorkerComplete
<1>2. /\ worker' = [worker EXCEPT ![c] = After(worker[c])]
      /\ UNCHANGED <<n, app, kind, sent, listener, response, copies>>
  BY DEF WorkerComplete, To, worker_unmoved, appvars, netvars
<1>3. worker[c] \in {"set_envelope", "on_complete", "set_complete"}
  BY <1>1 DEF CompleteStep
<1>4. kind[c] = "non_blocking" /\ c \notin sent
  BY <1>3 DEF KindInv, Listening
<1>5. c <= n /\ Calls \subseteq Int /\ n \in Int
  <2>1. Calls \subseteq Int /\ n \in Int
    BY DEF TypeOK, Calls
  <2> QED BY <1>4, <2>1 DEF Bounds
<1>6. CASE c # n
  <2>1. /\ block' = block
        /\ envelope'[block[n]] = envelope[block[n]]
        /\ on_complete'[block[n]] = on_complete[block[n]]
        /\ complete'[block[n]] = complete[block[n]]
    BY <1>1, <1>2, <1>5, <1>6, Elsewhere DEF Live, TypeOK
  <2>2. worker'[n] = worker[n]
    BY <1>2, <1>6 DEF Live, TypeOK
  <2> QED BY <1>2, <2>1, <2>2 DEF Consistent, Stored, Completed, Active
<1>7. CASE c = n
  <2>1. /\ n \notin freed /\ ~\E d \in op_misused : d < n
        /\ block' = block /\ block[n] \in Calls
    BY <1>1, <1>4, <1>7 DEF OwnInv, Live, Shared, CompleteStep, TypeOK
  <2>2. e \in {NULL, n} /\ (response[n] = "answer" => e = n)
    BY <1>1, <1>7, <2>1 DEF AsyncResult, Returned
  <2>3. ~complete[block[n]]
    BY <1>3, <1>4, <1>7 DEF Consistent, Completed
  <2>4. \A t \in Threads : Active(t) => listener[t].call # n
    BY <1>4, <1>7 DEF KindInv
  <2>5. /\ \A t \in Threads : listener[t].call = n => Stored(listener[t].pc)'
        /\ app \notin Starting
    BY <1>2, <1>3, <1>7, <2>4 DEF Active, Stored, KindInv
  <2> DEFINE b == block[n]
  <2>6. b \in Calls /\ ~complete[b] /\ envelope[b] \in {NULL, n}
    BY <2>1, <2>3 DEF Consistent
  <2>7. /\ response[n] = "answer" => Stored(worker[n])
        /\ worker[n] = "set_complete" => on_complete[b] > 0
    BY DEF Consistent
  <2>8. CASE worker[n] = "set_envelope" /\ SetEnvelope(b, e)
    <3>1. /\ worker'[n] = "on_complete" /\ complete'[b] = complete[b]
          /\ envelope'[b] = e
      BY <1>2, <1>7, <2>6, <2>8 DEF SetEnvelope, After, TypeOK
    <3> QED
      BY <1>2, <2>1, <2>2, <2>5, <2>6, <3>1 DEF Consistent, Stored
  <2>9. CASE worker[n] = "on_complete" /\ OnComplete(b)
    <3>1. /\ worker'[n] = "set_complete" /\ complete'[b] = complete[b]
          /\ envelope'[b] = envelope[b] /\ on_complete'[b] > 0
      BY <1>2, <1>7, <2>6, <2>9 DEF OnComplete, After, TypeOK
    <3> QED
      BY <1>2, <2>1, <2>5, <2>6, <2>7, <2>9, <3>1 DEF Consistent, Stored
  <2>10. CASE worker[n] = "set_complete" /\ SetComplete(b)
    <3>1. /\ worker'[n] = "finished"
          /\ envelope'[b] = envelope[b] /\ on_complete'[b] = on_complete[b]
      BY <1>2, <1>7, <2>6, <2>10 DEF SetComplete, After, TypeOK
    <3>2. Completed'
      BY <1>2, <1>4, <1>7, <2>1, <2>4, <2>7, <2>10, <3>1 DEF Completed, Stored, Active
    <3> QED
      BY <1>2, <2>1, <2>5, <2>6, <3>1, <3>2 DEF Consistent, Stored
  <2> QED BY <1>1, <1>7, <2>8, <2>9, <2>10 DEF CompleteStep
<1> QED BY <1>6, <1>7

\* So does a receiver thread that took a response to the last call.
LEMMA LiveReceive ==
    ASSUME TypeOK, Bounds, KindInv, OwnInv, MatchInv, CopyInv, Live, Consistent,
           NEW t \in Threads, CallbackReceive(t), Live'
    PROVE  Consistent'
<1> DEFINE c == listener[t].call
           stage == listener[t].pc
<1>1. stage \in {"set_envelope", "on_complete", "set_complete"}
  BY DEF CallbackReceive, CompleteStep
<1>2. /\ c \in sent /\ c \in Calls /\ listener[t].callback = block[c] /\ Active(t)
      /\ kind[c] \in Listening
  BY <1>1 DEF KindInv, MatchInv, Active, TypeOK
<1>3. /\ CompleteStep(c, block[c], stage, c)
      /\ UNCHANGED <<n, app, kind, sent, worker, response, copies>>
      /\ listener' = [listener EXCEPT ![t] = ThreadAfter(listener[t])]
  BY <1>2 DEF CallbackReceive, listener_unmoved, appvars, sendvars
<1>4. /\ \A u \in Threads : u # t => listener'[u] = listener[u]
      /\ listener'[t].pc # "idle" => listener'[t].call = c
      /\ stage = "set_envelope" => listener'[t].pc = "on_complete"
      /\ stage = "on_complete" => listener'[t].pc = "set_complete"
      /\ stage = "set_complete" => listener'[t].pc = "idle"
  BY <1>3 DEF ThreadAfter, After, Thread, Idle, TypeOK
<1> HIDE DEF c, stage
<1>5. c <= n /\ Calls \subseteq Int /\ n \in Int
  <2>1. Calls \subseteq Int /\ n \in Int
    BY DEF TypeOK, Calls
  <2> QED BY <1>2, <2>1 DEF Bounds, Listening
<1>6. CASE c # n
  <2>1. /\ block' = block
        /\ envelope'[block[n]] = envelope[block[n]]
        /\ on_complete'[block[n]] = on_complete[block[n]]
        /\ complete'[block[n]] = complete[block[n]]
    BY <1>2, <1>3, <1>5, <1>6, Elsewhere DEF Live, TypeOK
  <2>2. \A u \in Threads : listener'[u].call = n =>
           listener'[u].pc = "idle" \/ listener'[u] = listener[u]
    BY <1>4, <1>6
  <2>4. \A u \in Threads : listener'[u].call = n => Stored(listener[u].pc)'
    BY <1>3, <2>1, <2>2 DEF Consistent, Stored
  <2>5. Completed => Completed'
    BY <1>3, <2>1, <2>2 DEF Completed, Active
  <2> QED BY <1>3, <2>1, <2>4, <2>5 DEF Consistent, Stored
<1>7. CASE c = n
  <2> DEFINE b == block[n]
  <2>1. /\ b \in Calls /\ block' = block /\ worker[n] = "off" /\ app \notin Starting
        /\ envelope[b] \in {NULL, n}
    BY <1>2, <1>3, <1>7 DEF Live, CompleteStep, TypeOK, KindInv, OneChannel, Listening,
       Consistent
  <2>2. \A u \in Threads : listener[u].call = n => Stored(listener[u].pc)
    BY DEF Consistent
  <2>3. Stored(stage)
    BY <1>7, <2>2 DEF c, stage
  <2>4. complete[b] => Completed
    BY DEF Consistent
  <2>5. copies[n] >= 1 /\ \A u \in Threads : u # t /\ Active(u) /\ listener[u].call = n => copies[n] > 1
    BY <1>2, <1>7 DEF CopyInv, c
  <2>6. ASSUME NEW u \in Threads, listener'[u].call = n, listener'[u].pc # "idle"
        PROVE  u = t \/ (listener'[u] = listener[u] /\ listener[u].call = n)
    BY <1>4, <2>6
  <2>7. CASE stage = "set_envelope" /\ SetEnvelope(b, n)
    <3>1. /\ envelope'[b] = n /\ complete'[b] = complete[b] /\ on_complete'[b] = on_complete[b]
          /\ listener'[t].pc = "on_complete"
      BY <1>4, <2>1, <2>7 DEF SetEnvelope, TypeOK
    <3>2. \A u \in Threads : listener'[u].call = n => Stored(listener[u].pc)'
      BY <1>3, <2>1, <2>2, <2>6, <3>1 DEF Stored
    <3>3. complete[b] => Completed'
      BY <1>1, <1>2, <1>3, <1>4, <1>7, <2>1, <2>4, <2>5, <3>1 DEF Completed, Active, stage, c
    <3> QED BY <1>3, <2>1, <3>1, <3>2, <3>3 DEF Consistent, Stored
  <2>8. CASE stage = "on_complete" /\ OnComplete(b)
    <3>1. /\ envelope'[b] = n /\ complete'[b] = complete[b] /\ on_complete'[b] > 0
          /\ listener'[t].pc = "set_complete"
      BY <1>4, <2>1, <2>3, <2>8 DEF OnComplete, TypeOK, Stored
    <3>2. \A u \in Threads : listener'[u].call = n => Stored(listener[u].pc)'
      BY <1>3, <2>1, <3>1 DEF Stored
    <3>3. complete[b] => Completed'
      BY <1>1, <1>2, <1>3, <1>4, <1>7, <2>1, <2>4, <2>5, <3>1 DEF Completed, Active, stage, c
    <3> QED BY <1>3, <2>1, <3>1, <3>2, <3>3 DEF Consistent, Stored
  <2>9. CASE stage = "set_complete" /\ SetComplete(b)
    <3>1. /\ envelope'[b] = n /\ on_complete'[b] = on_complete[b] /\ on_complete[b] > 0
          /\ listener'[t].pc = "idle"
      BY <1>4, <2>1, <2>3, <2>9 DEF SetComplete, TypeOK, Stored
    <3>2. \A u \in Threads : listener'[u].call = n => Stored(listener[u].pc)'
      BY <1>3, <2>1, <3>1 DEF Stored
    <3>3. Completed'
      BY <1>2, <1>3, <1>4, <1>7, <2>1, <2>5, <3>1 DEF Completed, Active
    <3> QED BY <1>3, <2>1, <3>1, <3>2, <3>3 DEF Consistent, Stored
  <2> QED BY <1>3, <1>7, <2>7, <2>8, <2>9 DEF CompleteStep
<1> QED BY <1>6, <1>7

\* One step per group of actions.
LEMMA LiveStep ==
    ASSUME TypeOK, Bounds, KindInv, OwnInv, MatchInv, CopyInv, LiveInv, [Next]_vars
    PROVE  LiveInv'
<1> SUFFICES ASSUME Live' PROVE Consistent'
  BY DEF LiveInv
<1> USE DEF appvars, sendvars, netvars, two_way_unmoved, worker_unmoved, listener_unmoved
<1>1. ASSUME NEW k \in KindNames, Call(k) PROVE Consistent'
  BY <1>1, LiveCall
<1>2. ASSUME n' = n, app # "freed" PROVE Live /\ Consistent /\ n \in Calls
  <2>1. n \in Calls /\ n <= n
    BY <1>2 DEF Live, TypeOK
  <2>2. block'[n] = block[n] /\ (Shared(n) => Shared(n)')
    BY <1>2, <2>1, SharedKept DEF Shared
  <2> QED BY <1>2, <2>1, <2>2 DEF Live, LiveInv
<1>3. app # "freed"
  BY DEF Live, Next, AppStep, CallStep, ListenerStep, SendRobust, SendReceive,
     SendReceiveNonBlocking, vars, Call, Execute, ExecuteFails, Spawn, DualEnter,
     AddCallback, DualSend, DualSpins, DualWait, TwoWayReturn, Poll, SvcClientFree,
     TwoWaySend, TwoWaySpins, TwoWayWait, TwoWayTimeout, EnvelopeArrives, WorkerOpCtx,
     WorkerResult, WorkerComplete, WorkerCleanup, CallbackLookup, CallbackReceive,
     ResponseArrives
<1>4. ASSUME Execute \/ TwoWayReturn PROVE Consistent'
  <2>1. n' = n /\ UNCHANGED <<callback, listener, copies, response, sent, kind>>
    BY <1>4 DEF Execute, TwoWayReturn
  <2>2. Live /\ Consistent /\ n \in Calls
    BY <1>2, <1>3, <2>1
  <2>3. kind[n] \notin OneChannel
    BY <2>2 DEF Live, Bounds, OneChannel, WithCallback, Async
  <2>4. Execute
    BY <1>4, <2>3 DEF KindInv, TwoWayReturn
  <2>5. worker' = worker
    <3>1. worker' = [worker EXCEPT ![n] = worker[n]]
      BY <2>3, <2>4 DEF Execute
    <3> QED BY <3>1 DEF TypeOK
  <2>6. app \in Starting
    BY <2>4 DEF Execute, Starting
  <2> QED BY <2>1, <2>2, <2>5, <2>6, LiveApp
<1>5. ASSUME Spawn \/ DualSend \/ DualSpins PROVE Consistent'
  <2>1. /\ n' = n /\ UNCHANGED <<callback, listener, copies, response>>
        /\ app \in Starting /\ app' \in {"idle", "wait", "spinning"}
    BY <1>5 DEF Spawn, DualSend, DualSpins, AfterDual, Starting
  <2>2. Live /\ Consistent /\ n \in Calls
    BY <1>2, <1>3, <2>1
  <2>3. worker'[n] \in {"off", "op_ctx"}
    BY <1>5, <2>1, <2>2 DEF Spawn, DualSend, DualSpins, KindInv, TypeOK
  <2> QED BY <2>1, <2>2, <2>3, LiveApp DEF Starting
<1>6. ASSUME \/ ExecuteFails \/ DualEnter \/ AddCallback \/ DualWait \/ Poll
             \/ EnvelopeArrives(n) \/ SvcClientFree \/ UNCHANGED vars
      PROVE  Consistent'
  <2>1. /\ n' = n /\ UNCHANGED <<callback, listener, copies, response, worker, sent>>
        /\ app' \in Starting => app \in Starting
    BY <1>6 DEF ExecuteFails, DualEnter, AddCallback, AfterDual, DualWait, Poll, Starting,
       EnvelopeArrives, SvcClientFree, vars
  <2>2. Consistent
    BY <1>2, <1>3, <2>1
  <2> QED BY <2>1, <2>2, LiveApp
<1>7. ASSUME NEW c \in Calls,
             \/ TwoWaySend(c) \/ TwoWaySpins(c) \/ TwoWayWait(c) \/ TwoWayTimeout(c)
             \/ EnvelopeArrives(c) \/ WorkerOpCtx(c) \/ WorkerResult(c) \/ WorkerCleanup(c)
      PROVE  Consistent'
  <2>1. n' = n /\ UNCHANGED <<callback, listener, copies, app, sent>>
    BY <1>7 DEF TwoWaySend, TwoWaySpins, TwoWayWait, TwoWayTimeout, EnvelopeArrives,
       WorkerOpCtx, WorkerResult, WorkerCleanup
  <2>2. Consistent /\ n \in Calls
    BY <1>2, <1>3, <2>1
  <2>3. \A d \in Calls : d # c => worker'[d] = worker[d] /\ response'[d] = response[d]
    BY <1>7 DEF TwoWaySend, TwoWaySpins, TwoWayWait, TwoWayTimeout, EnvelopeArrives,
       WorkerOpCtx, WorkerResult, WorkerCleanup, Answer, To, TypeOK
  <2>4. \/ /\ worker[c] \in {"send", "wait", "op_ctx", "returned"}
           /\ worker'[c] \notin {"on_complete", "set_complete"}
        \/ /\ worker[c] = "finished" /\ worker'[c] = "done"
           /\ response'[c] = response[c]
    BY <1>7 DEF TwoWaySend, TwoWaySpins, TwoWayWait, TwoWayTimeout, EnvelopeArrives,
       WorkerOpCtx, WorkerResult, WorkerCleanup, Answer, To, TypeOK
  <2>5. c \notin sent
    BY <2>4 DEF KindInv, OneChannel, Listening
  <2> QED BY <2>1, <2>2, <2>3, <2>4, <2>5, LiveTwoWay
<1>8. ASSUME NEW c \in Calls, WorkerComplete(c) PROVE Consistent'
  <2>1. n' = n
    BY <1>8 DEF WorkerComplete
  <2> QED BY <1>2, <1>3, <1>8, <2>1, LiveWorker
<1>9. ASSUME NEW t \in Threads, CallbackReceive(t) PROVE Consistent'
  <2>1. n' = n
    BY <1>9 DEF CallbackReceive
  <2> QED BY <1>2, <1>3, <1>9, <2>1, LiveReceive
<1>10. ASSUME NEW t \in Threads,
              CallbackLookup(t) \/ \E c \in Calls : ResponseArrives(t, c)
       PROVE  Consistent'
  <2>1. n' = n /\ UNCHANGED <<callback, app, worker, response, sent>>
    BY <1>10 DEF CallbackLookup, ResponseArrives
  <2>2. Consistent /\ n \in Calls
    BY <1>2, <1>3, <2>1
  <2>3. /\ \A u \in Threads : u # t => listener'[u] = listener[u]
        /\ listener'[t].pc \in {"idle", "lookup", "set_envelope"}
    BY <1>10 DEF CallbackLookup, ResponseArrives, Idle, Thread, TypeOK
  <2>4. complete[block[n]] /\ n \in sent => copies'[n] >= 1
    BY <1>10, <2>2 DEF CallbackLookup, ResponseArrives, Consistent, Completed, TypeOK
  <2>5. ASSUME complete[block[n]], NEW u \in Threads, Active(u)', listener'[u].call = n
        PROVE  copies'[n] > 1
    <3>1. Completed /\ copies[n] \in Nat
      BY <2>2, <2>5 DEF Consistent, TypeOK
    <3>2. CASE CallbackLookup(t)
      <4>1. copies' = copies /\ Active(t)
        BY <3>2 DEF CallbackLookup, Active
      <4>2. listener'[t].call = n /\ listener'[t].pc # "idle" => listener[t].call = n
        BY <3>2 DEF CallbackLookup, Idle, Thread, TypeOK
      <4> QED BY <2>3, <2>5, <3>1, <4>1, <4>2 DEF Completed, Active
    <3>3. CASE \E c \in Calls : ResponseArrives(t, c)
      <4>1. PICK c \in Calls : ResponseArrives(t, c)
        BY <3>3
      <4>2. /\ listener'[t].call = c /\ c \in sent
            /\ copies' = [copies EXCEPT ![c] = copies[c] + 1]
        BY <4>1 DEF ResponseArrives, Thread, TypeOK
      <4>3. CASE u = t
        BY <2>2, <2>5, <3>1, <4>2, <4>3 DEF Completed, TypeOK
      <4>4. CASE u # t
        <5>1. copies[n] > 1
          BY <2>3, <2>5, <3>1, <4>4 DEF Completed, Active
        <5> QED BY <2>2, <3>1, <4>2, <5>1 DEF TypeOK
      <4> QED BY <4>3, <4>4
    <3> QED BY <1>10, <3>2, <3>3
  <2>6. complete[block[n]] => Completed'
    BY <2>1, <2>2, <2>4, <2>5 DEF Consistent, Completed, callback
  <2> QED BY <2>1, <2>2, <2>3, <2>6 DEF Consistent, Stored, callback
<1> QED
  BY <1>1, <1>4, <1>5, <1>6, <1>7, <1>8, <1>9, <1>10
     DEF Next, AppStep, CallStep, ListenerStep, SendRobust, SendReceive,
         SendReceiveNonBlocking

\* What a call returned.
ResultInv == \A c \in Calls : ~Shared(c) => result[c] \in {Unset, NULL, c}

\* A call returns its own answer, or what its callback holds.
LEMMA ResultStep ==
    ASSUME TypeOK, Bounds, KindInv, OwnInv, LiveInv, ResultInv, [Next]_vars
    PROVE  ResultInv'
<1> USE DEF appvars, two_way_unmoved, worker_unmoved, listener_unmoved
<1>0. Calls \subseteq Int /\ n \in Int
  BY DEF Calls, TypeOK
<1>1. \/ UNCHANGED result
      \/ /\ n \in Calls /\ n' = n
         /\ \E r : /\ result' = [result EXCEPT ![n] = r]
                   /\ \/ r \in {NULL, n}
                      \/ r = envelope[block[n]] /\ kind[n] \in WithCallback /\ app # "freed"
  <2>1. ASSUME ExecuteFails \/ DualSend \/ TwoWayReturn
        PROVE  /\ n \in Calls /\ n' = n
               /\ UNCHANGED result \/ \E r \in {NULL, n} : result' = [result EXCEPT ![n] = r]
    BY <2>1 DEF ExecuteFails, DualSend, TwoWayReturn, Bounds
  <2>2. ASSUME DualWait
        PROVE  /\ n \in Calls /\ n' = n /\ kind[n] \in WithCallback /\ app # "freed"
               /\ \/ UNCHANGED result
                  \/ result' = [result EXCEPT ![n] = NULL]
                  \/ result' = [result EXCEPT ![n] = envelope[block[n]]]
    BY <2>2 DEF DualWait, Bounds, WithCallback
  <2>3. ASSUME Poll
        PROVE  /\ n \in Calls /\ n' = n /\ kind[n] \in WithCallback /\ app # "freed"
               /\ result' = [result EXCEPT ![n] = envelope[block[n]]]
    BY <2>3 DEF Poll, OwnInv, TypeOK, WithCallback
  <2>4. UNCHANGED result \/ ExecuteFails \/ DualSend \/ TwoWayReturn \/ DualWait \/ Poll
    BY DEF Next, AppStep, CallStep, ListenerStep, SendRobust, SendReceive,
       SendReceiveNonBlocking, vars, Call, Execute, Spawn, DualEnter, AddCallback,
       DualSpins, SvcClientFree, TwoWaySend, TwoWaySpins, TwoWayWait, TwoWayTimeout,
       EnvelopeArrives, WorkerOpCtx, WorkerResult, WorkerComplete, WorkerCleanup,
       CallbackLookup, CallbackReceive, ResponseArrives
  <2> QED BY <2>1, <2>2, <2>3, <2>4
<1>2. ASSUME NEW c \in Calls, ~Shared(c)' PROVE result'[c] \in {Unset, NULL, c}
  <2>1. CASE c > n
    <3>1. result[c] = Unset
      BY <2>1 DEF OwnInv
    <3> QED BY <1>0, <1>1, <2>1, <3>1 DEF TypeOK
  <2>2. CASE ~(c > n)
    <3>1. ~Shared(c)
      BY <1>0, <1>2, <2>2, SharedKept
    <3>2. result[c] \in {Unset, NULL, c}
      BY <3>1 DEF ResultInv
    <3>3. c = n /\ kind[n] \in WithCallback /\ app # "freed" => envelope[block[n]] \in {NULL, n}
      <4> HAVE c = n /\ kind[n] \in WithCallback /\ app # "freed"
      <4>1. Live
        BY <3>1 DEF Live, Bounds
      <4> QED BY <4>1 DEF LiveInv, Consistent
    <3> QED BY <1>1, <3>2, <3>3 DEF TypeOK
  <2> QED BY <2>1, <2>2
<1> QED BY <1>2 DEF ResultInv

\* The inductive invariant of this section.
CallInv ==
    TypeOK /\ Bounds /\ KindInv /\ OwnInv /\ MatchInv /\ CopyInv /\ LiveInv /\ ResultInv

\* It holds in every reachable state.
LEMMA CallCorrect == Spec => []CallInv
<1>1. Init => CallInv
  <2>1. Init => ResultInv
    BY DEF Init, ResultInv
  <2> QED
    BY <2>1, TypeInit, KindInit, OwnInit, MatchInit, CopyInit, LiveInit DEF CallInv
<1>2. CallInv /\ [Next]_vars => CallInv'
  BY TypeStep, KindStep, OwnStep, MatchStep, CopyStep, LiveStep, ResultStep DEF CallInv
<1> QED BY <1>1, <1>2, PTL DEF Spec

\* A callback that was not freed is the one of the last call.
LEMMA OnlyLast ==
    ASSUME TypeOK, Bounds, OwnInv, NEW c \in Calls, HasCallback(c), ~Shared(c)
    PROVE  c = n /\ Live
<1>1. Calls \subseteq Int /\ n \in Int
  BY DEF Calls, TypeOK
<1>2. ~(c > n)
  BY <1>1 DEF Bounds, HasCallback, WithCallback, Async
<1>3. c = n /\ app # "freed"
  BY <1>1, <1>2 DEF OwnInv, HasCallback
<1> QED BY <1>3 DEF Live, HasCallback

\* However responses are delayed, repeated and reordered, whatever calls the
\* application makes in between and wherever their callbacks are allocated, a call
\* whose memory no thread of a freed call used gets no answer but its own.
THEOREM AnswersMatched == Spec => []AnswerBelongsToCall
<1>1. CallInv => AnswerBelongsToCall
  BY OnlyLast DEF CallInv, ResultInv, LiveInv, Consistent, AnswerBelongsToCall
<1> QED BY <1>1, CallCorrect, PTL

\* Whoever sees axis2_callback_get_complete return true may use the callback:
\* on_complete has returned and the envelope that answers the call is stored.
THEOREM CompletionIsFinal == Spec => []CompleteIsFinal
<1>1. CallInv => CompleteIsFinal
  BY OnlyLast DEF CallInv, LiveInv, Consistent, Completed, CompleteIsFinal
<1> QED BY <1>1, CallCorrect, PTL
-----------------------------------------------------------------------------
(* A failed send is reported: once engine_send failed the status in the     *)
(* environment stays until the call returns, which it does once.            *)

ReportInv ==
    /\ \A c \in Calls :
          kind[c] = "robust" /\ worker[c] # "done" => result[c] \in {Unset, NULL}
    /\ \A c \in send_failed :
          kind[c] = "robust" => worker[c] \in {"returned", "done"} /\ err[c] = "FAILURE"
    /\ SendFailureReported

\* Nothing failed before the first call.
LEMMA ReportInit == Init => ReportInv
  BY DEF Init, ReportInv, SendFailureReported, NULL

\* The call that sends is not one that has returned.
LEMMA ReportStep ==
    ASSUME TypeOK, Bounds, KindInv, OwnInv, ReportInv, [Next]_vars
    PROVE  ReportInv'
<1> USE DEF ReportInv, SendFailureReported, TypeOK, Bounds, appvars, sendvars, callback,
    netvars, two_way_unmoved, worker_unmoved, listener_unmoved
<1>0. Calls \subseteq Int /\ n \in Int
  BY DEF Calls
<1>1. ASSUME NEW k \in KindNames, Call(k) PROVE ReportInv'
  <2>1. /\ n + 1 \in Calls /\ n + 1 > n
        /\ \A c \in Calls : c # n + 1 => kind'[c] = kind[c]
        /\ UNCHANGED <<worker, result, send_failed, err>>
    BY <1>1, <1>0, ClientAssumption DEF Call, Calls
  <2>2. n + 1 \notin send_failed /\ result[n + 1] = Unset
    BY <2>1 DEF OwnInv
  <2> QED BY <2>1, <2>2
<1>2. ASSUME Execute \/ Spawn PROVE ReportInv'
  <2>1. /\ n \in Calls /\ worker[n] = "off"
        /\ UNCHANGED <<n, kind, result, send_failed, err>>
    BY <1>2 DEF Execute, Spawn, KindInv, Starting
  <2>2. \A c \in Calls : c # n => worker'[c] = worker[c]
    BY <1>2, <2>1 DEF Execute, Spawn
  <2>3. n \in send_failed => kind[n] # "robust"
    BY <2>1
  <2> QED BY <2>1, <2>2, <2>3
<1>3. ASSUME ExecuteFails PROVE ReportInv'
  BY <1>3 DEF ExecuteFails
<1>4. ASSUME DualEnter \/ AddCallback \/ DualSpins \/ SvcClientFree PROVE ReportInv'
  BY <1>4 DEF DualEnter, AddCallback, DualSpins, SvcClientFree
<1>5. ASSUME DualSend \/ DualWait \/ Poll PROVE ReportInv'
  <2>1. n \in Calls /\ kind[n] # "robust"
    BY <1>5 DEF DualSend, DualWait, Poll, KindInv, OwnInv, Listening, Async
  <2>2. /\ \A c \in Calls : c # n => result'[c] = result[c]
        /\ send_failed' \subseteq send_failed \cup {n} /\ UNCHANGED <<kind, worker, err>>
    BY <1>5 DEF DualSend, DualWait, Poll, OwnInv
  <2> QED BY <2>1, <2>2
<1>6. ASSUME TwoWayReturn PROVE ReportInv'
  BY <1>6 DEF TwoWayReturn
<1>7. ASSUME NEW c \in Calls, TwoWaySend(c) PROVE ReportInv'
  <2>1. worker[c] = "send" /\ (kind[c] = "robust" => c \notin send_failed)
    BY <1>7 DEF TwoWaySend
  <2>2. UNCHANGED <<n, kind, app, result>>
    BY <1>7 DEF TwoWaySend
  <2>3. \A d \in Calls : d # c => worker'[d] = worker[d] /\ err'[d] = err[d]
    BY <1>7 DEF TwoWaySend, Answer, To
  <2>4. \/ send_failed' = send_failed
        \/ send_failed' = send_failed \cup {c} /\ worker'[c] = "returned" /\ err'[c] = "FAILURE"
    BY <1>7 DEF TwoWaySend, Answer, To, StatusOnFailure
  <2> QED BY <2>1, <2>2, <2>3, <2>4
<1>8. ASSUME NEW c \in Calls,
             TwoWaySpins(c) \/ EnvelopeArrives(c) \/ TwoWayWait(c) \/ TwoWayTimeout(c)
      PROVE  ReportInv'
  <2>1. /\ worker[c] \in {"send", "wait"} /\ UNCHANGED <<kind, result, send_failed>>
        /\ \A d \in Calls : d # c => worker'[d] = worker[d] /\ err'[d] = err[d]
    BY <1>8 DEF TwoWaySpins, EnvelopeArrives, TwoWayWait, TwoWayTimeout, Answer, To
  <2> QED BY <2>1
<1>9. ASSUME NEW c \in Calls,
             WorkerOpCtx(c) \/ WorkerResult(c) \/ WorkerCleanup(c) \/ WorkerComplete(c)
      PROVE  ReportInv'
  <2>1. /\ UNCHANGED <<kind, result, send_failed, err>>
        /\ \A d \in Calls : d # c => worker'[d] = worker[d]
    BY <1>9 DEF WorkerOpCtx, WorkerResult, WorkerCleanup, WorkerComplete, To
  <2>2. kind[c] = "non_blocking"
    BY <1>9 DEF WorkerOpCtx, WorkerResult, WorkerCleanup, WorkerComplete, CompleteStep, KindInv
  <2> QED BY <2>1, <2>2
<1>10. ASSUME NEW t \in Threads, ListenerStep(t) PROVE ReportInv'
  BY <1>10 DEF ListenerStep, CallbackLookup, CallbackReceive
<1>11. ASSUME NEW t \in Threads, NEW c \in Calls, ResponseArrives(t, c) PROVE ReportInv'
  BY <1>11 DEF ResponseArrives
<1>12. CASE UNCHANGED vars
  BY <1>12 DEF vars
<1> QED
  BY <1>1, <1>2, <1>3, <1>4, <1>5, <1>6, <1>7, <1>8, <1>9, <1>10, <1>11, <1>12
     DEF Next, AppStep, CallStep, SendRobust, SendReceive, SendReceiveNonBlocking

\* A robust send over one channel whose engine_send failed never returns SUCCESS,
\* whatever the sender left in the environment.
THEOREM SendFailuresReported == Spec => []SendFailureReported
<1>1. ReportInv /\ CallInv /\ [Next]_vars => ReportInv'
  BY ReportStep DEF CallInv
<1>2. ReportInv => SendFailureReported
  BY DEF ReportInv
<1> QED BY <1>1, <1>2, CallCorrect, ReportInit, PTL DEF Spec
-----------------------------------------------------------------------------
(* A callback that was seen to be complete is used no more, unless the      *)
(* response was delivered again.                                            *)

\* Nobody works for call c, and who would has had the response.
Quiet(c) ==
    /\ worker[c] \in {"off", "finished", "done"}
    /\ \A t \in Threads : Active(t) => listener[t].call # c
    /\ c \in sent => copies[c] >= 1 \/ kind[c] = "dual_robust"

SeenInv == \A c \in seen : Shared(c) \/ copies[c] > 1 \/ Quiet(c)

\* A call is seen to the end when its callback is complete or nobody will
\* complete it.
LEMMA SeenNow ==
    ASSUME CallInv, [Next]_vars, n \in seen', n \notin seen
    PROVE  n' = n /\ n \in Calls /\ (Shared(n) \/ copies'[n] > 1 \/ Quiet(n)')
<1> USE DEF CallInv, appvars, sendvars, netvars, two_way_unmoved, worker_unmoved,
    listener_unmoved
<1>1. ExecuteFails \/ DualSend \/ DualWait \/ TwoWayReturn \/ Poll
  BY DEF Next, AppStep, CallStep, ListenerStep, SendRobust, SendReceive,
     SendReceiveNonBlocking, vars, Call, Execute, Spawn, DualEnter, AddCallback, DualSpins,
     SvcClientFree, TwoWaySend, TwoWaySpins, TwoWayWait, TwoWayTimeout, EnvelopeArrives,
     WorkerOpCtx, WorkerResult, WorkerComplete, WorkerCleanup, CallbackLookup,
     CallbackReceive, ResponseArrives
<1>2. n' = n /\ n \in Calls /\ UNCHANGED <<listener, copies, kind>> /\ app # "freed"
  BY <1>1 DEF ExecuteFails, DualSend, DualWait, TwoWayReturn, Poll, Bounds, OwnInv, TypeOK
<1>3. ASSUME ExecuteFails PROVE Quiet(n)'
  <2>1. worker[n] = "off" /\ n \notin sent /\ UNCHANGED <<worker, sent>>
    BY <1>3 DEF ExecuteFails, KindInv, Starting
  <2>2. \A t \in Threads : Active(t) => listener[t].call # n
    BY <2>1 DEF KindInv
  <2> QED BY <1>2, <2>1, <2>2 DEF Quiet, Active
<1>4. ASSUME DualSend PROVE Quiet(n)'
  <2>1. kind[n] = "dual_robust" /\ worker[n] = "off" /\ worker' = worker
    BY <1>4 DEF DualSend, KindInv, Starting
  <2>2. \A t \in Threads : Active(t) => listener[t].call # n
    BY <2>1 DEF KindInv
  <2> QED BY <1>2, <2>1, <2>2 DEF Quiet, Active
<1>5. ASSUME TwoWayReturn PROVE Quiet(n)'
  <2>1. worker'[n] = "done" /\ kind[n] \in OneChannel /\ sent' = sent
    BY <1>2, <1>5 DEF TwoWayReturn, KindInv, TypeOK
  <2>2. n \notin sent
    BY <2>1 DEF KindInv, OneChannel, Listening
  <2>3. \A t \in Threads : Active(t) => listener[t].call # n
    BY <2>2 DEF KindInv
  <2> QED BY <1>2, <2>1, <2>2, <2>3 DEF Quiet, Active
<1>6. ASSUME DualWait \/ Poll PROVE Shared(n) \/ copies'[n] > 1 \/ Quiet(n)'
  <2> SUFFICES ASSUME ~Shared(n) PROVE copies'[n] > 1 \/ Quiet(n)'
    OBVIOUS
  <2>1. /\ complete[block[n]] /\ kind[n] \in WithCallback /\ UNCHANGED <<worker, sent>>
    BY <1>6 DEF DualWait, Poll, Bounds, OwnInv, WithCallback
  <2>2. Live
    BY <1>2, <2>1 DEF Live, Bounds
  <2>3. Completed
    BY <2>1, <2>2 DEF LiveInv, Consistent
  <2>4. CASE n \in sent
    <3>1. worker[n] = "off"
      BY <1>2, <2>4 DEF KindInv, OneChannel, Listening
    <3> QED BY <1>2, <2>1, <2>3, <2>4, <3>1 DEF Completed, Quiet, Active
  <2>5. CASE n \notin sent
    <3>1. \A t \in Threads : Active(t) => listener[t].call # n
      BY <2>5 DEF KindInv
    <3> QED BY <1>2, <2>1, <2>3, <2>5, <3>1 DEF Completed, Quiet, Active
  <2> QED BY <2>4, <2>5
<1> QED BY <1>1, <1>2, <1>3, <1>4, <1>5, <1>6

\* How a step changes what SeenInv speaks of, for a call that was seen.
LEMMA SeenLater ==
    ASSUME CallInv, [Next]_vars, NEW c \in seen, Quiet(c)
    PROVE  copies'[c] > 1 \/ Quiet(c)'
<1> USE DEF CallInv, appvars, sendvars, netvars, two_way_unmoved, worker_unmoved,
    listener_unmoved
<1>0. c \in Calls /\ c <= n /\ Calls \subseteq Int /\ n \in Int
  BY DEF TypeOK, OwnInv, Calls
<1>1. kind'[c] = kind[c]
  BY <1>0, SharedKept
<1>2. ASSUME NEW k \in KindNames, Call(k) PROVE Quiet(c)'
  BY <1>1, <1>2 DEF Call, Quiet, Active
<1>3. ASSUME Execute \/ Spawn \/ DualSend \/ DualSpins \/ TwoWayReturn PROVE Quiet(c)'
  <2>1. c # n /\ n \in Calls
    BY <1>3 DEF Execute, Spawn, DualSend, DualSpins, TwoWayReturn, OwnInv, Bounds
  <2>2. /\ worker'[c] = worker[c] /\ sent' \subseteq sent \cup {n}
        /\ UNCHANGED <<listener, copies>>
    BY <1>0, <1>3, <2>1 DEF Execute, Spawn, DualSend, DualSpins, TwoWayReturn, TypeOK
  <2> QED BY <1>1, <2>1, <2>2 DEF Quiet, Active
<1>4. ASSUME \/ ExecuteFails \/ DualEnter \/ AddCallback \/ DualWait \/ Poll \/ SvcClientFree
             \/ UNCHANGED vars
      PROVE  Quiet(c)'
  <2>1. UNCHANGED <<worker, sent, listener, copies>>
    BY <1>4 DEF ExecuteFails, DualEnter, AddCallback, DualWait, Poll, SvcClientFree, vars
  <2> QED BY <1>1, <2>1 DEF Quiet, Active
<1>5. ASSUME NEW d \in Calls, CallStep(d) \/ EnvelopeArrives(d) PROVE Quiet(c)'
  <2>1. /\ UNCHANGED <<sent, listener, copies>>
        /\ \A x \in Calls : x # d => worker'[x] = worker[x]
        /\ worker[d] \in {"off", "finished", "done"} => worker'[d] = "done"
    BY <1>5 DEF CallStep, TwoWaySend, TwoWaySpins, TwoWayWait, TwoWayTimeout,
       EnvelopeArrives, WorkerOpCtx, WorkerResult, WorkerComplete, WorkerCleanup,
       CompleteStep, Answer, To, TypeOK
  <2> QED BY <1>0, <1>1, <2>1 DEF Quiet, Active
<1>6. ASSUME NEW t \in Threads, ListenerStep(t) PROVE Quiet(c)'
  <2>1. /\ UNCHANGED <<worker, sent, copies>>
        /\ \A u \in Threads : u # t => listener'[u] = listener[u]
        /\ Active(t) /\ (listener'[t].pc # "idle" => listener'[t].call = listener[t].call)
    BY <1>6 DEF ListenerStep, CallbackLookup, CallbackReceive, CompleteStep, ThreadAfter,
       Idle, Thread, Active, TypeOK
  <2> QED BY <1>1, <2>1 DEF Quiet, Active
<1>7. ASSUME NEW t \in Threads, NEW d \in Calls, ResponseArrives(t, d)
      PROVE  copies'[c] > 1 \/ Quiet(c)'
  <2>1. /\ UNCHANGED <<worker, sent>> /\ d \in sent /\ kind[d] # "dual_robust"
        /\ \A u \in Threads : u # t => listener'[u] = listener[u]
        /\ listener'[t].call = d
        /\ copies' = [copies EXCEPT ![d] = copies[d] + 1]
    BY <1>7 DEF ResponseArrives, Thread, TypeOK
  <2>2. CASE c = d
    BY <2>1, <2>2 DEF Quiet, TypeOK
  <2>3. CASE c # d
    <3>1. copies'[c] = copies[c]
      BY <1>0, <2>1, <2>3 DEF TypeOK
    <3> QED BY <1>1, <2>1, <2>3, <3>1 DEF Quiet, Active
  <2> QED BY <2>2, <2>3
<1> QED
  BY <1>2, <1>3, <1>4, <1>5, <1>6, <1>7
     DEF Next, AppStep, CallStep, SendRobust, SendReceive, SendReceiveNonBlocking

\* Copies are counted up; the application only sees its last call to the end.
LEMMA CopiesKept ==
    ASSUME CallInv, [Next]_vars
    PROVE  /\ \A c \in Calls : copies[c] > 1 => copies'[c] > 1
           /\ seen' \subseteq seen \cup {n}
<1> USE DEF CallInv
<1>1. copies' = copies \/ \E d \in Calls : copies' = [copies EXCEPT ![d] = copies[d] + 1]
  BY Zenon
  DEF Next, AppStep, CallStep, ListenerStep, SendRobust, SendReceive, SendReceiveNonBlocking,
      vars, Call, Execute, ExecuteFails, Spawn, DualEnter, AddCallback, DualSend, DualSpins,
      DualWait, TwoWayReturn, Poll, SvcClientFree, TwoWaySend, TwoWaySpins, TwoWayWait,
      TwoWayTimeout, EnvelopeArrives, WorkerOpCtx, WorkerResult, WorkerComplete,
      WorkerCleanup, CallbackLookup, CallbackReceive, ResponseArrives, two_way_unmoved,
      worker_unmoved, netvars
<1>2. \A c \in Calls : copies[c] > 1 => copies'[c] > 1
  BY <1>1 DEF TypeOK
<1>3. seen' \subseteq seen \cup {n}
  BY DEF Next, AppStep, CallStep, ListenerStep, SendRobust, SendReceive,
     SendReceiveNonBlocking, vars, Call, Execute, ExecuteFails, Spawn, DualEnter,
     AddCallback, DualSend, DualSpins, DualWait, TwoWayReturn, Poll, SvcClientFree,
     TwoWaySend, TwoWaySpins, TwoWayWait, TwoWayTimeout, EnvelopeArrives, WorkerOpCtx,
     WorkerResult, WorkerComplete, WorkerCleanup, CallbackLookup, CallbackReceive,
     ResponseArrives, two_way_unmoved, worker_unmoved, listener_unmoved, appvars, OwnInv
<1> QED BY <1>2, <1>3

\* The application does not go back to a call.
LEMMA SeenStep ==
    ASSUME CallInv, SeenInv, [Next]_vars
    PROVE  SeenInv'
<1>1. /\ TypeOK /\ Bounds /\ OwnInv /\ Calls \subseteq Int /\ n \in Int
      /\ seen' \subseteq seen \cup {n}
  <2>1. TypeOK /\ Bounds /\ OwnInv
    BY DEF CallInv
  <2>2. seen' \subseteq seen \cup {n}
    BY CopiesKept
  <2>3. Calls \subseteq Int
    BY DEF Calls
  <2>4. n \in Int
    BY <2>1, ClientAssumption DEF TypeOK
  <2> QED BY <2>1, <2>2, <2>3, <2>4
<1>2. ASSUME NEW c \in seen' PROVE Shared(c)' \/ copies'[c] > 1 \/ Quiet(c)'
  <2>1. CASE c \in seen
    <3>1. c \in Calls /\ c <= n
      BY <1>1, <2>1 DEF TypeOK, OwnInv
    <3>2. CASE Shared(c)
      BY <1>1, <3>1, <3>2, SharedKept
    <3>3. CASE copies[c] > 1
      BY <3>1, <3>3, CopiesKept
    <3>4. CASE Quiet(c)
      BY <2>1, <3>4, SeenLater
    <3> QED BY <2>1, <3>2, <3>3, <3>4 DEF SeenInv
  <2>2. CASE c \notin seen
    <3>1. c = n /\ n \in seen' /\ n \notin seen
      BY <1>1, <1>2, <2>2
    <3>2. n' = n /\ n \in Calls /\ (Shared(n) \/ copies'[n] > 1 \/ Quiet(n)')
      BY <3>1, SeenNow
    <3>3. Shared(c) => Shared(c)'
      BY <1>1, <3>1, <3>2, SharedKept
    <3>4. Quiet(n)' => Quiet(c)'
      BY <3>1, <3>2 DEF Quiet
    <3> QED BY <3>1, <3>2, <3>3, <3>4
  <2> QED BY <2>1, <2>2
<1> QED BY <1>2 DEF SeenInv

\* A use of a callback that was freed: the application had not seen the call to
\* its end, this is another copy of the response, or the memory was shared.
LEMMA UseStep ==
    ASSUME CallInv, SeenInv, CallbackOutlivesUse, [Next]_vars
    PROVE  CallbackOutlivesUse'
<1>0. /\ TypeOK /\ Bounds /\ KindInv /\ OwnInv /\ Calls \subseteq Int /\ n \in Int
      /\ seen' \subseteq seen \cup {n}
      /\ \A c \in Calls : copies[c] > 1 => copies'[c] > 1
      /\ \A c \in Calls : c <= n /\ Shared(c) => Shared(c)'
  <2>1. TypeOK /\ Bounds /\ KindInv /\ OwnInv
    BY DEF CallInv
  <2>2. Calls \subseteq Int /\ n \in Int
    BY <2>1 DEF TypeOK, Calls
  <2>3. /\ seen' \subseteq seen \cup {n}
        /\ \A c \in Calls : copies[c] > 1 => copies'[c] > 1
    BY CopiesKept
  <2>4. \A c \in Calls : c <= n /\ Shared(c) => Shared(c)'
    BY <2>1, SharedKept
  <2> QED BY <2>1, <2>2, <2>3, <2>4
<1>1. ASSUME NEW c \in misused', c \notin misused
      PROVE  /\ c \in Calls /\ c <= n /\ ~Quiet(c) /\ seen' = seen
  <2>1. ASSUME NEW d \in Calls, WorkerComplete(d)
        PROVE  d = c /\ c \in freed /\ ~Quiet(d) /\ seen' = seen
    BY <1>1, <2>1 DEF WorkerComplete, CompleteStep, UseCallback, Quiet, worker_unmoved, appvars
  <2>2. ASSUME NEW t \in Threads, ListenerStep(t)
        PROVE  listener[t].call = c /\ Active(t) /\ seen' = seen
    BY <1>1, <2>2 DEF ListenerStep, CallbackLookup, CallbackReceive, CompleteStep,
       UseCallback, Active, listener_unmoved, appvars
  <2>3. \/ misused' = misused
        \/ \E d \in Calls : WorkerComplete(d)
        \/ \E t \in Threads : ListenerStep(t)
    BY Zenon
    DEF Next, AppStep, CallStep, SendRobust, SendReceive, SendReceiveNonBlocking,
        vars, Call, Execute, ExecuteFails, Spawn, DualEnter, AddCallback, DualSend,
        DualSpins, DualWait, TwoWayReturn, Poll, SvcClientFree, TwoWaySend, TwoWaySpins,
        TwoWayWait, TwoWayTimeout, EnvelopeArrives, WorkerOpCtx, WorkerResult,
        WorkerCleanup, ResponseArrives, two_way_unmoved
  <2>4. CASE \E d \in Calls : WorkerComplete(d)
    <3>1. PICK d \in Calls : WorkerComplete(d)
      BY <2>4
    <3>2. d = c /\ c \in freed /\ ~Quiet(d) /\ seen' = seen
      BY <2>1, <3>1
    <3>3. c \in Calls /\ c <= n
      BY <1>0, <3>2 DEF OwnInv, TypeOK
    <3> QED BY <3>2, <3>3
  <2>5. CASE \E t \in Threads : ListenerStep(t)
    <3>1. PICK t \in Threads : ListenerStep(t)
      BY <2>5
    <3>2. listener[t].call = c /\ Active(t) /\ seen' = seen
      BY <2>2, <3>1
    <3>3. c \in Calls /\ kind[c] \in Listening
      BY <1>0, <3>2 DEF KindInv, Bounds, Active
    <3>4. c <= n
      BY <1>0, <3>3 DEF Bounds, Listening
    <3> QED BY <3>2, <3>3, <3>4 DEF Quiet
  <2> QED BY <1>1, <2>3, <2>4, <2>5
<1>2. ASSUME NEW c \in misused', c \notin misused
      PROVE  c \notin seen' \/ copies'[c] > 1 \/ Shared(c)'
  BY <1>0, <1>1, <1>2 DEF SeenInv
<1>3. ASSUME NEW c \in misused PROVE c \notin seen' \/ copies'[c] > 1 \/ Shared(c)'
  <2>1. c \in Calls /\ c \in freed /\ c <= n
    BY <1>0 DEF TypeOK, OwnInv
  <2>2. c = n => seen' = seen
    <3>1. c = n => app = "freed"
      BY <1>0, <2>1 DEF OwnInv
    <3>2. app = "freed" => seen' = seen
      BY DEF Next, AppStep, CallStep, ListenerStep, SendRobust, SendReceive,
         SendReceiveNonBlocking, vars, Call, Execute, ExecuteFails, Spawn, DualEnter,
         AddCallback, DualSend, DualSpins, DualWait, TwoWayReturn, Poll, SvcClientFree,
         TwoWaySend, TwoWaySpins, TwoWayWait, TwoWayTimeout, EnvelopeArrives, WorkerOpCtx,
         WorkerResult, WorkerComplete, WorkerCleanup, CallbackLookup, CallbackReceive,
         ResponseArrives, two_way_unmoved, worker_unmoved, listener_unmoved, appvars
    <3> QED BY <3>1, <3>2
  <2>3. c \in seen' => c \in seen
    BY <1>0, <2>2
  <2> QED BY <1>0, <2>1, <2>3 DEF CallbackOutlivesUse
<1> QED BY <1>2, <1>3 DEF CallbackOutlivesUse

\* However late or often responses come and wherever callbacks are allocated, a
\* callback is used after it was freed only if the application gave it up, a
\* response was repeated, or an earlier such use had completed it.
THEOREM CallbacksOutliveUse == Spec => []CallbackOutlivesUse
<1>1. Init => SeenInv /\ CallbackOutlivesUse
  BY DEF Init, SeenInv, CallbackOutlivesUse
<1>2. CallInv /\ SeenInv /\ CallbackOutlivesUse /\ [Next]_vars
         => SeenInv' /\ CallbackOutlivesUse'
  BY SeenStep, UseStep
<1> QED BY <1>1, <1>2, CallCorrect, PTL DEF Spec
=============================================================================
