----------------------------- MODULE ClientCall -----------------------------
(***************************************************************************)
(* Calls through one service client: src/core/clientapi/svc_client.c,      *)
(* op_client.c, callback.c and callback_recv.c.                            *)
(*                                                                         *)
(* One application thread makes the calls.  A non-blocking call over one   *)
(* channel gets a worker thread of the pool; with a separate listener, a   *)
(* thread of the transport receiver hands each response to the callback    *)
(* receiver, which finds the callback of the call by message id.  Both     *)
(* complete the callback while the application polls it, times out, or     *)
(* makes the next call, which frees the operation client and callback of   *)
(* the last one.  The mutexes of callback.c and callback_recv.c are        *)
(* created and never locked, so every access below is a step of its own;   *)
(* stores become visible in program order (the two of a callback are       *)
(* separated by a call through a function pointer).                        *)
(*                                                                         *)
(* Calls are numbered; the number of a call stands for its message id, its *)
(* operation client and the envelope that answers it.  A callback is a     *)
(* block of memory, which a later call may get once it is freed; so may    *)
(* the operation client, whose one shared field is read in AsyncResult.    *)
(***************************************************************************)
EXTENDS Integers

CONSTANTS
    Programs,     \* what applications do: the kind of each call, "none" at the end
    Threads,      \* threads of the transport receiver
    Timeout,      \* AXIS2_TIMEOUT_IN_SECONDS: -1 waits forever, 0 is not set
    CallTimeout,  \* timeout_in_milli_seconds / 10 of the options
    MaxCalls,     \* bound: calls made
    MaxCopies     \* bound: copies of one response delivered

\* robust: send_robust and fire_and_forget; dual_robust: the same with a
\* separate listener; dual_blocking: send_receive with one; dual: the same,
\* non-blocking.
KindNames == {"robust", "send_receive", "non_blocking", "dual_robust",
              "dual_blocking", "dual"}
Async == {"non_blocking", "dual"}
OneChannel == {"robust", "send_receive"}
WithCallback == Async \cup {"dual_blocking"}

ASSUME ClientAssumption ==
    /\ Timeout \in Nat \cup {-1}
    /\ CallTimeout \in Nat
    /\ MaxCalls \in Nat
    /\ MaxCopies \in Nat

Calls == 1..MaxCalls

ASSUME ProgramAssumption == Programs \subseteq [Calls -> KindNames \cup {"none"}]

NULL == 0
Unset == -1

VARIABLES
    n,            \* calls made so far
    kind,         \* the kind of each call
    app,          \* where the application thread is
    result,       \* what each call returned: Unset, NULL (failure) or the call
    err,          \* env->error->status_code of the thread that sends the call
    index,        \* the countdown of the wait loop of each call
    op_client,    \* the call of svc_client->op_client
    freed,        \* calls whose operation client and callback were freed
    worker,       \* where two_way_send and the worker function of a call are
    arrived,      \* msg_ctx->response_soap_envelope is set
    response,     \* what two_way_send returned: NULL, empty or answer
    block,        \* the memory of the callback of a call, NULL if it has none
    complete,     \* callback->complete, of each block
    envelope,     \* callback->envelope
    on_complete,  \* how often callback->on_complete returned
    callback_map, \* callback_recv->callback_map, message id to block
    sent,         \* calls whose request left through the separate channel
    copies,       \* how many responses to a call were delivered
    listener,     \* the transport receiver's threads
    seen,         \* history: calls the application saw to the end
    send_failed,  \* history: calls whose engine_send failed
    unmatched,    \* history: responses that found no callback
    misused,      \* history: calls whose callback was used after it was freed
    op_misused    \* history: the same of the operation client

appvars == <<n, kind, app, result, op_client, freed, seen>>
sendvars == <<worker, arrived, response, err, send_failed>>
callback == <<block, complete, envelope, on_complete>>
netvars == <<callback_map, sent, copies, listener, unmatched>>
vars == <<appvars, sendvars, index, callback, netvars, misused, op_misused>>

\* A receiver thread: its stage, the call its message relates to, and the
\* block of the callback it found.
Thread(p, c, b) == [pc |-> p, call |-> c, callback |-> b]
Idle == Thread("idle", NULL, NULL)

Init ==
    /\ n = 0 /\ app = "idle" /\ op_client = NULL
    /\ kind = [c \in Calls |-> "none"]
    /\ result = [c \in Calls |-> Unset]
    /\ err = [c \in Calls |-> "SUCCESS"]
    /\ index = [c \in Calls |-> 0]
    /\ worker = [c \in Calls |-> "off"]
    /\ arrived = [c \in Calls |-> FALSE]
    /\ response = [c \in Calls |-> "none"]
    /\ block = [c \in Calls |-> NULL]
    /\ complete = [c \in Calls |-> FALSE]
    /\ envelope = [c \in Calls |-> NULL]
    /\ on_complete = [c \in Calls |-> 0]
    /\ callback_map = [c \in Calls |-> NULL]
    /\ copies = [c \in Calls |-> 0]
    /\ listener = [t \in Threads |-> Idle]
    /\ freed = {} /\ sent = {} /\ seen = {} /\ send_failed = {}
    /\ unmatched = {} /\ misused = {} /\ op_misused = {}

\* A step touches the callback, or the operation client, of call c.
UseCallback(c) == misused' = IF c \in freed THEN misused \cup {c} ELSE misused
UseOpClient(c) ==
    op_misused' = IF c \in freed THEN op_misused \cup {c} ELSE op_misused
-----------------------------------------------------------------------------
(* The application thread.                                                  *)

\* Mutant: the operation client is freed whether there is one or not.
FreeLast_Unchecked == freed' = freed \cup {op_client}

\* axis2_svc_client_create_op_client frees the operation client of the last
\* call, with its callback, before it creates the new one.
FreeLast == freed' = freed \cup ({op_client} \ {NULL})

\* Memory that freed callbacks left and no callback has now.
Reusable ==
    {b \in Calls : /\ \E c \in freed : block[c] = b
                   /\ \A c \in (1..n) \ freed : block[c] # b}

\* Mutant: the fields are not reset.
CreateCallback_NoReset(k) ==
    /\ \/ /\ k \in WithCallback
          /\ \E b \in Reusable \cup {n + 1} : block' = [block EXCEPT ![n + 1] = b]
       \/ /\ k \notin WithCallback
          /\ UNCHANGED block
    /\ UNCHANGED <<complete, envelope, on_complete>>

\* axis2_callback_create, before axis2_svc_client_create_op_client: by the
\* application, or by send_receive with a separate listener.
CreateCallback(k) ==
    \/ /\ k \in WithCallback
       /\ \E b \in Reusable \cup {n + 1} :
              /\ block' = [block EXCEPT ![n + 1] = b]
              /\ complete' = [complete EXCEPT ![b] = FALSE]
              /\ envelope' = [envelope EXCEPT ![b] = NULL]
              /\ on_complete' = [on_complete EXCEPT ![b] = 0]
    \/ /\ k \notin WithCallback
       /\ UNCHANGED callback

\* The application may go on with a call of kind k.
Planned(k) ==
    \E p \in Programs : p[n + 1] = k /\ \A c \in 1..n : p[c] = kind[c]

\* What the invocation functions share, up to axis2_op_client_execute.
Call(k) ==
    /\ app = "idle" /\ n < MaxCalls
    /\ Planned(k)
    /\ n' = n + 1
    /\ kind' = [kind EXCEPT ![n + 1] = k]
    /\ CreateCallback(k)
    /\ FreeLast
    /\ op_client' = n + 1
    /\ app' = "execute"
    /\ UNCHANGED <<result, seen, sendvars, index, netvars, misused, op_misused>>

\* axis2_svc_client_send_robust_with_op_qname and its likes without a result.
SendRobust(k) == k \in {"robust", "dual_robust"} /\ Call(k)

\* axis2_svc_client_send_receive_with_op_qname, with a listener or without.
SendReceive(k) == k \in {"send_receive", "dual_blocking"} /\ Call(k)

\* axis2_svc_client_send_receive_non_blocking_with_op_qname
SendReceiveNonBlocking(k) == k \in Async /\ Call(k)

\* axis2_op_client_execute: over one channel two_way_send runs in this thread or
\* in a worker; with a separate listener the response comes elsewhere, and a
\* call without a callback registers none.
Execute ==
    /\ app = "execute"
    /\ app' = CASE kind[n] \in OneChannel -> "two_way"
                [] kind[n] = "non_blocking" -> "spawn"
                [] kind[n] = "dual_robust" -> "send"
                [] OTHER -> "enter"
    /\ worker' = [worker EXCEPT ![n] =
                     IF kind[n] \in OneChannel THEN "send" ELSE @]
    /\ UNCHANGED <<n, kind, result, op_client, freed, seen, arrived, response,
                   err, send_failed, index, callback, netvars, misused,
                   op_misused>>

\* It fails before it sends: no transport, no operation, or preparing the
\* invocation failed.  Only a robust send passes the status on; send_receive
\* finds no response, and with a listener waits for one all the same.
ExecuteFails ==
    /\ app = "execute"
    /\ \/ /\ kind[n] \in OneChannel \cup {"dual_robust"}
          /\ app' = "idle"
          /\ result' = [result EXCEPT ![n] = NULL]
          /\ seen' = seen \cup {n}
          /\ UNCHANGED index
       \/ /\ kind[n] = "dual_blocking"
          /\ app' = "wait"
          /\ index' = [index EXCEPT ![n] = CallTimeout]
          /\ UNCHANGED <<result, seen>>
       \/ /\ kind[n] \in Async
          /\ app' = "idle"
          /\ UNCHANGED <<result, seen, index>>
    /\ UNCHANGED <<n, kind, op_client, freed, sendvars, callback, netvars,
                   misused, op_misused>>

\* The non-blocking branch: a thread of the pool, or a line in the log.
Spawn ==
    /\ app = "spawn"
    /\ app' = "idle"
    /\ \/ worker' = [worker EXCEPT ![n] = "op_ctx"]
       \/ UNCHANGED worker
    /\ UNCHANGED <<n, kind, result, op_client, freed, seen, arrived, response,
                   err, send_failed, index, callback, netvars, misused,
                   op_misused>>

\* Mutant: the request leaves before the callback is registered.
AfterDual_SendFirst(stage) == CASE stage = "enter" -> "send"
                                [] stage = "send" -> "add_callback"
                                [] OTHER -> IF kind[n] = "dual_blocking"
                                            THEN "wait" ELSE "idle"

\* The order of the separate-listener branch; send_receive then waits.
AfterDual(stage) == CASE stage = "enter" -> "add_callback"
                      [] stage = "add_callback" -> "send"
                      [] OTHER -> IF kind[n] = "dual_blocking" THEN "wait"
                                                               ELSE "idle"

DualEnter ==
    /\ app = "enter"
    /\ app' = AfterDual(app)
    /\ index' = [index EXCEPT ![n] = CallTimeout]
    /\ UNCHANGED <<n, kind, result, op_client, freed, seen, sendvars, callback,
                   netvars, misused, op_misused>>

\* axis2_callback_recv_add_callback
AddCallback ==
    /\ app = "add_callback"
    /\ app' = AfterDual(app)
    /\ callback_map' = [callback_map EXCEPT ![n] = block[n]]
    /\ UNCHANGED <<n, kind, result, op_client, freed, seen, sendvars, index,
                   callback, sent, copies, listener, unmatched, misused,
                   op_misused>>

\* axis2_engine_send, whose status is ignored: a robust send returns SUCCESS.
DualSend ==
    /\ app = "send"
    /\ \/ sent' = sent \cup {n} /\ UNCHANGED send_failed
       \/ UNCHANGED sent /\ send_failed' = send_failed \cup {n}
    /\ app' = AfterDual(app)
    /\ \/ /\ kind[n] = "dual_robust"
          /\ result' = [result EXCEPT ![n] = n]
          /\ seen' = seen \cup {n}
       \/ /\ kind[n] # "dual_robust"
          /\ UNCHANGED <<result, seen>>
    /\ UNCHANGED <<n, kind, op_client, freed, worker, arrived,
                   response, err, index, callback, callback_map, copies,
                   listener, unmatched, misused, op_misused>>

\* The request leaves, and the sender reads the headers of the answer for ever:
\* the peer closed or fell silent inside them, which its loop does not test.
DualSpins ==
    /\ app = "send"
    /\ sent' = sent \cup {n}
    /\ app' = "spinning"
    /\ UNCHANGED <<n, kind, result, op_client, freed, seen, sendvars, index,
                   callback, callback_map, copies, listener, unmatched, misused,
                   op_misused>>

\* Mutant: the loop does not count.
Decrement_Never(k) == k

\* The countdown of a wait loop.
Decrement(k) == k - 1

\* axis2_svc_client_send_receive_with_op_qname waiting for its callback:
\* `index-- >= 0' is tested after get_complete.
DualWait ==
    /\ app = "wait"
    /\ \/ /\ complete[block[n]]
          /\ app' = "idle"
          /\ result' = [result EXCEPT ![n] = envelope[block[n]]]
          /\ seen' = seen \cup {n}
          /\ UNCHANGED index
       \/ /\ ~complete[block[n]] /\ index[n] >= 0
          /\ index' = [index EXCEPT ![n] = Decrement(@)]
          /\ UNCHANGED <<app, result, seen>>
       \/ /\ ~complete[block[n]] /\ index[n] < 0
          /\ app' = "idle"
          /\ result' = [result EXCEPT ![n] = NULL]
          /\ UNCHANGED <<index, seen>>
    /\ UNCHANGED <<n, kind, op_client, freed, sendvars, callback, netvars,
                   misused, op_misused>>

\* two_way_send returned to a blocking call.  send_receive takes the envelope
\* of the response context, a robust send the status in the environment.
TwoWayReturn ==
    /\ app = "two_way" /\ worker[n] = "returned"
    /\ app' = "idle"
    /\ worker' = [worker EXCEPT ![n] = "done"]
    /\ result' = [result EXCEPT ![n] =
          IF kind[n] = "robust" THEN IF err[n] = "SUCCESS" THEN n ELSE NULL
          ELSE IF response[n] = "answer" THEN n ELSE NULL]
    /\ seen' = seen \cup {n}
    /\ UNCHANGED <<n, kind, op_client, freed, arrived, response, err,
                   send_failed, index, callback, netvars, misused, op_misused>>

\* The application polls axis2_callback_get_complete of its last call.
Poll ==
    /\ app = "idle" /\ op_client # NULL
    /\ kind[op_client] \in Async /\ op_client \notin seen
    /\ complete[block[op_client]]
    /\ seen' = seen \cup {op_client}
    /\ result' = [result EXCEPT ![op_client] = envelope[block[op_client]]]
    /\ UNCHANGED <<n, kind, app, op_client, freed, sendvars, index, callback,
                   netvars, misused, op_misused>>

\* axis2_svc_client_free.  The listener is never stopped.
SvcClientFree ==
    /\ app = "idle"
    /\ app' = "freed"
    /\ FreeLast
    /\ UNCHANGED <<n, kind, result, op_client, seen, sendvars, index, callback,
                   netvars, misused, op_misused>>
-----------------------------------------------------------------------------
(* axis2_op_client_two_way_send for call c, in the application thread or in *)
(* the worker.                                                              *)

To(c, where) == worker' = [worker EXCEPT ![c] = where]
two_way_unmoved == <<appvars, callback, netvars, misused, op_misused>>

\* two_way_send returns r.
Answer(c, r) ==
    /\ To(c, "returned")
    /\ response' = [response EXCEPT ![c] = r]

\* Mutant: the status the sender left is kept.
StatusOnFailure_Kept(left) == left

\* The status in the environment when engine_send failed: set to FAILURE if
\* the sender did not.
StatusOnFailure(left) == "FAILURE"

\* axis2_engine_send, which leaves any status in the environment; the response
\* to a request over HTTP is there when it returns.  An out-only message has no
\* response; the status of engine_receive is not looked at here.
TwoWaySend(c) ==
    /\ worker[c] = "send"
    /\ \E left \in {"SUCCESS", "FAILURE"} :
          \/ /\ send_failed' = send_failed \cup {c}
             /\ err' = [err EXCEPT ![c] = StatusOnFailure(left)]
             /\ Answer(c, "NULL")
             /\ UNCHANGED <<arrived, index>>
          \/ /\ err' = [err EXCEPT ![c] = left]
             /\ UNCHANGED send_failed
             /\ \/ /\ kind[c] = "robust"
                   /\ Answer(c, "NULL")
                   /\ UNCHANGED <<arrived, index>>
                \/ /\ kind[c] # "robust"
                   /\ arrived' = [arrived EXCEPT ![c] = TRUE]
                   /\ Answer(c, "answer")
                   /\ UNCHANGED index
                \/ /\ To(c, "wait")
                   /\ index' = [index EXCEPT ![c] =
                                   IF Timeout = -1 THEN 1 ELSE Timeout]
                   /\ UNCHANGED <<arrived, response>>
    /\ UNCHANGED two_way_unmoved

\* engine_send reads the headers for ever (see DualSpins).
TwoWaySpins(c) ==
    /\ worker[c] = "send"
    /\ To(c, "spinning")
    /\ UNCHANGED <<two_way_unmoved, arrived, response, err, send_failed, index>>

\* A module that got the response elsewhere puts it into the request context.
EnvelopeArrives(c) ==
    /\ worker[c] = "wait" /\ ~arrived[c]
    /\ arrived' = [arrived EXCEPT ![c] = TRUE]
    /\ UNCHANGED <<two_way_unmoved, worker, response, err, send_failed, index>>

\* One pass of the loop: sleep, count down, look again.  A response found here
\* goes through engine_receive, whose failure is one of the call; it and the
\* HTTP status decide what is left in the environment.
TwoWayWait(c) ==
    /\ worker[c] = "wait" /\ index[c] > 0
    /\ index' = [index EXCEPT ![c] = IF Timeout = -1 THEN @ ELSE Decrement(@)]
    /\ \/ /\ arrived[c]
          /\ \/ Answer(c, "NULL")
             \/ kind[c] # "robust" /\ Answer(c, "answer")
          /\ \E s \in {"SUCCESS", "FAILURE"} : err' = [err EXCEPT ![c] = s]
       \/ /\ ~arrived[c]
          /\ UNCHANGED <<worker, response, err>>
    /\ UNCHANGED <<two_way_unmoved, arrived, send_failed>>

\* The time is over: NULL if the environment is in error, else a response
\* context without envelope; a robust call always gets NULL, and FAILURE if
\* the HTTP status says so.
TwoWayTimeout(c) ==
    /\ worker[c] = "wait" /\ index[c] <= 0
    /\ \/ err[c] = "FAILURE" /\ Answer(c, "NULL") /\ UNCHANGED err
       \/ /\ err[c] = "SUCCESS" /\ kind[c] # "robust"
          /\ Answer(c, "empty") /\ UNCHANGED err
       \/ /\ err[c] = "SUCCESS" /\ kind[c] = "robust"
          /\ Answer(c, "NULL")
          /\ \E s \in {"SUCCESS", "FAILURE"} : err' = [err EXCEPT ![c] = s]
    /\ UNCHANGED <<two_way_unmoved, arrived, send_failed, index>>
-----------------------------------------------------------------------------
(* axis2_op_client_worker_func.                                             *)

worker_unmoved == <<appvars, arrived, response, err, send_failed, index,
                    netvars>>

\* The worker's own operation context; without one it gives up silently.
WorkerOpCtx(c) ==
    /\ worker[c] = "op_ctx"
    /\ To(c, "send") \/ To(c, "done")
    /\ UseOpClient(c)
    /\ UNCHANGED <<worker_unmoved, callback, misused>>

\* The response, NULL or not, becomes the async result of the operation client.
WorkerResult(c) ==
    /\ worker[c] = "returned" /\ kind[c] = "non_blocking"
    /\ To(c, "set_envelope")
    /\ UseOpClient(c)
    /\ UNCHANGED <<worker_unmoved, callback, misused>>

\* The three accesses to a callback at b that complete it with envelope e.
SetEnvelope(b, e) ==
    /\ envelope' = [envelope EXCEPT ![b] = e]
    /\ UNCHANGED <<complete, on_complete>>
OnComplete(b) ==
    /\ on_complete' = [on_complete EXCEPT ![b] = @ + 1]
    /\ UNCHANGED <<complete, envelope>>
SetComplete(b) ==
    /\ complete' = [complete EXCEPT ![b] = TRUE]
    /\ UNCHANGED <<envelope, on_complete>>

\* Mutants: the callback is marked complete before on_complete, or never.
After_CompleteFirst(stage) == CASE stage = "set_envelope" -> "set_complete"
                                [] stage = "set_complete" -> "on_complete"
                                [] OTHER -> "finished"
After_NoSetComplete(stage) ==
    IF stage = "set_envelope" THEN "on_complete" ELSE "finished"

\* The order of the accesses: axis2_callback_invoke_on_complete does the first
\* two, axis2_callback_set_complete the last.
After(stage) == CASE stage = "set_envelope" -> "on_complete"
                  [] stage = "on_complete" -> "set_complete"
                  [] OTHER -> "finished"

\* The thread that answers call c does one of them.
CompleteStep(c, b, stage, e) ==
    /\ \/ stage = "set_envelope" /\ SetEnvelope(b, e)
       \/ stage = "on_complete" /\ OnComplete(b)
       \/ stage = "set_complete" /\ SetComplete(b)
    /\ UseCallback(c)
    /\ UNCHANGED block

\* The envelope of the result that the worker of a call created.
Returned(c) == IF response[c] = "answer" THEN c ELSE NULL

\* What the worker reads as op_client->async_result: its own result, unless
\* the operation client was freed, or a worker wrote through a freed one that
\* was at the same place; then it may be that of any other worker.
AsyncResult(c) ==
    IF c \in freed \/ \E d \in op_misused : d < c
    THEN {Returned(d) : d \in {e \in 1..n : kind[e] = "non_blocking"}}
    ELSE {Returned(c)}

WorkerComplete(c) ==
    /\ \E e \in AsyncResult(c) : CompleteStep(c, block[c], worker[c], e)
    /\ To(c, After(worker[c]))
    /\ \/ worker[c] = "set_envelope" /\ UseOpClient(c)
       \/ worker[c] # "set_envelope" /\ UNCHANGED op_misused
    /\ UNCHANGED worker_unmoved

\* The async result is freed through the operation client; the thread ends.
WorkerCleanup(c) ==
    /\ worker[c] = "finished"
    /\ To(c, "done")
    /\ UseOpClient(c)
    /\ UNCHANGED <<worker_unmoved, callback, misused>>
-----------------------------------------------------------------------------
(* The transport receiver's threads and axis2_callback_recv_receive.        *)

listener_unmoved == <<appvars, sendvars, index, op_misused, callback_map, sent>>

\* A response to call c comes in, late or not, perhaps not the first copy; a
\* robust send has none.
ResponseArrives(t, c) ==
    /\ listener[t] = Idle
    /\ c \in sent /\ kind[c] # "dual_robust" /\ copies[c] < MaxCopies
    /\ copies' = [copies EXCEPT ![c] = @ + 1]
    /\ listener' = [listener EXCEPT ![t] = Thread("lookup", c, NULL)]
    /\ UNCHANGED <<listener_unmoved, callback, unmatched, misused>>

\* Mutant: a response goes to the callback of the last call.
CallbackOf_Latest(c) == block[op_client]

\* The callback a response is for: the entry of the message id it relates to.
CallbackOf(c) == callback_map[c]

\* The callback is looked up and stays in the map.
CallbackLookup(t) ==
    /\ listener[t].pc = "lookup"
    /\ LET c == listener[t].call
       IN  IF CallbackOf(c) = NULL
           THEN /\ listener' = [listener EXCEPT ![t] = Idle]
                /\ unmatched' = unmatched \cup {c}
           ELSE /\ listener' = [listener EXCEPT ![t] =
                                   Thread("set_envelope", c, CallbackOf(c))]
                /\ UNCHANGED unmatched
    /\ misused' = IF app = "freed" THEN misused \cup {listener[t].call}
                                   ELSE misused
    /\ UNCHANGED <<listener_unmoved, callback, copies>>

\* The thread after a stage of completing the callback.
ThreadAfter(th) ==
    IF After(th.pc) = "finished"
    THEN Idle ELSE Thread(After(th.pc), th.call, th.callback)

CallbackReceive(t) ==
    /\ CompleteStep(listener[t].call, listener[t].callback, listener[t].pc,
                    listener[t].call)
    /\ listener' = [listener EXCEPT ![t] = ThreadAfter(listener[t])]
    /\ UNCHANGED <<listener_unmoved, copies, unmatched>>
-----------------------------------------------------------------------------
AppStep ==
    \/ Execute \/ ExecuteFails \/ Spawn \/ DualEnter \/ AddCallback \/ DualSend
    \/ DualSpins \/ DualWait \/ TwoWayReturn
CallStep(c) ==
    \/ TwoWaySend(c) \/ TwoWaySpins(c) \/ TwoWayWait(c) \/ TwoWayTimeout(c)
    \/ WorkerOpCtx(c) \/ WorkerResult(c) \/ WorkerComplete(c)
    \/ WorkerCleanup(c)
ListenerStep(t) == CallbackLookup(t) \/ CallbackReceive(t)

Next ==
    \/ \E k \in KindNames : SendRobust(k) \/ SendReceive(k) \/ SendReceiveNonBlocking(k)
    \/ AppStep \/ Poll \/ SvcClientFree
    \/ \E c \in Calls : CallStep(c) \/ EnvelopeArrives(c)
    \/ \E t \in Threads : ListenerStep(t)
    \/ \E t \in Threads, c \in Calls : ResponseArrives(t, c)

\* Threads keep running and callbacks return.  engine_send returns or spins
\* (DualSpins, TwoWaySpins): nothing is assumed of the network, of the
\* application between two calls, or of a response.
Fairness ==
    /\ WF_vars(AppStep)
    /\ \A c \in Calls : WF_vars(CallStep(c))
    /\ \A t \in Threads : WF_vars(ListenerStep(t))

Spec == Init /\ [][Next]_vars /\ Fairness
-----------------------------------------------------------------------------
ThreadType ==
    [pc : {"idle", "lookup", "set_envelope", "on_complete", "set_complete"},
     call : Calls \cup {NULL}, callback : Calls \cup {NULL}]

\* The variables have their types.
TypeOK ==
    /\ n \in 0..MaxCalls
    /\ kind \in [Calls -> KindNames \cup {"none"}]
    /\ app \in {"idle", "execute", "two_way", "spawn", "enter", "add_callback",
                "send", "spinning", "wait", "freed"}
    /\ result \in [Calls -> Int]
    /\ err \in [Calls -> {"SUCCESS", "FAILURE"}]
    /\ index \in [Calls -> Int]
    /\ op_client \in Calls \cup {NULL}
    /\ worker \in [Calls -> {"off", "op_ctx", "send", "spinning", "wait",
                             "returned", "set_envelope", "on_complete", "set_complete",
                             "finished", "done"}]
    /\ arrived \in [Calls -> BOOLEAN]
    /\ response \in [Calls -> {"none", "NULL", "empty", "answer"}]
    /\ block \in [Calls -> Calls \cup {NULL}]
    /\ complete \in [Calls -> BOOLEAN]
    /\ envelope \in [Calls -> Calls \cup {NULL}]
    /\ on_complete \in [Calls -> Nat]
    /\ callback_map \in [Calls -> Calls \cup {NULL}]
    /\ copies \in [Calls -> 0..MaxCopies]
    /\ listener \in [Threads -> ThreadType]
    /\ freed \subseteq Calls /\ sent \subseteq Calls /\ seen \subseteq Calls
    /\ send_failed \subseteq Calls /\ unmatched \subseteq Calls
    /\ misused \subseteq Calls /\ op_misused \subseteq Calls

\* Something of call c may not be its own: a callback was used after it was
\* freed that was in the same memory before, or, for a worker, the operation
\* client of an earlier call was.
Shared(c) ==
    \/ \E d \in misused : d < c /\ block[d] = block[c]
    \/ kind[c] = "non_blocking" /\ \E d \in op_misused : d < c

\* Call c has a callback that was not freed.
HasCallback(c) == block[c] # NULL /\ c \notin freed

\* Responses that come late, twice or in another order never answer another
\* call, as long as they do not go through memory that was freed and given to
\* that call: what a call returns, and what its callback holds, is its own answer.
AnswerBelongsToCall ==
    \A c \in Calls : ~Shared(c) =>
        /\ result[c] \in {Unset, NULL, c}
        /\ HasCallback(c) => envelope[block[c]] \in {NULL, c}

\* A thread that polls a callback may use it as soon as it is complete: the
\* envelope is in place and on_complete has returned.
CompleteIsFinal ==
    \A c \in Calls : HasCallback(c) /\ ~Shared(c) /\ complete[block[c]] =>
        /\ on_complete[block[c]] > 0
        /\ c \in sent \/ response[c] = "answer" => envelope[block[c]] = c

\* A response never comes before its callback is registered, however fast the
\* server answers.
ResponseFindsCallback == unmatched = {}

\* A callback is used after it was freed only if the application gave up
\* waiting for it or the response was delivered twice (or an earlier use of
\* that kind completed it).
CallbackOutlivesUse ==
    \A c \in misused : c \notin seen \/ copies[c] > 1 \/ Shared(c)

\* A robust send over one channel whose engine_send failed does not return
\* SUCCESS.
SendFailureReported ==
    \A c \in send_failed : kind[c] = "robust" => result[c] \in {Unset, NULL}

\* engine_send of the call that the application makes never returns.
Spinning == app = "spinning" \/ (app = "two_way" /\ worker[n] = "spinning")

\* Every blocking call returns, answered or not, unless it was told to wait
\* forever or engine_send does not return.
BlockingCallReturns ==
    (app \notin {"idle", "freed"}) ~> (app = "idle" \/ Spinning)

\* A response that reached the client completes the callback of its call.
DeliveredResponseCompletes ==
    \A c \in Calls :
        copies[c] > 0 ~> (HasCallback(c) => complete[block[c]])

\* A worker that started sending completes its callback, whatever status
\* engine_send returns (if it returns), while the callback exists.
WorkerCompletes ==
    \A c \in Calls : (worker[c] = "send" /\ kind[c] = "non_blocking") ~>
        (worker[c] = "spinning" \/ (HasCallback(c) => complete[block[c]]))
-----------------------------------------------------------------------------
(* What the headers and a sample say, which the code does not keep.         *)

\* axis2_callback_recv.h: a callback deals with the message it was added for
\* (and belongs to the receiver): no call returns the answer to another.
AnswersNeverCross == \A c \in Calls : result[c] \in {Unset, NULL, c}

\* echo_non_blocking.c: once the callback is complete the service client may be
\* freed; no thread uses the operation client after that.
OpClientOutlivesWorker == \A c \in op_misused : c \notin seen
=============================================================================
