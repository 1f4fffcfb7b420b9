------------------------------ MODULE Listener ------------------------------
(***************************************************************************)
(* The listening side of a process: the listener manager of a client       *)
(* (clientapi/listener_manager.c), the HTTP transport receiver             *)
(* (transport/http/receiver/http_receiver.c) and its server thread         *)
(* (http_svr_thread.c) with the worker threads it starts.                  *)
(*                                                                         *)
(* The application thread starts the listener for each dual-channel call,  *)
(* stops it when no call waits any more, and frees the receiver with the   *)
(* configuration.  Every start runs axis2_http_server_start in a detached  *)
(* thread of its own, numbered by Gen; the server thread structure that it *)
(* creates has the same number.  Nothing is locked: server_impl, svr_thread*)
(* and the worker are shared by pointers, so each read of one of them that *)
(* another thread may change is a step of its own.                         *)
(*                                                                         *)
(* A behaviour ends when a thread follows a null pointer, which kills the  *)
(* process, or a pointer to freed memory, after which anything may happen. *)
(***************************************************************************)
EXTENDS Integers, FiniteSets

CONSTANTS
    NumConns,     \* bound: connections that peers open
    MaxCalls,     \* bound: dual-channel calls made
    MaxGen,       \* bound: listener threads started
    MaxFaults     \* bound: failures of an allocation, a thread or a socket call

ASSUME ListenerAssumption ==
    /\ MaxCalls \in Nat
    /\ MaxGen \in Nat
    /\ MaxFaults \in Nat
    /\ NumConns \in Nat

Gen == 1..MaxGen
Conns == 1..NumConns
NULL == 0
NoConn == [st |-> "none", at |-> NULL]

VARIABLES
    manager,      \* listener_map[http]: whether it is set, and waiting_calls
    app,          \* where the application thread is
    target,       \* the server its call of svr_thread_destroy is about
    calls,        \* dual-channel calls made
    finished,     \* how many of them were finalized
    spawned,      \* listener threads started
    receiver,     \* server_impl: its memory and its svr_thread pointer
    svr,          \* the svr_thread structures
    workers,      \* memory of the http_worker each listener thread created
    pc,           \* where each listener thread is
    loop,         \* the svr_thread each listener thread runs
    socket,       \* what accept last returned to each listener thread
    conn,         \* the connections: their state and the listening socket
    serving,      \* the http_worker that the thread of each connection has
    bad,          \* a worker thread was started with the socket -1
    faults,       \* failures so far
    process       \* up, or the kind of pointer that ended it

appvars == <<manager, app, target, calls, finished>>
loopvars == <<spawned, pc, loop, socket>>
connvars == <<conn, serving, bad>>
vars == <<appvars, loopvars, connvars, receiver, svr, workers, faults, process>>
-----------------------------------------------------------------------------
NoServer == [mem |-> "none", stopped |-> FALSE, listen |-> FALSE, worker |-> NULL]

\* axis2_http_svr_thread_create, once the server socket is bound.
NewServer == [mem |-> "live", stopped |-> FALSE, listen |-> TRUE, worker |-> NULL]

\* The kernel keeps a listening socket that was closed while a thread is
\* blocked in accept on it.
Accepting(s) == \E g \in Gen : pc[g] = "accepting" /\ loop[g] = s
Held(s) == svr[s].listen \/ Accepting(s)

\* bind fails while any socket listens on the port (SO_REUSEADDR does not
\* let two sockets listen).
PortFree == \A s \in Gen : ~Held(s)

\* A failure of malloc, pthread_create, socket or accept.
Fault == faults < MaxFaults /\ faults' = faults + 1

Freed(s) == svr[s].mem = "freed"
FollowNull == process' = "null"
FollowFreed == process' = "freed"
-----------------------------------------------------------------------------
(* The application thread.                                                 *)

\* axis2_listener_manager_make_sure_started.  Without arguments for the thread
\* it gives up; a thread that could not be created is only logged; a listener
\* state that could not be allocated leaves a thread that nobody will stop.
Start ==
    /\ app = "run"
    /\ calls < MaxCalls
    /\ calls' = calls + 1
    /\ app' = "send"
    /\ \/ /\ manager.set
          /\ manager' = [manager EXCEPT !.waiting = @ + 1]
          /\ UNCHANGED <<spawned, pc, faults>>
       \/ /\ ~manager.set
          /\ spawned < MaxGen
          /\ \/ /\ spawned' = spawned + 1
                /\ pc' = [pc EXCEPT ![spawned + 1] = "create"]
                /\ \/ manager' = [set |-> TRUE, waiting |-> 1] /\ UNCHANGED faults
                   \/ Fault /\ UNCHANGED manager
             \/ /\ Fault
                /\ manager' \in {manager, [set |-> TRUE, waiting |-> 1]}
                /\ UNCHANGED <<spawned, pc>>
    /\ UNCHANGED <<loop, socket, connvars, receiver, svr, workers, target, finished, process>>

\* axis2_svc_client_send_receive_non_blocking: after a sleep of one
\* microsecond the request leaves, whatever make_sure_started returned.
Send ==
    /\ app = "send"
    /\ app' = "run"
    /\ UNCHANGED <<manager, target, calls, finished, loopvars, connvars, receiver, svr, workers,
                   faults, process>>

\* Mutant: the structure is freed as well.
Stopped_Freed(s) == [svr EXCEPT ![s].stopped = TRUE, ![s].mem = "freed"]

\* What a stop leaves of the server thread.
Stopped(s) == [svr EXCEPT ![s].stopped = TRUE]

\* axis2_http_svr_thread_destroy up to the close of the listening socket; then
\* is where the application thread goes on.
Destroy(s, then) ==
    \/ /\ Freed(s)
       /\ FollowFreed
       /\ UNCHANGED <<app, svr, target>>
    \/ /\ ~Freed(s)
       /\ svr[s].stopped
       /\ app' = then
       /\ UNCHANGED <<svr, target, process>>
    \/ /\ ~Freed(s)
       /\ ~svr[s].stopped
       /\ svr' = Stopped(s)
       /\ target' = s
       /\ app' = IF then = "run" THEN "close" ELSE "close_free"
       /\ UNCHANGED process

\* axis2_http_server_stop.
StopServer ==
    \/ /\ receiver.svr_thread = NULL
       /\ UNCHANGED <<app, svr, target, process>>
    \/ /\ receiver.svr_thread # NULL
       /\ Destroy(receiver.svr_thread, "run")

\* Mutant: the first call that is finished stops the listener.
LastCall_Any == manager.waiting >= 1

\* The last waiting call stops the listener.
LastCall == manager.waiting = 1

\* waiting_calls once a call is finalized.
OneLess == manager.waiting - 1

\* axis2_svc_client_finalize_invoke and axis2_listener_manager_stop.
FinalizeInvoke ==
    /\ app = "run"
    /\ finished < calls
    /\ finished' = finished + 1
    /\ \/ /\ ~manager.set
          /\ UNCHANGED <<manager, app, svr, target, process>>
       \/ /\ manager.set
          /\ LastCall
          /\ manager' = [set |-> FALSE, waiting |-> 0]
          /\ StopServer
       \/ /\ manager.set
          /\ ~LastCall
          /\ manager' = [manager EXCEPT !.waiting = OneLess]
          /\ UNCHANGED <<app, svr, target, process>>
    /\ UNCHANGED <<calls, loopvars, connvars, receiver, workers, faults>>

\* The close of the listening socket in axis2_http_svr_thread_destroy, which
\* has its own copy of the pointer.
CloseListenSocket ==
    /\ app \in {"close", "close_free"}
    /\ app' = IF app = "close" THEN "run" ELSE "free"
    /\ target' = NULL
    /\ \/ /\ Freed(target)
          /\ FollowFreed
          /\ UNCHANGED svr
       \/ /\ ~Freed(target)
          /\ svr' = [svr EXCEPT ![target].listen = FALSE]
          /\ UNCHANGED process
    /\ UNCHANGED <<manager, calls, finished, loopvars, connvars, receiver, workers, faults>>

FreedReceiver == [mem |-> "freed", svr_thread |-> NULL]

\* axis2_http_server_free, called when the configuration is freed: it stops
\* the server first, if it has one.
FreeReceiver ==
    /\ app = "run"
    /\ \/ /\ receiver.svr_thread = NULL
          /\ receiver' = FreedReceiver
          /\ app' = "gone"
          /\ UNCHANGED <<svr, target, process>>
       \/ /\ receiver.svr_thread # NULL
          /\ Destroy(receiver.svr_thread, "free")
          /\ UNCHANGED receiver
    /\ UNCHANGED <<manager, calls, finished, loopvars, connvars, workers, faults>>

\* axis2_http_svr_thread_free of server s: the worker, the socket, the
\* structure.  A null pointer is ignored.
SvrThreadFree(s) ==
    \/ /\ s = NULL
       /\ UNCHANGED <<svr, workers, process>>
    \/ /\ s # NULL
       /\ Freed(s)
       /\ FollowFreed
       /\ UNCHANGED <<svr, workers>>
    \/ /\ s # NULL
       /\ ~Freed(s)
       /\ workers' = [g \in Gen |-> IF g = svr[s].worker THEN "freed" ELSE workers[g]]
       /\ svr' = [svr EXCEPT ![s] = [mem |-> "freed", stopped |-> TRUE,
                                     listen |-> FALSE, worker |-> NULL]]
       /\ UNCHANGED process

\* The rest of axis2_http_server_free.
FreeServer ==
    /\ app = "free"
    /\ app' = "gone"
    /\ SvrThreadFree(receiver.svr_thread)
    /\ receiver' = FreedReceiver
    /\ UNCHANGED <<manager, calls, finished, target, loopvars, connvars, faults>>
-----------------------------------------------------------------------------
(* The listener threads: axis2_http_server_start.                          *)

Goto(g, p) == pc' = [pc EXCEPT ![g] = p]

\* Mutant: the new server is kept in a local variable.
Keeping_Local(s) == receiver

\* The receiver points to its new server.
Keeping(s) == [receiver EXCEPT !.svr_thread = s]

\* axis2_http_svr_thread_create; its result, a null pointer too, is stored in
\* the receiver.
CreateServer(g) ==
    /\ pc[g] = "create"
    /\ \/ /\ receiver.mem = "freed"
          /\ FollowFreed
          /\ UNCHANGED <<pc, receiver, svr, faults>>
       \/ /\ receiver.mem = "live"
          /\ PortFree
          /\ svr' = [svr EXCEPT ![g] = NewServer]
          /\ receiver' = Keeping(g)
          /\ Goto(g, "set_worker")
          /\ UNCHANGED <<faults, process>>
       \/ /\ receiver.mem = "live"
          /\ \/ ~PortFree /\ UNCHANGED faults
             \/ PortFree /\ Fault
          /\ receiver' = Keeping(NULL)
          /\ Goto(g, "done")
          /\ UNCHANGED <<svr, process>>
    /\ UNCHANGED <<appvars, spawned, loop, socket, connvars, workers>>

\* axis2_http_worker_create and axis2_http_svr_thread_set_worker, on whatever
\* server the receiver points to by now.
SetWorker(g) ==
    /\ pc[g] = "set_worker"
    /\ LET s == receiver.svr_thread
       IN \/ /\ receiver.mem = "freed"
             /\ FollowFreed
             /\ UNCHANGED <<pc, svr, workers, faults>>
          \/ /\ receiver.mem = "live"
             /\ Fault
             /\ SvrThreadFree(s)
             /\ Goto(g, "done")
          \/ /\ receiver.mem = "live"
             /\ s = NULL
             /\ FollowNull
             /\ UNCHANGED <<pc, svr, workers, faults>>
          \/ /\ receiver.mem = "live"
             /\ s # NULL
             /\ Freed(s)
             /\ FollowFreed
             /\ UNCHANGED <<pc, svr, workers, faults>>
          \/ /\ receiver.mem = "live"
             /\ s # NULL
             /\ ~Freed(s)
             /\ workers' = [workers EXCEPT ![g] = "live"]
             /\ svr' = [svr EXCEPT ![s].worker = g]
             /\ Goto(g, "run")
             /\ UNCHANGED <<faults, process>>
    /\ UNCHANGED <<appvars, spawned, loop, socket, connvars, receiver>>

\* The call of axis2_http_svr_thread_run, which reads the pointer again.
Run(g) ==
    /\ pc[g] = "run"
    /\ \/ /\ receiver.mem = "freed"
          /\ FollowFreed
          /\ UNCHANGED <<loop, pc>>
       \/ /\ receiver.mem = "live"
          /\ receiver.svr_thread = NULL
          /\ FollowNull
          /\ UNCHANGED <<loop, pc>>
       \/ /\ receiver.mem = "live"
          /\ receiver.svr_thread # NULL
          /\ loop' = [loop EXCEPT ![g] = receiver.svr_thread]
          /\ Goto(g, "test")
          /\ UNCHANGED process
    /\ UNCHANGED <<appvars, spawned, socket, connvars, receiver, svr, workers, faults>>
-----------------------------------------------------------------------------
(* The accept loop: axis2_http_svr_thread_run.                             *)

\* The test of stopped.
TestStopped(g) ==
    /\ pc[g] = "test"
    /\ \/ /\ Freed(loop[g])
          /\ FollowFreed
          /\ UNCHANGED <<pc, loop>>
       \/ /\ ~Freed(loop[g])
          /\ svr[loop[g]].stopped
          /\ Goto(g, "done")
          /\ loop' = [loop EXCEPT ![g] = NULL]
          /\ UNCHANGED process
       \/ /\ ~Freed(loop[g])
          /\ ~svr[loop[g]].stopped
          /\ Goto(g, "accept")
          /\ UNCHANGED <<loop, process>>
    /\ UNCHANGED <<appvars, spawned, socket, connvars, receiver, svr, workers, faults>>

\* The read of listen_socket: accept on -1 fails at once.
CallAccept(g) ==
    /\ pc[g] = "accept"
    /\ \/ /\ Freed(loop[g])
          /\ FollowFreed
          /\ UNCHANGED pc
       \/ /\ ~Freed(loop[g])
          /\ Goto(g, IF svr[loop[g]].listen THEN "accepting" ELSE "dispatch")
          /\ UNCHANGED process
    /\ UNCHANGED <<appvars, spawned, loop, socket, connvars, receiver, svr, workers, faults>>

\* accept returns a connection, also on a socket closed since it was called.
AcceptConn(g, c) ==
    /\ pc[g] = "accepting"
    /\ conn[c] = [st |-> "queued", at |-> loop[g]]
    /\ conn' = [conn EXCEPT ![c] = [st |-> "accepted", at |-> NULL]]
    /\ socket' = [socket EXCEPT ![g] = c]
    /\ Goto(g, "dispatch")
    /\ UNCHANGED <<appvars, spawned, loop, serving, bad, receiver, svr, workers, faults,
                   process>>

\* accept returns -1: an error, or the socket was closed meanwhile.
AcceptFails(g) ==
    /\ pc[g] = "accepting"
    /\ \/ svr[loop[g]].listen /\ Fault
       \/ ~svr[loop[g]].listen /\ UNCHANGED faults
    /\ Goto(g, "dispatch")
    /\ UNCHANGED <<appvars, spawned, loop, socket, connvars, receiver, svr, workers, process>>

Ended(c, how) == IF c = NULL THEN conn ELSE [conn EXCEPT ![c].st = how]

\* Mutant: the loop goes on without closing it.
Refuse_NoClose(c) == Ended(c, "leaked")

\* A connection that comes before the worker is set is closed.
Refuse(c) == Ended(c, "closed")

\* The rest of the loop body.  The socket is not looked at: with a worker set
\* a thread is started for -1 as well.  Without arguments or a thread the
\* socket is forgotten.
Dispatch(g) ==
    /\ pc[g] = "dispatch"
    /\ LET s == loop[g] c == socket[g]
       IN \/ /\ Freed(s)
             /\ FollowFreed
             /\ UNCHANGED <<pc, conn, serving, bad, faults>>
          \/ /\ ~Freed(s)
             /\ svr[s].worker = NULL
             /\ conn' = Refuse(c)
             /\ Goto(g, "test")
             /\ UNCHANGED <<serving, bad, faults, process>>
          \/ /\ ~Freed(s)
             /\ svr[s].worker # NULL
             /\ Fault
             /\ conn' = Ended(c, "leaked")
             /\ Goto(g, "test")
             /\ UNCHANGED <<serving, bad, process>>
          \/ /\ ~Freed(s)
             /\ svr[s].worker # NULL
             /\ IF c = NULL
                THEN bad' = TRUE /\ UNCHANGED serving
                ELSE serving' = [serving EXCEPT ![c] = svr[s].worker] /\ UNCHANGED bad
             /\ Goto(g, "test")
             /\ UNCHANGED <<conn, faults, process>>
    /\ socket' = [socket EXCEPT ![g] = NULL]
    /\ UNCHANGED <<appvars, spawned, loop, receiver, svr, workers>>
-----------------------------------------------------------------------------
(* The worker threads: axis2_svr_thread_worker_func.                       *)

\* Mutant: the connection is not freed.
ConnFree_Never(c) == conn

\* axis2_simple_http_svr_conn_free closes the socket.
ConnFree(c) == Ended(c, "closed")

\* A worker thread reads a request, or none by the end of the stream or the
\* read timeout; with one, process_request follows its http_worker.  Then the
\* connection is freed, which closes the socket.
ServeConn(c) ==
    /\ serving[c] # NULL
    /\ \/ /\ workers[serving[c]] = "freed"
          /\ FollowFreed
          /\ UNCHANGED <<conn, serving>>
       \/ /\ conn' = ConnFree(c)
          /\ serving' = [serving EXCEPT ![c] = NULL]
          /\ UNCHANGED process
    /\ UNCHANGED <<appvars, loopvars, bad, receiver, svr, workers, faults>>

\* The worker thread of the socket -1: its connection has no stream, which
\* axutil_stream_free dereferences.
FreeNoStream ==
    /\ bad
    /\ FollowNull
    /\ UNCHANGED <<appvars, loopvars, connvars, receiver, svr, workers, faults>>
-----------------------------------------------------------------------------
(* The peers and the kernel.                                               *)

\* Connections are numbered in the order in which they are made.
Connect(c) ==
    /\ conn[c] = NoConn
    /\ \A d \in Conns : d < c => conn[d] # NoConn
    /\ \E s \in Gen : /\ Held(s)
                      /\ conn' = [conn EXCEPT ![c] = [st |-> "queued", at |-> s]]
    /\ UNCHANGED <<appvars, loopvars, serving, bad, receiver, svr, workers, faults,
                   process>>

\* Connections left in the queue of a closed socket are reset.
Reset(c) ==
    /\ conn[c].st = "queued"
    /\ ~Held(conn[c].at)
    /\ conn' = [conn EXCEPT ![c] = [st |-> "closed", at |-> NULL]]
    /\ UNCHANGED <<appvars, loopvars, serving, bad, receiver, svr, workers, faults,
                   process>>
-----------------------------------------------------------------------------
Init ==
    /\ manager = [set |-> FALSE, waiting |-> 0]
    /\ app = "run"
    /\ target = NULL
    /\ calls = 0
    /\ finished = 0
    /\ spawned = 0
    /\ receiver = [mem |-> "live", svr_thread |-> NULL]
    /\ svr = [s \in Gen |-> NoServer]
    /\ workers = [g \in Gen |-> "none"]
    /\ pc = [g \in Gen |-> "none"]
    /\ loop = [g \in Gen |-> NULL]
    /\ socket = [g \in Gen |-> NULL]
    /\ conn = [c \in Conns |-> NoConn]
    /\ serving = [c \in Conns |-> NULL]
    /\ bad = FALSE
    /\ faults = 0
    /\ process = "up"

AppStep == Start \/ Send \/ FinalizeInvoke \/ CloseListenSocket \/ FreeReceiver \/ FreeServer

ListenerStep(g) ==
    \/ CreateServer(g) \/ SetWorker(g) \/ Run(g)
    \/ TestStopped(g) \/ CallAccept(g) \/ Dispatch(g)
    \/ \E c \in Conns : AcceptConn(g, c)

NetworkStep == \E c \in Conns : Connect(c) \/ Reset(c)

Next ==
    /\ process = "up"
    /\ \/ AppStep
       \/ \E g \in Gen : ListenerStep(g) \/ AcceptFails(g)
       \/ \E c \in Conns : ServeConn(c)
       \/ FreeNoStream
       \/ NetworkStep

\* Threads are scheduled; a blocked accept returns when a connection waits; a
\* read ends by the receive timeout.  The application may stop calling, peers
\* may stay away and accept need not fail.
Fairness ==
    /\ \A g \in Gen : WF_vars(process = "up" /\ ListenerStep(g))
    /\ \A c \in Conns : WF_vars(process = "up" /\ ServeConn(c))
    /\ WF_vars(process = "up" /\ FreeNoStream)
    /\ WF_vars(process = "up" /\ (CloseListenSocket \/ FreeServer))

Spec == Init /\ [][Next]_vars /\ Fairness
-----------------------------------------------------------------------------
Pcs == {"none", "create", "set_worker", "run", "test", "accept", "accepting", "dispatch",
        "done"}

ServerState ==
    [mem : {"none", "live", "freed"}, stopped : BOOLEAN, listen : BOOLEAN,
     worker : Gen \cup {NULL}]

ConnState ==
    [st : {"none", "queued", "accepted", "closed", "leaked"}, at : Gen \cup {NULL}]

\* The variables have their types.
TypeOK ==
    /\ manager \in [set : BOOLEAN, waiting : 0..MaxCalls]
    /\ app \in {"run", "send", "close", "close_free", "free", "gone"}
    /\ target \in Gen \cup {NULL}
    /\ calls \in 0..MaxCalls
    /\ finished \in 0..MaxCalls
    /\ spawned \in 0..MaxGen
    /\ receiver \in [mem : {"live", "freed"}, svr_thread : Gen \cup {NULL}]
    /\ svr \in [Gen -> ServerState]
    /\ workers \in [Gen -> {"none", "live", "freed"}]
    /\ pc \in [Gen -> Pcs]
    /\ loop \in [Gen -> Gen \cup {NULL}]
    /\ socket \in [Gen -> Conns \cup {NULL}]
    /\ conn \in [Conns -> ConnState]
    /\ serving \in [Conns -> Gen \cup {NULL}]
    /\ bad \in BOOLEAN
    /\ faults \in 0..MaxFaults
    /\ process \in {"up", "null", "freed"}

\* Stopping is safe: freed memory is used only after the receiver was freed
\* while its threads were running, or after a start freed the server thread
\* because it could not create its worker (axis2_http_svr_thread_destroy sets
\* a flag, closes a socket and frees nothing).
StopFreesNothing ==
    process = "freed" => receiver.mem = "freed" \/ faults > 0

\* A listener that was started once and never stopped keeps the process up:
\* a null pointer is followed only after a failure, a stop that closed the
\* socket under the accept loop, or a stop that came before the listener was
\* created and let a second thread be started (axis2_http_server_start keeps
\* the null result of the second creation).
CrashNeedsStop ==
    process = "null" =>
        \/ faults > 0
        \/ spawned > 1
        \/ \E s \in Gen : svr[s].stopped

\* Every connection that was accepted and is gone was closed by its worker
\* thread or by the loop; one that is forgotten costs a failure of malloc or
\* of the thread pool each (the continue statements of the accept loop).
LeakNeedsFault ==
    Cardinality({c \in Conns : conn[c].st = "leaked"}) <= faults

\* The count of waiting calls protects them: while a call is not finalized
\* and the receiver is in use, the server that the receiver points to is not a
\* stopped one, unless the thread started last has yet to create its own
\* (listener_manager.c stops the receiver when the count is one).
WaitingCallsKeepListener ==
    (app \in {"run", "send"} /\ finished < calls /\ faults = 0 /\ receiver.svr_thread # NULL) =>
        \/ ~svr[receiver.svr_thread].stopped
        \/ pc[spawned] = "create"

\* An accepted connection is closed in the end, unless it is forgotten for
\* want of memory or threads or the process ends.
AcceptedIsClosed ==
    \A c \in Conns :
        conn[c].st = "accepted" ~> (conn[c].st \in {"closed", "leaked"} \/ process # "up")
=============================================================================
