# A TLA+ verification of Axis2/C

Axis2/C is a SOAP and REST engine in C.  A message is represented by a *message
context*; the *engine* walks it through *phases*, which are lists of *handlers*,
and hands it to a message receiver (incoming) or a transport sender (outgoing).
*Modules* extend the engine by having their handlers placed into phases.  A
*service client* sends messages and gets answers, blocking or through a
callback; a *listener* accepts what peers send.  This project models the parts of
that machinery whose correctness depends on sequences of calls or on
interleavings, checks them with TLC on small instances and proves with TLAPS,
for every instance, the safety properties that TLC checks.

Source paths below are relative to the repository (`src/core/...`);
`PROJECT.json` names for every definition the lines it stands for.

## 1. Inventory

| Component | State | Operations | Interaction | Hard part | What makes it correct |
|---|---|---|---|---|---|
| Engine (`engine/engine.c`, invocation half of `engine/phase.c`) | none of its own; `paused`, `paused_phase_name`, `current_handler_index`, `op_ctx` of the message context | receive, send, receive_fault, send_fault, resume_receive, resume_send | calls handlers; handlers pause the context and modules call the engine again | the pause/resume protocol; failures in the middle of a chain | no delivery with handlers missing, twice, or while paused; every call returns |
| Phase (building half of `engine/phase.c`, `phase_rule.c`) | handler list, first and last handler | add and remove a handler description | called by the phase holder | order rules kept without ever sorting | rules hold for every order of engaging and disengaging |
| Phase resolver (`phaseresolver/`, with `conf.c`, `svc.c`, `op.c`) | phases of the configuration and of each operation; three lists of engaged modules | engage globally / to a service / to an operation, disengage, deploy a service | shared system phases, shared module operations, hash-table order | three lists updated separately; failures half-way | what a list says is engaged is in the phases, and nothing else is disturbed |
| Client API (`clientapi/svc_client.c`, `op_client.c`, `callback.c`, `callback_recv.c`) | operation client, callback, map from message id to callback | six ways of calling; polling; free | worker threads, receiver threads, the application | unlocked sharing, lifetime, timeouts against late answers | an answer belongs to its call; completion is final; nothing is used after it is freed; calls return |
| Listener manager (`clientapi/listener_manager.c`) | listener per transport, count of waiting calls | make_sure_started, stop, free | starts receiver threads, stops them from the application thread | starting, stopping and freeing without a lock | a call that waits keeps its listener; stopping harms nobody |
| Contexts (`context/`) | registries of operation, service and service group contexts | register, find, free | shared by server threads under a mutex | the mutex is held by each call and not across find-then-register | a later request shares the context of an earlier one |
| Message receivers (`receivers/`) | service implementation object, library, mutex of the service | load the library, initialise, invoke, reply or fault | several server threads | double-checked locking; a load that fails half-way | the service is initialised once and never used before |
| Dispatchers (`engine/*_disp.c`) | none | find service and operation | handlers of the system phases | REST pattern matching | the most specific operation is found |
| Deployment (`deployment/`) | archive lists, configuration | read axis2.xml, modules, services | calls the resolver | order of deployment | - |
| HTTP transport (`transport/http/`) | server socket, stop flag, connections; response and authentication state of the client | accept loop, worker, sender | thread per request; peer that may answer, challenge, close or fall silent | stopping while accepting; retries with credentials; the path from a failure to the answer | every accepted request is closed and answered once; a message is not executed twice; what is reported is true |
| TCP, AMQP transports | as HTTP | | | the TCP server thread is a copy of the HTTP one | |
| Addressing, logging modules | none | handlers | | | |
| AXIOM, guththila, XPath, attachments, neethi | trees and buffers | builders, parsers | deferred building pulls the parser | | sequential libraries |
| Utilities (`util/`) | containers, thread pool, log, uuid | | | boundary cases | agree with reference definitions |

The hazards of this code, each at its line and with the properties aimed at it,
are listed in `PROJECT.json`.

## 2. Modules

| Module | Models | Composition |
|---|---|---|
| `Engine` | the engine walking one message context | `MCEngine` gives phase lists; `EngineProofs` |
| `Phase` | a phase as a record with the operators of `phase.c`, over a set `Names` of handlers | library of the next two; `PhaseProofs` |
| `PhaseBuild` | one phase while handlers are added and removed | `EXTENDS Phase`; `MCPhaseBuild`; `PhaseBuildProofs` |
| `PhaseResolver` | engaging modules at three levels | `EXTENDS Phase`; `MCPhaseResolver`; `PhaseResolverProofs` |
| `MessageLife` | abstract: what the engine promises about one message | implemented by `Engine` (`ImplementsMessageLife`) |
| `ClientCall` | calls through one service client | `MCClientCall`; `ClientCallProofs` |
| `Listener` | listener manager, HTTP receiver, accept loop and its worker threads | `MCListener`; `ListenerProofs` |
| `HttpSender` | one send over HTTP, with authentication | `MCHttpSender`; `HttpSenderProofs` |
| `Server` | concurrent HTTP requests from parsing to the answer | `MCServer`; `ServerProofs` |

### Engine

Variables are the context's fields, the locals of the engine functions and of the
two loops over phases, and a history (`ran`, `failed`, `pauser`, `delivered`).
A message context is used by one thread at a time, so a step is one loop
iteration, one handler invocation or one decision of an engine function.
`Call` and `ResumeCall` are the six entry points; `PhasesEnd`, `PhaseInvoke`,
`PhaseMatch`, `PhaseSkip` and `PhaseLeave` the two phase list functions;
`InvokeHandler` and `ResumeHandler` the two functions of `phase.c` that invoke
handlers; `*Continue` what each engine function does when a list is finished;
`ReceiverInvoke` and `SenderInvoke` its tail.

A handler succeeds, fails, or pauses and succeeds, and a handler of the global in
phases may install the operation context.  The must-understand check, a missing
receiver or sender and the receiver itself are choices of the status.  A context
that was not paused when the engine returned is not handed in again.

Not in the model: a handler that pauses *and* fails in one invocation; handlers
without description in `axis2_phase_invoke_start_from_handler`, which end the
resumed phase early (descriptions are set when handlers are loaded);
`axis2_engine_create_fault_msg_ctx`, which builds a new context.

### MessageLife

The engine as its callers see it, without phases: a message belongs to its caller
or to the engine, or it is over; handlers work on it at places that only go
forward; it may be held and given back; it is handed over at most once and the
engine does not keep it for ever.  That the work goes forward past the handler
that paused the message is what the code does and not what its comments ask for
(run `engine_resume`).  `ImplementsMessageLife` in `Engine` is the refinement: `owner`
is read off `pc`, `held` is `paused`, `done` the history of the lists
the message walks, `handed` whether it was delivered.  Lists with first handlers
are not followed there (see `NeverBackwards` below).

### Phase and PhaseBuild

`Phase` has one operator per function of the building half of `phase.c`; the
result is the new phase with the status.  Handlers are their names, which is how
the code compares them.  Error returns for handlers without description are
left out.  `PhaseBuild` adds and removes handlers in every order; `due` records,
for each handler added, what its rules asked for with respect to the handlers
that were there, and `again` whether a description was added twice.

### PhaseResolver

One system phase stands for the phases of the configuration and one user phase
for the phases of an operation; one flow stands for the four, whose loops are
copies of each other.  A call is split into one step per operation of the loops
over hash tables, in any order, because a failure ends the call in the middle.
`engaged`, `svc_engaged` and `conf_engaged` are the three lists, `flag` is the
local variable `engaged` of the global engagement, `missing` the handlers whose
phase axis2.xml does not have.  The loops over the handlers of a module and over
the modules of a chain (`AddHandlers`, `RemoveHandlers`, `BuildChainsForOp`) are
recursive functions whose value at `k` is the state after `k` passes.  Handlers
are told apart by name in the code, so `DistinctNames` says that the modules and
the configuration use different ones.  Three history variables name
the circumstances under which a property is stated: `disengaged`, `overlap`,
`failed`.  Left out: WS-Addressing action maps, the module lists of service
groups, transport chains, the sticky error code.

### ClientCall

One application thread makes calls of six kinds: robust or one-way, blocking and
non-blocking, each over one channel or with a separate listener.  A call's number
stands for its message id, its operation client and its answer.  A callback is a
block of memory (`block[c]`): `CreateCallback` takes new memory or memory that a
freed callback left, and `callback_map` keeps blocks, so that an entry that is
never removed may lead to the callback of a later call.  `worker[c]` is the
position of `axis2_op_client_two_way_send` and of the worker function for call
`c`; `listener[t]` that of a receiver thread inside
`axis2_callback_recv_receive`.  The three accesses that complete a callback
(envelope, on_complete, complete) are three steps, since the mutexes of
`callback.c` and `callback_recv.c` are created and never locked.  Stores are
assumed to be seen in program order; the code has no barrier that enforces this
on a weakly ordered machine.

`misused` and `op_misused` record uses of a callback or operation client after
`create_op_client` of the next call, or `svc_client_free`, has freed it.
What a worker then reads as the result of its operation client may be that of another
worker (`AsyncResult`).  `axis2_engine_send` returns any status, or never: a peer that
closes or falls silent inside the headers of its answer keeps the sender in a loop
(`DualSpins`, `TwoWaySpins`; the loop itself is `HeadersEnd` of `HttpSender`).
External parts: a module that stores the response of a message into the request
context (`EnvelopeArrives`) and the network (`ResponseArrives`), which may be
late, may duplicate and may reorder, or never answer.  A call whose execution fails before it
sends (no transport, no operation, preparing failed) is `ExecuteFails`.  Left out:
how options and transports are found, allocation failures, copying of HTTP information, headers.

### Listener

The application thread makes dual-channel calls, each of which makes sure that
the listener runs, finalises them, and frees the receiver with the
configuration.  Every start runs `axis2_http_server_start` in a detached thread;
threads, their `svr_thread` structures and their workers are numbered by `Gen`.
`receiver.svr_thread` is the pointer that the stop follows.  `Destroy` with
`CloseListenSocket` is `axis2_http_svr_thread_destroy`, `CreateServer`, `SetWorker`
and `Run` are `axis2_http_server_start`, and `TestStopped`, `CallAccept`,
`AcceptConn`, `AcceptFails` and `Dispatch` the loop of `axis2_http_svr_thread_run`.
`ServeConn` is the thread of a connection; what it does with the request is
module `Server`.  Nothing is locked, so every read of a shared pointer or flag is
a step, with two exceptions: `CreateServer` stores `svr_thread` and reads it again,
and `StopServer` tests it and follows it, in one step each (a change in between
needs a second start or a stop, which the properties except anyway).  Memory is `live` or `freed`; a behaviour ends at the first null pointer
or freed memory that is followed (`process`).  External: the kernel's sockets
(`Held`, `PortFree`, `Connect`, `Reset`).  Not in the model: SSL, keep-alive,
several transports at once.

### HttpSender

One thread runs `axis2_http_sender_send`.  `Begin`, `AfterHead`, `Proxy*`, `Http*`
and `End` are its sections; `Send` is one `axis2_http_client_send`; the peer's moves
are `NoAnswer`, `PeerCloses`, `SkipLine`, `Answer` and `HeadersEnd`.  An answer is
its status class, what each challenge offers and whether a fault is attached (a
Digest may be one that can be answered, one the sender refuses, or one that is
broken: a quote not closed, a parameter missing); the
credentials of a request are the set of headers it carries.  `executed` counts
exchanges after which the peer may have executed the message: the own method was
sent and the answer did not ask for authentication.  Not in the model: writing
errors half-way through a request, the contents of headers, the value of a
digest, SSL, and the libcurl build of the sender, which leaves all of this to
that library.

### Server

One thread per request runs `axis2_http_worker_process_request`.  `req[r]` holds what
the worker and the receivers read of the message contexts; `groupCtx` is the entry
of the service group in the map of the configuration context and `svc` the service with its
library.  A step that touches neither of the two is one action together with what
follows it in the same function.  `LookupGroup` and `RegisterGroup` are two steps
since the mutex is released in between; `GetImpl`, `Lock`, `LoadLibrary`,
`LoadAgain`, `InitSvc` and `Publish` are the double-checked locking of
`axis2_msg_recv_load_and_init_svc_impl`; the `Answer*` actions are the ladder of tests
with which the worker chooses the status.  `Pauses` is a handler that pauses the
message, for which the engine returns success without a receiver.  A behaviour ends
where the worker follows a pointer it should not: no SOAP builder for the attachments
of a multipart body that is not SOAP (`NoBuilder`), a freed message context
(`AnswerFreed`), a closed library.  The second `axis2_op_ctx_add_msg_ctx` of the
receiver does not fail here: it refuses a third context, and the operation context is new.
The read of the context map outside its mutex is atomic.  The status codes of a service are
reduced to none and two that are each in some of the worker's lists.  Not in the
model: request bodies that are themselves SOAP faults (the `receive_fault` path),
connections kept alive, the Apache and IIS workers, errors while writing the answer, early returns
for want of memory.

## 3. Runs

Passing runs:

| Run | Bounds | Shows |
|---|---|---|
| `engine` | all seven lists, two or three phases in the longer ones, up to 3 entries in a phase, first and last handlers in the fault lists; 3 engine calls | a paused message is never handed over, no message is handed over twice, handlers never run backwards however the message is resumed, a message never paused gets the complete chain, every call returns; all this implements `MessageLife` |
| `phase_build` | 3 handlers, every combination of rules, lists of up to 4 entries | a single before or after is kept whatever is added or removed later; adding keeps the order of the rest; no handler twice |
| `resolver` | 2 services, 3 operations of theirs and one of a module, 3 modules, 5 calls, one phase present or missing | lists and phases agree; global engagement reaches later services; dispatchers stay in place, also after calls that fail half-way |
| `client` | 2 calls of any kinds, or 3 with a callback for the first and the third; 2 receiver threads, 2 copies of a response | answers are matched, completion is final, use after free only in the two situations named below, failures of robust sends over one channel are reported; blocking calls return and workers complete callbacks unless the sender spins; delivered responses complete callbacks |
| `listener` | 2 dual-channel calls, 2 listener threads, 1 connection, 2 failing system calls | stopping frees nothing that a thread uses; null pointers need a failure or a stop; a connection is forgotten only after a failure; the count of waiting calls keeps the listener; accepted connections are closed |
| `http_sender` | every message and option; 1 interim status line | a message that may have been executed is not sent again; `auth_failed` and SUCCESS are true; null pointers of the authentication code need a bad challenge; the call returns unless headers are cut off |
| `server` | 2 concurrent requests of any methods | the service is initialised once; later requests share the group context; each request is answered once and a failed PUT or POST not as a success; no failed load closes the library under an object another request holds; every request ends |

Runs that show a disagreement between the code and what its documentation says
(each is a finding in `PROJECT.json` with the line quoted):

| Run | Shows |
|---|---|
| `engine_resume` | a resumed message reaches its receiver although neither the handler that paused it was invoked again nor all handlers of its in flows were invoked; the engine's comments and header promise both |
| `resolver_global` | a global engagement skips operations because one visited earlier listed the module |
| `client_free` | the worker uses the operation client after the application saw completion and freed it |
| `client_reuse` | a late response goes through the entry that the map kept, into memory that a later call has now, and that call returns the answer to another |
| `server_fault` | a GET, HEAD or DELETE whose service returned a fault is answered with a success code |

Other behaviour of the code that the models contain and that a reader may not
expect: a handler that pauses a message being resumed does not stop the rest of
its phase (`ResumeHandler`); a handler with both
before and after may land on the wrong side of one of them, against the manual
(`xdocs/docs/axis2c_manual.html:2716-2718`; `InsertBeforeAndAfter`); `axis2_phase_remove_handler_desc` reports success and leaves a
phaseFirst or phaseLast handler in place (`RemoveHandlerDesc`); a description
added twice may be invoked twice (`InsertBefore`, `InsertAfter`); disengaging
from one service removes shared system handlers (`DisengageOp`); a module engaged
to an operation is not listed by it (`OpEngageModule`); on_complete is called for
failed requests too (`After`); a robust send with a separate listener returns SUCCESS
even if `axis2_engine_send` failed (`DualSend`; `axis2_svc_client.h:205-214` promises a
report); and a callback without worker never completes
(`Spawn`, `ExecuteFails`).

On the sending side: with a forced proxy Digest or NTLM a server that asks for
authentication is sent a HEAD request first, and if that is not answered by 401
the message itself is not sent again, while the call may return SUCCESS
(`HttpHead`, the exception in `SuccessFromAnswer`); a forced proxy
Digest never gets credentials, as no challenge is handed to it (`ProxyScheme`); a forced
server Digest without a challenge, a challenge without parameters, and a Digest
challenge with a quote not closed or a parameter missing, follow a null pointer
(`HttpScheme`, `NullPointer`); an answer that asks for authentication, with a body
and no content type, is reported as an error and not as an authentication failure
(`status` stays `NoStatus`); a REST call returns SUCCESS with whatever response is
left from an earlier exchange (`Accepted`); headers cut off by the peer are read
for ever (`HeadersEnd`).

On the serving side: requests that overlap each create a service group context
and the last one stays in the map (`RegisterGroup`); a library without its delete
function makes the first request fail and later ones work (`LoadAgain`); a
multipart body of an unsupported type ends the process (`NoBuilder`); an out message
context freed by the receiver because the service could not be invoked stays in the
operation context, from which the worker takes and frees it again (`AnswerFreed`), what
the comment at `msg_recv.c:450-453` avoids on another path; up to three answers are written when a reply meets several
objections (`NotAccepted`).

On the listening side: a stop that comes before the receiver knows its server
thread does nothing, and the next start creates a second listener, whose failure to bind
replaces the pointer by NULL (`StopServer`, `CreateServer`); an accept that fails
still starts a worker thread, with no stream (`AcceptFails`, `Dispatch`); the
request leaves a microsecond after the listener thread was started, whether or not
it listens (`Send`).

**Why the bounds are enough.**  Three engine calls allow a message to be paused,
resumed, paused again and resumed; the lists have a phase before and after the
paused one and an entry before, at and after the paused position.  Three
handlers are a handler and both handlers its rules name.  Five resolver calls
are two deployments, two engagements and a disengagement; four list entries are
the three handlers and a second copy of one.  Two calls are the one
whose response is late and the one that frees its callback.  Three are needed for a
callback in the memory of an earlier one, since a call creates its callback before the
last one is freed; what an application does is a member of `Programs`, and the one
program with three calls has a call without callback between two that have one.  All
programs of three calls are out of TLC's reach; the proofs are for any `Programs`.  A
worker that writes through a freed operation client needs two calls only.  Two threads and two
copies let a duplicate run beside the original.  Two listener threads are the one being
stopped and the one that replaces it, two failures the one that leaves something half made and
the one in what follows; connections share nothing but the pointers of
their listener, and one suffices to meet each of these states.  A send makes at
most five exchanges, which the model does not bound; one interim line shows
that it is skipped.  Two requests are the one that loads and the one that looks while it
does; a third would find what the second finds.  For the results proved below no
bound is needed.

**Conditions in the properties.**  `ReceiverSeesProcessedMessage` and
`NoHandlerSkipped` speak of messages no handler paused: after a pause they do not
hold, which `engine_resume` shows.  `NeverBackwards` is for lists without
first handlers, since a first handler that pauses leaves the index of another
phase in the context.  `OneRuleKept` and
`NoDuplicates` end when a description is added while its handler is in the phase
(`again`); `OneRuleKept` also leaves out handlers with both rules and a handler that is phaseFirst
and phaseLast at once (`Alone`), whose before and after the code does not look at.
`AddKeepsOrder` is exact: removing the new handler from the new chain gives the
old one.  `DispatchersKept` asks that every dispatcher is in the chain and that two
places that hold dispatchers are in the order of the dispatchers, which excludes
doubles.  `GlobalEngagementComplete` excludes the situations of
`resolver_global` and operations shared by services.  `CallbackOutlivesUse`
excludes a response that arrives after the application gave up and one delivered
twice; in both the code uses a freed callback, as entries of `callback_map` are
never removed.  `AnswerBelongsToCall` and `CompleteIsFinal` are for calls whose memory no
such use went through (`Shared`); `client_reuse` shows what happens to the others.
`SendFailureReported` is for robust sends over one channel; with a listener the
status is not looked at.  `StopFreesNothing` excludes freeing the receiver while its
threads run and a failed creation of the worker; `CrashNeedsStop` names the three
circumstances under which the accept loop follows a null pointer, and
`CrashNeedsBadChallenge` does so for the authentication code of the sender.  Both
speak of the pointers that the models follow; code that is not modelled may have more.
`AuthFailureReported` is about an answer the client could read: an answer with a body
and no content type is turned into an error before anyone looks at its status.  `WaitingCallsKeepListener` is for
runs without failures.  `LaterRequestsShare` is for requests that do not overlap.
`FailureReported` is for PUT and POST, since `server_fault` shows that it fails for the
others.  `SendReturns` excepts headers that are cut off, and so do
`BlockingCallReturns` and `WorkerCompletes` for the sends of a client call.

**Fairness.**  `Engine` has weak fairness on `Step` only: a thread inside the
engine keeps running and handlers return; nobody has to call the engine again.
`ClientCall` has weak fairness on the steps of the application inside a call, of
two_way_send and the worker for each call, and of each receiver thread.  These
steps include a send that spins for ever (`DualSpins`, `TwoWaySpins`), so fairness does
not make an exchange end.  Nothing
is assumed of the network, of the application between calls, or of a response
arriving; calls that do not spin return because the code counts down.  The run uses a finite
timeout, as a timeout of -1 asks to wait forever.  `Listener` has weak fairness on
the accept loop of each thread (accept returns when a connection waits for it), on
the thread of each connection, whose reads have a time-out, and on a stop or free
that has begun; the application need not make another call.  `HttpSender` has weak
fairness on the code and on `NoAnswer`, the receive time-out that the client sets on its socket; the peer need
not answer.  `Server` has weak fairness on each request's thread; a request locks
the mutex of the service at most once, so weak fairness is enough to get it.

**Deadlock** is not checked where the system may simply stop (no further call,
the one send returned, every request answered, or the process ended);
it is checked in `phase_build` and, with an explicit end of the bounded run, in
the resolver runs.

**Mutants.**  Each property of a passing run has a variant of a definition, next
to it in the module, that a plausible mistake in the code would produce and that
violates the property.

## 4. Proofs

Every invariant and every action property of a passing run is a theorem, for all
values of the constants.  The inductive invariants were checked with TLC before
they were proved.  Assumptions are named where the constants are declared:
`FlowAssumption`, `ClientAssumption`, `ProgramAssumption`, `ListenerAssumption`, `SenderAssumption`,
`ServerAssumption`, `BuildAssumption`, `ResolverAssumption` and `NamesAssumption`
give the ranges of the constants; three say more:

- `NameAssumption`: phase names are unique in a list and the system phases are not
  phases of an operation; this is how the code finds a phase again.
- `GlobalNameAssumption`: the global out phases, which nothing in the repository
  fills, share no name with those of the operation.  Used for the refinement and
  for `WalkNeverGoesBack` only.
- `DistinctNames`: modules and dispatchers have different handler names, and no
  dispatcher is listed twice.

**`EngineProofs`**

- `TypeCorrect`: the types with the bounds of the loops are inductive.
- `HandedOverAtMostOnce`, `PausedNeverHandedOver`: from `HandOverInv`.
  `delivered <= 1` alone is not inductive; what makes it so is that a context
  still open has not been handed over and one about to be is not paused, so that
  the call that hands it over also closes it.
- `ReceiverGetsProcessedMessage`, `HandlersRunInOrder`: from `WalkInv`, which
  relates the history to the position of the walk: in a list being walked
  exactly the handlers before the current position have run, once
  (`PositionInv`), and a receiving call that has moved on left complete lists
  behind (`ReceiveInv`), as long as nobody paused the message.
- `WalkNeverGoesBack`: `NeverBackwards` for messages that are paused and resumed.
  From `ForwardInv`: while a list is walked nothing ahead of the position has run
  (`AheadInv`), while a message is paused nothing ahead of the place that the name
  and the index in its context describe has (`PauseInv`, `Stored`), and a resumed
  `receive` finds the operation's list in one of these two conditions
  (`SecondInv`).
- `ImplementsLifeSafety`: the engine implements `MessageLife` without its fairness;
  each action is shown to be a step of it or a stutter, and the previous theorem is
  what makes places go forward.

**`PhaseProofs`** holds the lemmas about the operators of `Phase`.  An insertion is
described by `Inserted(l, m, k, n)` (`m` is `l` with `n` put at place `k`), each of
the insertions of `phase.c` is shown to be one, at a place that the lemmas compute,
and so is what it does to the chain of the phase; a removal is an insertion read
backwards.  Least and greatest indices come from well-foundedness of the naturals;
`UpTo` is the induction over `0..N` for a set of indices, with which the loops are
proved.

**`PhaseBuildProofs`**: `TypeCorrect`, `AddingKeepsOrder`, `HandlersInvokedOnce`,
`RulesAreKept`.  `OneRuleKept` is inductive together with the absence of
duplicates: a pair stays ordered through an insertion or a removal only if each
of the two names stands at one place.

**`PhaseResolverProofs`** goes along the code: what one call of the phase holder does
(`HolderAdds`, `HolderRemoves`), what the loops do (`HandlersAdded`,
`HandlersRemoved`, `ChainsBuilt`), what a step does to the phases (`PhaseStep`: only
disengaging takes handlers out; `OthersKept`: and only those of its module).

- `DispatchersStay` follows from this, since a module's handlers are no
  dispatchers.
- `EngagedHaveHandlers`: an operation lists a module anew only in a step that has
  put the user handlers into its phase (`NewlyReady`).
- `EngagedInSystem`: from `ListsReady` and `CallReady`.  The operations' lists alone
  are not enough: `build_execution_chains_for_op` copies the lists of the
  configuration and of the service without adding system-phase handlers, so what
  these name must be ready too.  A service lists its module after a loop over its
  operations, and the handlers are there because a deployed service has at least
  one operation.
- `GlobalEngagementReaches`: from `CoverInv` and `LoopInv`: the services the loop has
  visited list the module, the ones ahead do not, so the variable `engaged` that is
  never reset is never set.
- `TypeCorrect`.

**`ClientCallProofs`**

- `TypeCorrect`: with `Bounds`, which says that the call numbers and blocks used as
  indices denote calls and memory.
- `KindInv` and `OwnInv` say who works for which kind of call and that exactly the
  calls before the last one (or all, when the client is freed) are freed; the other
  proofs rest on them.
- `ResponsesFindCallbacks`: from `MatchInv`: an entry of the map is the block of its own
  message id, it is there before the request leaves, and a receiver thread works only
  for a call that was sent.
- `AnswersMatched`, `CompletionIsFinal`: from `LiveInv`.  Since memory is reused, "the
  envelope in a block is that of its call" is not inductive: a thread of a freed call
  may write into the block of a later one.  `LiveInv` says it of the one call that is
  not freed, unless it is `Shared`, and together with it that whoever is about to set
  `complete` has stored the envelope and returned from on_complete (`Stored`, `Completed`,
  `Consistent`).  A thread that writes into its block works for this call, or it uses a
  freed callback, and the step that does so also makes the call `Shared`
  (`LiveReceive`, `LiveWorker`).  `ResultInv` keeps what the call returned when it is
  freed later.
- `SendFailuresReported`: from `ReportInv`: once engine_send of a robust send over one
  channel failed, the status in the environment stays until the call returns, which it
  does once.
- `CallbacksOutliveUse`: from `SeenInv` (a call seen to its end is complete or nobody will
  complete it) and `CopyInv` (every thread at work for a call took a copy of its
  response, and so did the one that completed it, so that a second user means a second
  copy).

**`ListenerProofs`**: `TypeCorrect` with `ManagerInv` (the count of waiting calls and
the calls not finalized agree) and `PointerInv` (a pointer followed without a test is
not null); `StopIsSafe` from `FreedInv`; `StartIsSafe` from `ServerInv` (a server
listens until it is stopped) and `NullInv`; `LeaksAreFaults`, with the cardinality of the
set of forgotten connections; `WaitingCallsSafe`.

**`HttpSenderProofs`**: `PathInv` says which sections a call with forced proxy
authentication goes through; on it rest `MessageExecutedOnce` (once the message may
have been executed the status asks for nothing, and the sender is past the sections
that send all the same), `AuthReported` (with `AskedInv`: what the status the sender acts
on has to do with the answer to the last exchange), `SuccessIsAnswer` (the status acted on is that
of the last answer) and `CrashFromChallenge`.  `ExchangesAreBounded` says that the
retries end: a call makes at most five exchanges and sends the message itself in at
most three of them.

**`ServerProofs`**: `ServiceInitializedOnce` from `ServiceInv` (what the thread inside
the mutex knows, and that outside of it the service is initialised exactly if it is
published); `ContextsShared` from `ContextInv`; `RequestsAnsweredOnce` and
`FailuresReported` together, since the ladder of the worker reads what went wrong off
the status; `LibraryStaysOpen`: a request unloads the library only inside the mutex and
only after it found that no object was published, which `ServiceInv` carries across
the steps of loading.

`TypeCorrect` of `PhaseBuild`, `PhaseResolver`, `Listener`, `HttpSender` and `Server`
states the `TypeOK` of these modules, which their runs do not list: they spend their
properties on behaviour.

**Only model-checked**: the liveness properties (`CallsReturn`, `BlockingCallReturns`,
`WorkerCompletes`, `DeliveredResponseCompletes`, `AcceptedIsClosed`, `SendReturns`,
`RequestsEnd`) and the fairness that `ImplementsMessageLife` asks for, which are out of
the prover's reach, and the five properties that the code violates.

## 5. Plan

Done: the engine and its abstract specification, phases, module engagement, client
calls, the listener, the HTTP sender, the HTTP server with contexts and message
receivers, and the proofs of their safety properties.  Next, in this order:

1. Abstract specifications of `ClientCall` (a call is made, may be answered and is
   completed once) and of `Server` (a request is accepted and answered), with the safety
   part of the refinement proved as it is for the engine.
2. Message contexts of the operation client (`axis2_op_client_add_msg_ctx` and
   its reuse flag) in `ClientCall`, which the worker and the application share.
3. Algorithms against reference definitions: array list, linked list, hash
   table, the REST operation matcher, the MIME boundary search.
4. Deferred building of the AXIOM tree (the builder pulled by navigation).

Not planned: XML parsing and serialisation, XPath, policy processing, addressing
headers and the AMQP layer, which are sequential conversions; tcpmon and the
samples.
