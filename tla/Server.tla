------------------------------- MODULE Server -------------------------------
(***************************************************************************)
(* HTTP requests served at the same time, each by a thread of its own:     *)
(* axis2_http_worker_process_request (transport/http/common/http_worker.c) *)
(* parses the request (transport/http/util/http_transport_utils.c), gives  *)
(* it to the engine, and chooses the answer from what comes back.  In      *)
(* between, the context handler finds or creates the service group context *)
(* (context/conf_ctx.c), the message receiver loads and initializes the    *)
(* service (receivers/msg_recv.c, util/src/class_loader.c), calls it       *)
(* (receivers/raw_xml_in_out_msg_recv.c) and sends its reply.              *)
(*                                                                         *)
(* The requests share the map of service group contexts and the service;   *)
(* a step that touches neither is one action with what follows it in the   *)
(* same function.  The phases the message goes through are in module       *)
(* Engine: here a phase that fails is an outcome.                          *)
(***************************************************************************)
EXTENDS Integers, FiniteSets

CONSTANTS Requests,    \* the requests, one thread each
          None         \* no request

ASSUME ServerAssumption == None \notin Requests

\* GET stands for GET, HEAD and DELETE; REST for PUT and for a POST whose
\* content is not SOAP; OTHER for the methods that are not implemented.
Methods == {"GET", "REST", "SOAP", "OTHER"}

OK == 200
Accepted == 202
NoContent == 204
NotModified == 304
BadRequest == 400
NotFound == 404
NotAllowed == 405
NotAcceptable == 406
Conflict == 409
LengthRequired == 411
Unsupported == 415
InternalError == 500
NotImplemented == 501

\* The status codes a service sets: none (or one that the worker has in no list
\* and treats as none), and two that are each in some of the worker's lists.
ServiceCodes == {0, Conflict, NotModified}

VARIABLES
    pc,          \* where each request is
    req,         \* its message contexts and what it got (NewRequest)
    groupCtx,    \* svc_grp_ctx_map: the request that made the entry of the group
    svc,         \* the service: whether it names a library, impl_class, the
                 \* library, the mutex and how often it was initialized
    before,      \* requests that had their contexts when this one looked them up
    process      \* up, or how it crashed

vars == <<pc, req, groupCtx, svc, before, process>>

NewRequest ==
    [method |-> "GET", status |-> TRUE, wrong |-> FALSE, soapFault |-> FALSE,
     page |-> FALSE, processed |-> FALSE, httpError |-> FALSE, opCtx |-> FALSE, group |-> None,
     obj |-> FALSE, code |-> 0, out |-> "none", outCode |-> 0, noContent |-> FALSE,
     body |-> "none", written |-> FALSE, answer |-> 0, writes |-> 0]

DllStates == {"none", "no create function", "loaded", "closed"}

SvcType ==
    [param : BOOLEAN, impl : BOOLEAN, dll : DllStates, mutex : Requests \cup {None}, inits : Nat]

RequestType ==
    [method : Methods, status : BOOLEAN, wrong : BOOLEAN, soapFault : BOOLEAN, page : BOOLEAN,
     processed : BOOLEAN, httpError : BOOLEAN, opCtx : BOOLEAN, group : Requests \cup {None},
     obj : BOOLEAN, code : Nat, out : {"none", "live", "freed"}, outCode : Nat,
     noContent : BOOLEAN, body : {"none", "reply", "fault"}, written : BOOLEAN, answer : Nat,
     writes : Nat]

\* Every component has its type.
TypeOK ==
    /\ pc \in [Requests -> {"parse", "engine", "register", "phases", "get impl",
                            "lock", "load", "init", "publish", "invoke", "reply",
                            "respond", "done"}]
    /\ req \in [Requests -> RequestType]
    /\ groupCtx \in Requests \cup {None}
    /\ svc \in SvcType
    /\ before \in [Requests -> SUBSET Requests]
    /\ process \in {"up", "null builder", "freed context", "unloaded library"}
-----------------------------------------------------------------------------
At(r, p) == process = "up" /\ pc[r] = p
Goto(r, p) == pc' = [pc EXCEPT ![r] = p]
Local == UNCHANGED <<groupCtx, svc, before, process>>

Crash(how) ==
    /\ process' = how
    /\ UNCHANGED <<pc, req, groupCtx, svc, before>>

\* The request goes on to the worker's answer: failed when AXIS2_FAILURE comes
\* back, with the fields of the message contexts as f says.
Return(r, f, failed) ==
    /\ req' = [req EXCEPT ![r] = [f EXCEPT !.status = ~failed, !.wrong = @ \/ failed]]
    /\ Goto(r, "respond")

\* One answer on the connection.
Written(f, code) == [f EXCEPT !.answer = code, !.writes = @ + 1]

\* The message contexts and the operation context are freed; what happened to
\* the request is kept.
Freed(f) ==
    [NewRequest EXCEPT !.method = f.method, !.wrong = f.wrong, !.soapFault = f.soapFault,
                       !.group = f.group, !.answer = f.answer, !.writes = f.writes]

\* The end of the worker: with an operation context, its out message context is
\* looked at and freed.
Cleanup(r, f) ==
    /\ req' = [req EXCEPT ![r] = IF f.out = "freed" THEN f ELSE Freed(f)]
    /\ process' = IF f.out = "freed" THEN "freed context" ELSE process
    /\ Goto(r, "done")
    /\ UNCHANGED <<groupCtx, svc, before>>

Write(r, code) == Cleanup(r, Written(req[r], code))
-----------------------------------------------------------------------------
(* axis2_http_worker_process_request up to the engine.                     *)

\* A request without an HTTP version is dropped.
Drop(r) ==
    /\ At(r, "parse")
    /\ Goto(r, "done")
    /\ UNCHANGED req
    /\ Local

\* A body of unknown length, or a request line without a usable URL.
Reject(r) ==
    /\ At(r, "parse")
    /\ \/ req[r].method \in {"REST", "SOAP"} /\ Write(r, LengthRequired)
       \/ Write(r, BadRequest)

\* The Accept headers, the out stream and the method: what is not implemented
\* goes straight to its answer.
Unimplemented(r) ==
    /\ At(r, "parse")
    /\ req[r].method = "OTHER"
    /\ Return(r, req[r], TRUE)
    /\ Local

\* A GET, HEAD or DELETE that does not name an operation, or that asks for the
\* services page or a WSDL.
UnprocessedGet(r) ==
    /\ At(r, "parse")
    /\ req[r].method = "GET"
    /\ \E page \in BOOLEAN : Return(r, [req[r] EXCEPT !.page = page], ~page)
    /\ Local

\* A PUT or POST whose content cannot be parsed, is of a type that is not
\* supported (which only the answer to SOAP mentions), or is not dispatched.
UnprocessedBody(r) ==
    /\ At(r, "parse")
    /\ req[r].method \in {"REST", "SOAP"}
    /\ \E unsupported \in BOOLEAN :
           Return(r, [req[r] EXCEPT !.httpError = unsupported], TRUE)
    /\ Local

\* A multipart POST that is not SOAP (of a type that is not supported, or REST):
\* there are attachments and no SOAP builder to give them to.
NoBuilder(r) ==
    /\ At(r, "parse")
    /\ req[r].method \in {"REST", "SOAP"}
    /\ Crash("null builder")

Parse(r) ==
    /\ At(r, "parse")
    /\ req[r].method # "OTHER"
    /\ req' = [req EXCEPT ![r].processed = TRUE]
    /\ Goto(r, "engine")
    /\ Local
-----------------------------------------------------------------------------
(* axis2_engine_receive: the context handler and the phases.               *)

\* No service or operation was found, or a handler of the first phases failed.
DispatchFails(r) ==
    /\ At(r, "engine")
    /\ Return(r, req[r], TRUE)
    /\ Local

\* A handler pauses the message: the engine returns success and no receiver is
\* called.
Pauses(r) ==
    /\ At(r, "engine") \/ At(r, "phases")
    /\ Return(r, req[r], FALSE)
    /\ Local

\* The service group context, found or new, has no context for the service.
NoSvcCtx(r) ==
    /\ \/ At(r, "engine") /\ groupCtx # None
       \/ At(r, "register")
    /\ Return(r, [req[r] EXCEPT !.opCtx = TRUE], TRUE)
    /\ Local

\* The operation context is created, and the map is read without the lock.
LookupGroup(r) ==
    /\ At(r, "engine")
    /\ req' = [req EXCEPT ![r].opCtx = TRUE, ![r].group = groupCtx]
    /\ before' = [before EXCEPT ![r] = {q \in Requests : req[q].group # None}]
    /\ Goto(r, IF groupCtx = None THEN "register" ELSE "phases")
    /\ UNCHANGED <<groupCtx, svc, process>>

\* Mutant: the new context is not registered.
GroupAfter_Lost(r) == groupCtx

\* axis2_conf_ctx_register_svc_grp_ctx sets the entry, whatever it holds by now.
GroupAfter(r) == r

RegisterGroup(r) ==
    /\ At(r, "register")
    /\ groupCtx' = GroupAfter(r)
    /\ req' = [req EXCEPT ![r].group = r]
    /\ Goto(r, "phases")
    /\ UNCHANGED <<svc, before, process>>

\* A handler of a later phase fails.
PhaseFails(r) ==
    /\ At(r, "phases")
    /\ Return(r, req[r], TRUE)
    /\ Local

\* axis2_msg_recv_receive_impl puts a new out message context into the
\* operation context.
Receive(r) ==
    /\ At(r, "phases")
    /\ req' = [req EXCEPT ![r].out = "live"]
    /\ Goto(r, "get impl")
    /\ Local
-----------------------------------------------------------------------------
(* axis2_msg_recv_make_new_svc_obj.                                        *)

GetImpl(r) ==
    /\ At(r, "get impl")
    /\ req' = [req EXCEPT ![r].obj = svc.impl]
    /\ Goto(r, IF svc.impl THEN "invoke" ELSE "lock")
    /\ Local

\* Mutant: impl_class is not tested again under the lock.
LoadedMeanwhile_No == FALSE

LoadedMeanwhile == svc.impl

\* Without a ServiceClass parameter there is nothing to load; that and a
\* service loaded meanwhile release the mutex at once.
Lock(r) ==
    /\ At(r, "lock")
    /\ svc.mutex = None
    /\ \/ /\ svc.param
          /\ ~LoadedMeanwhile
          /\ svc' = [svc EXCEPT !.mutex = r]
          /\ Goto(r, "load")
          /\ UNCHANGED req
       \/ /\ ~svc.param \/ LoadedMeanwhile
          /\ req' = [req EXCEPT ![r].obj = LoadedMeanwhile]
          /\ Goto(r, "invoke")
          /\ UNCHANGED svc
    /\ UNCHANGED <<groupCtx, before, process>>

\* No object comes back: NULL will be published.
NotLoaded(r, dll) ==
    /\ svc' = [svc EXCEPT !.dll = dll]
    /\ Goto(r, "publish")
    /\ UNCHANGED <<req, groupCtx, before, process>>

\* Mutant: the object is published without being initialized.
Create_NoInit(r) ==
    \/ NotLoaded(r, "closed")
    \/ /\ svc' = [svc EXCEPT !.dll = "loaded"]
       /\ req' = [req EXCEPT ![r].obj = TRUE]
       /\ Goto(r, "publish")
       /\ UNCHANGED <<groupCtx, before, process>>

\* create_funct: an object, or nothing, after which the library is closed while
\* its description keeps the handle and the function.
Create(r) ==
    \/ NotLoaded(r, "closed")
    \/ /\ svc' = [svc EXCEPT !.dll = "loaded"]
       /\ req' = [req EXCEPT ![r].obj = TRUE]
       /\ Goto(r, "init")
       /\ UNCHANGED <<groupCtx, before, process>>

\* axutil_class_loader_create_dll on a library not yet loaded: it is missing,
\* lacks the create function, or lacks the delete function (the next request
\* then finds the handle and the create function, and goes on).
LoadLibrary(r) ==
    /\ At(r, "load")
    /\ svc.dll = "none"
    /\ \/ \E dll \in {"none", "no create function", "loaded"} : NotLoaded(r, dll)
       \/ Create(r)

\* The same when a handle is in the description.
LoadAgain(r) ==
    /\ At(r, "load")
    /\ \/ svc.dll = "no create function" /\ NotLoaded(r, svc.dll)
       \/ svc.dll = "loaded" /\ Create(r)
       \/ svc.dll = "closed" /\ Crash("unloaded library")

InitSvc(r) ==
    /\ At(r, "init")
    /\ svc' = [svc EXCEPT !.inits = @ + 1]
    /\ Goto(r, "publish")
    /\ UNCHANGED <<req, groupCtx, before, process>>

\* Mutant: the mutex is kept when nothing was loaded.
Unlocked_Loaded(r) == IF req[r].obj THEN None ELSE svc.mutex

Unlocked(r) == None

Publish(r) ==
    /\ At(r, "publish")
    /\ svc' = [svc EXCEPT !.impl = req[r].obj, !.mutex = Unlocked(r)]
    /\ Goto(r, "invoke")
    /\ UNCHANGED <<req, groupCtx, before, process>>
-----------------------------------------------------------------------------
(* The service and what axis2_msg_recv_receive_impl does with its reply.   *)

\* What the out envelope holds: what the service put there itself, else its
\* result, else a fault, except for a one-way operation without an error.
Envelope(own, result, oneWay, error) ==
    IF own # "none" THEN own
    ELSE IF result THEN "reply"
    ELSE IF oneWay /\ ~error THEN "none"
    ELSE "fault"

\* A missing result sets no_content or, if env->error holds an error (of this
\* call or an earlier one), hands the status code that the service set to the
\* in message context.
Served(f, own, result, oneWay, error, c) ==
    [f EXCEPT !.body = Envelope(own, result, oneWay, error),
              !.outCode = c,
              !.noContent = ~result /\ ~error,
              !.code = IF ~result /\ error THEN c ELSE @]

\* The service is called.
Invoke(r) ==
    /\ At(r, "invoke")
    /\ req[r].obj
    /\ \E own \in {"none", "reply", "fault"}, result, oneWay, error \in BOOLEAN,
          c \in ServiceCodes :
           req' = [req EXCEPT ![r] = Served(req[r], own, result, oneWay, error, c)]
    /\ Goto(r, "reply")
    /\ Local

\* Without a service object the envelope gets a fault.
NoObject(r) ==
    /\ At(r, "invoke")
    /\ ~req[r].obj
    /\ req' = [req EXCEPT ![r].body = "fault"]
    /\ Goto(r, "reply")
    /\ Local

\* No envelope could be made: the out message context is freed, and stays in
\* the operation context.
InvokeFails(r) ==
    /\ At(r, "invoke")
    /\ Return(r, [req[r] EXCEPT !.out = "freed"], TRUE)
    /\ Local

\* The fault is handed to the in message context.
AfterFault(f) == [f EXCEPT !.soapFault = TRUE]

\* Mutant: the fault is not a failure.
FaultFails_No == FALSE

FaultFails == TRUE

Fault(r) ==
    /\ At(r, "reply")
    /\ req[r].body = "fault"
    /\ Return(r, AfterFault([req[r] EXCEPT !.wrong = TRUE]), FaultFails)
    /\ Local

\* axis2_engine_send: a phase or the sender fails, or the reply goes to the
\* back channel or to the address that the request gave.
SendReply(r) ==
    /\ At(r, "reply")
    /\ req[r].body = "reply"
    /\ \/ Return(r, req[r], TRUE)
       \/ \E back \in BOOLEAN : Return(r, [req[r] EXCEPT !.written = back], FALSE)
    /\ Local

NoReply(r) ==
    /\ At(r, "reply")
    /\ req[r].body = "none"
    /\ Return(r, req[r], FALSE)
    /\ Local
-----------------------------------------------------------------------------
(* The worker's answer.                                                    *)

Rest(r) == req[r].method \in {"GET", "REST"}

\* The codes of a REST failure: env->error names the missing operation (404,
\* or 405 when other methods are allowed), or the status code decides.
FailureCodes(code) ==
    {NotFound, NotAllowed, IF code = Conflict THEN code ELSE InternalError}

\* An unprocessed GET, HEAD or DELETE: the page asked for, or a failure.
AnswerGet(r) ==
    /\ At(r, "respond")
    /\ req[r].method = "GET"
    /\ ~req[r].processed
    /\ \E code \in IF req[r].page THEN {OK} ELSE FailureCodes(req[r].code) :
           Write(r, code)

AnswerRestFailure(r) ==
    /\ At(r, "respond")
    /\ req[r].method = "REST"
    /\ ~req[r].status
    /\ \E code \in FailureCodes(req[r].code) : Write(r, code)

\* A SOAP fault is sent through the engine into the out stream, unless the
\* transport noted an HTTP error.
AnswerSoapFailure(r) ==
    /\ At(r, "respond")
    /\ req[r].method = "SOAP"
    /\ ~req[r].status
    /\ Write(r, IF req[r].httpError THEN Unsupported ELSE InternalError)

AnswerNotImplemented(r) ==
    /\ At(r, "respond")
    /\ req[r].method = "OTHER"
    /\ Write(r, NotImplemented)

\* The requests the worker still has to answer.  For GET, HEAD and DELETE the
\* status that the engine returned was not kept.
Unanswered(r) ==
    /\ At(r, "respond")
    /\ IF req[r].method = "GET" THEN req[r].processed ELSE req[r].status
    /\ req[r].method # "OTHER"

\* What a client that sent Accept headers may object to: the type and the
\* character set of a reply, and the language of the out message context.
Objections(r) ==
    (IF req[r].written THEN {"type", "charset"} ELSE {})
    \cup (IF req[r].out = "live" THEN {"language"} ELSE {})

\* Mutant: the last answer is written as well.
NotAccepted_Twice(f, objections) ==
    [f EXCEPT !.answer = NotAcceptable, !.writes = @ + Cardinality(objections) + 1]

\* Each objection writes an answer of its own.
NotAccepted(f, objections) ==
    [f EXCEPT !.answer = NotAcceptable, !.writes = @ + Cardinality(objections)]

AnswerNotAcceptable(r) ==
    /\ Unanswered(r)
    /\ Rest(r)
    /\ req[r].out # "freed"
    /\ \E objections \in (SUBSET Objections(r)) \ {{}} :
           Cleanup(r, NotAccepted(req[r], objections))

\* The code of a reply in the back channel.
WrittenCode(r) ==
    IF Rest(r) /\ req[r].outCode \in {Conflict, NotModified} THEN req[r].outCode ELSE OK

\* The code when there is none: what the service set, as far as it is in the
\* worker's list, 204 for no content, else 202.
UnwrittenCode(r) ==
    IF ~Rest(r) \/ req[r].out = "none" THEN Accepted
    ELSE IF req[r].noContent
         THEN IF req[r].outCode = NotModified THEN NotModified ELSE NoContent
    ELSE IF req[r].outCode \in {Conflict, NotModified} THEN req[r].outCode
    ELSE Accepted

Answer(r) ==
    /\ Unanswered(r)
    /\ req[r].out # "freed"
    /\ Write(r, IF req[r].written THEN WrittenCode(r) ELSE UnwrittenCode(r))

\* The worker asks a freed out message context for its language.
AnswerFreed(r) ==
    /\ Unanswered(r)
    /\ req[r].out = "freed"
    /\ Crash("freed context")

-----------------------------------------------------------------------------
Init ==
    /\ pc = [r \in Requests |-> "parse"]
    /\ req \in [Requests -> {[NewRequest EXCEPT !.method = m] : m \in Methods}]
    /\ groupCtx = None
    /\ \E param \in BOOLEAN :
           svc = [param |-> param, impl |-> FALSE, dll |-> "none", mutex |-> None, inits |-> 0]
    /\ before = [r \in Requests |-> {}]
    /\ process = "up"

Worker(r) ==
    \/ Drop(r) \/ Reject(r) \/ Unimplemented(r) \/ UnprocessedGet(r)
    \/ UnprocessedBody(r) \/ NoBuilder(r) \/ Parse(r)
    \/ DispatchFails(r) \/ Pauses(r) \/ NoSvcCtx(r) \/ LookupGroup(r) \/ RegisterGroup(r)
    \/ PhaseFails(r) \/ Receive(r)
    \/ GetImpl(r) \/ Lock(r) \/ LoadLibrary(r) \/ LoadAgain(r) \/ InitSvc(r) \/ Publish(r)
    \/ Invoke(r) \/ NoObject(r) \/ InvokeFails(r) \/ Fault(r) \/ SendReply(r) \/ NoReply(r)
    \/ AnswerGet(r) \/ AnswerRestFailure(r) \/ AnswerSoapFailure(r)
    \/ AnswerNotImplemented(r) \/ AnswerNotAcceptable(r) \/ Answer(r) \/ AnswerFreed(r)

Next == \E r \in Requests : Worker(r)

\* Every thread that can run does; a mutex that is released again and again is
\* not granted for ever to others (each request locks it once).
Fairness == \A r \in Requests : WF_vars(Worker(r))

Spec == Init /\ [][Next]_vars /\ Fairness
-----------------------------------------------------------------------------
(* Safety.                                                                 *)

\* No request reaches a service object that is not initialized, and the
\* service is initialized once, however many requests find it not loaded at
\* the same time (the test of impl_class outside the mutex and inside it).
ServiceReady ==
    /\ svc.inits <= 1
    /\ \A r \in Requests : pc[r] = "invoke" /\ req[r].obj => svc.inits = 1

\* A request that looks for its contexts after another one got them shares
\* them: only requests that overlap may each create a service group context.
LaterRequestsShare ==
    \A r \in Requests : before[r] # {} => req[r].group # r

\* A request that is not dropped at once is answered once, and with Accept
\* headers up to once per objection: no path of the worker falls through to a second
\* answer, and none returns without one.
AnsweredOnce ==
    \A r \in Requests :
        pc[r] = "done" => \/ req[r].writes = 1
                          \/ req[r].writes = 0 /\ req[r].group = None /\ ~req[r].wrong
                          \/ req[r].writes \in 2 .. 3 /\ req[r].answer = NotAcceptable

\* A PUT or a POST that went wrong anywhere (parsing, dispatching, a handler,
\* the service, sending its reply) is not answered as a success.
FailureReported ==
    \A r \in Requests :
        req[r].method # "GET" /\ req[r].wrong /\ req[r].answer # 0
            => req[r].answer >= BadRequest

\* No request holds a service object whose library was closed: neither a
\* request whose constructor fails nor one that waited for the mutex unloads
\* the library under an object that another request published or calls
\* (axutil_class_loader_create_dll unloads whenever it gets no object).
LibraryOutlivesObject ==
    /\ svc.impl => svc.dll = "loaded"
    /\ \A r \in Requests :
           pc[r] \in {"init", "publish", "invoke"} /\ req[r].obj => svc.dll = "loaded"

\* A fault reaches the client as an error: receive_impl returns a failure so
\* that the transport gets to know.
FaultReported ==
    \A r \in Requests :
        req[r].soapFault /\ req[r].answer # 0 => req[r].answer >= BadRequest

\* Every request comes to its end: no one waits for ever for the service.
RequestsEnd ==
    <>(process # "up" \/ \A r \in Requests : pc[r] = "done")
=============================================================================
