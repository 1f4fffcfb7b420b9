------------------------------- MODULE Engine -------------------------------
(***************************************************************************)
(* The Axis2/C engine walking one message context through the phases of a  *)
(* flow: src/core/engine/engine.c, the invocation half of phase.c and the  *)
(* pause state of msg_ctx.c.                                               *)
(*                                                                         *)
(* A message context is processed by one thread at a time, so the hard     *)
(* part is not interleaving but the protocol: a handler may PAUSE the      *)
(* message, the engine call returns, and a module later re-enters the      *)
(* engine with the same context.  Where the walk continues is decided only *)
(* by three fields of the context (paused, paused_phase_name and           *)
(* current_handler_index), which every phase overwrites.                   *)
(*                                                                         *)
(* One step is one iteration of a C loop, one handler invocation or one    *)
(* decision of an axis2_engine_* function.  Handlers are the environment:  *)
(* an invocation returns SUCCESS, returns FAILURE, or pauses the message   *)
(* and returns SUCCESS; it may also install the operation context, as the  *)
(* dispatchers and the context handler do.                                 *)
(***************************************************************************)
EXTENDS Integers, Sequences

CONSTANTS
    Flow,      \* the phase list of each flow, a function on FlowNames
    Kinds,     \* the kinds of message processed, a subset of KindNames
    MaxCalls   \* bound: engine calls made on one message context

\* in: request or response; out: message to send; *_fault: the fault flows.
KindNames == {"in", "out", "in_fault", "out_fault"}

\* pre: conf's in phases up to post dispatch; in, out, in_fault, out_fault:
\* the flows of the operation; global_*: the out flows of the configuration.
FlowNames == {"pre", "in", "out", "global_out", "in_fault", "out_fault",
              "global_out_fault"}

OpFlows == {"in", "out", "in_fault", "out_fault"}

\* A phase as the invoker sees it: its name, whether first_handler and
\* last_handler are set, and the number of entries of its handler list.
PhaseType == [name : STRING, first : BOOLEAN, size : Nat, last : BOOLEAN]

Names(l) == {Flow[l][k].name : k \in 1..Len(Flow[l])}

ASSUME FlowAssumption ==
    /\ Flow \in [FlowNames -> Seq(PhaseType)]
    /\ Kinds \subseteq KindNames
    /\ MaxCalls \in Nat

\* Phases are found again by name, so names are unique in a list; the system
\* phases of "pre" are never created for an operation (phases_info.c:219).
ASSUME NameAssumption ==
    /\ \A l \in FlowNames : \A j, k \in 1..Len(Flow[l]) :
          Flow[l][j].name = Flow[l][k].name => j = k
    /\ Names("pre") \cap Names("in") = {}

\* Nothing in the repository calls axis2_conf_set_out_phases, so the global out
\* list is empty unless an embedding program fills it with phases of its own.
ASSUME GlobalNameAssumption == Names("out") \cap Names("global_out") = {}

\* Position of a handler in a phase: 0 the first handler, 1..size the list,
\* size + 1 the last handler; size + 2 is past the end.
End(P) == P.size + 2
Present(P, h) == \/ h = 0 /\ P.first
                 \/ h \in 1..P.size
                 \/ h = P.size + 1 /\ P.last

Positions(P) == {p \in 0..(P.size + 1) : Present(P, p)}

\* Every handler invocation point: list, phase number, position in the phase.
Slots == UNION {UNION {{<<l, k, p>> : p \in Positions(Flow[l][k])} :
                           k \in 1..Len(Flow[l])} : l \in FlowNames}

NoSlot == <<"none", 0, 0>>

VARIABLES
    kind,        \* what kind of message the context carries
    server_side, \* msg_ctx->server_side
    paused,      \* msg_ctx->paused
    paused_phase_name,     \* msg_ctx->paused_phase_name
    current_handler_index, \* msg_ctx->current_handler_index
    op_ctx,      \* whether msg_ctx->op_ctx is set
    pc,          \* where the thread is
    fn,          \* the engine function executing
    list,        \* the phase list being walked
    mode,        \* axis2_engine_invoke_phases or ..._resume_invocation_phases
    i,           \* the loop index over the phases of the list, from 1
    h,           \* the next handler position within phase i
    found_match, \* found_match of axis2_engine_resume_invocation_phases
    rv,          \* what the phase list function returned
    status,      \* the local variable status of the engine function
    result,      \* what the last engine call returned
    calls,       \* number of engine calls so far
    ran,         \* history: how often each handler was invoked
    failed,      \* history: some handler invocation failed
    pauser,      \* history: the handler that paused the message last
    delivered    \* history: invocations of the receiver or transport sender

ctx == <<paused, paused_phase_name, current_handler_index, op_ctx>>
walk == <<list, mode, i, h, found_match>>
history == <<ran, failed, pauser>>
vars == <<kind, server_side, ctx, pc, fn, walk, rv, status, result, calls,
          history, delivered>>

Status == {"SUCCESS", "FAILURE"}
Outcome == {"ok", "fail", "pause"}

Phase == Flow[list][i]

-----------------------------------------------------------------------------
(* axis2_msg_ctx_create: a fresh context.  Client code and the transports   *)
(* hand the engine contexts with and without an operation context.          *)
Init ==
    /\ kind \in Kinds
    /\ server_side \in BOOLEAN
    /\ paused = FALSE
    /\ paused_phase_name = "NULL"
    /\ current_handler_index = -1
    /\ op_ctx \in BOOLEAN
    /\ pc = "idle"
    /\ fn = "none"
    /\ list = "pre" /\ mode = "invoke" /\ i = 1 /\ h = 0
    /\ found_match = FALSE
    /\ rv = "SUCCESS" /\ status = "FAILURE" /\ result = "none"
    /\ calls = 0
    /\ ran = [s \in Slots |-> 0]
    /\ failed = FALSE /\ pauser = NoSlot
    /\ delivered = 0

-----------------------------------------------------------------------------
(* Calling the two phase list functions.  Both refuse a NULL list, which is *)
(* what a context without operation context yields for an operation flow;   *)
(* the resume function then leaves the context paused.                      *)
StartList(l, m) ==
    /\ list' = l /\ mode' = m /\ i' = 1 /\ h' = 0
    /\ found_match' = FALSE
    /\ IF l \in OpFlows /\ ~op_ctx
       THEN /\ pc' = "returned" /\ rv' = "FAILURE"
            /\ UNCHANGED paused
       ELSE /\ pc' = "phases" /\ UNCHANGED rv
            /\ paused' = (paused /\ m # "resume")

\* Mutant: a context that was handed over is kept open.
Return_Open(r) ==
    /\ pc' = "idle"
    /\ result' = r
    /\ UNCHANGED <<ctx, walk, rv, status>>

\* The engine function executing returns r to its caller.  A module keeps a
\* paused context and may call the engine again; any other context is freed.
Return(r) ==
    /\ pc' = IF paused THEN "idle" ELSE "closed"
    /\ result' = r
    /\ UNCHANGED <<ctx, walk, rv, status>>

\* A message is handed to the engine entry point of its kind, and again when
\* it is paused: every entry point tests axis2_msg_ctx_is_paused itself.
EntryPoint == [k \in KindNames |->
    CASE k = "in" -> "receive" [] k = "out" -> "send"
      [] k = "in_fault" -> "receive_fault" [] k = "out_fault" -> "send_fault"]

EntryList(f) == CASE f \in {"receive", "resume_receive"} -> "pre"
                  [] f \in {"send", "resume_send"} -> "out"
                  [] f = "send_fault" -> "out_fault"
                  [] OTHER -> IF op_ctx THEN "in_fault" ELSE "pre"

Enter(f, m) ==
    /\ pc = "idle" /\ calls < MaxCalls
    /\ calls' = calls + 1
    /\ fn' = f
    /\ status' = IF f \in {"send", "send_fault"} THEN "SUCCESS" ELSE "FAILURE"
    /\ result' = "none"
    /\ StartList(EntryList(f), m)
    /\ UNCHANGED <<kind, server_side, paused_phase_name,
                   current_handler_index, op_ctx, history, delivered>>

\* axis2_engine_receive, _send, _receive_fault, _send_fault up to the first
\* phase list.
Call == Enter(EntryPoint[kind], IF paused THEN "resume" ELSE "invoke")

\* axis2_engine_resume_receive and axis2_engine_resume_send: called by a
\* module on a context that one of its handlers paused.
ResumeCall ==
    /\ paused
    /\ \/ kind = "in" /\ Enter("resume_receive", "resume")
       \/ kind = "out" /\ Enter("resume_send", "resume")

-----------------------------------------------------------------------------
(* The loops of axis2_engine_invoke_phases and                              *)
(* axis2_engine_resume_invocation_phases.                                   *)

\* Mutant: the walk runs one entry past the list.
NextPos_PastList(P, p) ==
    LET entry == IF p < 1 THEN 1 ELSE p + 1
    IN  IF p < 0 /\ P.first THEN 0
        ELSE IF entry <= P.size + 1 THEN entry
        ELSE End(P)

\* The next handler position that exists after position p.
NextPos(P, p) ==
    LET entry == IF p < 1 THEN 1 ELSE p + 1
    IN  IF p < 0 /\ P.first THEN 0
        ELSE IF entry <= P.size THEN entry
        ELSE IF p < P.size + 1 /\ P.last THEN P.size + 1
        ELSE End(P)

unmoved == <<kind, server_side, fn, list, mode, status, result, calls, delivered>>

\* The loop condition fails: all phases done, or a handler paused the message.
PhasesEnd ==
    /\ pc = "phases"
    /\ i > Len(Flow[list]) \/ paused
    /\ pc' = "returned" /\ rv' = "SUCCESS"
    /\ UNCHANGED <<unmoved, ctx, i, h, found_match, history>>

\* axis2_phase_invoke is entered: it records the phase name first.
PhaseInvoke ==
    /\ pc = "phases" /\ i <= Len(Flow[list]) /\ ~paused
    /\ mode = "invoke" \/ (found_match /\ Phase.name # paused_phase_name)
    /\ pc' = "phase"
    /\ paused_phase_name' = Phase.name
    /\ h' = NextPos(Phase, -1)
    /\ UNCHANGED <<unmoved, paused, current_handler_index, op_ctx, i,
                   found_match, rv, history>>

\* The resume loop finds the phase named in the context and enters
\* axis2_phase_invoke_start_from_handler at the index kept in the context;
\* an index of -1 reads no handler and the loop moves on to index 0.
PhaseMatch ==
    /\ pc = "phases" /\ i <= Len(Flow[list]) /\ ~paused
    /\ mode = "resume" /\ Phase.name = paused_phase_name
    /\ found_match' = TRUE
    /\ pc' = "from"
    /\ h' = (IF current_handler_index < 0 THEN 0 ELSE current_handler_index) + 1
    /\ UNCHANGED <<unmoved, ctx, i, rv, history>>

\* Mutant: the loop does not move on.
NextPhase_Stuck == i

\* The next phase of the list.
NextPhase == i + 1

\* The resume loop skips a phase before the paused one.
PhaseSkip ==
    /\ pc = "phases" /\ i <= Len(Flow[list]) /\ ~paused
    /\ mode = "resume" /\ ~found_match /\ Phase.name # paused_phase_name
    /\ i' = NextPhase
    /\ UNCHANGED <<unmoved, ctx, pc, h, found_match, rv, history>>

\* The phase function returns to the loop of the list.
PhaseLeave ==
    /\ \/ pc = "phase" /\ (paused \/ h = End(Phase))
       \/ pc = "from" /\ h > Phase.size
    /\ pc' = "phases" /\ i' = NextPhase
    /\ UNCHANGED <<unmoved, ctx, h, found_match, rv, history>>

\* What one handler invocation does to the context and to the history;
\* only the dispatchers of the global in phases install an operation context.
Invoke(o, d) ==
    /\ d => list = "pre"
    /\ ran' = [ran EXCEPT ![<<list, i, h>>] = @ + 1]
    /\ failed' = (failed \/ o = "fail")
    /\ pauser' = IF o = "pause" THEN <<list, i, h>> ELSE pauser
    /\ paused' = (paused \/ o = "pause")
    /\ op_ctx' = (op_ctx \/ d)

\* Mutant: the walk goes on after a failure.
PhaseFailed_Ignored == pc' = "phases" /\ i' = i + 1 /\ UNCHANGED rv

\* A handler of the phase failed: axis2_engine_invoke_phases stops and returns
\* the failure, axis2_engine_resume_invocation_phases goes on.
PhaseFailed ==
    \/ mode = "invoke" /\ pc' = "returned" /\ rv' = "FAILURE" /\ UNCHANGED i
    \/ mode = "resume" /\ pc' = "phases" /\ i' = i + 1 /\ UNCHANGED rv

\* Mutant: the context does not remember the position.
IndexAfter_NotRecorded == current_handler_index

\* What the context remembers of the position: the index of the entry after
\* the one just invoked; first and last handlers leave it alone.
IndexAfter == IF h \in 1..Phase.size THEN h ELSE current_handler_index

\* axis2_phase_invoke: handlers in position order, the first failure ends
\* the phase; after an entry of the list succeeds its index is recorded.
InvokeHandler(o, d) ==
    /\ pc = "phase" /\ ~paused /\ h # End(Phase)
    /\ Invoke(o, d)
    /\ \/ /\ o = "fail"
          /\ PhaseFailed
          /\ UNCHANGED <<h, current_handler_index>>
       \/ /\ o # "fail"
          /\ h' = NextPos(Phase, h)
          /\ current_handler_index' = IndexAfter
          /\ UNCHANGED <<pc, rv, i>>
    /\ UNCHANGED <<unmoved, paused_phase_name, found_match>>

\* axis2_phase_invoke_start_from_handler: the rest of the handler list; the
\* handler's status and the pause flag are not looked at, and the phase's
\* last handler is not reached.
ResumeHandler(o, d) ==
    /\ pc = "from" /\ h <= Phase.size
    /\ Invoke(o, d)
    /\ h' = h + 1
    /\ current_handler_index' = current_handler_index + 1
    /\ UNCHANGED <<unmoved, paused_phase_name, pc, i, found_match, rv>>

-----------------------------------------------------------------------------
(* What each engine function does when a phase list function has returned.  *)

Goto(l, m, s) == /\ StartList(l, m)
                 /\ status' = s
                 /\ UNCHANGED <<paused_phase_name, current_handler_index,
                                op_ctx, result>>

\* On to the receiver or the transport sender.
Deliver(s) == /\ pc' = "deliver" /\ status' = s
              /\ UNCHANGED <<ctx, walk, rv, result>>

\* Mutant: a failure in the operation's flow is overlooked.
ReceiveStops_InFlowIgnored == mode = "invoke" /\ rv = "FAILURE" /\ list # "in"

\* axis2_engine_receive stops at a failed phase: of the global in phases on
\* the server only, of the operation's in flow on either side.
ReceiveStops == /\ mode = "invoke" /\ rv = "FAILURE"
                /\ server_side \/ list = "in"

\* axis2_engine_receive; the resume branch never assigns status.
ReceiveContinue ==
    /\ pc = "returned" /\ fn = "receive"
    /\ LET s == IF mode = "invoke" THEN rv ELSE status
       IN  IF ReceiveStops THEN Return("FAILURE")
           ELSE IF paused THEN Return("SUCCESS")
           ELSE IF list = "pre" /\ op_ctx THEN Goto("in", mode, s)
           ELSE Deliver(s)
    /\ UNCHANGED <<kind, server_side, fn, calls, history, delivered>>

\* axis2_engine_resume_receive: only the global in phases are resumed.
ResumeReceiveContinue ==
    /\ pc = "returned" /\ fn = "resume_receive"
    /\ IF paused THEN Return(status) ELSE Deliver(status)
    /\ UNCHANGED <<kind, server_side, fn, calls, history, delivered>>

\* Mutant: the pause flag is not tested before the sender is called.
HeldBack_Never == FALSE

\* A message is not written to the wire while it is paused.
HeldBack == paused

\* axis2_engine_send: the operation's flow, then the global flow, whose status
\* is dropped.
SendContinue ==
    /\ pc = "returned" /\ fn = "send"
    /\ IF list = "out"
       THEN IF rv = "FAILURE" THEN Return("FAILURE")
                              ELSE Goto("global_out", "invoke", rv)
       ELSE IF HeldBack THEN Return("SUCCESS") ELSE Deliver(status)
    /\ UNCHANGED <<kind, server_side, fn, calls, history, delivered>>

\* axis2_engine_send_fault: the same with the fault flows, but a failed
\* invocation of the operation's flow does not end the call.
SendFaultContinue ==
    /\ pc = "returned" /\ fn = "send_fault"
    /\ IF list = "out_fault"
       THEN IF rv = "FAILURE" /\ mode = "resume"
            THEN Return("FAILURE")
            ELSE Goto("global_out_fault", "invoke", rv)
       ELSE IF HeldBack THEN Return("SUCCESS") ELSE Deliver(status)
    /\ UNCHANGED <<kind, server_side, fn, calls, history, delivered>>

\* axis2_engine_resume_send: only the operation's out flow is resumed.
ResumeSendContinue ==
    /\ pc = "returned" /\ fn = "resume_send"
    /\ IF HeldBack THEN Return(status) ELSE Deliver(status)
    /\ UNCHANGED <<kind, server_side, fn, calls, history, delivered>>

\* axis2_engine_receive_fault: after the global phases the operation context
\* is read again; the fault flow is resumed if the message is paused by then.
ReceiveFaultContinue ==
    /\ pc = "returned" /\ fn = "receive_fault"
    /\ IF list = "pre" /\ op_ctx
       THEN Goto("in_fault", IF paused THEN "resume" ELSE "invoke", status)
       ELSE Return("SUCCESS")
    /\ UNCHANGED <<kind, server_side, fn, calls, history, delivered>>

\* The tail of axis2_engine_receive and axis2_engine_resume_receive.  The
\* must-understand check, a missing receiver and the receiver itself decide
\* the status.
ReceiverInvoke(s) ==
    /\ pc = "deliver" /\ fn \in {"receive", "resume_receive"}
    /\ IF server_side /\ op_ctx
       THEN \/ delivered' = delivered + 1 /\ Return(s)
            \/ UNCHANGED delivered /\ Return("FAILURE")
       ELSE /\ UNCHANGED delivered
            /\ \/ ~server_side /\ Return(status)
               \/ server_side /\ Return("FAILURE")
               \/ server_side /\ fn = "resume_receive" /\ Return("SUCCESS")
    /\ UNCHANGED <<kind, server_side, fn, calls, history>>

\* The tail of the send functions: a missing sender fails the call, except in
\* resume_send where the initial status, FAILURE, is returned; send_fault does
\* not look at what the sender returns.
SenderInvoke(s) ==
    /\ pc = "deliver" /\ fn \in {"send", "resume_send", "send_fault"}
    /\ \/ /\ delivered' = delivered + 1
          /\ Return(IF fn = "send_fault" THEN "SUCCESS" ELSE s)
       \/ UNCHANGED delivered /\ Return("FAILURE")
    /\ UNCHANGED <<kind, server_side, fn, calls, history>>

-----------------------------------------------------------------------------
Step ==
    \/ PhasesEnd \/ PhaseInvoke \/ PhaseMatch \/ PhaseSkip \/ PhaseLeave
    \/ \E o \in Outcome, d \in BOOLEAN : InvokeHandler(o, d)
    \/ \E o \in Outcome, d \in BOOLEAN : ResumeHandler(o, d)
    \/ ReceiveContinue \/ ResumeReceiveContinue \/ SendContinue
    \/ SendFaultContinue \/ ResumeSendContinue \/ ReceiveFaultContinue
    \/ \E s \in Status : ReceiverInvoke(s)
    \/ \E s \in Status : SenderInvoke(s)

Next == Call \/ ResumeCall \/ Step

\* A thread inside the engine keeps running and handlers return; nobody is
\* obliged to call the engine (again).
Spec == Init /\ [][Next]_vars /\ WF_vars(Step)

-----------------------------------------------------------------------------
(* Properties.                                                              *)

\* Types, and the bounds of the two loops: the phase index is in the list and
\* the handler position exists in the phase (axis2_phase_invoke).
TypeOK ==
    /\ kind \in Kinds
    /\ server_side \in BOOLEAN
    /\ paused \in BOOLEAN
    /\ paused_phase_name \in {"NULL"} \cup UNION {Names(l) : l \in FlowNames}
    /\ current_handler_index \in Nat \cup {-1}
    /\ op_ctx \in BOOLEAN
    /\ pc \in {"idle", "phases", "phase", "from", "returned", "deliver", "closed"}
    /\ fn \in {"none", "receive", "send", "receive_fault", "send_fault",
              "resume_receive", "resume_send"}
    /\ list \in FlowNames
    /\ mode \in {"invoke", "resume"}
    /\ i \in Nat \ {0}
    /\ h \in Nat
    /\ found_match \in BOOLEAN
    /\ rv \in Status /\ status \in Status /\ result \in Status \cup {"none"}
    /\ calls \in Nat
    /\ ran \in [Slots -> Nat]
    /\ failed \in BOOLEAN /\ pauser \in Slots \cup {NoSlot}
    /\ delivered \in Nat
    /\ pc \in {"phase", "from"} => i <= Len(Flow[list])
    /\ pc = "phase" => h \in Positions(Phase) \cup {End(Phase)}
    /\ pc = "from" => h > 0

\* Slot t of a list comes no earlier than position (k, p) of the same list.
NotBefore(t, k, p) == t[2] > k \/ (t[2] = k /\ t[3] >= p)

\* No phase of list l has a first handler, so that the index kept in the
\* context always describes the phase named in the context.
NoFirst(l) == \A k \in 1..Len(Flow[l]) : ~Flow[l][k].first

\* A message that no handler paused reaches its message receiver only after
\* every handler of the global and of the operation's in flow was invoked
\* exactly once and none failed (axis2_engine_receive on the server).
ReceiverSeesProcessedMessage ==
    (delivered > 0 /\ kind = "in" /\ pauser = NoSlot) =>
        /\ ~failed
        /\ \A t \in Slots : t[1] \in {"pre", "in"} => ran[t] = 1

\* A message that no handler paused is never walked out of order: when a
\* handler has run, every earlier handler of its list has run
\* (axis2_phase_invoke keeps position order across phases).
NoHandlerSkipped ==
    pauser = NoSlot =>
        \A s, t \in Slots :
            s[1] = t[1] /\ ran[t] > 0 /\ ~NotBefore(s, t[2], t[3]) => ran[s] > 0

\* The receiver or the transport sender is invoked at most once for one
\* message, however often the message is paused and handed in again.
DeliveredAtMostOnce == delivered <= 1

\* A handler of the in flows or of an operation's out flow never runs again,
\* and never after a later handler of the same list, whichever of the engine's
\* entry points resumes the message (phases without a first handler).  This is
\* what phase.c does; the comments of the engine ask for the contrary of the
\* handler that paused (ResumeAsDocumented below).
NeverBackwards ==
    [][\A s \in Slots :
          ran'[s] # ran[s] /\ s[1] \in {"pre", "in", "out"} /\ NoFirst(s[1]) =>
              \A t \in Slots : t[1] = s[1] /\ NotBefore(t, s[2], s[3]) => ran[t] = 0]_vars

\* A message that is paused stays with the module that paused it: no engine
\* function hands a paused message to the receiver or the sender.
NoDeliveryWhilePaused == [][delivered' # delivered => ~paused /\ ~paused']_vars

\* Every engine call returns: none of the phase loops runs forever.
CallsReturn == (pc \notin {"idle", "closed"}) ~> (pc \in {"idle", "closed"})

\* The lists that are walked from the first handler to the last, across calls.
Forward == {l \in {"pre", "in", "out"} : NoFirst(l)}

Life == INSTANCE MessageLife WITH
    Places <- [l \in Forward |-> {<<s[2], s[3]>> : s \in {t \in Slots : t[1] = l}}],
    owner <- CASE pc = "idle" -> "caller" [] pc = "closed" -> "over" [] OTHER -> "engine",
    held <- paused,
    done <- [l \in Forward |-> {<<s[2], s[3]>> : s \in {t \in Slots : t[1] = l /\ ran[t] > 0}}],
    handed <- delivered > 0

\* The engine implements the life of a message that module MessageLife states:
\* a message belongs to its caller or to the engine, which returns it only if
\* it is paused, hands it over at most once and never paused, works forward
\* through the lists however often it is called, and always returns.  That the
\* work goes forward even past the handler that paused is the code's behaviour,
\* not the one documented (ResumeAsDocumented below).
ImplementsMessageLife == Life!Spec

-----------------------------------------------------------------------------
(* What the documentation says of resuming, which the code does not do.     *)

\* engine.c: "The handler which paused the message will be the first one to resume
\* invocation"; axis2_engine.h: resuming "completes invoking all the remaining
\* handlers in the remaining phases".  Of a message that was paused on its way in
\* and reached its receiver this asks for one of the two only: the handler that
\* paused it was invoked again, or every handler of its in flows was invoked.
ResumeAsDocumented ==
    (delivered > 0 /\ kind = "in" /\ pauser # NoSlot) =>
        \/ ran[pauser] > 1
        \/ \A t \in Slots : t[1] \in {"pre", "in"} => ran[t] > 0

=============================================================================
