---------------------------- MODULE PhaseResolver ----------------------------
(***************************************************************************)
(* Engaging modules: src/core/phaseresolver/phase_resolver.c with its      *)
(* callers in conf.c, svc.c and op.c.                                      *)
(*                                                                         *)
(* Engaging a module puts its handlers into phases.  The system phases     *)
(* belong to the configuration and are shared by every service; the user   *)
(* phases belong to an operation.  Operations a module defines are shared  *)
(* too: the same axis2_op_t is added to every service the module is        *)
(* engaged to.  What has been engaged where is remembered in three lists   *)
(* (of the configuration, of each service, of each operation), which the   *)
(* functions update separately and consult before they add handlers again. *)
(*                                                                         *)
(* One system phase, one user phase per operation and one flow stand for   *)
(* the four loops over flows, which are copies of each other.  A step is   *)
(* one operation of a loop over a hash table, in any order, since the      *)
(* table's order is arbitrary.                                             *)
(***************************************************************************)
EXTENDS Phase

CONSTANTS
    Svcs,         \* services that may exist
    Ops,          \* operations, of services and of modules
    Modules,      \* module descriptions
    SvcOps,       \* the operations of each service's services.xml
    ModOps,       \* the operations of each module's module.xml
    ModHandlers,  \* the handlers of each module, in module.xml order
    SystemNames,  \* handlers whose rule names a system phase
    OptionalNames,\* handlers whose rule names a phase axis2.xml may lack
    Rules,        \* the phase rule of every handler
    Dispatchers,  \* what conf.c puts into the system phase at creation
    MaxCalls      \* bound: engage, disengage and add_svc calls

ASSUME ResolverAssumption ==
    /\ SvcOps \in [Svcs -> SUBSET Ops]
    /\ ModOps \in [Modules -> SUBSET Ops]
    /\ ModHandlers \in [Modules -> Seq(Names)]
    /\ Dispatchers \in Seq(Names)
    /\ SystemNames \cup OptionalNames \subseteq Names
    /\ SystemNames \cap OptionalNames = {}
    /\ Rules \in [Names -> PhaseRule]
    /\ MaxCalls \in Nat

\* Handlers are told apart by name alone, so the module files and conf.c have
\* to use different ones.
ASSUME DistinctNames ==
    /\ IsInjective(Dispatchers)
    /\ \A m \in Modules : Range(ModHandlers[m]) \cap Range(Dispatchers) = {}
    /\ \A m, k \in Modules :
          m # k => Range(ModHandlers[m]) \cap Range(ModHandlers[k]) = {}

VARIABLES
    missing,      \* handlers whose rule names a phase axis2.xml lacks
    system,       \* the system phase, of the configuration
    user,         \* the user phase of each operation
    engaged,      \* op->engaged_module_list of each operation, as a set
    svc_engaged,  \* svc->engaged_module_list of each service
    conf_engaged, \* conf->engaged_module_list
    all_svcs,     \* conf->all_svcs
    ops,          \* svc->op_alias_map of each service
    pc,           \* which loop the call is in
    fn,           \* the function called
    mod, svc,     \* its module, and the service it works on
    svcs_left, ops_left, \* what the loops have still to visit
    flag,         \* the local variable `engaged'
    status,       \* what the last call returned
    calls,        \* number of calls so far
    disengaged,   \* history: modules some service disengaged
    overlap,      \* history: modules engaged globally while an operation
                  \* listed them or two services shared an operation
    failed        \* history: some call returned FAILURE half-way

phases == <<system, user>>
lists == <<engaged, svc_engaged, conf_engaged, all_svcs, ops>>
loop == <<fn, mod, svc, svcs_left, ops_left, flag>>
history == <<disengaged, overlap, failed>>
vars == <<missing, phases, lists, pc, loop, status, calls, history>>

\* axis2_conf_create puts the dispatchers at indices 0, 1, ...; services
\* come later.  The resolver's variables of no call have dummy values.
Init ==
    /\ missing \in SUBSET OptionalNames
    /\ system = [EmptyPhase EXCEPT !.handlers = Dispatchers]
    /\ user = [o \in Ops |-> EmptyPhase]
    /\ engaged = [o \in Ops |-> {}]
    /\ svc_engaged = [s \in Svcs |-> <<>>]
    /\ conf_engaged = <<>>
    /\ all_svcs = {}
    /\ ops = SvcOps
    /\ pc = "idle" /\ fn = "none"
    /\ mod = NULL /\ svc = NULL
    /\ svcs_left = {} /\ ops_left = {}
    /\ flag = FALSE
    /\ status = "SUCCESS"
    /\ calls = 0
    /\ disengaged = {} /\ overlap = {}
    /\ failed = FALSE
-----------------------------------------------------------------------------
\* The handlers of a module by the phases their rules name.
SystemHandlers(m) == Range(ModHandlers[m]) \cap SystemNames
UserHandlers(m) == Range(ModHandlers[m]) \ SystemNames

\* The phases a loop over handlers works on, and what it has met so far.
Holders == [system : PhaseState, user : PhaseState, status : {"SUCCESS", "FAILURE"}]
Start(sys, usr) == [system |-> sys, user |-> usr, status |-> "SUCCESS"]

\* Mutant: system-phase handlers are looked up in the operation's holder and
\* the miss is not reported.
HolderAddHandler_WrongHolder(st, n) ==
    LET r == AddHandlerDesc(st.user, n, Rules[n])
    IN  CASE st.status = "FAILURE" \/ n \in SystemNames -> st
          [] st.status = "SUCCESS" /\ n \in missing ->
                [st EXCEPT !.status = "FAILURE"]
          [] OTHER -> [st EXCEPT !.user = r.phase, !.status = r.status]

\* axis2_phase_holder_add_handler for the phase the handler's rule names, in
\* the configuration's holder or in the operation's.
HolderAddHandler(st, n) ==
    LET r == AddHandlerDesc(IF n \in SystemNames THEN st.system ELSE st.user,
                            n, Rules[n])
    IN  CASE st.status = "FAILURE" -> st
          [] st.status = "SUCCESS" /\ n \in missing ->
                [st EXCEPT !.status = "FAILURE"]
          [] st.status = "SUCCESS" /\ n \in SystemNames \ missing ->
                [st EXCEPT !.system = r.phase, !.status = r.status]
          [] OTHER -> [st EXCEPT !.user = r.phase, !.status = r.status]

\* The loop over the handlers of a module: those the caller wants, in order,
\* to the first failure.
AddHandlers(start, m, wanted) ==
    LET h == ModHandlers[m]
        st[k \in 0..Len(h)] ==
            IF k = 0 THEN start
            ELSE IF h[k] \in wanted THEN HolderAddHandler(st[k - 1], h[k])
            ELSE st[k - 1]
    IN  st[Len(h)]

\* axis2_phase_holder_remove_handler, likewise.
HolderRemoveHandler(st, n) ==
    CASE st.status = "FAILURE" -> st
      [] st.status = "SUCCESS" /\ n \in missing ->
            [st EXCEPT !.status = "FAILURE"]
      [] st.status = "SUCCESS" /\ n \in SystemNames \ missing ->
            [st EXCEPT !.system = RemoveHandlerDesc(@, n).phase]
      [] OTHER -> [st EXCEPT !.user = RemoveHandlerDesc(@, n).phase]

RemoveHandlers(start, m) ==
    LET h == ModHandlers[m]
        st[k \in 0..Len(h)] ==
            IF k = 0 THEN start ELSE HolderRemoveHandler(st[k - 1], h[k])
    IN  st[Len(h)]

\* Mutant: the modules of the configuration are forgotten.
ChainModules_SvcOnly(s) == svc_engaged[s]

\* axis2_phase_resolver_build_execution_chains_for_op: the user handlers of
\* everything engaged to the configuration and to the service.
ChainModules(s) == conf_engaged \o svc_engaged[s]
BuildChainsForOp(o, s) ==
    LET ms == ChainModules(s)
        st[k \in 0..Len(ms)] ==
            IF k = 0 THEN Start(system, user[o])
            ELSE AddHandlers(st[k - 1], ms[k], UserHandlers(ms[k]))
    IN  st[Len(ms)]

Return(st) ==
    /\ pc' = "idle"
    /\ status' = st

\* A call gives up in the middle.
Fail ==
    /\ Return("FAILURE")
    /\ failed' = TRUE

NewCall ==
    /\ pc = "idle"
    /\ calls < MaxCalls
    /\ calls' = calls + 1
-----------------------------------------------------------------------------
(* axis2_conf_add_svc: the chains of every operation are built and only the *)
(* status of the last one counts.                                           *)
ConfAddSvc(s) ==
    /\ NewCall
    /\ s \notin all_svcs
    /\ user' = [o \in Ops |-> IF o \in ops[s] THEN BuildChainsForOp(o, s).user
                                              ELSE user[o]]
    /\ engaged' = [o \in Ops |-> IF o \in ops[s]
                                 THEN engaged[o] \cup Range(ChainModules(s))
                                 ELSE engaged[o]]
    /\ \E last \in ops[s] :
          LET st == BuildChainsForOp(last, s).status
          IN  /\ Return(st)
              /\ all_svcs' = IF st = "SUCCESS" THEN all_svcs \cup {s}
                                               ELSE all_svcs
    /\ failed' = (failed \/ \E o \in ops[s] :
                                BuildChainsForOp(o, s).status = "FAILURE")
    /\ UNCHANGED <<system, svc_engaged, conf_engaged, ops, loop, disengaged,
                   overlap>>

(* axis2_conf_engage_module up to the loop over the services: nothing is    *)
(* done, and FAILURE returned, for a module that is engaged already.        *)
ConfEngageModule(m) ==
    /\ NewCall
    /\ IF Contains(conf_engaged, m)
       THEN /\ Return("FAILURE")
            /\ UNCHANGED <<phases, loop, history>>
       ELSE LET r == AddHandlers(Start(system, EmptyPhase), m, SystemHandlers(m))
            IN  /\ system' = r.system
                /\ \/ /\ r.status = "SUCCESS"
                      /\ pc' = "svcs"
                      /\ UNCHANGED <<status, failed>>
                   \/ /\ r.status = "FAILURE"
                      /\ Fail
                /\ fn' = "conf_engage_module"
                /\ mod' = m
                /\ svcs_left' = all_svcs
                /\ overlap' = IF \/ \E o \in Ops : m \in engaged[o]
                                 \/ \E s, t \in all_svcs :
                                       s # t /\ ops[s] \cap ops[t] # {}
                              THEN overlap \cup {m}
                              ELSE overlap
                /\ UNCHANGED <<user, svc, ops_left, flag, disengaged>>
    /\ UNCHANGED lists

\* axis2_phase_resolver_engage_module_globally takes the next service.
NextSvc ==
    /\ pc = "svcs"
    /\ \E s \in svcs_left :
          /\ svc' = s
          /\ svcs_left' = svcs_left \ {s}
    /\ ops_left' = ModOps[mod]
    /\ pc' = "module_ops"
    /\ UNCHANGED <<phases, lists, fn, mod, flag, status, calls, history>>

\* ... and axis2_conf_engage_module lists the module when all are done.
SvcsDone ==
    /\ pc = "svcs"
    /\ svcs_left = {}
    /\ conf_engaged' = Append(conf_engaged, mod)
    /\ Return("SUCCESS")
    /\ UNCHANGED <<phases, engaged, svc_engaged, all_svcs, ops, loop, calls,
                   history>>

(* axis2_svc_engage_module up to axis2_svc_add_module_ops.                  *)
SvcEngageModule(s, m) ==
    /\ NewCall
    /\ s \in all_svcs
    /\ fn' = "svc_engage_module"
    /\ mod' = m
    /\ svc' = s
    /\ ops_left' = ModOps[m]
    /\ pc' = "module_ops"
    /\ UNCHANGED <<phases, lists, svcs_left, flag, status, history>>

(* axis2_svc_add_module_ops: one operation of the module.  Its chains are   *)
(* built, the modules of the configuration and the service are listed       *)
(* whether that works or not, and it is added to the service.               *)
AddModuleOp ==
    /\ pc = "module_ops"
    /\ \E o \in ops_left :
          LET r == BuildChainsForOp(o, svc)
          IN  /\ user' = [user EXCEPT ![o] = r.user]
              /\ engaged' = [engaged EXCEPT ![o] =
                                @ \cup Range(ChainModules(svc))]
              /\ ops_left' = ops_left \ {o}
              /\ \/ /\ r.status = "SUCCESS"
                    /\ ops' = [ops EXCEPT ![svc] = @ \cup {o}]
                    /\ UNCHANGED <<pc, status, failed>>
                 \/ /\ r.status = "FAILURE"
                    /\ Fail
                    /\ UNCHANGED ops
    /\ UNCHANGED <<system, svc_engaged, conf_engaged, all_svcs, fn, mod, svc,
                   svcs_left, flag, calls, disengaged, overlap>>

\* The loop over the operations of the service starts, module operations
\* included.
ModuleOpsDone ==
    /\ pc = "module_ops"
    /\ ops_left = {}
    /\ ops_left' = ops[svc]
    /\ flag' = FALSE
    /\ pc' = "ops"
    /\ UNCHANGED <<phases, lists, fn, mod, svc, svcs_left, status, calls,
                   history>>

\* The variable `engaged' of add_module_handlers_to_user_defined_phases is
\* not reset in the loop: one operation that lists the module hides the rest.
Skips(o) == flag \/ mod \in engaged[o]

(* axis2_phase_resolver_add_module_handlers_to_user_defined_phases: one     *)
(* operation.                                                               *)
EngageOpGlobally(o) ==
    /\ pc = "ops"
    /\ fn = "conf_engage_module"
    /\ flag' = Skips(o)
    /\ IF Skips(o)
       THEN UNCHANGED <<user, engaged, pc, status, failed>>
       ELSE LET r == AddHandlers(Start(system, user[o]), mod, UserHandlers(mod))
            IN  /\ user' = [user EXCEPT ![o] = r.user]
                /\ \/ /\ r.status = "SUCCESS"
                      /\ engaged' = [engaged EXCEPT ![o] = @ \cup {mod}]
                      /\ UNCHANGED <<pc, status, failed>>
                   \/ /\ r.status = "FAILURE"
                      /\ Fail
                      /\ UNCHANGED engaged
    /\ ops_left' = ops_left \ {o}
    /\ UNCHANGED <<system, svc_engaged, conf_engaged, all_svcs, ops, fn, mod,
                   svc, svcs_left, calls, disengaged, overlap>>

(* axis2_phase_resolver_engage_module_to_svc: one operation, to which the   *)
(* module is engaged with axis2_phase_resolver_engage_module_to_op unless   *)
(* it is listed.                                                            *)
EngageOpToSvc(o) ==
    /\ pc = "ops"
    /\ fn = "svc_engage_module"
    /\ IF mod \in engaged[o]
       THEN UNCHANGED <<phases, engaged, pc, status, failed>>
       ELSE LET r == AddHandlers(Start(system, user[o]), mod, Names)
            IN  /\ system' = r.system
                /\ user' = [user EXCEPT ![o] = r.user]
                /\ \/ /\ r.status = "SUCCESS"
                      /\ engaged' = [engaged EXCEPT ![o] = @ \cup {mod}]
                      /\ UNCHANGED <<pc, status, failed>>
                   \/ /\ r.status = "FAILURE"
                      /\ Fail
                      /\ UNCHANGED engaged
    /\ ops_left' = ops_left \ {o}
    /\ UNCHANGED <<svc_engaged, conf_engaged, all_svcs, ops, fn, mod, svc,
                   svcs_left, flag, calls, disengaged, overlap>>

(* axis2_op_engage_module: `need_to_add' is never set, so the operation     *)
(* does not list the module; a failure is ignored.                          *)
OpEngageModule(o, m) ==
    /\ NewCall
    /\ \E s \in all_svcs : o \in ops[s]
    /\ IF m \in engaged[o]
       THEN /\ Return("FAILURE")
            /\ UNCHANGED <<phases, failed>>
       ELSE LET r == AddHandlers(Start(system, user[o]), m, Names)
            IN  /\ system' = r.system
                /\ user' = [user EXCEPT ![o] = r.user]
                /\ Return("SUCCESS")
                /\ failed' = (failed \/ r.status = "FAILURE")
    /\ fn' = "op_engage_module"
    /\ mod' = m
    /\ ops_left' = {o}
    /\ UNCHANGED <<lists, svc, svcs_left, flag, disengaged, overlap>>

(* axis2_svc_disengage_module: svc->engaged_module_list is left alone.      *)
SvcDisengageModule(s, m) ==
    /\ NewCall
    /\ s \in all_svcs
    /\ fn' = "svc_disengage_module"
    /\ mod' = m
    /\ svc' = s
    /\ ops_left' = ops[s]
    /\ pc' = "ops"
    /\ status' = "FAILURE"
    /\ disengaged' = disengaged \cup {m}
    /\ UNCHANGED <<phases, lists, svcs_left, flag, overlap, failed>>

\* Mutant: the operation keeps listing the module.
Unlist_Never(o) == engaged[o]

\* axis2_op_remove_from_engaged_module_list
Unlist(o) == engaged[o] \ {mod}

(* axis2_phase_resolver_disengage_module_from_svc: one operation, with      *)
(* axis2_phase_resolver_disengage_module_from_op.  The system phase is the  *)
(* shared one.                                                              *)
DisengageOp(o) ==
    /\ pc = "ops"
    /\ fn = "svc_disengage_module"
    /\ IF mod \in engaged[o]
       THEN LET r == RemoveHandlers(Start(system, user[o]), mod)
                ok == r.status = "SUCCESS"
            IN  /\ system' = r.system
                /\ user' = [user EXCEPT ![o] = r.user]
                /\ engaged' = [engaged EXCEPT ![o] = IF ok THEN Unlist(o) ELSE @]
                /\ status' = r.status
                /\ pc' = IF ok THEN pc ELSE "idle"
                /\ failed' = (failed \/ ~ok)
       ELSE UNCHANGED <<phases, engaged, status, pc, failed>>
    /\ ops_left' = ops_left \ {o}
    /\ UNCHANGED <<svc_engaged, conf_engaged, all_svcs, ops, fn, mod, svc,
                   svcs_left, flag, calls, disengaged, overlap>>

\* The loop over the operations ends.
OpsDone ==
    /\ pc = "ops"
    /\ ops_left = {}
    /\ \/ /\ fn = "conf_engage_module"
          /\ pc' = "svcs"
          /\ UNCHANGED <<svc_engaged, status>>
       \/ /\ fn = "svc_engage_module"
          /\ svc_engaged' = [svc_engaged EXCEPT ![svc] = Append(@, mod)]
          /\ Return("SUCCESS")
       \/ /\ fn = "svc_disengage_module"
          /\ pc' = "idle"
          /\ UNCHANGED <<svc_engaged, status>>
    /\ UNCHANGED <<phases, engaged, conf_engaged, all_svcs, ops, loop, calls,
                   history>>

Terminated == pc = "idle" /\ calls = MaxCalls /\ UNCHANGED vars

Step ==
    \/ \E s \in Svcs : ConfAddSvc(s)
    \/ \E m \in Modules : ConfEngageModule(m)
    \/ \E s \in Svcs, m \in Modules : SvcEngageModule(s, m)
    \/ \E s \in Svcs, m \in Modules : SvcDisengageModule(s, m)
    \/ \E o \in Ops, m \in Modules : OpEngageModule(o, m)
    \/ NextSvc \/ SvcsDone \/ AddModuleOp \/ ModuleOpsDone
    \/ \E o \in ops_left : EngageOpGlobally(o)
    \/ \E o \in ops_left : EngageOpToSvc(o)
    \/ \E o \in ops_left : DisengageOp(o)
    \/ OpsDone
    \/ Terminated

\* axis2.xml is read once.
Next == Step /\ UNCHANGED missing

Spec == Init /\ [][Next]_vars
-----------------------------------------------------------------------------
\* The variables have their types.
TypeOK ==
    /\ missing \subseteq OptionalNames
    /\ system \in PhaseState
    /\ user \in [Ops -> PhaseState]
    /\ engaged \in [Ops -> SUBSET Modules]
    /\ svc_engaged \in [Svcs -> Seq(Modules)]
    /\ conf_engaged \in Seq(Modules)
    /\ all_svcs \subseteq Svcs
    /\ ops \in [Svcs -> SUBSET Ops]
    /\ pc \in {"idle", "svcs", "module_ops", "ops"}
    /\ fn \in {"none", "conf_engage_module", "svc_engage_module",
               "op_engage_module", "svc_disengage_module"}
    /\ mod \in Modules \cup {NULL} /\ svc \in Svcs \cup {NULL}
    /\ svcs_left \subseteq Svcs /\ ops_left \subseteq Ops
    /\ flag \in BOOLEAN /\ failed \in BOOLEAN
    /\ status \in {"SUCCESS", "FAILURE"}
    /\ calls \in 0..MaxCalls
    /\ disengaged \cup overlap \subseteq Modules

\* As long as no call failed half-way, an operation that lists a module
\* invokes every user-phase handler of it, whichever of the five calls
\* engaged the module and in whatever order the calls came.
EngagedOpsHaveHandlers ==
    ~failed => \A o \in Ops : \A m \in engaged[o] :
                  \A n \in UserHandlers(m) : InPhase(user[o], n)

\* A module no service ever disengaged has its system-phase handlers in the
\* configuration's system phase from the moment some operation lists it.
SystemHandlersPresent ==
    \A o \in Ops : \A m \in engaged[o] \ disengaged :
        \A n \in SystemHandlers(m) : InPhase(system, n)

\* A module without operations of its own, engaged globally while no
\* operation listed it and no two services shared an operation, is listed by
\* every operation of every service deployed then or later, and by module
\* operations added later: build_execution_chains_for_op catches up with what
\* the configuration has engaged.
GlobalEngagementComplete ==
    pc = "idle" /\ ~failed =>
        \A m \in Range(conf_engaged) :
            m \notin disengaged \cup overlap /\ ModOps[m] = {} =>
                \A s \in all_svcs : \A o \in ops[s] : m \in engaged[o]

\* Engaging and disengaging modules never drops, doubles or reorders the
\* dispatchers of the configuration: all are in the chain, and two places of
\* it that hold dispatchers are in the order of the dispatchers.
DispatchersKept ==
    LET d == Dispatchers
        c == Chain(system)
    IN  /\ \A i \in 1..Len(d) : Contains(c, d[i])
        /\ \A i, j \in 1..Len(d) : \A p, q \in 1..Len(c) :
              c[p] = d[i] /\ c[q] = d[j] => (i < j <=> p < q)

\* Each operation that does not list the module gets its handlers when the
\* module is engaged globally, as the comment of
\* add_module_handlers_to_user_defined_phases says.
GlobalEngagementReachesAll ==
    pc = "idle" /\ ~failed =>
        \A m \in Range(conf_engaged) \ disengaged :
            \A s \in all_svcs : \A o \in ops[s] : m \in engaged[o]
=============================================================================
