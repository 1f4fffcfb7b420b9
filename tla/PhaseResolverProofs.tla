------------------------ MODULE PhaseResolverProofs ------------------------
(***************************************************************************)
(* Proofs about PhaseResolver for all services, operations, modules and    *)
(* handlers: the phases hold what the lists of engaged modules say, global *)
(* engagement reaches everything it is asked to reach, and the dispatchers *)
(* of the configuration keep their places.                                 *)
(*                                                                         *)
(* The argument goes along the code: what one call of the phase holder     *)
(* does (HolderAdds, HolderRemoves), what the loops over handlers and over *)
(* modules do (HandlersAdded, HandlersRemoved, ChainsBuilt), what a step   *)
(* does to the phases (PhaseStep), and then the invariants.                *)
(***************************************************************************)
EXTENDS PhaseResolver, PhaseProofs

\* The lists of engaged modules and the loop variables have their types.
ListType ==
    /\ engaged \in [Ops -> SUBSET Modules]
    /\ svc_engaged \in [Svcs -> Seq(Modules)]
    /\ conf_engaged \in Seq(Modules)
    /\ all_svcs \subseteq Svcs
    /\ ops \in [Svcs -> SUBSET Ops]
    /\ svcs_left \subseteq Svcs /\ ops_left \subseteq Ops
    /\ pc # "idle" => mod \in Modules
    /\ pc \in {"module_ops", "ops"} => svc \in Svcs
    /\ pc = "svcs" => fn = "conf_engage_module"
    /\ pc # "idle" /\ fn = "svc_disengage_module" => mod \in disengaged

\* The modules GlobalEngagementComplete speaks of.
Eligible(m) == m \notin disengaged \cup overlap /\ ModOps[m] = {}

\* Every operation, or none, of service s lists module m.
ListedIn(m, s) == \A o \in ops[s] : m \in engaged[o]
UnlistedIn(m, s) == \A o \in ops[s] : m \notin engaged[o]

\* GlobalEngagementComplete holds in the middle of a call, too.
CoverInv ==
    ~failed => \A m \in Range(conf_engaged) :
                  Eligible(m) => \A s \in all_svcs : ListedIn(m, s)

\* The loop of axis2_phase_resolver_engage_module_globally: the services left
\* behind list the module and the ones ahead do not, so that the variable
\* `engaged' of the inner loop is never set.
LoopInv ==
    pc # "idle" /\ fn = "conf_engage_module" /\ ~failed /\ Eligible(mod) =>
        /\ svcs_left \subseteq all_svcs
        /\ \A s, t \in all_svcs : s # t => ops[s] \cap ops[t] = {}
        /\ \A s \in svcs_left : UnlistedIn(mod, s)
        /\ pc = "svcs" => \A s \in all_svcs \ svcs_left : ListedIn(mod, s)
        /\ pc \in {"module_ops", "ops"} =>
              /\ svc \in all_svcs \ svcs_left
              /\ \A s \in all_svcs \ (svcs_left \cup {svc}) : ListedIn(mod, s)
        /\ pc = "module_ops" => ops_left = {} /\ UnlistedIn(mod, svc)
        /\ pc = "ops" =>
              /\ ~flag
              /\ ops_left \subseteq ops[svc]
              /\ \A o \in ops[svc] : mod \in engaged[o] <=> o \notin ops_left

-----------------------------------------------------------------------------
\* The modules a chain is built from are modules, those of the configuration
\* among them.
LEMMA ChainRange ==
    ASSUME ListType, NEW s \in Svcs
    PROVE  /\ Range(conf_engaged) \subseteq Range(ChainModules(s))
           /\ Range(ChainModules(s)) \subseteq Modules
<1>1. conf_engaged \in Seq(Modules) /\ svc_engaged[s] \in Seq(Modules)
  BY DEF ListType
<1>2. ChainModules(s) \in Seq(Modules)
  BY <1>1 DEF ChainModules
<1>3. Range(ChainModules(s)) \subseteq Modules
  BY <1>2 DEF Range
<1>4. ASSUME NEW k \in DOMAIN conf_engaged
      PROVE  k \in DOMAIN ChainModules(s) /\ ChainModules(s)[k] = conf_engaged[k]
  BY <1>1 DEF ChainModules
<1> QED BY <1>3, <1>4 DEF Range

\* Appending a module to a list adds it and no other.
LEMMA AppendRange ==
    ASSUME NEW q \in Seq(Modules), NEW m \in Modules
    PROVE  Range(Append(q, m)) = Range(q) \cup {m}
<1>1. DOMAIN Append(q, m) = 1..(Len(q) + 1) /\ DOMAIN q = 1..Len(q) /\ Len(q) \in Nat
  OBVIOUS
<1>2. \A k \in 1..Len(q) : Append(q, m)[k] = q[k]
  OBVIOUS
<1>3. Append(q, m)[Len(q) + 1] = m
  OBVIOUS
<1>4. ASSUME NEW x PROVE x \in Range(Append(q, m)) <=> x \in Range(q) \cup {m}
  <2>1. x \in Range(Append(q, m)) <=> \E k \in 1..(Len(q) + 1) : x = Append(q, m)[k]
    BY <1>1 DEF Range
  <2>2. x \in Range(q) <=> \E k \in 1..Len(q) : x = q[k]
    BY <1>1 DEF Range
  <2> QED BY <1>1, <1>2, <1>3, <2>1, <2>2
<1> QED BY <1>4

\* No list is out of type before the first call.
LEMMA ListInit == Init => ListType
<1> SUFFICES ASSUME Init PROVE ListType
  OBVIOUS
<1>1. conf_engaged \in Seq(Modules) /\ svc_engaged \in [Svcs -> Seq(Modules)]
  BY DEF Init
<1>2. engaged \in [Ops -> SUBSET Modules] /\ ops \in [Svcs -> SUBSET Ops]
  BY ResolverAssumption DEF Init
<1>3. all_svcs = {} /\ svcs_left = {} /\ ops_left = {} /\ pc = "idle"
  BY DEF Init
<1> QED BY <1>1, <1>2, <1>3 DEF ListType

\* Every action keeps the types of the lists.
LEMMA ListStep ==
    ASSUME ListType, [Next]_vars
    PROVE  ListType'
<1> USE DEF ListType, lists, loop, phases, history
<1>1. ASSUME NEW s \in Svcs, ConfAddSvc(s) PROVE ListType'
  <2>1. Range(ChainModules(s)) \subseteq Modules
    BY ChainRange
  <2>2. engaged' \in [Ops -> SUBSET Modules]
    BY <1>1, <2>1 DEF ConfAddSvc
  <2>3. all_svcs' \subseteq Svcs /\ pc' = "idle"
    BY <1>1 DEF ConfAddSvc, Return
  <2> QED BY <1>1, <2>2, <2>3 DEF ConfAddSvc
<1>2. ASSUME NEW m \in Modules, ConfEngageModule(m) PROVE ListType'
  <2>1. CASE Contains(conf_engaged, m)
    BY <1>2, <2>1 DEF ConfEngageModule, Return, NewCall
  <2>2. CASE ~Contains(conf_engaged, m)
    BY <1>2, <2>2 DEF ConfEngageModule, Fail, Return, NewCall
  <2> QED BY <2>1, <2>2
<1>3. ASSUME NEW s \in Svcs, NEW m \in Modules,
             SvcEngageModule(s, m) \/ SvcDisengageModule(s, m)
      PROVE  ListType'
  <2>1. ModOps[m] \subseteq Ops
    BY ResolverAssumption
  <2> QED BY <1>3, <2>1 DEF SvcEngageModule, SvcDisengageModule
<1>4. ASSUME NEW o \in Ops, NEW m \in Modules, OpEngageModule(o, m) PROVE ListType'
  BY <1>4 DEF OpEngageModule, Return, NewCall
<1>5. CASE NextSvc
  <2>1. ModOps[mod] \subseteq Ops
    BY <1>5, ResolverAssumption DEF NextSvc
  <2> QED BY <1>5, <2>1 DEF NextSvc
<1>6. CASE SvcsDone
  BY <1>6 DEF SvcsDone, Return
<1>7. CASE AddModuleOp
  <2>1. PICK o \in ops_left :
          /\ engaged' = [engaged EXCEPT ![o] = @ \cup Range(ChainModules(svc))]
          /\ ops_left' = ops_left \ {o}
          /\ \/ ops' = [ops EXCEPT ![svc] = @ \cup {o}] /\ UNCHANGED pc
             \/ pc' = "idle" /\ UNCHANGED ops
    BY <1>7 DEF AddModuleOp, Fail, Return
  <2>2. svc \in Svcs /\ Range(ChainModules(svc)) \subseteq Modules
    BY <1>7, ChainRange DEF AddModuleOp
  <2>3. UNCHANGED <<svc_engaged, conf_engaged, all_svcs, fn, mod, svc, svcs_left, disengaged>>
        /\ pc = "module_ops"
    BY <1>7 DEF AddModuleOp
  <2>4. engaged' \in [Ops -> SUBSET Modules]
    BY <2>1, <2>2
  <2>5. ops' \in [Svcs -> SUBSET Ops]
    BY <2>1, <2>2
  <2> QED BY <2>1, <2>2, <2>3, <2>4, <2>5
<1>8. CASE ModuleOpsDone
  BY <1>8 DEF ModuleOpsDone
<1>9. ASSUME NEW o \in ops_left, EngageOpGlobally(o) \/ EngageOpToSvc(o) PROVE ListType'
  <2>1. /\ pc = "ops" /\ ops_left' = ops_left \ {o} /\ pc' \in {"ops", "idle"}
        /\ engaged' = engaged \/ engaged' = [engaged EXCEPT ![o] = @ \cup {mod}]
        /\ UNCHANGED <<svc_engaged, conf_engaged, all_svcs, ops, fn, mod, svc, svcs_left,
                       disengaged>>
    BY <1>9 DEF EngageOpGlobally, EngageOpToSvc, Fail, Return
  <2>2. engaged' \in [Ops -> SUBSET Modules]
    BY <2>1
  <2> QED BY <2>1, <2>2
<1>10. ASSUME NEW o \in ops_left, DisengageOp(o) PROVE ListType'
  <2>1. /\ pc = "ops" /\ ops_left' = ops_left \ {o} /\ pc' \in {"ops", "idle"}
        /\ UNCHANGED <<svc_engaged, conf_engaged, all_svcs, ops, fn, mod, svc, svcs_left,
                       disengaged>>
    BY <1>10 DEF DisengageOp
  <2>2. \/ engaged' = engaged
        \/ engaged' = [engaged EXCEPT ![o] = Unlist(o)]
    BY <1>10 DEF DisengageOp
  <2>3. engaged' \in [Ops -> SUBSET Modules]
    BY <2>2 DEF Unlist
  <2> QED BY <2>1, <2>3
<1>11. CASE OpsDone
  <2>1. /\ pc = "ops" /\ pc' \in {"idle", "svcs"} /\ (pc' = "svcs" => fn = "conf_engage_module")
        /\ UNCHANGED <<engaged, conf_engaged, all_svcs, ops, fn, mod, svc, svcs_left, ops_left,
                       disengaged>>
    BY <1>11 DEF OpsDone, Return
  <2>2. \/ svc_engaged' = svc_engaged
        \/ svc_engaged' = [svc_engaged EXCEPT ![svc] = Append(@, mod)]
    BY <1>11 DEF OpsDone
  <2>a. Append(svc_engaged[svc], mod) \in Seq(Modules)
    BY <2>1
  <2>3. svc_engaged' \in [Svcs -> Seq(Modules)]
    BY <2>1, <2>2, <2>a
  <2> QED BY <2>1, <2>3
<1>12. CASE Terminated \/ UNCHANGED vars
  BY <1>12 DEF Terminated, vars
<1> QED BY <1>1, <1>2, <1>3, <1>4, <1>5, <1>6, <1>7, <1>8, <1>9, <1>10, <1>11, <1>12
        DEF Next, Step

-----------------------------------------------------------------------------
(* Which modules are listed.                                                *)

\* What is listed stays listed, unless the module is being disengaged.
Keeps == \A o \in Ops : \A m \in engaged[o] : m \in engaged'[o] \/ m \in disengaged'

\* A step that adds no operation, service or module to what must be covered.
LEMMA CoverKept ==
    ASSUME ListType, CoverInv, Keeps, failed => failed',
           UNCHANGED <<conf_engaged, all_svcs, ops>>,
           disengaged \subseteq disengaged', overlap \subseteq overlap'
    PROVE  CoverInv'
<1> SUFFICES ASSUME ~failed', NEW m \in Range(conf_engaged), Eligible(m)',
                    NEW s \in all_svcs, NEW o \in ops[s]
             PROVE  m \in engaged'[o]
  BY DEF CoverInv, ListedIn
<1>1. ~failed /\ Eligible(m) /\ m \notin disengaged'
  BY DEF Eligible
<1>2. m \in engaged[o] /\ o \in Ops
  BY <1>1 DEF CoverInv, ListedIn, ListType
<1> QED BY <1>1, <1>2 DEF Keeps

\* Engaging a module to an operation, or not, keeps what is listed.
LEMMA EngagedGrows ==
    ASSUME ListType, NEW o \in Ops, NEW M,
           engaged' = engaged \/ engaged' = [engaged EXCEPT ![o] = @ \cup M]
    PROVE  Keeps /\ \A p \in Ops : p # o => engaged'[p] = engaged[p]
  BY DEF Keeps, ListType

\* Nothing is engaged before the first call.
LEMMA CoverInit == Init => CoverInv /\ LoopInv
  BY DEF Init, CoverInv, LoopInv, Range

\* Every step keeps every operation covered.
LEMMA CoverStep ==
    ASSUME ListType, CoverInv, LoopInv, [Next]_vars
    PROVE  CoverInv'
<1> USE DEF lists, loop, phases, history
<1>1. ASSUME NEW s \in Svcs, ConfAddSvc(s) PROVE CoverInv'
  <2>1. /\ engaged' = [o \in Ops |-> IF o \in ops[s]
                                     THEN engaged[o] \cup Range(ChainModules(s))
                                     ELSE engaged[o]]
        /\ all_svcs' \subseteq all_svcs \cup {s} /\ (failed => failed')
        /\ UNCHANGED <<conf_engaged, ops, disengaged, overlap>>
    BY <1>1 DEF ConfAddSvc
  <2> SUFFICES ASSUME ~failed', NEW m \in Range(conf_engaged), Eligible(m),
                      NEW t \in all_svcs', NEW o \in ops[t]
               PROVE  m \in engaged'[o]
    BY <2>1 DEF CoverInv, ListedIn, Eligible
  <2>2. o \in Ops /\ ~failed
    BY <2>1 DEF ListType
  <2>3. CASE o \in ops[s]
    BY <2>1, <2>2, <2>3, ChainRange
  <2>4. CASE o \notin ops[s]
    BY <2>1, <2>2, <2>4 DEF CoverInv, ListedIn
  <2> QED BY <2>3, <2>4
<1>2. ASSUME NEW m \in Modules, ConfEngageModule(m) PROVE CoverInv'
  <2>1. /\ UNCHANGED <<engaged, conf_engaged, all_svcs, ops>> /\ (failed => failed')
        /\ UNCHANGED disengaged /\ overlap \subseteq overlap'
    BY <1>2 DEF ConfEngageModule, Fail
  <2> QED BY <2>1, CoverKept DEF Keeps
<1>3. ASSUME NEW s \in Svcs, NEW m \in Modules,
             SvcEngageModule(s, m) \/ SvcDisengageModule(s, m)
      PROVE  CoverInv'
  <2>1. /\ UNCHANGED <<engaged, conf_engaged, all_svcs, ops, failed, overlap>>
        /\ disengaged \subseteq disengaged'
    BY <1>3 DEF SvcEngageModule, SvcDisengageModule
  <2> QED BY <2>1, CoverKept DEF Keeps
<1>4. ASSUME NEW o \in Ops, NEW m \in Modules, OpEngageModule(o, m) PROVE CoverInv'
  <2>1. UNCHANGED <<engaged, conf_engaged, all_svcs, ops, disengaged, overlap>>
        /\ (failed => failed')
    BY <1>4 DEF OpEngageModule
  <2> QED BY <2>1, CoverKept DEF Keeps
<1>5. CASE NextSvc \/ ModuleOpsDone \/ OpsDone \/ Terminated \/ UNCHANGED vars
  <2>1. UNCHANGED <<engaged, conf_engaged, all_svcs, ops, failed, disengaged, overlap>>
    BY <1>5 DEF NextSvc, ModuleOpsDone, OpsDone, Terminated, vars
  <2> QED BY <2>1, CoverKept DEF Keeps
<1>6. CASE SvcsDone
  <2>1. /\ UNCHANGED <<engaged, all_svcs, ops, failed, disengaged, overlap>>
        /\ conf_engaged' = Append(conf_engaged, mod) /\ pc = "svcs" /\ svcs_left = {}
    BY <1>6 DEF SvcsDone
  <2>2. Range(conf_engaged') = Range(conf_engaged) \cup {mod}
    BY <2>1, AppendRange DEF ListType
  <2>3. ~failed /\ Eligible(mod) => \A s \in all_svcs : ListedIn(mod, s)
    BY <2>1 DEF LoopInv, ListType
  <2> QED BY <2>1, <2>2, <2>3 DEF CoverInv, Eligible, ListedIn
<1>7. CASE AddModuleOp
  <2>1. PICK o \in ops_left :
          /\ engaged' = [engaged EXCEPT ![o] = @ \cup Range(ChainModules(svc))]
          /\ ops' = [ops EXCEPT ![svc] = @ \cup {o}] \/ ops' = ops
    BY <1>7 DEF AddModuleOp
  <2>2. /\ UNCHANGED <<conf_engaged, all_svcs, disengaged, overlap>> /\ (failed => failed')
        /\ pc = "module_ops"
    BY <1>7 DEF AddModuleOp, Fail
  <2>3. svc \in Svcs /\ o \in Ops
    BY <2>2 DEF ListType
  <2> SUFFICES ASSUME ~failed', NEW m \in Range(conf_engaged), Eligible(m),
                      NEW t \in all_svcs, NEW p \in ops'[t]
               PROVE  m \in engaged'[p]
    BY <2>2 DEF CoverInv, ListedIn, Eligible
  <2>4. CASE p = o
    BY <2>1, <2>3, <2>4, ChainRange DEF ListType
  <2>5. CASE p # o
    <3>1. p \in ops[t] /\ p \in Ops
      BY <2>1, <2>3, <2>5 DEF ListType
    <3> QED BY <2>1, <2>2, <2>5, <3>1 DEF CoverInv, ListedIn, ListType
  <2> QED BY <2>4, <2>5
<1>8. ASSUME NEW o \in ops_left, EngageOpGlobally(o) \/ EngageOpToSvc(o) PROVE CoverInv'
  <2>1. /\ engaged' = engaged \/ engaged' = [engaged EXCEPT ![o] = @ \cup {mod}]
        /\ UNCHANGED <<conf_engaged, all_svcs, ops, disengaged, overlap>>
        /\ (failed => failed')
    BY <1>8 DEF EngageOpGlobally, EngageOpToSvc, Fail
  <2>2. Keeps
    BY <2>1, EngagedGrows DEF ListType
  <2> QED BY <2>1, <2>2, CoverKept
<1>9. ASSUME NEW o \in ops_left, DisengageOp(o) PROVE CoverInv'
  <2>1. /\ UNCHANGED <<conf_engaged, all_svcs, ops, disengaged, overlap>>
        /\ (failed => failed') /\ fn = "svc_disengage_module" /\ pc = "ops"
    BY <1>9 DEF DisengageOp
  <2>2. engaged' = engaged \/ engaged' = [engaged EXCEPT ![o] = engaged[o] \ {mod}]
    BY <1>9 DEF DisengageOp, Unlist, ListType
  <2>3. mod \in disengaged
    BY <2>1 DEF ListType
  <2>4. Keeps
    BY <2>1, <2>2, <2>3 DEF Keeps, ListType
  <2> QED BY <2>1, <2>4, CoverKept
<1> QED BY <1>1, <1>2, <1>3, <1>4, <1>5, <1>6, <1>7, <1>8, <1>9 DEF Next, Step

\* The variables of the loop do not change.
LEMMA LoopKept ==
    ASSUME LoopInv, UNCHANGED <<engaged, all_svcs, ops, pc, fn, mod, svc, svcs_left, ops_left,
                                flag>>,
           failed => failed', disengaged \subseteq disengaged', overlap \subseteq overlap'
    PROVE  LoopInv'
  BY DEF LoopInv, Eligible, ListedIn, UnlistedIn

\* Every step of the loop brings it forward.
LEMMA LoopStep ==
    ASSUME ListType, LoopInv, [Next]_vars
    PROVE  LoopInv'
<1> USE DEF lists, loop, phases, history
<1>0. pc' = "idle" => LoopInv'
  BY DEF LoopInv
<1>1. ASSUME NEW s \in Svcs, ConfAddSvc(s) PROVE LoopInv'
  BY <1>0, <1>1 DEF ConfAddSvc, Return
<1>2. ASSUME NEW m \in Modules, ConfEngageModule(m) PROVE LoopInv'
  <2>1. CASE pc' = "idle"
    BY <1>0, <2>1
  <2>2. CASE pc' # "idle"
    <3>1. /\ pc' = "svcs" /\ mod' = m /\ svcs_left' = all_svcs
          /\ UNCHANGED <<engaged, all_svcs, ops, disengaged>>
          /\ overlap' = IF \/ \E o \in Ops : m \in engaged[o]
                           \/ \E s, t \in all_svcs : s # t /\ ops[s] \cap ops[t] # {}
                        THEN overlap \cup {m} ELSE overlap
      BY <1>2, <2>2 DEF ConfEngageModule, Fail, Return
    <3>2. ASSUME Eligible(m)'
          PROVE  /\ \A o \in Ops : m \notin engaged[o]
                 /\ \A s, t \in all_svcs : s # t => ops[s] \cap ops[t] = {}
      BY <3>1, <3>2 DEF Eligible
    <3>3. \A s \in all_svcs : ops[s] \subseteq Ops
      BY DEF ListType
    <3> QED BY <3>1, <3>2, <3>3 DEF LoopInv, UnlistedIn, Eligible
  <2> QED BY <2>1, <2>2
<1>3. ASSUME NEW s \in Svcs, NEW m \in Modules,
             SvcEngageModule(s, m) \/ SvcDisengageModule(s, m)
      PROVE  LoopInv'
  BY <1>3 DEF SvcEngageModule, SvcDisengageModule, LoopInv
<1>4. ASSUME NEW o \in Ops, NEW m \in Modules, OpEngageModule(o, m) PROVE LoopInv'
  BY <1>4 DEF OpEngageModule, LoopInv
<1>5. CASE NextSvc
  <2>1. PICK s \in svcs_left : svc' = s /\ svcs_left' = svcs_left \ {s}
    BY <1>5 DEF NextSvc
  <2>2. /\ pc = "svcs" /\ pc' = "module_ops" /\ ops_left' = ModOps[mod]
        /\ UNCHANGED <<engaged, all_svcs, ops, fn, mod, failed, disengaged, overlap>>
    BY <1>5 DEF NextSvc
  <2>3. ASSUME fn = "conf_engage_module", ~failed, Eligible(mod)
        PROVE  /\ svcs_left \subseteq all_svcs
               /\ \A t, u \in all_svcs : t # u => ops[t] \cap ops[u] = {}
               /\ \A t \in svcs_left : UnlistedIn(mod, t)
               /\ \A t \in all_svcs \ svcs_left : ListedIn(mod, t)
               /\ ModOps[mod] = {}
    BY <2>2, <2>3 DEF LoopInv, Eligible
  <2> QED BY <2>1, <2>2, <2>3 DEF LoopInv, Eligible, ListedIn, UnlistedIn
<1>6. CASE SvcsDone
  BY <1>0, <1>6 DEF SvcsDone, Return
<1>7. CASE AddModuleOp
  <2>1. /\ pc = "module_ops" /\ ops_left # {}
        /\ UNCHANGED <<fn, mod, disengaged, overlap>> /\ (failed => failed')
    BY <1>7 DEF AddModuleOp, Fail
  <2>2. ~(fn = "conf_engage_module" /\ ~failed /\ Eligible(mod))
    BY <2>1 DEF LoopInv
  <2> QED BY <2>1, <2>2 DEF LoopInv, Eligible
<1>8. CASE ModuleOpsDone
  <2>1. /\ pc = "module_ops" /\ pc' = "ops" /\ ops_left' = ops[svc] /\ flag' = FALSE
        /\ UNCHANGED <<engaged, all_svcs, ops, fn, mod, svc, svcs_left, failed,
                       disengaged, overlap>>
    BY <1>8 DEF ModuleOpsDone
  <2>2. ASSUME fn = "conf_engage_module", ~failed, Eligible(mod)
        PROVE  /\ svcs_left \subseteq all_svcs
               /\ \A t, u \in all_svcs : t # u => ops[t] \cap ops[u] = {}
               /\ \A t \in svcs_left : UnlistedIn(mod, t)
               /\ svc \in all_svcs \ svcs_left
               /\ \A t \in all_svcs \ (svcs_left \cup {svc}) : ListedIn(mod, t)
               /\ \A o \in ops[svc] : mod \notin engaged[o]
    BY <2>1, <2>2 DEF LoopInv, UnlistedIn
  <2> QED BY <2>1, <2>2 DEF LoopInv, Eligible, ListedIn, UnlistedIn
<1>9. ASSUME NEW o \in ops_left, EngageOpGlobally(o) PROVE LoopInv'
  <2>1. /\ pc = "ops" /\ fn = "conf_engage_module" /\ ops_left' = ops_left \ {o}
        /\ flag' = Skips(o)
        /\ UNCHANGED <<all_svcs, ops, fn, mod, svc, svcs_left, disengaged, overlap>>
        /\ (failed => failed')
    BY <1>9 DEF EngageOpGlobally, Fail
  <2>2. CASE pc' = "idle"
    BY <1>0, <2>2
  <2>3. CASE pc' # "idle" /\ ~failed /\ Eligible(mod)
    <3>1. /\ svcs_left \subseteq all_svcs /\ svc \in all_svcs \ svcs_left /\ ~flag
          /\ \A t, u \in all_svcs : t # u => ops[t] \cap ops[u] = {}
          /\ \A t \in svcs_left : UnlistedIn(mod, t)
          /\ \A t \in all_svcs \ (svcs_left \cup {svc}) : ListedIn(mod, t)
          /\ ops_left \subseteq ops[svc]
          /\ \A p \in ops[svc] : mod \in engaged[p] <=> p \notin ops_left
      BY <2>1, <2>3 DEF LoopInv
    <3>2. ~Skips(o)
      BY <3>1 DEF Skips
    <3>3. engaged' = [engaged EXCEPT ![o] = @ \cup {mod}] /\ pc' = "ops" /\ ~flag'
      BY <1>9, <2>1, <2>3, <3>2 DEF EngageOpGlobally, Fail, Return
    <3>4. \A p \in Ops : mod \in engaged'[p] <=> mod \in engaged[p] \/ p = o
      BY <3>3 DEF ListType
    <3>5. (\A t \in all_svcs : ops[t] \subseteq Ops) /\ o \in Ops
      BY DEF ListType
    <3>6. \A t \in svcs_left : \A p \in ops[t] : mod \notin engaged'[p]
      BY <3>1, <3>4, <3>5 DEF UnlistedIn
    <3>7. \A t \in all_svcs \ (svcs_left \cup {svc}) : \A p \in ops[t] : mod \in engaged'[p]
      BY <3>1, <3>4, <3>5 DEF ListedIn
    <3>8. \A p \in ops[svc] : mod \in engaged'[p] <=> p \notin ops_left \ {o}
      BY <3>1, <3>4, <3>5
    <3> QED BY <2>1, <3>1, <3>3, <3>6, <3>7, <3>8 DEF LoopInv, ListedIn, UnlistedIn
  <2>4. CASE failed \/ ~Eligible(mod)
    BY <2>1, <2>4 DEF LoopInv, Eligible
  <2> QED BY <2>2, <2>3, <2>4
<1>10. ASSUME NEW o \in ops_left, EngageOpToSvc(o) \/ DisengageOp(o) PROVE LoopInv'
  BY <1>10 DEF EngageOpToSvc, DisengageOp, LoopInv
<1>11. CASE OpsDone
  <2>1. CASE pc' = "idle"
    BY <1>0, <2>1
  <2>2. CASE pc' # "idle"
    <3>1. /\ pc = "ops" /\ pc' = "svcs" /\ ops_left = {} /\ fn = "conf_engage_module"
          /\ UNCHANGED <<engaged, all_svcs, ops, fn, mod, svc, svcs_left, failed,
                         disengaged, overlap>>
      BY <1>11, <2>2 DEF OpsDone, Return
    <3>2. ASSUME ~failed, Eligible(mod)
          PROVE  /\ svcs_left \subseteq all_svcs
                 /\ \A t, u \in all_svcs : t # u => ops[t] \cap ops[u] = {}
                 /\ \A t \in svcs_left : UnlistedIn(mod, t)
                 /\ \A t \in all_svcs \ svcs_left : ListedIn(mod, t)
      BY <3>1, <3>2 DEF LoopInv, ListedIn
    <3> QED BY <3>1, <3>2 DEF LoopInv, Eligible, ListedIn, UnlistedIn
  <2> QED BY <2>1, <2>2
<1>12. CASE Terminated \/ UNCHANGED vars
  BY <1>12, LoopKept DEF Terminated, vars
<1> QED BY <1>1, <1>2, <1>3, <1>4, <1>5, <1>6, <1>7, <1>8, <1>9, <1>10, <1>11, <1>12
        DEF Next, Step

\* Whatever is deployed and engaged in whatever order, a module engaged
\* globally under the conditions GlobalEngagementComplete states is listed by
\* every operation of every service.
THEOREM GlobalEngagementReaches == Spec => []GlobalEngagementComplete
<1> DEFINE IInv == ListType /\ CoverInv /\ LoopInv
<1>1. Init => IInv
  BY ListInit, CoverInit
<1>2. IInv /\ [Next]_vars => IInv'
  BY ListStep, CoverStep, LoopStep
<1>3. IInv => GlobalEngagementComplete
  BY DEF CoverInv, GlobalEngagementComplete, Eligible, ListedIn
<1> HIDE DEF IInv
<1> QED BY <1>1, <1>2, <1>3, PTL DEF Spec
-----------------------------------------------------------------------------
(* What the loops over handlers compute.                                    *)

\* The phase a handler is put into.
Side(x, n) == IF n \in SystemNames THEN x.system ELSE x.user

\* Between x and y no handler left its phase, and the dispatchers stayed.
Grows(x, y) ==
    /\ \A z \in Names : InPhase(x.system, z) => InPhase(y.system, z)
    /\ \A z \in Names : InPhase(x.user, z) => InPhase(y.user, z)
    /\ InOrder(Dispatchers, Chain(x.system)) => InOrder(Dispatchers, Chain(y.system))
    /\ y.status = "SUCCESS" => x.status = "SUCCESS"

\* A handler of a module is no dispatcher.
LEMMA NotDispatcher ==
    ASSUME NEW m \in Modules, NEW n \in Range(ModHandlers[m])
    PROVE  n \in Names /\ \A i \in 1..Len(Dispatchers) : Dispatchers[i] # n
<1>1. Dispatchers \in Seq(Names) /\ ModHandlers[m] \in Seq(Names)
  BY ResolverAssumption
<1>2. n \in Names
  BY <1>1 DEF Range
<1>3. ASSUME NEW i \in 1..Len(Dispatchers) PROVE Dispatchers[i] \in Range(Dispatchers)
  BY <1>1 DEF Range
<1> QED BY <1>2, <1>3, DistinctNames

\* One call of axis2_phase_holder_add_handler.
LEMMA HolderAdds ==
    ASSUME NEW x \in Holders, NEW m \in Modules, NEW n \in Range(ModHandlers[m])
    PROVE  LET y == HolderAddHandler(x, n)
           IN  /\ y \in Holders /\ Grows(x, y)
               /\ y.status = "SUCCESS" => InPhase(Side(y, n), n)
<1> DEFINE P == IF n \in SystemNames THEN x.system ELSE x.user
           R == AddHandlerDesc(P, n, Rules[n])
           y == HolderAddHandler(x, n)
<1>1. n \in Names /\ \A i \in 1..Len(Dispatchers) : Dispatchers[i] # n
  BY NotDispatcher
<1>2. x.system \in PhaseState /\ x.user \in PhaseState
      /\ x.status \in {"SUCCESS", "FAILURE"}
  BY DEF Holders
<1>3. P \in PhaseState /\ Rules[n] \in PhaseRule
  BY <1>1, <1>2, ResolverAssumption
<1>4. /\ R.phase \in PhaseState /\ R.status \in {"SUCCESS", "FAILURE"}
      /\ R.status = "SUCCESS" => InPhase(R.phase, n)
      /\ \A z \in Names : InPhase(P, z) => InPhase(R.phase, z)
      /\ \/ Chain(R.phase) = Chain(P)
         \/ \E k : Inserted(Chain(P), Chain(R.phase), k, n)
  BY <1>1, <1>3, PhaseAdd
<1>5. y = CASE x.status = "FAILURE" -> x
            [] x.status = "SUCCESS" /\ n \in missing -> [x EXCEPT !.status = "FAILURE"]
            [] x.status = "SUCCESS" /\ n \in SystemNames \ missing ->
                  [x EXCEPT !.system = R.phase, !.status = R.status]
            [] OTHER -> [x EXCEPT !.user = R.phase, !.status = R.status]
  BY DEF HolderAddHandler
<1>6. Dispatchers \in Seq(Names)
  BY ResolverAssumption
<1>7. InOrder(Dispatchers, Chain(P)) => InOrder(Dispatchers, Chain(R.phase))
  BY <1>1, <1>4, <1>6, InOrderInserted
<1> HIDE DEF R, y
<1>8. CASE x.status = "FAILURE"
  BY <1>5, <1>8 DEF Grows, y
<1>9. CASE x.status = "SUCCESS" /\ n \in missing
  <2>1. y = [x EXCEPT !.status = "FAILURE"]
    BY <1>5, <1>9
  <2>2. y \in Holders
    BY <2>1, Zenon DEF Holders
  <2>3. y.system = x.system /\ y.user = x.user /\ y.status = "FAILURE"
    BY <2>1 DEF Holders
  <2> QED BY <2>2, <2>3 DEF Grows, y
<1>10. CASE x.status = "SUCCESS" /\ n \notin missing /\ n \in SystemNames
  <2>1. y = [x EXCEPT !.system = R.phase, !.status = R.status] /\ P = x.system
    BY <1>5, <1>10
  <2>2. y \in Holders
    BY <1>4, <2>1, Zenon DEF Holders
  <2>3. y.system = R.phase /\ y.user = x.user /\ y.status = R.status
    BY <2>1 DEF Holders
  <2>4. Grows(x, y)
    BY <1>4, <1>7, <1>10, <2>1, <2>3 DEF Grows
  <2> QED BY <1>4, <1>10, <2>2, <2>3, <2>4 DEF Side, y
<1>11. CASE x.status = "SUCCESS" /\ n \notin missing /\ n \notin SystemNames
  <2>1. y = [x EXCEPT !.user = R.phase, !.status = R.status] /\ P = x.user
    BY <1>5, <1>11
  <2>2. y \in Holders
    BY <1>4, <2>1, Zenon DEF Holders
  <2>3. y.user = R.phase /\ y.system = x.system /\ y.status = R.status
    BY <2>1 DEF Holders
  <2>4. Grows(x, y)
    BY <1>4, <1>11, <2>1, <2>3 DEF Grows
  <2> QED BY <1>4, <1>11, <2>2, <2>3, <2>4 DEF Side, y
<1> QED BY <1>2, <1>8, <1>9, <1>10, <1>11

\* One pass of the loop of AddHandlers.
AddNext(x, n, wanted) == IF n \in wanted THEN HolderAddHandler(x, n) ELSE x

\* The states st of the loop of AddHandlers, from start to its result.
AddStates(st, start, m, wanted) ==
    /\ st[0] = start
    /\ \A k \in 1..Len(ModHandlers[m]) :
          st[k] = AddNext(st[k - 1], ModHandlers[m][k], wanted)
    /\ AddHandlers(start, m, wanted) = st[Len(ModHandlers[m])]

\* The loop of AddHandlers has the states its definition gives it.
LEMMA AddLoop ==
    ASSUME NEW start, NEW m \in Modules, NEW wanted
    PROVE  \E st : AddStates(st, start, m, wanted)
<1> DEFINE h == ModHandlers[m]
           Nxt(k, x) == IF h[k] \in wanted THEN HolderAddHandler(x, h[k]) ELSE x
           Good(g, n) == g = [k \in 0..n |-> IF k = 0 THEN start
                                             ELSE IF h[k] \in wanted
                                                  THEN HolderAddHandler(g[k - 1], h[k])
                                             ELSE g[k - 1]]
           S == {n \in 0..Len(h) : \E g : Good(g, n)}
<1>1. Len(h) \in Nat
  BY ResolverAssumption
<1>2. 0 \in S
  <2>1. Good([k \in 0..0 |-> start], 0)
    OBVIOUS
  <2>2. 0 \in 0..Len(h)
    BY <1>1
  <2> HIDE DEF Good
  <2> QED BY <2>1, <2>2
<1>3. ASSUME NEW n \in 1..Len(h), n - 1 \in S PROVE n \in S
  <2>1. PICK g : Good(g, n - 1)
    BY <1>3
  <2> DEFINE e == [k \in 0..n |-> IF k = n THEN Nxt(n, g[n - 1]) ELSE g[k]]
  <2>2. \A k \in 0..(n - 1) : g[k] = IF k = 0 THEN start ELSE Nxt(k, g[k - 1])
    BY <2>1
  <2>3. \A k \in 0..n : e[k] = IF k = 0 THEN start ELSE Nxt(k, e[k - 1])
    BY <1>1, <2>2
  <2>4. Good(e, n)
    BY <2>3
  <2>5. n \in 0..Len(h)
    BY <1>1
  <2> HIDE DEF Good, e
  <2> QED BY <2>4, <2>5
<1>4. \E g : Good(g, Len(h))
  <2>1. \A k \in 0..Len(h) : k \in S
    <3> HIDE DEF S
    <3> QED BY <1>1, <1>2, <1>3, UpTo
  <2>2. Len(h) \in 0..Len(h)
    BY <1>1
  <2> HIDE DEF Good
  <2> QED BY <2>1, <2>2
<1> DEFINE st == CHOOSE g : Good(g, Len(h))
<1>5. Good(st, Len(h))
  BY <1>4
<1>6. AddHandlers(start, m, wanted) = st[Len(h)]
  BY DEF AddHandlers
<1> HIDE DEF st
<1>7. st[0] = start
  BY <1>1, <1>5
<1>8. \A k \in 1..Len(h) : st[k] = Nxt(k, st[k - 1])
  BY <1>1, <1>5
<1> QED BY <1>6, <1>7, <1>8 DEF AddNext, AddStates

\* A loop that adds handlers: nothing is lost, and when it succeeds every
\* wanted handler is in its phase.
LEMMA HandlersAdded ==
    ASSUME NEW start \in Holders, NEW m \in Modules, NEW wanted
    PROVE  LET y == AddHandlers(start, m, wanted)
           IN  /\ y \in Holders /\ Grows(start, y)
               /\ y.status = "SUCCESS" =>
                     \A n \in Range(ModHandlers[m]) \cap wanted : InPhase(Side(y, n), n)
<1>0. PICK st : AddStates(st, start, m, wanted)
  BY AddLoop
<1> DEFINE h == ModHandlers[m]
<1>1. /\ st[0] = start
      /\ \A k \in 1..Len(h) : st[k] = AddNext(st[k - 1], h[k], wanted)
      /\ AddHandlers(start, m, wanted) = st[Len(h)]
  BY <1>0 DEF AddStates
<1> DEFINE Fact(k) ==
              /\ st[k] \in Holders /\ Grows(start, st[k])
              /\ st[k].status = "SUCCESS" =>
                    \A j \in 1..k : h[j] \in wanted => InPhase(Side(st[k], h[j]), h[j])
           S == {k \in 0..Len(h) : Fact(k)}
<1>2. Len(h) \in Nat /\ h \in Seq(Names)
  BY ResolverAssumption
<1>3. \A k \in 1..Len(h) : h[k] \in Range(ModHandlers[m]) /\ h[k] \in Names
  BY <1>2 DEF Range
<1>4. \A n \in Range(ModHandlers[m]) : \E k \in 1..Len(h) : n = h[k]
  BY <1>2 DEF Range
<1> HIDE DEF h
<1>5. 0 \in S
  <2>1. 0 \in 0..Len(h) /\ \A j \in 1..0 : FALSE
    BY <1>2
  <2>2. Grows(start, start)
    BY DEF Grows
  <2> QED BY <1>1, <2>1, <2>2
<1>6. ASSUME NEW k \in 1..Len(h), k - 1 \in S PROVE k \in S
  <2> DEFINE x == st[k - 1]
             y == st[k]
  <2>1. /\ x \in Holders /\ Grows(start, x)
        /\ x.status = "SUCCESS" =>
              \A j \in 1..(k - 1) : h[j] \in wanted => InPhase(Side(x, h[j]), h[j])
    BY <1>6
  <2>2. y = IF h[k] \in wanted THEN HolderAddHandler(x, h[k]) ELSE x
    BY <1>1 DEF AddNext
  <2> HIDE DEF x, y
  <2>3. /\ y \in Holders /\ Grows(x, y)
        /\ y.status = "SUCCESS" /\ h[k] \in wanted => InPhase(Side(y, h[k]), h[k])
    <3>1. CASE h[k] \in wanted
      BY <1>3, <2>1, <2>2, <3>1, HolderAdds
    <3>2. CASE h[k] \notin wanted
      BY <2>1, <2>2, <3>2 DEF Grows
    <3> QED BY <3>1, <3>2
  <2>4. Grows(start, y)
    BY <2>1, <2>3 DEF Grows
  <2>5. ASSUME y.status = "SUCCESS", NEW j \in 1..k, h[j] \in wanted
        PROVE  InPhase(Side(y, h[j]), h[j])
    <3>1. CASE j = k
      BY <2>3, <2>5, <3>1
    <3>2. CASE j # k
      <4>1. j \in 1..(k - 1) /\ x.status = "SUCCESS" /\ j \in 1..Len(h)
        BY <1>2, <2>3, <2>5, <3>2 DEF Grows
      <4>2. InPhase(Side(x, h[j]), h[j]) /\ h[j] \in Names
        BY <1>3, <2>1, <2>5, <4>1
      <4> QED BY <2>3, <4>2 DEF Grows, Side
    <3> QED BY <3>1, <3>2
  <2>6. Fact(k)
    BY <2>3, <2>4, <2>5 DEF y
  <2>7. k \in 0..Len(h)
    BY <1>2
  <2> HIDE DEF Fact
  <2> QED BY <2>6, <2>7
<1>7. Fact(Len(h))
  <2>1. \A k \in 0..Len(h) : k \in S
    <3> HIDE DEF S
    <3> QED BY <1>2, <1>5, <1>6, UpTo
  <2>2. Len(h) \in 0..Len(h)
    BY <1>2
  <2> HIDE DEF Fact
  <2> QED BY <2>1, <2>2
<1> QED BY <1>1, <1>4, <1>7

\* The loop of BuildChainsForOp has the states its definition gives it.
LEMMA BuildLoop ==
    ASSUME ListType, NEW o \in Ops, NEW s \in Svcs
    PROVE  LET ms == ChainModules(s)
           IN  \E st : /\ st[0] = Start(system, user[o])
                       /\ \A k \in 1..Len(ms) :
                             st[k] = AddHandlers(st[k - 1], ms[k], UserHandlers(ms[k]))
                       /\ BuildChainsForOp(o, s) = st[Len(ms)]
<1> DEFINE ms == ChainModules(s)
           start == Start(system, user[o])
           Nxt(k, x) == AddHandlers(x, ms[k], UserHandlers(ms[k]))
           Good(g, n) == g = [k \in 0..n |->
                                 IF k = 0 THEN start
                                 ELSE AddHandlers(g[k - 1], ms[k], UserHandlers(ms[k]))]
           S == {n \in 0..Len(ms) : \E g : Good(g, n)}
<1>1. Len(ms) \in Nat
  <2>1. conf_engaged \in Seq(Modules) /\ svc_engaged[s] \in Seq(Modules)
    BY DEF ListType
  <2>2. ms \in Seq(Modules)
    BY <2>1 DEF ChainModules
  <2> HIDE DEF ms
  <2> QED BY <2>2
<1> HIDE DEF ms, start
<1>2. 0 \in S
  <2>1. Good([k \in 0..0 |-> start], 0)
    OBVIOUS
  <2>2. 0 \in 0..Len(ms)
    BY <1>1
  <2> HIDE DEF Good
  <2> QED BY <2>1, <2>2
<1>3. ASSUME NEW n \in 1..Len(ms), n - 1 \in S PROVE n \in S
  <2>1. PICK g : Good(g, n - 1)
    BY <1>3
  <2> DEFINE e == [k \in 0..n |-> IF k = n THEN Nxt(n, g[n - 1]) ELSE g[k]]
  <2>2. \A k \in 0..(n - 1) : g[k] = IF k = 0 THEN start ELSE Nxt(k, g[k - 1])
    BY <2>1
  <2>3. \A k \in 0..n : e[k] = IF k = 0 THEN start ELSE Nxt(k, e[k - 1])
    BY <1>1, <2>2
  <2>4. Good(e, n)
    BY <2>3
  <2>5. n \in 0..Len(ms)
    BY <1>1
  <2> HIDE DEF Good, e
  <2> QED BY <2>4, <2>5
<1>4. \E g : Good(g, Len(ms))
  <2>1. \A k \in 0..Len(ms) : k \in S
    <3> HIDE DEF S
    <3> QED BY <1>1, <1>2, <1>3, UpTo
  <2>2. Len(ms) \in 0..Len(ms)
    BY <1>1
  <2> HIDE DEF Good
  <2> QED BY <2>1, <2>2
<1> DEFINE st == CHOOSE g : Good(g, Len(ms))
<1>5. Good(st, Len(ms))
  BY <1>4
<1>6. BuildChainsForOp(o, s) = st[Len(ms)]
  BY DEF BuildChainsForOp, ms, start
<1> HIDE DEF st
<1>7. st[0] = start
  BY <1>1, <1>5
<1>8. \A k \in 1..Len(ms) : st[k] = Nxt(k, st[k - 1])
  BY <1>1, <1>5
<1> QED BY <1>6, <1>7, <1>8 DEF ms, start

\* The chains built for an operation: nothing is lost, and on success every
\* user handler of every module they are built from is there.
LEMMA ChainsBuilt ==
    ASSUME ListType, system \in PhaseState, NEW o \in Ops, user[o] \in PhaseState,
           NEW s \in Svcs
    PROVE  LET y == BuildChainsForOp(o, s)
           IN  /\ y \in Holders
               /\ \A z \in Names : InPhase(user[o], z) => InPhase(y.user, z)
               /\ y.status = "SUCCESS" =>
                     \A m \in Range(ChainModules(s)) :
                         \A n \in UserHandlers(m) : InPhase(y.user, n)
<1> DEFINE ms == ChainModules(s)
           start == Start(system, user[o])
<1>1. PICK st : /\ st[0] = start
                /\ \A k \in 1..Len(ms) :
                      st[k] = AddHandlers(st[k - 1], ms[k], UserHandlers(ms[k]))
                /\ BuildChainsForOp(o, s) = st[Len(ms)]
  BY BuildLoop
<1>2. start \in Holders /\ start.user = user[o]
  BY DEF Start, Holders
<1>3. ms \in Seq(Modules) /\ Len(ms) \in Nat
  <2>1. conf_engaged \in Seq(Modules) /\ svc_engaged[s] \in Seq(Modules)
    BY DEF ListType
  <2>2. ms \in Seq(Modules)
    BY <2>1 DEF ChainModules
  <2> HIDE DEF ms
  <2> QED BY <2>2
<1>4. \A m \in Range(ChainModules(s)) : \E k \in 1..Len(ms) : m = ms[k]
  BY <1>3 DEF Range
<1> HIDE DEF ms, start
<1> DEFINE Fact(k) ==
              /\ st[k] \in Holders /\ Grows(start, st[k])
              /\ st[k].status = "SUCCESS" =>
                    \A j \in 1..k : \A n \in UserHandlers(ms[j]) : InPhase(st[k].user, n)
           S == {k \in 0..Len(ms) : Fact(k)}
<1>5. 0 \in S
  <2>1. 0 \in 0..Len(ms) /\ \A j \in 1..0 : FALSE
    BY <1>3
  <2>2. Grows(start, start)
    BY DEF Grows
  <2> QED BY <1>1, <1>2, <2>1, <2>2
<1>6. ASSUME NEW k \in 1..Len(ms), k - 1 \in S PROVE k \in S
  <2> DEFINE x == st[k - 1]
             y == st[k]
  <2>1. /\ x \in Holders /\ Grows(start, x)
        /\ x.status = "SUCCESS" =>
              \A j \in 1..(k - 1) : \A n \in UserHandlers(ms[j]) : InPhase(x.user, n)
    BY <1>6
  <2>2. y = AddHandlers(x, ms[k], UserHandlers(ms[k])) /\ ms[k] \in Modules
    BY <1>1, <1>3
  <2> HIDE DEF x, y
  <2>3. /\ y \in Holders /\ Grows(x, y)
        /\ y.status = "SUCCESS" =>
              \A n \in Range(ModHandlers[ms[k]]) \cap UserHandlers(ms[k]) :
                  InPhase(Side(y, n), n)
    BY <2>1, <2>2, HandlersAdded
  <2>4. y.status = "SUCCESS" => \A n \in UserHandlers(ms[k]) : InPhase(y.user, n)
    BY <2>3 DEF UserHandlers, Side
  <2>5. Grows(start, y)
    BY <2>1, <2>3 DEF Grows
  <2>6. ASSUME y.status = "SUCCESS", NEW j \in 1..k, NEW n \in UserHandlers(ms[j])
        PROVE  InPhase(y.user, n)
    <3>1. CASE j = k
      BY <2>4, <2>6, <3>1
    <3>2. CASE j # k
      <4>1. j \in 1..(k - 1) /\ x.status = "SUCCESS" /\ ms[j] \in Modules
        BY <1>3, <2>3, <2>6, <3>2 DEF Grows
      <4>2. n \in Names
        BY <4>1, NotDispatcher DEF UserHandlers
      <4>3. InPhase(x.user, n)
        BY <2>1, <4>1
      <4> QED BY <2>3, <4>2, <4>3 DEF Grows
    <3> QED BY <3>1, <3>2
  <2>7. Fact(k)
    BY <2>3, <2>5, <2>6 DEF y
  <2>8. k \in 0..Len(ms)
    BY <1>3
  <2> HIDE DEF Fact
  <2> QED BY <2>7, <2>8
<1>7. Fact(Len(ms))
  <2>1. \A k \in 0..Len(ms) : k \in S
    <3> HIDE DEF S
    <3> QED BY <1>3, <1>5, <1>6, UpTo
  <2>2. Len(ms) \in 0..Len(ms)
    BY <1>3
  <2> HIDE DEF Fact
  <2> QED BY <2>1, <2>2
<1>8. \A z \in Names : InPhase(user[o], z) => InPhase(BuildChainsForOp(o, s).user, z)
  BY <1>1, <1>2, <1>7 DEF Grows
<1> QED BY <1>1, <1>4, <1>7, <1>8

\* Between x and y only handlers of module m left their phases, and the
\* dispatchers stayed.
Shrinks(x, y, m) ==
    /\ \A z \in Names \ Range(ModHandlers[m]) : InPhase(x.system, z) => InPhase(y.system, z)
    /\ \A z \in Names \ Range(ModHandlers[m]) : InPhase(x.user, z) => InPhase(y.user, z)
    /\ InOrder(Dispatchers, Chain(x.system)) => InOrder(Dispatchers, Chain(y.system))

\* One call of axis2_phase_holder_remove_handler.
LEMMA HolderRemoves ==
    ASSUME NEW x \in Holders, NEW m \in Modules, NEW n \in Range(ModHandlers[m])
    PROVE  LET y == HolderRemoveHandler(x, n)
           IN  y \in Holders /\ Shrinks(x, y, m)
<1> DEFINE y == HolderRemoveHandler(x, n)
           Q == RemoveHandlerDesc(x.system, n).phase
           U == RemoveHandlerDesc(x.user, n).phase
<1>1. n \in Names /\ \A i \in 1..Len(Dispatchers) : Dispatchers[i] # n
  BY NotDispatcher
<1>2. x.system \in PhaseState /\ x.user \in PhaseState
      /\ x.status \in {"SUCCESS", "FAILURE"}
  BY DEF Holders
<1>3. /\ Q \in PhaseState
      /\ \A z \in Names : z # n /\ InPhase(x.system, z) => InPhase(Q, z)
      /\ \/ Chain(Q) = Chain(x.system)
         \/ \E k : Inserted(Chain(Q), Chain(x.system), k, n)
  BY <1>1, <1>2, PhaseRemove
<1>4. /\ U \in PhaseState
      /\ \A z \in Names : z # n /\ InPhase(x.user, z) => InPhase(U, z)
  BY <1>1, <1>2, PhaseRemove
<1>5. Dispatchers \in Seq(Names)
  BY ResolverAssumption
<1>6. InOrder(Dispatchers, Chain(x.system)) => InOrder(Dispatchers, Chain(Q))
  BY <1>1, <1>3, <1>5, InOrderRemoved
<1>7. y \in {x, [x EXCEPT !.status = "FAILURE"], [x EXCEPT !.system = Q],
             [x EXCEPT !.user = U]}
  BY Zenon DEF HolderRemoveHandler
<1> HIDE DEF y, Q, U
<1>8. CASE y = x
  BY <1>8 DEF Shrinks, y
<1>9. CASE y = [x EXCEPT !.status = "FAILURE"]
  <2>1. y \in Holders
    BY <1>9, Zenon DEF Holders
  <2>2. y.system = x.system /\ y.user = x.user
    BY <1>9 DEF Holders
  <2> QED BY <2>1, <2>2 DEF Shrinks, y
<1>10. CASE y = [x EXCEPT !.system = Q]
  <2>1. y \in Holders
    BY <1>3, <1>10, Zenon DEF Holders
  <2>2. y.system = Q /\ y.user = x.user
    BY <1>10 DEF Holders
  <2> QED BY <1>3, <1>6, <2>1, <2>2 DEF Shrinks, y
<1>11. CASE y = [x EXCEPT !.user = U]
  <2>1. y \in Holders
    BY <1>4, <1>11, Zenon DEF Holders
  <2>2. y.system = x.system /\ y.user = U
    BY <1>11 DEF Holders
  <2> QED BY <1>4, <2>1, <2>2 DEF Shrinks, y
<1> QED BY <1>7, <1>8, <1>9, <1>10, <1>11

\* The loop of RemoveHandlers has the states its definition gives it.
LEMMA RemoveLoop ==
    ASSUME NEW start, NEW m \in Modules
    PROVE  LET h == ModHandlers[m]
           IN  \E st : /\ st[0] = start
                       /\ \A k \in 1..Len(h) : st[k] = HolderRemoveHandler(st[k - 1], h[k])
                       /\ RemoveHandlers(start, m) = st[Len(h)]
<1> DEFINE h == ModHandlers[m]
           Nxt(k, x) == HolderRemoveHandler(x, h[k])
           Good(g, n) == g = [k \in 0..n |-> IF k = 0 THEN start
                                             ELSE HolderRemoveHandler(g[k - 1], h[k])]
           S == {n \in 0..Len(h) : \E g : Good(g, n)}
<1>1. Len(h) \in Nat
  BY ResolverAssumption
<1> HIDE DEF h
<1>2. 0 \in S
  <2>1. Good([k \in 0..0 |-> start], 0)
    OBVIOUS
  <2>2. 0 \in 0..Len(h)
    BY <1>1
  <2> HIDE DEF Good
  <2> QED BY <2>1, <2>2
<1>3. ASSUME NEW n \in 1..Len(h), n - 1 \in S PROVE n \in S
  <2>1. PICK g : Good(g, n - 1)
    BY <1>3
  <2> DEFINE e == [k \in 0..n |-> IF k = n THEN Nxt(n, g[n - 1]) ELSE g[k]]
  <2>2. \A k \in 0..(n - 1) : g[k] = IF k = 0 THEN start ELSE Nxt(k, g[k - 1])
    BY <2>1
  <2>3. \A k \in 0..n : e[k] = IF k = 0 THEN start ELSE Nxt(k, e[k - 1])
    BY <1>1, <2>2
  <2>4. Good(e, n)
    BY <2>3
  <2>5. n \in 0..Len(h)
    BY <1>1
  <2> HIDE DEF Good, e
  <2> QED BY <2>4, <2>5
<1>4. \E g : Good(g, Len(h))
  <2>1. \A k \in 0..Len(h) : k \in S
    <3> HIDE DEF S
    <3> QED BY <1>1, <1>2, <1>3, UpTo
  <2>2. Len(h) \in 0..Len(h)
    BY <1>1
  <2> HIDE DEF Good
  <2> QED BY <2>1, <2>2
<1> DEFINE st == CHOOSE g : Good(g, Len(h))
<1>5. Good(st, Len(h))
  BY <1>4
<1>6. RemoveHandlers(start, m) = st[Len(h)]
  BY DEF RemoveHandlers, h
<1> HIDE DEF st
<1>7. st[0] = start
  BY <1>1, <1>5
<1>8. \A k \in 1..Len(h) : st[k] = Nxt(k, st[k - 1])
  BY <1>1, <1>5
<1> QED BY <1>6, <1>7, <1>8 DEF h

\* A loop that removes the handlers of a module removes no other.
LEMMA HandlersRemoved ==
    ASSUME NEW start \in Holders, NEW m \in Modules
    PROVE  LET y == RemoveHandlers(start, m)
           IN  y \in Holders /\ Shrinks(start, y, m)
<1> DEFINE h == ModHandlers[m]
<1>1. PICK st : /\ st[0] = start
                /\ \A k \in 1..Len(h) : st[k] = HolderRemoveHandler(st[k - 1], h[k])
                /\ RemoveHandlers(start, m) = st[Len(h)]
  BY RemoveLoop
<1> DEFINE S == {k \in 0..Len(h) : st[k] \in Holders /\ Shrinks(start, st[k], m)}
<1>2. Len(h) \in Nat /\ h \in Seq(Names)
  BY ResolverAssumption
<1>3. \A k \in 1..Len(h) : h[k] \in Range(ModHandlers[m])
  BY <1>2 DEF Range
<1> HIDE DEF h
<1>4. 0 \in S
  <2>1. 0 \in 0..Len(h)
    BY <1>2
  <2> QED BY <1>1, <2>1 DEF Shrinks
<1>5. ASSUME NEW k \in 1..Len(h), k - 1 \in S PROVE k \in S
  <2> DEFINE x == st[k - 1]
             y == st[k]
  <2>1. x \in Holders /\ Shrinks(start, x, m)
    BY <1>5
  <2>2. y = HolderRemoveHandler(x, h[k])
    BY <1>1
  <2> HIDE DEF x, y
  <2>3. y \in Holders /\ Shrinks(x, y, m)
    BY <1>3, <2>1, <2>2, HolderRemoves
  <2>4. Shrinks(start, y, m)
    BY <2>1, <2>3 DEF Shrinks
  <2>5. k \in 0..Len(h)
    BY <1>2
  <2> QED BY <2>3, <2>4, <2>5 DEF y
<1>6. Len(h) \in S
  <2>1. \A k \in 0..Len(h) : k \in S
    <3> HIDE DEF S
    <3> QED BY <1>2, <1>4, <1>5, UpTo
  <2>2. Len(h) \in 0..Len(h)
    BY <1>2
  <2> HIDE DEF S
  <2> QED BY <2>1, <2>2
<1> QED BY <1>1, <1>6
-----------------------------------------------------------------------------
(* What the calls do to the phases.                                         *)

\* The phases are phases.
PhaseType == system \in PhaseState /\ user \in [Ops -> PhaseState]

\* A step takes no handler out of a phase.
Kept ==
    /\ \A z \in Names : InPhase(system, z) => InPhase(system', z)
    /\ \A o \in Ops : \A z \in Names : InPhase(user[o], z) => InPhase(user'[o], z)

\* A step keeps the types of the phases and the order of the dispatchers.
PhasesKept ==
    /\ PhaseType'
    /\ InOrder(Dispatchers, Chain(system)) => InOrder(Dispatchers, Chain(system'))

\* The phases of an operation, as a loop starts on them.
LEMMA StartType ==
    ASSUME PhaseType, NEW o \in Ops
    PROVE  LET x == Start(system, user[o])
           IN  x \in Holders /\ x.system = system /\ x.user = user[o]
<1>1. system \in PhaseState /\ user[o] \in PhaseState
  BY DEF PhaseType
<1> QED BY <1>1 DEF Start, Holders

\* What a step leaves when it does not touch the phases.
LEMMA SamePhases ==
    ASSUME PhaseType, UNCHANGED phases
    PROVE  PhasesKept /\ Kept
  BY DEF PhaseType, PhasesKept, Kept, phases

\* What a step leaves that puts the result of a loop into the phases.
LEMMA LoopPhases ==
    ASSUME PhaseType, NEW o \in Ops, NEW y \in Holders,
           Grows(Start(system, user[o]), y), user' = [user EXCEPT ![o] = y.user],
           system' = y.system \/ system' = system
    PROVE  PhasesKept /\ Kept
<1>1. Start(system, user[o]).system = system /\ Start(system, user[o]).user = user[o]
  BY DEF Start
<1>2. y.system \in PhaseState /\ y.user \in PhaseState
  BY DEF Holders
<1>3. PhaseType'
  BY <1>2 DEF PhaseType
<1>4. user'[o] = y.user /\ \A p \in Ops : p # o => user'[p] = user[p]
  BY DEF PhaseType
<1>5. Kept
  BY <1>1, <1>4 DEF Kept, Grows
<1>6. InOrder(Dispatchers, Chain(system)) => InOrder(Dispatchers, Chain(system'))
  BY <1>1 DEF Grows
<1> QED BY <1>3, <1>5, <1>6 DEF PhasesKept

\* Only disengaging takes handlers out of phases.
LEMMA PhaseStep ==
    ASSUME ListType, PhaseType, [Next]_vars
    PROVE  PhasesKept /\ (Kept \/ \E o \in ops_left : DisengageOp(o))
<1>1. ASSUME NEW s \in Svcs, ConfAddSvc(s) PROVE PhasesKept /\ Kept
  <2>1. /\ user' = [o \in Ops |-> IF o \in ops[s] THEN BuildChainsForOp(o, s).user
                                  ELSE user[o]]
        /\ system' = system
    BY <1>1 DEF ConfAddSvc
  <2>2. ASSUME NEW o \in Ops
        PROVE  /\ BuildChainsForOp(o, s).user \in PhaseState
               /\ \A z \in Names : InPhase(user[o], z)
                                      => InPhase(BuildChainsForOp(o, s).user, z)
    BY ChainsBuilt DEF PhaseType, Holders
  <2>3. user' \in [Ops -> PhaseState]
    BY <2>1, <2>2 DEF PhaseType
  <2>4. \A o \in Ops : \A z \in Names : InPhase(user[o], z) => InPhase(user'[o], z)
    BY <2>1, <2>2
  <2> QED BY <2>1, <2>3, <2>4 DEF PhasesKept, PhaseType, Kept
<1>2. ASSUME NEW m \in Modules, ConfEngageModule(m) PROVE PhasesKept /\ Kept
  <2>1. CASE UNCHANGED phases
    BY <2>1, SamePhases
  <2>2. CASE ~UNCHANGED phases
    <3> DEFINE x == Start(system, EmptyPhase)
               y == AddHandlers(x, m, SystemHandlers(m))
    <3>1. system' = y.system /\ user' = user
      BY <1>2, <2>2 DEF ConfEngageModule
    <3>2. EmptyPhase \in PhaseState
      BY DEF EmptyPhase, PhaseState
    <3>3. x \in Holders /\ x.system = system
      BY <3>2 DEF Start, Holders, PhaseType
    <3> HIDE DEF x
    <3>4. y \in Holders /\ Grows(x, y)
      BY <3>3, HandlersAdded
    <3> HIDE DEF y
    <3>5. y.system \in PhaseState
      BY <3>4 DEF Holders
    <3> QED BY <3>1, <3>3, <3>4, <3>5 DEF PhasesKept, PhaseType, Kept, Grows
  <2> QED BY <2>1, <2>2
<1>3. CASE \/ \E s \in Svcs, m \in Modules : SvcEngageModule(s, m)
           \/ \E s \in Svcs, m \in Modules : SvcDisengageModule(s, m)
           \/ NextSvc \/ SvcsDone \/ ModuleOpsDone \/ OpsDone
           \/ Terminated \/ UNCHANGED vars
  <2>1. UNCHANGED phases
    BY <1>3 DEF SvcEngageModule, SvcDisengageModule, NextSvc, SvcsDone, ModuleOpsDone,
                OpsDone, Terminated, vars
  <2> QED BY <2>1, SamePhases
<1>4. ASSUME NEW o \in Ops, NEW m \in Modules, OpEngageModule(o, m)
      PROVE  PhasesKept /\ Kept
  <2>1. CASE UNCHANGED phases
    BY <2>1, SamePhases
  <2>2. CASE ~UNCHANGED phases
    <3> DEFINE x == Start(system, user[o])
               y == AddHandlers(x, m, Names)
    <3>1. system' = y.system /\ user' = [user EXCEPT ![o] = y.user]
      BY <1>4, <2>2 DEF OpEngageModule
    <3>2. x \in Holders
      BY StartType
    <3>3. y \in Holders /\ Grows(x, y)
      BY <3>2, HandlersAdded
    <3> QED BY <3>1, <3>3, LoopPhases
  <2> QED BY <2>1, <2>2
<1>5. CASE AddModuleOp
  <2>1. PICK o \in ops_left : user' = [user EXCEPT ![o] = BuildChainsForOp(o, svc).user]
    BY <1>5 DEF AddModuleOp
  <2>2. system' = system /\ svc \in Svcs /\ o \in Ops
    BY <1>5 DEF AddModuleOp, ListType
  <2>3. /\ BuildChainsForOp(o, svc).user \in PhaseState
        /\ \A z \in Names : InPhase(user[o], z) => InPhase(BuildChainsForOp(o, svc).user, z)
    BY <2>2, ChainsBuilt DEF PhaseType, Holders
  <2>4. user' \in [Ops -> PhaseState]
    BY <2>1, <2>3 DEF PhaseType
  <2>5. /\ user'[o] = BuildChainsForOp(o, svc).user
        /\ \A p \in Ops : p # o => user'[p] = user[p]
    BY <2>1, <2>2 DEF PhaseType
  <2> QED BY <2>2, <2>3, <2>4, <2>5 DEF PhasesKept, PhaseType, Kept
<1>6. ASSUME NEW o \in ops_left, EngageOpGlobally(o) PROVE PhasesKept /\ Kept
  <2>1. CASE UNCHANGED phases
    BY <2>1, SamePhases
  <2>2. CASE ~UNCHANGED phases
    <3> DEFINE x == Start(system, user[o])
               y == AddHandlers(x, mod, UserHandlers(mod))
    <3>1. /\ system' = system /\ user' = [user EXCEPT ![o] = y.user]
          /\ mod \in Modules /\ o \in Ops
      BY <1>6, <2>2 DEF EngageOpGlobally, ListType, phases
    <3>2. x \in Holders
      BY <3>1, StartType
    <3>3. y \in Holders /\ Grows(x, y)
      BY <3>1, <3>2, HandlersAdded
    <3> QED BY <3>1, <3>3, LoopPhases
  <2> QED BY <2>1, <2>2
<1>7. ASSUME NEW o \in ops_left, EngageOpToSvc(o) PROVE PhasesKept /\ Kept
  <2>1. CASE UNCHANGED phases
    BY <2>1, SamePhases
  <2>2. CASE ~UNCHANGED phases
    <3> DEFINE x == Start(system, user[o])
               y == AddHandlers(x, mod, Names)
    <3>1. /\ system' = y.system /\ user' = [user EXCEPT ![o] = y.user]
          /\ mod \in Modules /\ o \in Ops
      BY <1>7, <2>2 DEF EngageOpToSvc, ListType, phases
    <3>2. x \in Holders
      BY <3>1, StartType
    <3>3. y \in Holders /\ Grows(x, y)
      BY <3>1, <3>2, HandlersAdded
    <3> QED BY <3>1, <3>3, LoopPhases
  <2> QED BY <2>1, <2>2
<1>8. ASSUME NEW o \in ops_left, DisengageOp(o) PROVE PhasesKept
  <2>1. CASE UNCHANGED phases
    BY <2>1, SamePhases
  <2>2. CASE ~UNCHANGED phases
    <3> DEFINE x == Start(system, user[o])
               y == RemoveHandlers(x, mod)
    <3>1. /\ system' = y.system /\ user' = [user EXCEPT ![o] = y.user]
          /\ mod \in Modules /\ o \in Ops
      BY <1>8, <2>2 DEF DisengageOp, ListType
    <3>2. x \in Holders /\ x.system = system
      BY <3>1, StartType
    <3> HIDE DEF x
    <3>3. y \in Holders /\ Shrinks(x, y, mod)
      BY <3>1, <3>2, HandlersRemoved
    <3> HIDE DEF y
    <3>4. y.system \in PhaseState /\ y.user \in PhaseState
      BY <3>3 DEF Holders
    <3> QED BY <3>1, <3>2, <3>3, <3>4 DEF PhasesKept, PhaseType, Shrinks
  <2> QED BY <2>1, <2>2
<1> QED BY <1>1, <1>2, <1>3, <1>4, <1>5, <1>6, <1>7, <1>8 DEF Next, Step

\* Disengaging module mod from an operation takes no handler of another
\* module out of a phase, and none out of the phases of other operations.
LEMMA OthersKept ==
    ASSUME ListType, PhaseType, NEW o \in ops_left, DisengageOp(o)
    PROVE  /\ \A m \in Modules \ {mod} : \A z \in Range(ModHandlers[m]) :
                 /\ InPhase(system, z) => InPhase(system', z)
                 /\ InPhase(user[o], z) => InPhase(user'[o], z)
           /\ \A p \in Ops \ {o} : user'[p] = user[p]
           /\ mod \notin engaged[o] => user' = user
<1>1. CASE UNCHANGED phases
  BY <1>1 DEF phases
<1>2. CASE ~UNCHANGED phases
  <2> DEFINE x == Start(system, user[o])
             y == RemoveHandlers(x, mod)
  <2>1. /\ system' = y.system /\ user' = [user EXCEPT ![o] = y.user]
        /\ mod \in Modules /\ o \in Ops /\ mod \in engaged[o]
    BY <1>2 DEF DisengageOp, ListType
  <2>2. x \in Holders /\ x.system = system /\ x.user = user[o]
    BY <2>1, StartType
  <2> HIDE DEF x
  <2>3. Shrinks(x, y, mod)
    BY <2>1, <2>2, HandlersRemoved
  <2> HIDE DEF y
  <2>4. user'[o] = y.user /\ \A p \in Ops \ {o} : user'[p] = user[p]
    BY <2>1 DEF PhaseType
  <2>5. ASSUME NEW m \in Modules \ {mod}, NEW z \in Range(ModHandlers[m])
        PROVE  z \in Names \ Range(ModHandlers[mod])
    BY <2>1, NotDispatcher, DistinctNames
  <2> QED BY <2>1, <2>2, <2>3, <2>4, <2>5 DEF Shrinks
<1> QED BY <1>1, <1>2

\* The phases before the first call.
LEMMA PhaseInit == Init => PhaseType /\ InOrder(Dispatchers, Chain(system))
<1> SUFFICES ASSUME Init PROVE PhaseType /\ InOrder(Dispatchers, Chain(system))
  OBVIOUS
<1>1. Dispatchers \in Seq(Names) /\ Len(Dispatchers) \in Nat
  BY ResolverAssumption
<1>2. EmptyPhase \in PhaseState
  BY DEF EmptyPhase, PhaseState
<1>3. system = [EmptyPhase EXCEPT !.handlers = Dispatchers]
  BY DEF Init
<1>4. system \in PhaseState
  BY <1>1, <1>2, <1>3, Zenon DEF PhaseState
<1>5. /\ system.handlers = Dispatchers /\ system.first_handler = NULL
      /\ system.last_handler = NULL
  BY <1>3 DEF EmptyPhase
<1>6. Chain(system) = (<<>> \o Dispatchers) \o <<>>
  BY <1>5 DEF Chain
<1>7. Chain(system) = Dispatchers
  BY <1>1, <1>6
<1>8. \A i, j \in 1..Len(Dispatchers) : Dispatchers[i] = Dispatchers[j] => i = j
  BY <1>1, DistinctNames DEF IsInjective
<1>9. InOrder(Dispatchers, Dispatchers)
  <2>1. \A i \in 1..Len(Dispatchers) : Contains(Dispatchers, Dispatchers[i])
    BY DEF Contains
  <2> QED BY <1>8, <2>1 DEF InOrder
<1>10. user \in [Ops -> PhaseState]
  BY <1>2 DEF Init
<1> QED BY <1>4, <1>7, <1>9, <1>10 DEF PhaseType

\* Whatever is engaged and disengaged, in whatever order, the dispatchers that
\* axis2_conf_create put into the system phase are still there, once each and
\* in their order.
THEOREM DispatchersStay == Spec => []DispatchersKept
<1> DEFINE IInv == ListType /\ PhaseType /\ InOrder(Dispatchers, Chain(system))
<1>1. Init => IInv
  BY ListInit, PhaseInit
<1>2. IInv /\ [Next]_vars => IInv'
  BY ListStep, PhaseStep DEF PhasesKept
<1>3. IInv => DispatchersKept
  BY DEF InOrder, DispatchersKept
<1> HIDE DEF IInv
<1> QED BY <1>1, <1>2, <1>3, PTL DEF Spec

-----------------------------------------------------------------------------
(* The user phases of the operations that list a module.                    *)

\* The user-phase handlers of module m are in phase P.
UserReady(P, m) == \A n \in UserHandlers(m) : InPhase(P, n)

\* An operation lists a module anew only once the module's handlers are in its
\* user phase.
NewlyReady ==
    ~failed' => \A o \in Ops : \A m \in engaged'[o] :
                    m \in engaged[o] \/ UserReady(user'[o], m)

\* A loop over the handlers of module m that succeeds leaves its user handlers
\* in the user phase.
LEMMA LoopReady ==
    ASSUME PhaseType, NEW o \in Ops, NEW m \in Modules, NEW wanted,
           UserHandlers(m) \subseteq wanted
    PROVE  LET y == AddHandlers(Start(system, user[o]), m, wanted)
           IN  y.status = "SUCCESS" => UserReady(y.user, m)
<1> DEFINE x == Start(system, user[o])
           y == AddHandlers(x, m, wanted)
<1>1. x \in Holders
  BY StartType
<1>2. y.status = "SUCCESS" =>
         \A n \in Range(ModHandlers[m]) \cap wanted : InPhase(Side(y, n), n)
  BY <1>1, HandlersAdded
<1> QED BY <1>2 DEF UserReady, UserHandlers, Side

\* Every step but disengaging lists modules in this way.
LEMMA ReadyStep ==
    ASSUME ListType, PhaseType, [Next]_vars
    PROVE  (failed => failed') /\ NewlyReady
<1> USE DEF lists, loop, phases, history
<1>1. ASSUME NEW s \in Svcs, ConfAddSvc(s) PROVE (failed => failed') /\ NewlyReady
  <2>1. /\ user' = [o \in Ops |-> IF o \in ops[s] THEN BuildChainsForOp(o, s).user
                                  ELSE user[o]]
        /\ engaged' = [o \in Ops |-> IF o \in ops[s]
                                     THEN engaged[o] \cup Range(ChainModules(s))
                                     ELSE engaged[o]]
        /\ failed' = (failed \/ \E o \in ops[s] : BuildChainsForOp(o, s).status = "FAILURE")
    BY <1>1 DEF ConfAddSvc
  <2>2. ASSUME ~failed', NEW o \in Ops, NEW m \in engaged'[o], m \notin engaged[o]
        PROVE  UserReady(user'[o], m)
    <3>1. o \in ops[s] /\ m \in Range(ChainModules(s))
      BY <2>1, <2>2
    <3>2. BuildChainsForOp(o, s).status # "FAILURE"
      BY <2>1, <2>2, <3>1
    <3>3. /\ BuildChainsForOp(o, s) \in Holders
          /\ BuildChainsForOp(o, s).status = "SUCCESS" =>
                \A k \in Range(ChainModules(s)) :
                    \A n \in UserHandlers(k) : InPhase(BuildChainsForOp(o, s).user, n)
      BY ChainsBuilt DEF PhaseType
    <3>4. BuildChainsForOp(o, s).status = "SUCCESS"
      BY <3>2, <3>3 DEF Holders
    <3> QED BY <2>1, <3>1, <3>3, <3>4 DEF UserReady
  <2> QED BY <2>1, <2>2 DEF NewlyReady
<1>2. CASE \/ \E m \in Modules : ConfEngageModule(m)
           \/ \E o \in Ops, m \in Modules : OpEngageModule(o, m)
           \/ \E s \in Svcs, m \in Modules : SvcEngageModule(s, m)
           \/ \E s \in Svcs, m \in Modules : SvcDisengageModule(s, m)
           \/ NextSvc \/ SvcsDone \/ ModuleOpsDone \/ OpsDone
           \/ Terminated \/ UNCHANGED vars
  <2>1. ASSUME NEW m \in Modules, ConfEngageModule(m)
        PROVE  UNCHANGED engaged /\ (failed => failed')
    BY <2>1 DEF ConfEngageModule, Fail
  <2>2. ASSUME NEW o \in Ops, NEW m \in Modules, OpEngageModule(o, m)
        PROVE  UNCHANGED engaged /\ (failed => failed')
    BY <2>2 DEF OpEngageModule
  <2>3. CASE \/ \E s \in Svcs, m \in Modules : SvcEngageModule(s, m)
             \/ \E s \in Svcs, m \in Modules : SvcDisengageModule(s, m)
             \/ NextSvc \/ SvcsDone \/ ModuleOpsDone \/ OpsDone
             \/ Terminated \/ UNCHANGED vars
    <3>1. UNCHANGED <<engaged, failed>>
      BY <2>3 DEF SvcEngageModule, SvcDisengageModule, NextSvc, SvcsDone, ModuleOpsDone,
                  OpsDone, Terminated, vars
    <3> QED BY <3>1 DEF NewlyReady
  <2> QED BY <1>2, <2>1, <2>2, <2>3 DEF NewlyReady
<1>3. CASE AddModuleOp
  <2>1. PICK o \in ops_left :
          /\ user' = [user EXCEPT ![o] = BuildChainsForOp(o, svc).user]
          /\ engaged' = [engaged EXCEPT ![o] = @ \cup Range(ChainModules(svc))]
          /\ BuildChainsForOp(o, svc).status # "SUCCESS" => failed'
    BY <1>3 DEF AddModuleOp, Fail
  <2>2. (failed => failed') /\ svc \in Svcs /\ o \in Ops
    BY <1>3 DEF AddModuleOp, Fail, ListType
  <2>3. BuildChainsForOp(o, svc).status = "SUCCESS" =>
           \A k \in Range(ChainModules(svc)) :
               \A n \in UserHandlers(k) : InPhase(BuildChainsForOp(o, svc).user, n)
    BY <2>2, ChainsBuilt DEF PhaseType
  <2>4. ASSUME ~failed', NEW p \in Ops, NEW m \in engaged'[p], m \notin engaged[p]
        PROVE  UserReady(user'[p], m)
    <3>1. p = o /\ m \in Range(ChainModules(svc))
      BY <2>1, <2>2, <2>4 DEF ListType
    <3>2. user'[o] = BuildChainsForOp(o, svc).user
      BY <2>1, <2>2 DEF PhaseType
    <3> QED BY <2>1, <2>3, <2>4, <3>1, <3>2 DEF UserReady
  <2> QED BY <2>2, <2>4 DEF NewlyReady
<1>4. ASSUME NEW o \in ops_left, NEW wanted, UserHandlers(mod) \subseteq wanted,
             o \in Ops, mod \in Modules,
             \/ UNCHANGED engaged
             \/ LET y == AddHandlers(Start(system, user[o]), mod, wanted)
                IN  /\ y.status = "SUCCESS"
                    /\ user' = [user EXCEPT ![o] = y.user]
                    /\ engaged' = [engaged EXCEPT ![o] = @ \cup {mod}]
      PROVE  NewlyReady
  <2>1. CASE UNCHANGED engaged
    BY <2>1 DEF NewlyReady
  <2>2. CASE ~UNCHANGED engaged
    <3> DEFINE y == AddHandlers(Start(system, user[o]), mod, wanted)
    <3>1. /\ y.status = "SUCCESS"
          /\ user' = [user EXCEPT ![o] = y.user]
          /\ engaged' = [engaged EXCEPT ![o] = @ \cup {mod}]
      BY <1>4, <2>2
    <3>2. UserReady(y.user, mod)
      BY <1>4, <3>1, LoopReady
    <3> HIDE DEF y
    <3>3. user'[o] = y.user
      BY <1>4, <3>1 DEF PhaseType
    <3>4. o \in Ops /\ engaged \in [Ops -> SUBSET Modules]
      BY <1>4 DEF ListType
    <3>5. /\ engaged'[o] = engaged[o] \cup {mod}
          /\ \A p \in Ops : p # o => engaged'[p] = engaged[p]
      BY <3>1, <3>4
    <3> QED BY <3>2, <3>3, <3>5 DEF NewlyReady
  <2> QED BY <2>1, <2>2
<1>5. ASSUME NEW o \in ops_left, EngageOpGlobally(o)
      PROVE  (failed => failed') /\ NewlyReady
  <2>1. /\ \/ UNCHANGED engaged
           \/ LET y == AddHandlers(Start(system, user[o]), mod, UserHandlers(mod))
              IN  /\ y.status = "SUCCESS"
                  /\ user' = [user EXCEPT ![o] = y.user]
                  /\ engaged' = [engaged EXCEPT ![o] = @ \cup {mod}]
        /\ failed => failed'
    BY <1>5 DEF EngageOpGlobally, Fail
  <2>2. mod \in Modules /\ o \in Ops
    BY <1>5 DEF EngageOpGlobally, ListType
  <2> QED BY <1>4, <2>1, <2>2
<1>6. ASSUME NEW o \in ops_left, EngageOpToSvc(o)
      PROVE  (failed => failed') /\ NewlyReady
  <2>1. /\ \/ UNCHANGED engaged
           \/ LET y == AddHandlers(Start(system, user[o]), mod, Names)
              IN  /\ y.status = "SUCCESS"
                  /\ user' = [user EXCEPT ![o] = y.user]
                  /\ engaged' = [engaged EXCEPT ![o] = @ \cup {mod}]
        /\ failed => failed'
    BY <1>6 DEF EngageOpToSvc, Fail
  <2>2. mod \in Modules /\ o \in Ops
    BY <1>6 DEF EngageOpToSvc, ListType
  <2>3. UserHandlers(mod) \subseteq Names
    BY <2>2, NotDispatcher DEF UserHandlers
  <2> QED BY <1>4, <2>1, <2>2, <2>3
<1>7. ASSUME NEW o \in ops_left, DisengageOp(o)
      PROVE  (failed => failed') /\ NewlyReady
  <2>1. /\ failed => failed'
        /\ engaged' = engaged \/ engaged' = [engaged EXCEPT ![o] = engaged[o] \ {mod}]
    BY <1>7 DEF DisengageOp, Unlist, ListType
  <2> QED BY <2>1 DEF NewlyReady, ListType
<1> QED BY <1>1, <1>2, <1>3, <1>5, <1>6, <1>7 DEF Next, Step

\* Disengaging a module without a failure unlists it where its handlers go.
LEMMA UnlistedWhereRemoved ==
    ASSUME ListType, NEW o \in ops_left, DisengageOp(o), ~failed'
    PROVE  mod \notin engaged'[o]
<1>1. o \in Ops
  BY DEF ListType
<1>2. CASE mod \in engaged[o]
  <2>1. engaged' = [engaged EXCEPT ![o] = Unlist(o)]
    BY <1>2 DEF DisengageOp
  <2> QED BY <1>1, <2>1 DEF Unlist, ListType
<1>3. CASE mod \notin engaged[o]
  BY <1>3 DEF DisengageOp
<1> QED BY <1>2, <1>3

\* Every step keeps the handlers of the modules an operation lists.
LEMMA UserReadyStep ==
    ASSUME ListType, PhaseType, EngagedOpsHaveHandlers, [Next]_vars
    PROVE  EngagedOpsHaveHandlers'
<1>1. ListType' /\ (failed => failed') /\ NewlyReady
  BY ListStep, ReadyStep
<1> SUFFICES ASSUME ~failed', NEW o \in Ops, NEW m \in engaged'[o]
             PROVE  UserReady(user'[o], m)
  BY DEF EngagedOpsHaveHandlers, UserReady
<1>2. m \in Modules
  BY <1>1 DEF ListType
<1>3. CASE m \notin engaged[o]
  BY <1>1, <1>3 DEF NewlyReady
<1>4. CASE m \in engaged[o]
  <2>1. \A n \in UserHandlers(m) : InPhase(user[o], n)
    BY <1>1, <1>4 DEF EngagedOpsHaveHandlers
  <2>2. \A n \in UserHandlers(m) : n \in Names /\ n \in Range(ModHandlers[m])
    BY <1>2, NotDispatcher DEF UserHandlers
  <2>3. CASE Kept
    BY <2>1, <2>2, <2>3 DEF Kept, UserReady
  <2>4. ASSUME NEW p \in ops_left, DisengageOp(p) PROVE UserReady(user'[o], m)
    <3>1. CASE o # p
      BY <2>1, <2>4, <3>1, OthersKept DEF UserReady
    <3>2. CASE o = p
      <4>1. m # mod
        BY <2>4, <3>2, UnlistedWhereRemoved
      <4> QED BY <1>2, <2>1, <2>2, <2>4, <3>2, <4>1, OthersKept DEF UserReady
    <3> QED BY <3>1, <3>2
  <2> QED BY <2>3, <2>4, PhaseStep
<1> QED BY <1>3, <1>4

\* An operation that lists a module invokes every user-phase handler of it,
\* whichever call engaged it, as long as no call failed half-way.
THEOREM EngagedHaveHandlers == Spec => []EngagedOpsHaveHandlers
<1> DEFINE IInv == ListType /\ PhaseType /\ EngagedOpsHaveHandlers
<1>1. Init => IInv
  BY ListInit, PhaseInit DEF Init, EngagedOpsHaveHandlers
<1>2. IInv /\ [Next]_vars => IInv'
  BY ListStep, PhaseStep, UserReadyStep DEF PhasesKept
<1>3. IInv => EngagedOpsHaveHandlers
  OBVIOUS
<1> HIDE DEF IInv
<1> QED BY <1>1, <1>2, <1>3, PTL DEF Spec

-----------------------------------------------------------------------------
(* The system phase that all services share.                                *)

\* Module m is among the disengaged ones D or has its system-phase handlers in
\* the system phase P.
SystemReady(P, D, m) == m \in D \/ \A n \in SystemHandlers(m) : InPhase(P, n)
Ready(m) == SystemReady(system, disengaged, m)

\* Whatever one of the three lists names is ready: build_execution_chains_for_op
\* copies the modules of the configuration and of the service to operations
\* without adding system-phase handlers.
ListsReady ==
    /\ \A o \in Ops : \A m \in engaged[o] : Ready(m)
    /\ \A m \in Range(conf_engaged) : Ready(m)
    /\ \A s \in Svcs : \A m \in Range(svc_engaged[s]) : Ready(m)

\* So is the module a call is about to list.  A service lists its module after
\* the loop over its operations, which therefore must not be empty.
CallReady ==
    /\ \A s \in all_svcs : ops[s] # {}
    /\ pc # "idle" /\ fn = "conf_engage_module" => Ready(mod)
    /\ pc \in {"module_ops", "ops"} /\ fn = "svc_engage_module" => svc \in all_svcs
    /\ pc = "ops" /\ fn = "svc_engage_module" => ops_left # {} \/ Ready(mod)

\* A loop over the handlers of module m that succeeds leaves its system-phase
\* handlers in the system phase.
LEMMA LoopSystemReady ==
    ASSUME NEW x \in Holders, NEW m \in Modules, NEW wanted, NEW D,
           SystemHandlers(m) \subseteq wanted
    PROVE  LET y == AddHandlers(x, m, wanted)
           IN  y.status = "SUCCESS" => SystemReady(y.system, D, m)
<1> DEFINE y == AddHandlers(x, m, wanted)
<1>1. y.status = "SUCCESS" =>
         \A n \in Range(ModHandlers[m]) \cap wanted : InPhase(Side(y, n), n)
  BY HandlersAdded
<1> QED BY <1>1 DEF SystemReady, SystemHandlers, Side

\* No call forgets that a module was disengaged.
LEMMA DisengagedGrows == [Next]_vars => disengaged \subseteq disengaged'
<1> USE DEF lists, loop, phases, history
<1>1. ASSUME NEW s \in Svcs, ConfAddSvc(s) PROVE disengaged \subseteq disengaged'
  BY <1>1 DEF ConfAddSvc
<1>2. ASSUME NEW m \in Modules, ConfEngageModule(m) PROVE disengaged \subseteq disengaged'
  BY <1>2 DEF ConfEngageModule
<1>3. ASSUME NEW s \in Svcs, NEW m \in Modules,
             SvcEngageModule(s, m) \/ SvcDisengageModule(s, m)
      PROVE  disengaged \subseteq disengaged'
  BY <1>3 DEF SvcEngageModule, SvcDisengageModule
<1>4. ASSUME NEW o \in Ops, NEW m \in Modules, OpEngageModule(o, m)
      PROVE  disengaged \subseteq disengaged'
  BY <1>4 DEF OpEngageModule
<1>5. ASSUME NEW o \in ops_left, EngageOpGlobally(o) \/ EngageOpToSvc(o) \/ DisengageOp(o)
      PROVE  disengaged \subseteq disengaged'
  BY <1>5 DEF EngageOpGlobally, EngageOpToSvc, DisengageOp
<1>6. CASE \/ NextSvc \/ SvcsDone \/ AddModuleOp \/ ModuleOpsDone \/ OpsDone
           \/ Terminated \/ UNCHANGED vars
  BY <1>6 DEF NextSvc, SvcsDone, AddModuleOp, ModuleOpsDone, OpsDone, Terminated, vars
<1> QED BY <1>1, <1>2, <1>3, <1>4, <1>5, <1>6 DEF Next, Step

\* A ready module stays ready.
LEMMA ReadyKept ==
    ASSUME ListType, PhaseType, [Next]_vars, NEW m \in Modules, Ready(m)
    PROVE  SystemReady(system', disengaged', m)
<1>1. disengaged \subseteq disengaged'
  BY DisengagedGrows
<1>2. \A n \in SystemHandlers(m) : n \in Names /\ n \in Range(ModHandlers[m])
  BY NotDispatcher DEF SystemHandlers
<1>3. CASE m \in disengaged
  BY <1>1, <1>3 DEF SystemReady
<1>4. CASE m \notin disengaged
  <2>1. \A n \in SystemHandlers(m) : InPhase(system, n)
    BY <1>4 DEF Ready, SystemReady
  <2>2. CASE Kept
    BY <1>2, <2>1, <2>2 DEF Kept, SystemReady
  <2>3. ASSUME NEW o \in ops_left, DisengageOp(o)
        PROVE  SystemReady(system', disengaged', m)
    <3>1. mod \in disengaged
      BY <2>3 DEF DisengageOp, ListType
    <3>2. m \in Modules \ {mod}
      BY <1>4, <3>1
    <3> QED BY <1>2, <2>1, <2>3, <3>2, OthersKept DEF SystemReady
  <2> QED BY <2>2, <2>3, PhaseStep
<1> QED BY <1>3, <1>4

\* What build_execution_chains_for_op copies is in one of two lists.
LEMMA ChainSources ==
    ASSUME ListType, NEW s \in Svcs, NEW m \in Range(ChainModules(s))
    PROVE  m \in Range(conf_engaged) \/ m \in Range(svc_engaged[s])
<1> DEFINE A == conf_engaged
           B == svc_engaged[s]
<1>1. A \in Seq(Modules) /\ B \in Seq(Modules)
  BY DEF ListType
<1>2. ChainModules(s) = A \o B
  BY DEF ChainModules
<1> HIDE DEF A, B
<1>3. PICK k \in DOMAIN (A \o B) : m = (A \o B)[k]
  BY <1>2 DEF Range
<1>4. k \in 1..(Len(A) + Len(B)) /\ Len(A) \in Nat /\ Len(B) \in Nat
  BY <1>1
<1>5. CASE k <= Len(A)
  <2>1. (A \o B)[k] = A[k] /\ k \in DOMAIN A
    BY <1>1, <1>4, <1>5
  <2> QED BY <1>3, <2>1 DEF Range, A
<1>6. CASE k > Len(A)
  <2>1. (A \o B)[k] = B[k - Len(A)] /\ k - Len(A) \in DOMAIN B
    BY <1>1, <1>4, <1>6
  <2> QED BY <1>3, <2>1 DEF Range, B
<1> QED BY <1>4, <1>5, <1>6

\* A module that an operation lists anew is ready.
LEMMA EngagedReady ==
    ASSUME ListType, PhaseType, ListsReady, CallReady, [Next]_vars
    PROVE  \A o \in Ops : \A m \in engaged'[o] : SystemReady(system', disengaged', m)
<1> USE DEF lists, loop, phases, history
<1> DEFINE New == \A o \in Ops : \A m \in engaged'[o] :
                     m \in engaged[o] \/ SystemReady(system', disengaged', m)
<1>1. ASSUME NEW s \in Svcs, NEW m \in Range(ChainModules(s))
      PROVE  SystemReady(system', disengaged', m)
  <2>1. m \in Modules /\ Ready(m)
    BY <1>1, ChainSources, ChainRange DEF ListsReady
  <2> QED BY <2>1, ReadyKept
<1>2. ASSUME NEW s \in Svcs, ConfAddSvc(s) PROVE New
  <2>1. engaged' = [o \in Ops |-> IF o \in ops[s]
                                  THEN engaged[o] \cup Range(ChainModules(s))
                                  ELSE engaged[o]]
    BY <1>2 DEF ConfAddSvc
  <2> QED BY <1>1, <2>1
<1>3. CASE AddModuleOp
  <2>1. PICK o \in ops_left :
          engaged' = [engaged EXCEPT ![o] = @ \cup Range(ChainModules(svc))]
    BY <1>3 DEF AddModuleOp
  <2>2. svc \in Svcs /\ o \in Ops
    BY <1>3 DEF AddModuleOp, ListType
  <2>3. \A p \in Ops : \A m \in engaged'[p] :
           m \in engaged[p] \/ m \in Range(ChainModules(svc))
    BY <2>1, <2>2 DEF ListType
  <2>4. New
    BY <1>1, <2>2, <2>3
  <2> QED BY <2>4, ReadyKept DEF ListsReady, ListType
<1>4. ASSUME NEW o \in ops_left, o \in Ops, SystemReady(system', disengaged', mod),
             engaged' = [engaged EXCEPT ![o] = @ \cup {mod}]
      PROVE  New
  <2>1. \A p \in Ops : \A m \in engaged'[p] : m \in engaged[p] \/ m = mod
    BY <1>4 DEF ListType
  <2> QED BY <1>4, <2>1
<1>5. ASSUME NEW o \in ops_left, EngageOpGlobally(o) PROVE New
  <2>1. UNCHANGED engaged \/ engaged' = [engaged EXCEPT ![o] = @ \cup {mod}]
    BY <1>5 DEF EngageOpGlobally
  <2>2. mod \in Modules /\ o \in Ops /\ Ready(mod)
    BY <1>5 DEF EngageOpGlobally, ListType, CallReady
  <2>3. SystemReady(system', disengaged', mod)
    BY <2>2, ReadyKept
  <2> QED BY <1>4, <2>1, <2>2, <2>3
<1>6. ASSUME NEW o \in ops_left, EngageOpToSvc(o) PROVE New
  <2> DEFINE x == Start(system, user[o])
             y == AddHandlers(x, mod, Names)
  <2>1. \/ UNCHANGED engaged
        \/ /\ y.status = "SUCCESS" /\ system' = y.system
           /\ engaged' = [engaged EXCEPT ![o] = @ \cup {mod}]
    BY <1>6 DEF EngageOpToSvc
  <2>2. mod \in Modules /\ o \in Ops
    BY <1>6 DEF EngageOpToSvc, ListType
  <2>3. x \in Holders
    BY <2>2, StartType
  <2>4. SystemHandlers(mod) \subseteq Names
    BY <2>2, NotDispatcher DEF SystemHandlers
  <2>5. y.status = "SUCCESS" => SystemReady(y.system, disengaged', mod)
    BY <2>2, <2>3, <2>4, LoopSystemReady
  <2> HIDE DEF x, y
  <2> QED BY <1>4, <2>1, <2>2, <2>5
<1>7. ASSUME NEW o \in ops_left, DisengageOp(o) PROVE New
  <2>1. engaged' = engaged \/ engaged' = [engaged EXCEPT ![o] = engaged[o] \ {mod}]
    BY <1>7 DEF DisengageOp, Unlist, ListType
  <2> QED BY <2>1 DEF ListType
<1>8. CASE \/ \E m \in Modules : ConfEngageModule(m)
           \/ \E o \in Ops, m \in Modules : OpEngageModule(o, m)
           \/ \E s \in Svcs, m \in Modules : SvcEngageModule(s, m)
           \/ \E s \in Svcs, m \in Modules : SvcDisengageModule(s, m)
           \/ NextSvc \/ SvcsDone \/ ModuleOpsDone \/ OpsDone
           \/ Terminated \/ UNCHANGED vars
  <2>1. UNCHANGED engaged
    BY <1>8 DEF ConfEngageModule, OpEngageModule, SvcEngageModule, SvcDisengageModule,
                NextSvc, SvcsDone, ModuleOpsDone, OpsDone, Terminated, vars
  <2>2. New
    BY <2>1
  <2> QED BY <2>2, ReadyKept DEF ListsReady, ListType
<1>9. New => \A o \in Ops : \A m \in engaged'[o] : SystemReady(system', disengaged', m)
  BY ReadyKept DEF ListsReady, ListType
<1> HIDE DEF New
<1> QED BY <1>2, <1>3, <1>5, <1>6, <1>7, <1>8, <1>9 DEF Next, Step

\* So are the modules the configuration and the services list.
LEMMA ListedReady ==
    ASSUME ListType, PhaseType, ListsReady, CallReady, [Next]_vars
    PROVE  /\ \A m \in Range(conf_engaged') : SystemReady(system', disengaged', m)
           /\ \A s \in Svcs : \A m \in Range(svc_engaged'[s]) :
                  SystemReady(system', disengaged', m)
<1> USE DEF lists, loop, phases, history
<1>1. ASSUME NEW m \in Range(conf_engaged) PROVE SystemReady(system', disengaged', m)
  <2>1. m \in Modules /\ Ready(m)
    BY DEF ListType, ListsReady, Range
  <2> QED BY <2>1, ReadyKept
<1>2. ASSUME NEW s \in Svcs, NEW m \in Range(svc_engaged[s])
      PROVE  SystemReady(system', disengaged', m)
  <2>1. svc_engaged[s] \in Seq(Modules)
    BY DEF ListType
  <2>2. m \in Modules /\ Ready(m)
    BY <1>2, <2>1 DEF ListsReady, Range
  <2> QED BY <2>2, ReadyKept
<1>3. CASE UNCHANGED <<conf_engaged, svc_engaged>>
  BY <1>1, <1>2, <1>3
<1>4. CASE SvcsDone
  <2>1. /\ conf_engaged' = Append(conf_engaged, mod) /\ svc_engaged' = svc_engaged
        /\ pc = "svcs"
    BY <1>4 DEF SvcsDone
  <2>2. mod \in Modules /\ Ready(mod) /\ conf_engaged \in Seq(Modules)
    BY <2>1 DEF ListType, CallReady
  <2>3. Range(conf_engaged') = Range(conf_engaged) \cup {mod}
    BY <2>1, <2>2, AppendRange
  <2> QED BY <1>1, <1>2, <2>1, <2>2, <2>3, ReadyKept
<1>5. CASE OpsDone
  <2>1. CASE svc_engaged' = svc_engaged
    BY <1>3, <1>5, <2>1 DEF OpsDone
  <2>2. CASE svc_engaged' # svc_engaged
    <3>1. /\ svc_engaged' = [svc_engaged EXCEPT ![svc] = Append(@, mod)]
          /\ conf_engaged' = conf_engaged
          /\ pc = "ops" /\ fn = "svc_engage_module" /\ ops_left = {}
      BY <1>5, <2>2 DEF OpsDone
    <3>2. mod \in Modules /\ Ready(mod) /\ svc \in Svcs
      BY <3>1 DEF ListType, CallReady
    <3>3. svc_engaged \in [Svcs -> Seq(Modules)] /\ svc_engaged[svc] \in Seq(Modules)
      BY <3>2 DEF ListType
    <3>4. Range(Append(svc_engaged[svc], mod)) = Range(svc_engaged[svc]) \cup {mod}
      BY <3>2, <3>3, AppendRange
    <3>5. \A s \in Svcs : \/ svc_engaged'[s] = svc_engaged[s]
                          \/ s = svc /\ svc_engaged'[s] = Append(svc_engaged[svc], mod)
      BY <3>1, <3>3
    <3>6. SystemReady(system', disengaged', mod)
      BY <3>2, ReadyKept
    <3>7. ASSUME NEW s \in Svcs, NEW m \in Range(svc_engaged'[s])
          PROVE  m \in Range(svc_engaged[s]) \/ m = mod
      <4>1. CASE svc_engaged'[s] = svc_engaged[s]
        BY <3>7, <4>1
      <4>2. CASE s = svc /\ svc_engaged'[s] = Append(svc_engaged[svc], mod)
        <5>1. Range(svc_engaged'[s]) = Range(svc_engaged[s]) \cup {mod}
          BY <3>4, <4>2
        <5> QED BY <3>7, <5>1
      <4> QED BY <3>5, <4>1, <4>2
    <3> QED BY <1>1, <1>2, <3>1, <3>6, <3>7
  <2> QED BY <2>1, <2>2
<1>6. ASSUME NEW s \in Svcs, ConfAddSvc(s) PROVE UNCHANGED <<conf_engaged, svc_engaged>>
  BY <1>6 DEF ConfAddSvc
<1>7. ASSUME NEW m \in Modules, ConfEngageModule(m)
      PROVE  UNCHANGED <<conf_engaged, svc_engaged>>
  BY <1>7 DEF ConfEngageModule
<1>8. CASE \/ \E o \in Ops, m \in Modules : OpEngageModule(o, m)
           \/ \E s \in Svcs, m \in Modules : SvcEngageModule(s, m)
           \/ \E s \in Svcs, m \in Modules : SvcDisengageModule(s, m)
           \/ \E o \in ops_left : EngageOpGlobally(o)
           \/ \E o \in ops_left : EngageOpToSvc(o)
           \/ \E o \in ops_left : DisengageOp(o)
           \/ NextSvc \/ AddModuleOp \/ ModuleOpsDone \/ Terminated \/ UNCHANGED vars
  <2>1. UNCHANGED <<conf_engaged, svc_engaged>>
    BY <1>8 DEF OpEngageModule, SvcEngageModule, SvcDisengageModule, EngageOpGlobally,
                EngageOpToSvc, DisengageOp, NextSvc, AddModuleOp, ModuleOpsDone, Terminated, vars
  <2> QED BY <1>3, <2>1
<1> QED BY <1>3, <1>4, <1>5, <1>6, <1>7, <1>8 DEF Next, Step

\* Every call brings the module it is about to list forward.
LEMMA CallReadyStep ==
    ASSUME ListType, PhaseType, ListsReady, CallReady, [Next]_vars
    PROVE  CallReady'
<1> USE DEF lists, loop, phases, history
<1> DEFINE NonEmpty == \A s \in all_svcs' : ops'[s] # {}
           Conf == pc' # "idle" /\ fn' = "conf_engage_module"
                      => SystemReady(system', disengaged', mod')
           OfSvc == pc' \in {"module_ops", "ops"} /\ fn' = "svc_engage_module"
                      => svc' \in all_svcs'
           InSvc == pc' = "ops" /\ fn' = "svc_engage_module"
                      => ops_left' # {} \/ SystemReady(system', disengaged', mod')
           Goal == NonEmpty /\ Conf /\ OfSvc /\ InSvc
<1>1. pc # "idle" /\ Ready(mod) => SystemReady(system', disengaged', mod)
  BY ReadyKept DEF ListType
<1>2. ASSUME NEW s \in Svcs, ConfAddSvc(s) PROVE Goal
  <2>1. /\ all_svcs' \subseteq all_svcs \cup {s} /\ ops' = ops /\ pc' = "idle"
        /\ ops[s] # {}
    BY <1>2 DEF ConfAddSvc, Return
  <2> QED BY <2>1 DEF CallReady
<1>3. ASSUME NEW m \in Modules, ConfEngageModule(m) PROVE Goal
  <2>1. UNCHANGED <<all_svcs, ops>>
    BY <1>3 DEF ConfEngageModule
  <2>2. CASE pc' = "idle"
    BY <2>1, <2>2 DEF CallReady
  <2>3. CASE pc' # "idle"
    <3> DEFINE x == Start(system, EmptyPhase)
               y == AddHandlers(x, m, SystemHandlers(m))
    <3>1. /\ y.status = "SUCCESS" /\ system' = y.system
          /\ pc' = "svcs" /\ fn' = "conf_engage_module" /\ mod' = m
      BY <1>3, <2>3 DEF ConfEngageModule, Fail, Return
    <3>2. EmptyPhase \in PhaseState
      BY DEF EmptyPhase, PhaseState
    <3>3. x \in Holders
      BY <3>2 DEF Start, Holders, PhaseType
    <3> HIDE DEF x
    <3>4. y.status = "SUCCESS" => SystemReady(y.system, disengaged', m)
      BY <3>3, LoopSystemReady
    <3> HIDE DEF y
    <3>5. Conf
      BY <3>1, <3>4
    <3> QED BY <2>1, <3>1, <3>5 DEF CallReady
  <2> QED BY <2>2, <2>3
<1>4. ASSUME NEW s \in Svcs, NEW m \in Modules, SvcEngageModule(s, m) PROVE Goal
  BY <1>4 DEF SvcEngageModule, CallReady
<1>5. ASSUME NEW s \in Svcs, NEW m \in Modules, SvcDisengageModule(s, m) PROVE Goal
  BY <1>5 DEF SvcDisengageModule, CallReady
<1>6. ASSUME NEW o \in Ops, NEW m \in Modules, OpEngageModule(o, m) PROVE Goal
  <2>1. pc' = "idle" /\ UNCHANGED <<all_svcs, ops>>
    BY <1>6 DEF OpEngageModule, Return
  <2> QED BY <2>1 DEF CallReady
<1>7. CASE NextSvc
  <2>1. /\ pc = "svcs" /\ fn = "conf_engage_module" /\ UNCHANGED <<all_svcs, ops, fn, mod>>
    BY <1>7 DEF NextSvc, ListType
  <2>2. Goal
    BY <1>1, <2>1 DEF CallReady
  <2> QED BY <2>2 DEF CallReady, Ready
<1>8. CASE SvcsDone \/ Terminated
  <2>1. pc' = "idle" /\ UNCHANGED <<all_svcs, ops>>
    BY <1>8 DEF SvcsDone, Return, Terminated, vars
  <2> QED BY <2>1 DEF CallReady
<1>9. CASE AddModuleOp
  <2>1. PICK o \in ops_left : ops' = ops \/ ops' = [ops EXCEPT ![svc] = @ \cup {o}]
    BY <1>9 DEF AddModuleOp
  <2>2. /\ UNCHANGED <<all_svcs, fn, mod, svc>> /\ pc = "module_ops"
        /\ pc' \in {"idle", "module_ops"}
    BY <1>9 DEF AddModuleOp, Fail, Return
  <2>3. \A s \in all_svcs : ops[s] \subseteq ops'[s]
    BY <2>1, <2>2 DEF ListType
  <2>4. Goal
    BY <1>1, <2>2, <2>3 DEF CallReady
  <2> QED BY <2>4 DEF CallReady, Ready
<1>10. CASE ModuleOpsDone
  <2>1. /\ UNCHANGED <<all_svcs, ops, fn, mod, svc>> /\ pc = "module_ops" /\ pc' = "ops"
        /\ ops_left' = ops[svc]
    BY <1>10 DEF ModuleOpsDone
  <2>2. Goal
    BY <1>1, <2>1 DEF CallReady
  <2> QED BY <2>2 DEF CallReady, Ready
<1>11. ASSUME NEW o \in ops_left, EngageOpGlobally(o) \/ DisengageOp(o) PROVE Goal
  <2>1. /\ UNCHANGED <<all_svcs, ops, fn, mod>> /\ pc = "ops"
        /\ fn # "svc_engage_module"
    BY <1>11 DEF EngageOpGlobally, DisengageOp
  <2> QED BY <1>1, <2>1 DEF CallReady
<1>12. ASSUME NEW o \in ops_left, EngageOpToSvc(o) PROVE Goal
  <2> DEFINE x == Start(system, user[o])
             y == AddHandlers(x, mod, Names)
  <2>1. /\ UNCHANGED <<all_svcs, ops, fn, mod, svc>> /\ pc = "ops"
        /\ fn = "svc_engage_module"
    BY <1>12 DEF EngageOpToSvc
  <2>2. mod \in Modules /\ o \in Ops
    BY <2>1 DEF ListType
  <2>3. pc' = "ops" => SystemReady(system', disengaged', mod)
    <3>1. CASE mod \in engaged[o]
      <4>1. Ready(mod)
        BY <2>2, <3>1 DEF ListsReady
      <4> QED BY <1>1, <2>1, <4>1
    <3>2. CASE mod \notin engaged[o]
      <4>1. system' = y.system /\ (pc' = "ops" => y.status = "SUCCESS")
        BY <1>12, <3>2 DEF EngageOpToSvc, Fail, Return
      <4>2. x \in Holders
        BY <2>2, StartType
      <4>3. SystemHandlers(mod) \subseteq Names
        BY <2>2, NotDispatcher DEF SystemHandlers
      <4>4. y.status = "SUCCESS" => SystemReady(y.system, disengaged', mod)
        BY <2>2, <4>2, <4>3, LoopSystemReady
      <4> HIDE DEF x, y
      <4> QED BY <4>1, <4>4
    <3> QED BY <3>1, <3>2
  <2> QED BY <2>1, <2>3 DEF CallReady
<1>13. CASE OpsDone
  <2>1. /\ UNCHANGED <<all_svcs, ops, fn, mod>> /\ pc = "ops"
        /\ pc' = "idle" \/ pc' = "svcs"
    BY <1>13 DEF OpsDone, Return
  <2>2. Goal
    BY <1>1, <2>1 DEF CallReady
  <2> QED BY <2>2 DEF CallReady, Ready
<1>14. CASE UNCHANGED vars
  BY <1>14 DEF CallReady, Ready, vars
<1>15. Goal => CallReady'
  BY DEF CallReady, Ready
<1> HIDE DEF Goal
<1> QED BY <1>2, <1>3, <1>4, <1>5, <1>6, <1>7, <1>8, <1>9, <1>10, <1>11, <1>12, <1>13, <1>14,
           <1>15 DEF Next, Step

\* A module that an operation lists has its system-phase handlers in the
\* configuration's system phase, unless some service disengaged it: not one of
\* the ways to list a module forgets to add them.
THEOREM EngagedInSystem == Spec => []SystemHandlersPresent
<1> DEFINE IInv == ListType /\ PhaseType /\ ListsReady /\ CallReady
<1>1. Init => IInv
  <2>1. Init => ListsReady /\ CallReady
    BY DEF Init, ListsReady, CallReady, Range
  <2> QED BY <2>1, ListInit, PhaseInit
<1>2. IInv /\ [Next]_vars => IInv'
  <2>1. ASSUME IInv, [Next]_vars PROVE ListsReady'
    BY <2>1, EngagedReady, ListedReady DEF ListsReady, Ready
  <2> QED BY <2>1, ListStep, PhaseStep, CallReadyStep DEF PhasesKept
<1>3. IInv => SystemHandlersPresent
  BY DEF ListsReady, Ready, SystemReady, SystemHandlersPresent
<1> HIDE DEF IInv
<1> QED BY <1>1, <1>2, <1>3, PTL DEF Spec

-----------------------------------------------------------------------------
(* Type correctness.                                                        *)

\* The types of what is neither a list nor a phase.
CallType ==
    /\ missing \subseteq OptionalNames
    /\ pc \in {"idle", "svcs", "module_ops", "ops"}
    /\ fn \in {"none", "conf_engage_module", "svc_engage_module",
               "op_engage_module", "svc_disengage_module"}
    /\ mod \in Modules \cup {NULL} /\ svc \in Svcs \cup {NULL}
    /\ flag \in BOOLEAN /\ failed \in BOOLEAN
    /\ status \in {"SUCCESS", "FAILURE"}
    /\ calls \in 0..MaxCalls
    /\ disengaged \cup overlap \subseteq Modules

\* Every call keeps them.
LEMMA CallTypeStep ==
    ASSUME ListType, PhaseType, CallType, [Next]_vars
    PROVE  CallType'
<1> USE DEF lists, loop, phases, history
<1>1. CASE UNCHANGED vars
  BY <1>1 DEF CallType, vars
<1> SUFFICES ASSUME Step, missing' = missing PROVE CallType'
  BY <1>1 DEF Next
<1>2. NewCall => calls' \in 0..MaxCalls
  BY ResolverAssumption DEF NewCall, CallType
<1>3. ASSUME NEW s \in Svcs, ConfAddSvc(s) PROVE CallType'
  <2>1. PICK last \in ops[s] : Return(BuildChainsForOp(last, s).status)
    BY <1>3 DEF ConfAddSvc
  <2>2. last \in Ops
    BY DEF ListType
  <2>3. BuildChainsForOp(last, s) \in Holders
    BY <2>2, ChainsBuilt DEF PhaseType
  <2>4. BuildChainsForOp(last, s).status \in {"SUCCESS", "FAILURE"}
    BY <2>3 DEF Holders
  <2>5. failed' \in BOOLEAN
    BY <1>3, Zenon DEF ConfAddSvc
  <2>6. NewCall /\ UNCHANGED <<fn, mod, svc, flag, disengaged, overlap>>
    BY <1>3 DEF ConfAddSvc
  <2> QED BY <1>2, <2>1, <2>4, <2>5, <2>6 DEF CallType, Return
<1>4. ASSUME NEW m \in Modules, ConfEngageModule(m) PROVE CallType'
  <2>1. NewCall
    BY <1>4 DEF ConfEngageModule
  <2>2. CASE Contains(conf_engaged, m)
    BY <1>2, <1>4, <2>1, <2>2 DEF ConfEngageModule, Return, CallType
  <2>3. CASE ~Contains(conf_engaged, m)
    <3>1. /\ fn' = "conf_engage_module" /\ mod' = m
          /\ UNCHANGED <<svc, flag, disengaged>>
          /\ pc' \in {"svcs", "idle"}
          /\ status' = status \/ status' = "FAILURE"
          /\ overlap' = overlap \/ overlap' = overlap \cup {m}
      BY <1>4, <2>3 DEF ConfEngageModule, Fail, Return
    <3>2. failed' = failed \/ failed' = TRUE
      BY <1>4, <2>3 DEF ConfEngageModule, Fail
    <3> QED BY <1>2, <2>1, <3>1, <3>2 DEF CallType
  <2> QED BY <2>2, <2>3
<1>5. ASSUME NEW s \in Svcs, NEW m \in Modules, SvcEngageModule(s, m) PROVE CallType'
  BY <1>2, <1>5 DEF SvcEngageModule, CallType
<1>6. ASSUME NEW s \in Svcs, NEW m \in Modules, SvcDisengageModule(s, m) PROVE CallType'
  BY <1>2, <1>6 DEF SvcDisengageModule, CallType
<1>7. ASSUME NEW o \in Ops, NEW m \in Modules, OpEngageModule(o, m) PROVE CallType'
  <2>1. /\ NewCall /\ fn' = "op_engage_module" /\ mod' = m
        /\ pc' = "idle" /\ status' \in {"SUCCESS", "FAILURE"}
        /\ UNCHANGED <<svc, flag, disengaged, overlap>>
    BY <1>7 DEF OpEngageModule, Return
  <2>2. failed' \in BOOLEAN
    BY <1>7, Zenon DEF OpEngageModule, CallType
  <2> QED BY <1>2, <2>1, <2>2 DEF CallType
<1>8. CASE NextSvc
  <2>1. PICK s \in svcs_left : svc' = s
    BY <1>8 DEF NextSvc
  <2>2. s \in Svcs
    BY DEF ListType
  <2> QED BY <1>8, <2>1, <2>2 DEF NextSvc, CallType
<1>9. CASE SvcsDone
  BY <1>9 DEF SvcsDone, Return, CallType
<1>10. CASE AddModuleOp
  <2>1. /\ pc' \in {pc, "idle"} /\ status' \in {status, "FAILURE"}
        /\ UNCHANGED <<fn, mod, svc, flag, calls, disengaged, overlap>>
    BY <1>10 DEF AddModuleOp, Fail, Return
  <2>2. failed' = failed \/ failed' = TRUE
    BY <1>10 DEF AddModuleOp, Fail
  <2> QED BY <2>1, <2>2 DEF CallType
<1>11. CASE ModuleOpsDone
  BY <1>11 DEF ModuleOpsDone, CallType
<1>12. ASSUME NEW o \in ops_left, EngageOpGlobally(o) PROVE CallType'
  <2>1. /\ pc' \in {pc, "idle"} /\ status' \in {status, "FAILURE"}
        /\ UNCHANGED <<fn, mod, svc, calls, disengaged, overlap>>
    BY <1>12 DEF EngageOpGlobally, Fail, Return
  <2>2. failed' = failed \/ failed' = TRUE
    BY <1>12 DEF EngageOpGlobally, Fail
  <2>3. flag' \in BOOLEAN
    BY <1>12, Zenon DEF EngageOpGlobally, Skips
  <2> QED BY <2>1, <2>2, <2>3 DEF CallType
<1>13. ASSUME NEW o \in ops_left, EngageOpToSvc(o) PROVE CallType'
  <2>1. /\ pc' \in {pc, "idle"} /\ status' \in {status, "FAILURE"}
        /\ UNCHANGED <<fn, mod, svc, flag, calls, disengaged, overlap>>
    BY <1>13 DEF EngageOpToSvc, Fail, Return
  <2>2. failed' = failed \/ failed' = TRUE
    BY <1>13 DEF EngageOpToSvc, Fail
  <2> QED BY <2>1, <2>2 DEF CallType
<1>14. ASSUME NEW o \in ops_left, DisengageOp(o) PROVE CallType'
  <2> DEFINE r == RemoveHandlers(Start(system, user[o]), mod)
  <2>1. mod \in Modules /\ o \in Ops
    BY <1>14 DEF DisengageOp, ListType
  <2>2. r \in Holders
    BY <2>1, StartType, HandlersRemoved
  <2>3. r.status \in {"SUCCESS", "FAILURE"}
    BY <2>2 DEF Holders
  <2>4. /\ pc' \in {pc, "idle"} /\ status' \in {status, r.status}
        /\ UNCHANGED <<fn, mod, svc, flag, calls, disengaged, overlap>>
    BY <1>14 DEF DisengageOp
  <2>5. failed' \in BOOLEAN
    <3>1. CASE mod \in engaged[o]
      BY <1>14, <3>1, Zenon DEF DisengageOp
    <3>2. CASE mod \notin engaged[o]
      BY <1>14, <3>2 DEF DisengageOp, CallType
    <3> QED BY <3>1, <3>2
  <2> HIDE DEF r
  <2> QED BY <2>3, <2>4, <2>5 DEF CallType
<1>15. CASE OpsDone
  <2>1. /\ pc' \in {"svcs", "idle"} /\ status' \in {status, "SUCCESS"}
        /\ UNCHANGED <<fn, mod, svc, flag, calls, disengaged, overlap, failed>>
    BY <1>15 DEF OpsDone, Return
  <2> QED BY <2>1 DEF CallType
<1>16. CASE Terminated
  BY <1>1, <1>16 DEF Terminated
<1> QED BY <1>3, <1>4, <1>5, <1>6, <1>7, <1>8, <1>9, <1>10, <1>11, <1>12, <1>13, <1>14, <1>15,
           <1>16 DEF Step

\* Whatever is engaged where: the lists hold modules, the phases are phases, and
\* the loops work on operations and services that exist.
THEOREM TypeCorrect == Spec => []TypeOK
<1> DEFINE IInv == ListType /\ PhaseType /\ CallType
<1>1. Init => IInv
  <2>1. ASSUME Init PROVE CallType
    <3>1. missing \subseteq OptionalNames /\ mod = NULL /\ svc = NULL
      BY <2>1 DEF Init
    <3>2. /\ pc = "idle" /\ fn = "none" /\ status = "SUCCESS"
          /\ disengaged = {} /\ overlap = {}
      BY <2>1 DEF Init
    <3>3. flag = FALSE /\ failed = FALSE
      BY <2>1 DEF Init
    <3>4. calls \in 0..MaxCalls
      BY <2>1, ResolverAssumption DEF Init
    <3> QED BY <3>1, <3>2, <3>3, <3>4 DEF CallType
  <2> QED BY <2>1, ListInit, PhaseInit
<1>2. IInv /\ [Next]_vars => IInv'
  BY ListStep, PhaseStep, CallTypeStep DEF PhasesKept
<1>3. IInv => TypeOK
  BY DEF ListType, PhaseType, CallType, TypeOK
<1> HIDE DEF IInv
<1> QED BY <1>1, <1>2, <1>3, PTL DEF Spec
=============================================================================
