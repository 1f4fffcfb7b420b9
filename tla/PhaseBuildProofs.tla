-------------------------- MODULE PhaseBuildProofs --------------------------
(***************************************************************************)
(* Proofs about PhaseBuild for all handler names and phase rules: the      *)
(* insertions of phase.c keep the order they were asked for and double no  *)
(* handler, whatever is added and removed in between.                      *)
(***************************************************************************)
EXTENDS PhaseBuild, PhaseProofs

\* The initial state has its type.
LEMMA TypeInit == Init => TypeOK
<1> SUFFICES ASSUME Init PROVE TypeOK
  OBVIOUS
<1>1. EmptyPhase \in PhaseState
  BY DEF EmptyPhase, PhaseState
<1> QED BY <1>1 DEF Init, TypeOK

\* Engaging and disengaging keep the types.
LEMMA TypeStep == TypeOK /\ [Next]_vars => TypeOK'
<1> SUFFICES ASSUME TypeOK, [Next]_vars PROVE TypeOK'
  OBVIOUS
<1>1. ASSUME NEW n \in Names, Engage(n) PROVE TypeOK'
  <2>1. rules[n] \in PhaseRule /\ rules \in RuleSets
    BY BuildAssumption DEF TypeOK
  <2>2. Grown(phase, AddHandlerDesc(phase, n, rules[n]), n)
    BY <2>1, AddGrows DEF TypeOK
  <2>3. phase' \in PhaseState /\ status' \in {"SUCCESS", "FAILURE"}
    BY <1>1, <2>2 DEF Engage, Grown, Refused, TypeOK
  <2>4. Asked(n) \subseteq Names \X Names \X Names
    BY DEF Asked
  <2>5. due' \subseteq Names \X Names \X Names
    BY <1>1, <2>4 DEF Engage, TypeOK
  <2>6. again' \in BOOLEAN
    BY <1>1 DEF Engage, TypeOK, InPhase
  <2> QED BY <1>1, <2>1, <2>3, <2>5, <2>6 DEF Engage, TypeOK
<1>2. ASSUME NEW n \in Names, Disengage(n) PROVE TypeOK'
  <2>1. RemoveUnique(phase.handlers, n) \in Seq(Names)
    <3>1. phase.handlers \in Seq(Names)
      BY DEF TypeOK, PhaseState
    <3>2. CASE Contains(phase.handlers, n)
      BY <3>1, <3>2, RemoveInserted DEF RemoveUnique, Inserted
    <3>3. CASE ~Contains(phase.handlers, n)
      BY <3>1, <3>3 DEF RemoveUnique, RemoveFirst, Contains
    <3> QED BY <3>2, <3>3
  <2>2. phase' = [phase EXCEPT !.handlers = RemoveUnique(phase.handlers, n)]
        /\ status' = "SUCCESS"
    BY <1>2 DEF Disengage, RemoveHandlerDesc, WithList, Done
  <2>3. phase' \in PhaseState
    BY <2>1, <2>2, Zenon DEF TypeOK, PhaseState
  <2>4. due' \subseteq due
    BY <1>2 DEF Disengage
  <2>5. UNCHANGED <<rules, again>>
    BY <1>2 DEF Disengage
  <2> QED BY <2>2, <2>3, <2>4, <2>5 DEF TypeOK
<1>3. CASE UNCHANGED vars
  BY <1>3 DEF TypeOK, vars
<1> QED BY <1>1, <1>2, <1>3 DEF Next

\* The variables of a phase under any sequence of engagements and
\* disengagements have their types: every index the insertions of phase.c
\* compute is a place of the handler list.
THEOREM TypeCorrect == Spec => []TypeOK
  BY TypeInit, TypeStep, PTL DEF Spec
-----------------------------------------------------------------------------
\* Adding a handler that is absent inserts it, or nothing, into the chain and
\* changes nothing else: axis2_phase_add_handler_desc never reorders.
THEOREM AddingKeepsOrder == Spec => AddKeepsOrder
<1>1. TypeOK /\ [Next]_vars =>
        [\A n \in Names : Engage(n) /\ ~InPhase(phase, n) =>
             RemoveFirst(Chain(phase'), n) = Chain(phase)]_vars
  <2> SUFFICES ASSUME TypeOK, NEW n \in Names, Engage(n), ~InPhase(phase, n)
               PROVE  RemoveFirst(Chain(phase'), n) = Chain(phase)
    OBVIOUS
  <2>1. rules[n] \in PhaseRule /\ phase \in PhaseState
    BY BuildAssumption DEF TypeOK
  <2>2. phase' = AddHandlerDesc(phase, n, rules[n]).phase
    BY DEF Engage
  <2> QED BY <2>1, <2>2, AddKeeps
<1> QED BY <1>1, TypeCorrect, PTL DEF Spec, AddKeepsOrder
-----------------------------------------------------------------------------
\* The demands D that rules ru made of the handlers of P are about handlers
\* that are there, and those of a handler with one rule are met.
DemandsMet(ru, P, D) ==
    \A d \in D :
        /\ InPhase(P, d[1]) /\ InPhase(P, d[2])
        /\ /\ ru[d[3]].before = NULL \/ ru[d[3]].after = NULL
           /\ ~(ru[d[3]].first /\ ru[d[3]].last)
           => ListOrder(Chain(P), d[1], d[2])

\* The inductive invariant: no doubles, and no demand broken.  That nothing
\* is in the chain twice is what makes one insertion decide an order.
ChainInv == ~again => IsInjective(Chain(phase)) /\ DemandsMet(rules, phase, due)

\* An empty phase satisfies the invariant.
LEMMA ChainInit == Init => ChainInv
<1> SUFFICES ASSUME Init PROVE ChainInv
  OBVIOUS
<1>1. Chain(EmptyPhase) = (<<>> \o <<>>) \o <<>>
  BY DEF Chain, EmptyPhase
<1>2. Chain(EmptyPhase) = <<>>
  BY <1>1
<1>3. IsInjective(<<>>)
  BY DEF IsInjective
<1> QED BY <1>2, <1>3 DEF Init, ChainInv, DemandsMet

\* Engaging a module keeps the invariant.
LEMMA ChainEngage ==
    ASSUME TypeOK, ChainInv, NEW n \in Names, Engage(n)
    PROVE  ChainInv'
<1> SUFFICES ASSUME ~again'
             PROVE  IsInjective(Chain(phase')) /\ DemandsMet(rules', phase', due')
  BY DEF ChainInv
<1> DEFINE R == AddHandlerDesc(phase, n, rules[n])
<1>1. rules[n] \in PhaseRule /\ phase \in PhaseState
  BY BuildAssumption DEF TypeOK
<1>2. /\ phase' = R.phase /\ rules' = rules /\ ~again /\ ~InPhase(phase, n)
      /\ due' = IF R.status = "SUCCESS" THEN due \cup Asked(n) ELSE due
  BY DEF Engage
<1>3. IsInjective(Chain(phase)) /\ DemandsMet(rules, phase, due)
  BY <1>2 DEF ChainInv
<1> HIDE DEF R
<1>4. phase' \in PhaseState
  BY <1>1, <1>2, AddGrows DEF Grown, Refused, R
<1>5. /\ IsInjective(Chain(phase'))
      /\ \A x, y : x # n /\ y # n /\ ListOrder(Chain(phase), x, y)
                      => ListOrder(Chain(phase'), x, y)
      /\ \A x : Contains(Chain(phase), x) => Contains(Chain(phase'), x)
  BY <1>1, <1>2, <1>3, AddKeeps DEF R
<1>6. \A x \in Names : InPhase(phase, x) => InPhase(phase', x)
  BY <1>1, <1>4, <1>5, ChainContains
<1>7. DemandsMet(rules, phase', due)
  <2> SUFFICES ASSUME NEW d \in due
               PROVE  /\ InPhase(phase', d[1]) /\ InPhase(phase', d[2])
                      /\ /\ rules[d[3]].before = NULL \/ rules[d[3]].after = NULL
                         /\ ~(rules[d[3]].first /\ rules[d[3]].last)
                         => ListOrder(Chain(phase'), d[1], d[2])
    BY DEF DemandsMet
  <2>1. d[1] \in Names /\ d[2] \in Names
    BY DEF TypeOK
  <2>2. /\ InPhase(phase, d[1]) /\ InPhase(phase, d[2])
        /\ /\ rules[d[3]].before = NULL \/ rules[d[3]].after = NULL
           /\ ~(rules[d[3]].first /\ rules[d[3]].last)
           => ListOrder(Chain(phase), d[1], d[2])
    BY <1>3 DEF DemandsMet
  <2>3. d[1] # n /\ d[2] # n
    BY <1>2, <2>2
  <2> QED BY <1>5, <1>6, <2>1, <2>2, <2>3
<1>8. ASSUME R.status = "SUCCESS" PROVE DemandsMet(rules, phase', Asked(n))
  <2> SUFFICES ASSUME NEW d \in Asked(n)
               PROVE  /\ InPhase(phase', d[1]) /\ InPhase(phase', d[2])
                      /\ /\ rules[d[3]].before = NULL \/ rules[d[3]].after = NULL
                         /\ ~(rules[d[3]].first /\ rules[d[3]].last)
                         => ListOrder(Chain(phase'), d[1], d[2])
    BY DEF DemandsMet
  <2> DEFINE r == rules[n]
  <2>1. NULL \notin Names
    BY NamesAssumption
  <2>2. R = AddHandlerDesc(phase, n, r) /\ r \in PhaseRule
    BY <1>1 DEF R
  <2>3. \/ d = <<n, r.before, n>> /\ r.before \in Names /\ InPhase(phase, r.before)
        \/ d = <<r.after, n, n>> /\ r.after \in Names /\ InPhase(phase, r.after)
    BY DEF Asked
  <2> HIDE DEF r
  <2>4. ASSUME ~(r.first /\ r.last)
        PROVE  /\ r.after = NULL /\ r.before \in Names /\ InPhase(phase, r.before) =>
                     ListOrder(Chain(phase'), n, r.before)
               /\ r.before = NULL /\ r.after \in Names /\ InPhase(phase, r.after) =>
                     ListOrder(Chain(phase'), r.after, n)
    BY <1>1, <1>2, <1>3, <1>8, <2>2, <2>4, DemandMet
  <2>5. InPhase(phase', n)
    <3>1. Extended(Chain(phase), Chain(phase'), n)
      BY <1>1, <1>2, <1>8, AddGrows DEF Grown, Refused, R
    <3>2. Contains(Chain(phase'), n)
      BY <3>1, InsertedContains DEF Extended
    <3> QED BY <1>4, <3>2, ChainContains
  <2>6. CASE d = <<n, r.before, n>> /\ r.before \in Names /\ InPhase(phase, r.before)
    BY <1>6, <2>1, <2>4, <2>5, <2>6 DEF r
  <2>7. CASE d = <<r.after, n, n>> /\ r.after \in Names /\ InPhase(phase, r.after)
    BY <1>6, <2>1, <2>4, <2>5, <2>7 DEF r
  <2> QED BY <2>3, <2>6, <2>7
<1>9. DemandsMet(rules, phase', due')
  BY <1>2, <1>7, <1>8 DEF DemandsMet
<1> QED BY <1>2, <1>5, <1>9

\* Disengaging a module keeps the invariant.
LEMMA ChainDisengage ==
    ASSUME TypeOK, TypeOK', ChainInv, NEW n \in Names, Disengage(n)
    PROVE  ChainInv'
<1> SUFFICES ASSUME ~again'
             PROVE  IsInjective(Chain(phase')) /\ DemandsMet(rules', phase', due')
  BY DEF ChainInv
<1> DEFINE l == phase.handlers
           m == RemoveUnique(l, n)
<1>1. phase' = [phase EXCEPT !.handlers = m]
  BY DEF Disengage, RemoveHandlerDesc, WithList, Done
<1>2. /\ rules' = rules /\ ~again
      /\ due' = {d \in due : \A x \in {d[1], d[2]} : InPhase(phase', x)}
  BY DEF Disengage
<1>3. IsInjective(Chain(phase)) /\ DemandsMet(rules, phase, due)
  BY <1>2 DEF ChainInv
<1>4. /\ phase \in PhaseState /\ phase' \in PhaseState
      /\ l \in Seq(Names)
  BY DEF TypeOK, PhaseState
<1>5. /\ phase'.handlers = m /\ phase'.first_handler = phase.first_handler
      /\ phase'.last_handler = phase.last_handler
  BY <1>1, <1>4 DEF PhaseState
<1>6. m = l \/ \E k : Inserted(m, l, k, n)
  BY <1>4, RemoveInserted DEF RemoveUnique, RemoveFirst, Contains
<1> HIDE DEF m
<1>7. Chain(phase') = Chain(phase) \/ \E k : Inserted(Chain(phase'), Chain(phase), k, n)
  <2>1. CASE m = l
    BY <1>5, <2>1 DEF Chain
  <2>2. CASE \E k : Inserted(m, l, k, n)
    <3>1. PICK k : Inserted(m, l, k, n)
      BY <2>2
    <3>2. \E k1 : Inserted(Chain(phase'), Chain(phase), k1, n)
      BY <1>4, <1>5, <3>1, ListInsert
    <3> QED BY <3>2
  <2> QED BY <1>6, <2>1, <2>2
<1>8. IsInjective(Chain(phase'))
  BY <1>3, <1>7, InsertedInjectiveBack
<1>9. \A x, y : ListOrder(Chain(phase), x, y) => ListOrder(Chain(phase'), x, y)
  BY <1>7, InsertedOrderBack
<1>10. DemandsMet(rules, phase', due')
  BY <1>2, <1>3, <1>9 DEF DemandsMet
<1> QED BY <1>2, <1>8, <1>10

\* Every step keeps the invariant.
LEMMA ChainStep == TypeOK /\ TypeOK' /\ ChainInv /\ [Next]_vars => ChainInv'
<1> SUFFICES ASSUME TypeOK, TypeOK', ChainInv, [Next]_vars PROVE ChainInv'
  OBVIOUS
<1>1. CASE UNCHANGED vars
  BY <1>1 DEF vars, ChainInv
<1>2. CASE Next
  BY <1>2, ChainEngage, ChainDisengage DEF Next
<1> QED BY <1>1, <1>2

\* As long as every description is added only while its handler is absent,
\* no handler is in the chain of a phase twice, so axis2_phase_invoke calls
\* none twice for one message.
THEOREM HandlersInvokedOnce == Spec => []NoDuplicates
<1>1. ChainInv => NoDuplicates
  BY DEF ChainInv, NoDuplicates
<1> QED BY <1>1, TypeCorrect, ChainInit, ChainStep, PTL DEF Spec

\* A handler added with a before or an after, while the handler it names was
\* in the phase, stays on the right side of it whatever axis2_phase adds and
\* removes later.
THEOREM RulesAreKept == Spec => []OneRuleKept
<1>1. ChainInv => OneRuleKept
  BY DEF ChainInv, OneRuleKept, DemandsMet, OneRule, Alone, Precedes, ListOrder
<1> QED BY <1>1, TypeCorrect, ChainInit, ChainStep, PTL DEF Spec
=============================================================================
