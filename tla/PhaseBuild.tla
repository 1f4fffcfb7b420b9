----------------------------- MODULE PhaseBuild -----------------------------
(***************************************************************************)
(* One phase while modules are engaged and disengaged: handler             *)
(* descriptions are added and removed in any order, under any combination  *)
(* of phase rules.  The rules ask for an order; the phase only ever looks  *)
(* at the handler being added and never re-sorts, so whether the order is  *)
(* kept depends on the whole sequence of calls.                            *)
(***************************************************************************)
EXTENDS Phase

CONSTANTS
    RuleSets,  \* the rule assignments explored, functions Names -> PhaseRule
    MaxLen     \* bound: length of the handler list

ASSUME BuildAssumption ==
    /\ RuleSets \subseteq [Names -> PhaseRule]
    /\ MaxLen \in Nat

VARIABLES
    rules,   \* the rules of each handler, fixed by module.xml
    phase,   \* the phase
    status,  \* what the last call returned
    due,     \* history: <<x, y, n>>: when n was added, its rules asked for x
             \* before y and both were in the phase
    again    \* history: a description was added while its handler was there

vars == <<rules, phase, status, due, again>>

\* axis2_phase_create; nothing has been engaged yet.
Init ==
    /\ rules \in RuleSets
    /\ phase = EmptyPhase
    /\ status = "SUCCESS"
    /\ due = {}
    /\ again = FALSE

\* What the rules of n ask for, of the handlers already in the phase.
Asked(n) ==
    {<<n, b, n>> : b \in {rules[n].before} \cap {b \in Names : InPhase(phase, b)}}
    \cup
    {<<a, n, n>> : a \in {rules[n].after} \cap {a \in Names : InPhase(phase, a)}}

\* A module with handler n is engaged.  A description added while its handler
\* is in the phase records no new demand: it may have been ignored.
Engage(n) ==
    /\ Len(phase.handlers) < MaxLen
    /\ LET result == AddHandlerDesc(phase, n, rules[n])
       IN  /\ phase' = result.phase
           /\ status' = result.status
           /\ due' = IF result.status = "SUCCESS" /\ ~InPhase(phase, n)
                     THEN due \cup Asked(n)
                     ELSE due
    /\ again' = (again \/ InPhase(phase, n))
    /\ UNCHANGED rules

\* A module with handler n is disengaged.
Disengage(n) ==
    /\ InPhase(phase, n)
    /\ LET result == RemoveHandlerDesc(phase, n)
       IN  /\ phase' = result.phase
           /\ status' = result.status
           /\ due' = {d \in due : \A x \in {d[1], d[2]} :
                                      InPhase(result.phase, x)}
    /\ UNCHANGED <<rules, again>>

Next == \E n \in Names : Engage(n) \/ Disengage(n)

Spec == Init /\ [][Next]_vars
-----------------------------------------------------------------------------
\* The variables have their types.
TypeOK ==
    /\ rules \in RuleSets
    /\ phase \in PhaseState
    /\ status \in {"SUCCESS", "FAILURE"}
    /\ due \subseteq Names \X Names \X Names
    /\ again \in BOOLEAN

\* Every x comes before every y in the order of invocation.
Precedes(x, y) ==
    LET c == Chain(phase)
    IN  \A j, k \in 1..Len(c) : c[j] = x /\ c[k] = y => j < k

OneRule(n) == rules[n].before = NULL \/ rules[n].after = NULL

\* Of a handler that is both phaseFirst and phaseLast, before and after are
\* not looked at.
Alone(n) == rules[n].first /\ rules[n].last

\* A handler added with one of before and after, while the handler it names
\* was in the phase, is and stays on the right side of it, whatever is added
\* or removed later (insert_before, insert_after and every later insertion).
\* A description added twice may leave a second copy on the wrong side; with both
\* rules at once insert_before_and_after may break one of them.
OneRuleKept ==
    ~again => \A d \in due : OneRule(d[3]) /\ ~Alone(d[3]) => Precedes(d[1], d[2])

\* Adding a handler never reorders, drops or doubles the handlers the phase
\* invokes already, and adds the new one at most once: without it the chain
\* is the old one.
AddKeepsOrder ==
    [][\A n \in Names : Engage(n) /\ ~InPhase(phase, n) =>
          RemoveFirst(Chain(phase'), n) = Chain(phase)]_vars

\* The phase never invokes a handler twice for one message, as long as every
\* description is added only while its handler is absent (add_at does not
\* look for duplicates).
NoDuplicates == ~again => IsInjective(Chain(phase))
=============================================================================
