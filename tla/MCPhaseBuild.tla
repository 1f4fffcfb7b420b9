---------------------------- MODULE MCPhaseBuild ----------------------------
(* The rule combinations of the manual, for TLC: any before, any after,     *)
(* phaseFirst, phaseLast, both of these alone and with a before, and two    *)
(* that are refused.                                                        *)
EXTENDS PhaseBuild

R(b, a, f, l) == [before |-> b, after |-> a, first |-> f, last |-> l]

Orders(n) ==
    {R(b, a, FALSE, FALSE) : b \in (Names \ {n}) \cup {NULL},
                             a \in (Names \ {n}) \cup {NULL}}
    \cup {R(NULL, NULL, TRUE, FALSE), R(NULL, NULL, FALSE, TRUE),
          R(NULL, NULL, TRUE, TRUE)}
    \cup {R(NULL, a, TRUE, FALSE) : a \in Names \ {n}}
    \cup {R(b, NULL, TRUE, TRUE) : b \in Names \ {n}}

AllRules == {f \in [Names -> UNION {Orders(n) : n \in Names}] :
                \A n \in Names : f[n] \in Orders(n)}

Symmetry == Permutations(Names)
=============================================================================
