--------------------------- MODULE MCPhaseResolver ---------------------------
(* Two services and three modules for TLC: addr orders itself before a      *)
(* dispatcher of the system phase, as mod_addr does; rm brings an operation *)
(* of its own; sec asks for the first place of both phases.                 *)
EXTENDS PhaseResolver

MCSvcs == {"s1", "s2"}
MCOps == {"a", "b", "c", "m"}
MCModules == {"addr", "rm", "sec"}
MCSvcOps == [s \in MCSvcs |-> IF s = "s1" THEN {"a", "b"} ELSE {"c"}]
MCModOps == [x \in MCModules |-> IF x = "rm" THEN {"m"} ELSE {}]
MCModHandlers ==
    [x \in MCModules |-> CASE x = "addr" -> <<"addr_in", "addr_out">>
                           [] x = "rm" -> <<"rm_in", "rm_out">>
                           [] x = "sec" -> <<"sec_in", "sec_out">>]
MCSystemNames == {"addr_in", "rm_in", "sec_in"}
MCOptionalNames == {"sec_out"}
NoNames == {}
MCDispatchers == <<"uri", "addressing">>

Anywhere == [before |-> NULL, after |-> NULL, first |-> FALSE, last |-> FALSE]
MCNames == {"addr_in", "addr_out", "rm_in", "rm_out", "sec_in", "sec_out",
            "uri", "addressing"}
MCRules ==
    [n \in MCNames |->
        CASE n = "addr_in" -> [Anywhere EXCEPT !.before = "addressing"]
          [] n = "rm_out" -> [Anywhere EXCEPT !.after = "addr_out"]
          [] n \in {"sec_in", "sec_out"} -> [Anywhere EXCEPT !.first = TRUE]
          [] OTHER -> Anywhere]
=============================================================================
