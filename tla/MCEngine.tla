------------------------------ MODULE MCEngine ------------------------------
(* Small phase lists for Engine: a phase with several entries followed by a *)
(* second one, so that a message can be paused in every kind of position and *)
(* in either phase; one phase is empty, as PreDispatch is when no module    *)
(* registers there.                                                         *)
EXTENDS Engine

P(n, f, k, l) == [name |-> n, first |-> f, size |-> k, last |-> l]

\* The lists of messages that go in and out have no first handlers, as in the
\* default configuration; the fault lists have first and last handlers.
MCFlow == [l \in FlowNames |->
    CASE l = "pre" -> <<P("Transport", FALSE, 3, TRUE),
                        P("PreDispatch", FALSE, 0, FALSE), P("Dispatch", FALSE, 1, FALSE)>>
      [] l = "in" -> <<P("Security", FALSE, 2, TRUE), P("User", FALSE, 1, FALSE)>>
      [] l = "out" -> <<P("MessageOut", FALSE, 3, TRUE), P("User", FALSE, 1, FALSE)>>
      [] l = "global_out" -> <<P("GlobalOut", FALSE, 1, FALSE)>>
      [] l = "in_fault" -> <<P("InFault", TRUE, 2, TRUE), P("UserFault", TRUE, 1, FALSE)>>
      [] l = "out_fault" -> <<P("OutFault", TRUE, 2, TRUE), P("UserFault", FALSE, 1, TRUE)>>
      [] l = "global_out_fault" -> <<P("GlobalOutFault", TRUE, 0, TRUE)>>]

AllKinds == KindNames
OnlyIn == {"in"}
=============================================================================
