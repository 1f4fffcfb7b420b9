---------------------------- MODULE MCClientCall ----------------------------
(* Small instances of ClientCall for TLC.                                   *)
EXTENDS ClientCall

\* Any two calls, or three of which the first and the last have callbacks that
\* may lie in the same memory.
AllPrograms == {<<j, k, "none">> : j \in KindNames, k \in KindNames}
               \cup {<<"dual_blocking", "dual_robust", "dual">>}
OnlyNonBlocking == {<<"non_blocking">>}
OnlyDualBlocking == {<<"dual_blocking", "dual_blocking", "dual_blocking">>}
=============================================================================
