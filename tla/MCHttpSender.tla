---------------------------- MODULE MCHttpSender ----------------------------
(* One call of the HTTP sender, for every combination of its options.      *)
EXTENDS HttpSender
=============================================================================
