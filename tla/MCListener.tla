----------------------------- MODULE MCListener -----------------------------
(* Small instances of Listener for TLC.                                     *)
EXTENDS Listener
=============================================================================
