------------------------------- MODULE MCServer ------------------------------
(* Two requests that are served at the same time.                          *)
EXTENDS Server
=============================================================================
