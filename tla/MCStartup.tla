----------------------------- MODULE MCStartup ------------------------------
(* Startup with model values for its workers.                              *)
EXTENDS Startup, TLC
=============================================================================
