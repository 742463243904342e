------------------------------ MODULE MCWorker ------------------------------
(* Worker with model values for requests: see its configurations.          *)
EXTENDS Worker, TLC
=============================================================================
