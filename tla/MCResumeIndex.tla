---------------------------- MODULE MCResumeIndex ----------------------------
(* Requests are interchangeable, and so are file names.                    *)
EXTENDS ResumeIndex, TLC

Symmetry == Permutations(Requests) \cup Permutations(Names)
=============================================================================
