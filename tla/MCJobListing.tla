---------------------------- MODULE MCJobListing ----------------------------
(* Model values and symmetry for JobListing.                               *)
EXTENDS JobListing, TLC

Symmetry == Permutations(Writers) \cup Permutations(Readers) \cup
              Permutations(Pages)
=============================================================================
