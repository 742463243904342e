---------------------------- MODULE MCRateLimit -----------------------------
(* RateLimit with model values; addresses are alike, so are workers.       *)
EXTENDS RateLimit, TLC

Alike == Permutations(Addresses) \cup Permutations(Workers)
=============================================================================
