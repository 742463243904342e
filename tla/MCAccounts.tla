----------------------------- MODULE MCAccounts -----------------------------
(* Addresses and symmetry for Accounts.                                    *)
EXTENDS Accounts, TLC

CONSTANTS lower, upper   \* one address, typed in two ways

LowerDomain == [e \in Emails |-> lower]

Symmetry == Permutations(Requests)
=============================================================================
