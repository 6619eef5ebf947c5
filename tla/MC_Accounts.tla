----------------------------- MODULE MC_Accounts -----------------------------
(* The account for TLC.  Requests are interchangeable.                      *)
EXTENDS Accounts, TLC

RequestSymmetry == Permutations(Reqs)
=============================================================================
