---------------------------- MODULE MC_EdgeQueue ----------------------------
(***************************************************************************)
(* Small instances of EdgeQueue for TLC.                                   *)
(***************************************************************************)
EXTENDS EdgeQueue, TLC

SignalSymmetry == Permutations(Signals)
=============================================================================
