----------------------------- MODULE MCEntryCaps -----------------------------
(* Instances of EntryCaps for TLC. *)
EXTENDS EntryCaps, TLC

MCSymmetry == Permutations(Runs) \cup Permutations(Scanners)
=============================================================================
