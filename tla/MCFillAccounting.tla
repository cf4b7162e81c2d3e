-------------------------- MODULE MCFillAccounting --------------------------
(* An instance of FillAccounting for TLC. *)
EXTENDS FillAccounting

OneOrder == {1}
BothThreads == {"loop", "ws"}
=============================================================================
