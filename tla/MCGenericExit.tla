---------------------------- MODULE MCGenericExit ----------------------------
(* Instances of GenericExit for TLC. *)
EXTENDS GenericExit

OneThread == {"loop"}
TwoThreads == {"loop", "ws"}
=============================================================================
