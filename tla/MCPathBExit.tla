----------------------------- MODULE MCPathBExit -----------------------------
(* Instances of PathBExit for TLC. *)
EXTENDS PathBExit

OneThread == {"loop"}
TwoThreads == {"loop", "ws"}

\* Once a sale's mark has been cleared while a thread was at it, `hasty' stays, and no property
\* but the type promises anything.
Unhurried == ~hasty
=============================================================================
