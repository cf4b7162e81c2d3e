---------------------------- MODULE MCBrokerTruth ----------------------------
(***************************************************************************)
(* Two threads of the bot, which share its balance cache; two markets.     *)
(***************************************************************************)
EXTENDS BrokerTruth, TLC

MCHome == [w \in Callers |-> "bot"]

\* Nothing in the specification tells the markets, or the callers, apart.
MCSymmetry == Permutations(Markets) \cup Permutations(Callers)

=============================================================================
