----------------------------- MODULE MCPathBBuy -----------------------------
(* Instances of PathBBuy for TLC. *)
EXTENDS PathBBuy, TLC

CONSTANTS r1, r2, o1, o2, x1

OneRun == {r1}
TwoRuns == {r1, r2}
OneOrder == {o1}
TwoOrders == {o1, o2}
NoOthers == {}
OneOther == {x1}
OneScanner == {"main"}
TwoScanners == {"main", "ws"}
Symmetry == Permutations({r1, r2}) \cup Permutations({o1, o2})

\* The trading loop scans alone, except in the last session.  In that one the WebSocket thread
\* does too; it has one run, one order, filled at once, and no crash, and begins with nothing
\* from before.  (With two orders the scanners send one plan twice, pathb_twice, and what
\* follows from that is not told apart.)
Modes ==
    IF day < MaxDays THEN job["ws"] = NoJob
    ELSE /\ crashes = 0
         /\ \A r \in Runs : run[r].status # "NONE" => run[r].day = MaxDays
         /\ \A r, q \in Runs : run[r].status # "NONE" /\ run[q].status # "NONE" => r = q
         /\ \A o, p \in Orders : broker[o].st # "none" /\ broker[p].st # "none" => o = p
         /\ \A o \in Orders : broker[o].filled \in {0, Qty}

\* Nor is what follows from a stray submission told apart (NoneForgotten): it is made, and the
\* exploration ends there.
Straight == strays = 0

\* The properties of PathBBuy in the states that Modes leaves.  (TLC evaluates an invariant one
\* step beyond a constraint too, where plans have been sent twice.)
OneExposureInModes == Modes => OneExposure
ConfirmedCancelIsDeadInModes == Modes => ConfirmedCancelIsDead
EntryIsOwnInModes == Modes => EntryIsOwn

\* LiveOrderIsWatched, where the trading loop scans alone.  Beside the WebSocket thread it
\* fails as PlanSentOnce does: the gate of one scanner overwrites what the other has recorded.
WatchedIfAlone == Modes /\ day < MaxDays => LiveOrderIsWatched
=============================================================================
