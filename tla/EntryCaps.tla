------------------------------ MODULE EntryCaps ------------------------------
(***************************************************************************)
(* The caps on PathB's entries of one market in one session: the daily     *)
(* entries and the positions (execution/safety_gate.py) and, in a bear     *)
(* market, the risk-off cap (scan_waiting_entries).  Each is a count taken *)
(* before a buy order is placed, over what is recorded elsewhere: the      *)
(* statuses of the path runs, the pending rows, the positions and the      *)
(* trade log of the bot.                                                   *)
(*                                                                         *)
(* Where PathBBuy follows one ticker, here each run has a ticker of its    *)
(* own and at most one buy order, which fills at once or not at all.       *)
(***************************************************************************)
EXTENDS Integers, FiniteSets

CONSTANTS
    Runs,           \* path_run_ids of the session, each of another ticker
    Scanners,       \* the threads that call scan_waiting_entries
    NoRun,          \* no path run
    DailyCap,       \* {MARKET}_DAILY_ENTRY_CAP
    PositionCap,    \* {MARKET}_MAX_POSITIONS
    RiskOffCap,     \* PATHB_RISK_OFF_CAP_*, enforced (0 would be none)
    MaxRestarts     \* bound: restarts of the process

ASSUME CapsAssumption == DailyCap \in Nat /\ PositionCap \in Nat /\ RiskOffCap \in Nat \ {0}
                         /\ MaxRestarts \in Nat
ASSUME ActorsAssumption == IsFiniteSet(Runs) /\ NoRun \notin Runs
                           /\ IsFiniteSet(Scanners) /\ Scanners # {}

VARIABLES
    status,         \* v2_path_runs.status of each run
    order,          \* the run's buy order at the broker; a request under way is an open one
    rows,           \* runs with a pending row
    positions,      \* runs with a local position
    tradeLog,       \* runs whose purchase is in risk.trade_log
    scan,           \* what each scanner is doing
    restarts,       \* counter, for the bound
    unanswered,     \* history: runs whose order was placed by a call that nobody saw return
    missed          \* history: runs that the daily count left out

vars == <<status, order, rows, positions, tradeLog, scan, restarts, unanswered, missed>>
books == <<rows, positions, tradeLog>>
others == <<restarts, unanswered>>

Unfilled == {"ORDER_ACKED", "ORDER_UNKNOWN"}        \* ORDER_ACKED: ORDER_SENT too
Entered == {"FILLED", "SELL_SENT", "SELL_ACKED", "CLOSED"}
                                                    \* SELL_ACKED: SELL_PARTIAL_FILLED too
Statuses == {"WAITING", "HIT", "CANCELLED"} \cup Unfilled \cup Entered

NoScan == [at |-> "idle", run |-> NoRun, base |-> 0, sent |-> 0]

\* Between the gate and the pending row the order is the scanner's alone to know of.
InHand == {"place", "sent", "row"}

Scans == [at : {"idle", "next", "gate"} \cup InHand, run : Runs \cup {NoRun},
          base : Nat,           \* risk_off_committed_baseline
          sent : Nat]           \* risk_off_submitted_in_scan

TypeOK == /\ status \in [Runs -> Statuses]
          /\ order \in [Runs -> {"none", "open", "filled", "dropped"}]
          /\ rows \subseteq Runs /\ positions \subseteq Runs /\ tradeLog \subseteq Runs
          /\ scan \in [Scanners -> Scans]
          /\ \A th \in Scanners : scan[th].run = NoRun <=> scan[th].at \in {"idle", "next"}
          /\ restarts \in 0 .. MaxRestarts
          /\ unanswered \subseteq Runs /\ missed \subseteq Runs

Init == /\ status = [r \in Runs |-> "WAITING"]
        /\ order = [r \in Runs |-> "none"]
        /\ rows = {} /\ positions = {} /\ tradeLog = {}
        /\ scan = [th \in Scanners |-> NoScan]
        /\ restarts = 0
        /\ unanswered = {} /\ missed = {}

-----------------------------------------------------------------------------
(* What the caps count *)

In(set) == {r \in Runs : status[r] \in set}

\* A variant, for a check: only what is recorded in the bot counts.
CountedByBot == tradeLog \cup rows

\* daily_entry_count: purchases of the trade log, pending rows, and the runs that
\* daily_entry_run_ids returns.  SELL_ACKED and SELL_PARTIAL_FILLED are not among its statuses.
Counted == tradeLog \cup rows \cup In(Unfilled \cup {"FILLED", "SELL_SENT", "CLOSED"})

\* A variant, for a check: an order at the broker is not yet a commitment.
BaselineOfPositions == Cardinality(positions)

\* The runs waiting are left out.
Baseline == Cardinality(positions) + Cardinality(In(Unfilled))

\* A run whose order the broker has, or had and filled.
Placed == {r \in Runs : order[r] \in {"open", "filled"}}

Holding == {scan[th].run : th \in {u \in Scanners : scan[u].at \in InHand}}

-----------------------------------------------------------------------------
(* scan_waiting_entries and _submit_buy, by one scanner *)

Goto(th, place) == scan' = [scan EXCEPT ![th].at = place]
NextPlan(th) == scan' = [scan EXCEPT ![th].at = "next", ![th].run = NoRun]
SetStatus(r, st) == status' = [status EXCEPT ![r] = st]

\* The baseline of the risk-off cap is taken once in a scan.
StartScan(th) ==
    /\ scan[th].at = "idle"
    /\ scan' = [scan EXCEPT ![th] = [NoScan EXCEPT !.at = "next", !.base = Baseline]]
    /\ UNCHANGED <<status, order, books, others>>

\* adapter.check_entry: the run waits and its price is in the zone; the cap leaves room.
\* (Which runs the scan has looked at is not kept: it may come back to one.  That no other
\* scanner has the plan in hand is an assumption: PathBBuy shows what happens when one has.)
CheckEntry(th, r) ==
    /\ scan[th].at = "next"
    /\ status[r] = "WAITING"
    /\ \A u \in Scanners : scan[u].run # r
    /\ scan[th].base + scan[th].sent < RiskOffCap
    /\ scan' = [scan EXCEPT ![th].at = "gate", ![th].run = r]
    /\ UNCHANGED <<status, order, books, others>>

\* The remaining plans are not in their zone, or blocked.
EndScan(th) == /\ scan[th].at = "next"
               /\ scan' = [scan EXCEPT ![th] = NoScan]
               /\ UNCHANGED <<status, order, books, others>>

\* MAX_POSITIONS counts positions, not orders.  (Whatever else the gate looks at, unknown
\* orders above all, can only block: GateBlock.)
GateOpen == Cardinality(positions) < PositionCap /\ Cardinality(Counted) < DailyCap

GatePass(th) == /\ scan[th].at = "gate"
                /\ GateOpen
                /\ SetStatus(scan[th].run, "HIT")
                /\ Goto(th, "place")
                /\ UNCHANGED <<order, books, others>>

\* Blocked, here or by conditions outside this module: cancelled or kept waiting.
GateBlock(th) == /\ scan[th].at = "gate"
                 /\ SetStatus(scan[th].run, "CANCELLED") \/ UNCHANGED status
                 /\ NextPlan(th)
                 /\ UNCHANGED <<order, books, others>>

\* A variant, for a check: the scan goes on with the plan in hand.
PlaceRefusedInHand(th) == /\ scan[th].at = "place"
                          /\ SetStatus(scan[th].run, "CANCELLED") \/ UNCHANGED status
                          /\ Goto(th, "next")
                          /\ UNCHANGED <<order, books, others>>

\* precheck_order raises (the run stays HIT), or it or place_order refuses for good.
PlaceRefused(th) == /\ scan[th].at = "place"
                    /\ SetStatus(scan[th].run, "CANCELLED") \/ UNCHANGED status
                    /\ NextPlan(th)
                    /\ UNCHANGED <<order, books, others>>

PlaceAccepted(th) == /\ scan[th].at = "place"
                     /\ order' = [order EXCEPT ![scan[th].run] = "open"]
                     /\ Goto(th, "sent")
                     /\ UNCHANGED <<status, books, others>>

\* place_order raises; the broker may have the order, or get it yet.  _submit_buy returns
\* False: the scan does not count the order.
PlaceLost(th) ==
    /\ scan[th].at = "place"
    /\ \/ UNCHANGED <<order, unanswered>>
       \/ /\ order' = [order EXCEPT ![scan[th].run] = "open"]
          /\ unanswered' = unanswered \cup {scan[th].run}
    /\ SetStatus(scan[th].run, "ORDER_UNKNOWN")
    /\ NextPlan(th)
    /\ UNCHANGED <<books, restarts>>

\* mark_order_sent and mark_order_acked
MarkSent(th) == /\ scan[th].at = "sent"
                /\ SetStatus(scan[th].run, "ORDER_ACKED")
                /\ Goto(th, "row")
                /\ UNCHANGED <<order, books, others>>

\* A variant, for a check: the order is not added to the scan's count.
AddRowUncounted(th) == /\ scan[th].at = "row"
                       /\ rows' = rows \cup {scan[th].run}
                       /\ NextPlan(th)
                       /\ UNCHANGED <<status, order, positions, tradeLog, others>>

\* _add_pending_order, and _submit_buy returns True.
AddRow(th) == /\ scan[th].at = "row"
              /\ rows' = rows \cup {scan[th].run}
              /\ scan' = [scan EXCEPT ![th].at = "next", ![th].run = NoRun, ![th].sent = @ + 1]
              /\ UNCHANGED <<status, order, positions, tradeLog, others>>

-----------------------------------------------------------------------------
(* What happens to the order, and who learns of it *)

\* The broker: a fill, a cancellation, or the loss of a request.
Broker(r) == /\ order[r] = "open"
             /\ \E st \in {"filled", "dropped"} : order' = [order EXCEPT ![r] = st]
             /\ UNCHANGED <<status, books, scan, others>>

Fills(r) == /\ SetStatus(r, "FILLED")
            /\ positions' = positions \cup {r}

\* _reconcile_pending_orders finds the fill and logs the purchase;
LearnByQuery(r) == /\ r \in rows /\ order[r] = "filled" /\ status[r] \in Unfilled
                   /\ Fills(r)
                   /\ rows' = rows \ {r}
                   /\ tradeLog' = tradeLog \cup {r}
                   /\ UNCHANGED <<order, scan, others>>

\* ... _on_fill_notice is told of it, and does not log it;
LearnByNotice(r) == /\ r \in rows /\ order[r] = "filled" /\ status[r] \in Unfilled
                    /\ Fills(r)
                    /\ rows' = rows \ {r}
                    /\ UNCHANGED <<order, tradeLog, scan, others>>

\* ... a reconcile of PathB recovers it, and leaves the row.
RecoverFill(r) == /\ order[r] = "filled" /\ status[r] \in Unfilled
                  /\ Fills(r)
                  /\ UNCHANGED <<order, rows, tradeLog, scan, others>>

\* An unknown run is found open: no row is added.
RecoverOpen(r) == /\ order[r] = "open" /\ status[r] = "ORDER_UNKNOWN"
                  /\ SetStatus(r, "ORDER_ACKED")
                  /\ UNCHANGED <<order, books, scan, others>>

\* A cancel of a pending order, without or with its confirmation.
CancelPending(r) == /\ status[r] = "ORDER_ACKED"
                    /\ \/ SetStatus(r, "ORDER_UNKNOWN")
                       \/ order[r] = "dropped" /\ SetStatus(r, "CANCELLED")
                    /\ UNCHANGED <<order, books, scan, others>>

\* The row of an order that is done with, as the list of the day's orders shows.
DropRow(r) == /\ r \in rows
              /\ order[r] = "dropped" \/ status[r] \in Entered
              /\ rows' = rows \ {r}
              /\ UNCHANGED <<status, order, positions, tradeLog, scan, others>>

\* The exit side: sent, acknowledged, complete; or never confirmed.
Sell(r) == /\ r \in positions
           /\ \/ status[r] = "FILLED" /\ SetStatus(r, "SELL_SENT") /\ UNCHANGED positions
              \/ status[r] = "SELL_SENT" /\ SetStatus(r, "SELL_ACKED") /\ UNCHANGED positions
              \/ /\ status[r] \in {"SELL_SENT", "SELL_ACKED"}
                 /\ SetStatus(r, "FILLED") \/ SetStatus(r, "ORDER_UNKNOWN")
                 /\ UNCHANGED positions
              \/ /\ status[r] \in {"SELL_SENT", "SELL_ACKED", "ORDER_UNKNOWN"}
                 /\ SetStatus(r, "CLOSED")
                 /\ positions' = positions \ {r}
           /\ UNCHANGED <<order, rows, tradeLog, scan, others>>

\* A crash and a restart: the trade log is not kept, and of an order that was placed and not
\* yet marked sent nothing is left but a run that is HIT.
Restart == /\ restarts < MaxRestarts
           /\ scan' = [th \in Scanners |-> NoScan]
           /\ tradeLog' = {}
           /\ restarts' = restarts + 1
           /\ unanswered' = unanswered
                              \cup {scan[th].run : th \in {u \in Scanners : scan[u].at = "sent"}}
           /\ UNCHANGED <<status, order, rows, positions>>

Step == \/ \E th \in Scanners : \/ StartScan(th) \/ EndScan(th)
                                \/ \E r \in Runs : CheckEntry(th, r)
                                \/ GatePass(th) \/ GateBlock(th)
                                \/ PlaceRefused(th) \/ PlaceAccepted(th) \/ PlaceLost(th)
                                \/ MarkSent(th) \/ AddRow(th)
        \/ \E r \in Runs : \/ Broker(r)
                           \/ LearnByQuery(r) \/ LearnByNotice(r) \/ RecoverFill(r)
                           \/ RecoverOpen(r) \/ CancelPending(r) \/ DropRow(r) \/ Sell(r)
        \/ Restart

\* What daily_entry_count leaves out: a sale acknowledged, and an order forgotten by a crash.
Uncounted == (In({"SELL_ACKED"}) \ (tradeLog \cup rows)) \cup (unanswered \cap In({"HIT"}))

Next == Step /\ missed' = missed \cup Uncounted'

Spec == Init /\ [][Next]_vars

-----------------------------------------------------------------------------
(* Properties *)

\* The daily cap: the orders of the day are no more than the cap, but for one more by each
\* further scanner (the gate counts what is recorded, and the other scanner's order is not
\* recorded yet) and one more by each run that daily_entry_count left out: while its sale was
\* acknowledged, or because a crash left it HIT with its order at the broker.
DailyEntriesHeld ==
    Cardinality(Placed) <= DailyCap + (Cardinality(Scanners) - 1) + Cardinality(missed)

\* What the risk-off cap is about: runs in the market, or about to be.
AtRisk == {r \in Placed : status[r] # "CLOSED"}

\* The risk-off cap: each scanner brings at most the cap into the market, and only
\* orders come on top whose placement was not answered, or answered to a process that died.
RiskOffHeld ==
    Cardinality(AtRisk \ unanswered) <= RiskOffCap * Cardinality(Scanners)
=============================================================================
