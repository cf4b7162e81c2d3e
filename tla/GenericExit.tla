----------------------------- MODULE GenericExit -----------------------------
(***************************************************************************)
(* How the bot (trading_bot.py, risk_manager.py) sells a position that is  *)
(* not PathB's, and how it learns that it was sold: ONE position of Size   *)
(* shares whose exit signal is on, in one session.                         *)
(*                                                                         *)
(* _execute_sell runs on the trading loop and on the WebSocket thread, in  *)
(* _process_exit_candidates under a lock; the loop also calls it outside   *)
(* the lock (the dashboard's immediate sale, the intraday review).  A sale *)
(* not filled at once is marked on the position and reconciled later, with *)
(* the fill of its order and with the broker truth snapshot.  The          *)
(* synchronisation with the broker's balance runs beside all that.  A step *)
(* is the code between two calls that wait.                                *)
(***************************************************************************)
EXTENDS Integers, FiniteSets, FiniteSetsExt

CONSTANTS
    Size,           \* shares of the position
    MaxSells,       \* bound: orders, numbered from 1
    Threads,        \* the threads that process exits: "loop", and "ws" (on a price tick)
    None,           \* no order number, no thread
    Partly,         \* whether orders can be filled in part
    MaxCancels,     \* bound: orders that are cancelled or lapse
    MaxByHand,      \* bound: shares the user sells
    MaxFaults       \* bound: answers that are lost and crashes, together

ASSUME SizeAssumption == Size \in Nat \ {0}
ASSUME SellsAssumption == MaxSells \in Nat /\ None \notin 1 .. MaxSells
ASSUME ThreadsAssumption == "loop" \in Threads /\ Threads \subseteq {"loop", "ws"}
                            /\ None \notin Threads
ASSUME PartlyAssumption == Partly \in BOOLEAN
ASSUME BoundsAssumption == MaxCancels \in Nat /\ MaxByHand \in 0 .. Size /\ MaxFaults \in Nat

Sells == 1 .. MaxSells

VARIABLES
    held, order, hand,      \* the broker: the holding, the orders, what the user sold
    pos, saved,             \* the position in risk.positions, and in the positions file
    closedToday,            \* the ticker is in _session_closed_tickers
    booked,                 \* shares booked as sold (trade_log, decision events)
    truth,                  \* the broker truth snapshot
    lock,                   \* _exit_process_lock: the thread that has it
    pc, me,                 \* where each thread is, and what it works with
    cancels, faults         \* counters, for the bounds

broker == <<held, order, hand>>
book == <<pos, saved, closedToday, booked>>
threads == <<lock, pc, me>>
bounds == <<cancels, faults>>
vars == <<broker, book, truth, threads, bounds>>

-----------------------------------------------------------------------------
\* sell_confirmation_pending, pending_sell_order_no, pending_sell_qty,
\* broker_missing_seen_count > 0.
Positions == [there : BOOLEAN, qty : 0 .. Size, pending : BOOLEAN, sale : Sells \cup {None},
              asked : 0 .. Size, missing : BOOLEAN]

Position(n) == [there |-> TRUE, qty |-> n, pending |-> FALSE, sale |-> None, asked |-> 0,
                missing |-> FALSE]

Orders == [Sells -> [stage : {"new", "live", "dead"}, qty : 0 .. Size, filled : 0 .. Size]]

NewOrder == [stage |-> "new", qty |-> 0, filled |-> 0]

\* ok is FALSE when the snapshot is stale or its refresh has failed.
Snapshots == [ok : BOOLEAN, bal : 0 .. Size, order : Orders, hand : 0 .. Size]

\* What a reconciliation keeps of a snapshot.
Views == [ok : BOOLEAN, bal : 0 .. Size, open : BOOLEAN, filled : 0 .. Size]
NoView == [ok |-> FALSE, bal |-> 0, open |-> FALSE, filled |-> 0]

\* qty: shares to sell, or to inject; order: the order placed; view: the snapshot read;
\* then: where a reconciliation returns to; list: what becomes of the position.
Nothing == [qty |-> 0, order |-> None, view |-> NoView, then |-> "idle", list |-> "drop"]

Work == [qty : 0 .. Size, order : Sells \cup {None}, view : Views,
         then : {"idle", "recheck"}, list : {"keep", "drop", "inject"}]

Steps == {"idle", "check", "reconcile", "recheck", "review", "precheck", "zero", "place",
          "nothing held", "confirm", "save", "assign", "protected"}

TypeOK ==
    /\ held \in 0 .. Size /\ order \in Orders /\ hand \in 0 .. Size
    /\ pos \in Positions /\ saved \in Positions
    /\ closedToday \in BOOLEAN /\ booked \in 0 .. Size + 1
    /\ truth \in Snapshots
    /\ lock \in Threads \cup {None} /\ pc \in [Threads -> Steps]
    /\ me \in [Threads -> Work]
    /\ cancels \in 0 .. MaxCancels /\ faults \in 0 .. MaxFaults

Init ==
    /\ held = Size /\ order = [o \in Sells |-> NewOrder] /\ hand = 0
    /\ pos = Position(Size) /\ saved = Position(Size)
    /\ closedToday = FALSE /\ booked = 0
    /\ truth = [ok |-> TRUE, bal |-> Size, order |-> order, hand |-> 0]
    /\ lock = None
    /\ pc = [t \in Threads |-> "idle"] /\ me = [t \in Threads |-> Nothing]
    /\ cancels = 0 /\ faults = 0

-----------------------------------------------------------------------------
(* The broker and the user (external).                                      *)

Live(o) == order[o].stage = "live"
Left(o) == IF Live(o) THEN order[o].qty - order[o].filled ELSE 0
Available == held - MapThenSumSet(Left, Sells)

IsNext(o) == order[o].stage = "new" /\ \A p \in Sells : p < o => order[p].stage # "new"

Accepted(o, n) == order' = [order EXCEPT ![o] = [stage |-> "live", qty |-> n, filled |-> 0]]

Fill(o, n) ==
    /\ n <= Left(o) /\ n <= held
    /\ ~Partly => n = Left(o)
    /\ order' = [order EXCEPT ![o].filled = @ + n,
                              ![o].stage = IF n = Left(o) THEN "dead" ELSE "live"]
    /\ held' = held - n
    /\ UNCHANGED <<hand, book, truth, threads, bounds>>

Cancel(o) ==
    /\ Live(o)
    /\ cancels < MaxCancels /\ cancels' = cancels + 1
    /\ order' = [order EXCEPT ![o].stage = "dead"]
    /\ UNCHANGED <<held, hand, book, truth, threads, faults>>

UserSells(n) ==
    /\ n <= Available /\ n <= held /\ hand + n <= MaxByHand
    /\ held' = held - n /\ hand' = hand + n
    /\ UNCHANGED <<order, book, truth, threads, bounds>>

\* The balance can lag the fills.
Balances == {held, truth.bal}

Renewed == {[ok |-> TRUE, bal |-> b, order |-> order, hand |-> hand] : b \in Balances}
Failed == [truth EXCEPT !.ok = FALSE]

\* _broker_truth_market_snapshot: forced, it is refreshed; else it is the one there is, of
\* whoever refreshed it last, unless it is older than 15 seconds.
Snapshot(force) == Renewed \cup {Failed} \cup (IF force \/ ~truth.ok THEN {} ELSE {truth})

\* A variant, for a check: rows of orders with nothing left are taken for open orders.
OpenInAny(s) == {o \in Sells : s.order[o].stage # "new"}

OpenIn(s) == {o \in Sells : s.order[o].stage = "live"}
SellFillsIn(s) == s.hand > 0 \/ \E o \in Sells : s.order[o].filled > 0

-----------------------------------------------------------------------------
(* The position.                                                            *)

Done(t) ==
    /\ pc' = [pc EXCEPT ![t] = "idle"] /\ me' = [me EXCEPT ![t] = Nothing]
    /\ lock' = IF lock = t THEN None ELSE lock

Goes(t, step) == pc' = [pc EXCEPT ![t] = step]

\* Bound: beyond Size + 1 the shares booked are not counted.
Booked(n) == Min({booked + n, Size + 1})

\* close_position: the position leaves the list with all the shares it has, once.
CloseAll ==
    IF pos.there
    THEN /\ booked' = Booked(pos.qty)
         /\ pos' = [pos EXCEPT !.there = FALSE]
    ELSE UNCHANGED <<booked, pos>>

\* _remove_local_position_after_zero_holding and its like: nothing is booked.
Remove == /\ pos' = [pos EXCEPT !.there = FALSE]
          /\ saved' = IF pos.there THEN pos' ELSE saved
          /\ UNCHANGED <<closedToday, booked>>

\* _sell_zero_holding_broker_evidence
ZeroHolding(s) == s.ok /\ s.bal = 0 /\ OpenIn(s) = {}

-----------------------------------------------------------------------------
(* _reconcile_pending_sell_confirmations                                     *)

\* The pending position is found and the snapshot read.
Look(t, s, then) ==
    /\ truth' = s
    /\ me' = [me EXCEPT
                ![t].then = then,
                ![t].view = [ok |-> s.ok, bal |-> s.bal,
                             open |-> pos.sale \in OpenIn(s),
                             filled |-> IF pos.sale = None THEN 0 ELSE s.order[pos.sale].filled]]
    /\ Goes(t, "reconcile")
    /\ UNCHANGED <<broker, book, lock, bounds>>

\* Each trading cycle (not forced), and at session close (forced).
Cycle(force) ==
    /\ pc["loop"] = "idle" /\ pos.there /\ pos.pending
    /\ \E s \in Snapshot(force) : Look("loop", s, "idle")

\* Fills of the order: those the query tells of (-1: no answer) and those in the snapshot.
\* The rows of one order differ in their fields, so that _dedupe_broker_rows keeps both.
FilledBy(v, asked) == Max({0, asked}) + (IF v.ok THEN v.filled ELSE 0)

\* _close_position_from_pending_sell for part of the position; should it be gone, the part
\* is booked all the same.
ClosePart(n, v) ==
    /\ booked' = Booked(n) /\ closedToday' = TRUE
    /\ pos' = [pos EXCEPT !.qty = @ - n,
                          !.pending = pos.there /\ v.ok /\ v.open,
                          !.asked = pos.qty - n]

Keep == UNCHANGED <<pos, closedToday, booked>>

\* A variant, for a check: the fills are not limited to the position's shares.
SettleUncapped(v, n) ==
    IF n > 0 THEN IF n = pos.qty THEN CloseAll /\ closedToday' = (closedToday \/ pos.there)
                  ELSE ClosePart(n, v)
    ELSE Keep

\* A variant, for a check: an order that is no longer open is taken for filled.
SettleNotOpenIsSold(v, n) ==
    IF n = 0 /\ (~v.ok \/ v.open) THEN Keep
    ELSE CloseAll /\ closedToday' = (closedToday \/ pos.there)

\* What it makes of a fill of n shares, of an open order, of nothing held, and of the rest.
Settle(v, n) ==
    IF n > 0
    THEN LET c == Min({n, pos.qty} \cup (IF pos.asked > 0 THEN {pos.asked} ELSE {}))
         IN  IF c >= pos.qty
             THEN CloseAll /\ closedToday' = (closedToday \/ pos.there)
             ELSE ClosePart(c, v)
    ELSE IF ~v.ok \/ v.open THEN Keep
    ELSE IF v.bal = 0 THEN CloseAll /\ closedToday' = (closedToday \/ pos.there)
    ELSE /\ pos' = [pos EXCEPT !.pending = FALSE]
         /\ UNCHANGED <<booked, closedToday>>

\* A variant, for a check: what was reconciled is not saved.
ReconcileUnsaved(t, asked) ==
    /\ pc[t] = "reconcile"
    /\ asked # -1 => pos.sale # None /\ asked = order[pos.sale].filled
    /\ Settle(me[t].view, FilledBy(me[t].view, asked))
    /\ Done(t)
    /\ UNCHANGED <<broker, saved, truth, bounds>>

Reconcile(t, asked) ==
    /\ pc[t] = "reconcile"
    /\ asked # -1 => pos.sale # None /\ asked = order[pos.sale].filled
    /\ Settle(me[t].view, FilledBy(me[t].view, asked))
    /\ saved' = IF pos'.there \/ pos.there THEN pos' ELSE saved
    /\ IF me[t].then = "recheck"
       THEN Goes(t, "recheck") /\ me' = [me EXCEPT ![t].view = NoView] /\ UNCHANGED lock
       ELSE Done(t)
    /\ UNCHANGED <<broker, truth, bounds>>

-----------------------------------------------------------------------------
(* _execute_sell                                                             *)

\* _process_exit_candidates: the position is copied; the broker is asked whether the ticker
\* is halted.
StartExit(t) ==
    /\ pc[t] = "idle" /\ lock = None
    /\ pos.there /\ ~pos.pending
    /\ lock' = t /\ me' = [me EXCEPT ![t].qty = pos.qty]
    /\ Goes(t, "check")
    /\ UNCHANGED <<broker, book, truth, bounds>>

\* _consume_pending_sell, the intraday review: outside the lock, on the trading loop.
StartOutside ==
    /\ pc["loop"] = "idle" /\ pos.there
    /\ me' = [me EXCEPT !["loop"].qty = pos.qty]
    /\ Goes("loop", "check")
    /\ UNCHANGED <<broker, book, truth, lock, bounds>>

\* The ticker is halted.
Halted(t) == pc[t] = "check" /\ Done(t) /\ UNCHANGED <<broker, book, truth, bounds>>

HasPending == pos.there /\ pos.pending

CheckFree(t) ==
    /\ pc[t] = "check" /\ ~HasPending
    /\ Goes(t, "review")
    /\ UNCHANGED <<broker, book, truth, lock, me, bounds>>

CheckPending(t) ==
    /\ pc[t] = "check" /\ HasPending
    /\ \E s \in Snapshot(TRUE) : Look(t, s, "recheck")

Recheck(t) ==
    /\ pc[t] = "recheck"
    /\ IF HasPending THEN Done(t) ELSE Goes(t, "review") /\ UNCHANGED <<me, lock>>
    /\ UNCHANGED <<broker, book, truth, bounds>>

\* _run_auto_sell_review_gate, which some reasons bypass.
ReviewHolds(t) == pc[t] = "review" /\ Done(t) /\ UNCHANGED <<broker, book, truth, bounds>>

ReviewSells(t) ==
    /\ pc[t] = "review" /\ Goes(t, "precheck")
    /\ UNCHANGED <<broker, book, truth, lock, me, bounds>>

\* precheck_order, by the balance alone.
Precheck(t, b) ==
    /\ pc[t] = "precheck"
    /\ Goes(t, IF b >= me[t].qty THEN "place" ELSE "zero")
    /\ UNCHANGED <<broker, book, truth, lock, me, bounds>>

PrecheckFails(t) == pc[t] = "precheck" /\ Done(t) /\ UNCHANGED <<broker, book, truth, bounds>>

\* _handle_sell_precheck_failed: the balance is read again, then the broker truth.
Zero(t, s) ==
    /\ pc[t] = "zero" /\ Done(t)
    /\ truth' = s
    /\ IF ZeroHolding(s) THEN Remove ELSE UNCHANGED book
    /\ UNCHANGED <<broker, bounds>>

PlaceAccepted(t, o) ==
    /\ pc[t] = "place" /\ IsNext(o) /\ me[t].qty <= Available
    /\ Accepted(o, me[t].qty)
    /\ me' = [me EXCEPT ![t].order = o] /\ Goes(t, "confirm")
    /\ UNCHANGED <<held, hand, book, truth, lock, bounds>>

\* place_order raises: the failure is noted, whether the broker has the order or not.
PlaceLost(t) ==
    /\ pc[t] = "place" /\ faults < MaxFaults /\ faults' = faults + 1
    /\ \/ UNCHANGED order
       \/ \E o \in Sells : IsNext(o) /\ me[t].qty <= Available /\ Accepted(o, me[t].qty)
    /\ Done(t)
    /\ UNCHANGED <<held, hand, book, truth, cancels>>

\* Rejected; "no such holding" makes the bot read the balance.
PlaceRejected(t) ==
    /\ pc[t] = "place"
    /\ \/ Done(t)
       \/ held = 0 /\ Goes(t, "nothing held") /\ UNCHANGED <<me, lock>>
    /\ UNCHANGED <<broker, book, truth, bounds>>

NothingHeld(t, b) ==
    /\ pc[t] = "nothing held" /\ Done(t)
    /\ IF b = 0 THEN Remove ELSE UNCHANGED book
    /\ UNCHANGED <<broker, truth, bounds>>

\* _confirm_sell_order_fill sees the whole order filled.
Confirmed(t) ==
    /\ pc[t] = "confirm" /\ order[me[t].order].filled >= me[t].qty
    /\ closedToday' = TRUE /\ CloseAll
    /\ IF pos.there THEN Goes(t, "save") /\ UNCHANGED <<me, lock>> ELSE Done(t)
    /\ UNCHANGED <<broker, saved, truth, bounds>>

\* The position is saved after the alerts.
SaveSold(t) ==
    /\ pc[t] = "save" /\ saved' = pos /\ Done(t)
    /\ UNCHANGED <<broker, pos, closedToday, booked, truth, bounds>>

\* It does not, five times: _mark_sell_confirmation_pending.
Unconfirmed(t) ==
    /\ pc[t] = "confirm" /\ Done(t)
    /\ pos' = IF pos.there THEN [pos EXCEPT !.pending = TRUE, !.sale = me[t].order,
                                            !.asked = me[t].qty]
              ELSE pos
    /\ saved' = pos'
    /\ UNCHANGED <<broker, closedToday, booked, truth, bounds>>

-----------------------------------------------------------------------------
(* _sync_runtime_with_broker, on the trading loop.                           *)

Synced(list, n, then) ==
    /\ me' = [me EXCEPT !["loop"].list = list, !["loop"].qty = n,
                        !["loop"].then = then]
    /\ Goes("loop", "assign")
    /\ UNCHANGED <<broker, saved, closedToday, booked, lock, bounds>>

\* A balance without any holding, while the bot has positions, is not believed.
Sync(b, others) ==
    /\ pc["loop"] = "idle"
    /\ \/ /\ pos.there /\ (b = -1 \/ (b = 0 /\ ~others))
          /\ Synced("keep", 0, "idle") /\ UNCHANGED <<pos, truth>>
       \/ /\ pos.there /\ b > 0
          /\ pos' = [pos EXCEPT !.qty = b, !.missing = FALSE]
          /\ Synced("keep", 0, "idle") /\ UNCHANGED truth
       \/ /\ pos.there /\ b = 0 /\ others /\ pos.pending
          /\ Synced("keep", 0, "recheck") /\ UNCHANGED <<pos, truth>>
       \/ /\ pos.there /\ b = 0 /\ others /\ ~pos.pending
          /\ truth' \in Snapshot(TRUE)
          /\ IF ZeroHolding(truth') /\ (SellFillsIn(truth') \/ pos.missing)
             THEN Synced("drop", 0, "idle") /\ UNCHANGED pos
             ELSE pos' = [pos EXCEPT !.missing = TRUE] /\ Synced("keep", 0, "idle")
       \/ /\ ~pos.there /\ b > 0 /\ ~closedToday
          /\ Synced("inject", b, "idle") /\ UNCHANGED <<pos, truth>>

\* The list is assigned, whatever another thread has done to it meanwhile.
Assign ==
    LET l == me["loop"] IN
    /\ pc["loop"] = "assign"
    /\ pos' = CASE l.list = "keep" -> [pos EXCEPT !.there = TRUE]
                [] l.list = "drop" -> [pos EXCEPT !.there = FALSE]
                [] l.list = "inject" -> Position(l.qty)
    /\ saved' \in {saved, pos'}
    /\ IF l.then = "recheck" THEN Goes("loop", "protected") /\ UNCHANGED <<me, lock>>
       ELSE Done("loop")
    /\ UNCHANGED <<broker, closedToday, booked, truth, bounds>>

\* A pending position that the broker does not hold is reconciled at once.
Protected ==
    /\ pc["loop"] = "protected"
    /\ IF HasPending THEN \E s \in Snapshot(TRUE) : Look("loop", s, "idle")
       ELSE Done("loop") /\ UNCHANGED <<broker, book, truth, bounds>>

\* Others (PathB, the dashboard) refresh the broker truth; or it grows old.
RefreshTruth == truth' \in Renewed \cup {Failed} /\ UNCHANGED <<broker, book, threads, bounds>>

\* A restart: _verify_live_positions holds the file against the balance, if it can be read and
\* is believed.  _session_closed_tickers is empty until the session opens again, and is then
\* what the decision events tell of.
Crash ==
    /\ faults < MaxFaults /\ faults' = faults + 1
    /\ \/ pos' = saved
       \/ \E b \in Balances :
             /\ saved.there
             /\ pos' = IF b > 0 THEN [saved EXCEPT !.qty = b] ELSE [saved EXCEPT !.there = FALSE]
    /\ closedToday' \in {FALSE, closedToday}
    /\ lock' = None
    /\ pc' = [t \in Threads |-> "idle"] /\ me' = [t \in Threads |-> Nothing]
    /\ UNCHANGED <<broker, saved, booked, truth, cancels>>

-----------------------------------------------------------------------------
Outside == \/ \E o \in Sells : Cancel(o) \/ \E n \in 1 .. Size : Fill(o, n)
           \/ \E n \in 1 .. Size : UserSells(n)
           \/ RefreshTruth

Sell(t) ==
    \/ StartExit(t) \/ Halted(t) \/ CheckFree(t) \/ CheckPending(t)
    \/ \E n \in -1 .. Size : Reconcile(t, n)
    \/ Recheck(t) \/ ReviewHolds(t) \/ ReviewSells(t)
    \/ \E b \in Balances : Precheck(t, b) \/ NothingHeld(t, b)
    \/ PrecheckFails(t)
    \/ \E s \in Snapshot(TRUE) : Zero(t, s)
    \/ \E o \in Sells : PlaceAccepted(t, o)
    \/ PlaceLost(t) \/ PlaceRejected(t) \/ Confirmed(t) \/ SaveSold(t) \/ Unconfirmed(t)

Loop == \/ \E force \in BOOLEAN : Cycle(force)
        \/ StartOutside
        \/ \E b \in Balances \cup {-1}, others \in BOOLEAN : Sync(b, others)
        \/ Assign \/ Protected

Next == Outside \/ (\E t \in Threads : Sell(t)) \/ Loop \/ Crash

Spec == Init /\ [][Next]_vars

-----------------------------------------------------------------------------
(* Fairness.  A thread that is in a sale or in a reconciliation goes on.    *)
(* The loop reconciles what is pending and synchronises on every cycle; the *)
(* broker answers from time to time, with a balance that has caught up with *)
(* the fills, and the account holds other positions too.  Nothing is asked  *)
(* of the review, of the exit signal or of the market.                      *)

CycleAnswered == Cycle(TRUE) /\ truth'.ok /\ truth'.bal = held
SyncAnswered == Sync(held, TRUE) /\ (held = 0 => truth'.ok /\ truth'.bal = 0)

Fairness ==
    /\ \A t \in Threads : WF_vars(pc[t] # "idle" /\ Sell(t))
    /\ WF_vars(Assign \/ Protected)
    /\ SF_vars(CycleAnswered)
    /\ SF_vars(SyncAnswered)

FairSpec == Spec /\ Fairness

-----------------------------------------------------------------------------
(* Properties.                                                              *)

\* A position leaves the bot's list only when the broker holds no share of it: neither the
\* reconciliation, with a snapshot older than the order, nor a rejected sale, nor the
\* synchronisation, nor the other thread's sale takes away a position with shares, on which
\* no stop would be watched.  It holds while orders are filled whole.
ClosedIsSold == ~pos.there => held = 0

\* The bot books (cash, profit, trade log) no more shares than were sold, whoever tells it of
\* a fill (the confirmation, the order query, the snapshot, the missing holding), and after a
\* restart from the positions file.  One thread; while the user has sold nothing by hand.
BookedIsSold == hand = 0 => booked <= Size - held

\* When all the shares are sold the position leaves the list, and does not come back.
SoldIsClosed == (held = 0) ~> []~pos.there
=============================================================================
