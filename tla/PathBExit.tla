------------------------------ MODULE PathBExit ------------------------------
(***************************************************************************)
(* The exit side of a PathB run (runtime/pathb_runtime.py,                 *)
(* execution/claude_price_sell_manager.py): a filled run holds Size shares *)
(* of its ticker and its exit signal is on.                                *)
(*                                                                         *)
(* _submit_sell runs on the trading loop and on the WebSocket thread; so   *)
(* do the three reconciliations, which compare the stored run and the      *)
(* bot's position with a snapshot of the broker's balance, open orders and *)
(* fills.  The broker fills, the user cancels or sells by hand, an answer  *)
(* to an order is lost, the process dies.  A step is the code between two  *)
(* calls that wait (the broker, the review of a sale), and between the     *)
(* read of a run or a snapshot and the write that rests on it.             *)
(***************************************************************************)
EXTENDS Integers, FiniteSets, FiniteSetsExt

CONSTANTS
    Size,           \* shares of the position
    MaxSells,       \* bound: sell orders, numbered from 1
    Threads,        \* threads that scan for exits: "loop", and "ws" (on a price tick)
    None,           \* no order number
    MaxCancels,     \* bound: orders the user cancels
    CutsPartly,     \* whether the user cancels orders that are filled in part
    MaxFaults       \* bound: answers that are lost, sell orders of the user's own and
                    \* crashes, together

ASSUME SizeAssumption == Size \in Nat \ {0}
ASSUME SellsAssumption == MaxSells \in Nat /\ None \notin 1 .. MaxSells
ASSUME ThreadsAssumption == "loop" \in Threads /\ Threads \subseteq {"loop", "ws"}
ASSUME CutsPartlyAssumption == CutsPartly \in BOOLEAN
ASSUME BoundsAssumption == MaxCancels \in Nat /\ MaxFaults \in Nat

Sells == 1 .. MaxSells

VARIABLES
    held, order,            \* the broker: the holding, the sell orders
    run, closes,            \* the path run, and its CLOSED events
    pos, saved,             \* the position in risk.positions, and in the positions file
    truth,                  \* the broker truth snapshot
    lock,                   \* _pathb_sell_attempt_locks
    pc, me,                 \* where each thread is, and what it has read
    marked, crossed,        \* history: orders marked as sent; a stale run was written back
    hasty, astray,          \* history: a sale's mark was cleared while a thread was at it;
                            \* an order was taken for one the thread had not placed
    cancels, faults         \* counters, for the bounds

broker == <<held, order>>
book == <<run, closes, pos, saved>>
threads == <<lock, pc, me>>
bounds == <<cancels, faults>>
history == <<marked, crossed, hasty, astray>>
vars == <<broker, book, truth, threads, history, bounds>>

-----------------------------------------------------------------------------
Selling == {"SELL_SENT", "SELL_ACKED", "SELL_PARTIAL_FILLED"}
Statuses == Selling \cup {"FILLED", "ORDER_UNKNOWN", "CLOSED"}

\* exit_execution_id, exit_qty, sell_order_sent_at, sellable_qty_observation_required,
\* manual_reconciliation_required of the run's plan.
Runs == [status : Statuses, exit : Sells \cup {None}, asked : 0 .. Size, sent : BOOLEAN,
         watch : BOOLEAN, stuck : BOOLEAN]

\* pathb_closing, pathb_pending_sell_order_no, sellable_qty_observation_required,
\* sellable_qty_untrusted, broker_missing_seen_count > 0 of the position.
Positions == [there : BOOLEAN, qty : 0 .. Size, closing : BOOLEAN, sale : Sells \cup {None},
              watch : BOOLEAN, stuck : BOOLEAN, missing : BOOLEAN]

NewPosition == [there |-> TRUE, qty |-> Size, closing |-> FALSE, sale |-> None, watch |-> FALSE,
                stuck |-> FALSE, missing |-> FALSE]

NewRun == [status |-> "FILLED", exit |-> None, asked |-> 0, sent |-> FALSE, watch |-> FALSE,
           stuck |-> FALSE]

\* upto: how many orders there were when this one was last filled; hand: the user's own.
SellOrders == [stage : {"new", "live", "dead"}, qty : 0 .. Size, filled : 0 .. Size,
               upto : 0 .. MaxSells, hand : BOOLEAN]

NewOrder == [stage |-> "new", qty |-> 0, filled |-> 0, upto |-> 0, hand |-> FALSE]

\* A snapshot; ok is FALSE when it is stale or a refresh has failed.
Snapshots == [ok : BOOLEAN, bal : 0 .. Size, order : [Sells -> SellOrders]]

\* What a thread works with: the run as it was read, the shares to sell, the order placed.
Nothing == [run |-> NewRun, qty |-> 0, order |-> None]

Steps == {"idle", "pending", "filled", "unknown", "stale",
          "observe", "review", "precheck", "zero", "place", "truth", "reject", "mark"}

\* From the mark on the position to that on the run.
Attempt == {"precheck", "place", "truth", "reject", "mark"}

\* It may be sending an order: for the first time, or again.
Sending == {"place", "truth"}

TypeOK ==
    /\ held \in 0 .. Size /\ order \in [Sells -> SellOrders]
    /\ run \in Runs /\ closes \in Nat /\ pos \in Positions /\ saved \in Positions
    /\ truth \in Snapshots /\ lock \in BOOLEAN
    /\ pc \in [Threads -> Steps]
    /\ me \in [Threads -> [run : Runs, qty : 0 .. Size, order : Sells \cup {None}]]
    /\ marked \subseteq Sells /\ crossed \in BOOLEAN /\ hasty \in BOOLEAN /\ astray \in BOOLEAN
    /\ cancels \in 0 .. MaxCancels /\ faults \in 0 .. MaxFaults

Init ==
    /\ held = Size /\ order = [o \in Sells |-> NewOrder]
    /\ run = NewRun /\ closes = 0 /\ pos = NewPosition /\ saved = NewPosition
    /\ truth = [ok |-> TRUE, bal |-> Size, order |-> order]
    /\ lock = FALSE
    /\ pc = [t \in Threads |-> "idle"] /\ me = [t \in Threads |-> Nothing]
    /\ marked = {} /\ crossed = FALSE /\ hasty = FALSE /\ astray = FALSE
    /\ cancels = 0 /\ faults = 0

-----------------------------------------------------------------------------
Live(o) == order[o].stage = "live"

Left(o) == IF Live(o) THEN order[o].qty - order[o].filled ELSE 0

Available == held - MapThenSumSet(Left, Sells)

\* Orders are numbered as the broker accepts them.
Placed == {o \in Sells : order[o].stage # "new"}
IsNext(o) == o = Cardinality(Placed) + 1

Accepted(o, n, byHand) ==
    order' = [order EXCEPT ![o] = [NewOrder EXCEPT !.stage = "live", !.qty = n, !.hand = byHand]]

-----------------------------------------------------------------------------
(* The broker and the user (external).                                      *)

Fill(o, n) ==
    /\ n <= Left(o)
    /\ order' = [order EXCEPT ![o].filled = @ + n, ![o].upto = Cardinality(Placed),
                              ![o].stage = IF n = Left(o) THEN "dead" ELSE "live"]
    /\ held' = held - n
    /\ UNCHANGED <<book, truth, threads, history, bounds>>

\* The user cancels an order of the bot, or it lapses.
Cancel(o) ==
    /\ Live(o) /\ (CutsPartly \/ order[o].filled = 0)
    /\ cancels < MaxCancels /\ cancels' = cancels + 1
    /\ order' = [order EXCEPT ![o].stage = "dead"]
    /\ UNCHANGED <<held, book, truth, threads, history, faults>>

UserSells(o, n) ==
    /\ IsNext(o) /\ n <= Available
    /\ faults < MaxFaults /\ faults' = faults + 1
    /\ Accepted(o, n, TRUE)
    /\ UNCHANGED <<held, book, truth, threads, history, cancels>>

-----------------------------------------------------------------------------
(* The broker truth snapshot.                                               *)

\* The balance can lag the fills.
Balances == {held, truth.bal}

Renewed == {[ok |-> TRUE, bal |-> b, order |-> order] : b \in Balances}
Failed == {[truth EXCEPT !.ok = FALSE]}

\* refresh_broker_truth; unless forced, it keeps a snapshot that is fresh.
Refreshed(force) == Renewed \cup Failed \cup (IF force \/ ~truth.ok THEN {} ELSE {truth})

\* Sell orders with fills, and those that are open; of one number, if there is one.
Of(e) == IF e = None THEN Sells ELSE {e}
WithFills(s, e) == {o \in Of(e) : s.order[o].filled > 0}
Open(s, e) == {o \in Of(e) : s.order[o].stage = "live"}
Sold(s, e) == MapThenSumSet(LAMBDA o : s.order[o].filled, WithFills(s, e))

First(S) == IF S = {} THEN None ELSE Min(S)

-----------------------------------------------------------------------------
(* The run and the position.                                                *)

\* _find_position finds a position that is there; a thread may hold one that no longer is.
Save == saved' = pos'

Status(st) == run' = [run EXCEPT !.status = st]

\* _pathb_sell_in_flight
InFlight(r, p) == \/ r.status \in Selling \/ r.exit # None \/ r.sent
                  \/ p.closing \/ p.sale # None

\* _pathb_sellability_untrusted
Untrusted(r, p) == r.stuck \/ p.stuck \/ p.missing

\* _finalize_pathb_sell_close: the position goes, and mark_closed closes the run once.
Finalize(o) ==
    /\ IF pos.there THEN pos' = [pos EXCEPT !.there = FALSE, !.closing = FALSE] /\ Save
                    ELSE UNCHANGED <<pos, saved>>
    /\ IF run.status = "CLOSED"
       THEN /\ run' = [run EXCEPT !.exit = IF @ = None THEN o ELSE @]
            /\ UNCHANGED closes
       ELSE /\ run' = [run EXCEPT !.status = "CLOSED", !.exit = o]
            /\ closes' = closes + 1

\* A variant, for a check: the remainder taken for the shares sold.
ReducedBySold(n) == IF pos.there THEN [pos EXCEPT !.qty = @ - n, !.closing = FALSE] ELSE pos

\* _update_local_pathb_remaining_qty
Reduced(n) == IF pos.there THEN [pos EXCEPT !.qty = Max({0, n}), !.closing = FALSE] ELSE pos

\* exit_qty of the run that was read, or else the shares of the position.
Asked(r) == IF r.asked > 0 THEN r.asked ELSE IF pos.there THEN pos.qty ELSE 0

\* A variant, for a check: any fill of the sale is evidence of the whole.
EvidencePartly(r, s) == WithFills(s, r.exit)

\* _verify_sell_close_broker_evidence: fills under the run's number for all that was
\* asked; or, if that number has none, the one order with fills, made after the sale
\* was sent, with nothing held and nothing open.
Evidence(r, s) ==
    LET sold == Sold(s, r.exit)
    IN  IF Asked(r) > 0 /\ sold >= Asked(r) THEN WithFills(s, r.exit)
        ELSE IF r.exit # None /\ sold = 0 /\ s.bal = 0 /\ Open(s, None) = {}
        THEN {o \in Sells : /\ WithFills(s, None) = {o}
                            /\ s.order[o].filled >= Asked(r) /\ Asked(r) > 0
                            /\ r.sent => s.order[o].upto >= r.exit}
        ELSE {}

\* The fills that count for a part of the sale.
PartSold(r, s) == IF Asked(r) > 0 \/ r.exit = None THEN Sold(s, r.exit) ELSE 0

-----------------------------------------------------------------------------
(* The reconciliations: a thread reads the run, waits for the broker truth, and *)
(* writes what follows from both over what the run has become.                   *)

Reads(t, what) ==
    /\ pc[t] = "idle"
    /\ pc' = [pc EXCEPT ![t] = what]
    /\ me' = [me EXCEPT ![t].run = run]
    /\ UNCHANGED <<broker, book, truth, lock, history, bounds>>

\* A variant, for a check: a sale that was filled in part is not looked at again.
ReadPendingWhole(t) == run.status \in Selling \ {"SELL_PARTIAL_FILLED"} /\ Reads(t, "pending")

ReadPending(t) == run.status \in Selling /\ Reads(t, "pending")
ReadFilled(t) == run.status = "FILLED" /\ Reads(t, "filled")
ReadUnknown(t) == t = "loop" /\ run.status = "ORDER_UNKNOWN" /\ Reads(t, "unknown")

Done(t) == /\ pc' = [pc EXCEPT ![t] = "idle"]
           /\ me' = [me EXCEPT ![t] = Nothing]

\* Another thread has written the run since this one read it.
Crosses(t) == /\ crossed' = (crossed \/ (run # me[t].run /\ run' # run))
              /\ UNCHANGED <<marked, hasty, astray>>

\* The time to live of a sale that was sent: 15 minutes or more.  By then the snapshot is
\* younger than the sale, and a thread that was about to sell when the sale was sent has had
\* the broker's answers.
MayBeLate(t, s) ==
    LET r == me[t].run
    IN  /\ r.sent /\ (r.exit = None \/ s.order[r.exit].stage # "new")
        /\ run.exit = r.exit => \A u \in Threads \ {t} : pc[u] \notin Attempt

\* A partial fill: what was asked, less what was sold, is left.
Part(r, s) ==
    LET sold == PartSold(r, s)
    IN  /\ pos' = Reduced((IF Asked(r) > 0 THEN Asked(r) ELSE sold) - sold)
        /\ IF pos.there THEN Save ELSE UNCHANGED saved
        /\ UNCHANGED closes

\* _reconcile_sell_pending_run
Pending(t, s, late) ==
    LET r == me[t].run
    IN  /\ pc[t] = "pending" /\ (late => MayBeLate(t, s))
        /\ truth' = s /\ Done(t)
        /\ \/ ~s.ok /\ UNCHANGED book
           \/ /\ s.ok /\ Evidence(r, s) # {}
              /\ Finalize(IF r.exit \in Evidence(r, s) THEN r.exit ELSE First(Evidence(r, s)))
           \/ /\ s.ok /\ Evidence(r, s) = {} /\ PartSold(r, s) > 0
              /\ Part(r, s)
              /\ Status(IF late THEN "ORDER_UNKNOWN" ELSE "SELL_PARTIAL_FILLED")
           \/ /\ s.ok /\ Evidence(r, s) = {} /\ PartSold(r, s) = 0
              /\ Status(IF late /\ Open(s, r.exit) = {} THEN "ORDER_UNKNOWN" ELSE "SELL_ACKED")
              /\ UNCHANGED <<closes, pos, saved>>
        /\ Crosses(t) /\ UNCHANGED <<broker, lock, bounds>>

\* _reconcile_filled_position_run
Filled(t, s) ==
    LET r == me[t].run
    IN  /\ pc[t] = "filled"
        /\ truth' = s /\ Done(t)
        /\ IF s.ok /\ s.bal = 0 /\ Sold(s, r.exit) >= Size THEN Finalize(First(WithFills(s, r.exit)))
           ELSE IF s.ok /\ s.bal = 0 /\ ~(pos.there /\ pos.qty > 0)
           THEN Status("ORDER_UNKNOWN") /\ UNCHANGED <<closes, pos, saved>>
           ELSE UNCHANGED book
        /\ Crosses(t) /\ UNCHANGED <<broker, lock, bounds>>

\* _recover_exit_order_unknown_still_held: nothing sold, nothing open, the shares held.
StillHeld(r, s) ==
    /\ pos.there /\ pos.qty > 0
    /\ s.bal = pos.qty /\ pos.qty >= r.asked

\* A variant, for a check: the order is taken to be dead.
FilledAgainUnwatched(r) ==
    /\ run' = [run EXCEPT !.status = "FILLED", !.exit = None, !.asked = 0, !.sent = FALSE,
                          !.watch = FALSE, !.stuck = FALSE]
    /\ pos' = [pos EXCEPT !.closing = FALSE, !.sale = None]
    /\ IF r.exit # None \/ pos.closing \/ pos.sale # None THEN Save ELSE UNCHANGED saved
    /\ lock' = FALSE /\ UNCHANGED closes

\* A variant, for a check: the position keeps the number of the order.
FilledAgainInFlight(r) ==
    /\ run' = [run EXCEPT !.status = "FILLED", !.exit = None, !.asked = 0, !.sent = FALSE,
                          !.watch = r.exit # None, !.stuck = FALSE]
    /\ pos' = [pos EXCEPT !.closing = FALSE, !.watch = @ \/ r.exit # None]
    /\ IF r.exit # None \/ pos.closing THEN Save ELSE UNCHANGED saved
    /\ lock' = FALSE /\ UNCHANGED closes

\* What it writes: the run can be sold again, once the fills of the day have been seen.
FilledAgain(r) ==
    /\ run' = [run EXCEPT !.status = "FILLED", !.exit = None, !.asked = 0, !.sent = FALSE,
                          !.watch = r.exit # None, !.stuck = FALSE]
    /\ pos' = [pos EXCEPT !.closing = FALSE, !.sale = None, !.watch = @ \/ r.exit # None]
    /\ IF r.exit # None \/ pos.closing \/ pos.sale # None THEN Save ELSE UNCHANGED saved
    /\ lock' = FALSE /\ UNCHANGED closes

\* _reconcile_exit_order_unknown_run; a CLOSED event of the run comes before all else.
Unknown(t, s) ==
    LET r == me[t].run
        found == closes = 0 /\ s.ok
        none == found /\ Evidence(r, s) = {} /\ PartSold(r, s) = 0
    IN  /\ pc[t] = "unknown"
        /\ truth' = s /\ Done(t)
        /\ \/ closes > 0 /\ Status("CLOSED") /\ UNCHANGED <<closes, pos, saved, lock>>
           \/ closes = 0 /\ ~s.ok /\ UNCHANGED <<book, lock>>
           \/ /\ found /\ Evidence(r, s) # {}
              /\ Finalize(IF r.exit \in Evidence(r, s) THEN r.exit ELSE First(Evidence(r, s)))
              /\ UNCHANGED lock
           \/ /\ found /\ Evidence(r, s) = {} /\ PartSold(r, s) > 0
              /\ Part(r, s) /\ Status("SELL_PARTIAL_FILLED") /\ UNCHANGED lock
           \/ /\ none /\ Open(s, r.exit) # {}
              /\ Status("SELL_ACKED") /\ UNCHANGED <<closes, pos, saved, lock>>
           \/ /\ none /\ Open(s, r.exit) = {} /\ StillHeld(r, s)
              /\ FilledAgain(r)
           \/ /\ none /\ Open(s, r.exit) = {} /\ ~StillHeld(r, s)
              /\ UNCHANGED <<book, lock>>
        /\ Crosses(t) /\ UNCHANGED <<broker, bounds>>

-----------------------------------------------------------------------------
(* _submit_sell.                                                            *)

\* finally: the lock is released, whoever holds it by now.
GivesUp(t) == Done(t) /\ lock' = FALSE

Goes(t, step) == pc' = [pc EXCEPT ![t] = step]

\* scan_exits finds a filled run with its exit signal on.
StartSell(t) ==
    /\ pc[t] = "idle" /\ ~lock /\ run.status = "FILLED"
    /\ pos.there /\ pos.qty > 0
    /\ ~Untrusted(run, pos) /\ ~InFlight(run, pos)
    /\ lock' = TRUE
    /\ me' = [me EXCEPT ![t].qty = pos.qty]
    /\ Goes(t, IF run.watch \/ pos.watch THEN "observe" ELSE "review")
    /\ UNCHANGED <<broker, book, truth, history, bounds>>

\* _mark_pathb_sellability_untrusted: a quarantine, until somebody looks.
Quarantine(t) ==
    /\ pos' = [pos EXCEPT !.closing = FALSE, !.stuck = TRUE] /\ Save
    /\ run' = [run EXCEPT !.stuck = TRUE]
    /\ UNCHANGED closes /\ GivesUp(t)

\* _handle_pathb_sellable_qty_reject_fills: sell fills of the day, of whatever order.
TakeFills(t, s) ==
    LET o == First(WithFills(s, None))
        left == me[t].qty - Sold(s, None)
        sale == First(IF Open(s, None) = {} THEN {o} ELSE Open(s, None))
    IN  /\ IF left <= 0
           THEN Finalize(o)
           ELSE /\ pos' = [Reduced(left) EXCEPT !.closing = FALSE, !.sale = sale]
                /\ saved' = (IF pos.there THEN Reduced(left) ELSE saved)
                /\ run' = [run EXCEPT !.status = "SELL_PARTIAL_FILLED", !.exit = o,
                                      !.asked = me[t].qty, !.sent = TRUE, !.stuck = TRUE]
                /\ UNCHANGED closes
        /\ GivesUp(t)

\* _recover_existing_sell_order_after_qty_reject: the run takes the open order for its own.
Relink(t, s) ==
    LET o == First(Open(s, None))
    IN  /\ pos' = [pos EXCEPT !.closing = FALSE, !.sale = o, !.stuck = FALSE, !.watch = FALSE]
        /\ Save
        /\ run' = [run EXCEPT !.status = "SELL_ACKED", !.exit = o, !.sent = TRUE, !.stuck = FALSE,
                              !.asked = s.order[o].qty - s.order[o].filled]
        /\ UNCHANGED <<closes, lock>> /\ Done(t)

\* What the broker truth says of the sales of the day: fills, open orders, or else.
Looks(t, s) ==
    \/ ~s.ok /\ Quarantine(t)
    \/ s.ok /\ WithFills(s, None) # {} /\ TakeFills(t, s)
    \/ s.ok /\ WithFills(s, None) = {} /\ Open(s, None) # {} /\ Relink(t, s)

NothingSeen(s) == s.ok /\ WithFills(s, None) = {} /\ Open(s, None) = {}

\* _observe_pathb_sellability_before_submit, after an order that was never confirmed.
Observe(t, s) ==
    /\ pc[t] = "observe" /\ truth' = s
    /\ \/ Looks(t, s)
       \/ /\ NothingSeen(s)
          /\ pos' = [pos EXCEPT !.watch = FALSE] /\ Save
          /\ run' = [run EXCEPT !.watch = FALSE]
          /\ Goes(t, "review") /\ UNCHANGED <<closes, me, lock>>
    /\ UNCHANGED <<broker, history, bounds>>

\* _handle_pathb_sellable_qty_reject
Rejected(t, s) ==
    /\ pc[t] = "reject" /\ truth' = s
    /\ Looks(t, s) \/ (NothingSeen(s) /\ Quarantine(t))
    /\ UNCHANGED <<broker, history, bounds>>

\* _run_pathb_sell_review_gate says hold.
ReviewHolds(t) ==
    /\ pc[t] = "review" /\ GivesUp(t)
    /\ UNCHANGED <<broker, book, truth, history, bounds>>

\* A variant, for a check: what was checked before the review still holds.
ReviewSellsUnchecked(t) ==
    /\ pc[t] = "review"
    /\ pos' = [pos EXCEPT !.closing = TRUE]
    /\ Goes(t, "precheck")
    /\ UNCHANGED <<broker, run, closes, saved, truth, lock, me, history, bounds>>

\* It says sell, and what was checked before the review is checked again.
ReviewSells(t) ==
    /\ pc[t] = "review"
    /\ IF Untrusted(run, pos) \/ InFlight(run, pos)
       THEN GivesUp(t) /\ UNCHANGED pos
       ELSE /\ pos' = [pos EXCEPT !.closing = TRUE]
            /\ Goes(t, "precheck") /\ UNCHANGED <<me, lock>>
    /\ UNCHANGED <<broker, run, closes, saved, truth, history, bounds>>

NotClosing == pos' = [pos EXCEPT !.closing = FALSE] /\ UNCHANGED <<run, closes, saved>>

\* precheck_order, by the balance alone.
Precheck(t, b) ==
    /\ pc[t] = "precheck"
    /\ \/ b >= me[t].qty /\ Goes(t, "place") /\ UNCHANGED <<book, me, lock>>
       \/ b = 0 /\ Goes(t, "zero") /\ NotClosing /\ UNCHANGED <<me, lock>>
       \/ 0 < b /\ b < me[t].qty /\ GivesUp(t) /\ NotClosing
    /\ UNCHANGED <<broker, truth, history, bounds>>

PrecheckFails(t) ==
    /\ pc[t] = "precheck" /\ GivesUp(t) /\ NotClosing
    /\ UNCHANGED <<broker, truth, history, bounds>>

\* _handle_pathb_sell_precheck_failed: nothing is held, nothing is open.  The run is
\* closed without a CLOSED event.
Zero(t, s) ==
    /\ pc[t] = "zero" /\ GivesUp(t)
    /\ IF run.status = "CLOSED" \/ InFlight(run, pos)
       THEN UNCHANGED <<book, truth>>
       ELSE /\ truth' = s
            /\ IF s.ok /\ s.bal = 0 /\ Open(s, None) = {}
               THEN /\ pos' = [pos EXCEPT !.there = FALSE]
                    /\ IF pos.there THEN Save ELSE UNCHANGED saved
                    /\ Status("CLOSED") /\ UNCHANGED closes
               ELSE UNCHANGED book
    /\ UNCHANGED <<broker, history, bounds>>

PlaceAccepted(t, o) ==
    /\ pc[t] \in Sending /\ IsNext(o) /\ me[t].qty <= Available
    /\ Accepted(o, me[t].qty, FALSE)
    /\ Goes(t, "mark") /\ me' = [me EXCEPT ![t].order = o]
    /\ UNCHANGED <<held, book, truth, lock, history, bounds>>

\* The answer is HTTP 500: the broker may have taken the order all the same, then or just
\* after the list of orders is asked for.
ServerError(t) ==
    /\ pc[t] = "place" /\ faults < MaxFaults /\ faults' = faults + 1
    /\ \/ UNCHANGED <<order, me>>
       \/ \E o \in Sells : /\ IsNext(o) /\ me[t].qty <= Available
                          /\ Accepted(o, me[t].qty, FALSE)
                          /\ me' = [me EXCEPT ![t].order = o]
    /\ Goes(t, "truth")
    /\ UNCHANGED <<held, book, truth, lock, history, cancels>>

\* The list shows an order of the same size, the newest of the last two minutes: it is
\* taken for the one that was sent.  If it shows none, the order is sent again.
Found(t, o) ==
    /\ pc[t] = "truth" /\ o \in Placed /\ order[o].qty = me[t].qty
    /\ Goes(t, "mark") /\ me' = [me EXCEPT ![t].order = o]
    /\ astray' = (astray \/ o # me[t].order)
    /\ UNCHANGED <<broker, book, truth, lock, marked, crossed, hasty, bounds>>

\* The answer is lost, or HTTP 500 again, or the list cannot be had; and with it the number
\* of the order, if there is one.
PlaceUnknown(t) ==
    /\ pc[t] \in Sending
    /\ \/ faults < MaxFaults /\ faults' = faults + 1
       \/ pc[t] = "truth" /\ UNCHANGED <<faults, order>>
    /\ \/ UNCHANGED order
       \/ \E o \in Sells : IsNext(o) /\ me[t].qty <= Available /\ Accepted(o, me[t].qty, FALSE)
    /\ Status("ORDER_UNKNOWN")
    /\ GivesUp(t)
    /\ UNCHANGED <<held, closes, pos, saved, truth, history, cancels>>

PlaceRejected(t) ==
    /\ pc[t] \in Sending /\ me[t].qty > Available
    /\ Goes(t, "reject") /\ me' = [me EXCEPT ![t].order = None]
    /\ UNCHANGED <<broker, book, truth, lock, history, bounds>>

\* Rejected for another reason.
PlaceFails(t) ==
    /\ pc[t] \in Sending /\ GivesUp(t) /\ NotClosing
    /\ UNCHANGED <<broker, truth, history, bounds>>

\* mark_sell_order_sent; the lock is left to its time to live.
Mark(t) ==
    LET o == me[t].order
    IN  /\ pc[t] = "mark"
        /\ run' = [run EXCEPT !.status = "SELL_SENT", !.exit = o, !.asked = me[t].qty, !.sent = TRUE]
        /\ pos' = [pos EXCEPT !.sale = o] /\ Save
        /\ marked' = marked \cup {o} /\ crossed' = (crossed \/ run.status # "FILLED")
        /\ UNCHANGED <<hasty, astray>>
        /\ Done(t)
        /\ UNCHANGED <<broker, closes, truth, lock, bounds>>

LockExpires ==
    /\ lock /\ lock' = FALSE
    /\ UNCHANGED <<broker, book, truth, pc, me, history, bounds>>

-----------------------------------------------------------------------------
(* The position.                                                            *)

\* _clear_stale_pathb_closing_lock, in scan_exits: it finds the mark of a sale that was begun
\* a minute ago or more, and asks the broker.
ReadStale(t) ==
    /\ pc[t] = "idle" /\ run.status = "FILLED"
    /\ pos.there /\ pos.closing /\ pos.qty > 0
    /\ Goes(t, "stale")
    /\ UNCHANGED <<broker, book, truth, lock, me, history, bounds>>

\* No order is open, or the mark is 15 minutes old, which an attempt to sell does not last;
\* it may last a minute, with its time-outs and the order sent again.
ClearStale(t, s) ==
    /\ pc[t] = "stale" /\ Done(t) /\ truth' = s
    /\ \/ s.ok /\ Open(s, None) = {}
       \/ \A u \in Threads : pc[u] \notin Attempt
    /\ IF pos.there /\ (pos.closing \/ pos.sale # None)
       THEN pos' = [pos EXCEPT !.closing = FALSE, !.sale = None] /\ Save
       ELSE UNCHANGED <<pos, saved>>
    /\ hasty' = (hasty \/ \E u \in Threads : pc[u] \in Attempt)
    /\ UNCHANGED <<broker, run, closes, lock, marked, crossed, astray, bounds>>

\* The mark is too young for what the broker shows.
KeepStale(t, s) ==
    /\ pc[t] = "stale" /\ Done(t) /\ truth' = s
    /\ UNCHANGED <<broker, book, lock, history, bounds>>

\* _sync_runtime_with_broker: the balance corrects the shares; a position the broker does
\* not have is protected once, and removed by the next independent snapshot.
Sync(b) ==
    /\ pos.there
    /\ pos' = IF b > 0 THEN [pos EXCEPT !.qty = b, !.missing = FALSE]
              ELSE IF pos.missing /\ \A o \in Sells : ~Live(o) THEN [pos EXCEPT !.there = FALSE]
              ELSE [pos EXCEPT !.missing = TRUE]
    /\ Save
    /\ UNCHANGED <<broker, run, closes, truth, threads, history, bounds>>

\* A restart: the positions come from their file, the run from the store.
Crash ==
    /\ faults < MaxFaults /\ faults' = faults + 1
    /\ pos' = saved /\ UNCHANGED <<broker, run, closes, saved, history, cancels>>
    /\ truth' = [truth EXCEPT !.ok = FALSE]
    /\ lock' = FALSE
    /\ pc' = [t \in Threads |-> "idle"] /\ me' = [t \in Threads |-> Nothing]

-----------------------------------------------------------------------------
Outside == \/ \E o \in Sells, n \in 1 .. Size : Fill(o, n) \/ UserSells(o, n)
           \/ \E o \in Sells : Cancel(o)

Read(t) == ReadPending(t) \/ ReadFilled(t) \/ ReadUnknown(t) \/ ReadStale(t)

Reconcile(t) == \E s \in Refreshed(FALSE) :
                    \/ \E late \in BOOLEAN : Pending(t, s, late)
                    \/ Filled(t, s)
                    \/ Unknown(t, s)

Clear(t) == \E s \in Refreshed(TRUE) : ClearStale(t, s) \/ KeepStale(t, s)

Sell(t) == \/ StartSell(t)
           \/ \E s \in Refreshed(TRUE) : Observe(t, s) \/ Rejected(t, s) \/ Zero(t, s)
           \/ ReviewHolds(t) \/ ReviewSells(t)
           \/ \E b \in Balances : Precheck(t, b)
           \/ PrecheckFails(t)
           \/ \E o \in Sells : PlaceAccepted(t, o)
           \/ ServerError(t)
           \/ \E o \in Sells : Found(t, o)
           \/ PlaceUnknown(t) \/ PlaceRejected(t) \/ PlaceFails(t)
           \/ Mark(t)

Next == \/ Outside
        \/ \E t \in Threads : Read(t) \/ Reconcile(t) \/ Sell(t) \/ Clear(t)
        \/ LockExpires
        \/ \E b \in Balances : Sync(b)
        \/ Crash

Spec == Init /\ [][Next]_vars

\* What is open is filled in the end, or cancelled.  The threads scan in every cycle and
\* finish what they begin; the broker does not fail for ever, and shows in the end what
\* there is; a review does not say hold for ever; times to live run out.
Fresh == [ok |-> TRUE, bal |-> held, order |-> order]

Fairness ==
    /\ \A o \in Sells : WF_vars(\E n \in 1 .. Size : Fill(o, n))
    /\ WF_vars(LockExpires)
    /\ WF_vars(Sync(held))
    /\ \A t \in Threads :
        /\ WF_vars(Reconcile(t)) /\ WF_vars(Clear(t)) /\ WF_vars(Sell(t) /\ pc[t] # "idle")
        /\ SF_vars(ReadPending(t)) /\ SF_vars(ReadFilled(t)) /\ SF_vars(ReadUnknown(t))
        /\ SF_vars(Pending(t, Fresh, FALSE)) /\ SF_vars(Pending(t, Fresh, TRUE))
        /\ SF_vars(Filled(t, Fresh)) /\ SF_vars(Unknown(t, Fresh))
        /\ SF_vars(StartSell(t)) /\ SF_vars(Observe(t, Fresh)) /\ SF_vars(ReviewSells(t))
        /\ SF_vars(Precheck(t, held)) /\ SF_vars(\E o \in Sells : PlaceAccepted(t, o))
        /\ SF_vars(Zero(t, Fresh))
        /\ SF_vars(ReadStale(t)) /\ SF_vars(ClearStale(t, Fresh))

FairSpec == Spec /\ Fairness

-----------------------------------------------------------------------------
(* Properties.                                                              *)

\* Every order of the bot has its number in the store, or is on its way there.
Numbered == \A o \in Placed : o \in marked \/ \E t \in Threads : me[t].order = o

\* A run is closed when its shares are sold: no fill of another sale of the day, no
\* partial fill, no empty answer of the broker closes a run that still has shares.  (Once
\* an order has no number or another one's, two writes of the run have crossed, or the
\* mark of a sale was cleared while a thread was at it, it is not so.)
ClosedIsSold == run.status = "CLOSED" /\ Numbered /\ ~(crossed \/ hasty \/ astray) => held = 0

\* The trading loop and the WebSocket thread never send the same exit at once, although
\* the lock between them expires while either waits for the broker, unless the mark of a
\* sale is cleared while a thread is at it.
OneAttempt == ~hasty => \A t, u \in Threads : t # u => ~(pc[t] \in Attempt /\ pc[u] \in Attempt)

\* No order is sent while an earlier sale of the run can still be filled, whatever a
\* restart, the synchronisation, the clearing of a stale sale or the recovery of an
\* unknown order has erased of it (but for the same clearing).
NoSecondAttempt == ~hasty => \A t \in Threads, o \in marked : pc[t] \in Sending => ~Live(o)

\* An order that can be filled is never forgotten, whatever writes of the run have crossed:
\* the run keeps a number and is not offered for sale again, or the fills of the day are
\* looked at before the next order (again but for a sale cleared in its course).
LiveSaleIsWatched == ~hasty => \A o \in marked : Live(o) =>
    pos.watch \/ (run.exit # None /\ run.status # "FILLED")

Quarantined == run.stuck \/ pos.stuck

\* A position whose exit signal stays on is sold, or somebody is asked to look, although
\* the user may cancel the order.
PositionIsSold == <>(held = 0 \/ Quarantined)

\* A run whose shares are gone is closed.
SoldIsClosed == held = 0 ~> run.status = "CLOSED"

\* docs/important/core/ARCHITECTURE_MAP.md says that the sell locks and the in-flight state
\* stop duplicate sells.  They do not when the mark of a sale is cleared a minute after it was
\* made while its thread is still at it: an order is sent beside the live one of the other thread.
DuplicateSellsStopped == \A t, u \in Threads :
    t # u /\ pc[t] \in Sending /\ me[u].order # None => ~Live(me[u].order)

\* LIVE_PREFLIGHT_CHECKLIST.md promises a sale that was filled in part a fallback for
\* the remainder.  There is none once the order is gone: the run stays in flight.
RemainderIsSold == run.status = "SELL_PARTIAL_FILLED" ~> held = 0 \/ Quarantined

=============================================================================
