------------------------------ MODULE PathBBuy ------------------------------
(***************************************************************************)
(* The buy side of PathB (runtime/pathb_runtime.py), for ONE ticker: path  *)
(* runs kept in the event store, from registration to a filled, cancelled, *)
(* expired or unknown entry order; the orders at the broker; the pending   *)
(* rows and the positions of the bot.                                      *)
(*                                                                         *)
(* scan_waiting_entries is called by the trading loop ("main") and, on     *)
(* every price tick, by the WebSocket thread ("ws"), with no lock between  *)
(* them.  Each scanner works on one run at a time, in a job of several     *)
(* steps: a step is the part of the code between two calls that wait on    *)
(* the broker or between two writes of the event store.  The broker, the   *)
(* other scanner, the Telegram thread and a crash act in between.          *)
(***************************************************************************)
EXTENDS Integers, FiniteSets, FiniteSetsExt

CONSTANTS
    Runs,           \* path_run_ids
    Orders,         \* order numbers the broker gives to PathB's buy orders
    Others,         \* buy orders of the ticker placed by the user or by Path A
    Scanners,       \* the threads that call scan_waiting_entries
    NoRun, NoOrder, \* no path run, no order number
    Other,          \* owner of a local position that no path run owns
    Qty,            \* the size of an order
    MaxDays,        \* bound: sessions
    MaxCrashes,     \* bound: crashes of the process
    MaxKills,       \* bound: /pathb_kill commands
    MaxStrays       \* bound: submissions whose result is not that of one order

ASSUME ScannersAssumption == "main" \in Scanners /\ Scanners \subseteq {"main", "ws"}
ASSUME NamesAssumption == /\ NoRun \notin Runs
                          /\ Other \notin Runs
                          /\ Orders \cap Others = {}
                          /\ NoOrder \notin Orders \cup Others
                          /\ IsFiniteSet(Orders \cup Others)
ASSUME SizesAssumption == /\ Qty \in Nat \ {0}
                          /\ MaxDays \in Nat \ {0} /\ MaxCrashes \in Nat /\ MaxKills \in Nat
                          /\ MaxStrays \in Nat

VARIABLES
    run,        \* the rows of v2_path_runs
    broker,     \* each order as the broker knows it
    row,        \* the pending row of an order: the quantity that is left, and its path run
    pos,        \* owners of the ticker's local positions
    job,        \* what each scanner is doing
    phase, day, \* where the session stands
    todo,       \* runs the session's opening or closing has yet to reconcile
    enabled,    \* PathB's control state
    crashes, kills, strays  \* counters, for the bounds

vars == <<run, broker, row, pos, job, phase, day, todo, enabled, crashes, kills,
          strays>>
session == <<phase, day, todo, enabled>>
bounds == <<crashes, kills, strays>>

AllOrders == Orders \cup Others

Pending == {"ORDER_SENT", "ORDER_ACKED"}
Entered == {"FILLED", "PARTIAL_FILLED"}
Active == {"WAITING", "HIT", "ORDER_UNKNOWN"} \cup Pending \cup Entered
Cancellable == {"WAITING", "HIT"} \cup Pending
Statuses == Active \cup {"NONE", "CANCELLED", "EXPIRED"}

\* Why a run was cancelled.
Causes == {"", "blocked", "precheck", "reject", "unsent", "kill", "above", "ttl", "path_a",
           "no_evidence"}

RunRows == [status : Statuses,
            day    : 0 .. MaxDays,                  \* session_date
            no     : AllOrders \cup {NoOrder},      \* entry_execution_id
            sized  : BOOLEAN,                       \* entry_qty is known
            above  : BOOLEAN,                       \* cancel_requested_at
            ttl    : BOOLEAN,                       \* pending_buy_ttl_cancel_requested_at
            retry  : BOOLEAN,       \* order_unknown_resolution is one to retry (or still empty)
            manual : BOOLEAN,                       \* manual_reconciliation_required
            cause  : Causes]                        \* cancel_reason

NewRun == [status |-> "NONE", day |-> 0, no |-> NoOrder, sized |-> FALSE, above |-> FALSE,
           ttl |-> FALSE, retry |-> TRUE, manual |-> FALSE, cause |-> ""]

\* st: "transit" is a request whose answer the bot never got and that the
\* broker may yet accept.
BrokerOrders == [st : {"none", "transit", "open", "done"}, filled : 0 .. Qty,
                 by : Runs \cup {NoRun, "user", "path_a"}, day : 0 .. MaxDays]

NewOrder == [st |-> "none", filled |-> 0, by |-> NoRun, day |-> 0]

\* An order without a pending row.
NoRow == [left |-> 0, run |-> NoRun]
Rows == [left : 0 .. Qty, run : Runs \cup {NoRun}]

\* A broker truth snapshot: the balance, then the order list of the day.
NoView == [ok |-> FALSE, open |-> {}, fills |-> [o \in AllOrders |-> 0], held |-> 0]

Views == [ok : BOOLEAN, open : SUBSET AllOrders, fills : [AllOrders -> 0 .. Qty], held : Int]

\* A job: its place, what it reconciles, its run, the row of the run it has
\* read, the order number it holds, the snapshot it acts on.
NoJob == [at |-> "idle", what |-> "", run |-> NoRun, read |-> NewRun, ord |-> NoOrder,
          view |-> NoView]

Places == {"idle", "gate", "precheck", "place", "sent", "acked", "row", "refresh", "act"}

Jobs == [at : Places, what : {"", "unknown", "above", "ttl"}, run : Runs \cup {NoRun},
         read : RunRows, ord : AllOrders \cup {NoOrder}, view : Views]

Init == /\ run = [r \in Runs |-> NewRun]
        /\ broker = [o \in AllOrders |-> NewOrder]
        /\ row = [o \in AllOrders |-> NoRow]
        /\ pos = {}
        /\ job = [th \in Scanners |-> NoJob]
        /\ phase = "open"
        /\ day = 1
        /\ todo = {}
        /\ enabled = TRUE
        /\ crashes = 0 /\ kills = 0 /\ strays = 0

-----------------------------------------------------------------------------
(* Helpers *)

Today(r) == run[r].day = day
Of(r) == {o \in AllOrders : broker[o].by = r}
Live(o) == broker[o].st \in {"transit", "open"}

\* The broker's holding of the ticker, bought up to the end of day d.
HeldBy(d) == MapThenSumSet(LAMBDA o : broker[o].filled, {o \in AllOrders : broker[o].day <= d})
Held == HeldBy(day)
Bought == \E o \in AllOrders : broker[o].filled > 0

\* What the balance may show: it may lag behind the fills of the day.  (Both sums are 0 as long
\* as nothing was bought; the proofs need no more of them.)
Balances == IF Bought THEN HeldBy(day - 1) .. Held ELSE {0}

\* _order_unknown_blocked: the runs of every session count.
UnknownBlocked == \E r \in Runs : run[r].status = "ORDER_UNKNOWN" /\ run[r].retry

\* A variant, for a check: orders at the broker are not active.
ActiveRunsUnsent == {r \in Runs : Today(r) /\ run[r].status \in Active \ Pending}

\* _active_path_for_ticker
ActiveRuns == {r \in Runs : Today(r) /\ run[r].status \in Active}

MainIdle == job["main"] = NoJob
Leave(th) == job' = [job EXCEPT ![th] = NoJob]
Goto(th, place) == job' = [job EXCEPT ![th].at = place]
Enter(th, place, what, r) == job' = [job EXCEPT ![th].at = place, ![th].what = what,
                                                ![th].run = r, ![th].read = run[r]]

\* Writes of the store by execution/claude_price_adapter.py.
MarkStatus(r, status) == run' = [run EXCEPT ![r].status = status]
MarkUnknown(r) == MarkStatus(r, "ORDER_UNKNOWN")
MarkFilled(r, o) == run' = [run EXCEPT ![r].status = "FILLED", ![r].no = o]
CancelPlan(r, why) ==
    IF run[r].status \in Cancellable
    THEN run' = [run EXCEPT ![r].status = "CANCELLED", ![r].cause = why]
    ELSE UNCHANGED run

-----------------------------------------------------------------------------
(* Plans: registration, and cancellation of what has not been sent *)

\* register_from_selection_meta: one active run per ticker and session.
Register(r) == /\ MainIdle /\ phase = "open" /\ enabled
               /\ run[r].status = "NONE"
               /\ ActiveRuns = {}
               /\ run' = [run EXCEPT ![r].status = "WAITING", ![r].day = day]
               /\ UNCHANGED <<broker, row, pos, job, session, bounds>>

\* cancel_unsent_waiting, cancel_waiting_for_ticker
CancelUnsent(r) == /\ MainIdle /\ phase = "open"
                   /\ Today(r) /\ run[r].status \in {"WAITING", "HIT"}
                   /\ CancelPlan(r, "unsent")
                   /\ UNCHANGED <<broker, row, pos, job, session, bounds>>

\* emergency_disable on the Telegram thread: cancel_waiting cancels the runs whose
\* order is at the broker too, and does not cancel the order.
Kill == /\ kills < MaxKills /\ phase = "open" /\ enabled
        /\ kills' = kills + 1
        /\ enabled' = FALSE
        /\ run' = [r \in Runs |-> IF Today(r) /\ run[r].status \in Cancellable
                                  THEN [run[r] EXCEPT !.status = "CANCELLED", !.cause = "kill"]
                                  ELSE run[r]]
        /\ UNCHANGED <<broker, row, pos, job, phase, day, todo, crashes, strays>>

Enable == /\ ~enabled
          /\ enabled' = TRUE
          /\ UNCHANGED <<run, broker, row, pos, job, phase, day, todo, bounds>>

-----------------------------------------------------------------------------
(* scan_waiting_entries: submission of a waiting plan (_submit_buy) *)

Scanning(th) == job[th] = NoJob /\ phase = "open" /\ enabled

\* The scan's own gate is open, the price is in the zone and the run is WAITING.
CheckEntry(th, r) == /\ Scanning(th)
                     /\ ~UnknownBlocked
                     /\ Today(r) /\ run[r].status = "WAITING"
                     /\ Enter(th, "gate", "", r)
                     /\ UNCHANGED <<run, broker, row, pos, session, bounds>>

\* SafetyGate and PathBSafetyGate, as far as this module's state decides them.
GateOpen(r) == /\ ~UnknownBlocked
               /\ \A o \in AllOrders : row[o].left = 0   \* PENDING_ORDER_EXISTS
               /\ pos = {}                          \* ALREADY_HOLDING
               /\ ActiveRuns \subseteq {r}          \* PATH_DUPLICATE_HOLDING

\* ... passed: mark_hit, whatever the run's status is by now.
GatePass(th) == /\ job[th].at = "gate"
                /\ enabled
                /\ GateOpen(job[th].run)
                /\ MarkStatus(job[th].run, "HIT")
                /\ Goto(th, "precheck")
                /\ UNCHANGED <<broker, row, pos, session, bounds>>

\* ... blocked, by these conditions or by one outside this module (price above
\* cancel_if_open_above, cash, confidence, caps): the plan is cancelled, or
\* kept waiting when only the order's size is at fault.
GateBlock(th) == /\ job[th].at = "gate"
                 /\ \/ CancelPlan(job[th].run, "blocked")
                    \/ GateOpen(job[th].run) /\ UNCHANGED run
                 /\ Leave(th)
                 /\ UNCHANGED <<broker, row, pos, session, bounds>>

\* precheck_order: passed, refused, or raised, which leaves the run HIT.
Precheck(th) == /\ job[th].at = "precheck"
                /\ \/ Goto(th, "place") /\ UNCHANGED run
                   \/ CancelPlan(job[th].run, "precheck") /\ Leave(th)
                   \/ Leave(th) /\ UNCHANGED run
                /\ UNCHANGED <<broker, row, pos, session, bounds>>

Request(r, st) == [st |-> st, filled |-> 0, by |-> r, day |-> day]

BrokerTakes(o, r, st) == /\ broker[o].st = "none"
                         /\ broker' = [broker EXCEPT ![o] = Request(r, st)]

Submitted(th, o) == job' = [job EXCEPT ![th].at = "sent", ![th].ord = o]

\* ORDER_UNKNOWN, and a forced reconcile of this run.
SubmitUnknown(th) == /\ MarkUnknown(job[th].run)
                     /\ job' = [job EXCEPT ![th].at = "refresh", ![th].what = "unknown",
                                           ![th].read = run'[job[th].run]]

\* A final refusal is ORDER_UNKNOWN too, and the forced reconcile cancels the run.
SubmitRefused(th) == /\ run' = [run EXCEPT ![job[th].run].status = "CANCELLED",
                                           ![job[th].run].retry = FALSE,
                                           ![job[th].run].cause = "reject"]
                     /\ Leave(th)

\* place_order: accepted, at the first submission or, when that one ended in HTTP 500 and
\* the broker did not get it, at the second; or found in the order list in between.
PlaceAccepted(th) == /\ job[th].at = "place"
                     /\ \E o \in Orders : BrokerTakes(o, job[th].run, "open") /\ Submitted(th, o)
                     /\ UNCHANGED <<run, row, pos, session, bounds>>

\* ... raised, or refused with a message that is not known to be final.  The broker may have
\* the order all the same.
PlaceUnknown(th) == /\ job[th].at = "place"
                    /\ \/ UNCHANGED broker
                       \/ \E o \in Orders, st \in {"transit", "open"} :
                            BrokerTakes(o, job[th].run, st)
                    /\ SubmitUnknown(th)
                    /\ UNCHANGED <<row, pos, session, bounds>>

\* ... refused for good.
PlaceRejected(th) == /\ job[th].at = "place"
                     /\ SubmitRefused(th)
                     /\ UNCHANGED <<broker, row, pos, session, bounds>>

Stray == strays < MaxStrays /\ strays' = strays + 1 /\ UNCHANGED <<crashes, kills>>

\* ... answered with HTTP 500 while the broker may yet accept the request o, which its order
\* list does not show: place_order submits once more, and that request is accepted, or raises
\* in its turn, or is refused.  (One step: nobody sees a request in transit, so that what the
\* others do between the two submissions they can do as well before both or after both.)
PlaceAgain(th) ==
    LET r == job[th].run
        Both(o, p, st) == /\ o # p /\ broker[o].st = "none" /\ broker[p].st = "none"
                          /\ broker' = [broker EXCEPT ![o] = Request(r, "transit"),
                                                      ![p] = Request(r, st)]
    IN  /\ job[th].at = "place"
        /\ Stray
        /\ \/ \E o, p \in Orders : Both(o, p, "open") /\ Submitted(th, p) /\ UNCHANGED run
           \/ \E o, p \in Orders, st \in {"transit", "open"} : Both(o, p, st) /\ SubmitUnknown(th)
           \/ \E o \in Orders : BrokerTakes(o, r, "transit") /\ SubmitRefused(th)
        /\ UNCHANGED <<row, pos, session>>

\* ... answered with HTTP 500, and the newest order of this ticker, side and quantity in the
\* list is not this request but the user's, Path A's or another run's: it passes for this one.
PlaceFound(th) ==
    /\ job[th].at = "place"
    /\ Stray
    /\ \E o \in AllOrders : /\ broker[o].st \in {"open", "done"} /\ broker[o].day = day
                            /\ Submitted(th, o)
    /\ \/ UNCHANGED broker
       \/ \E o \in Orders, st \in {"transit", "open"} : BrokerTakes(o, job[th].run, st)
    /\ UNCHANGED <<run, row, pos, session>>

\* mark_order_sent, mark_order_acked, _add_pending_order
MarkSent(th) == /\ job[th].at = "sent"
                /\ run' = [run EXCEPT ![job[th].run].status = "ORDER_SENT",
                                      ![job[th].run].no = job[th].ord,
                                      ![job[th].run].sized = TRUE]
                /\ Goto(th, "acked")
                /\ UNCHANGED <<broker, row, pos, session, bounds>>

MarkAcked(th) == /\ job[th].at = "acked"
                 /\ run' = [run EXCEPT ![job[th].run].status = "ORDER_ACKED",
                                       ![job[th].run].no = job[th].ord]
                 /\ Goto(th, "row")
                 /\ UNCHANGED <<broker, row, pos, session, bounds>>

AddPendingOrder(th) == /\ job[th].at = "row"
                       /\ row' = [row EXCEPT ![job[th].ord] = [left |-> Qty, run |-> job[th].run]]
                       /\ Leave(th)
                       /\ UNCHANGED <<run, broker, pos, session, bounds>>

-----------------------------------------------------------------------------
(* Reconciliation with the broker.  A scan of scan_waiting_entries starts with the *)
(* unknown runs and the pending ones, each on a broker truth snapshot.  (That of   *)
(* an unknown run may be 30 seconds old, which tells the run no more than one that *)
(* is taken now and acted on later.)                                               *)

\* The row as read, then straight to the snapshot.
EnterRefresh(th, what, r) == Enter(th, "refresh", what, r) /\ UNCHANGED run

\* cancel_order raises when the broker refuses or does not answer.  Taken or not,
\* the order is still open until the broker drops it (BrokerDrop).
CancelTaken(o) == broker[o].st = "open"

\* reconcile_buy_pending_cancel_above: the price is above the plan's threshold.  The first
\* time the cancel is sent; a failure makes the run ORDER_UNKNOWN at once.  (A pending run
\* always has the number and the quantity of its order, which the code looks for.)
StartAbove(th, r) ==
    /\ Scanning(th)
    /\ Today(r) /\ run[r].status \in Pending
    /\ \/ run[r].above /\ EnterRefresh(th, "above", r)
       \/ /\ ~run[r].above /\ CancelTaken(run[r].no)
          /\ Enter(th, "refresh", "above", r)
          /\ run' = [run EXCEPT ![r].above = TRUE]
       \/ /\ ~run[r].above
          /\ run' = [run EXCEPT ![r].above = TRUE, ![r].status = "ORDER_UNKNOWN"]
          /\ UNCHANGED job
    /\ UNCHANGED <<broker, row, pos, session, bounds>>

\* _reconcile_buy_pending_ttl_run: the order is older than its time to live.
StartTtl(th, r) ==
    /\ Scanning(th)
    /\ Today(r) /\ run[r].status \in Pending
    /\ EnterRefresh(th, "ttl", r)
    /\ UNCHANGED <<broker, row, pos, session, bounds>>

\* A variant, for a check: a resolution once set is never looked at again.
StartUnknownOnce(th, r) ==
    /\ \/ Scanning(th) /\ Today(r) /\ run[r].retry /\ UNCHANGED todo
       \/ th = "main" /\ MainIdle /\ r \in todo /\ todo' = todo \ {r}
    /\ run[r].status = "ORDER_UNKNOWN"
    /\ EnterRefresh(th, "unknown", r)
    /\ UNCHANGED <<broker, row, pos, phase, day, enabled, bounds>>

\* reconcile_order_unknowns: in a scan, and once for each run at the session's
\* closing and opening.
StartUnknown(th, r) ==
    /\ \/ Scanning(th) /\ Today(r) /\ UNCHANGED todo
       \/ th = "main" /\ MainIdle /\ r \in todo /\ todo' = todo \ {r}
    /\ run[r].status = "ORDER_UNKNOWN"
    /\ EnterRefresh(th, "unknown", r)
    /\ UNCHANGED <<broker, row, pos, phase, day, enabled, bounds>>

\* refresh_broker_truth: the balance and one list of the day's orders, or a failure.
RefreshOk(th) ==
    /\ job[th].at = "refresh"
    /\ \E h \in Balances :
         job' = [job EXCEPT
            ![th].at = "act",
            ![th].view = [ok    |-> TRUE,
                          open  |-> {o \in AllOrders : broker[o].st = "open"},
                          fills |-> [o \in AllOrders |-> IF broker[o].day = day
                                                         THEN broker[o].filled ELSE 0],
                          held  |-> h]]
    /\ UNCHANGED <<run, broker, row, pos, session, bounds>>

RefreshFailed(th) == /\ job[th].at = "refresh"
                     /\ Goto(th, "act")
                     /\ UNCHANGED <<run, broker, row, pos, session, bounds>>

\* A variant, for a check: an order's size passes for its filled quantity.
FilledBySize(v) == {o \in AllOrders : v.fills[o] > 0} \cup v.open

Filled(v) == {o \in AllOrders : v.fills[o] > 0}

Acts(th, what) == /\ job[th].at = "act" /\ job[th].what = what
                  /\ Leave(th)
                  /\ UNCHANGED <<broker, row, session, bounds>>

NoChange == UNCHANGED <<run, pos>>
Recovered(r, o) == MarkFilled(r, o) /\ pos' = pos \cup {r}

\* A variant, for a check: the cancel request passes for its confirmation.
ActAboveUnconfirmed(th) ==
    LET r == job[th].run
        v == job[th].view
    IN  /\ Acts(th, "above")
        /\ \/ ~v.ok /\ NoChange
           \/ v.ok /\ \E o \in Filled(v) : Filled(v) = {o} /\ Recovered(r, o)
           \/ v.ok /\ Cardinality(Filled(v)) > 1 /\ MarkUnknown(r) /\ UNCHANGED pos
           \/ v.ok /\ Filled(v) = {} /\ CancelPlan(r, "above") /\ UNCHANGED pos

\* ... with a price above the threshold.  A fill or an open order counts as the run's
\* when it is the ticker's only one in the price zone (_match_pathb_fill).  120 s
\* after the cancel request the outcome is unknown (_cancel_confirm_ttl_expired).
ActAbove(th) ==
    LET r == job[th].run
        v == job[th].view
        expired == job[th].read.above /\ MarkUnknown(r) /\ UNCHANGED pos
    IN  /\ Acts(th, "above")
        /\ \/ ~v.ok /\ (NoChange \/ expired)
           \/ v.ok /\ \E o \in Filled(v) : Filled(v) = {o} /\ Recovered(r, o)
           \/ v.ok /\ Cardinality(Filled(v)) > 1 /\ MarkUnknown(r) /\ UNCHANGED pos
           \/ v.ok /\ Filled(v) = {} /\ v.open # {} /\ (NoChange \/ expired)
           \/ v.ok /\ Filled(v) = {} /\ v.open = {} /\ CancelPlan(r, "above") /\ UNCHANGED pos

\* ... past its time to live.  Here fills and open orders are matched by number, and
\* the cancel request is sent on evidence that the order is open.
ActTtl(th) ==
    LET r == job[th].run
        v == job[th].view
        own == job[th].read.no
    IN  /\ Acts(th, "ttl")
        /\ \/ ~v.ok /\ NoChange
           \/ v.ok /\ own \in Filled(v) /\ Recovered(r, own)
           \/ v.ok /\ own \notin Filled(v) /\ Filled(v) # {} /\ MarkUnknown(r) /\ UNCHANGED pos
           \/ /\ v.ok /\ Filled(v) = {} /\ own \in v.open
              /\ UNCHANGED pos
              /\ \/ job[th].read.ttl /\ UNCHANGED run
                 \/ /\ ~job[th].read.ttl /\ CancelTaken(own)
                    /\ run' = [run EXCEPT ![r].ttl = TRUE]
                 \/ /\ ~job[th].read.ttl
                    /\ run' = [run EXCEPT ![r].ttl = TRUE, ![r].status = "ORDER_UNKNOWN"]
           \/ v.ok /\ Filled(v) = {} /\ own \notin v.open /\ v.open # {} /\ NoChange
           \/ v.ok /\ Filled(v) = {} /\ v.open = {} /\ CancelPlan(r, "ttl") /\ UNCHANGED pos

-----------------------------------------------------------------------------
(* _reconcile_order_unknown_run.  It writes over the run without looking   *)
(* whether the run is still unknown.                                       *)

PathAEvidence(r, own) == \E o \in Others \ {own} :
                            /\ broker[o].by = "path_a"
                            /\ broker[o].day = run[r].day \/ broker[o].st = "open"

\* The evidence, in the order of the code.
Evidence(th) ==
    LET r == job[th].run
        v == job[th].view
        own == job[th].read.no
    IN  IF r \in pos THEN "local_holding"
        ELSE IF v.ok /\ own \in Filled(v) THEN "own_fill"
        ELSE IF v.ok /\ own \in v.open THEN "own_open"
        ELSE IF v.ok /\ v.held > 0 /\ own # NoOrder THEN "holding"
        ELSE IF PathAEvidence(r, own) THEN "path_a"
        ELSE IF ~v.ok THEN "unavailable"
        ELSE IF Cardinality(Filled(v)) > 1 THEN "ambiguous"
        ELSE IF Filled(v) # {} THEN "one_fill"
        ELSE IF Cardinality(v.open) > 1 THEN "ambiguous"
        ELSE IF v.open # {} THEN "one_open"
        ELSE IF v.held > 0 THEN "holding"
        ELSE "none"

Retry(r, retry) == run' = [run EXCEPT ![r].retry = retry]

\* _recover_order_unknown_fill, for qty shares
RecoverFill(r, read, o, qty) ==
    /\ run' = IF read.sized /\ qty < Qty
              THEN [run EXCEPT ![r].status = "PARTIAL_FILLED", ![r].retry = FALSE]
              ELSE [run EXCEPT ![r].status = "FILLED", ![r].no = o, ![r].retry = FALSE]
    /\ pos' = pos \cup {r}

\* A variant, for a check: an order listed as open passes for a fill.
RecoverOpenAsFill(r, read, o) ==
    run' = [run EXCEPT ![r].status = "FILLED", ![r].no = o, ![r].retry = FALSE]

\* mark_order_sent if no number was known, mark_order_acked
RecoverOpen(r, read, o) ==
    run' = [run EXCEPT ![r].status = "ORDER_ACKED", ![r].no = o, ![r].retry = FALSE,
                       ![r].sized = @ \/ read.no = NoOrder]

\* A variant, for a check: no evidence clears the run in the middle of the session too.
UnexplainedIsNothing(r, read, available) ==
    \/ phase # "opening" /\ ~available /\ Retry(r, TRUE)
    \/ phase = "opening" /\ Retry(r, TRUE)
    \/ /\ phase # "opening" /\ available
       /\ run' = [run EXCEPT ![r].status = "CANCELLED", ![r].retry = FALSE,
                             ![r].cause = "no_evidence"]

\* Nothing at the broker, or no snapshot at the session's end.
Unexplained(r, read, available) ==
    \/ phase = "open" /\ Retry(r, TRUE)
    \/ phase = "closing" /\ run' = [run EXCEPT ![r].retry = TRUE, ![r].manual = TRUE]
    \/ phase = "opening" /\ ~available /\ Retry(r, TRUE)
    \/ phase = "opening" /\ available /\ read.manual /\ Retry(r, FALSE)
    \/ /\ phase = "opening" /\ available /\ ~read.manual
       /\ run' = [run EXCEPT ![r].status = "CANCELLED", ![r].retry = FALSE,
                             ![r].cause = "no_evidence"]

ActUnknown(th) ==
    LET r == job[th].run
        v == job[th].view
        read == job[th].read
        evidence == Evidence(th)
    IN  /\ Acts(th, "unknown")
        /\ \/ /\ evidence = "local_holding"
              /\ run' = [run EXCEPT ![r].status = "FILLED", ![r].retry = FALSE]
              /\ UNCHANGED pos
           \/ evidence = "own_fill" /\ RecoverFill(r, read, read.no, v.fills[read.no])
           \/ evidence = "own_open" /\ RecoverOpen(r, read, read.no) /\ UNCHANGED pos
           \/ evidence = "holding" /\ RecoverFill(r, read, read.no, v.held)
           \/ /\ evidence = "path_a"
              /\ run' = [run EXCEPT ![r].status = "CANCELLED", ![r].retry = FALSE,
                                    ![r].cause = "path_a"]
              /\ UNCHANGED pos
           \/ evidence = "ambiguous" /\ Retry(r, TRUE) /\ UNCHANGED pos
           \/ /\ evidence = "one_fill"
              /\ \E o \in Filled(v) : RecoverFill(r, read, o, v.fills[o])
           \/ evidence = "one_open" /\ (\E o \in v.open : RecoverOpen(r, read, o)) /\ UNCHANGED pos
           \/ evidence = "unavailable" /\ Unexplained(r, read, FALSE) /\ UNCHANGED pos
           \/ evidence = "none" /\ Unexplained(r, read, TRUE) /\ UNCHANGED pos

-----------------------------------------------------------------------------
(* trading_bot: fills of pending rows, positions the broker reports *)

\* A variant, for a check: shares that the row has already seen count again.
LearnFillAgain(th, o) ==
    /\ job[th] = NoJob /\ phase = "open" /\ row[o].left > 0
    /\ LET r == row[o].run
       IN  \E n \in 1 .. broker[o].filled :
            /\ row' = [row EXCEPT ![o].left = @ - n]
            /\ IF n < row[o].left THEN MarkStatus(r, "PARTIAL_FILLED") ELSE MarkFilled(r, o)
            /\ pos' = pos \cup {r}
    /\ UNCHANGED <<broker, job, session, bounds>>

\* A fill reaches the row of its order, on the main loop from the order's cumulative
\* execution query (_reconcile_pending_orders), on the WebSocket thread as a notice
\* of some of the shares (_on_fill_notice); then on_buy_fill, for a run in any status.
LearnFill(th, o) ==
    /\ job[th] = NoJob /\ phase = "open" /\ row[o].left > 0
    /\ LET new == broker[o].filled - (Qty - row[o].left)
           r == row[o].run
       IN  \E n \in 1 .. new :
            /\ th = "main" => n = new
            /\ row' = [row EXCEPT ![o].left = @ - n]
            /\ IF n < row[o].left THEN MarkStatus(r, "PARTIAL_FILLED") ELSE MarkFilled(r, o)
            /\ pos' = pos \cup {r}
    /\ UNCHANGED <<broker, job, session, bounds>>

\* _pathb_broker_recovery_template: runs that may explain a holding of the broker.
Explains(r) == /\ run[r].status \in Entered \cup Pending \cup {"ORDER_UNKNOWN"}
               /\ run[r].sized => Held <= Qty

\* _sync_runtime_with_broker on a holding that no path run owns: it goes to the run of
\* its pending row, else to the one run that explains it at the right price, else
\* to nobody.  Two positions of a ticker are merged.
SyncPositions ==
    /\ MainIdle /\ phase \in {"open", "opening"}
    /\ \/ /\ pos = {} /\ Bought
          /\ \E o \in AllOrders : row[o].left > 0 /\ pos' = {row[o].run}
          /\ UNCHANGED run
       \/ /\ pos \subseteq {Other} /\ Bought
          /\ pos = {} => \A o \in AllOrders : row[o].left = 0
          /\ \E r \in Runs : /\ Explains(r)
                             /\ pos' = {r}
                             /\ IF run[r].status \in Pending THEN MarkStatus(r, "FILLED")
                                ELSE UNCHANGED run
       \/ /\ pos = {} /\ Bought
          /\ \A o \in AllOrders : row[o].left = 0
          /\ pos' = {Other}
          /\ UNCHANGED run
       \/ /\ Cardinality(pos) > 1
          /\ \E who \in pos : pos' = {who}
          /\ UNCHANGED run
    /\ UNCHANGED <<broker, row, job, session, bounds>>

-----------------------------------------------------------------------------
(* The broker *)

SetBroker(o, order) == broker' = [broker EXCEPT ![o] = order]
BrokerOnly == UNCHANGED <<run, row, pos, job, session, bounds>>

BrokerAccept(o) == /\ broker[o].st = "transit"
                   /\ \E st \in {"open", "done"} : SetBroker(o, [broker[o] EXCEPT !.st = st])
                   /\ BrokerOnly

BrokerFill(o) == /\ broker[o].st = "open"
                 /\ \E q \in broker[o].filled + 1 .. Qty :
                        SetBroker(o, [broker[o] EXCEPT !.filled = q,
                                                       !.st = IF q = Qty THEN "done" ELSE @])
                 /\ BrokerOnly

\* A cancel takes effect: PathB's, the user's, or the exchange's.
BrokerDrop(o) == /\ broker[o].st = "open"
                 /\ SetBroker(o, [broker[o] EXCEPT !.st = "done"])
                 /\ BrokerOnly

\* The user, or Path A, buys the ticker at a price in the plan's zone.
OtherOrder(o, who) == /\ phase = "open"
                      /\ BrokerTakes(o, who, "open")
                      /\ BrokerOnly

Broker == \/ \E o \in AllOrders : BrokerAccept(o) \/ BrokerFill(o) \/ BrokerDrop(o)
          \/ \E o \in Others, who \in {"user", "path_a"} : OtherOrder(o, who)

-----------------------------------------------------------------------------
(* The session, and a restart *)

\* The market closes, and with it the day's orders; session_close starts.
CloseMarket == /\ phase = "open"
               /\ \A th \in Scanners : job[th] = NoJob
               /\ phase' = "closing"
               /\ broker' = [o \in AllOrders |-> IF Live(o) THEN [broker[o] EXCEPT !.st = "done"]
                                                 ELSE broker[o]]
               /\ todo' = {r \in Runs : Today(r) /\ run[r].status = "ORDER_UNKNOWN"}
               /\ UNCHANGED <<run, row, pos, job, day, enabled, bounds>>

\* expire_waiting_at_session_close, _clear_pending_orders_for_market
EndSession == /\ phase = "closing" /\ MainIdle /\ todo = {}
              /\ phase' = "closed"
              /\ run' = [r \in Runs |-> IF Today(r) /\ run[r].status \in {"WAITING", "HIT"}
                                        THEN [run[r] EXCEPT !.status = "EXPIRED"]
                                        ELSE run[r]]
              /\ row' = [o \in AllOrders |-> NoRow]
              /\ UNCHANGED <<broker, pos, job, day, todo, enabled, bounds>>

\* reconcile_order_unknowns_at_open: unknown runs of every session, if one to retry.
OpenSession == /\ phase = "closed" /\ day < MaxDays
               /\ phase' = "opening"
               /\ day' = day + 1
               /\ todo' = {r \in Runs : run[r].status = "ORDER_UNKNOWN" /\ run[r].retry}
               /\ UNCHANGED <<run, broker, row, pos, job, enabled, bounds>>

Opened == /\ phase = "opening" /\ MainIdle /\ todo = {}
          /\ phase' = "open"
          /\ UNCHANGED <<run, broker, row, pos, job, day, todo, enabled, bounds>>

\* _restore_pending_orders keeps one row for a ticker.
Restored == LET rows == {o \in AllOrders : row[o].left > 0}
            IN  IF rows = {} THEN {row}
                ELSE {[p \in AllOrders |-> IF p = o THEN row[p] ELSE NoRow] : o \in rows}

\* A crash in the session, and recover_on_startup: rows, positions and the store are
\* on disk.  A position of the ticker goes to the last of the runs that looks for one.
Crash ==
    LET entry(r) == Today(r) /\ run[r].status \in Pending \cup {"PARTIAL_FILLED"}
        looking == {r \in Runs : entry(r) \/ (Today(r) /\ run[r].status = "FILLED")}
        ownRow(r) == \E o \in AllOrders : row'[o].left > 0 /\ row'[o].run = r
    IN  /\ crashes < MaxCrashes /\ phase = "open"
        /\ crashes' = crashes + 1
        /\ job' = [th \in Scanners |-> NoJob]
        /\ row' \in Restored
        /\ IF pos # {}
           THEN /\ run' = [r \in Runs |-> IF entry(r) THEN [run[r] EXCEPT !.status = "FILLED"]
                                          ELSE run[r]]
                /\ IF looking = {} THEN UNCHANGED pos ELSE \E r \in looking : pos' = {r}
           ELSE /\ run' = [r \in Runs |-> IF entry(r) /\ ~ownRow(r)
                                          THEN [run[r] EXCEPT !.status = "ORDER_UNKNOWN"]
                                          ELSE run[r]]
                /\ UNCHANGED pos
        /\ UNCHANGED <<broker, session, kills, strays>>

\* A crash in session_close, and a restart on a later day: nothing takes session_close
\* up again, the rows are too old to be restored, and recover_on_startup looks at runs of
\* the new day alone.
CrashInClose == /\ crashes < MaxCrashes /\ phase = "closing"
                /\ crashes' = crashes + 1
                /\ phase' = "closed"
                /\ job' = [th \in Scanners |-> NoJob]
                /\ todo' = {}
                /\ row' = [o \in AllOrders |-> NoRow]
                /\ UNCHANGED <<run, broker, pos, day, enabled, kills, strays>>

-----------------------------------------------------------------------------
Plan == \/ \E r \in Runs : Register(r) \/ CancelUnsent(r)
        \/ Kill
        \/ Enable

Submit(th) == \/ GatePass(th) \/ GateBlock(th)
              \/ Precheck(th)
              \/ PlaceAccepted(th) \/ PlaceUnknown(th) \/ PlaceRejected(th)
              \/ PlaceAgain(th) \/ PlaceFound(th)
              \/ MarkSent(th) \/ MarkAcked(th) \/ AddPendingOrder(th)

Reconcile(th) == \/ RefreshOk(th) \/ RefreshFailed(th)
                 \/ ActAbove(th) \/ ActTtl(th) \/ ActUnknown(th)

\* A scanner starts on a run, or goes on with its job.
Scan(th) == \/ \E r \in Runs : \/ CheckEntry(th, r)
                               \/ StartAbove(th, r) \/ StartTtl(th, r) \/ StartUnknown(th, r)
            \/ Submit(th)
            \/ Reconcile(th)

Session == CloseMarket \/ EndSession \/ OpenSession \/ Opened

\* Every order is in the end filled or dropped and every plan ends; nothing obliges
\* the system to go on.
Rest == phase = "closed" /\ day = MaxDays /\ UNCHANGED vars

Next == \/ Plan
        \/ \E th \in Scanners : Scan(th)
        \/ \E th \in Scanners, o \in AllOrders : LearnFill(th, o)
        \/ SyncPositions
        \/ Broker
        \/ Session
        \/ Crash \/ CrashInClose
        \/ Rest

Spec == Init /\ [][Next]_vars

\* A scanner finishes what it has begun.  The main loop scans in every cycle, and
\* reconcile_order_unknowns takes an unknown run again after five minutes at the latest;
\* the broker does not refuse its order list for ever.
Fairness == \A th \in Scanners :
                /\ WF_vars(Submit(th) \/ Reconcile(th))
                /\ \A r \in Runs : SF_vars(StartUnknown(th, r))
                /\ SF_vars(job[th].what = "unknown" /\ RefreshOk(th))

FairSpec == Spec /\ Fairness

-----------------------------------------------------------------------------
(* Properties *)

TypeOK == /\ run \in [Runs -> RunRows]
          /\ broker \in [AllOrders -> BrokerOrders]
          /\ row \in [AllOrders -> Rows]
          /\ pos \subseteq Runs \cup {Other}
          /\ job \in [Scanners -> Jobs]
          /\ phase \in {"open", "closing", "closed", "opening"}
          /\ day \in 1 .. MaxDays
          /\ todo \subseteq Runs
          /\ enabled \in BOOLEAN
          /\ crashes \in Nat /\ kills \in Nat /\ strays \in Nat

\* Orders that a crash between place_order and mark_order_sent has left with a run
\* that knows no number and is not ORDER_UNKNOWN: recover_on_startup counts it as waiting.
Lost == {o \in Orders : /\ broker[o].st # "none"
                        /\ run[broker[o].by].no = NoOrder
                        /\ \A th \in Scanners : job[th].ord # o
                        /\ \/ run[broker[o].by].status \in {"HIT", "EXPIRED"}
                           \/ run[broker[o].by].cause = "unsent"}

\* No order is at the broker that the system has put out of its mind: by such a crash; by
\* /pathb_kill, which cancels runs and not their orders, and lets a plan that is being sent
\* go out; or by a submission that sent two orders, or took somebody else's for its own.  A
\* later run of the ticker can take such an order for its own.
NoneForgotten == Lost = {} /\ kills = 0 /\ strays = 0

\* No duplicate exposure: of two PathB orders of one session, if one may still fill then
\* the other is dead and has bought nothing, whatever failed, answered late or was
\* reconciled in between.
OneExposure ==
    NoneForgotten => \A o, p \in Orders :
        o # p /\ Live(o) /\ broker[p].day = broker[o].day => ~Live(p) /\ broker[p].filled = 0

\* A plan that the pending-buy reconcile cancelled, above its price or past its time, has
\* no order at the broker any more and bought nothing: a cancel request, a stale or
\* missing snapshot or a fill that crosses the cancel never passes for a confirmation.
ConfirmedCancelIsDead ==
    NoneForgotten => \A r \in Runs : run[r].cause \in {"above", "ttl"} =>
        \A o \in Of(r) : ~Live(o) /\ broker[o].filled = 0

\* A run that counts as entered, or owns a local position, has bought shares with an
\* order of its own, however it got there: a notice, a snapshot, the balance, a restart.
\* (As long as all fills are of the run's session: an unsynchronised holding of an
\* earlier one can be taken for its fill.)
EntryIsOwn ==
    NoneForgotten => \A r \in Runs :
        /\ run[r].status \in Entered \/ r \in pos
        /\ \A o \in AllOrders : broker[o].filled > 0 => broker[o].day = run[r].day
        => \E o \in Of(r) : broker[o].filled > 0

\* An order that can still fill has somebody looking for its fill: its run is in a status
\* that a reconcile reads, or a scanner is about to record it.
LiveOrderIsWatched ==
    NoneForgotten => \A o \in Orders : Live(o) =>
        \/ run[broker[o].by].status \in Pending \cup Entered \cup {"ORDER_UNKNOWN"}
        \/ \E th \in Scanners : job[th].ord = o

\* Whatever was mistaken for a run's fill, orders of the user and of Path A included, no
\* run counts as entered, and nobody has a position of the ticker, before the account has
\* bought any of it.
EntryHasShares == (\E r \in Runs : run[r].status \in Entered) \/ pos # {} => Bought

\* An unknown run whose own order, known by its number, has bought shares does not stay
\* unknown while the session lasts and PathB is on, though refreshes fail and the user
\* trades the same ticker: it counts as entered, or, when the snapshot was taken before
\* the fill, it goes back to the pending-buy reconcile as ORDER_ACKED.  (Path A's
\* trading can get the run cancelled instead.)
UnknownFillRecovered ==
    \A r \in Runs, o \in Orders :
        run[r].status = "ORDER_UNKNOWN" /\ run[r].no = o /\ Today(r) /\ broker[o].filled > 0
        ~> \/ run[r].status \in Entered \cup {"ORDER_ACKED"}
           \/ ~enabled \/ phase # "open"
           \/ \E p \in Others : broker[p].by = "path_a"

\* What a document says of this code, and it does not keep.

\* LIVE_PREFLIGHT_CHECKLIST.md: duplicated orders are blocked.  A plan is sent once: one call
\* of place_order for each, and one order for each call that sends one order.
PlanSentOnce == strays = 0 => \A o, p \in Orders :
                    o # p /\ broker[o].by = broker[p].by => broker[o].by = NoRun

\* KISOrderHTTPError: an order that ends in an HTTP error is not retried blindly, because of
\* the danger of a duplicate.  Where one scanner alone sends, a plan does not have two orders
\* at the broker that can both be filled.  It fails with one stray submission.
NoBlindRetry == Scanners = {"main"} => \A o, p \in Orders :
                    o # p /\ Live(o) /\ Live(p) => broker[o].by # broker[p].by
=============================================================================
