# claudetrade in TLA+

claudetrade is an automatic trading bot for two stock markets, KR and US. It
decides with language models what to buy, and buys along two paths: Path A
(strategies of `trading_bot.py`) and PathB (`runtime/pathb_runtime.py`), which
waits for a price a model has planned. What the modules here are about is not
the deciding but the bookkeeping: that one plan becomes at most one order, that
an order whose outcome is unknown is found out or blocks the next one, that what
the bot believes to hold was bought. Money is lost when that goes wrong, and it
goes wrong in orders of events that tests seldom produce.

## Inventory

| Component | State it keeps | Operations | Talks to |
|---|---|---|---|
| PathB (`runtime/pathb_runtime.py`, `execution/claude_price_adapter.py`) | path runs in the event store: a status from WAITING to CLOSED and a `plan` JSON with order numbers, cancel and resolution marks | register plans, scan waiting entries, submit, reconcile pending buys (price above threshold, time to live), reconcile unknown runs, scan exits, sell, reconcile sells, recover on startup | broker, event store, broker truth, safety gates, escalator, the bot's pending orders and positions |
| Order-unknown escalator (`execution/order_state.py`) | paused tickers and markets, counts, global halt, unresolved orders; one JSON file | record unknown, broker-only or duplicate orders, cancel requested and resolved; clear at session open; /resume | called by the bot, PathB and Telegram; its blocks are read by the bot's entry gate |
| Bot (`trading_bot.py`, `bot/state.py`) | `pending_orders`, `risk.positions`, session state, JSON files | trading loop, fill notices, pending-order reconcile, broker sync, session open and close, restore | everything |
| Event store (`lifecycle/event_store.py`) | SQLite tables of events and path runs | create, update (read, merge, write), query | PathB, lifecycle runtime |
| Broker truth (`runtime/broker_truth_snapshot.py`) | last snapshot of positions, open orders, fills of a market; staleness and error | refresh (balance, then order list), read | broker client; read by PathB and the escalator |
| Safety gates (`execution/safety_gate.py`, `bot/*_gate.py`) | none | evaluate before an order | PathB, Path A |
| Broker client (`kis_api.py`) | tokens, WebSocket thread, order caches | place, cancel, query, price ticks and fill notices | the broker |
| Exit side (`runtime/exit_lifecycle.py`, `execution/claude_price_sell_manager.py`) | sell attempts and their locks on positions | sell, reconcile, quarantine | broker, PathB |
| Sizing, price plans (`execution/sizing.py`, `runtime/sizing_contract.py`, `decision/claude_price_plan.py`) | none | quantities, ticks, validation | gates |
| Arbiter, re-entry guards, wait queue, rate limiter, risk manager | small tables of tickers, windows, positions | admit or refuse | PathB, bot |
| Telegram, dashboard | command state | /resume, /pathb_kill, views | escalator, PathB |
| Candidates, strategies, analysts, learning, training, audit, reports, tools | files, databases | numeric heuristics, prompts, offline programs | bot |

Three kinds of threads share this state without locks: the trading loop, the
WebSocket thread of the broker client (price ticks call `scan_waiting_entries`,
fill notices change pending orders and positions), and the Telegram thread.
What is hard, and where, is listed line by line under `hazards` in
`PROJECT.json`: two scanners on one run; a crash between the broker's acceptance
and the store's write; an order request that raises and is accepted all the
same; fills that cross a cancel; snapshots that are old when acted on; partial
failures of cancels and refreshes; long legal sequences over two sessions; saves
of two threads to one file.

What makes each component correct:

* escalator: a block lasts until the rule that lifts it applies, in every
  interleaving with /resume and across restarts;
* PathB's buys: no duplicate exposure, no live order unwatched, no confirmed
  cancel of a live order, no entry without shares of its own, and every filled
  order of an unknown run is found;
* pending orders, fills and positions: every share counted once, whichever of
  query, notice and balance brings it, in whatever order;
* exit side: never sell more than is held, never two live sells of a position,
  every sold position closed;
* broker truth: never a stale snapshot presented as fresh, a failed refresh
  never taken for an empty account;
* sizing and prices: orders within cash and on ticks, price in the plan's zone;
* arbiter, guards, limiter: one owner of a ticker; no more requests in a window
  than allowed.

## Modules

| Module | Models | Runs |
|---|---|---|
| `OrderUnknown` | `execution/order_state.py`, the escalator, with the trading loop, the WebSocket thread, the Telegram thread and the file | `escalator` |
| `OrderUnknown_proofs` | three theorems about it | TLAPS |
| `PathBBuy` | the buy side of PathB for one ticker, with the broker, the store, the bot's rows and positions, two scanners, sessions and crashes | `pathb_buy`, `pathb_recovery`, `pathb_twice` |
| `PathBBuy_proofs` | seven theorems about it | TLAPS |
| `ShareLedger` | abstract: what the bookkeeping promises about the shares of a ticker | through `fills` |
| `FillAccounting` | pending rows, positions and their files under queries, notices, balance, placing, midnight, close and restart; implements `ShareLedger` | `fills` |
| `FillAccounting_proofs` | three theorems about it, the refinement of `ShareLedger` among them | TLAPS |
| `PathBExit` | the exit side of PathB: a filled run is sold by two threads, reconciled, recovered, quarantined | `exit`, `exit_live`, `exit_remainder` |
| `PathBExit_proofs` | five theorems about it | TLAPS |
| `GenericExit` | how a position that is not PathB's is sold, reconciled, synchronised and restored | `sells`, `sells_partial` |
| `GenericExit_proofs` | three theorems about it | TLAPS |
| `BrokerTruth` | the snapshot file of `runtime/broker_truth_snapshot.py`: refreshes by several threads and processes, its sidecar, the balance cache of `kis_api.py` | `truth` |
| `BrokerTruth_proofs` | four theorems about it | TLAPS |
| `EntryCaps` | the caps on PathB's entries (daily, positions, risk-off): what is counted when, by several scanners over many plans | `caps` |
| `EntryCaps_proofs` | three theorems about it | TLAPS |
| `SumLemmas` | what sums over finite sets are, for the proofs | TLAPS |

The `MC` modules give the instances TLC checks. The modules meet in the pending rows and the
positions: `PathBBuy` leaves a row and an owner (`row`, `pos`), `FillAccounting` is
what becomes of the row's quantity, `PathBExit` and `GenericExit` begin with the
position that has been entered, and what all of them read of the broker is what
`BrokerTruth` keeps. `EntryCaps` is about many plans
where `PathBBuy` follows the runs of one ticker. What one module keeps of another's state is
named in its section.

### OrderUnknown

`mem` is `self.state`, `disk` what `_load()` would return, `torn` whether the
file parses. Three threads call the escalator, none of them under a lock: the trading
loop (`main`), the WebSocket thread (`ws`: a price tick scans the waiting entries, and their
reconciles record and resolve cancels and orders open at the broker,
`pathb_runtime.py:3341`, `9770`, `9873`) and Telegram (`tg`, /resume). Each has its place
`pc`, its locals `cur` and the text `snap` it has serialised. A step is one access to one part
of the dictionary (the paused tickers, the orders, the counts, the paused markets, the halt)
or to the file, and the threads interleave between any two:

* `RecordUnknown`, `EnterUnknown`, `ReadCount`, `Bump`, `Escalate`, `PauseSecond`,
  `TestAllPaused`, `Halt` are `record_unknown`, and `AutoClear` to `DropHalt` the clearing at
  session open; both are the trading loop's;
* `RecordBrokerOpenOrder`, `RecordDuplicateOpenOrders`, `RecordCancelRequested`,
  `RecordCancelResolved` with the pauses they set and lift, by the loop or by the WebSocket thread;
* `ResumeMarkets`, `ResumeCounts`, `ResumeHalt` are /resume;
* `SaveDump`, `SaveOpen`, `SaveWrite` are `_save` on any thread: `json.dumps` reads the parts in the
  order of their names, `write_text` truncates the file and then writes, so that an older
  text may replace a newer one and two texts may leave a file that does not parse.

The exception a replaced counter causes in `record_unknown` ends the operation unsaved, as its
caller (`runtime/v2_lifecycle_runtime.py`) catches it.
Events, time stamps and details are left out: nothing reads them.
`record_recovered` has no caller in production code and is not modelled.
`PartialFillPolicy`, in the same file, is a pure function and is planned.

The file is not safe beside a second thread, and both properties say when it is. Three history
variables, which no operation reads, mark that: `solo` is the thread whose operation has run alone
since it began, `crossed` that operations have overlapped since one that ran alone was saved,
`lost` that a crash fell among overlapping operations.

* `EscalationHeld`: a market with two consecutive unknown orders is paused whenever no thread is
  inside an operation, however the three interleave in memory, and through any crash of an
  operation that runs alone. Left out is a crash among overlapping operations, until the
  next /resume that runs alone: without that premise it fails in eighteen steps (the WebSocket
  thread's older text replaces the loop's, and the restart finds the count without the pause).
* `RestartKeepsBlocks`: whenever no thread is inside an operation, a ticker that memory blocks is
  blocked by what a restart would load, once an operation that ran alone has saved since
  operations last overlapped. Without that premise it fails in eleven steps and without a
  crash: a save that was serialised first and written last.

Bounds of `escalator`: two markets with one ticker each, one order, two operations of the trading loop,
one of the WebSocket thread, one /resume, one crash. Two unknown orders pause a market, and each
other thread and the crash interleave with them at every step. With three operations of the loop and no
tick, with three and a tick but no /resume and no crash, and with two ticks and a crash but no
/resume, TLC finds no error either; for any bounds the properties are proved.

### PathBBuy

One ticker; its path runs (`run`), the orders as the broker knows them
(`broker`), the bot's pending rows (`row`), who owns the local positions (`pos`),
and for each thread that scans the job it is in the middle of (`job`).

* A step is the code between two calls that wait on the broker or two writes of
  the store. The row a job acts on is the row it read when it started.
* Submission: `CheckEntry` (the scan finds a WAITING run in its zone),
  `GatePass`/`GateBlock` (`_submit_buy` up to `mark_hit`), `Precheck`,
  `PlaceAccepted`/`PlaceUnknown`/`PlaceRejected`, `MarkSent`, `MarkAcked`,
  `AddPendingOrder`. After an answer HTTP 500 `place_order` looks into the order list of the day:
  `PlaceAgain` is the second submission while the first request is still on its way (accepted,
  raised or refused, and the first one may become an order too), `PlaceFound` an order of
  somebody else's, of the same ticker, side and size, that passes for this one. Both are
  counted by `strays`. They are one step each: nobody sees a request in transit, so what
  others do between the two submissions they can as well do before or after.
* Reconciliation: `StartAbove`, `StartTtl`, `StartUnknown`, then `RefreshOk` or
  `RefreshFailed`, then `ActAbove`, `ActTtl` or `ActUnknown`, with the evidence in
  the order of `_reconcile_order_unknown_run` (`Evidence`).
* `LearnFill` is a fill that reaches its row, from the query or from a notice;
  `SyncPositions` what `_sync_runtime_with_broker` makes of a holding nobody owns.
* The session closes (`CloseMarket`, `EndSession`) and opens (`OpenSession`,
  `Opened`); unknown runs are reconciled once in each. `Crash` is a crash in the
  session with `recover_on_startup`; `CrashInClose` one in `session_close`, with
  the restart on a later day, which takes up nothing of the interrupted close.
* External: the broker takes, accepts late, fills and drops orders; the user and
  Path A buy the same ticker.

What the module takes for granted or leaves out:

* The ten-second gate of a scan is abstracted: a scan that calls the broker can
  take longer, so two scans may overlap. One write of the store is one step (the
  read-merge-write of `update_path_run` is a hazard of its own, planned).
* Numeric conditions (cash, price, confidence, caps), the market switches and
  the escalator's blocks are one nondeterministic block of the gate. The switch
  `market_live_enabled` is seen in what it causes, `CancelUnsent`.
* Other orders of the ticker are in the plan's price zone, which is the hard case.
* `PlaceFound` takes any order of the day; the code looks two minutes back.
* The order list is exact when it is read, except for a request whose answer the
  bot never got ("transit"); the balance may lag. An unknown run may be
  reconciled on a snapshot 30 seconds old: the same as a snapshot taken now and
  acted on later.
* The time to live of a pending buy is 0 (off) unless configured; `StartTtl` is
  included as it can be switched on.
* /pathb_kill also sells positions (`close_all_open`): exit side. Zone updates of
  a registered plan, shadow runs, fast-fill requotes, the made-up order number of
  an answer without one, `reconcile_filled_positions`, closed-lifecycle evidence
  and the broker-open-order check of the bot are not modelled.
* `_reconcile_pending_orders` also infers fills from the difference between
  balance and positions: that is `FillAccounting`'s.
* The last fill query of `session_close` is `LearnFill` just before `CloseMarket`;
  the scanners are between jobs when the market closes. A crash at session
  opening, before the trading loop begins, is not modelled.

Properties:

* `OneExposure`: of two PathB orders of a session, if one may still fill then
  the other is dead and has bought nothing.
* `ConfirmedCancelIsDead`: a plan that a pending-buy reconcile has cancelled has
  neither a live nor a filled order.
* `EntryIsOwn`: an entered run, or the owner of a position, has bought shares
  with an order of its own.
* `LiveOrderIsWatched`: an order that can still fill belongs to a run some
  reconcile reads, or to a scanner about to record it. Checked of the trading loop
  alone (`WatchedIfAlone`): beside the WebSocket thread it fails in nine steps, when
  one scanner's gate overwrites what the other has recorded.
* `EntryHasShares`: whatever is mistaken for a run's fill, no run is entered, and
  nobody has a position, before the account has bought any of the ticker.
* `UnknownFillRecovered` (liveness): an unknown run whose numbered order has
  bought shares does not stay unknown.

The first four have the premise `NoneForgotten`: no order was orphaned by a crash
between `place_order` and `mark_order_sent`, no /pathb_kill has cancelled runs
and left their orders, and no submission has sent two orders or followed somebody else's
(`strays = 0`). These are known holes of the code (see "What the code does not
keep"; the second is deliberate): a later run of the ticker can then take the orphan's
fill for its own, and one plan can have two live orders, one of which nobody looks for, with
the trading loop scanning alone (`NoBlindRetry` fails). The premise is about exactly these orders.

### ShareLedger and FillAccounting

`ShareLedger` is the promise, in three variables: what the broker holds, what the
bot counts, and whether something is in doubt. Outside doubt the bot counts no
more than is held. Four things may make it count some shares twice: what the WebSocket
thread tells of (shares, or an order that has bought some), a restart with a pending row that is behind
its order's fills, a restart with several positions of the ticker, and, while it
lasts, a synchronisation's correction of several positions one by one. What puts that right is a
synchronisation that begins afterwards, has read a holding, and ends when no
pending row can tell of shares already counted. In the end every share is counted, once.

`FillAccounting` is one ticker of `trading_bot.py`: `row` and `pending` are the
dictionaries and the list of `pending_orders`, `pos` the ticker's entries of
`risk.positions` (how many, the shares of all, how many carry each order's number and
their shares, the last entry), `file` the two JSON files, `told` what PathB and the decision events were
told, `seen` the keys of notices that were applied. The trading loop is at `pc`
between two calls that wait on the broker:

* `StartSync`/`StartClose` read the balance; `ReadRow` reads one row and asks for
  its fills; `Answer` is what `_reconcile_pending_orders` makes of the answer and of
  the balance: `PartFilled`, `AllFilled` or `NothingFilled`; `SavePositions`,
  `RebuildPending`; `ReadPositions` writes the balance's quantity into every entry where
  it is (`Corrected`; `trading_bot.py:24825`), so that two entries count the holding twice until
  `AssignPositions` puts the list with one entry in their place (24930);
  `ClearPending` the end of a session.
* `OnFillNotice` is the WebSocket thread: it is one step, as it does not wait.
* `AddPendingOrder` by either thread, `Midnight` (which `_normalize_pending_orders`
  looks at), `Crash` with the restoration from both files: the saved entries are appended each
  as it is or, if the balance can be read, each with the whole holding (23231, 22946).
* External: the broker accepts, fills and drops orders and sends notices; the user
  buys shares.

Properties:

* `RowAddsUp`: what remains of a row and what was taken off it make the order, and
  what was taken off it is what PathB was told, except for a row that a notice
  crossed or that came from a file that was behind (`torn`).
* `ImplementsLedger`: every step of `FillAccounting` is a step of `ShareLedger`, with
  `counted` the total of the positions, and in doubt when the history variable `doubt` says so or
  several entries are being corrected (`Correcting`). `doubt` is "passing" after a notice and "lasting"
  after what leaves a pending row or entries behind: the first ends with any
  synchronisation that began afterwards and read a holding (`fresh`), the second only when moreover the
  rows are settled (`RowsSettled`), as a query may otherwise count again what the balance has
  counted. It holds for one order, and is proved so for any size. With two orders it does not
  hold: in 24 steps a notice crosses, the balance counts the second order's fill under the
  first one's number, and the query then counts it again. `RowAddsUp` holds for any
  number, and is proved so.
* `DoubtEnds` (liveness): no doubt is for good, not even that of a restart with a row behind its
  order's fills, so that what `ImplementsLedger` promises outside doubt is promised again and
  again.
* `EveryShareCounted`: under the fairness below the bot comes to count every share the
  broker holds, once, and keeps to it.

Sell rows, cash, the data of a position other than its shares, and whether a row
is Path A's or PathB's are left out. A fill notice that reaches the bot before its
row is a notice that changes nothing, as in the code.

### PathBExit

A filled run holds `Size` shares and its exit signal is on. `run` is the row of the
store (status, `exit_execution_id`, `exit_qty`, `sell_order_sent_at`, and two marks of
the plan), `pos` and `saved` the position in memory and in its file, `truth` the
broker truth snapshot, `lock` the entry of `_pathb_sell_attempt_locks`. Each thread is
at `pc` and works with what it has read (`me`).

* Selling (`_submit_sell`): `StartSell`, `Observe` (fills and open orders of the day, if
  an order was never confirmed), `ReviewHolds`/`ReviewSells`, `Precheck` and `Zero`, the
  outcomes of `place_order`, `Rejected` with `Relink`, `TakeFills` and `Quarantine`, `Mark`.
* Reconciling: `ReadPending`, `ReadFilled`, `ReadUnknown` read the run; `Pending`, `Filled`,
  `Unknown` write what follows from it and from the snapshot over what the run has
  become meanwhile. `Evidence` is `_verify_sell_close_broker_evidence`.
* `ReadStale`, `ClearStale` or `KeepStale`, `Sync`, `LockExpires` (its time to live), `Crash`.
* External: the broker fills; the user cancels orders and sells by hand.

Left out: the end of a session; the choice of runs in `close_all_open` (each is a
`StartSell`); a position that a synchronisation creates anew for the run; the exit
signals themselves. The order list of a snapshot is exact when it is read, the
balance may lag. A time to live is a choice that is open once its start is set, but for one
assumption about time: a thread that is about to sell (`Attempt`: a precheck, an order and
its second submission) does not last 15 minutes, the time to live of a sale that was sent
(`MayBeLate`) and of a mark which the broker does not show to be idle (`ClearStale`). It may
well last the minute after which a mark is cleared when the broker shows no open sale:
`ClearStale` then does it, and `hasty` notes that a thread was at that sale. What the
properties promise of two attempts ends there; what happens next is a duplicate sale
(`DuplicateSellsStopped` fails).

An answer HTTP 500 (`ServerError`) makes `place_order` look for an order of the same ticker,
side and size in the day's list: what it finds is taken for the order (`Found`; `astray` notes
one that is not), a list that cannot be had ends the call (`PlaceUnknown`), and an empty
one makes it submit again, once. What the broker takes of a request it answered with HTTP
500 it takes by the time the list is read or never; an order accepted before is not
always in the list.

Properties:

* `ClosedIsSold`: a run is closed only when no share is held, unless an order has no
  number or another's, two writes of the run have crossed (`crossed`: with it, a reconcile that
  waited for the broker can close a run falsely), or a mark was cleared hastily.
* `OneAttempt`: the two threads never send the same exit at once, although the lock
  between them expires while one of them waits, until a mark is cleared hastily.
* `NoSecondAttempt`: no order is sent, or sent again, while an earlier recorded sale of the run
  can still be filled (with the same exception, as has `LiveSaleIsWatched`).
* `LiveSaleIsWatched`: while a recorded sale can be filled, the run has the number of a
  sale and is not offered for sale again (it is not FILLED), or the position is marked so
  that the fills of the day are looked at before the next one. That somebody goes on waiting
  for this very sale is not promised: `_execute_sell` and the reconciles count every fill of
  the day, so that after a sale by hand the run can be closed with its order still open.
* `PositionIsSold`, `SoldIsClosed` (liveness): a position whose exit signal stays on is
  sold or somebody is asked to look; a run whose shares are gone is closed.

### GenericExit

One position of `Size` shares that is not PathB's. `pos` has the pending mark of a sale
(`sell_confirmation_pending`, `pending_sell_order_no`, `pending_sell_qty`), `saved` is the
file, `booked` counts the shares the trade log and the decision events say were sold,
`closedToday` is `_session_closed_tickers`, `lock` `_exit_process_lock`.

* `_execute_sell`: `StartExit` (under the lock) and `StartOutside` (the dashboard's sale and
  the intraday review, which take no lock), `CheckFree`/`CheckPending`/`Recheck`, the
  review, `Precheck` and `Zero`, the outcomes of `place_order`, `Confirmed` with `SaveSold`,
  `Unconfirmed`.
* `_reconcile_pending_sell_confirmations`: `Look` reads the snapshot, `Reconcile` has the
  answer to the order query and settles.
* `_sync_runtime_with_broker`: `Sync` works out what becomes of the position, `Assign`
  assigns the list, `Protected` reconciles a pending position that is not held.
* `RefreshTruth` by others, `Crash`; external: fills, cancels, sales by hand.

A restart finds the saved position as it is or with a balance that may lag (`Crash`), and
`_session_closed_tickers` empty or, once the session has opened, restored from the decision
events (`trading_bot.py:30917`), so that a sold position can be injected again and must be dropped
again. What `place_order` does about HTTP 500 (look into the order list, submit again) is
here no more than its outcomes: accepted, lost, rejected. A second submission finds the
shares taken if the first was accepted, so that the broker refuses it; a request that the
broker takes only after the bot has gone on is left out here; `PathBBuy` has it for purchases.

`booked` saturates at `Size + 1`: one share too many is as wrong as ten. One
session; cash and fees, stops and trailing, limits are left out.

Properties:

* `ClosedIsSold`: a position that leaves the list is one the broker no longer holds,
  whichever of six pieces of code takes it off. Orders are filled whole; with partial
  fills it fails (`sells_partial`).
* `BookedIsSold`: no more shares are booked than were sold. One thread, no sale by
  hand. With two threads the synchronisation assigns its list over the other thread's
  sale, which brings the position back to be reconciled and booked again (15 steps);
  with a sale by hand and a lagging balance the fills, which are cumulative, are
  counted again (20 steps).
* `SoldIsClosed` (liveness): when all shares are sold the position leaves the list and
  stays away. With both threads, checked outside the runs without faults, the synchronisation may
  undo a removal by the other thread, and a later one takes the position off again.

### BrokerTruth

`file` and `lastGood` are the snapshot and its sidecar, with an entry for each
market; `cache` is `_BALANCE_CACHE` of each process, `call` what each caller of
`refresh_market` is doing, `now` the clock in whole seconds, as the stamps are. Of an
entry's data only its age is kept: `asof`, when the broker drew up the balance (the
older of the two answers), beside `stamp`, which is `last_success_at`, and `err`.

* `Begin` loads the file, or the sidecar if the file cannot be read, or nothing, and
  goes on if forced or stale. `Ask`, `Answer`, `BalanceArrives` and `BalanceFromCache` are
  `get_balance`: a forced request drops the cached balance, an answer replaces it, and a
  request that fails is answered from it. `OrdersArrive` and `CollectFails` end
  `_collect_market`.
* `Merge` and `Replace` are the two halves of `write_snapshot`, `ReplaceFails` its giving
  up, `WriteLastGood` the sidecar; `Return` is where the caller reads the file again.
* `OtherBalance` is the rest of the bot, whose requests use the same cache (so does the
  second request of `_get_balance_with_token_refresh`). `Restart` empties a cache and ends
  the refreshes of its process. External: the broker's answers and the clock.

`Slow` bounds what the calls of one refresh to the broker take: they have time-outs and
a number of retries. The writing of the file may take any time. The clock does not go
back. The TTL is one number; in the code each caller brings its own, and stores it. The
market whose snapshot is refreshed is one the bot has enabled (of another
`_get_balance_with_token_refresh` makes an empty account). `force` in `Begin` is the
argument of `refresh_market`, which `refresh_broker_truth` also sets when the entry is
stale.

Properties:

* `FreshIsTrue`: a usable entry (not stale, without error), in the file or the sidecar,
  is no older than the TTL and the lag: twice `Slow`, and the life of the cache if the
  refresh was not forced. Neither a failed or overtaken refresh nor the cache makes
  old data look new.
* `CallIsNew`: a caller whose refresh nobody overlapped, and that could read and write
  the file, finds there nothing usable after a failure, and after a success an entry
  stamped since the call, of a balance that at most one slow call had got before it (a
  slower call of other code can fill the cache after the forced request has dropped it).
* `NewerKept` (action property): a market's entry is replaced by an older one only by a
  writer that another overtook after its `Merge`, or that could not read the file.

### EntryCaps

The plans of one market in one session, each of a ticker of its own. `status` is the
status of each run in the store, `order` what the broker knows of its one buy order,
`rows`, `positions` and `tradeLog` which runs the bot's records have, `scan` where each
thread is in `scan_waiting_entries` and what it has counted.

* The scan: `StartScan` takes the baseline of the risk-off cap, `CheckEntry` finds a plan in its
  zone and compares, `GatePass`/`GateBlock` are the safety gates, then the submission in
  the steps in which something is recorded: `PlaceRefused`, `PlaceAccepted`, `PlaceLost`,
  `MarkSent`, `AddRow`.
* The order's fate: `Broker`; who learns of a fill: `LearnByQuery` (which logs the purchase),
  `LearnByNotice` (which does not), `RecoverFill`; `RecoverOpen`, `CancelPending`, `DropRow`; `Sell`
  is the exit side as the counts see it; `Restart` a crash at any step.

Left out: partial fills (a partly filled run counts as a whole one everywhere); Path A's
entries, the other conditions of the gates, and the positions the synchronisation drops
before their runs are closed; the start of a new session. `RiskOffCap` is enforced throughout: outside a
bear market there is none. No two scanners have one plan in hand: `pathb_twice` shows
what happens when they do. `unanswered` (orders whose placement nobody saw answered) and
`missed` (runs the daily count left out while it should not have) are history variables: the
caps are passed by these runs and no others.

Properties:

* `DailyEntriesHeld`: the orders of the day that the broker has or has filled are at most
  the cap, plus one for each further scanner, plus the runs in `missed`.
* `RiskOffHeld`: the runs in the market and not yet closed, but for those in `unanswered`, are at
  most the cap for each scanner.

That the caps hold without these allowances is what the code intends and does not keep;
see below.

## Runs and bounds

| Run | Instance | Result |
|---|---|---|
| `escalator` | 2 markets, 2 tickers, 1 order, three threads: 2 operations of the loop, 1 of the WebSocket thread, 1 /resume; 1 crash | holds |
| `pathb_buy` | 2 runs, 2 orders of 2 shares, 2 sessions, 1 crash, one scanner; then 1 run, 1 order filled whole, 1 session, two scanners | holds |
| `pathb_recovery` | 1 run, 1 order, 1 order of the user or Path A, 1 session, 1 crash, 1 /pathb_kill, 1 stray submission, one scanner | holds |
| `pathb_twice` | 2 runs, 2 orders, two scanners | `PlanSentOnce` violated |
| `truth` | 2 markets, 2 threads of one process, 2 refreshes, 1 other balance, 1 fault, 4 seconds, TTL, cache and slowness of 1 second | holds |
| `fills` | 1 order of 2 shares, 1 share the user buys, 1 midnight, 1 close, 1 crash | holds |
| `exit` | two threads, 2 shares, 2 sells, 2 cancels (also of an order filled in part), 1 fault | holds |
| `exit_live` | one thread, 2 shares, 2 sells, 1 cancel of an unfilled order, no faults | holds |
| `exit_remainder` | one thread, 2 shares, 3 sells, 1 cancel | `RemainderIsSold` violated |
| `caps` | 3 plans, two scanners, daily cap 1, positions 2, risk-off cap 1, 1 restart | holds |
| `sells` | one thread, 2 shares, 2 sells, 1 cancel, 1 share sold by hand, 2 faults, whole fills | holds |
| `sells_partial` | one thread, 2 shares, 1 sell, partial fills | `ClosedIsSold` violated |

Two runs and two orders are what duplicate exposure and mistaken attribution
need; a size of two shares is what a partial fill needs; two sessions let an
unknown run cross a close and an opening. One scanner is the bot with its
WebSocket down or not started, a mode the code supports. With two scanners and
two orders, `PlanSentOnce` fails and with it, from the same cause, every
property about exposure; so the constraint `Modes` of `pathb_buy` lets the trading loop scan alone in the first
two sessions, and gives the third, with both scanners, one run and one order that is filled whole; this
leaves the double submission to `pathb_twice` and still lets both threads submit
and reconcile the same run against each other. (`Modes` is in the invariants of the run,
`OneExposureInModes` and so on, as TLC evaluates them one step beyond a constraint too.) `pathb_buy` allows no /pathb_kill,
since `NoneForgotten` would make its properties vacuous after one, and for the same reason the
constraint `Straight` ends the exploration at a stray submission;
`pathb_recovery` goes on after both. Symmetry is used for runs and orders in runs without
liveness.

Two shares filled one by one cross a notice, a query and a balance in every order,
and one crash and one close fall between any two steps (`fills`); a second crash, without
midnight and close, was checked outside the runs for `DoubtEnds`. Two sells let an
exit be tried, lost or cancelled, and tried again, and two cancels let the second be
recovered while the other thread is still at it (`exit`); a fault is a lost answer, an
answer HTTP 500, a sale by hand or a crash. `exit` does not go on from a state whose mark was cleared hastily (the
constraint `Unhurried`): `hasty` stays, and no property but the type promises anything there; `TypeOK`
is proved for those states too. In `truth` two refreshes cross each other and one other
request at every step, of the same market or of both, and one access fails; four
seconds let an entry be written after slow calls, be taken from the cache, and go stale.
More of each is what the theorems are for. In `caps` each scanner can pass a cap of one once, and a third plan shows whether it
passes it twice; caps of two were checked too (5.1 million states). `BookedIsSold` does not hold with both
threads, so that `sells` has one; both threads with a fault and a sale by hand were checked outside the
runs for `ClosedIsSold` (5.9 million states), both without for `SoldIsClosed` too. The theorem about `ClosedIsSold` holds for both threads and all bounds.

Deadlock is checked in `escalator` and the `pathb_` runs, whose specifications end in an
explicit rest state (`Done`, `Rest`), and in `caps`, where scans go on. It is not in `fills`, `exit*`, `sells*` and
`truth`: when every order is filled, everything is sold and closed, or the bounds are used
up, the system has nothing left to do.

Definitions commented "A variant, for a check" are not part of the
specifications. Each changes the definition after it the way a plausible bug
would (a dropped guard, a missing save, a fill counted twice); put in its place,
it makes TLC find the property it is meant for violated, so the property does
depend on the code it is about. `mutants` in `PROJECT.json` pairs them.

### Fairness

`PathBBuy`, for `UnknownFillRecovered`:

* weak fairness on the steps of a job: a thread that has begun a scan finishes
  it, as calls to the broker return or time out;
* strong fairness on starting the reconcile of an unknown run: the trading loop
  scans in every cycle and `reconcile_order_unknowns` takes a run again after
  five minutes at the latest; strong, as the scanner may be busy in between;
* strong fairness on a successful refresh for an unknown run: the broker may
  refuse any number of times, but not for ever.

Nothing is assumed there of prices, of the pending-buy reconciles, of fills, of the
session or of the user.

`FillAccounting`, for `EveryShareCounted`: weak fairness on the steps of the
trading loop, strong fairness on a synchronisation that can read the balance. No
notice need arrive, no order need be filled, no answer to a query need come: the
balance alone counts every share in the end. `DoubtEnds` assumes in addition that the broker does
not for ever fail to answer for a row it is asked about (`Heard`): a row that is behind
stays so, and the doubt with it, while nobody tells it of its fills.

`PathBExit`, for `exit_live`: open orders are filled in the end (or cancelled); threads
finish what they begin and take up each reconcile and the sale again and again
(strong, as they are busy in between); among infinitely many refreshes some show
what there is, as the broker does not fail for ever; times to live run out; a review
does not say hold for ever. The last two are what the position's being sold cannot do
without, and `SoldIsClosed` of a sold position does not need the review.

`GenericExit`, for `sells`: threads in a sale or a reconcile go on (weak); the
trading cycle reconciles a pending position and synchronises, and again and again
gets an answer with a balance that has caught up with the fills (strong). The account
holds other positions too: without any the bot does not believe an empty balance.
Nothing is asked of the review, the exit signal or the market.

## Proofs

`OrderUnknown_proofs` proves for any markets, tickers, orders and bounds, from the
named assumptions of `OrderUnknown`:

* `TypeCorrect`: `Spec => []TypeOK`, one step for each action;
* `EscalationIsHeld`: `Spec => []EscalationHeld`. `SoloInv` says what `solo` means: its thread is
  inside an operation with all others idle, and its text is the memory. `EscalationInv` says, at
  each label of the loop and of /resume, who still owes the pause or the reset of a market whose
  count is two or more, and that the file is not behind unless operations have crossed. The WebSocket thread only adds to the pauses of markets. The cases that need
  care are /resume between `Bump` and `PauseSecond` and between `LiftMarket` and `ResetCount`;
* `RestartsKeepBlocks`: `Spec => []RestartKeepsBlocks`. `RestartInv`: while nothing has crossed, the
  file covers the memory's blocks when all are idle, and while the clearing at session open, which has
  examined no ticker and will not save, runs; the save of a lone operation re-establishes it.

`PathBBuy_proofs`, for any scanners, runs, orders of PathB and of others, sizes and bounds,
two scanners at once included:

* `TypeCorrect`. `TypeOK` is not inductive: `OrdersOK` adds that an order at the broker
  is some run's and that only such an order has a row, `JobsOK` that a scanner at work has a
  run, and an order once the broker has taken one;
* `NothingFromNothing`: `Spec => []EntryHasShares`. Runs are entered on a snapshot taken
  some steps before, so the invariant `HasShares` speaks of the snapshots in the scanners'
  hands too: either something was bought, which stays so, or no run is entered, there is no
  position and every snapshot is blank. A crossed cancel, an ambiguous fill, a
  restart and a second scanner that writes over the first all start from there;
* `NoDuplicateAlone`: `Spec /\ []Alone => []LoopAlone`, where `Alone` says that the trading loop is
  the only thread that scans and `LoopAlone` is `OneExposure`, `ConfirmedCancelIsDead`,
  `EntryIsOwn` and `LiveOrderIsWatched` together. `OneExposureHolds`, `ConfirmedCancelHolds`,
  `EntryIsOwnHolds` and `LiveOrderIsWatchedHolds`: the four as `pathb_buy` checks them, `Spec /\
  []Modes => []OneExposureInModes` and so on, that is with the WebSocket thread in the last
  session.

  That the loop scans alone is a hypothesis since the four fail otherwise (`pathb_twice`); it is
  about the schedule, as `Modes` is the constraint of the run. The other hypothesis is that nobody else
  buys the ticker (`Others = {}`, as in the run): the balance tells PathB's shares from those of the user
  or of Path A in no way, and they can be taken for a run's fill. Size, runs, orders, sessions and
  crashes are any. A kill or a stray submission may occur; the theorems promise the four for the
  states before it, as `NoneForgotten` says.

  The argument has three strides. `Steps` is what any step can do, said of one run, one order, one
  job, one pending row and one owner at a time; `NextSteps` shows it of every action. The rest is
  shown from `Steps` alone. Both speak of the steps before a stray submission: the invariants are
  `strays = 0 => ...` (`OwnDates`, `IfAlone`), and the counter never falls (`CountersGrow`). `OwnRows`
  says that pending rows and the orders in the scanners' hands are their runs' own. `Dates` says what is of which session: orders
  and jobs are of their run's, a live order is of today's open session, a snapshot shows
  only orders the broker has. `SentOnce` is a scanner's progress with a plan: a run has one order,
  none before it is placed, and its status is what the scanner has made it; it holds until somebody
  kills a run. `OwnShares` and `CancelsSafe` hold while nothing is forgotten:
  an order that can fill, or has, keeps its run active (`Kept`), so that a session has one such run
  (`Single`), a pending row is of the day's only order that counts (`RowLatest`), an owner of a
  position has bought (`PosOwn`), a snapshot in hand shows the run's own order (`ViewOwn`), and what a
  cancel waits for is seen or dead (`CancelsSeen`). An order once forgotten stays so
  (`LostStays`), so that the four invariants never have to be regained. `OldFills`, the only place
  where sizes are added up, says that the balance of a new session's opening shows what the run bought
  the day before.

`FillAccounting_proofs`, for any set of numbered orders, size and bounds:

* `TypeCorrect`: no row becomes empty or negative, whatever crosses. `TypeOK` is not
  inductive: the row the loop has in hand must be a row of an order, which `TypeInv`
  adds.
* `RowsAddUp`: `Spec => []RowAddsUp`, from `RowsInv`, which says for the rows still to be
  read, the one in hand and those kept what a reading that may be old still equals.
* `KeepsTheLedger`: `Spec => ImplementsLedger`, for one order of any size, and either placing
  thread. `LedgerInv` adds to `TypeInv` and `RowsInv` that outside doubt, unless several entries are being
  corrected, the positions account for no more than the broker holds (`Counted`), that what they are
  corrected to is one entry (`AllProper`), and what each quantity in the loop's hand, old or
  not, still has to do with what is held (`JobReads`, `Accounted`). The two ways to learn of a share,
  a row and the balance, do not count it twice, because what the balance adds carries the
  order's number while there is one row it can belong to. A lasting doubt may end with
  `AssignPositions` as a settled row can tell of nothing more: either the one position has its
  number, or it has been told of all its order has bought (`RowsSettled`). That there is one order is the
  hypothesis of the theorem, and not of the model: with two the property is false.

`PathBExit_proofs`, for any size, number of orders and bounds:

* The invariants of what follows, but for the types, hold until `hasty` and promise nothing
  after it (`HistoryStays`: it is for good);
* `NeverBoth`: `Spec => []OneAttempt`. The lock alone does not give it, as it expires. A
  thread in its attempt has left a mark on the position or an unfinished sale on the run,
  which the other meets (`Barred`) unless something erases it. A run found FILLED by both
  stays FILLED until one of them sells (`BothFindFilled`). What erases the mark is the
  loop's reconcile of an unknown run, which makes it FILLED again only when shares are held
  and none were sold; `NobodySells` excludes that while the other is in its attempt, as
  then the last balance seen was none, and no later balance is higher (`Balance`). The
  late answer to a sale is excluded by the assumption about time in `MayBeLate`
  (`Reconciled`), and the minute after which a mark is cleared is `hasty`. The lemmas speak of the first sale of a snapshot and of a sum over no
  orders, both without induction;
* `TypeCorrect`: `TInv` adds to `TypeOK` that no order has sold more than it is for and that what
  the open orders can still sell is at most what is held: that bounds the sums which
  `Precheck`, `Evidence` and the balance make of the orders;
* `OneSaleAtOnce`: `Spec => []NoSecondAttempt`, and `NoSaleForgotten`: `Spec =>
  []LiveSaleIsWatched`, both from `LInv`. Its heart is `Remembered` (while a recorded
  order can be filled, the run has a number or the position is marked to be looked at) and
  `NoneInAttempt` (nobody is in an attempt meanwhile). The threads act on the run as they
  read it, so each may be about to erase what is remembered: `NoNumber` says what the loop
  can know of a run it read without a number, `Observer` and `Reviewer` what has become of the run
  while the other thread looked at the fills or was held up by a review, `Orders` that
  orders are numbered as they come and that what a snapshot shows is an older view of them,
  `SavedIs` that a restart finds the mark;
* `ClosedIsAllSold`: `Spec => []ClosedIsSold`, from `ZInv`. It is about the states `On`: every order has
  its number, and its own, no writes have crossed, shares are held. These can be left and never
  entered again, and in them (`One`) every order is for the whole position and at most one has been
  filled, in part or not (`OneFills`), the position has its quantity (`Whole`), and every order but
  the run's and those in a thread's hand is gone for good, with nothing sold and in no snapshot
  (`Settled`). So a fill a reconcile counts is of the run's own order, and what it leaves is held; the
  quantity counted reaches the position's only when nothing is. `StillOpen` and
  `OnlyOwn` say the same of the run, and of who is in an attempt.

`GenericExit_proofs`, for any threads, orders, shares and bounds:

* `TypeCorrect`, partial fills included;
* `WholeFillsCloseSold`: where orders are filled whole, `Spec => []ClosedIsSold`. The
  invariant is `Covered`: while shares are held, every quantity that the bot, its file,
  its snapshots and the threads have is at least the shares held; so an order placed is
  for all of them, and a fill leaves none. It is inductive because a share sold only
  lowers what is held. Snapshots and views of it that are old are covered too, which
  is what makes a reconcile on an old snapshot harmless;
* `OneThreadBooksOnce`: where moreover the trading loop is the only thread (and so no sale by
  hand is made, as `BookedIsSold` says), `Spec => []BookedIsSold`. In `Books`, all quantities are none or
  all (`Quantities`), what the loop works with is still so, as nobody else touches the position
  (`LoopKnows`), and once something is booked it is everything, nothing is held and no pending mark
  is left, in memory or in the file, that could be booked again after a restart (`BookedOnce`). Both
  hypotheses are needed: see the counterexamples under GenericExit.

`BrokerTruth_proofs`, for any markets, callers, processes, times and bounds:

* `TypeCorrect`;
* `FreshAlways`: `Spec => []FreshIsTrue`. The invariant `FreshInv` says of every entry,
  wherever it is (the files, the snapshot in each caller's hand), that it is at most the
  lag older than its stamp, of every cached balance that it is at most `Slow` older
  than its time in the cache, and of every caller waiting that it has waited at
  most `Slow`. It mentions neither who wrote what nor in which order, and so survives
  every race;
* `NewerIsKept`: `Spec => [][..]_vars` of `NewerKept`, from `RaceInv`: a writer between its
  two halves that nobody has overtaken holds no entry older than the file's;
* `CallerFindsItsOwn`: `Spec => []CallIsNew`, from `AloneInv`: while a caller is alone, all
  others are idle and the file is what it loaded (until it replaces it), so that what
  it writes (`Intact`) is its own outcome. The lag of a forced balance comes from
  `FreshInv`.

`EntryCaps_proofs`, for any plans, scanners, caps and restarts:

* `TypeCorrect`;
* `DailyCapHolds`: `Spec => []DailyEntriesHeld`. `DailyInv` bounds the orders placed together with
  the plans in the scanners' hands, as the gate is passed before anything is recorded.
  Its step at the gate needs that each placed order is counted, missed, or in
  another scanner's hand (`PlacedIsSeen`), which is what `Recorded` says of each run and
  each scanner;
* `RiskOffCapHolds`: `Spec => []RiskOffHeld`. Each run in the market is put to the account of
  one scanner (`own`, chosen anew when a plan is submitted); what is on a scanner's account is
  at most what its scan has counted (`ScanOK`). A new baseline counts all that is in
  the market, so that every account fits under it; between baselines only the
  scanner's own orders are added to its account, and the rest only shrinks.

`SumLemmas` has what these proofs need of sums over finite sets (`MapThenSumSet`): a sum of naturals
is natural and no less than each of its terms, it changes as one of its terms does, and one term can
be taken out of it. That is an
induction over the set, which is done once as the choice of a least counterexample
(`WFMin`), since the induction theorems of the library cannot be instantiated.

In each the last step combines the initial state, the step lemma and the
implication with PTL. The proofs rest on the named assumptions about the constants,
which TLC evaluates in the runs.

Only model-checked are the liveness properties, `UnknownFillRecovered`, `EveryShareCounted`, `DoubtEnds`,
`PositionIsSold` and `SoldIsClosed`, as the prover has no fairness. Every invariant, action property
and refinement of the passing runs is proved, under the hypotheses named above.

## What the code does not keep

Three are violation runs whose property restates a sentence of the repository, or what
a property says elsewhere; `findings` in `PROJECT.json` quotes them.

* `PlanSentOnce` (`pathb_twice`): the trading loop and the WebSocket thread pass the gate
  of one plan together; `mark_hit` looks at no status; two orders.
* `RemainderIsSold` (`exit_remainder`): after a partial fill whose rest is cancelled the run
  goes from SELL_PARTIAL_FILLED to ORDER_UNKNOWN and back; nobody sells the rest.
* `ClosedIsSold` with partial fills (`sells_partial`): the reconcile adds the row of the
  order query to the snapshot's row of the same order, and `_dedupe_broker_rows` keeps
  both as their fields differ; half a fill counts as a whole one.

Others were met while modelling and checked or read, but have no run:

* an order request that ends in HTTP 500 and is not in the order list is submitted again
  (`kis_api.py:3618`, `3745`); the list does not show what the broker has yet to accept, so that
  one plan can have two live orders though the trading loop scans alone: `NoBlindRetry` of `PathBBuy`
  fails with one scanner, one run, two orders and one stray submission. The docstring of
  `KISOrderHTTPError` (`kis_api.py:636`) says that an order is not retried blindly because of
  the danger of a duplicate;
* the mark of a sale is cleared a minute after it was made, when the broker shows no open
  sale (`pathb_runtime.py:12799`), though its thread is still before, in or after the
  submission, and the other thread sends an order too: `DuplicateSellsStopped` of `PathBExit`
  fails with two threads, two sells and no fault. `ARCHITECTURE_MAP.md:312` (`docs/important/core`) says
  that the sell locks and the in-flight state stop duplicate sells;
* the result of `refresh_market` is not what its callers look at: they read the file
  again. When the replacement has failed (`snapshot_write_error` has no reader) they
  find the previous entry, usable until its TTL is over; and when another
  refresh, even of the other market, replaced the file at the same time, the error of a
  failed refresh can be gone, as its stamp equals the one it is compared with
  (`broker_truth_snapshot.py:462`). `CallIsNew` is therefore about a caller alone;
* `stale: True`, which a failed refresh sets, is worked out again from the stamp on every
  load (`broker_truth_snapshot.py:370`): only `error` tells. PathB looks at both;
* the clearing at session open drops the global halt, which `v2.md:222` says lasts until
  /resume; a /resume between the test of `paused_markets` and the write of `global_halt`
  is answered as done and leaves everything halted (`order_state.py:108`);
* after a crash between `place_order` and `mark_order_sent` the run is HIT, and
  `recover_on_startup` (`pathb_runtime.py:4734`) counts it as waiting, not ORDER_UNKNOWN as
  its docstring (4689) says;
* the pending-buy reconcile marks a partly filled order FILLED while its remainder is open
  (`pathb_runtime.py:9809`, `9553`);
* `_add_pending_order` takes care to keep an older row with an order number
  (`trading_bot.py:25470`), and `_normalize_pending_orders` (`bot/state.py:102`) keeps only the
  latest row of a ticker on the next save;
* a sell answer that is lost, then found as an open order, makes the run SELL_ACKED with
  neither an exit number nor `sell_order_sent_at`, so its time to live never runs out;
* a sync that has reduced the position of a run without a numbered order makes the later
  reconcile measure the fills against the reduced quantity, and close with shares held
  (why `ClosedIsSold` of `PathBExit` asks for numbers); two crossing reconciles can emit
  two CLOSED events;
* the daily count is taken before the order is recorded anywhere, so each further scanner can add
  an entry to the cap; it leaves out a run whose sale is acknowledged
  (`daily_entry_run_ids`, `pathb_runtime.py:13580`) when its fill was told by notice or
  recovered, as only the order query logs purchases, or the bot has restarted since; and it
  never sees the order of a run that a crash left HIT;
* the cap on positions counts positions only (`safety_gate.py:137`): orders not yet filled
  are in no count, and the positions may pass it by as many;
* the risk-off count of a scan leaves out an order whose placement raised
  (`pathb_runtime.py:5433`, `_submit_buy` returns False), though the broker may have it;
* `_execute_sell` leaves no mark when `place_order` raises (`trading_bot.py:29739`): the next
  signal sells again; that the balance forbids a double sale is what saves it.

## Not modelled

Candidates, strategies, analysts, learning, training, reports and tools are
numeric or textual heuristics without a protocol: they decide when an order is
tried, which the models leave open. They are by far the largest part of the
repository. Dashboard and Telegram texts are presentation. HTTP, tokens and the wire
format of the WebSocket are I/O. Cash, fees, stops and trailing levels decide when a
sale is tried, not whether it is accounted for.

## Plan

What remains, in this order:

1. Composition of `PathBBuy` with `OrderUnknown`: which reconcile records and
   resolves cancels; the time-to-live path never resolves one.
2. `EventStoreRow` (lost
   updates of `update_path_run`, which `PathBBuy` and `PathBExit` take for atomic).
3. `PathRunLifecycle`: the abstract status graph of a run that the store's
   documents promise; `PathBBuy` and `PathBExit` shown to implement it.
4. `SameDayReentryGuard`, `PathArbiter`, `WaitReentryQueue`, `RateLimiter`.
5. Pure operators checked against reference definitions: tick sizes,
   `compute_buy_limit`, quantities and budgets, `PartialFillPolicy`.
6. Proofs of what the models of 1 to 4 promise.
