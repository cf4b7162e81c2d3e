---------------------------- MODULE OrderUnknown ----------------------------
(***************************************************************************)
(* OrderUnknownEscalator of execution/order_state.py: which tickers,       *)
(* markets, or everything, are closed to new buys because some order's     *)
(* outcome at the broker is not known.  The state is one dictionary in     *)
(* memory, written whole to a JSON file after each operation.              *)
(*                                                                         *)
(* Three threads use it without a lock.  The trading loop ("main") records *)
(* unknown orders and clears them at session open; a price tick of the     *)
(* WebSocket ("ws") scans PathB's waiting entries and, like the loop,      *)
(* records cancellations and the orders found open at the broker; Telegram *)
(* ("tg") runs /resume.  A step below is one access to a part of the       *)
(* dictionary or to the file: the threads interleave between any two.      *)
(***************************************************************************)
EXTENDS Integers

CONSTANTS
    Markets,        \* "KR" and "US" in production
    Tickers,        \* ticker symbols, each listed in one market
    Orders,         \* broker order numbers, each for one ticker
    MarketOf,       \* [Tickers -> Markets]
    TickerOf,       \* [Orders -> Tickers]
    NoOrder,        \* the empty execution id
    MaxOps,         \* bound: operations of the trading loop
    MaxTicks,       \* bound: operations of the WebSocket thread
    MaxResumes,     \* bound: /resume commands
    MaxCrashes      \* bound: crashes of the process

ASSUME MarketsAssumption == Markets # {} /\ Tickers # {}
ASSUME MapsAssumption == /\ MarketOf \in [Tickers -> Markets]
                         /\ TickerOf \in [Orders -> Tickers]
                         /\ NoOrder \notin Orders
ASSUME BoundsAssumption == /\ MaxOps \in Nat
                           /\ MaxTicks \in Nat
                           /\ MaxResumes \in Nat
                           /\ MaxCrashes \in Nat

Threads == {"main", "ws", "tg"}

VARIABLES
    mem,        \* the dictionary self.state
    disk,       \* what _load() would return from the file now
    torn,       \* the file does not parse: opened and not yet (fully) written
    pc,         \* where each thread stands inside its operation
    cur,        \* the locals of each thread's operation
    snap,       \* the text each thread has serialised and not yet written
    cancelAsked,\* orders whose cancellation PathB has requested (its own record)
    ops,        \* operations started by each thread, for the bounds
    crashes,    \* crashes, for the bound
    \* History, read by no operation:
    solo,       \* the thread inside an operation that has run alone so far, or "none"
    crossed,    \* operations have overlapped since one that ran alone was saved
    lost        \* a crash has fallen among overlapping operations

vars == <<mem, disk, torn, pc, cur, snap, cancelAsked, ops, crashes, solo, crossed, lost>>

\* AUTO_CLEAR_RESOLUTIONS without DUPLICATE_OPEN_ORDERS, which no order carries.
Unresolved == {"ORDER_UNKNOWN_UNRESOLVED", "BROKER_ONLY_OPEN_ORDER", "CANCEL_REQUESTED"}
Resolved == {"CANCEL_CONFIRMED", "RESTORED_TO_PENDING", "RESTORED_TO_POSITION",
             "AUTO_CLEARED_NO_BROKER_EVIDENCE"}
Absent == "ABSENT"              \* no entry for the order

States == [tickers : SUBSET Tickers,                 \* paused_tickers
           markets : SUBSET Markets,                 \* paused_markets
           consec  : [Markets -> Nat],               \* market_consecutive_unknown
           halt    : BOOLEAN,                        \* global_halt present
           orders  : [Orders -> Unresolved \cup Resolved \cup {Absent}]]

\* What _load returns when the file is missing or does not parse.
Blank == [tickers |-> {}, markets |-> {}, consec |-> [m \in Markets |-> 0],
          halt |-> FALSE, orders |-> [o \in Orders |-> Absent]]

\* The locals of an operation on ticker t (and, where it has one, on order o): the
\* ticker, the order, the counter it has read, and, of the clearing at session
\* open, the market, the tickers still to examine, whether there were any and
\* whether one was kept unresolved.
AnyTicker == CHOOSE t \in Tickers : TRUE
Locals == [ticker : Tickers, order : Orders \cup {NoOrder}, market : Markets, count : Nat,
           todo : SUBSET Tickers, checked : BOOLEAN, kept : BOOLEAN]
About(t, o) == [ticker |-> t, order |-> o, market |-> MarketOf[t], count |-> 0,
                todo |-> {}, checked |-> FALSE, kept |-> FALSE]
NoLocals == About(AnyTicker, NoOrder)

\* Where a thread stands: the step it takes next.
Labels == {"idle", "enter", "count", "bump", "escalate", "second", "test", "halt", "pause",
           "pause_both", "market", "unpause", "examine", "repause", "lift", "reset", "drop", "counts",
           "unhalt", "save", "dump", "write"}

Init == /\ mem = Blank
        /\ disk = Blank
        /\ torn = FALSE
        /\ pc = [th \in Threads |-> "idle"]
        /\ cur = [th \in Threads |-> NoLocals]
        /\ snap = [th \in Threads |-> Blank]
        /\ cancelAsked = {}
        /\ ops = [th \in Threads |-> 0] /\ crashes = 0
        /\ solo = "none" /\ crossed = FALSE /\ lost = FALSE

Idle == \A th \in Threads : pc[th] = "idle"
Alone(th) == \A u \in Threads \ {th} : pc[u] = "idle"

\* block_state: is a new buy of ticker t refused, by state s?
BlockedIn(s, t) == s.halt \/ MarketOf[t] \in s.markets \/ t \in s.tickers

-----------------------------------------------------------------------------
(* Steps *)

Bound(th) == CASE th = "main" -> MaxOps [] th = "ws" -> MaxTicks [] th = "tg" -> MaxResumes

\* Thread th starts an operation with locals l and goes on at `label'.
Begin(th, l, label) ==
    /\ pc[th] = "idle"
    /\ ops[th] < Bound(th)
    /\ ops' = [ops EXCEPT ![th] = @ + 1]
    /\ cur' = [cur EXCEPT ![th] = l]
    /\ pc' = [pc EXCEPT ![th] = label]
    /\ solo' = IF Alone(th) THEN th ELSE "none"
    /\ crossed' = (crossed \/ ~Alone(th))
    /\ UNCHANGED <<disk, torn, snap, crashes, lost>>

\* Thread th, at label `from', goes on at label `to'.
Step(th, from, to) ==
    /\ pc[th] = from
    /\ pc' = [pc EXCEPT ![th] = to]
    /\ UNCHANGED <<disk, torn, snap, cancelAsked, ops, crashes, solo, crossed, lost>>

\* Its locals are not used any more.
Forget(th) == cur' = [cur EXCEPT ![th] = NoLocals]

-----------------------------------------------------------------------------
(* record_unknown, on the trading loop *)

\* Pause the ticker,
RecordUnknown(t, o) ==
    /\ o # NoOrder => TickerOf[o] = t
    /\ Begin("main", About(t, o), IF o = NoOrder THEN "count" ELSE "enter")
    /\ mem' = [mem EXCEPT !.tickers = @ \cup {t}]
    /\ UNCHANGED cancelAsked

\* ... enter the order, if it has a number,
EnterUnknown ==
    /\ Step("main", "enter", "count")
    /\ mem' = [mem EXCEPT !.orders[cur["main"].order] = "ORDER_UNKNOWN_UNRESOLVED"]
    /\ UNCHANGED cur

\* ... read the market's counter,
ReadCount ==
    /\ Step("main", "count", "bump")
    /\ cur' = [cur EXCEPT !["main"].count = mem.consec[cur["main"].market] + 1]
    /\ UNCHANGED mem

\* ... store it incremented,
Bump ==
    /\ Step("main", "bump", "escalate")
    /\ mem' = [mem EXCEPT !.consec[cur["main"].market] = cur["main"].count]
    /\ UNCHANGED cur

\* ... read it back (a KeyError, which ends the operation unsaved, if /resume has
\* replaced the counters meanwhile),
Escalate ==
    LET m == cur["main"].market
    IN  /\ \/ /\ mem.consec[m] = 0
              /\ Step("main", "escalate", "idle")
              /\ Forget("main")
           \/ /\ mem.consec[m] = 1
              /\ Step("main", "escalate", "test")
              /\ Forget("main")
           \/ /\ mem.consec[m] >= 2
              /\ Step("main", "escalate", "second")
              /\ UNCHANGED cur
        /\ UNCHANGED mem

\* ... pause the market at the second unknown,
PauseSecond ==
    /\ Step("main", "second", "test")
    /\ mem' = [mem EXCEPT !.markets = @ \cup {cur["main"].market}]
    /\ Forget("main")

\* ... look whether every market is paused, and
TestAllPaused ==
    /\ Step("main", "test", IF mem.markets = Markets THEN "halt" ELSE "save")
    /\ UNCHANGED <<mem, cur>>

\* ... if so halt everything.
Halt == /\ Step("main", "halt", "save")
        /\ mem' = [mem EXCEPT !.halt = TRUE]
        /\ UNCHANGED cur

-----------------------------------------------------------------------------
(* On the trading loop and on the WebSocket thread *)

\* record_broker_open_order: an order open at the broker that no pending row knows.
RecordBrokerOpenOrder(th, o) ==
    /\ Begin(th, About(TickerOf[o], o), "pause_both")
    /\ mem' = [mem EXCEPT !.orders[o] = "BROKER_ONLY_OPEN_ORDER"]
    /\ UNCHANGED cancelAsked

\* record_cancel_requested: the ticker is paused until the cancel is confirmed.
RecordCancelRequested(th, o) ==
    /\ Begin(th, About(TickerOf[o], o), "pause")
    /\ mem' = [mem EXCEPT !.orders[o] = "CANCEL_REQUESTED"]
    /\ cancelAsked' = cancelAsked \cup {o}

\* A variant, for a check: the pause is not saved.
PauseTickerUnsaved(th) ==
    /\ \/ Step(th, "pause", "idle")
       \/ Step(th, "pause_both", "market")
    /\ mem' = [mem EXCEPT !.tickers = @ \cup {cur[th].ticker}]
    /\ UNCHANGED cur

PauseTicker(th) ==
    /\ \/ Step(th, "pause", "save")
       \/ Step(th, "pause_both", "market")
    /\ mem' = [mem EXCEPT !.tickers = @ \cup {cur[th].ticker}]
    /\ UNCHANGED cur

\* record_duplicate_open_orders: two orders of one ticker open at the broker, whatever
\* their numbers; none is entered.
RecordDuplicateOpenOrders(th, t) ==
    /\ Begin(th, About(t, NoOrder), "market")
    /\ mem' = [mem EXCEPT !.tickers = @ \cup {t}]
    /\ UNCHANGED cancelAsked

\* A variant, for a check: the ticker is entered among the paused markets.
PauseMarketSwapped(th) ==
    /\ Step(th, "market", "save")
    /\ mem' = [mem EXCEPT !.markets = @ \cup {cur[th].ticker}]
    /\ UNCHANGED cur

PauseMarket(th) ==
    /\ Step(th, "market", "save")
    /\ mem' = [mem EXCEPT !.markets = @ \cup {cur[th].market}]
    /\ UNCHANGED cur

\* record_cancel_resolved: an order that has an entry is resolved,
RecordCancelResolved(th, o) ==
    /\ o \in cancelAsked
    /\ Begin(th, About(TickerOf[o], o), "unpause")
    /\ mem' = [mem EXCEPT !.orders[o] = IF @ = Absent THEN Absent ELSE "CANCEL_CONFIRMED"]
    /\ cancelAsked' = cancelAsked \ {o}

\* ... and the ticker's pause goes, whatever else holds it.
UnpauseTicker(th) ==
    /\ Step(th, "unpause", "save")
    /\ mem' = [mem EXCEPT !.tickers = @ \ {cur[th].ticker}]
    /\ UNCHANGED cur

-----------------------------------------------------------------------------
(* auto_clear_at_session_open, on the trading loop, on a broker snapshot that  *)
(* is trusted; on an untrusted one nothing happens.  (An order entered by      *)
(* another thread while the tickers are being collected ends the call with a   *)
(* RuntimeError before it has changed anything.)                               *)

\* The tickers the loop examines: paused, or with an unresolved order.
Examined(m) == {t \in Tickers : /\ MarketOf[t] = m
                                /\ \/ t \in mem.tickers
                                   \/ \E o \in Orders : /\ TickerOf[o] = t
                                                        /\ mem.orders[o] \in Unresolved}

AutoClear(m) ==
    /\ Begin("main", [NoLocals EXCEPT !.market = m, !.todo = Examined(m),
                                      !.checked = Examined(m) # {}], "examine")
    /\ UNCHANGED <<mem, cancelAsked>>

\* _auto_clear_ticker_at_open's verdict: `open' is how many orders of the ticker the
\* snapshot lists as open, `held' whether it lists a position or a fill of today.
Verdict(open, held) == CASE open >= 2 -> "KEPT_UNRESOLVED"
                         [] open = 1 -> "RESTORED_TO_PENDING"
                         [] open = 0 /\ held -> "RESTORED_TO_POSITION"
                         [] OTHER -> "AUTO_CLEARED_NO_BROKER_EVIDENCE"

\* One ticker: its unresolved orders take the verdict,
ClearOrders(t, open, held) ==
    LET verdict == Verdict(open, held)
    IN  /\ t \in cur["main"].todo
        /\ cur' = [cur EXCEPT !["main"].todo = @ \ {t}, !["main"].ticker = t,
                              !["main"].kept = @ \/ verdict = "KEPT_UNRESOLVED"]
        /\ \/ /\ verdict = "KEPT_UNRESOLVED"
              /\ Step("main", "examine", "examine")
              /\ UNCHANGED mem
           \/ /\ verdict # "KEPT_UNRESOLVED"
              /\ Step("main", "examine", IF verdict = "RESTORED_TO_PENDING" THEN "repause" ELSE "lift")
              /\ mem' = [mem EXCEPT !.orders =
                            [o \in Orders |-> IF TickerOf[o] = t /\ @[o] \in Unresolved
                                              THEN verdict ELSE @[o]]]

\* ... or, when another thread enters an order meanwhile, the RuntimeError is noted as
\* the ticker's error, which keeps nothing unresolved;
ClearFails(t) ==
    /\ t \in cur["main"].todo
    /\ ~Alone("main")
    /\ Step("main", "examine", "examine")
    /\ cur' = [cur EXCEPT !["main"].todo = @ \ {t}]
    /\ UNCHANGED mem

\* ... and its pause goes, unless an order of it is open.
ClearTicker ==
    /\ \/ /\ Step("main", "repause", "examine")
          /\ mem' = [mem EXCEPT !.tickers = @ \cup {cur["main"].ticker}]
       \/ /\ Step("main", "lift", "examine")
          /\ mem' = [mem EXCEPT !.tickers = @ \ {cur["main"].ticker}]
    /\ UNCHANGED cur

\* With nothing kept: unpause the market,
LiftMarket == /\ cur["main"].todo = {} /\ ~cur["main"].kept
              /\ Step("main", "examine", "reset")
              /\ mem' = [mem EXCEPT !.markets = @ \ {cur["main"].market}]
              /\ UNCHANGED cur

KeepMarket == /\ cur["main"].todo = {} /\ cur["main"].kept
              /\ Step("main", "examine", "save")
              /\ UNCHANGED <<mem, cur>>

\* ... reset its counter,
ResetCount == /\ Step("main", "reset", "drop")
              /\ mem' = [mem EXCEPT !.consec[cur["main"].market] = 0]
              /\ UNCHANGED cur

\* ... drop the global halt if no market is left; save only if a ticker was examined.
DropHalt == /\ Step("main", "drop", IF cur["main"].checked THEN "save" ELSE "idle")
            /\ mem' = [mem EXCEPT !.halt = @ /\ mem.markets # {}]
            /\ Forget("main")

-----------------------------------------------------------------------------
(* clear_manual_resume, on the Telegram thread, for all markets *)

ResumeMarkets == /\ Begin("tg", NoLocals, "counts")
                 /\ mem' = [mem EXCEPT !.markets = {}]
                 /\ UNCHANGED cancelAsked

\* A variant, for a check: /resume leaves the counters alone.
ResumeKeepsCounts == /\ Step("tg", "counts", "unhalt")
                     /\ UNCHANGED <<mem, cur>>

ResumeCounts == /\ Step("tg", "counts", "unhalt")
                /\ mem' = [mem EXCEPT !.consec = [m \in Markets |-> 0]]
                /\ UNCHANGED cur

ResumeHalt == /\ Step("tg", "unhalt", "save")
              /\ mem' = [mem EXCEPT !.halt = FALSE]
              /\ UNCHANGED cur

-----------------------------------------------------------------------------
(* _save: write_text of json.dumps, on any thread and without a lock *)

\* json.dumps reads the parts in the order of their names: the halt, the counters and
\* the orders,
SaveDump(th) == /\ pc[th] = "save"
                /\ pc' = [pc EXCEPT ![th] = "dump"]
                /\ snap' = [snap EXCEPT ![th] = mem]
                /\ Forget(th)
                /\ UNCHANGED <<mem, disk, torn, cancelAsked, ops, crashes, solo, crossed, lost>>

\* ... then the paused markets and tickers; and opening the file truncates it.
SaveOpen(th) == /\ pc[th] = "dump"
                /\ pc' = [pc EXCEPT ![th] = "write"]
                /\ snap' = [snap EXCEPT ![th].markets = mem.markets, ![th].tickers = mem.tickers]
                /\ disk' = Blank
                /\ torn' = TRUE
                /\ UNCHANGED <<mem, cur, cancelAsked, ops, crashes, solo, crossed, lost>>

\* If another thread has written since this one opened the file, the longer of the two
\* texts leaves its tail behind, and the file may not parse.  Either way the text on
\* disk may by now be older than what the other thread saved.
SaveWrite(th) == /\ pc[th] = "write"
                 /\ \/ disk' = snap[th] /\ torn' = FALSE
                    \/ ~torn /\ disk' = Blank /\ torn' = TRUE
                 /\ pc' = [pc EXCEPT ![th] = "idle"]
                 /\ snap' = [snap EXCEPT ![th] = Blank]
                 /\ crossed' = (crossed /\ solo # th)
                 /\ lost' = (lost /\ ~(solo = th /\ th = "tg"))
                 /\ solo' = IF solo = th THEN "none" ELSE solo
                 /\ UNCHANGED <<mem, cur, cancelAsked, ops, crashes>>

\* The process stops and restarts: _load.
Crash == /\ crashes < MaxCrashes
         /\ crashes' = crashes + 1
         /\ mem' = disk
         /\ pc' = [th \in Threads |-> "idle"]
         /\ cur' = [th \in Threads |-> NoLocals]
         /\ snap' = [th \in Threads |-> Blank]
         /\ solo' = "none"
         /\ crossed' = FALSE
         /\ lost' = (lost \/ crossed)
         /\ UNCHANGED <<disk, torn, cancelAsked, ops>>

-----------------------------------------------------------------------------
Main == \/ \E t \in Tickers, o \in Orders \cup {NoOrder} : RecordUnknown(t, o)
        \/ EnterUnknown
        \/ ReadCount
        \/ Bump
        \/ Escalate
        \/ PauseSecond
        \/ TestAllPaused
        \/ Halt
        \/ \E m \in Markets : AutoClear(m)
        \/ \E t \in Tickers, open \in 0..2, held \in BOOLEAN : ClearOrders(t, open, held)
        \/ \E t \in Tickers : ClearFails(t)
        \/ ClearTicker
        \/ LiftMarket
        \/ KeepMarket
        \/ ResetCount
        \/ DropHalt

MainOrWebSocket(th) == \/ \E o \in Orders : RecordBrokerOpenOrder(th, o)
                       \/ \E t \in Tickers : RecordDuplicateOpenOrders(th, t)
                       \/ \E o \in Orders : RecordCancelRequested(th, o)
                       \/ \E o \in Orders : RecordCancelResolved(th, o)
                       \/ PauseTicker(th)
                       \/ PauseMarket(th)
                       \/ UnpauseTicker(th)

Telegram == \/ ResumeMarkets
            \/ ResumeCounts
            \/ ResumeHalt

Save(th) == \/ SaveDump(th)
            \/ SaveOpen(th)
            \/ SaveWrite(th)

\* Every operation ends; the system is not obliged to start another.
Done == Idle /\ UNCHANGED vars

Next == \/ Main
        \/ \E th \in {"main", "ws"} : MainOrWebSocket(th)
        \/ Telegram
        \/ \E th \in Threads : Save(th)
        \/ Crash
        \/ Done

Spec == Init /\ [][Next]_vars

-----------------------------------------------------------------------------
(* Properties *)

TypeOK == /\ mem \in States
          /\ disk \in States
          /\ torn \in BOOLEAN
          /\ pc \in [Threads -> Labels]
          /\ cur \in [Threads -> Locals]
          /\ snap \in [Threads -> States]
          /\ cancelAsked \subseteq Orders
          /\ ops \in [Threads -> Nat] /\ crashes \in Nat
          /\ solo \in Threads \cup {"none"}
          /\ crossed \in BOOLEAN /\ lost \in BOOLEAN

\* Two consecutive unknown orders keep their market paused: whenever all threads are
\* between operations, a market with a count of two or more is paused, however /resume,
\* the WebSocket thread and the trading loop interleave in memory, and through any
\* crash inside an operation that runs alone.  Only a crash among overlapping
\* operations is left out, until the next /resume that runs alone: the file may
\* then hold one thread's older text over another's newer one.
EscalationHeld ==
    Idle /\ ~lost => \A m \in Markets : mem.consec[m] >= 2 => m \in mem.markets

\* A restart never lifts a block: whenever all threads are between operations, every
\* ticker that memory blocks is blocked by what a restart would load, once an
\* operation that ran alone has saved since operations last overlapped.  (Lifting a
\* block in memory without saving, which auto_clear_at_session_open does when it
\* examined no ticker, errs on the other side.)
RestartKeepsBlocks ==
    Idle /\ ~crossed => \A t \in Tickers : BlockedIn(mem, t) => BlockedIn(disk, t)
=============================================================================
