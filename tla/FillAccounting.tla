--------------------------- MODULE FillAccounting ---------------------------
(***************************************************************************)
(* How the bot (trading_bot.py, bot/state.py) learns what its buy orders   *)
(* of ONE ticker have bought: the pending rows, the local positions, their *)
(* two files, and the broker that fills the orders.                        *)
(*                                                                         *)
(* Three sources bring the same shares.  The trading loop reads the        *)
(* balance and then asks for the fills of each pending order               *)
(* (_sync_runtime_with_broker, _reconcile_pending_orders); the WebSocket   *)
(* thread is sent a notice of each fill (_on_fill_notice).  No lock keeps  *)
(* them apart.  A step is the code between two calls that wait on the      *)
(* broker; a notice is handled in one step.                                *)
(***************************************************************************)
EXTENDS Integers

CONSTANTS
    Orders,         \* buy orders of the ticker, numbered in the order of their creation
    Size,           \* shares of an order
    NoOrder,        \* no order number
    Placers,        \* the threads that place orders: "loop", and "ws" (PathB's scan of a tick)
    MaxOthers,      \* bound: shares the user buys on the side
    MaxMidnights,   \* bound: midnights
    MaxCloses,      \* bound: session closes
    MaxCrashes      \* bound: crashes

ASSUME OrdersAssumption == Orders \subseteq Nat /\ NoOrder \notin Orders
ASSUME PlacersAssumption == Placers \subseteq {"loop", "ws"}
ASSUME SizeAssumption == Size \in Nat \ {0}
ASSUME BoundsAssumption == /\ MaxOthers \in Nat /\ MaxMidnights \in Nat
                           /\ MaxCloses \in Nat /\ MaxCrashes \in Nat

VARIABLES
    stage, filled, held,        \* the broker: each order, what it has bought, the holding
    net,                        \* notices sent
    row, pending,               \* order dicts of the bot; those in pending_orders
    pos,                        \* the ticker's entries of risk.positions
    told,                       \* shares reported as filled to PathB and the decision events
    unknown,                    \* orders recorded as ORDER_UNKNOWN
    seen,                       \* _applied_fill_keys
    pc, bal, acc, todo, kept, cur, dirty, synced, closing,  \* the trading loop
    ws,                         \* the WebSocket thread: the order it is placing, or NoOrder
    file,                       \* the two files
    fresh, doubt, torn,         \* what has crossed (history)
    others, midnights, closes, crashes                      \* counters, for the bounds

broker == <<stage, filled, held, net>>
book == <<row, pending, pos, told, unknown>>
loop == <<pc, bal, acc, todo, kept, cur, dirty, synced, closing>>
history == <<fresh, doubt, torn>>
bounds == <<others, midnights, closes, crashes>>
vars == <<broker, book, seen, loop, ws, file, history, bounds>>

Greater(a, b) == IF a > b THEN a ELSE b
Lesser(a, b) == IF a < b THEN a ELSE b

-----------------------------------------------------------------------------
\* A row of pending_orders: what is still to be filled, filled_qty_accum, partial_fill_at,
\* filled_price_native, v2_unknown_recorded, and whether created_at is of an earlier day.
Rows == [qty : 1 .. Size, accum : Nat, part : BOOLEAN, priced : BOOLEAN,
         recorded : BOOLEAN, old : BOOLEAN]

NewRow == [qty |-> Size, accum |-> 0, part |-> FALSE, priced |-> FALSE,
           recorded |-> FALSE, old |-> FALSE]

\* The ticker's entries of a list of positions: how many, how many of them carry an order's
\* number, the shares of all and of those, and the number and the shares of the last.
NoPosition == [entries |-> 0, own |-> [o \in Orders |-> 0], total |-> 0,
               of |-> [o \in Orders |-> 0], by |-> NoOrder, qty |-> 0]

\* One entry.
Only(o, n) == [entries |-> 1, own |-> [x \in Orders |-> IF x = o THEN 1 ELSE 0], total |-> n,
               of |-> [x \in Orders |-> IF x = o THEN n ELSE 0], by |-> o, qty |-> n]

\* positions.append
Append(p, o, n) == [entries |-> p.entries + 1, own |-> [p.own EXCEPT ![o] = @ + 1],
                    total |-> p.total + n, of |-> [p.of EXCEPT ![o] = @ + n], by |-> o, qty |-> n]

\* The balance's quantity written into every entry.
Corrected(p, n) == [p EXCEPT !.total = p.entries * n, !.of = [o \in Orders |-> p.own[o] * n],
                             !.qty = n]

Positions == [entries : Nat, own : [Orders -> Nat], total : Nat, of : [Orders -> Nat],
              by : Orders \cup {NoOrder}, qty : Nat]

Notices == [order : Orders, upto : 1 .. Size, qty : 1 .. Size]

Balances == Nat \cup {-1}       \* -1: the balance could not be read

Undecided(o) == [order |-> o, qty |-> 0, already |-> 0, asks |-> FALSE]
NoDecision == Undecided(NoOrder)

TypeOK ==
    /\ stage \in [Orders -> {"new", "live", "dead"}]
    /\ filled \in [Orders -> 0 .. Size] /\ held \in Nat
    /\ net \subseteq Notices /\ seen \subseteq net
    /\ row \in [Orders -> Rows] /\ pending \subseteq Orders /\ pos \in Positions
    /\ told \in [Orders -> Nat] /\ unknown \subseteq Orders
    /\ pc \in {"idle", "placing", "rows", "answer", "list", "positions", "assign", "clear"}
    /\ bal \in Balances /\ acc \in Nat /\ todo \subseteq Orders /\ kept \subseteq Orders
    /\ cur \in [order : Orders \cup {NoOrder}, qty : 0 .. Size, already : Nat, asks : BOOLEAN]
    /\ dirty \in BOOLEAN /\ synced \in Positions /\ closing \in BOOLEAN
    /\ ws \in Orders \cup {NoOrder}
    /\ file \in [row : [Orders -> Rows], pending : SUBSET Orders, pos : Positions]
    /\ fresh \in BOOLEAN /\ doubt \in {"none", "passing", "lasting"} /\ torn \subseteq Orders
    /\ others \in 0 .. MaxOthers /\ midnights \in 0 .. MaxMidnights
    /\ closes \in 0 .. MaxCloses /\ crashes \in 0 .. MaxCrashes

Init ==
    /\ stage = [o \in Orders |-> "new"] /\ filled = [o \in Orders |-> 0] /\ held = 0
    /\ net = {} /\ seen = {}
    /\ row = [o \in Orders |-> NewRow] /\ pending = {} /\ pos = NoPosition
    /\ told = [o \in Orders |-> 0] /\ unknown = {}
    /\ pc = "idle" /\ bal = 0 /\ acc = 0 /\ todo = {} /\ kept = {} /\ cur = NoDecision
    /\ dirty = FALSE /\ synced = NoPosition /\ closing = FALSE
    /\ ws = NoOrder
    /\ file = [row |-> row, pending |-> {}, pos |-> NoPosition]
    /\ fresh = FALSE /\ doubt = "none" /\ torn = {}
    /\ others = 0 /\ midnights = 0 /\ closes = 0 /\ crashes = 0

-----------------------------------------------------------------------------
\* _normalize_pending_orders, on every save: of the rows created today, the latest.
Normalized(S, r) ==
    {o \in S : ~r[o].old /\ \A p \in S : ~r[p].old => p <= o}

\* _save_pending_orders: the list is normalised, then written.
SavePending(S, r) ==
    /\ pending' = Normalized(S, r)
    /\ file' = [file EXCEPT !.row = r, !.pending = Normalized(S, r)]

\* Both files.
SaveBoth(S, r, p) ==
    /\ pending' = Normalized(S, r)
    /\ file' = [row |-> r, pending |-> Normalized(S, r), pos |-> p]

-----------------------------------------------------------------------------
(* The broker and the user (external).                                      *)

\* The broker accepts the next order, from the trading loop between two of its jobs or
\* from the WebSocket thread; the answer has not yet reached the bot.
Place(o) ==
    /\ stage[o] = "new" /\ \A p \in Orders : p < o => stage[p] # "new"
    /\ stage' = [stage EXCEPT ![o] = "live"]
    /\ \/ "ws" \in Placers /\ ws = NoOrder /\ ws' = o /\ UNCHANGED <<pc, cur>>
       \/ "loop" \in Placers /\ pc = "idle" /\ pc' = "placing"
          /\ cur' = Undecided(o) /\ UNCHANGED ws
    /\ UNCHANGED <<filled, held, net, book, seen, bal, acc, todo, kept, dirty, synced, closing,
                   file, history, bounds>>

\* The broker fills n shares of an order and sends a notice.
Fill(o, n) ==
    /\ stage[o] = "live" /\ filled[o] + n <= Size
    /\ filled' = [filled EXCEPT ![o] = @ + n]
    /\ stage' = [stage EXCEPT ![o] = IF filled[o] + n = Size THEN "dead" ELSE @]
    /\ held' = held + n
    /\ net' = net \cup {[order |-> o, upto |-> filled[o] + n, qty |-> n]}
    /\ UNCHANGED <<book, seen, loop, ws, file, history, bounds>>

\* The remainder of an order is cancelled or lapses.
Drop(o) ==
    /\ stage[o] = "live"
    /\ stage' = [stage EXCEPT ![o] = "dead"]
    /\ UNCHANGED <<filled, held, net, book, seen, loop, ws, file, history, bounds>>

\* The user buys a share in the broker's application.
UserBuys ==
    /\ others < MaxOthers
    /\ held' = held + 1 /\ others' = others + 1
    /\ UNCHANGED <<stage, filled, net, book, seen, loop, ws, file, history, midnights, closes,
                   crashes>>

\* Midnight in Korea, in the middle of a US session.
Midnight ==
    /\ midnights < MaxMidnights
    /\ row' = [o \in Orders |-> [row[o] EXCEPT !.old = o \in pending \/ @]]
    /\ midnights' = midnights + 1
    /\ UNCHANGED <<broker, pending, pos, told, unknown, seen, loop, ws, file, history, others,
                   closes, crashes>>

\* A row has not been told of all its order has bought (history).
Behind(r, o) == r.accum < filled[o]

-----------------------------------------------------------------------------
(* A new row: _add_pending_order, once the broker's answer is there.        *)

AddPendingOrder(o) ==
    /\ \/ /\ pc = "placing" /\ cur.order = o
          /\ pc' = "idle" /\ cur' = NoDecision
          /\ UNCHANGED <<ws, fresh, doubt>>
       \/ /\ ws = o
          /\ ws' = NoOrder
          /\ IF Behind(NewRow, o) THEN fresh' = FALSE /\ doubt' = "lasting"
             ELSE UNCHANGED <<fresh, doubt>>
          /\ UNCHANGED <<pc, cur>>
    /\ row' = [row EXCEPT ![o] = NewRow]
    /\ SavePending(pending \cup {o}, row')
    /\ UNCHANGED <<broker, pos, told, unknown, seen, bal, acc, todo, kept, dirty, synced, closing,
                   torn, bounds>>

-----------------------------------------------------------------------------
(* _on_fill_notice, on the WebSocket thread.                                 *)

Reconciling == pc \in {"rows", "answer", "list"}

\* A variant, for a check: a notice for exactly the rest leaves an empty row.
OnFillNoticeAtLeast(n) ==
    /\ ws = NoOrder
    /\ n \in net \ seen /\ n.order \in pending
    /\ LET o == n.order
           q == Lesser(n.qty, row[o].qty)
       IN /\ seen' = seen \cup {n}
          /\ pos' = Append(pos, o, q)
          /\ told' = [told EXCEPT ![o] = @ + q]
          /\ row' = [row EXCEPT ![o].qty = Greater(0, @ - n.qty), ![o].accum = @ + q]
          /\ SaveBoth(pending, row', pos')
          /\ torn' = IF Reconciling THEN torn \cup {o} ELSE torn
    /\ fresh' = FALSE
    /\ doubt' = (IF doubt = "none" THEN "passing" ELSE doubt)
    /\ UNCHANGED <<broker, unknown, loop, ws, bounds>>

\* A notice of an order without a row, or one seen before, changes nothing.
OnFillNotice(n) ==
    /\ ws = NoOrder
    /\ n \in net \ seen /\ n.order \in pending
    /\ LET o == n.order
           q == Lesser(n.qty, row[o].qty)
           partial == n.qty < row[o].qty
       IN /\ seen' = seen \cup {n}
          /\ pos' = Append(pos, o, q)
          /\ told' = [told EXCEPT ![o] = @ + q]
          /\ row' = IF partial
                    THEN [row EXCEPT ![o].qty = @ - n.qty, ![o].accum = @ + q,
                                     ![o].part = TRUE, ![o].priced = TRUE]
                    ELSE [row EXCEPT ![o].priced = TRUE]
          /\ SaveBoth(IF partial THEN pending ELSE pending \ {o}, row', pos')
          /\ torn' = IF Reconciling THEN torn \cup {o} ELSE torn
    /\ fresh' = FALSE
    /\ doubt' = (IF doubt = "none" THEN "passing" ELSE doubt)
    /\ UNCHANGED <<broker, unknown, loop, ws, bounds>>

-----------------------------------------------------------------------------
(* The trading loop: _sync_runtime_with_broker and session_close.           *)

\* Where a job goes after the pending rows.
AfterRows == IF closing' THEN "clear" ELSE "positions"

\* The balance is read (b is -1 if that failed and the job goes on all the same), and
\* _reconcile_pending_orders begins with what the positions then account for.
StartJob(close, b) ==
    /\ pc = "idle"
    /\ closing' = close
    /\ bal' = b /\ acc' = pos.total /\ todo' = pending /\ kept' = {} /\ dirty' = FALSE
    /\ pc' = IF pending = {} \/ (close /\ b = -1) THEN AfterRows ELSE "rows"
    /\ fresh' = (b > 0)
    /\ UNCHANGED <<broker, book, seen, cur, synced, ws, file, doubt, torn, others, midnights,
                   crashes>>

StartSync(b) == StartJob(FALSE, b) /\ UNCHANGED closes

StartClose(b) ==
    /\ closes < MaxCloses
    /\ closes' = closes + 1
    /\ StartJob(TRUE, b)

\* A variant, for a check: every position of the ticker is counted against the order.
ReadRowOfAll(o) ==
    /\ pc = "rows" /\ o \in todo /\ \A p \in todo : o <= p
    /\ cur' = [order |-> o, qty |-> row[o].qty, already |-> Greater(row[o].accum, pos.total),
               asks |-> ~row[o].priced \/ row[o].part]
    /\ todo' = todo \ {o}
    /\ pc' = "answer"
    /\ UNCHANGED <<broker, book, seen, bal, acc, kept, dirty, synced, closing, ws, file, history,
                   bounds>>

\* The next row is read, and the broker asked for its fills if its price is not known or it
\* has been filled in part.
ReadRow(o) ==
    /\ pc = "rows" /\ o \in todo /\ \A p \in todo : o <= p
    /\ cur' = [order |-> o, qty |-> row[o].qty, already |-> Greater(row[o].accum, pos.of[o]),
               asks |-> ~row[o].priced \/ row[o].part]
    /\ todo' = todo \ {o}
    /\ pc' = "answer"
    /\ UNCHANGED <<broker, book, seen, bal, acc, kept, dirty, synced, closing, ws, file, history,
                   bounds>>

\* A variant, for a check: what the positions account for is not taken off the balance.
DeltaOfAll == IF bal > 0 THEN bal ELSE 0

\* Shares in the balance that the positions do not account for.
Delta == IF bal > 0 THEN Greater(0, bal - acc) ELSE 0

\* Shares the query has found beyond those already counted for the order; -1 is no answer.
New(cum) == IF cum = -1 THEN 0 ELSE Greater(0, cum - cur.already)

\* What the row has bought in part, 0 if nothing or all.
PartOf(cum) ==
    IF New(cum) > 0 /\ New(cum) < cur.qty THEN New(cum)
    ELSE IF Delta > 0 /\ Delta < cur.qty THEN Delta
    ELSE 0

Completed(cum) ==
    \/ bal > 0 /\ bal >= acc + cur.qty
    \/ cum # -1 /\ New(cum) >= Greater(cur.qty, 1)

\* A variant, for a check: filled_qty_accum is not kept.
PartFilledNoAccum(cum) ==
    LET o == cur.order
        n == PartOf(cum)
    IN /\ n > 0
       /\ pos' = Append(pos, o, n)
       /\ told' = [told EXCEPT ![o] = @ + n]
       /\ row' = [row EXCEPT ![o].qty = cur.qty - n, ![o].part = TRUE,
                             ![o].priced = @ \/ cum > 0]
       /\ acc' = acc + n
       /\ kept' = kept \cup {o} /\ dirty' = TRUE
       /\ UNCHANGED unknown

\* Part of the row has been filled.
PartFilled(cum) ==
    LET o == cur.order
        n == PartOf(cum)
    IN /\ n > 0
       /\ pos' = Append(pos, o, n)
       /\ told' = [told EXCEPT ![o] = @ + n]
       /\ row' = [row EXCEPT ![o].qty = cur.qty - n, ![o].accum = @ + n, ![o].part = TRUE,
                             ![o].priced = @ \/ cum > 0]
       /\ acc' = acc + n
       /\ kept' = kept \cup {o} /\ dirty' = TRUE
       /\ UNCHANGED unknown

\* All of it: the position and the report take the quantity the row has now.
AllFilled(cum) ==
    LET o == cur.order
    IN /\ PartOf(cum) = 0 /\ Completed(cum)
       /\ pos' = Append(pos, o, row[o].qty)
       /\ told' = [told EXCEPT ![o] = @ + row[o].qty]
       /\ row' = [row EXCEPT ![o].priced = @ \/ cum > 0]
       /\ acc' = acc + cur.qty
       /\ dirty' = TRUE
       /\ UNCHANGED <<kept, unknown>>

\* Nothing; the remainder of a row filled in part is recorded as unknown once its time to
\* live (partial_fill_ttl_sec) is over.
NothingFilled(cum) ==
    LET o == cur.order
    IN /\ PartOf(cum) = 0 /\ ~Completed(cum)
       /\ \E due \in BOOLEAN :
             /\ due => row[o].part /\ ~row[o].recorded
             /\ row' = [row EXCEPT ![o].priced = @ \/ cum > 0, ![o].recorded = @ \/ due]
             /\ unknown' = IF due THEN unknown \cup {o} ELSE unknown
             /\ dirty' = (dirty \/ due \/ cum # -1)
       /\ kept' = kept \cup {o}
       /\ UNCHANGED <<pos, told, acc>>

\* The answer to the query, if it was asked and the broker lists the order; and what
\* _reconcile_pending_orders makes of it and of the balance.
Answer(cum) ==
    /\ pc = "answer"
    /\ cum # -1 => cur.asks /\ cum = filled[cur.order]
    /\ PartFilled(cum) \/ AllFilled(cum) \/ NothingFilled(cum)
    /\ pc' = "rows" /\ cur' = NoDecision
    /\ UNCHANGED <<broker, pending, seen, bal, todo, synced, closing, ws, file, history, bounds>>

\* After the last row the positions are saved ...
SavePositions ==
    /\ pc = "rows" /\ todo = {}
    /\ file' = IF dirty THEN [file EXCEPT !.pos = pos] ELSE file
    /\ pc' = IF dirty THEN "list" ELSE IF closing THEN "clear" ELSE "positions"
    /\ UNCHANGED <<broker, book, seen, bal, acc, todo, kept, cur, dirty, synced, closing, ws,
                   history, bounds>>

\* ... and pending_orders becomes the list of the rows that remained.
RebuildPending ==
    /\ pc = "list"
    /\ SavePending(kept, row)
    /\ pc' = IF closing THEN "clear" ELSE "positions"
    /\ UNCHANGED <<broker, row, pos, told, unknown, seen, bal, acc, todo, kept, cur, dirty, synced,
                   closing, ws, history, bounds>>

\* A variant, for a check: the quantity of a position is not corrected.
SyncedUncorrected ==
    IF pos.total > 0 THEN {Only(pos.by, pos.qty)}
    ELSE IF bal <= 0 THEN {NoPosition}
    ELSE {Only(o, bal) : o \in Orders \cup {NoOrder}}

\* The positions of the ticker as one, with the broker's quantity; the last of the list
\* stays.  Without a balance it stays as it is; without a holding too, unless no order is
\* pending and the broker confirms that there is nothing.  A holding nobody counts is
\* injected, with the pending row, the saved position or a path run for a template.
Synced ==
    IF pos.total > 0
    THEN IF bal > 0 THEN {Only(pos.by, bal)}
         ELSE {Only(pos.by, pos.qty)}
              \cup (IF bal = 0 /\ held = 0 /\ pending = {} THEN {NoPosition} ELSE {})
    ELSE IF bal <= 0 THEN {NoPosition}
    ELSE IF pending # {} THEN {Only(o, bal) : o \in {p \in pending : \A q \in pending : p <= q}}
    ELSE IF file.pos.total > 0 THEN {Only(file.pos.by, bal)}
    ELSE {Only(o, bal) : o \in Orders \cup {NoOrder}}

\* The loop over risk.positions: every entry is given the balance's quantity where it is; the
\* last of the ticker goes into the new list.
ReadPositions ==
    /\ pc = "positions"
    /\ synced' \in Synced
    /\ pos' = IF bal > 0 /\ pos.total > 0 THEN Corrected(pos, bal) ELSE pos
    /\ pc' = "assign"
    /\ UNCHANGED <<broker, row, pending, told, unknown, seen, bal, acc, todo, kept, cur, dirty,
                   closing, ws, file, history, bounds>>

\* No pending row can tell of shares already counted: its order's number is on the position,
\* or it has been told of all its order has bought.
RowsSettled == \A o \in pending : synced.by = o \/ ~Behind(row[o], o)

\* The new list takes the place of the old one, and is saved (prices and all).
AssignPositions ==
    /\ pc = "assign"
    /\ pos' = synced
    /\ file' = [file EXCEPT !.pos = synced]
    /\ pc' = "idle" /\ synced' = NoPosition /\ bal' = 0 /\ acc' = 0 /\ kept' = {} /\ dirty' = FALSE
    /\ doubt' = (IF fresh /\ (doubt = "passing" \/ RowsSettled) THEN "none" ELSE doubt)
    /\ UNCHANGED <<broker, row, pending, told, unknown, seen, todo, cur, closing, ws, fresh, torn,
                   bounds>>

\* _clear_pending_orders_for_market at session_close.
ClearPending ==
    /\ pc = "clear"
    /\ unknown' = unknown \cup pending
    /\ SavePending({}, row)
    /\ pc' = "idle" /\ closing' = FALSE
    /\ bal' = 0 /\ acc' = 0 /\ todo' = {} /\ kept' = {} /\ dirty' = FALSE
    /\ UNCHANGED <<broker, row, pos, told, seen, cur, synced, ws, history, bounds>>

\* The process dies and starts again: _restore_pending_orders, then _restore_positions, which
\* appends the saved entries, each with the broker's holding if that can be read
\* (_verify_live_positions).
Crash ==
    /\ crashes < MaxCrashes
    /\ crashes' = crashes + 1
    /\ row' = file.row
    /\ SavePending(file.pending, file.row)
    /\ pos' \in IF file.pos.total > 0 /\ held > 0
                THEN {file.pos, Corrected(file.pos, held)} ELSE {file.pos}
    /\ net' = {} /\ seen' = {}
    /\ pc' = "idle" /\ bal' = 0 /\ acc' = 0 /\ todo' = {} /\ kept' = {} /\ cur' = NoDecision
    /\ dirty' = FALSE /\ synced' = NoPosition /\ closing' = FALSE /\ ws' = NoOrder
    /\ fresh' = FALSE
    /\ doubt' = (IF pos'.entries > 1 \/ \E o \in pending' : doubt # "none" \/ Behind(row'[o], o)
                 THEN "lasting" ELSE doubt)
    /\ torn' = torn \cup {o \in file.pending : told[o] # file.row[o].accum}
    /\ UNCHANGED <<stage, filled, held, told, unknown, others, midnights, closes>>

-----------------------------------------------------------------------------
Reads == {held, -1}

LoopStep ==
    \/ \E o \in Orders : ReadRow(o) \/ (pc = "placing" /\ AddPendingOrder(o))
    \/ \E cum \in 0 .. Size \cup {-1} : Answer(cum)
    \/ SavePositions \/ RebuildPending \/ ReadPositions \/ AssignPositions \/ ClearPending

Next ==
    \/ \E o \in Orders : \/ Place(o) \/ AddPendingOrder(o) \/ Drop(o)
                         \/ \E n \in 1 .. Size : Fill(o, n)
    \/ UserBuys \/ Midnight
    \/ \E n \in net : OnFillNotice(n)
    \/ \E b \in Reads : StartSync(b) \/ StartClose(b)
    \/ LoopStep
    \/ Crash

Spec == Init /\ [][Next]_vars

\* The trading loop goes on, and again and again it can read the balance.
Fairness == WF_vars(LoopStep) /\ SF_vars(StartSync(held))

FairSpec == Spec /\ Fairness

-----------------------------------------------------------------------------
\* What remains of a pending row and what has been taken off it make the order, and what has
\* been taken off it is what PathB was told: the row is written from a reading that may be
\* old (_reconcile_pending_orders reads the quantity, waits for the broker, writes the
\* difference), so it does not hold for a row a notice has changed meanwhile, or one
\* restored from a file that is behind.
RowAddsUp ==
    \A o \in (IF Reconciling THEN pending \cap (todo \cup kept \cup {cur.order}) ELSE pending) \ torn :
        row[o].qty + row[o].accum = Size /\ told[o] = row[o].accum

\* The entries of the ticker have been given the balance's quantity, and not yet been made one.
Correcting == pc = "assign" /\ bal > 0 /\ pos.entries > 1

\* The bookkeeping of one order keeps the promises of ShareLedger: outside doubt the bot counts
\* no more than the broker holds, whatever brings the news; a synchronisation ends a doubt only
\* with as much as is held.
Ledger == INSTANCE ShareLedger WITH counted <- pos.total, doubt <- (doubt # "none" \/ Correcting)

ImplementsLedger == Ledger!Spec

\* And when the broker and the user have done, the bot comes to count every share, once.
EveryShareCounted == Ledger!AllCounted

\* No doubt is for good, that of a restart with rows left behind in the middle of a fill
\* included, if again and again the broker answers for the row that is asked about.
Heard == cur.asks /\ \E cum \in 0 .. Size : Answer(cum)
DoubtEnds == SF_vars(Heard) => Ledger!DoubtEnds
=============================================================================
