------------------------- MODULE OrderUnknown_proofs -------------------------
(***************************************************************************)
(* Proofs about the ORDER_UNKNOWN escalator for any markets, tickers,      *)
(* orders and bounds.                                                      *)
(***************************************************************************)
EXTENDS OrderUnknown, TLAPS

\* The markets the escalation should have paused and has not.
Behind(s, m) == s.consec[m] >= 2 /\ m \notin s.markets

\* State a blocks at least what state b blocks.
Covers(a, b) == b.tickers \subseteq a.tickers /\ b.markets \subseteq a.markets /\ (b.halt => a.halt)

\* What the history says: while one thread is alone all others are idle, and as long as
\* no operations have crossed, whoever is inside one is alone.  What a lone thread is
\* about to write is the memory, and nobody else has the file open.
SoloInv ==
    /\ solo # "none" => Alone(solo)
    /\ ~crossed => \A th \in Threads : pc[th] # "idle" => solo = th
    /\ \A th \in Threads : solo = th =>
        /\ pc[th] = "dump" => /\ snap[th].consec = mem.consec
                              /\ snap[th].halt = mem.halt
                              /\ snap[th].orders = mem.orders
        /\ pc[th] = "write" => snap[th] = mem /\ torn

\* Inductive invariant of EscalationHeld: between operations no market is behind; inside
\* one, only the market the trading loop is about to pause or to reset, or any of them
\* while /resume has emptied the markets and not yet the counters.  A file written by
\* operations that did not cross is not behind; and a /resume that runs alone saves
\* empty counters.
EscalationInv ==
    /\ ~lost => \A m \in Markets : Behind(mem, m) =>
            \/ pc["tg"] = "counts"
            \/ pc["main"] \in {"escalate", "second", "reset"} /\ cur["main"].market = m
    /\ ~lost /\ ~crossed => \A m \in Markets : ~ Behind(disk, m)
    /\ solo = "tg" /\ pc["tg"] \in {"unhalt", "save", "dump", "write"} =>
            \A m \in Markets : mem.consec[m] = 0

\* Inductive invariant of RestartKeepsBlocks: as long as no operations have crossed, an
\* operation that has not yet saved is on its way to save, except a session-open
\* clearing that found nothing to examine, which only removes blocks.
RestartInv ==
    /\ pc["main"] = "bump" => cur["main"].count >= 1
    /\ pc["main"] = "examine" /\ ~cur["main"].checked => cur["main"].todo = {} /\ ~cur["main"].kept
    /\ pc["main"] \in {"repause", "lift"} => cur["main"].checked
    /\ ~crossed =>
        /\ pc["main"] = "escalate" => mem.consec[cur["main"].market] >= 1
        /\ \/ Idle
           \/ pc["main"] \in {"examine", "reset", "drop"} /\ ~cur["main"].checked
           => Covers(disk, mem)

-----------------------------------------------------------------------------
\* The empty state is a state.
LEMMA BlankType == Blank \in States
  BY DEF Blank, States, Absent

\* A part of a state replaced by one of its type leaves a state.
LEMMA PartsType ==
  ASSUME NEW s \in States
  PROVE  /\ \A ts \in SUBSET Tickers : [s EXCEPT !.tickers = ts] \in States
         /\ \A ms \in SUBSET Markets : [s EXCEPT !.markets = ms] \in States
         /\ \A os \in [Orders -> Unresolved \cup Resolved \cup {Absent}] : [s EXCEPT !.orders = os] \in States
         /\ s.tickers \subseteq Tickers /\ s.markets \subseteq Markets
         /\ s.orders \in [Orders -> Unresolved \cup Resolved \cup {Absent}]
  BY DEF States

\* The locals of an operation are well typed.
LEMMA LocalsType ==
  /\ NoLocals \in Locals
  /\ \A t \in Tickers, o \in Orders \cup {NoOrder} : About(t, o) \in Locals
<1>1. \A t \in Tickers, o \in Orders \cup {NoOrder} : About(t, o) \in Locals
  BY MapsAssumption DEF About, Locals
<1>2. AnyTicker \in Tickers
  BY MarketsAssumption, Zenon DEF AnyTicker
<1> QED BY <1>1, <1>2 DEF NoLocals

\* An operation that starts keeps the types, if what it puts into memory has its type.
LEMMA BeginType ==
  ASSUME TypeOK, NEW th \in Threads, NEW l \in Locals, NEW label \in Labels,
         Begin(th, l, label), mem' \in States, cancelAsked' \subseteq Orders
  PROVE  TypeOK'
  BY DEF TypeOK, Begin

\* So does a step inside an operation.
LEMMA StepType ==
  ASSUME TypeOK, NEW th \in Threads, NEW from, NEW to \in Labels,
         Step(th, from, to), mem' \in States, cur' \in [Threads -> Locals]
  PROVE  TypeOK'
  BY DEF TypeOK, Step

\* The steps that forget a thread's locals, or leave them alone, keep their type.
LEMMA CurType ==
  ASSUME TypeOK, NEW th \in Threads, cur' = cur \/ Forget(th)
  PROVE  cur' \in [Threads -> Locals]
  BY LocalsType DEF TypeOK, Forget

-----------------------------------------------------------------------------
\* TypeOK of OrderUnknown: every variable stays within its type, for any number of
\* markets, tickers and orders and whatever the three threads interleave.
THEOREM TypeCorrect == Spec => []TypeOK
<1>1. Init => TypeOK
  <2> SUFFICES ASSUME Init PROVE TypeOK
    OBVIOUS
  <2>1. Blank \in States /\ NoLocals \in Locals
    BY BlankType, LocalsType
  <2>2. pc \in [Threads -> Labels] /\ ops \in [Threads -> Nat]
    BY DEF Init, Labels
  <2>3. cur \in [Threads -> Locals] /\ snap \in [Threads -> States]
    BY <2>1 DEF Init
  <2> QED BY <2>1, <2>2, <2>3 DEF Init, TypeOK
<1>2. TypeOK /\ [Next]_vars => TypeOK'
  <2> SUFFICES ASSUME TypeOK, [Next]_vars PROVE TypeOK'
    OBVIOUS
  <2>0. /\ mem \in States /\ cur \in [Threads -> Locals] /\ snap \in [Threads -> States]
        /\ Blank \in States /\ NoLocals \in Locals /\ "main" \in Threads /\ "tg" \in Threads
        /\ \A th \in Threads : /\ cur[th].ticker \in Tickers /\ cur[th].market \in Markets
                               /\ cur[th].count \in Nat /\ cur[th].todo \subseteq Tickers
                               /\ cur[th].order \in Orders \cup {NoOrder}
                               /\ cur[th].checked \in BOOLEAN /\ cur[th].kept \in BOOLEAN
    BY BlankType, LocalsType DEF TypeOK, Threads, Locals
  <2>1. ASSUME NEW t \in Tickers, NEW o \in Orders \cup {NoOrder}, RecordUnknown(t, o)
        PROVE  TypeOK'
    <3>1. mem' \in States
      BY <2>0, <2>1 DEF RecordUnknown, States
    <3>2. About(t, o) \in Locals
      BY LocalsType
    <3>3. (IF o = NoOrder THEN "count" ELSE "enter") \in Labels
      BY DEF Labels
    <3>4. cancelAsked' \subseteq Orders
      BY <2>1 DEF RecordUnknown, TypeOK
    <3> QED BY <2>0, <2>1, <3>1, <3>2, <3>3, <3>4, BeginType DEF RecordUnknown
  <2>2. CASE EnterUnknown
    <3>1. mem' \in States
      BY <2>0, <2>2 DEF EnterUnknown, States, Unresolved
    <3> QED BY <2>0, <2>2, <3>1, StepType DEF EnterUnknown, Labels
  <2>3. CASE ReadCount
    <3>1. mem.consec[cur["main"].market] + 1 \in Nat
      BY <2>0 DEF States
    <3>2. cur' \in [Threads -> Locals]
      BY <2>0, <2>3, <3>1 DEF ReadCount, Locals
    <3> QED BY <2>0, <2>3, <3>2, StepType DEF ReadCount, Labels
  <2>4. CASE Bump
    <3>1. mem' \in States
      BY <2>0, <2>4 DEF Bump, States
    <3> QED BY <2>0, <2>4, <3>1, StepType DEF Bump, Labels
  <2>5. CASE Escalate
    <3>1. mem' = mem
      BY <2>5 DEF Escalate
    <3>2. cur' \in [Threads -> Locals]
      BY <2>0, <2>5, CurType DEF Escalate
    <3> QED BY <2>0, <2>5, <3>1, <3>2, StepType DEF Escalate, Labels
  <2>5a. CASE PauseSecond
    <3>0. mem' = [mem EXCEPT !.markets = @ \cup {cur["main"].market}]
      BY <2>5a DEF PauseSecond
    <3>a. mem.markets \cup {cur["main"].market} \in SUBSET Markets
      BY <2>0, PartsType
    <3>1. mem' \in States
      BY <2>0, <3>0, <3>a, PartsType
    <3>2. cur' \in [Threads -> Locals]
      BY <2>0, <2>5a, CurType DEF PauseSecond
    <3> QED BY <2>0, <2>5a, <3>1, <3>2, StepType DEF PauseSecond, Labels
  <2>6. CASE TestAllPaused
    <3>1. (IF mem.markets = Markets THEN "halt" ELSE "save") \in Labels
      BY DEF Labels
    <3> QED BY <2>0, <2>6, <3>1, StepType DEF TestAllPaused
  <2>7. CASE Halt
    <3>1. mem' \in States
      BY <2>0, <2>7 DEF Halt, States
    <3> QED BY <2>0, <2>7, <3>1, StepType DEF Halt, Labels
  <2>8. ASSUME NEW m \in Markets, AutoClear(m)
        PROVE  TypeOK'
    <3> DEFINE l == [NoLocals EXCEPT !.market = m, !.todo = Examined(m), !.checked = Examined(m) # {}]
    <3>1. l \in Locals
      BY <2>0 DEF Locals, Examined
    <3>2. Begin("main", l, "examine") /\ mem' = mem /\ cancelAsked' = cancelAsked
      BY <2>8 DEF AutoClear
    <3> HIDE DEF l
    <3> QED BY <2>0, <3>1, <3>2, BeginType DEF Labels, TypeOK
  <2>9. ASSUME NEW t \in Tickers, NEW open \in 0..2, NEW held \in BOOLEAN, ClearOrders(t, open, held)
        PROVE  TypeOK'
    <3> DEFINE verdict == Verdict(open, held)
    <3>1. verdict \in {"KEPT_UNRESOLVED", "RESTORED_TO_PENDING", "RESTORED_TO_POSITION",
                       "AUTO_CLEARED_NO_BROKER_EVIDENCE"}
      BY DEF Verdict
    <3>2. cur' = [cur EXCEPT !["main"].todo = @ \ {t}, !["main"].ticker = t,
                             !["main"].kept = @ \/ verdict = "KEPT_UNRESOLVED"]
      BY <2>9 DEF ClearOrders
    <3>3. cur' \in [Threads -> Locals]
      <4> DEFINE l == [cur["main"] EXCEPT !.todo = @ \ {t}, !.ticker = t,
                                          !.kept = @ \/ verdict = "KEPT_UNRESOLVED"]
      <4>1. cur["main"].todo \ {t} \subseteq Tickers
            /\ (cur["main"].kept \/ verdict = "KEPT_UNRESOLVED") \in BOOLEAN
        BY <2>0
      <4>2. cur["main"] \in Locals
        BY <2>0
      <4>3. l \in Locals
        BY <4>1, <4>2 DEF Locals
      <4>4. cur' = [cur EXCEPT !["main"] = l]
        BY <2>0, <3>2 DEF Locals
      <4> HIDE DEF l
      <4> QED BY <2>0, <4>3, <4>4
    <3>4. verdict # "KEPT_UNRESOLVED" => verdict \in Resolved
      BY <3>1 DEF Resolved
    <3>5. \/ verdict = "KEPT_UNRESOLVED" /\ mem' = mem
          \/ /\ verdict # "KEPT_UNRESOLVED"
             /\ mem' = [mem EXCEPT !.orders =
                            [o \in Orders |-> IF TickerOf[o] = t /\ @[o] \in Unresolved
                                              THEN verdict ELSE @[o]]]
      BY <2>9 DEF ClearOrders
    <3>6. \E to \in Labels : Step("main", "examine", to)
      BY <2>9 DEF ClearOrders, Labels
    <3> DEFINE orders1 == [o \in Orders |-> IF TickerOf[o] = t /\ mem.orders[o] \in Unresolved
                                           THEN verdict ELSE mem.orders[o]]
    <3> HIDE DEF verdict
    <3>7. mem' \in States
      <4>1. CASE verdict = "KEPT_UNRESOLVED"
        BY <2>0, <3>5, <4>1
      <4>2. CASE verdict # "KEPT_UNRESOLVED"
        <5>1. mem.orders \in [Orders -> Unresolved \cup Resolved \cup {Absent}]
          BY <2>0 DEF States
        <5>2. orders1 \in [Orders -> Unresolved \cup Resolved \cup {Absent}]
          BY <3>4, <4>2, <5>1
        <5>3. mem' = [mem EXCEPT !.orders = orders1]
          BY <3>5, <4>2
        <5> HIDE DEF orders1
        <5> QED BY <2>0, <5>2, <5>3 DEF States
      <4> QED BY <4>1, <4>2
    <3> QED BY <2>0, <3>3, <3>6, <3>7, StepType
  <2>10. ASSUME NEW t \in Tickers, ClearFails(t)
         PROVE  TypeOK'
    <3>1. cur' \in [Threads -> Locals]
      BY <2>0, <2>10 DEF ClearFails, Locals
    <3> QED BY <2>0, <2>10, <3>1, StepType DEF ClearFails, Labels
  <2>11. CASE ClearTicker
    <3>0. \/ mem' = [mem EXCEPT !.tickers = @ \cup {cur["main"].ticker}]
          \/ mem' = [mem EXCEPT !.tickers = @ \ {cur["main"].ticker}]
      BY <2>11 DEF ClearTicker
    <3>a. mem.tickers \cup {cur["main"].ticker} \in SUBSET Tickers
          /\ mem.tickers \ {cur["main"].ticker} \in SUBSET Tickers
      BY <2>0, PartsType
    <3>1. mem' \in States
      BY <2>0, <3>0, <3>a, PartsType
    <3> QED BY <2>0, <2>11, <3>1, StepType DEF ClearTicker, Labels
  <2>12. CASE LiftMarket
    <3>1. mem' \in States
      BY <2>0, <2>12 DEF LiftMarket, States
    <3> QED BY <2>0, <2>12, <3>1, StepType DEF LiftMarket, Labels
  <2>13. CASE KeepMarket
    BY <2>0, <2>13, StepType DEF KeepMarket, Labels
  <2>14. CASE ResetCount
    <3>1. mem' \in States
      BY <2>0, <2>14 DEF ResetCount, States
    <3> QED BY <2>0, <2>14, <3>1, StepType DEF ResetCount, Labels
  <2>15. CASE DropHalt
    <3>1. mem' \in States
      BY <2>0, <2>15 DEF DropHalt, States
    <3>2. cur' \in [Threads -> Locals]
      BY <2>0, <2>15, CurType DEF DropHalt
    <3>3. (IF cur["main"].checked THEN "save" ELSE "idle") \in Labels
      BY DEF Labels
    <3> QED BY <2>0, <2>15, <3>1, <3>2, <3>3, StepType DEF DropHalt
  <2>16. ASSUME NEW th \in {"main", "ws"}, MainOrWebSocket(th)
         PROVE  TypeOK'
    <3>0. th \in Threads
      BY DEF Threads
    <3>1. ASSUME NEW o \in Orders, \/ RecordBrokerOpenOrder(th, o)
                                   \/ RecordCancelRequested(th, o)
                                   \/ RecordCancelResolved(th, o)
          PROVE  TypeOK'
      <4>1. About(TickerOf[o], o) \in Locals
        BY LocalsType, MapsAssumption
      <4>2. \E label \in {"pause_both", "pause", "unpause"} : Begin(th, About(TickerOf[o], o), label)
        BY <3>1 DEF RecordBrokerOpenOrder, RecordCancelRequested, RecordCancelResolved
      <4>3. mem' \in States
        <5>1. \E r \in Unresolved \cup Resolved \cup {Absent} : mem' = [mem EXCEPT !.orders[o] = r]
          BY <3>1 DEF RecordBrokerOpenOrder, RecordCancelRequested, RecordCancelResolved,
                      Unresolved, Resolved
        <5>2. PICK r \in Unresolved \cup Resolved \cup {Absent} : mem' = [mem EXCEPT !.orders[o] = r]
          BY <5>1
        <5>3. [mem.orders EXCEPT ![o] = r] \in [Orders -> Unresolved \cup Resolved \cup {Absent}]
          BY <2>0, PartsType
        <5>4. mem' = [mem EXCEPT !.orders = [mem.orders EXCEPT ![o] = r]]
          BY <2>0, <5>2 DEF States
        <5> QED BY <2>0, <5>3, <5>4, PartsType
      <4>4. cancelAsked' \subseteq Orders
        BY <3>1 DEF RecordBrokerOpenOrder, RecordCancelRequested, RecordCancelResolved, TypeOK
      <4> QED BY <3>0, <4>1, <4>2, <4>3, <4>4, BeginType DEF Labels
    <3>2. ASSUME NEW t \in Tickers, RecordDuplicateOpenOrders(th, t)
          PROVE  TypeOK'
      <4>1. About(t, NoOrder) \in Locals
        BY LocalsType
      <4>2. mem' \in States /\ cancelAsked' \subseteq Orders
        BY <2>0, <3>2 DEF RecordDuplicateOpenOrders, States, TypeOK
      <4> QED BY <3>0, <3>2, <4>1, <4>2, BeginType DEF RecordDuplicateOpenOrders, Labels
    <3>3. CASE PauseTicker(th)
      <4>1. mem' \in States
        BY <2>0, <3>0, <3>3 DEF PauseTicker, States
      <4> QED BY <2>0, <3>0, <3>3, <4>1, StepType DEF PauseTicker, Labels
    <3>4. CASE PauseMarket(th)
      <4>1. mem' \in States
        BY <2>0, <3>0, <3>4 DEF PauseMarket, States
      <4> QED BY <2>0, <3>0, <3>4, <4>1, StepType DEF PauseMarket, Labels
    <3>5. CASE UnpauseTicker(th)
      <4>1. mem' \in States
        BY <2>0, <3>0, <3>5 DEF UnpauseTicker, States
      <4> QED BY <2>0, <3>0, <3>5, <4>1, StepType DEF UnpauseTicker, Labels
    <3> QED BY <2>16, <3>1, <3>2, <3>3, <3>4, <3>5 DEF MainOrWebSocket
  <2>17. CASE ResumeMarkets
    <3>1. mem' \in States /\ cancelAsked' \subseteq Orders
      BY <2>0, <2>17 DEF ResumeMarkets, States, TypeOK
    <3> QED BY <2>0, <2>17, <3>1, BeginType DEF ResumeMarkets, Labels
  <2>18. CASE ResumeCounts
    <3>1. mem' \in States
      BY <2>0, <2>18 DEF ResumeCounts, States
    <3> QED BY <2>0, <2>18, <3>1, StepType DEF ResumeCounts, Labels
  <2>19. CASE ResumeHalt
    <3>1. mem' \in States
      BY <2>0, <2>19 DEF ResumeHalt, States
    <3> QED BY <2>0, <2>19, <3>1, StepType DEF ResumeHalt, Labels
  <2>20. ASSUME NEW th \in Threads, SaveDump(th)
         PROVE  TypeOK'
    <3>1. cur' \in [Threads -> Locals]
      BY <2>20, CurType DEF SaveDump
    <3> QED BY <2>0, <2>20, <3>1 DEF SaveDump, TypeOK, Labels
  <2>21. ASSUME NEW th \in Threads, SaveOpen(th)
         PROVE  TypeOK'
    <3>1. snap' \in [Threads -> States]
      BY <2>0, <2>21 DEF SaveOpen, States
    <3> QED BY <2>0, <2>21, <3>1 DEF SaveOpen, TypeOK, Labels
  <2>22. ASSUME NEW th \in Threads, SaveWrite(th)
         PROVE  TypeOK'
    <3>1. snap' \in [Threads -> States] /\ snap[th] \in States
      BY <2>0, <2>22 DEF SaveWrite
    <3>2. disk' \in States /\ torn' \in BOOLEAN
      BY <2>0, <2>22, <3>1 DEF SaveWrite
    <3>3. pc' \in [Threads -> Labels]
      BY <2>22 DEF SaveWrite, TypeOK, Labels
    <3>4. solo' \in Threads \cup {"none"} /\ crossed' \in BOOLEAN /\ lost' \in BOOLEAN
      BY <2>22 DEF SaveWrite, TypeOK
    <3> QED BY <2>22, <3>1, <3>2, <3>3, <3>4 DEF SaveWrite, TypeOK
  <2>23. CASE Crash
    <3>1. pc' \in [Threads -> Labels]
      BY <2>23 DEF Crash, Labels
    <3>2. cur' \in [Threads -> Locals] /\ snap' \in [Threads -> States]
      BY <2>0, <2>23 DEF Crash
    <3>3. mem' \in States /\ crashes' \in Nat
      BY <2>23 DEF Crash, TypeOK
    <3>4. crossed' \in BOOLEAN /\ lost' \in BOOLEAN
      BY <2>23 DEF Crash, TypeOK
    <3> QED BY <2>23, <3>1, <3>2, <3>3, <3>4 DEF Crash, TypeOK
  <2>24. CASE UNCHANGED vars
    BY <2>24 DEF vars, TypeOK
  <2>25. CASE Main
    BY <2>25, <2>1, <2>2, <2>3, <2>4, <2>5, <2>5a, <2>6, <2>7, <2>8, <2>9, <2>10, <2>11,
       <2>12, <2>13, <2>14, <2>15 DEF Main
  <2>26. CASE Telegram
    BY <2>26, <2>17, <2>18, <2>19 DEF Telegram
  <2>27. ASSUME NEW th \in Threads, Save(th)
         PROVE  TypeOK'
    BY <2>27, <2>20, <2>21, <2>22 DEF Save
  <2> QED
    BY <2>16, <2>23, <2>24, <2>25, <2>26, <2>27 DEF Next, Done
<1>3. QED BY <1>1, <1>2, PTL DEF Spec

-----------------------------------------------------------------------------
(* The steps, as far as the history can tell them apart. *)

\* What starting an operation does besides choosing its locals.
Begun(th, label) ==
    /\ pc[th] = "idle"
    /\ pc' = [pc EXCEPT ![th] = label]
    /\ solo' = IF Alone(th) THEN th ELSE "none"
    /\ crossed' = (crossed \/ ~Alone(th))
    /\ UNCHANGED <<disk, torn, snap, crashes, lost>>

\* A step either starts an operation, goes on inside one before its save, belongs to a
\* save, or is a crash.
LEMMA StepKinds ==
  ASSUME [Next]_vars
  PROVE  \/ \E th \in Threads, label \in Labels \ {"idle", "dump", "write"} : Begun(th, label)
         \/ \E th \in Threads, from \in Labels \ {"idle", "save", "dump", "write"},
               to \in Labels \ {"dump", "write"} : Step(th, from, to)
         \/ \E th \in Threads : Save(th)
         \/ Crash
         \/ UNCHANGED vars
<1> USE DEF Labels, Threads
<1> DEFINE begins == \E th \in Threads, label \in Labels \ {"idle", "dump", "write"} : Begun(th, label)
           steps == \E th \in Threads, from \in Labels \ {"idle", "save", "dump", "write"},
                       to \in Labels \ {"dump", "write"} : Step(th, from, to)
<1>1. ASSUME Main PROVE begins \/ steps
  <2>1. ASSUME NEW t \in Tickers, NEW o \in Orders \cup {NoOrder}, RecordUnknown(t, o)
        PROVE  begins
    <3>1. Begun("main", "count") \/ Begun("main", "enter")
      BY <2>1 DEF RecordUnknown, Begin, Begun
    <3> QED BY <3>1
  <2>2. ASSUME EnterUnknown \/ ReadCount \/ Bump PROVE steps
    BY <2>2 DEF EnterUnknown, ReadCount, Bump
  <2>3. ASSUME Escalate \/ PauseSecond PROVE steps
    BY <2>3 DEF Escalate, PauseSecond
  <2>4. ASSUME TestAllPaused PROVE steps
    <3>1. Step("main", "test", "halt") \/ Step("main", "test", "save")
      BY <2>4 DEF TestAllPaused
    <3> QED BY <3>1
  <2>5. ASSUME Halt \/ KeepMarket \/ LiftMarket \/ ResetCount PROVE steps
    BY <2>5 DEF Halt, KeepMarket, LiftMarket, ResetCount
  <2>6. ASSUME NEW m \in Markets, AutoClear(m) PROVE begins
    BY <2>6 DEF AutoClear, Begin, Begun
  <2>7. ASSUME NEW t \in Tickers, NEW open \in 0..2, NEW held \in BOOLEAN, ClearOrders(t, open, held)
        PROVE  steps
    <3>1. \/ Step("main", "examine", "examine") \/ Step("main", "examine", "repause")
          \/ Step("main", "examine", "lift")
      BY <2>7 DEF ClearOrders
    <3> QED BY <3>1
  <2>8. ASSUME NEW t \in Tickers, ClearFails(t) PROVE steps
    BY <2>8 DEF ClearFails
  <2>9. ASSUME ClearTicker PROVE steps
    BY <2>9 DEF ClearTicker
  <2>10. ASSUME DropHalt PROVE steps
    <3>1. Step("main", "drop", "save") \/ Step("main", "drop", "idle")
      BY <2>10 DEF DropHalt
    <3> QED BY <3>1
  <2> HIDE DEF begins, steps
  <2> QED BY <1>1, <2>1, <2>2, <2>3, <2>4, <2>5, <2>6, <2>7, <2>8, <2>9, <2>10 DEF Main
<1>2. ASSUME NEW th \in {"main", "ws"}, MainOrWebSocket(th) PROVE begins \/ steps
  <2>1. ASSUME NEW o \in Orders, \/ RecordBrokerOpenOrder(th, o)
                                 \/ RecordCancelRequested(th, o)
                                 \/ RecordCancelResolved(th, o)
        PROVE  begins
    BY <2>1 DEF RecordBrokerOpenOrder, RecordCancelRequested, RecordCancelResolved, Begin, Begun
  <2>2. ASSUME NEW t \in Tickers, RecordDuplicateOpenOrders(th, t) PROVE begins
    BY <2>2 DEF RecordDuplicateOpenOrders, Begin, Begun
  <2>3. ASSUME PauseTicker(th) \/ PauseMarket(th) \/ UnpauseTicker(th) PROVE steps
    BY <2>3 DEF PauseTicker, PauseMarket, UnpauseTicker
  <2> HIDE DEF begins, steps
  <2> QED BY <1>2, <2>1, <2>2, <2>3 DEF MainOrWebSocket
<1>3. ASSUME Telegram PROVE begins \/ steps
  <2>1. ResumeMarkets => begins
    BY DEF ResumeMarkets, Begin, Begun
  <2>2. ResumeCounts \/ ResumeHalt => steps
    BY DEF ResumeCounts, ResumeHalt
  <2> QED BY <1>3, <2>1, <2>2 DEF Telegram
<1> HIDE DEF begins, steps
<1>4. begins \/ steps \/ (\E th \in Threads : Save(th)) \/ Crash \/ UNCHANGED vars
  BY <1>1, <1>2, <1>3 DEF Next, Done
<1> QED BY <1>4 DEF begins, steps

\* Every step preserves what the history says.
LEMMA SoloStep == TypeOK /\ SoloInv /\ [Next]_vars => SoloInv'
<1> SUFFICES ASSUME TypeOK, SoloInv, [Next]_vars PROVE SoloInv'
  OBVIOUS
<1>0. /\ pc \in [Threads -> Labels] /\ solo \in Threads \cup {"none"} /\ "none" \notin Threads
      /\ snap \in [Threads -> States] /\ mem \in States
  BY DEF TypeOK, Threads
<1>1. ASSUME NEW th \in Threads, NEW label \in Labels \ {"idle", "dump", "write"}, Begun(th, label)
      PROVE  SoloInv'
  <2>1. pc' = [pc EXCEPT ![th] = label] /\ pc[th] = "idle"
    BY <1>1 DEF Begun
  <2>2. CASE Alone(th)
    <3>1. solo' = th /\ Alone(th)' /\ pc'[th] \notin {"dump", "write"}
      BY <1>0, <1>1, <2>1, <2>2 DEF Begun, Alone
    <3>2. \A u \in Threads : pc'[u] # "idle" => u = th
      BY <3>1 DEF Alone
    <3> QED BY <1>0, <3>1, <3>2 DEF SoloInv
  <2>3. CASE ~Alone(th)
    <3>1. solo' = "none" /\ crossed' = TRUE
      BY <1>1, <2>3 DEF Begun
    <3> QED BY <1>0, <3>1 DEF SoloInv
  <2> QED BY <2>2, <2>3
<1>2. ASSUME NEW th \in Threads, NEW from \in Labels \ {"idle", "save", "dump", "write"},
             NEW to \in Labels \ {"dump", "write"}, Step(th, from, to)
      PROVE  SoloInv'
  <2>1. /\ pc[th] = from /\ pc' = [pc EXCEPT ![th] = to]
        /\ solo' = solo /\ crossed' = crossed /\ snap' = snap
    BY <1>2 DEF Step
  <2>2. solo \in {"none", th}
    BY <1>0, <2>1 DEF SoloInv, Alone
  <2>3. solo' # "none" => \A u \in Threads \ {solo'} : pc'[u] = "idle"
    BY <1>0, <2>1, <2>2 DEF SoloInv, Alone
  <2>4. ~crossed' => \A u \in Threads : pc'[u] # "idle" => solo' = u
    BY <1>0, <2>1 DEF SoloInv
  <2>5. pc'[th] \notin {"dump", "write"}
    BY <1>0, <2>1
  <2> QED BY <1>0, <2>1, <2>2, <2>3, <2>4, <2>5 DEF SoloInv, Alone
<1>3. ASSUME NEW th \in Threads, SaveDump(th)
      PROVE  SoloInv'
  <2>1. /\ pc[th] = "save" /\ pc' = [pc EXCEPT ![th] = "dump"] /\ snap' = [snap EXCEPT ![th] = mem]
        /\ solo' = solo /\ crossed' = crossed /\ mem' = mem
    BY <1>3 DEF SaveDump
  <2>2. solo \in {"none", th}
    BY <1>0, <2>1 DEF SoloInv, Alone
  <2>3. solo' # "none" => \A u \in Threads \ {solo'} : pc'[u] = "idle"
    BY <1>0, <2>1, <2>2 DEF SoloInv, Alone
  <2>4. ~crossed' => \A u \in Threads : pc'[u] # "idle" => solo' = u
    BY <1>0, <2>1 DEF SoloInv
  <2>5. pc'[th] = "dump" /\ snap'[th] = mem'
    BY <1>0, <2>1
  <2> QED BY <1>0, <2>1, <2>2, <2>3, <2>4, <2>5 DEF SoloInv, Alone
<1>4. ASSUME NEW th \in Threads, SaveOpen(th)
      PROVE  SoloInv'
  <2>1. /\ pc[th] = "dump" /\ pc' = [pc EXCEPT ![th] = "write"]
        /\ snap' = [snap EXCEPT ![th].markets = mem.markets, ![th].tickers = mem.tickers]
        /\ solo' = solo /\ crossed' = crossed /\ mem' = mem /\ torn' = TRUE
    BY <1>4 DEF SaveOpen
  <2>2. solo \in {"none", th}
    BY <1>0, <2>1 DEF SoloInv, Alone
  <2>3. solo' # "none" => \A u \in Threads \ {solo'} : pc'[u] = "idle"
    BY <1>0, <2>1, <2>2 DEF SoloInv, Alone
  <2>4. ~crossed' => \A u \in Threads : pc'[u] # "idle" => solo' = u
    BY <1>0, <2>1 DEF SoloInv
  <2>5. solo = th => snap'[th] = mem
    <3>1. snap'[th] = [snap[th] EXCEPT !.markets = mem.markets, !.tickers = mem.tickers]
      BY <1>0, <2>1
    <3>2. solo = th => /\ snap[th].consec = mem.consec
                       /\ snap[th].halt = mem.halt
                       /\ snap[th].orders = mem.orders
      BY <2>1 DEF SoloInv
    <3> QED BY <1>0, <3>1, <3>2 DEF States
  <2>6. pc'[th] = "write"
    BY <1>0, <2>1
  <2> QED BY <1>0, <2>1, <2>2, <2>3, <2>4, <2>5, <2>6 DEF SoloInv, Alone
<1>5. ASSUME NEW th \in Threads, SaveWrite(th)
      PROVE  SoloInv'
  <2>1. /\ pc[th] = "write" /\ pc' = [pc EXCEPT ![th] = "idle"]
        /\ solo' = IF solo = th THEN "none" ELSE solo
        /\ crossed' = (crossed /\ solo # th) /\ mem' = mem
    BY <1>5 DEF SaveWrite
  <2>2. solo \in {"none", th} /\ solo' = "none"
    BY <1>0, <2>1 DEF SoloInv, Alone
  <2>3. ~crossed' => solo = th
    BY <1>0, <2>1 DEF SoloInv
  <2>4. ~crossed' => \A u \in Threads : pc'[u] = "idle"
    BY <1>0, <2>1, <2>3 DEF SoloInv, Alone
  <2> QED BY <1>0, <2>2, <2>4 DEF SoloInv
<1>6. CASE Crash
  <2>1. solo' = "none" /\ \A u \in Threads : pc'[u] = "idle"
    BY <1>6 DEF Crash
  <2> QED BY <1>0, <2>1 DEF SoloInv
<1>7. CASE UNCHANGED vars
  BY <1>7 DEF vars, SoloInv, Alone
<1> QED BY <1>1, <1>2, <1>3, <1>4, <1>5, <1>6, <1>7, StepKinds DEF Save

-----------------------------------------------------------------------------
\* What the operations that start do to what the escalation is about.
LEMMA StartStep ==
  ASSUME TypeOK,
         \/ \E t \in Tickers, o \in Orders \cup {NoOrder} : RecordUnknown(t, o)
         \/ \E m \in Markets : AutoClear(m)
         \/ \E th \in {"main", "ws"} :
               \/ \E o \in Orders : \/ RecordBrokerOpenOrder(th, o)
                                    \/ RecordCancelRequested(th, o)
                                    \/ RecordCancelResolved(th, o)
               \/ \E t \in Tickers : RecordDuplicateOpenOrders(th, t)
  PROVE  /\ mem'.consec = mem.consec /\ mem'.markets = mem.markets /\ mem'.halt = mem.halt
         /\ \E th \in {"main", "ws"}, label \in Labels \ {"idle", "dump", "write", "escalate", "second", "reset",
                                                         "drop", "bump", "repause", "lift"} :
                /\ Begun(th, label)
                /\ cur' = [cur EXCEPT ![th] = cur'[th]]
                /\ label = "examine" =>
                      /\ th = "main" /\ mem' = mem
                      /\ ~cur'["main"].checked => cur'["main"].todo = {} /\ ~cur'["main"].kept
<1> USE DEF Labels
<1>0. mem \in States /\ cur \in [Threads -> Locals] /\ {"main", "ws"} \subseteq Threads /\ NoLocals \in Locals
  BY LocalsType DEF TypeOK, Threads
<1>1. ASSUME NEW t \in Tickers, NEW o \in Orders \cup {NoOrder}, RecordUnknown(t, o)
      PROVE  /\ mem'.consec = mem.consec /\ mem'.markets = mem.markets /\ mem'.halt = mem.halt
             /\ Begun("main", "count") \/ Begun("main", "enter")
             /\ cur' = [cur EXCEPT !["main"] = cur'["main"]]
  <2>1. mem'.consec = mem.consec /\ mem'.markets = mem.markets /\ mem'.halt = mem.halt
    BY <1>0, <1>1 DEF RecordUnknown, States
  <2>2. cur' = [cur EXCEPT !["main"] = cur'["main"]]
    BY <1>0, <1>1 DEF RecordUnknown, Begin
  <2> QED BY <1>1, <2>1, <2>2 DEF RecordUnknown, Begin, Begun
<1>2. ASSUME NEW m \in Markets, AutoClear(m)
      PROVE  /\ mem' = mem /\ Begun("main", "examine")
             /\ cur' = [cur EXCEPT !["main"] = cur'["main"]]
             /\ ~cur'["main"].checked => cur'["main"].todo = {} /\ ~cur'["main"].kept
  <2> DEFINE l == [NoLocals EXCEPT !.market = m, !.todo = Examined(m), !.checked = Examined(m) # {}]
  <2>1. mem' = mem /\ Begun("main", "examine") /\ cur' = [cur EXCEPT !["main"] = l]
    BY <1>2 DEF AutoClear, Begin, Begun
  <2>2. l.checked = (Examined(m) # {}) /\ l.todo = Examined(m) /\ l.kept = FALSE
    BY <1>0 DEF NoLocals, About
  <2> HIDE DEF l
  <2>3. cur'["main"] = l
    BY <1>0, <2>1
  <2> QED BY <2>1, <2>2, <2>3
<1>3. ASSUME NEW th \in {"main", "ws"}, NEW o \in Orders, \/ RecordBrokerOpenOrder(th, o)
                                                         \/ RecordCancelRequested(th, o)
                                                         \/ RecordCancelResolved(th, o)
      PROVE  /\ mem'.consec = mem.consec /\ mem'.markets = mem.markets /\ mem'.halt = mem.halt
             /\ Begun(th, "pause_both") \/ Begun(th, "pause") \/ Begun(th, "unpause")
             /\ cur' = [cur EXCEPT ![th] = cur'[th]]
  <2>1. mem'.consec = mem.consec /\ mem'.markets = mem.markets /\ mem'.halt = mem.halt
    BY <1>0, <1>3 DEF RecordBrokerOpenOrder, RecordCancelRequested, RecordCancelResolved, States
  <2>2. cur' = [cur EXCEPT ![th] = cur'[th]]
    BY <1>0, <1>3 DEF RecordBrokerOpenOrder, RecordCancelRequested, RecordCancelResolved, Begin
  <2> QED BY <1>3, <2>1, <2>2 DEF RecordBrokerOpenOrder, RecordCancelRequested,
                                  RecordCancelResolved, Begin, Begun
<1>4. ASSUME NEW th \in {"main", "ws"}, NEW t \in Tickers, RecordDuplicateOpenOrders(th, t)
      PROVE  /\ mem'.consec = mem.consec /\ mem'.markets = mem.markets /\ mem'.halt = mem.halt
             /\ Begun(th, "market")
             /\ cur' = [cur EXCEPT ![th] = cur'[th]]
  <2>1. mem'.consec = mem.consec /\ mem'.markets = mem.markets /\ mem'.halt = mem.halt
    BY <1>0, <1>4 DEF RecordDuplicateOpenOrders, States
  <2>2. cur' = [cur EXCEPT ![th] = cur'[th]]
    BY <1>0, <1>4 DEF RecordDuplicateOpenOrders, Begin
  <2> QED BY <1>4, <2>1, <2>2 DEF RecordDuplicateOpenOrders, Begin, Begun
<1> QED BY <1>1, <1>2, <1>3, <1>4

-----------------------------------------------------------------------------
\* Every step preserves the invariant of the escalation.
LEMMA EscalationStep == TypeOK /\ SoloInv /\ EscalationInv /\ [Next]_vars => EscalationInv'
<1> SUFFICES ASSUME TypeOK, SoloInv, EscalationInv, [Next]_vars PROVE EscalationInv'
  OBVIOUS
<1> USE DEF EscalationInv, Behind
<1>0. /\ mem \in States /\ disk \in States /\ snap \in [Threads -> States]
      /\ pc \in [Threads -> Labels] /\ cur \in [Threads -> Locals]
      /\ "main" \in Threads /\ "ws" \in Threads /\ "tg" \in Threads
      /\ cur["main"].market \in Markets
      /\ \A m \in Markets : Blank.consec[m] = 0
  BY DEF TypeOK, Blank, Threads, Locals
<1>s. \A th \in Threads : pc[th] # "idle" => solo \in {th, "none"}
  BY DEF SoloInv, Alone, TypeOK
\* Thread th starts an operation that leaves counters and markets alone.
<1>1. ASSUME NEW th \in {"main", "ws"},
             NEW label \in Labels \ {"idle", "dump", "write", "escalate", "second", "reset", "drop", "bump"},
             Begun(th, label), cur' = [cur EXCEPT ![th] = cur'[th]],
             mem'.consec = mem.consec, mem'.markets = mem.markets
      PROVE  EscalationInv'
  <2>1. pc[th] = "idle" /\ pc' = [pc EXCEPT ![th] = label] /\ disk' = disk /\ lost' = lost
        /\ (~crossed' => ~crossed)
    BY <1>1 DEF Begun
  <2>2. pc'["tg"] = pc["tg"]
    BY <1>0, <2>1
  <2>3. pc["main"] \in {"escalate", "second", "reset"} => pc'["main"] = pc["main"] /\ cur'["main"] = cur["main"]
    BY <1>0, <1>1, <2>1
  <2>4. solo' # "tg"
    BY <1>1 DEF Begun
  <2> QED BY <1>1, <2>1, <2>2, <2>3, <2>4
\* Thread th takes a step of its operation that leaves counters and markets alone.
<1>2. ASSUME NEW th \in {"main", "ws"}, NEW from \in Labels \ {"idle", "escalate", "second", "reset"}, NEW to,
             Step(th, from, to), \A u \in Threads \ {th} : cur'[u] = cur[u],
             mem'.consec = mem.consec, mem'.markets = mem.markets
      PROVE  EscalationInv'
  <2>1. /\ pc[th] = from /\ pc' = [pc EXCEPT ![th] = to] /\ disk' = disk /\ lost' = lost
        /\ crossed' = crossed /\ solo' = solo
    BY <1>2 DEF Step
  <2>2. pc'["tg"] = pc["tg"] /\ solo' # "tg"
    BY <1>0, <1>2, <1>s, <2>1
  <2>3. pc["main"] \in {"escalate", "second", "reset"} => pc'["main"] = pc["main"] /\ cur'["main"] = cur["main"]
    BY <1>0, <1>2, <2>1
  <2> QED BY <1>2, <2>1, <2>2, <2>3
<1>3. CASE Bump
  <2>1. \A m \in Markets \ {cur["main"].market} : mem'.consec[m] = mem.consec[m]
    BY <1>0, <1>3 DEF Bump, States
  <2>2. mem'.markets = mem.markets
    BY <1>0, <1>3 DEF Bump, States
  <2>3. pc'["main"] = "escalate" /\ pc'["tg"] = pc["tg"] /\ pc["main"] = "bump" /\ cur' = cur
        /\ disk' = disk /\ lost' = lost /\ crossed' = crossed /\ solo' = solo
    BY <1>0, <1>3 DEF Bump, Step
  <2>4. solo' # "tg"
    BY <1>0, <1>s, <2>3 DEF Threads
  <2> QED BY <2>1, <2>2, <2>3, <2>4
<1>4. CASE Escalate
  <2>1. pc'["tg"] = pc["tg"] /\ pc["main"] = "escalate" /\ mem' = mem
        /\ disk' = disk /\ lost' = lost /\ crossed' = crossed /\ solo' = solo
    BY <1>0, <1>4 DEF Escalate, Step
  <2>2. ~ Behind(mem, cur["main"].market) \/ (pc'["main"] = "second" /\ cur' = cur)
    <3>1. mem.consec[cur["main"].market] \in Nat
      BY <1>0 DEF States
    <3> QED BY <1>0, <1>4, <3>1 DEF Escalate, Step
  <2>3. solo' # "tg"
    BY <1>0, <1>s, <2>1 DEF Threads
  <2> QED BY <2>1, <2>2, <2>3
<1>4a. CASE PauseSecond
  <2>1. pc'["tg"] = pc["tg"] /\ pc["main"] = "second"
        /\ disk' = disk /\ lost' = lost /\ crossed' = crossed /\ solo' = solo
    BY <1>0, <1>4a DEF PauseSecond, Step
  <2>2. mem'.consec = mem.consec
    BY <1>0, <1>4a DEF PauseSecond, States
  <2>3. ~ Behind(mem', cur["main"].market) /\ mem.markets \subseteq mem'.markets
    BY <1>0, <1>4a DEF PauseSecond, States
  <2>4. solo' # "tg"
    BY <1>0, <1>s, <2>1 DEF Threads
  <2> QED BY <2>1, <2>2, <2>3, <2>4
<1>5. CASE LiftMarket
  <2>1. pc'["tg"] = pc["tg"] /\ pc["main"] = "examine" /\ pc'["main"] = "reset" /\ cur' = cur
        /\ disk' = disk /\ lost' = lost /\ crossed' = crossed /\ solo' = solo
    BY <1>0, <1>5 DEF LiftMarket, Step
  <2>2. mem'.consec = mem.consec /\ mem'.markets = mem.markets \ {cur["main"].market}
    BY <1>0, <1>5 DEF LiftMarket, States
  <2>3. solo' # "tg"
    BY <1>0, <1>s, <2>1 DEF Threads
  <2> QED BY <2>1, <2>2, <2>3
<1>6. CASE ResetCount
  <2>1. pc'["tg"] = pc["tg"] /\ pc["main"] = "reset" /\ disk' = disk /\ lost' = lost
        /\ crossed' = crossed /\ solo' = solo
    BY <1>0, <1>6 DEF ResetCount, Step
  <2>2. mem'.consec = [mem.consec EXCEPT ![cur["main"].market] = 0] /\ mem'.markets = mem.markets
    BY <1>0, <1>6 DEF ResetCount, States
  <2>3. ~ Behind(mem', cur["main"].market)
        /\ \A m \in Markets \ {cur["main"].market} : mem'.consec[m] = mem.consec[m]
    BY <1>0, <2>2 DEF States
  <2>4. solo' # "tg"
    BY <1>0, <1>s, <2>1 DEF Threads
  <2> QED BY <2>1, <2>2, <2>3, <2>4
<1>7. ASSUME NEW th \in {"main", "ws"}, PauseMarket(th)
      PROVE  EscalationInv'
  <2>1. pc'["tg"] = pc["tg"] /\ pc[th] = "market" /\ cur' = cur /\ disk' = disk /\ lost' = lost
        /\ crossed' = crossed /\ solo' = solo /\ pc' = [pc EXCEPT ![th] = "save"]
    BY <1>0, <1>7 DEF PauseMarket, Step
  <2>2. mem'.consec = mem.consec /\ mem.markets \subseteq mem'.markets
    BY <1>0, <1>7 DEF PauseMarket, States
  <2>3. solo' # "tg"
    BY <1>0, <1>7, <1>s, <2>1
  <2>4. pc["main"] \in {"escalate", "second", "reset"} => pc'["main"] = pc["main"]
    BY <1>0, <1>7, <2>1
  <2> QED BY <2>1, <2>2, <2>3, <2>4
<1>8. CASE ResumeMarkets
  <2>1. pc'["tg"] = "counts" /\ disk' = disk /\ lost' = lost /\ (~crossed' => ~crossed)
    BY <1>0, <1>8 DEF ResumeMarkets, Begin
  <2> QED BY <2>1
<1>9. CASE ResumeCounts
  <2>1. \A m \in Markets : mem'.consec[m] = 0
    BY <1>0, <1>9 DEF ResumeCounts, States
  <2>2. disk' = disk /\ lost' = lost /\ crossed' = crossed
    BY <1>9 DEF ResumeCounts, Step
  <2> QED BY <2>1, <2>2
<1>10. CASE ResumeHalt
  <2>1. pc'["main"] = pc["main"] /\ pc["tg"] = "unhalt" /\ cur' = cur /\ disk' = disk /\ lost' = lost
        /\ crossed' = crossed /\ solo' = solo
    BY <1>0, <1>10 DEF ResumeHalt, Step
  <2>2. mem'.consec = mem.consec /\ mem'.markets = mem.markets
    BY <1>0, <1>10 DEF ResumeHalt, States
  <2> QED BY <2>1, <2>2
<1>11. ASSUME NEW th \in Threads, SaveDump(th)
       PROVE  EscalationInv'
  <2>1. /\ pc[th] = "save" /\ pc' = [pc EXCEPT ![th] = "dump"] /\ mem' = mem
        /\ cur' = [cur EXCEPT ![th] = NoLocals]
        /\ disk' = disk /\ lost' = lost /\ crossed' = crossed /\ solo' = solo
    BY <1>11 DEF SaveDump, Forget
  <2>2. /\ pc["tg"] = "counts" => pc'["tg"] = "counts"
        /\ pc["main"] \in {"escalate", "second", "reset"} => pc'["main"] = pc["main"] /\ cur'["main"] = cur["main"]
        /\ pc'["tg"] \in {"unhalt", "save", "dump", "write"} =>
              pc["tg"] \in {"unhalt", "save", "dump", "write"}
    BY <1>0, <2>1
  <2> QED BY <2>1, <2>2
<1>12. ASSUME NEW th \in Threads, SaveOpen(th)
       PROVE  EscalationInv'
  <2>1. /\ pc[th] = "dump" /\ pc' = [pc EXCEPT ![th] = "write"] /\ mem' = mem /\ cur' = cur
        /\ disk' = Blank /\ lost' = lost /\ crossed' = crossed /\ solo' = solo
    BY <1>12 DEF SaveOpen
  <2>2. /\ pc["tg"] = "counts" => pc'["tg"] = "counts"
        /\ pc["main"] \in {"escalate", "second", "reset"} => pc'["main"] = pc["main"]
        /\ pc'["tg"] \in {"unhalt", "save", "dump", "write"} =>
              pc["tg"] \in {"unhalt", "save", "dump", "write"}
    BY <1>0, <2>1
  <2> QED BY <1>0, <2>1, <2>2
<1>13. ASSUME NEW th \in Threads, SaveWrite(th)
       PROVE  EscalationInv'
  <2>1. /\ pc[th] = "write" /\ pc' = [pc EXCEPT ![th] = "idle"] /\ mem' = mem /\ cur' = cur
        /\ lost' = (lost /\ ~(solo = th /\ th = "tg")) /\ crossed' = (crossed /\ solo # th)
        /\ solo' = IF solo = th THEN "none" ELSE solo
    BY <1>13 DEF SaveWrite
  <2>2. /\ pc["tg"] = "counts" => pc'["tg"] = "counts"
        /\ pc["main"] \in {"escalate", "second", "reset"} => pc'["main"] = pc["main"]
        /\ pc'["tg"] \in {"unhalt", "save", "dump", "write"} =>
              pc["tg"] \in {"unhalt", "save", "dump", "write"}
    BY <1>0, <2>1
  <2>3. CASE solo = th
    <3>1. torn /\ snap[th] = mem
      BY <2>1, <2>3 DEF SoloInv
    <3>2. disk' = mem
      BY <1>13, <3>1 DEF SaveWrite
    <3>3. ~lost' => \A m \in Markets : ~ Behind(mem, m)
      <4>1. CASE th = "tg"
        BY <1>0, <2>1, <2>3, <4>1
      <4>2. CASE th # "tg"
        <5>1. pc["tg"] = "idle" /\ pc["main"] \in {"idle", "write"}
          BY <1>0, <2>1, <2>3, <4>2 DEF SoloInv, Alone, Threads
        <5> QED BY <2>1, <4>2, <5>1
      <4> QED BY <4>1, <4>2
    <3>4. solo' # "tg"
      BY <2>1, <2>3 DEF Threads
    <3> QED BY <2>1, <3>2, <3>3, <3>4
  <2>4. CASE solo # th
    <3>1. crossed' = TRUE /\ lost' = lost /\ solo' = solo
      BY <2>1, <2>4 DEF SoloInv, TypeOK
    <3> QED BY <2>1, <2>2, <3>1
  <2> QED BY <2>3, <2>4
<1>14. CASE Crash
  <2>1. mem' = disk /\ disk' = disk /\ lost' = (lost \/ crossed) /\ solo' = "none"
    BY <1>14 DEF Crash
  <2> QED BY <2>1
<1>15. CASE UNCHANGED vars
  BY <1>15 DEF vars
<1>16. CASE Main
  <2>1. ASSUME \/ EnterUnknown \/ ReadCount \/ TestAllPaused \/ Halt \/ KeepMarket \/ ClearTicker \/ DropHalt
               \/ \E t \in Tickers : ClearFails(t)
        PROVE  EscalationInv'
    <3>1. \E from \in {"enter", "count", "test", "halt", "examine", "repause", "lift", "drop"} :
             \E to \in Labels : Step("main", from, to)
      <4>1. ASSUME TestAllPaused
            PROVE  Step("main", "test", "halt") \/ Step("main", "test", "save")
        BY <4>1 DEF TestAllPaused
      <4>2. ASSUME DropHalt
            PROVE  Step("main", "drop", "save") \/ Step("main", "drop", "idle")
        BY <4>2 DEF DropHalt
      <4> QED BY <2>1, <4>1, <4>2 DEF EnterUnknown, ReadCount, Halt, KeepMarket,
                                     ClearTicker, ClearFails, Labels
    <3>2. mem'.consec = mem.consec /\ mem'.markets = mem.markets
      BY <1>0, <2>1 DEF EnterUnknown, ReadCount, TestAllPaused, Halt, KeepMarket, ClearTicker,
                        DropHalt, ClearFails, States
    <3>3. \A u \in Threads \ {"main"} : cur'[u] = cur[u]
      BY <1>0, <2>1 DEF EnterUnknown, ReadCount, TestAllPaused, Halt, KeepMarket, ClearTicker,
                        DropHalt, ClearFails, Forget
    <3> QED BY <1>2, <3>1, <3>2, <3>3 DEF Labels
  <2>2. ASSUME NEW t \in Tickers, NEW open \in 0..2, NEW held \in BOOLEAN, ClearOrders(t, open, held)
        PROVE  EscalationInv'
    <3>1. \E to \in Labels : Step("main", "examine", to)
      BY <2>2 DEF ClearOrders, Labels
    <3>2. mem'.consec = mem.consec /\ mem'.markets = mem.markets
      BY <1>0, <2>2 DEF ClearOrders, States
    <3>3. \A u \in Threads \ {"main"} : cur'[u] = cur[u]
      BY <1>0, <2>2 DEF ClearOrders
    <3> QED BY <1>2, <3>1, <3>2, <3>3 DEF Labels
  <2> QED BY <1>1, <1>3, <1>4, <1>4a, <1>5, <1>6, <1>16, <2>1, <2>2, StartStep DEF Main
<1>17. ASSUME NEW th \in {"main", "ws"}, MainOrWebSocket(th)
       PROVE  EscalationInv'
  <2>1. ASSUME PauseTicker(th) \/ UnpauseTicker(th)
        PROVE  EscalationInv'
    <3>1. \E from \in {"pause", "pause_both", "unpause"} : \E to \in Labels : Step(th, from, to)
      BY <2>1 DEF PauseTicker, UnpauseTicker, Labels
    <3>2. mem'.consec = mem.consec /\ mem'.markets = mem.markets /\ cur' = cur
      BY <1>0, <2>1 DEF PauseTicker, UnpauseTicker, States
    <3> QED BY <1>2, <3>1, <3>2 DEF Labels
  <2> QED BY <1>1, <1>7, <1>17, <2>1, StartStep DEF MainOrWebSocket
<1> QED
  BY <1>8, <1>9, <1>10, <1>11, <1>12, <1>13, <1>14, <1>15, <1>16, <1>17 DEF Next, Telegram, Save, Done

\* EscalationHeld of OrderUnknown, for every number of markets, tickers, orders, operations
\* and resumes: record_unknown's pause of a market at its second unknown order survives
\* any interleaving of the three threads in memory, and any crash among operations that
\* did not overlap.
THEOREM EscalationIsHeld == Spec => []EscalationHeld
<1>1. Init => SoloInv /\ EscalationInv
  <2>1. Init => EscalationInv
    BY DEF Init, EscalationInv, Behind, Blank, Threads
  <2>2. Init => SoloInv
    BY DEF Init, SoloInv, Threads
  <2> QED BY <2>1, <2>2
<1>2. EscalationInv => EscalationHeld
  BY DEF EscalationInv, EscalationHeld, Behind, Idle, Threads
<1> QED BY <1>1, <1>2, TypeCorrect, SoloStep, EscalationStep, PTL DEF Spec

-----------------------------------------------------------------------------
\* Every step preserves the invariant of restarts.
LEMMA RestartStep == TypeOK /\ SoloInv /\ RestartInv /\ [Next]_vars => RestartInv'
<1> SUFFICES ASSUME TypeOK, SoloInv, RestartInv, [Next]_vars PROVE RestartInv'
  OBVIOUS
<1>0. /\ mem \in States /\ disk \in States /\ snap \in [Threads -> States]
      /\ pc \in [Threads -> Labels] /\ cur \in [Threads -> Locals]
      /\ Threads = {"main", "ws", "tg"} /\ crossed \in BOOLEAN
      /\ cur["main"].market \in Markets
  BY DEF TypeOK, Threads, Locals
\* An operation that starts without crossing another finds the file covering the memory.
<1>s. ASSUME NEW th \in Threads, NEW label, Begun(th, label), ~crossed'
      PROVE  ~crossed /\ Idle /\ Covers(disk, mem)
  <2>1. ~crossed /\ Alone(th) /\ pc[th] = "idle"
    BY <1>s DEF Begun
  <2>2. Idle
    BY <2>1 DEF Idle, Alone
  <2> QED BY <2>1, <2>2 DEF RestartInv
<1>1. ASSUME NEW th \in {"main", "ws", "tg"},
             NEW label \in Labels \ {"idle", "dump", "write", "escalate", "second", "reset", "drop", "bump",
                                     "repause", "lift"},
             Begun(th, label), cur' = [cur EXCEPT ![th] = cur'[th]],
             label = "examine" =>
                /\ th = "main" /\ mem' = mem
                /\ ~cur'["main"].checked => cur'["main"].todo = {} /\ ~cur'["main"].kept
      PROVE  RestartInv'
  <2>1. pc[th] = "idle" /\ pc' = [pc EXCEPT ![th] = label] /\ disk' = disk
    BY <1>1 DEF Begun
  <2>2. pc'["main"] \in {"bump", "repause", "lift"} => pc'["main"] = pc["main"] /\ cur'["main"] = cur["main"]
    BY <1>0, <1>1, <2>1
  <2>3. pc'["main"] = "examine" /\ ~cur'["main"].checked => cur'["main"].todo = {} /\ ~cur'["main"].kept
    <3>1. CASE th = "main"
      BY <1>0, <1>1, <2>1, <3>1
    <3>2. CASE th # "main"
      BY <1>0, <1>1, <2>1, <3>2 DEF RestartInv
    <3> QED BY <3>1, <3>2
  <2>4. ASSUME ~crossed' PROVE /\ pc'["main"] # "escalate"
                               /\ ~Idle'
                               /\ pc'["main"] \in {"examine", "reset", "drop"} => Covers(disk', mem')
    <3>1. ~crossed /\ Idle /\ Covers(disk, mem)
      BY <1>0, <1>1, <1>s, <2>4
    <3>2. pc'[th] = label
      BY <1>0, <2>1
    <3>3. pc'["main"] # "idle" => th = "main"
      BY <1>0, <2>1, <3>1 DEF Idle
    <3>4. pc'["main"] \in {"examine", "reset", "drop"} => mem' = mem
      BY <1>0, <1>1, <3>2, <3>3
    <3> QED BY <1>0, <1>1, <2>1, <3>1, <3>2, <3>3, <3>4 DEF Idle, Covers
  <2> QED BY <2>2, <2>3, <2>4 DEF RestartInv
\* Inside an operation, towards a label this invariant says nothing about.
<1>2. ASSUME NEW th \in Threads, NEW from \in Labels \ {"idle"},
             NEW to \in Labels \ {"idle", "bump", "escalate", "examine", "repause", "lift",
                                  "reset", "drop"},
             pc[th] = from, pc' = [pc EXCEPT ![th] = to], crossed' = crossed,
             \A u \in Threads \ {th} : cur'[u] = cur[u],
             disk' = disk \/ ~(pc["main"] \in {"examine", "reset", "drop"} /\ th # "main" /\ ~crossed)
      PROVE  RestartInv'
  <2>1. pc'["main"] \in {"bump", "escalate", "examine", "repause", "lift", "reset", "drop"} =>
            th # "main" /\ pc'["main"] = pc["main"] /\ cur'["main"] = cur["main"]
    BY <1>0, <1>2
  <2>2. ~crossed => solo = th /\ \A u \in Threads \ {th} : pc[u] = "idle"
    BY <1>0, <1>2 DEF SoloInv, Alone
  <2>3. ~Idle'
    BY <1>0, <1>2 DEF Idle
  <2>4. ~crossed => pc'["main"] \notin {"escalate", "examine", "reset", "drop"}
    BY <1>0, <1>2, <2>1, <2>2
  <2> QED BY <1>2, <2>1, <2>3, <2>4 DEF RestartInv
<1>3. CASE ReadCount
  <2>1. pc["main"] = "count" /\ pc' = [pc EXCEPT !["main"] = "bump"] /\ crossed' = crossed
        /\ cur' = [cur EXCEPT !["main"].count = mem.consec[cur["main"].market] + 1]
    BY <1>3 DEF ReadCount, Step
  <2>2. mem.consec[cur["main"].market] \in Nat
    BY <1>0 DEF States
  <2>3. cur'["main"].count = mem.consec[cur["main"].market] + 1
    BY <1>0, <2>1 DEF Locals
  <2>4. cur'["main"].count >= 1
    BY <2>2, <2>3
  <2> QED BY <1>0, <2>1, <2>4 DEF RestartInv, Idle
<1>4. CASE Bump
  <2>1. pc["main"] = "bump" /\ pc' = [pc EXCEPT !["main"] = "escalate"] /\ crossed' = crossed /\ cur' = cur
    BY <1>4 DEF Bump, Step
  <2>2. mem'.consec[cur["main"].market] = cur["main"].count
    BY <1>0, <1>4 DEF Bump, States
  <2> QED BY <1>0, <2>1, <2>2 DEF RestartInv, Idle
<1>5. CASE Escalate
  <2>1. /\ pc["main"] = "escalate" /\ crossed' = crossed /\ disk' = disk
        /\ \/ pc' = [pc EXCEPT !["main"] = "idle"] /\ mem.consec[cur["main"].market] = 0
           \/ pc' = [pc EXCEPT !["main"] = "test"]
           \/ pc' = [pc EXCEPT !["main"] = "second"]
    BY <1>5 DEF Escalate, Step, Forget
  <2>2. ~crossed => pc'["main"] # "idle"
    BY <1>0, <2>1 DEF RestartInv
  <2>3. pc'["main"] \in {"idle", "test", "second"} /\ (~crossed => ~Idle')
    BY <1>0, <2>1, <2>2 DEF Idle
  <2> QED BY <2>1, <2>3 DEF RestartInv
\* The clearing of a session, as long as it examines nothing, only removes blocks.
<1>6. ASSUME \/ \E t \in Tickers, open \in 0..2, held \in BOOLEAN : ClearOrders(t, open, held)
             \/ \E t \in Tickers : ClearFails(t)
             \/ ClearTicker
      PROVE  RestartInv'
  <2>1. \/ /\ pc["main"] = "examine" /\ cur["main"].todo # {}
           /\ cur'["main"].checked = cur["main"].checked
        \/ pc["main"] \in {"repause", "lift"} /\ pc'["main"] = "examine" /\ cur' = cur
    <3>1. ASSUME NEW t \in Tickers, NEW open \in 0..2, NEW held \in BOOLEAN, ClearOrders(t, open, held)
          PROVE  /\ pc["main"] = "examine" /\ cur["main"].todo # {}
                 /\ cur'["main"].checked = cur["main"].checked
      BY <1>0, <3>1 DEF ClearOrders, Step, Locals
    <3>2. ASSUME NEW t \in Tickers, ClearFails(t)
          PROVE  /\ pc["main"] = "examine" /\ cur["main"].todo # {}
                 /\ cur'["main"].checked = cur["main"].checked
      BY <1>0, <3>2 DEF ClearFails, Step, Locals
    <3>3. ClearTicker => pc["main"] \in {"repause", "lift"} /\ pc'["main"] = "examine" /\ cur' = cur
      BY <1>0 DEF ClearTicker, Step
    <3> QED BY <1>6, <3>1, <3>2, <3>3
  <2>2. cur'["main"].checked
    BY <2>1 DEF RestartInv
  <2>3. pc'["main"] \in {"examine", "repause", "lift"}
    <3>1. ASSUME NEW t \in Tickers, NEW open \in 0..2, NEW held \in BOOLEAN, ClearOrders(t, open, held)
          PROVE  pc'["main"] \in {"examine", "repause", "lift"}
      BY <1>0, <3>1 DEF ClearOrders, Step
    <3> QED BY <1>0, <1>6, <3>1 DEF ClearFails, ClearTicker, Step
  <2>4. ~Idle'
    BY <1>0, <2>3 DEF Idle
  <2> QED BY <2>2, <2>3, <2>4 DEF RestartInv
<1>7. ASSUME LiftMarket \/ ResetCount \/ DropHalt
      PROVE  RestartInv'
  <2>1. /\ pc["main"] \in {"examine", "reset", "drop"} /\ crossed' = crossed /\ disk' = disk
        /\ pc'["main"] \in {"reset", "drop", "save", "idle"}
        /\ pc'["main"] \in {"reset", "drop"} => cur' = cur
        /\ pc'["main"] = "idle" => ~cur["main"].checked
        /\ \A u \in Threads \ {"main"} : pc'[u] = pc[u]
    BY <1>0, <1>7 DEF LiftMarket, ResetCount, DropHalt, Step
  <2>2. Covers(mem, mem')
    BY <1>0, <1>7 DEF LiftMarket, ResetCount, DropHalt, Covers, States
  <2>3. ~crossed /\ ~cur["main"].checked => Covers(disk, mem')
    BY <2>1, <2>2 DEF RestartInv, Covers
  <2>4. ~crossed /\ (Idle' \/ (pc'["main"] \in {"examine", "reset", "drop"} /\ ~cur'["main"].checked))
            => ~cur["main"].checked
    BY <1>0, <2>1 DEF Idle
  <2>5. Covers(disk, mem') => Covers(disk', mem')
    BY <2>1
  <2> QED BY <2>1, <2>3, <2>4, <2>5 DEF RestartInv
<1>8. ASSUME NEW th \in Threads, SaveDump(th)
      PROVE  RestartInv'
  <2>1. /\ pc[th] = "save" /\ pc' = [pc EXCEPT ![th] = "dump"] /\ crossed' = crossed /\ disk' = disk
        /\ cur' = [cur EXCEPT ![th] = NoLocals]
    BY <1>8 DEF SaveDump, Forget
  <2> QED BY <1>0, <1>2, <2>1 DEF Labels
<1>9. ASSUME NEW th \in Threads, SaveOpen(th)
      PROVE  RestartInv'
  <2>1. /\ pc[th] = "dump" /\ pc' = [pc EXCEPT ![th] = "write"] /\ crossed' = crossed /\ cur' = cur
    BY <1>9 DEF SaveOpen
  <2>2. ~crossed => \A u \in Threads \ {th} : pc[u] = "idle"
    BY <1>0, <2>1 DEF SoloInv, Alone
  <2>3. ~(pc["main"] \in {"examine", "reset", "drop"} /\ th # "main" /\ ~crossed)
    BY <1>0, <2>2
  <2> QED BY <1>0, <1>2, <2>1, <2>3 DEF Labels
<1>10. ASSUME NEW th \in Threads, SaveWrite(th)
       PROVE  RestartInv'
  <2>1. /\ pc[th] = "write" /\ pc' = [pc EXCEPT ![th] = "idle"] /\ mem' = mem /\ cur' = cur
        /\ crossed' = (crossed /\ solo # th)
    BY <1>10 DEF SaveWrite
  <2>2. pc'["main"] \in {"bump", "examine", "repause", "lift"} => pc'["main"] = pc["main"]
    BY <1>0, <2>1
  <2>3. CASE solo = th
    <3>1. disk' = mem
      <4>1. torn /\ snap[th] = mem
        BY <2>1, <2>3 DEF SoloInv
      <4> QED BY <1>10, <4>1 DEF SaveWrite
    <3>2. pc'["main"] = "idle"
      BY <1>0, <2>1, <2>3 DEF SoloInv, Alone
    <3> QED BY <2>1, <3>1, <3>2 DEF RestartInv, Covers
  <2>4. CASE solo # th
    <3>1. crossed' = TRUE
      BY <1>0, <2>1, <2>4 DEF SoloInv
    <3> QED BY <2>1, <2>2, <3>1 DEF RestartInv
  <2> QED BY <2>3, <2>4
<1>11. CASE Crash
  <2>1. mem' = disk /\ disk' = disk /\ pc'["main"] = "idle"
    BY <1>0, <1>11 DEF Crash
  <2> QED BY <2>1 DEF RestartInv, Covers
<1>12. CASE UNCHANGED vars
  BY <1>12 DEF vars, RestartInv, Covers, Idle
<1>13. CASE Main
  <2>1. ASSUME EnterUnknown \/ PauseSecond \/ TestAllPaused \/ Halt \/ KeepMarket
        PROVE  RestartInv'
    <3>1. PICK from \in {"enter", "second", "test", "halt", "examine"}, to \in {"count", "test", "halt", "save"} :
              Step("main", from, to)
      <4>1. ASSUME TestAllPaused
            PROVE  Step("main", "test", "halt") \/ Step("main", "test", "save")
        BY <4>1 DEF TestAllPaused
      <4> QED BY <2>1, <4>1 DEF EnterUnknown, PauseSecond, Halt, KeepMarket
    <3>2. \A u \in Threads \ {"main"} : cur'[u] = cur[u]
      BY <1>0, <2>1 DEF EnterUnknown, PauseSecond, TestAllPaused, Halt, KeepMarket, Forget
    <3>3. /\ pc["main"] = from /\ pc' = [pc EXCEPT !["main"] = to]
          /\ crossed' = crossed /\ disk' = disk
      BY <3>1 DEF Step
    <3> QED BY <1>0, <1>2, <3>2, <3>3 DEF Labels
  <2> QED BY <1>0, <1>1, <1>3, <1>4, <1>5, <1>6, <1>7, <1>13, <2>1, StartStep DEF Main
<1>14. ASSUME NEW th \in {"main", "ws"}, MainOrWebSocket(th)
       PROVE  RestartInv'
  <2>1. ASSUME PauseTicker(th) \/ PauseMarket(th) \/ UnpauseTicker(th)
        PROVE  RestartInv'
    <3>1. \E from \in {"pause", "pause_both", "market", "unpause"}, to \in {"market", "save"} :
              Step(th, from, to)
      BY <2>1 DEF PauseTicker, PauseMarket, UnpauseTicker
    <3>2. cur' = cur
      BY <2>1 DEF PauseTicker, PauseMarket, UnpauseTicker
    <3> QED BY <1>0, <1>2, <3>1, <3>2 DEF Step, Labels
  <2> QED BY <1>0, <1>1, <1>14, <2>1, StartStep DEF MainOrWebSocket
<1>15. CASE Telegram
  <2>1. ASSUME ResumeMarkets PROVE RestartInv'
    <3>1. Begun("tg", "counts") /\ cur' = [cur EXCEPT !["tg"] = cur'["tg"]]
      BY <1>0, <2>1 DEF ResumeMarkets, Begin, Begun
    <3> QED BY <1>1, <3>1 DEF Labels
  <2>2. ASSUME ResumeCounts \/ ResumeHalt PROVE RestartInv'
    <3>1. \E from \in {"counts", "unhalt"}, to \in {"unhalt", "save"} : Step("tg", from, to)
      BY <2>2 DEF ResumeCounts, ResumeHalt
    <3>2. cur' = cur
      BY <2>2 DEF ResumeCounts, ResumeHalt
    <3> QED BY <1>0, <1>2, <3>1, <3>2 DEF Step, Labels
  <2> QED BY <1>15, <2>1, <2>2 DEF Telegram
<1> QED
  BY <1>8, <1>9, <1>10, <1>11, <1>12, <1>13, <1>14, <1>15 DEF Next, Save, Done

\* RestartKeepsBlocks of OrderUnknown, for every size and bound: once an operation that
\* ran alone has saved since operations last overlapped, what _load would return
\* between operations blocks every ticker the memory blocks.
THEOREM RestartsKeepBlocks == Spec => []RestartKeepsBlocks
<1>1. Init => SoloInv /\ RestartInv
  <2>1. Init => RestartInv
    BY DEF Init, RestartInv, Covers, Threads
  <2>2. Init => SoloInv
    BY DEF Init, SoloInv, Threads
  <2> QED BY <2>1, <2>2
<1>2. TypeOK /\ RestartInv => RestartKeepsBlocks
  BY DEF RestartInv, RestartKeepsBlocks, Covers, BlockedIn
<1> QED BY <1>1, <1>2, TypeCorrect, SoloStep, RestartStep, PTL DEF Spec
=============================================================================
