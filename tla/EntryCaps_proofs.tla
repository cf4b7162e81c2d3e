-------------------------- MODULE EntryCaps_proofs --------------------------
(***************************************************************************)
(* Proofs about the caps on PathB's entries: for any runs, scanners, caps  *)
(* and number of restarts.                                                 *)
(***************************************************************************)
EXTENDS EntryCaps, FiniteSetTheorems, TLAPS

(***************************************************************************)
(* Types.                                                                  *)
(***************************************************************************)

NotInHand == {"idle", "next"}

\* A scan that has a plan in hand, or has none.
Consistent(c) == c \in Scans /\ (c.run = NoRun <=> c.at \in NotInHand)

LEMMA ScanType ==
  ASSUME TypeOK, NEW th \in Scanners
  PROVE  /\ Consistent(scan[th])
         /\ scan[th].at \notin NotInHand => scan[th].run \in Runs
         /\ scan[th].base \in Nat /\ scan[th].sent \in Nat
  BY DEF TypeOK, Consistent, NotInHand, Scans

\* A step of one scanner: it changes no other scan.
Moves(th, c) == scan' = [scan EXCEPT ![th] = c]

LEMMA MovesType ==
  ASSUME TypeOK, NEW th \in Scanners, NEW c, Consistent(c), Moves(th, c)
  PROVE  /\ scan' \in [Scanners -> Scans]
         /\ \A u \in Scanners : scan'[u] = IF u = th THEN c ELSE scan[u]
         /\ \A u \in Scanners : Consistent(scan'[u])
  BY DEF TypeOK, Consistent, NotInHand, Moves

LEMMA FiniteCounts ==
  ASSUME TypeOK, NEW S \in SUBSET Runs
  PROVE  IsFiniteSet(S) /\ Cardinality(S) \in Nat
  BY ActorsAssumption, FS_Subset, FS_CardinalityType

LEMMA BaselineType ==
  ASSUME TypeOK
  PROVE  Baseline \in Nat
<1>1. positions \in SUBSET Runs /\ In(Unfilled) \in SUBSET Runs
  BY DEF TypeOK, In
<1> QED BY <1>1, FiniteCounts DEF Baseline

\* What each step of a scanner makes of its scan.
LEMMA StartScanMoves ==
  ASSUME TypeOK, NEW th \in Scanners, StartScan(th)
  PROVE  \E c : /\ Moves(th, c) /\ Consistent(c)
                /\ c.at = "next" /\ c.run = NoRun /\ c.base = Baseline /\ c.sent = 0
<1> DEFINE c == [NoScan EXCEPT !.at = "next", !.base = Baseline]
<1>1. /\ c \in Scans
      /\ c.at = "next" /\ c.run = NoRun /\ c.base = Baseline /\ c.sent = 0
  BY BaselineType DEF NoScan, Scans
<1>2. Consistent(c)
  BY <1>1 DEF Consistent, NotInHand
<1>3. Moves(th, c)
  BY DEF StartScan, Moves
<1> QED BY <1>1, <1>2, <1>3

LEMMA GotoMoves ==
  ASSUME TypeOK, NEW th \in Scanners, scan[th].at \notin NotInHand,
         NEW place \in InHand, Goto(th, place)
  PROVE  \E c : /\ Moves(th, c) /\ Consistent(c)
                /\ c.at = place /\ c.run = scan[th].run
                /\ c.base = scan[th].base /\ c.sent = scan[th].sent
<1> DEFINE c == [scan[th] EXCEPT !.at = place]
<1>1. scan[th] \in Scans /\ scan[th].run # NoRun
  BY ScanType DEF Consistent
<1>2. /\ c \in Scans /\ c.at = place /\ c.run = scan[th].run
      /\ c.base = scan[th].base /\ c.sent = scan[th].sent
  BY <1>1 DEF Scans
<1>3. Consistent(c)
  BY <1>1, <1>2 DEF Consistent, NotInHand, InHand
<1>4. Moves(th, c)
  BY DEF TypeOK, Goto, Moves
<1> QED BY <1>2, <1>3, <1>4

LEMMA NextPlanMoves ==
  ASSUME TypeOK, NEW th \in Scanners, NextPlan(th)
  PROVE  \E c : /\ Moves(th, c) /\ Consistent(c)
                /\ c.at = "next" /\ c.run = NoRun
                /\ c.base = scan[th].base /\ c.sent = scan[th].sent
<1> DEFINE c == [scan[th] EXCEPT !.at = "next", !.run = NoRun]
<1>1. scan[th] \in Scans
  BY ScanType DEF Consistent
<1>2. /\ c \in Scans /\ c.at = "next" /\ c.run = NoRun
      /\ c.base = scan[th].base /\ c.sent = scan[th].sent
  BY <1>1 DEF Scans
<1>3. Consistent(c)
  BY <1>2 DEF Consistent, NotInHand
<1>4. Moves(th, c)
  BY DEF TypeOK, NextPlan, Moves
<1> QED BY <1>2, <1>3, <1>4

LEMMA CheckEntryMoves ==
  ASSUME TypeOK, NEW th \in Scanners, NEW r \in Runs, CheckEntry(th, r)
  PROVE  \E c : /\ Moves(th, c) /\ Consistent(c)
                /\ c.at = "gate" /\ c.run = r
                /\ c.base = scan[th].base /\ c.sent = scan[th].sent
<1> DEFINE c == [scan[th] EXCEPT !.at = "gate", !.run = r]
<1>1. scan[th] \in Scans
  BY ScanType DEF Consistent
<1>2. /\ c \in Scans /\ c.at = "gate" /\ c.run = r
      /\ c.base = scan[th].base /\ c.sent = scan[th].sent
  BY <1>1 DEF Scans
<1>3. Consistent(c)
  BY <1>2, ActorsAssumption DEF Consistent, NotInHand
<1>4. Moves(th, c)
  BY DEF TypeOK, CheckEntry, Moves
<1> QED BY <1>2, <1>3, <1>4

LEMMA AddRowMoves ==
  ASSUME TypeOK, NEW th \in Scanners, AddRow(th)
  PROVE  \E c : /\ Moves(th, c) /\ Consistent(c)
                /\ c.at = "next" /\ c.run = NoRun
                /\ c.base = scan[th].base /\ c.sent = scan[th].sent + 1
<1> DEFINE c == [scan[th] EXCEPT !.at = "next", !.run = NoRun, !.sent = @ + 1]
<1>1. scan[th] \in Scans /\ scan[th].sent + 1 \in Nat
  BY ScanType DEF Consistent
<1>2. /\ c \in Scans /\ c.run = NoRun /\ c.at = "next"
      /\ c.base = scan[th].base /\ c.sent = scan[th].sent + 1
  BY <1>1 DEF Scans
<1>3. Consistent(c)
  BY <1>2 DEF Consistent, NotInHand
<1>4. Moves(th, c)
  BY DEF TypeOK, AddRow, Moves
<1> QED BY <1>2, <1>3, <1>4

LEMMA NoScanType == Consistent(NoScan)
  BY DEF Consistent, NoScan, Scans, NotInHand

\* The steps of a scanner, by name.
Scan(th) == \/ StartScan(th) \/ EndScan(th)
            \/ \E r \in Runs : CheckEntry(th, r)
            \/ GatePass(th) \/ GateBlock(th)
            \/ PlaceRefused(th) \/ PlaceAccepted(th) \/ PlaceLost(th)
            \/ MarkSent(th) \/ AddRow(th)

LEMMA ScanMoves ==
  ASSUME TypeOK, NEW th \in Scanners, Scan(th)
  PROVE  \E c : Moves(th, c) /\ Consistent(c)
<1>1. CASE StartScan(th)
  BY <1>1, StartScanMoves
<1>2. CASE EndScan(th)
  BY <1>2, NoScanType DEF EndScan, Moves
<1>3. CASE \E r \in Runs : CheckEntry(th, r)
  BY <1>3, CheckEntryMoves
<1>4. CASE GatePass(th)
  BY <1>4, GotoMoves DEF GatePass, InHand, NotInHand
<1>5. CASE GateBlock(th) \/ PlaceRefused(th) \/ PlaceLost(th)
  BY <1>5, NextPlanMoves DEF GateBlock, PlaceRefused, PlaceLost
<1>6. CASE PlaceAccepted(th)
  BY <1>6, GotoMoves DEF PlaceAccepted, InHand, NotInHand
<1>7. CASE MarkSent(th)
  BY <1>7, GotoMoves DEF MarkSent, InHand, NotInHand
<1>8. CASE AddRow(th)
  BY <1>8, AddRowMoves
<1> QED BY <1>1, <1>2, <1>3, <1>4, <1>5, <1>6, <1>7, <1>8 DEF Scan

LEMMA SetStatusType ==
  ASSUME TypeOK, NEW r \in Runs, NEW st \in Statuses, SetStatus(r, st)
  PROVE  /\ status' \in [Runs -> Statuses]
         /\ \A q \in Runs : status'[q] = IF q = r THEN st ELSE status[q]
  BY DEF TypeOK, SetStatus

\* A step of a scanner sets no status but that of the plan in hand, and no order but its own.
LEMMA ScanType2 ==
  ASSUME TypeOK, NEW th \in Scanners, Scan(th)
  PROVE  /\ status' \in [Runs -> Statuses]
         /\ order' \in [Runs -> {"none", "open", "filled", "dropped"}]
         /\ rows' \subseteq Runs /\ unanswered' \subseteq Runs
         /\ UNCHANGED <<positions, tradeLog, restarts>>
<1> USE DEF TypeOK, books, others
<1> scan[th].at \notin NotInHand => scan[th].run \in Runs
  BY ScanType
<1>1. CASE StartScan(th) \/ EndScan(th) \/ \E r \in Runs : CheckEntry(th, r)
  BY <1>1 DEF StartScan, EndScan, CheckEntry
<1>2. CASE GatePass(th)
  BY <1>2 DEF GatePass, SetStatus, Statuses, NotInHand
<1>3. CASE GateBlock(th)
  BY <1>3 DEF GateBlock, SetStatus, Statuses, NotInHand
<1>4. CASE PlaceRefused(th)
  BY <1>4 DEF PlaceRefused, SetStatus, Statuses, NotInHand
<1>5. CASE PlaceAccepted(th)
  BY <1>5 DEF PlaceAccepted, NotInHand
<1>6. CASE PlaceLost(th)
  BY <1>6 DEF PlaceLost, SetStatus, Statuses, Unfilled, NotInHand
<1>7. CASE MarkSent(th)
  BY <1>7 DEF MarkSent, SetStatus, Statuses, Unfilled, NotInHand
<1>8. CASE AddRow(th)
  BY <1>8 DEF AddRow, NotInHand
<1> QED BY <1>1, <1>2, <1>3, <1>4, <1>5, <1>6, <1>7, <1>8 DEF Scan

\* What happens to one order, by name.
Learn(r) == \/ Broker(r)
            \/ LearnByQuery(r) \/ LearnByNotice(r) \/ RecoverFill(r)
            \/ RecoverOpen(r) \/ CancelPending(r) \/ DropRow(r) \/ Sell(r)

LEMMA LearnType ==
  ASSUME TypeOK, NEW r \in Runs, Learn(r)
  PROVE  /\ status' \in [Runs -> Statuses]
         /\ order' \in [Runs -> {"none", "open", "filled", "dropped"}]
         /\ rows' \subseteq Runs /\ positions' \subseteq Runs /\ tradeLog' \subseteq Runs
         /\ UNCHANGED <<scan, restarts, unanswered>>
<1> USE DEF TypeOK, books, others
<1>1. CASE Broker(r)
  BY <1>1 DEF Broker
<1>2. CASE LearnByQuery(r) \/ LearnByNotice(r) \/ RecoverFill(r)
  BY <1>2 DEF LearnByQuery, LearnByNotice, RecoverFill, Fills, SetStatus, Statuses, Entered
<1>3. CASE RecoverOpen(r) \/ CancelPending(r)
  BY <1>3 DEF RecoverOpen, CancelPending, SetStatus, Statuses, Unfilled
<1>4. CASE DropRow(r)
  BY <1>4 DEF DropRow
<1>5. CASE Sell(r)
  BY <1>5 DEF Sell, SetStatus, Statuses, Entered, Unfilled
<1> QED BY <1>1, <1>2, <1>3, <1>4, <1>5 DEF Learn

LEMMA RestartType ==
  ASSUME TypeOK, Restart
  PROVE  /\ scan' \in [Scanners -> Scans]
         /\ \A th \in Scanners : scan'[th] = NoScan
         /\ restarts' \in 0 .. MaxRestarts
         /\ unanswered' \subseteq Runs
         /\ tradeLog' \subseteq Runs
         /\ UNCHANGED <<status, order, rows, positions>>
<1>1. NoScan \in Scans
  BY NoScanType DEF Consistent
<1>2. restarts' \in 0 .. MaxRestarts
  BY CapsAssumption DEF Restart, TypeOK
<1>3. \A th \in Scanners : scan[th].at = "sent" => scan[th].run \in Runs
  BY ScanType DEF NotInHand
<1> QED BY <1>1, <1>2, <1>3 DEF Restart, TypeOK

LEMMA StepCases ==
  ASSUME Step
  PROVE  (\E th \in Scanners : Scan(th)) \/ (\E r \in Runs : Learn(r)) \/ Restart
  BY DEF Step, Scan, Learn

LEMMA TypeStep ==
  ASSUME TypeOK, [Next]_vars
  PROVE  TypeOK'
<1>1. CASE UNCHANGED vars
  BY <1>1 DEF TypeOK, vars
<1>2. ASSUME Next
      PROVE  missed' \subseteq Runs
  BY <1>2 DEF Next, Uncounted, In, TypeOK
<1>3. ASSUME Next, NEW th \in Scanners, Scan(th)
      PROVE  TypeOK'
  <2>1. PICK c : Moves(th, c) /\ Consistent(c)
    BY <1>3, ScanMoves
  <2>2. /\ scan' \in [Scanners -> Scans]
        /\ \A u \in Scanners : scan'[u].run = NoRun <=> scan'[u].at \in NotInHand
    BY <2>1, MovesType DEF Consistent
  <2> QED BY <1>2, <1>3, <2>2, ScanType2 DEF TypeOK, NotInHand
<1>4. ASSUME Next, NEW r \in Runs, Learn(r)
      PROVE  TypeOK'
  BY <1>2, <1>4, LearnType DEF TypeOK
<1>5. ASSUME Next, Restart
      PROVE  TypeOK'
  BY <1>2, <1>5, RestartType DEF TypeOK, NoScan
<1> QED BY <1>1, <1>3, <1>4, <1>5, StepCases DEF Next

LEMMA TypeInit == Init => TypeOK
<1> SUFFICES ASSUME Init PROVE TypeOK
  OBVIOUS
<1>1. scan \in [Scanners -> Scans] /\ \A th \in Scanners : scan[th] = NoScan
  BY NoScanType DEF Init, Consistent
<1> QED BY <1>1, CapsAssumption DEF Init, TypeOK, NoScan, Statuses

\* The variables keep their types, and a scan has a plan in hand exactly while it looks at
\* one: every way out of _submit_buy lets go of it.
THEOREM TypeCorrect == Spec => []TypeOK
<1>1. Init => TypeOK
  BY TypeInit
<1>2. TypeOK /\ [Next]_vars => TypeOK'
  BY TypeStep
<1> QED BY <1>1, <1>2, PTL DEF Spec

(***************************************************************************)
(* Where a placed order is recorded.                                       *)
(***************************************************************************)

\* What the step a scanner is at says of the plan in hand.
HandOK(th) ==
    LET r == scan[th].run
    IN  /\ scan[th].at = "gate" => status[r] = "WAITING"
        /\ scan[th].at = "place" => status[r] = "HIT" /\ order[r] = "none"
        /\ scan[th].at = "sent" => status[r] = "HIT"
        /\ scan[th].at = "row" => status[r] \notin {"WAITING", "HIT"}

\* No plan is in the hands of two scanners.
Apart == \A th, u \in Scanners :
            th # u /\ scan[th].run = scan[u].run => scan[th].run = NoRun

\* What the status of a run says of its order and its place in the books.
RunOK(r) ==
    /\ status[r] = "WAITING" => order[r] = "none"
    /\ status[r] = "CANCELLED" => order[r] \in {"none", "dropped"}
    /\ status[r] = "HIT" /\ order[r] \in {"open", "filled"} =>
          r \in unanswered \/ \E th \in Scanners : scan[th].at = "sent" /\ scan[th].run = r
    /\ status[r] \in {"FILLED", "SELL_SENT", "SELL_ACKED"} => r \in positions
    /\ status[r] = "SELL_ACKED" => r \in tradeLog \cup rows \cup missed
    /\ status[r] = "HIT" /\ r \in unanswered => r \in missed

Recorded == Apart /\ (\A th \in Scanners : HandOK(th)) /\ (\A r \in Runs : RunOK(r))

(***************************************************************************)
(* The inductive invariants of the two caps.                               *)
(***************************************************************************)

DailyInv == Cardinality(Placed \cup Holding)
                <= DailyCap + (Cardinality(Scanners) - 1) + Cardinality(missed)

\* The runs a scanner answers for: in the market by its doing, or in its hand.
Mine(own, th) == {r \in (AtRisk \ unanswered) \cup Holding : own[r] = th}

\* What a scan has counted bounds the runs its scanner answers for.
ScanOK(own, th) ==
    LET c == scan[th]
        n == Cardinality(Mine(own, th))
    IN  /\ n <= RiskOffCap
        /\ c.at \in {"gate"} \cup InHand => c.base + c.sent < RiskOffCap
        /\ c.at \in {"next", "gate"} => n <= c.base + c.sent
        /\ c.at \in InHand => n <= c.base + c.sent + 1 /\ own[c.run] = th

RiskInv == \E own \in [Runs -> Scanners] : \A th \in Scanners : ScanOK(own, th)

(***************************************************************************)
(* Recorded.                                                               *)
(***************************************************************************)

LEMMA RecordedInit == Init => Recorded
<1> SUFFICES ASSUME Init PROVE Recorded
  OBVIOUS
<1>1. Apart
  BY DEF Init, Apart, NoScan
<1>2. \A th \in Scanners : HandOK(th)
  BY DEF Init, HandOK, NoScan
<1>3. \A r \in Runs : RunOK(r)
  BY DEF Init, RunOK
<1> QED BY <1>1, <1>2, <1>3 DEF Recorded

\* No two scanners come to hold one plan: only CheckEntry takes one, and looks first.
LEMMA ApartStep ==
  ASSUME TypeOK, Apart, Next
  PROVE  Apart'
<1>1. ASSUME NEW th \in Scanners, Scan(th)
      PROVE  Apart'
  <2>1. ASSUME NEW c, Moves(th, c), Consistent(c), c.run \in {scan[th].run, NoRun}
        PROVE  Apart'
    BY <2>1, MovesType DEF Apart
  <2>2. CASE StartScan(th)
    BY <2>2, <2>1, StartScanMoves
  <2>3. CASE EndScan(th)
    BY <2>3, <2>1, NoScanType DEF EndScan, Moves, NoScan
  <2>4. ASSUME NEW r \in Runs, CheckEntry(th, r)
        PROVE  Apart'
    <3>1. PICK c : Moves(th, c) /\ Consistent(c) /\ c.run = r
      BY <2>4, CheckEntryMoves
    <3>2. \A u \in Scanners : scan[u].run # r
      BY <2>4 DEF CheckEntry
    <3> QED BY <3>1, <3>2, MovesType DEF Apart
  <2>5. ASSUME NEW place \in InHand, scan[th].at \notin NotInHand, Goto(th, place)
        PROVE  Apart'
    BY <2>5, <2>1, GotoMoves
  <2>6. ASSUME NextPlan(th)
        PROVE  Apart'
    BY <2>6, <2>1, NextPlanMoves
  <2>7. CASE AddRow(th)
    BY <2>7, <2>1, AddRowMoves
  <2>8. CASE GatePass(th)
    BY <2>8, <2>5 DEF GatePass, InHand, NotInHand
  <2>9. CASE PlaceAccepted(th)
    BY <2>9, <2>5 DEF PlaceAccepted, InHand, NotInHand
  <2>10. CASE MarkSent(th)
    BY <2>10, <2>5 DEF MarkSent, InHand, NotInHand
  <2>11. CASE GateBlock(th) \/ PlaceRefused(th) \/ PlaceLost(th)
    BY <2>11, <2>6 DEF GateBlock, PlaceRefused, PlaceLost
  <2> QED BY <1>1, <2>2, <2>3, <2>4, <2>7, <2>8, <2>9, <2>10, <2>11 DEF Scan
<1>2. ASSUME NEW r \in Runs, Learn(r)
      PROVE  Apart'
  BY <1>2, LearnType DEF Apart
<1>3. CASE Restart
  BY <1>3, RestartType DEF Apart, NoScan
<1> QED BY <1>1, <1>2, <1>3, StepCases DEF Next

\* What a scanner has not in hand it leaves alone.
LEMMA ScanKeeps ==
  ASSUME TypeOK, NEW th \in Scanners, Scan(th), NEW q \in Runs, q # scan[th].run
  PROVE  /\ status'[q] = status[q] /\ order'[q] = order[q]
         /\ q \in rows' <=> q \in rows
         /\ q \in unanswered' <=> q \in unanswered
<1> USE DEF TypeOK, books, others
<1>1. CASE StartScan(th) \/ EndScan(th) \/ \E r \in Runs : CheckEntry(th, r)
  BY <1>1 DEF StartScan, EndScan, CheckEntry
<1>2. CASE GatePass(th) \/ GateBlock(th) \/ PlaceRefused(th)
  BY <1>2 DEF GatePass, GateBlock, PlaceRefused, SetStatus
<1>3. CASE PlaceAccepted(th)
  BY <1>3 DEF PlaceAccepted
<1>4. CASE PlaceLost(th)
  BY <1>4 DEF PlaceLost, SetStatus
<1>5. CASE MarkSent(th) \/ AddRow(th)
  BY <1>5 DEF MarkSent, AddRow, SetStatus
<1> QED BY <1>1, <1>2, <1>3, <1>4, <1>5 DEF Scan

\* Nothing but a scanner touches a plan before its order is placed and recorded.
LEMMA LearnKeeps ==
  ASSUME TypeOK, NEW r \in Runs, Learn(r), NEW q \in Runs
  PROVE  /\ status[q] \in {"WAITING", "HIT"} => status'[q] = status[q]
         /\ status[q] \notin {"WAITING", "HIT"} => status'[q] \notin {"WAITING", "HIT"}
         /\ \/ order'[q] = order[q]
            \/ order[q] = "open" /\ order'[q] \in {"filled", "dropped"}
<1> USE DEF TypeOK, books, others
<1>1. CASE Broker(r)
  BY <1>1 DEF Broker
<1>2. CASE LearnByQuery(r) \/ LearnByNotice(r) \/ RecoverFill(r)
  BY <1>2 DEF LearnByQuery, LearnByNotice, RecoverFill, Fills, SetStatus, Unfilled
<1>3. CASE RecoverOpen(r) \/ CancelPending(r)
  BY <1>3 DEF RecoverOpen, CancelPending, SetStatus
<1>4. CASE DropRow(r)
  BY <1>4 DEF DropRow
<1>5. CASE Sell(r)
  BY <1>5 DEF Sell, SetStatus
<1> QED BY <1>1, <1>2, <1>3, <1>4, <1>5 DEF Learn

LEMMA HandStep ==
  ASSUME TypeOK, Recorded, Next, NEW u \in Scanners
  PROVE  HandOK(u)'
<1> DEFINE q == scan[u].run
<1> HandOK(u) /\ Apart /\ (q \in Runs => RunOK(q))
  BY DEF Recorded
<1> scan[u].at \in NotInHand \/ q \in Runs
  BY ScanType
<1>1. ASSUME NEW th \in Scanners, Scan(th), th # u
      PROVE  HandOK(u)'
  <2>1. scan'[u] = scan[u]
    BY <1>1, ScanMoves, MovesType
  <2>2. q \in Runs => status'[q] = status[q] /\ order'[q] = order[q]
    BY <1>1, ScanKeeps, ActorsAssumption DEF Apart
  <2> QED BY <2>1, <2>2 DEF HandOK, NotInHand
<1>2. ASSUME Scan(u)
      PROVE  HandOK(u)'
  <2>1. CASE StartScan(u)
    BY <2>1, StartScanMoves, MovesType DEF HandOK
  <2>2. CASE EndScan(u)
    BY <2>2 DEF EndScan, HandOK, TypeOK, NoScan
  <2>3. ASSUME NEW r \in Runs, CheckEntry(u, r)
        PROVE  HandOK(u)'
    <3>1. scan'[u].at = "gate" /\ scan'[u].run = r
      BY <2>3, CheckEntryMoves, MovesType
    <3> QED BY <2>3, <3>1 DEF HandOK, CheckEntry
  <2>4. CASE GatePass(u)
    <3>1. scan'[u].at = "place" /\ scan'[u].run = q /\ q \in Runs
      BY <2>4, GotoMoves, MovesType DEF GatePass, InHand, NotInHand
    <3>2. status'[q] = "HIT" /\ order'[q] = "none"
      BY <2>4, <3>1 DEF GatePass, SetStatus, TypeOK, HandOK, RunOK
    <3> QED BY <3>1, <3>2 DEF HandOK
  <2>5. CASE GateBlock(u) \/ PlaceRefused(u) \/ PlaceLost(u)
    <3>1. scan'[u].at = "next"
      BY <2>5, NextPlanMoves, MovesType DEF GateBlock, PlaceRefused, PlaceLost
    <3> QED BY <3>1 DEF HandOK
  <2>6. CASE PlaceAccepted(u)
    <3>1. scan'[u].at = "sent" /\ scan'[u].run = q
      BY <2>6, GotoMoves, MovesType DEF PlaceAccepted, InHand, NotInHand
    <3> QED BY <2>6, <3>1 DEF HandOK, PlaceAccepted
  <2>7. CASE MarkSent(u)
    <3>1. scan'[u].at = "row" /\ scan'[u].run = q /\ q \in Runs
      BY <2>7, GotoMoves, MovesType DEF MarkSent, InHand, NotInHand
    <3>2. status'[q] = "ORDER_ACKED"
      BY <2>7, <3>1 DEF MarkSent, SetStatus, TypeOK
    <3> QED BY <3>1, <3>2 DEF HandOK
  <2>8. CASE AddRow(u)
    BY <2>8, AddRowMoves, MovesType DEF HandOK
  <2> QED BY <1>2, <2>1, <2>2, <2>3, <2>4, <2>5, <2>6, <2>7, <2>8 DEF Scan
<1>3. ASSUME NEW r \in Runs, Learn(r)
      PROVE  HandOK(u)'
  <2>1. scan'[u] = scan[u]
    BY <1>3, LearnType
  <2> QED BY <1>3, <2>1, LearnKeeps DEF HandOK, NotInHand
<1>4. CASE Restart
  BY <1>4, RestartType DEF HandOK, NoScan
<1> QED BY <1>1, <1>2, <1>3, <1>4, StepCases DEF Next

LEMMA RunStep ==
  ASSUME TypeOK, Recorded, Next, NEW q \in Runs
  PROVE  RunOK(q)'
<1> RunOK(q)
  BY DEF Recorded
<1>1. /\ missed \subseteq missed'
      /\ status'[q] = "SELL_ACKED" => q \in tradeLog' \cup rows' \cup missed'
      /\ status'[q] = "HIT" /\ q \in unanswered' => q \in missed'
  BY DEF Next, Uncounted, In
<1>2. ASSUME NEW th \in Scanners, Scan(th), q # scan[th].run
      PROVE  RunOK(q)'
  <2>1. /\ status'[q] = status[q] /\ order'[q] = order[q]
        /\ q \in unanswered' <=> q \in unanswered
    BY <1>2, ScanKeeps
  <2>2. positions' = positions
    BY <1>2, ScanType2
  <2>3. \A u \in Scanners : scan[u].run = q => scan'[u] = scan[u]
    BY <1>2, ScanMoves, MovesType
  <2> QED BY <1>1, <2>1, <2>2, <2>3 DEF RunOK
<1>3. ASSUME NEW th \in Scanners, Scan(th), q = scan[th].run
      PROVE  RunOK(q)'
  <2> HandOK(th)
    BY DEF Recorded
  <2>1. scan[th].at \notin NotInHand
    BY <1>3, ScanType, ActorsAssumption DEF Consistent
  <2>2. CASE GatePass(th)
    BY <1>1, <1>3, <2>2 DEF GatePass, SetStatus, TypeOK, HandOK, RunOK, others
  <2>3. CASE GateBlock(th)
    <3>1. order'[q] = "none" /\ status'[q] \in {"WAITING", "CANCELLED"}
      BY <1>3, <2>3 DEF GateBlock, SetStatus, TypeOK, HandOK, RunOK
    <3> QED BY <1>1, <3>1 DEF RunOK
  <2>4. CASE PlaceRefused(th)
    <3>1. order'[q] = "none" /\ status'[q] \in {"HIT", "CANCELLED"}
      BY <1>3, <2>4 DEF PlaceRefused, SetStatus, TypeOK, HandOK, RunOK
    <3> QED BY <1>1, <3>1 DEF RunOK
  <2>5. CASE PlaceAccepted(th)
    <3>1. status'[q] = "HIT"
      BY <1>3, <2>5 DEF PlaceAccepted, HandOK
    <3>2. scan'[th].at = "sent" /\ scan'[th].run = q
      BY <1>3, <2>5, GotoMoves, MovesType DEF PlaceAccepted, InHand, NotInHand
    <3> QED BY <1>1, <3>1, <3>2 DEF RunOK
  <2>6. CASE PlaceLost(th)
    <3>1. status'[q] = "ORDER_UNKNOWN"
      BY <1>3, <2>6 DEF PlaceLost, SetStatus, TypeOK
    <3> QED BY <1>1, <3>1 DEF RunOK
  <2>7. CASE MarkSent(th)
    <3>1. status'[q] = "ORDER_ACKED"
      BY <1>3, <2>7 DEF MarkSent, SetStatus, TypeOK
    <3> QED BY <1>1, <3>1 DEF RunOK
  <2>8. CASE AddRow(th)
    <3>1. status'[q] = status[q] /\ order'[q] = order[q] /\ positions' = positions
          /\ status[q] # "HIT" /\ status[q] # "WAITING"
      BY <1>3, <2>8 DEF AddRow, HandOK
    <3> QED BY <1>1, <3>1 DEF RunOK
  <2>9. ~StartScan(th) /\ ~EndScan(th) /\ \A r \in Runs : ~CheckEntry(th, r)
    BY <2>1 DEF StartScan, EndScan, CheckEntry, NotInHand
  <2> QED BY <1>3, <2>2, <2>3, <2>4, <2>5, <2>6, <2>7, <2>8, <2>9 DEF Scan
<1>4. ASSUME NEW r \in Runs, Learn(r)
      PROVE  RunOK(q)'
  <2>1. scan' = scan /\ unanswered' = unanswered
    BY <1>4, LearnType
  <2> USE DEF TypeOK, books, others
  <2>2. CASE q # r
    <3>1. status'[q] = status[q] /\ order'[q] = order[q]
          /\ (q \in positions' <=> q \in positions)
      <4>1. CASE Broker(r)
        BY <4>1, <2>2 DEF Broker
      <4>2. CASE LearnByQuery(r) \/ LearnByNotice(r) \/ RecoverFill(r)
        BY <4>2, <2>2 DEF LearnByQuery, LearnByNotice, RecoverFill, Fills, SetStatus
      <4>3. CASE RecoverOpen(r) \/ CancelPending(r) \/ DropRow(r)
        BY <4>3, <2>2 DEF RecoverOpen, CancelPending, DropRow, SetStatus
      <4>4. CASE Sell(r)
        BY <4>4, <2>2 DEF Sell, SetStatus
      <4> QED BY <1>4, <4>1, <4>2, <4>3, <4>4 DEF Learn
    <3> QED BY <1>1, <2>1, <3>1 DEF RunOK
  <2>3. CASE q = r
    <3>1. CASE Broker(r)
      BY <1>1, <2>1, <2>3, <3>1 DEF Broker, RunOK
    <3>2. CASE LearnByQuery(r) \/ LearnByNotice(r) \/ RecoverFill(r)
      <4>1. status'[q] = "FILLED" /\ q \in positions'
        BY <2>3, <3>2 DEF LearnByQuery, LearnByNotice, RecoverFill, Fills, SetStatus
      <4> QED BY <1>1, <4>1 DEF RunOK
    <3>3. CASE RecoverOpen(r)
      <4>1. status'[q] = "ORDER_ACKED"
        BY <2>3, <3>3 DEF RecoverOpen, SetStatus
      <4> QED BY <1>1, <4>1 DEF RunOK
    <3>4. CASE CancelPending(r)
      <4>1. \/ status'[q] = "ORDER_UNKNOWN"
            \/ status'[q] = "CANCELLED" /\ order'[q] = "dropped"
        BY <2>3, <3>4 DEF CancelPending, SetStatus
      <4> QED BY <1>1, <4>1 DEF RunOK
    <3>5. CASE DropRow(r)
      BY <1>1, <2>1, <3>5 DEF DropRow, RunOK
    <3>6. CASE Sell(r)
      <4>1. \/ status'[q] \in {"FILLED", "SELL_SENT", "SELL_ACKED"} /\ q \in positions'
            \/ status'[q] \in {"ORDER_UNKNOWN", "CLOSED"}
        BY <2>3, <3>6 DEF Sell, SetStatus
      <4> QED BY <1>1, <4>1 DEF RunOK
    <3> QED BY <1>4, <3>1, <3>2, <3>3, <3>4, <3>5, <3>6 DEF Learn
  <2> QED BY <2>2, <2>3
<1>5. CASE Restart
  <2>1. /\ status' = status /\ order' = order /\ positions' = positions
        /\ \A th \in Scanners : scan[th].at = "sent" => scan[th].run \in unanswered'
        /\ unanswered \subseteq unanswered'
    BY <1>5 DEF Restart
  <2> QED BY <1>1, <2>1 DEF RunOK
<1> QED BY <1>2, <1>3, <1>4, <1>5, StepCases DEF Next

LEMMA RecordedStep ==
  ASSUME TypeOK, Recorded, [Next]_vars
  PROVE  Recorded'
<1>1. CASE UNCHANGED vars
  BY <1>1 DEF Recorded, Apart, HandOK, RunOK, vars
<1>2. CASE Next
  BY <1>2, ApartStep, HandStep, RunStep DEF Recorded
<1> QED BY <1>1, <1>2

(***************************************************************************)
(* The daily cap.                                                          *)
(***************************************************************************)

\* Every order that was placed is counted, or its scanner has it in hand, or it was missed.
LEMMA PlacedIsSeen ==
  ASSUME TypeOK, Recorded
  PROVE  Placed \subseteq Counted \cup Holding \cup missed
<1> SUFFICES ASSUME NEW r \in Runs, order[r] \in {"open", "filled"}
             PROVE  r \in Counted \cup Holding \cup missed
  BY DEF Placed
<1>1. RunOK(r) /\ status[r] \in Statuses
  BY DEF Recorded, TypeOK
<1>2. CASE status[r] \in Unfilled \cup {"FILLED", "SELL_SENT", "CLOSED"}
  BY <1>2 DEF Counted, In
<1>3. CASE status[r] = "SELL_ACKED"
  BY <1>1, <1>3 DEF RunOK, Counted
<1>4. CASE status[r] = "HIT"
  BY <1>1, <1>4 DEF RunOK, Holding, InHand
<1> QED BY <1>1, <1>2, <1>3, <1>4 DEF RunOK, Statuses, Entered

\* For the scans of now, or of the next state.
LEMMA HeldType ==
  ASSUME NEW s \in [Scanners -> Scans],
         \A th \in Scanners : s[th].at \in InHand => s[th].run \in Runs
  PROVE  LET held == {s[th].run : th \in {u \in Scanners : s[u].at \in InHand}}
         IN  /\ held \in SUBSET Runs
             /\ IsFiniteSet(held) /\ Cardinality(held) \in Nat
             /\ Cardinality(held) <= Cardinality(Scanners)
             /\ Cardinality(Scanners) \in Nat
<1> DEFINE H == {u \in Scanners : s[u].at \in InHand}
           held == {s[th].run : th \in H}
           f == [th \in H |-> s[th].run]
<1>1. held \in SUBSET Runs
  OBVIOUS
<1>2. IsFiniteSet(H) /\ Cardinality(H) <= Cardinality(Scanners)
  BY ActorsAssumption, FS_Subset
<1>3. f \in Surjection(H, held)
  BY DEF Surjection
<1>4. Cardinality(held) <= Cardinality(H) /\ IsFiniteSet(held)
  BY <1>2, <1>3, FS_Surjection
<1>5. Cardinality(H) \in Nat /\ Cardinality(Scanners) \in Nat /\ Cardinality(held) \in Nat
  BY <1>2, <1>4, ActorsAssumption, FS_CardinalityType
<1> QED BY <1>1, <1>2, <1>4, <1>5

LEMMA HoldingType ==
  ASSUME TypeOK
  PROVE  /\ Holding \in SUBSET Runs
         /\ IsFiniteSet(Holding) /\ Cardinality(Holding) \in Nat
         /\ Cardinality(Holding) <= Cardinality(Scanners)
         /\ Cardinality(Scanners) \in Nat
<1>1. scan \in [Scanners -> Scans] /\ \A th \in Scanners : scan[th].at \in InHand => scan[th].run \in Runs
  BY ScanType DEF TypeOK, InHand, NotInHand
<1> QED BY <1>1, HeldType DEF Holding

LEMMA HoldingNextType ==
  ASSUME TypeOK'
  PROVE  /\ Holding' \in SUBSET Runs
         /\ IsFiniteSet(Holding') /\ Cardinality(Holding') \in Nat
         /\ Cardinality(Holding') <= Cardinality(Scanners)
<1>1. scan' \in [Scanners -> Scans] /\ \A th \in Scanners : scan'[th].at \in InHand => scan'[th].run \in Runs
  BY DEF TypeOK, InHand, Scans
<1> QED BY <1>1, HeldType DEF Holding

LEMMA CardinalityMonotone ==
  ASSUME NEW T, IsFiniteSet(T), NEW S, S \subseteq T
  PROVE  /\ IsFiniteSet(S)
         /\ Cardinality(S) \in Nat /\ Cardinality(T) \in Nat
         /\ Cardinality(S) <= Cardinality(T)
  BY FS_Subset, FS_CardinalityType

LEMMA CardinalityUnion ==
  ASSUME NEW S, IsFiniteSet(S), NEW T, IsFiniteSet(T)
  PROVE  /\ IsFiniteSet(S \cup T)
         /\ Cardinality(S \cup T) \in Nat /\ Cardinality(S) \in Nat /\ Cardinality(T) \in Nat
         /\ Cardinality(S \cup T) <= Cardinality(S) + Cardinality(T)
<1>1. IsFiniteSet(S \cup T) /\ IsFiniteSet(S \cap T)
  BY FS_Union, FS_Intersection
<1>2. /\ Cardinality(S \cup T) \in Nat /\ Cardinality(S) \in Nat /\ Cardinality(T) \in Nat
      /\ Cardinality(S \cap T) \in Nat
  BY <1>1, FS_CardinalityType
<1>3. Cardinality(S \cup T) = Cardinality(S) + Cardinality(T) - Cardinality(S \cap T)
  BY FS_Union
<1> QED BY <1>1, <1>2, <1>3

LEMMA DailyInit == Init => DailyInv
<1> SUFFICES ASSUME Init PROVE DailyInv
  OBVIOUS
<1>1. Placed \cup Holding = {} /\ missed = {}
  BY DEF Init, Placed, Holding, NoScan, InHand
<1>2. Cardinality({}) = 0
  BY FS_EmptySet
<1>3. Cardinality(Scanners) \in Nat /\ Cardinality(Scanners) # 0
  BY ActorsAssumption, FS_CardinalityType, FS_EmptySet
<1>4. Cardinality(Placed \cup Holding) = 0 /\ Cardinality(missed) = 0
  BY <1>1, <1>2
<1> QED BY <1>3, <1>4, CapsAssumption DEF DailyInv

\* A step that brings no run into the set leaves the bound; so does one that passes the gate.
LEMMA DailyKept ==
  ASSUME TypeOK, TypeOK', DailyInv, missed \subseteq missed',
         (Placed \cup Holding)' \subseteq Placed \cup Holding
  PROVE  DailyInv'
<1> DEFINE P == Placed \cup Holding
<1>1. P \in SUBSET Runs /\ missed' \in SUBSET Runs
  BY HoldingType DEF Placed, TypeOK
<1>2. IsFiniteSet(P) /\ IsFiniteSet(missed')
  BY <1>1, ActorsAssumption, FS_Subset
<1>3. /\ Cardinality(P') <= Cardinality(P) /\ Cardinality(P') \in Nat /\ Cardinality(P) \in Nat
      /\ Cardinality(missed) <= Cardinality(missed')
      /\ Cardinality(missed) \in Nat /\ Cardinality(missed') \in Nat
  BY <1>2, CardinalityMonotone
<1>4. Cardinality(Scanners) \in Nat
  BY HoldingType
<1> QED BY <1>3, <1>4, CapsAssumption DEF DailyInv

LEMMA DailyGate ==
  ASSUME TypeOK, TypeOK', Recorded, missed \subseteq missed', NEW th \in Scanners, GatePass(th)
  PROVE  DailyInv'
<1> DEFINE P == Placed \cup Holding
           n == Cardinality(Scanners)
<1>1. Counted \in SUBSET Runs /\ missed' \in SUBSET Runs
  BY DEF Counted, In, TypeOK
<1>2. Placed' = Placed
  BY DEF GatePass, Placed
<1>3. Holding \subseteq Holding'
  <2>1. \A u \in Scanners : scan[u].at \in InHand => u # th /\ scan'[u] = scan[u]
    BY GotoMoves, MovesType DEF GatePass, InHand, NotInHand
  <2> QED BY <2>1 DEF Holding
<1>4. P' \subseteq Counted \cup (Holding' \cup missed')
  BY <1>2, <1>3, PlacedIsSeen
<1>5. /\ IsFiniteSet(Counted) /\ IsFiniteSet(missed')
      /\ IsFiniteSet(Holding') /\ Cardinality(Holding') <= n /\ n \in Nat
  BY <1>1, FiniteCounts, HoldingType, HoldingNextType
<1>6. Cardinality(P') <= Cardinality(Counted \cup (Holding' \cup missed'))
      /\ Cardinality(P') \in Nat
  BY <1>4, <1>5, CardinalityUnion, CardinalityMonotone
<1>7. /\ Cardinality(Counted \cup (Holding' \cup missed'))
            <= Cardinality(Counted) + Cardinality(Holding' \cup missed')
      /\ Cardinality(Holding' \cup missed') <= Cardinality(Holding') + Cardinality(missed')
      /\ Cardinality(Counted \cup (Holding' \cup missed')) \in Nat
      /\ Cardinality(Counted) \in Nat /\ Cardinality(Holding' \cup missed') \in Nat
      /\ Cardinality(Holding') \in Nat /\ Cardinality(missed') \in Nat
  BY <1>5, CardinalityUnion
<1>8. Cardinality(Counted) < DailyCap
  BY DEF GatePass, GateOpen
<1> QED BY <1>5, <1>6, <1>7, <1>8, CapsAssumption DEF DailyInv

\* Only the gate puts a plan in a scanner's hand.
LEMMA HandShrinks ==
  ASSUME TypeOK, NEW th \in Scanners, Scan(th), ~GatePass(th), scan'[th].at \in InHand
  PROVE  scan[th].at \in InHand /\ scan'[th].run = scan[th].run
<1>1. CASE StartScan(th)
  BY <1>1, StartScanMoves, MovesType DEF InHand
<1>2. CASE EndScan(th)
  BY <1>2 DEF EndScan, TypeOK, NoScan, InHand
<1>3. ASSUME NEW r \in Runs, CheckEntry(th, r)
      PROVE  scan'[th].at \notin InHand
  BY <1>3, CheckEntryMoves, MovesType DEF InHand
<1>4. CASE GateBlock(th) \/ PlaceRefused(th) \/ PlaceLost(th)
  BY <1>4, NextPlanMoves, MovesType DEF GateBlock, PlaceRefused, PlaceLost, InHand
<1>5. CASE PlaceAccepted(th) \/ MarkSent(th)
  BY <1>5, GotoMoves, MovesType DEF PlaceAccepted, MarkSent, InHand, NotInHand
<1>6. CASE AddRow(th)
  BY <1>6, AddRowMoves, MovesType DEF InHand
<1> QED BY <1>1, <1>2, <1>3, <1>4, <1>5, <1>6 DEF Scan

LEMMA DailyStep ==
  ASSUME TypeOK, TypeOK', Recorded, DailyInv, [Next]_vars
  PROVE  DailyInv'
<1>1. CASE UNCHANGED vars
  BY <1>1 DEF DailyInv, Placed, Holding, vars
<1>2. CASE Next
  <2>1. missed \subseteq missed'
    BY <1>2 DEF Next
  <2>2. ASSUME NEW th \in Scanners, Scan(th), ~GatePass(th)
        PROVE  (Placed \cup Holding)' \subseteq Placed \cup Holding
    <3> DEFINE q == scan[th].run
    <3>1. \A u \in Scanners : u # th => scan'[u] = scan[u]
      BY <2>2, ScanMoves, MovesType
    <3>2. scan'[th].at \in InHand => scan[th].at \in InHand /\ scan'[th].run = q
      BY <2>2, HandShrinks
    <3>3. Holding' \subseteq Holding
      BY <3>1, <3>2 DEF Holding
    <3>4. Placed' \subseteq Placed \cup Holding
      <4>1. \A r \in Runs : r # q => order'[r] = order[r]
        BY <2>2, ScanKeeps
      <4>2. PlaceAccepted(th) \/ PlaceLost(th) => q \in Holding
        BY DEF PlaceAccepted, PlaceLost, Holding, InHand
      <4>3. PlaceAccepted(th) \/ PlaceLost(th) \/ order' = order
        BY <2>2 DEF Scan, StartScan, EndScan, CheckEntry, GateBlock, PlaceRefused, MarkSent, AddRow
      <4> QED BY <4>1, <4>2, <4>3 DEF Placed
    <3> QED BY <3>3, <3>4
  <2>3. ASSUME NEW r \in Runs, Learn(r)
        PROVE  (Placed \cup Holding)' \subseteq Placed \cup Holding
    BY <2>3, LearnType, LearnKeeps DEF Placed, Holding
  <2>4. ASSUME Restart
        PROVE  (Placed \cup Holding)' \subseteq Placed \cup Holding
    BY <2>4, RestartType DEF Placed, Holding, NoScan, InHand
  <2> QED BY <1>2, <2>1, <2>2, <2>3, <2>4, DailyKept, DailyGate, StepCases DEF Next
<1> QED BY <1>1, <1>2

\* The orders of the day are no more than the daily cap, one more for each further scanner,
\* and one more for each run that the daily count left out.
THEOREM DailyCapHolds == Spec => []DailyEntriesHeld
<1>1. Init => TypeOK /\ Recorded /\ DailyInv
  BY TypeInit, RecordedInit, DailyInit
<1>2. TypeOK /\ Recorded /\ DailyInv /\ [Next]_vars => (TypeOK /\ Recorded /\ DailyInv)'
  BY TypeStep, RecordedStep, DailyStep
<1>3. TypeOK /\ DailyInv => DailyEntriesHeld
  <2> SUFFICES ASSUME TypeOK, DailyInv PROVE DailyEntriesHeld
    OBVIOUS
  <2>1. IsFiniteSet(Placed \cup Holding) /\ IsFiniteSet(missed)
    BY FiniteCounts, HoldingType DEF Placed, TypeOK
  <2>2. /\ Cardinality(Placed) <= Cardinality(Placed \cup Holding)
        /\ Cardinality(Placed) \in Nat /\ Cardinality(Placed \cup Holding) \in Nat
        /\ Cardinality(missed) \in Nat /\ Cardinality(Scanners) \in Nat
    BY <2>1, CardinalityMonotone, HoldingType
  <2> QED BY <2>2, CapsAssumption DEF DailyInv, DailyEntriesHeld
<1> QED BY <1>1, <1>2, <1>3, PTL DEF Spec

(***************************************************************************)
(* The risk-off cap.                                                       *)
(***************************************************************************)

InMarket == (AtRisk \ unanswered) \cup Holding

LEMMA MineType ==
  ASSUME TypeOK, NEW own, NEW th
  PROVE  /\ Mine(own, th) \in SUBSET Runs /\ IsFiniteSet(Mine(own, th))
         /\ Cardinality(Mine(own, th)) \in Nat
<1>1. Mine(own, th) \in SUBSET Runs
  BY HoldingType DEF Mine, AtRisk, Placed
<1> QED BY <1>1, FiniteCounts

LEMMA MineShrinks ==
  ASSUME TypeOK, NEW own, NEW th, Mine(own, th)' \subseteq Mine(own, th)
  PROVE  /\ Cardinality(Mine(own, th)') <= Cardinality(Mine(own, th))
         /\ Cardinality(Mine(own, th)') \in Nat /\ Cardinality(Mine(own, th)) \in Nat
  BY MineType, CardinalityMonotone

LEMMA RiskInit == Init => RiskInv
<1> SUFFICES ASSUME Init PROVE RiskInv
  OBVIOUS
<1>1. PICK u \in Scanners : TRUE
  BY ActorsAssumption
<1> DEFINE own == [r \in Runs |-> u]
<1>2. ASSUME NEW th \in Scanners
      PROVE  ScanOK(own, th)
  <2>1. Mine(own, th) = {}
    BY DEF Init, Mine, AtRisk, Placed, Holding, NoScan, InHand
  <2>2. Cardinality(Mine(own, th)) = 0
    BY <2>1, FS_EmptySet
  <2>3. scan[th].at = "idle"
    BY DEF Init, NoScan
  <2> QED BY <2>2, <2>3, CapsAssumption DEF ScanOK, InHand
<1> QED BY <1>1, <1>2 DEF RiskInv

\* A run in the market for which a scanner that scans nothing answers is in the baseline.
LEMMA MineIsCounted ==
  ASSUME TypeOK, Recorded, NEW own, \A u \in Scanners : ScanOK(own, u),
         NEW th \in Scanners, scan[th].at = "idle"
  PROVE  Cardinality(Mine(own, th)) <= Baseline /\ Baseline \in Nat
<1>1. \A r \in Holding : own[r] # th
  BY DEF Holding, ScanOK, InHand
<1>2. ASSUME NEW r \in Runs, r \in AtRisk \ unanswered, r \notin Holding
      PROVE  r \in positions \cup In(Unfilled)
  <2>1. RunOK(r) /\ status[r] \in Statuses /\ order[r] \in {"open", "filled"} /\ status[r] # "CLOSED"
    BY <1>2 DEF Recorded, AtRisk, Placed, TypeOK
  <2>2. status[r] \notin {"WAITING", "CANCELLED"}
    BY <2>1 DEF RunOK
  <2>3. status[r] # "HIT"
    BY <1>2, <2>1 DEF RunOK, Holding, InHand
  <2> QED BY <2>1, <2>2, <2>3 DEF RunOK, Statuses, Entered, In
<1>3. Mine(own, th) \subseteq positions \cup In(Unfilled)
  BY <1>1, <1>2 DEF Mine, AtRisk, Placed
<1>4. IsFiniteSet(positions) /\ IsFiniteSet(In(Unfilled))
  BY FiniteCounts DEF TypeOK, In
<1>5. /\ Cardinality(positions \cup In(Unfilled)) <= Cardinality(positions) + Cardinality(In(Unfilled))
      /\ Cardinality(positions \cup In(Unfilled)) \in Nat
      /\ Cardinality(positions) \in Nat /\ Cardinality(In(Unfilled)) \in Nat
      /\ IsFiniteSet(positions \cup In(Unfilled))
  BY <1>4, CardinalityUnion
<1>6. /\ Cardinality(Mine(own, th)) <= Cardinality(positions \cup In(Unfilled))
      /\ Cardinality(Mine(own, th)) \in Nat
  BY <1>3, <1>5, CardinalityMonotone
<1> QED BY <1>5, <1>6 DEF Baseline

\* Only a plan that passes the gate comes into the market, or into a hand.
LEMMA MarketShrinks ==
  ASSUME TypeOK, Recorded, NEW th \in Scanners, Scan(th), ~GatePass(th)
  PROVE  InMarket' \subseteq InMarket
<1> DEFINE q == scan[th].run
<1>1. Holding' \subseteq Holding
  <2>1. \A u \in Scanners : u # th => scan'[u] = scan[u]
    BY ScanMoves, MovesType
  <2> QED BY <2>1, HandShrinks DEF Holding
<1>2. ASSUME NEW r \in Runs, r # q, r \in AtRisk' \ unanswered'
      PROVE  r \in AtRisk \ unanswered
  BY <1>2, ScanKeeps DEF AtRisk, Placed
<1>3. scan[th].at \in InHand => q \in Holding
  BY DEF Holding
<1>4. CASE scan[th].at = "gate"
  <2>1. q \in Runs => order[q] = "none"
    BY <1>4 DEF Recorded, HandOK, RunOK
  <2>2. order' = order
    BY <1>4 DEF Scan, StartScan, EndScan, CheckEntry, GateBlock, PlaceRefused, PlaceAccepted,
              PlaceLost, MarkSent, AddRow
  <2>3. q \notin AtRisk'
    BY <2>1, <2>2 DEF AtRisk, Placed
  <2> QED BY <1>1, <1>2, <2>3 DEF InMarket, AtRisk, Placed
<1>5. CASE scan[th].at \in InHand
  BY <1>1, <1>2, <1>3, <1>5 DEF InMarket, AtRisk, Placed
<1>6. CASE scan[th].at \in NotInHand
  <2>1. q \notin Runs
    BY <1>6, ScanType, ActorsAssumption DEF Consistent
  <2> QED BY <1>1, <1>2, <2>1 DEF InMarket, AtRisk, Placed
<1> QED BY <1>4, <1>5, <1>6, ScanType DEF Consistent, Scans, NotInHand

LEMMA MarketShrinksElse ==
  ASSUME TypeOK, (\E r \in Runs : Learn(r)) \/ Restart
  PROVE  InMarket' \subseteq InMarket
<1>1. ASSUME NEW r \in Runs, Learn(r)
      PROVE  InMarket' \subseteq InMarket
  <2>1. \A q \in Runs : status[q] = "CLOSED" => status'[q] = "CLOSED"
    <3> USE DEF TypeOK, SetStatus
    <3>1. CASE LearnByQuery(r) \/ LearnByNotice(r) \/ RecoverFill(r)
      BY <3>1 DEF LearnByQuery, LearnByNotice, RecoverFill, Fills, Unfilled
    <3>2. CASE Broker(r) \/ RecoverOpen(r) \/ CancelPending(r) \/ DropRow(r)
      BY <3>2 DEF Broker, RecoverOpen, CancelPending, DropRow
    <3>3. CASE Sell(r)
      BY <3>3 DEF Sell
    <3> QED BY <1>1, <3>1, <3>2, <3>3 DEF Learn
  <2>2. scan' = scan /\ unanswered' = unanswered
    BY <1>1, LearnType
  <2> QED BY <1>1, <2>1, <2>2, LearnKeeps DEF InMarket, AtRisk, Placed, Holding
<1>2. CASE Restart
  <2>1. status' = status /\ order' = order /\ unanswered \subseteq unanswered'
        /\ \A th \in Scanners : scan'[th].at \notin InHand
    BY <1>2, RestartType DEF Restart, NoScan, InHand
  <2> QED BY <2>1 DEF InMarket, AtRisk, Placed, Holding
<1> QED BY <1>1, <1>2

LEMMA MineOfMarket ==
  ASSUME NEW own, NEW th, InMarket' \subseteq InMarket
  PROVE  Mine(own, th)' \subseteq Mine(own, th)
  BY DEF Mine, InMarket

\* A scanner's own step, other than the one through the gate.
LEMMA RiskOfScan ==
  ASSUME TypeOK, Recorded, NEW own \in [Runs -> Scanners], \A u \in Scanners : ScanOK(own, u),
         NEW th \in Scanners, Scan(th), ~GatePass(th)
  PROVE  ScanOK(own, th)'
<1> DEFINE q == scan[th].run
           M == Mine(own, th)
<1>1. ScanOK(own, th) /\ RiskOffCap \in Nat /\ scan[th].base \in Nat /\ scan[th].sent \in Nat
  BY ScanType, CapsAssumption
<1>2. M' \subseteq M
  BY MarketShrinks, MineOfMarket
<1>3. Cardinality(M') <= Cardinality(M) /\ Cardinality(M') \in Nat /\ Cardinality(M) \in Nat
  BY <1>2, MineShrinks
<1> HIDE DEF M
<1>4. CASE StartScan(th)
  <2>1. /\ scan'[th].at = "next" /\ scan'[th].base = Baseline /\ scan'[th].sent = 0
    BY <1>4, StartScanMoves, MovesType
  <2>2. Cardinality(M) <= Baseline /\ Baseline \in Nat
    BY <1>4, MineIsCounted DEF StartScan, M
  <2> QED BY <1>1, <1>3, <2>1, <2>2 DEF ScanOK, InHand, M
<1>5. CASE EndScan(th)
  <2>1. scan'[th].at = "idle"
    BY <1>5 DEF EndScan, TypeOK, NoScan
  <2> QED BY <1>1, <1>3, <2>1 DEF ScanOK, InHand, M
<1>6. ASSUME NEW r \in Runs, CheckEntry(th, r)
      PROVE  ScanOK(own, th)'
  <2>1. /\ scan'[th].at = "gate" /\ scan'[th].base = scan[th].base /\ scan'[th].sent = scan[th].sent
        /\ scan[th].at = "next" /\ scan[th].base + scan[th].sent < RiskOffCap
    <3>1. PICK c : /\ Moves(th, c) /\ Consistent(c) /\ c.at = "gate"
                   /\ c.base = scan[th].base /\ c.sent = scan[th].sent
      BY <1>6, CheckEntryMoves
    <3> QED BY <1>6, <3>1, MovesType DEF CheckEntry
  <2> QED BY <1>1, <1>3, <2>1 DEF ScanOK, InHand, M
<1>7. CASE GateBlock(th)
  <2>1. /\ scan'[th].at = "next" /\ scan'[th].base = scan[th].base /\ scan'[th].sent = scan[th].sent
        /\ scan[th].at = "gate"
    BY <1>7, NextPlanMoves, MovesType DEF GateBlock
  <2> QED BY <1>1, <1>3, <2>1 DEF ScanOK, InHand, M
<1>8. CASE PlaceRefused(th) \/ PlaceLost(th)
  <2>1. /\ scan'[th].at = "next" /\ scan'[th].base = scan[th].base /\ scan'[th].sent = scan[th].sent
        /\ scan[th].at = "place"
    BY <1>8, NextPlanMoves, MovesType DEF PlaceRefused, PlaceLost
  <2>2. q \in Runs /\ order[q] = "none"
    BY <2>1, ScanType DEF Recorded, HandOK, NotInHand
  <2>3. q \notin AtRisk' \ unanswered'
    BY <1>8, <2>2 DEF PlaceRefused, PlaceLost, AtRisk, Placed, TypeOK, others
  <2>4. q \notin Holding'
    <3>1. \A u \in Scanners : u # th => scan'[u] = scan[u]
      BY ScanMoves, MovesType
    <3> QED BY <2>1, <2>2, <3>1, ActorsAssumption DEF Holding, Recorded, Apart, InHand
  <2>5. M' \subseteq M \ {q}
    BY <1>2, <2>3, <2>4 DEF M, Mine
  <2>6. q \in M
    BY <1>1, <2>1, <2>2 DEF M, Mine, Holding, ScanOK, InHand
  <2>7. IsFiniteSet(M)
    BY MineType DEF M
  <2>8. Cardinality(M \ {q}) = Cardinality(M) - 1 /\ IsFiniteSet(M \ {q})
    BY <2>6, <2>7, FS_RemoveElement
  <2>9. Cardinality(M') <= Cardinality(M \ {q})
    BY <2>5, <2>8, CardinalityMonotone
  <2>10. Cardinality(M) <= scan[th].base + scan[th].sent + 1 /\ Cardinality(M) <= RiskOffCap
    BY <1>1, <2>1 DEF ScanOK, InHand, M
  <2> QED BY <1>1, <1>3, <2>1, <2>8, <2>9, <2>10 DEF ScanOK, InHand, M
<1>9. CASE PlaceAccepted(th) \/ MarkSent(th)
  <2>1. /\ scan'[th].at \in InHand /\ scan[th].at \in InHand /\ scan'[th].run = q
        /\ scan'[th].base = scan[th].base /\ scan'[th].sent = scan[th].sent
    BY <1>9, GotoMoves, MovesType DEF PlaceAccepted, MarkSent, InHand, NotInHand
  <2> QED BY <1>1, <1>3, <2>1 DEF ScanOK, InHand, M
<1>10. CASE AddRow(th)
  <2>1. /\ scan'[th].at = "next" /\ scan'[th].base = scan[th].base /\ scan'[th].sent = scan[th].sent + 1
        /\ scan[th].at = "row"
    <3>1. PICK c : /\ Moves(th, c) /\ Consistent(c) /\ c.at = "next"
                   /\ c.base = scan[th].base /\ c.sent = scan[th].sent + 1
      BY <1>10, AddRowMoves
    <3> QED BY <1>10, <3>1, MovesType DEF AddRow
  <2> QED BY <1>1, <1>3, <2>1 DEF ScanOK, InHand, M
<1> QED BY <1>4, <1>5, <1>6, <1>7, <1>8, <1>9, <1>10 DEF Scan

\* Through the gate: from now on the scanner answers for the plan, which was nobody's.
LEMMA RiskOfGate ==
  ASSUME TypeOK, TypeOK', Recorded, NEW own \in [Runs -> Scanners],
         \A u \in Scanners : ScanOK(own, u), NEW th \in Scanners, GatePass(th)
  PROVE  RiskInv'
<1> DEFINE q == scan[th].run
<1>1. /\ scan'[th].at = "place" /\ scan'[th].run = q
      /\ scan'[th].base = scan[th].base /\ scan'[th].sent = scan[th].sent
      /\ \A u \in Scanners : u # th => scan'[u] = scan[u]
  BY GotoMoves, MovesType DEF GatePass, InHand, NotInHand
<1>2. /\ scan[th].at = "gate" /\ q \in Runs /\ order' = order /\ unanswered' = unanswered
      /\ order[q] = "none" /\ status' = [status EXCEPT ![q] = "HIT"]
  BY ScanType DEF GatePass, SetStatus, others, Recorded, HandOK, RunOK, NotInHand
<1>3. PICK now \in [Runs -> Scanners] : now[q] = th /\ \A r \in Runs : r # q => now[r] = own[r]
  <2>1. [own EXCEPT ![q] = th] \in [Runs -> Scanners]
    OBVIOUS
  <2> QED BY <1>2, <2>1
<1>4. (AtRisk \ unanswered)' \subseteq (AtRisk \ unanswered) \ {q}
  BY <1>2 DEF AtRisk, Placed, TypeOK
<1>5. Holding' \subseteq Holding \cup {q}
  BY <1>1 DEF Holding
<1>6. \A u \in Scanners : u # th => scan[u].run # q
  BY <1>2, ActorsAssumption DEF Recorded, Apart
<1>7. ASSUME NEW u \in Scanners, u # th
      PROVE  ScanOK(now, u)'
  <2>1. Mine(now, u)' \subseteq Mine(own, u)
    BY <1>3, <1>4, <1>5, <1>7, HoldingType DEF Mine, AtRisk, Placed
  <2>2. IsFiniteSet(Mine(own, u))
    BY MineType
  <2>3. /\ Cardinality(Mine(now, u)') <= Cardinality(Mine(own, u))
        /\ Cardinality(Mine(now, u)') \in Nat /\ Cardinality(Mine(own, u)) \in Nat
    BY <2>1, <2>2, CardinalityMonotone
  <2>4. scan[u].at \in InHand => scan[u].run \in Runs
    BY ScanType DEF InHand, NotInHand
  <2>5. ScanOK(own, u) /\ scan'[u] = scan[u] /\ RiskOffCap \in Nat
        /\ scan[u].base \in Nat /\ scan[u].sent \in Nat
    BY <1>1, <1>7, ScanType, CapsAssumption
  <2> QED BY <1>3, <1>6, <1>7, <2>3, <2>4, <2>5 DEF ScanOK, InHand
<1>8. ScanOK(now, th)'
  <2>1. Mine(now, th)' \subseteq Mine(own, th) \cup {q}
    BY <1>3, <1>4, <1>5, HoldingType DEF Mine, AtRisk, Placed
  <2>2. IsFiniteSet(Mine(own, th)) /\ Cardinality(Mine(own, th)) \in Nat
    BY MineType
  <2>3. /\ IsFiniteSet(Mine(own, th) \cup {q})
        /\ Cardinality(Mine(own, th) \cup {q}) <= Cardinality(Mine(own, th)) + 1
    BY <2>2, FS_AddElement
  <2>4. /\ Cardinality(Mine(now, th)') <= Cardinality(Mine(own, th) \cup {q})
        /\ Cardinality(Mine(now, th)') \in Nat /\ Cardinality(Mine(own, th) \cup {q}) \in Nat
    BY <2>1, <2>3, CardinalityMonotone
  <2>5. /\ ScanOK(own, th) /\ RiskOffCap \in Nat
        /\ scan[th].base \in Nat /\ scan[th].sent \in Nat
    BY ScanType, CapsAssumption
  <2>6. /\ Cardinality(Mine(own, th)) <= scan[th].base + scan[th].sent
        /\ scan[th].base + scan[th].sent < RiskOffCap
    BY <1>2, <2>5 DEF ScanOK
  <2> QED BY <1>1, <1>3, <2>2, <2>3, <2>4, <2>5, <2>6 DEF ScanOK, InHand
<1> QED BY <1>3, <1>7, <1>8 DEF RiskInv

LEMMA RiskStep ==
  ASSUME TypeOK, TypeOK', Recorded, RiskInv, [Next]_vars
  PROVE  RiskInv'
<1>1. PICK own \in [Runs -> Scanners] : \A u \in Scanners : ScanOK(own, u)
  BY DEF RiskInv
<1>2. ASSUME NEW u \in Scanners, InMarket' \subseteq InMarket,
             scan'[u] = scan[u] \/ scan'[u] = NoScan
      PROVE  ScanOK(own, u)'
  <2>1. /\ Cardinality(Mine(own, u)') <= Cardinality(Mine(own, u))
        /\ Cardinality(Mine(own, u)') \in Nat /\ Cardinality(Mine(own, u)) \in Nat
    BY <1>2, MineOfMarket, MineShrinks
  <2>2. /\ ScanOK(own, u) /\ RiskOffCap \in Nat
        /\ scan[u].base \in Nat /\ scan[u].sent \in Nat
    BY <1>1, ScanType, CapsAssumption
  <2>3. CASE scan'[u] = scan[u]
    BY <2>1, <2>2, <2>3 DEF ScanOK, InHand
  <2>4. CASE scan'[u] = NoScan
    BY <2>1, <2>2, <2>4 DEF ScanOK, InHand, NoScan
  <2> QED BY <1>2, <2>3, <2>4
<1>3. CASE UNCHANGED vars
  <2>1. InMarket' \subseteq InMarket /\ scan' = scan
    BY <1>3 DEF InMarket, AtRisk, Placed, Holding, vars
  <2> QED BY <1>2, <2>1 DEF RiskInv
<1>4. ASSUME NEW th \in Scanners, Scan(th), ~GatePass(th)
      PROVE  RiskInv'
  <2>1. InMarket' \subseteq InMarket
    BY <1>4, MarketShrinks
  <2>2. \A u \in Scanners : u # th => scan'[u] = scan[u]
    BY <1>4, ScanMoves, MovesType
  <2>3. ScanOK(own, th)'
    BY <1>1, <1>4, RiskOfScan
  <2> QED BY <1>2, <2>1, <2>2, <2>3 DEF RiskInv
<1>5. ASSUME NEW th \in Scanners, GatePass(th)
      PROVE  RiskInv'
  BY <1>1, <1>5, RiskOfGate
<1>6. ASSUME NEW r \in Runs, Learn(r)
      PROVE  RiskInv'
  <2>1. InMarket' \subseteq InMarket /\ scan' = scan
    BY <1>6, MarketShrinksElse, LearnType
  <2> QED BY <1>2, <2>1 DEF RiskInv
<1>7. CASE Restart
  <2>1. InMarket' \subseteq InMarket /\ \A u \in Scanners : scan'[u] = NoScan
    BY <1>7, MarketShrinksElse, RestartType
  <2> QED BY <1>2, <2>1 DEF RiskInv
<1> QED BY <1>3, <1>4, <1>5, <1>6, <1>7, StepCases DEF Next

\* If each scanner answers for at most n runs of a set, the set has at most n for each.
LEMMA ShareOut ==
  ASSUME NEW S \in SUBSET Runs, NEW own \in [Runs -> Scanners], NEW n \in Nat,
         \A th \in Scanners : Cardinality({r \in S : own[r] = th}) <= n
  PROVE  Cardinality(S) <= n * Cardinality(Scanners)
<1> DEFINE P(th) == {r \in S : own[r] = th}
           enum(th) == CHOOSE g : g \in Bijection(1 .. Cardinality(P(th)), P(th))
           rank(r) == CHOOSE i \in 1 .. Cardinality(P(own[r])) : enum(own[r])[i] = r
           f == [r \in S |-> <<own[r], rank(r)>>]
<1>1. ASSUME NEW th \in Scanners
      PROVE  /\ enum(th) \in Bijection(1 .. Cardinality(P(th)), P(th))
             /\ Cardinality(P(th)) \in Nat /\ Cardinality(P(th)) <= n
  <2>1. IsFiniteSet(P(th))
    BY ActorsAssumption, FS_Subset
  <2>2. ExistsBijection(1 .. Cardinality(P(th)), P(th)) /\ Cardinality(P(th)) \in Nat
    BY <2>1, FS_CardinalityType
  <2> QED BY <2>2 DEF ExistsBijection
<1> HIDE DEF enum
<1>2. ASSUME NEW r \in S
      PROVE  rank(r) \in 1 .. n /\ enum(own[r])[rank(r)] = r /\ own[r] \in Scanners
  <2>1. r \in P(own[r]) /\ own[r] \in Scanners
    OBVIOUS
  <2>2. \E i \in 1 .. Cardinality(P(own[r])) : enum(own[r])[i] = r
    BY <1>1, <2>1 DEF Bijection, Surjection
  <2>3. rank(r) \in 1 .. Cardinality(P(own[r])) /\ enum(own[r])[rank(r)] = r
    BY <2>2
  <2>4. Cardinality(P(own[r])) \in Nat /\ Cardinality(P(own[r])) <= n
    BY <1>1, <2>1
  <2> HIDE DEF rank, P
  <2> QED BY <2>1, <2>3, <2>4
<1> HIDE DEF rank
<1>3. f \in [S -> Scanners \X (1 .. n)]
  BY <1>2
<1>4. \A r, q \in S : f[r] = f[q] => r = q
  BY <1>2
<1>5. f \in Injection(S, Scanners \X (1 .. n))
  BY <1>3, <1>4 DEF Injection, IsInjective
<1>6. IsFiniteSet(1 .. n) /\ Cardinality(1 .. n) = n
  BY FS_Interval
<1>7. /\ IsFiniteSet(Scanners \X (1 .. n))
      /\ Cardinality(Scanners \X (1 .. n)) = Cardinality(Scanners) * n
  BY <1>6, ActorsAssumption, FS_Product
<1>8. Cardinality(S) <= Cardinality(Scanners) * n
  BY <1>5, <1>7, FS_Injection
<1>9. Cardinality(Scanners) \in Nat
  BY ActorsAssumption, FS_CardinalityType
<1> QED BY <1>8, <1>9

LEMMA RiskInvSuffices ==
  ASSUME TypeOK, RiskInv
  PROVE  RiskOffHeld
<1>1. PICK own \in [Runs -> Scanners] : \A th \in Scanners : ScanOK(own, th)
  BY DEF RiskInv
<1> DEFINE S == AtRisk \ unanswered
<1>2. S \in SUBSET Runs
  BY DEF AtRisk, Placed
<1>3. ASSUME NEW th \in Scanners
      PROVE  Cardinality({r \in S : own[r] = th}) <= RiskOffCap
  <2>1. {r \in S : own[r] = th} \subseteq Mine(own, th) /\ IsFiniteSet(Mine(own, th))
    BY MineType DEF Mine
  <2>2. /\ Cardinality({r \in S : own[r] = th}) <= Cardinality(Mine(own, th))
        /\ Cardinality({r \in S : own[r] = th}) \in Nat /\ Cardinality(Mine(own, th)) \in Nat
    BY <2>1, CardinalityMonotone
  <2>3. Cardinality(Mine(own, th)) <= RiskOffCap
    BY <1>1 DEF ScanOK
  <2> QED BY <2>2, <2>3, CapsAssumption
<1> HIDE DEF S
<1>4. Cardinality(S) <= RiskOffCap * Cardinality(Scanners)
  BY <1>2, <1>3, ShareOut, CapsAssumption
<1> QED BY <1>4 DEF RiskOffHeld, S

\* Each scanner brings at most the risk-off cap into the market, apart from the orders whose
\* placement nobody saw answered.
THEOREM RiskOffCapHolds == Spec => []RiskOffHeld
<1>1. Init => TypeOK /\ Recorded /\ RiskInv
  BY TypeInit, RecordedInit, RiskInit
<1>2. TypeOK /\ Recorded /\ RiskInv /\ [Next]_vars => (TypeOK /\ Recorded /\ RiskInv)'
  BY TypeStep, RecordedStep, RiskStep
<1>3. TypeOK /\ RiskInv => RiskOffHeld
  BY RiskInvSuffices
<1> QED BY <1>1, <1>2, <1>3, PTL DEF Spec
=============================================================================
