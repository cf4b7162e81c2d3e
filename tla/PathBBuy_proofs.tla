--------------------------- MODULE PathBBuy_proofs ---------------------------
(* Proofs about PathBBuy, for any runs, orders, sizes and bounds: its type invariant; that      *)
(* nothing is entered before anything was bought; and, where the trading loop scans alone       *)
(* (Alone) or as in Modes, that a session has one exposure, a confirmed cancel is dead, an       *)
(* entry is of the run's own shares and a live order is watched.                                 *)
(*                                                                                               *)
(* The second part goes in three strides.  Steps says of each run, order, job, pending row and   *)
(* owner of a position what a step can do to it, as long as no submission has gone astray; the   *)
(* lemmas up to NextSteps show that from the actions.  The invariants are then shown from Steps  *)
(* alone: Dates, what is of which session; SentOnce, the scanners' progress with a plan;         *)
(* OwnShares and CancelsSafe, what a run and its order come to when nothing is forgotten.  Last, *)
(* the properties, which speak of the states with no stray submission, follow from these.        *)
EXTENDS MCPathBBuy, SumLemmas, FiniteSetTheorems, TLAPS

-----------------------------------------------------------------------------
(* What types rest on *)

\* An order of PathB is some run's once it is at the broker; only an order at the broker has
\* a row, and the row is some run's.
OrdersOK ==
    /\ \A o \in Orders : broker[o].st # "none" => broker[o].by \in Runs
    /\ \A o \in AllOrders :
          /\ broker[o].st = "none" => broker[o].filled = 0
          /\ row[o].left > 0 => broker[o].st # "none" /\ row[o].run \in Runs

\* A scanner at work has a run, and an order when the broker has taken one.
JobsOK ==
    \A th \in Scanners :
        /\ job[th] # NoJob => job[th].run \in Runs
        /\ job[th].at \in {"sent", "acked", "row"} =>
              job[th].ord \in AllOrders /\ broker[job[th].ord].st # "none"

TypeInv == TypeOK /\ OrdersOK /\ JobsOK

\* The steps of a job leave its NoJob for good until it ends.
LEMMA Working ==
  ASSUME NEW th \in Scanners, job[th].at # "idle"
  PROVE  job[th] # NoJob
<1>1. NoJob.at = "idle"
  BY DEF NoJob
<1> QED BY <1>1

LEMMA NewTypes ==
  /\ NewRun \in RunRows /\ NewOrder \in BrokerOrders /\ NoView \in Views /\ NoJob \in Jobs
  /\ NoRow \in Rows /\ NoRow.left = 0
<1>1. NewRun \in RunRows
  BY SizesAssumption DEF NewRun, RunRows, Statuses, Active, Pending, Entered, Causes
<1>2. NewOrder \in BrokerOrders
  BY SizesAssumption DEF NewOrder, BrokerOrders
<1>3. NoView \in Views
  BY SizesAssumption DEF NoView, Views
<1>4. NoJob \in Jobs
  BY <1>1, <1>3 DEF NoJob, Jobs, Places
<1>5. NoRow \in Rows /\ NoRow.left = 0
  BY SizesAssumption DEF NoRow, Rows
<1> QED BY <1>1, <1>2, <1>3, <1>4, <1>5

LEMMA InitType == Init => TypeInv
<1> SUFFICES ASSUME Init PROVE TypeInv
  OBVIOUS
<1>1. TypeOK
  BY NewTypes, SizesAssumption DEF Init, TypeOK
<1>2. OrdersOK
  BY NewTypes DEF Init, OrdersOK, NewOrder, AllOrders
<1>3. JobsOK
  BY DEF Init, JobsOK, NoJob
<1> QED BY <1>1, <1>2, <1>3 DEF TypeInv

\* What becomes of a job.
Grow == \A o \in AllOrders : broker[o].st # "none" => broker'[o].st # "none"

LEMMA JobStays ==
  ASSUME TypeOK, JobsOK, UNCHANGED job, Grow
  PROVE  job' \in [Scanners -> Jobs] /\ JobsOK'
  BY DEF TypeOK, JobsOK, Grow

LEMMA JobLeaves ==
  ASSUME TypeOK, JobsOK, NEW th \in Scanners, Leave(th), Grow
  PROVE  job' \in [Scanners -> Jobs] /\ JobsOK'
<1>1. NoJob \in Jobs /\ NoJob.at = "idle"
  BY NewTypes DEF NoJob
<1>2. job' = [job EXCEPT ![th] = NoJob]
  BY DEF Leave
<1> QED BY <1>1, <1>2 DEF TypeOK, JobsOK, Grow

LEMMA JobGoes ==
  ASSUME TypeOK, JobsOK, NEW th \in Scanners, NEW place \in Places, Goto(th, place),
         job[th].at # "idle", Grow,
         place # "sent",
         place \in {"acked", "row"} => job[th].at \in {"sent", "acked"}
  PROVE  job' \in [Scanners -> Jobs] /\ JobsOK'
<1>1. job[th] \in Jobs /\ job[th].run \in Runs
  BY Working DEF TypeOK, JobsOK
<1>2. job' = [job EXCEPT ![th].at = place]
  BY DEF Goto
<1>3. job' \in [Scanners -> Jobs]
  BY <1>1, <1>2 DEF TypeOK, Jobs
<1>4. job'[th].run \in Runs /\ job'[th].at = place /\ job'[th].ord = job[th].ord
  BY <1>1, <1>2 DEF TypeOK, Jobs
<1>5. \A u \in Scanners \ {th} : job'[u] = job[u]
  BY <1>2 DEF TypeOK
<1>6. JobsOK'
  BY <1>4, <1>5 DEF JobsOK, Grow
<1> QED BY <1>3, <1>6

LEMMA JobEnters ==
  ASSUME TypeOK, JobsOK, NEW th \in Scanners, NEW r \in Runs, NEW place \in {"gate", "refresh"},
         NEW what \in {"", "unknown", "above", "ttl"}, Enter(th, place, what, r),
         job[th] = NoJob, Grow
  PROVE  job' \in [Scanners -> Jobs] /\ JobsOK'
<1>1. job[th] \in Jobs /\ run[r] \in RunRows
  BY DEF TypeOK
<1> DEFINE j1 == [job EXCEPT ![th].at = place]
           j2 == [j1 EXCEPT ![th].what = what]
           j3 == [j2 EXCEPT ![th].run = r]
           j4 == [j3 EXCEPT ![th].read = run[r]]
<1>a. job' = j4
  BY Zenon DEF Enter
<1>b. j1[th] \in Jobs /\ j1 \in [Scanners -> Jobs] /\ j1[th].at = place
  BY <1>1 DEF TypeOK, Jobs, Places
<1>c. j2[th] \in Jobs /\ j2 \in [Scanners -> Jobs] /\ j2[th].at = place
  <2> HIDE DEF j1
  <2>1. j2 = [j1 EXCEPT ![th] = [j1[th] EXCEPT !.what = what]]
    OBVIOUS
  <2>2. [j1[th] EXCEPT !.what = what] \in Jobs /\ [j1[th] EXCEPT !.what = what].at = place
    BY <1>b DEF Jobs
  <2> QED BY <1>b, <2>1, <2>2
<1>d. j3[th] \in Jobs /\ j3 \in [Scanners -> Jobs] /\ j3[th].at = place /\ j3[th].run = r
  <2> HIDE DEF j2
  <2> QED BY <1>c DEF Jobs
<1>e. j4[th] \in Jobs /\ j4 \in [Scanners -> Jobs] /\ j4[th].at = place /\ j4[th].run = r
  <2> HIDE DEF j3
  <2> QED BY <1>1, <1>d DEF Jobs
<1>f. \A u \in Scanners \ {th} : j4[u] = job[u]
  BY DEF TypeOK
<1> HIDE DEF j4
<1>g. JobsOK'
  BY <1>a, <1>e, <1>f DEF JobsOK, Grow
<1> QED BY <1>a, <1>e, <1>g

\* A step that changes no order, row or position, and keeps to the session.
LEMMA RunAndJob ==
  ASSUME TypeInv, UNCHANGED <<broker, row, pos, session, bounds>>,
         run' \in [Runs -> RunRows], job' \in [Scanners -> Jobs], JobsOK'
  PROVE  TypeInv'
<1>1. TypeOK'
  BY DEF TypeInv, TypeOK, session, bounds
<1>2. OrdersOK'
  BY DEF TypeInv, OrdersOK
<1> QED BY <1>1, <1>2 DEF TypeInv

\* Writes of the store, a field at a time.
LEMMA SetStatus ==
  ASSUME NEW f \in [Runs -> RunRows], NEW r \in Runs, NEW x \in Statuses
  PROVE  [f EXCEPT ![r].status = x] \in [Runs -> RunRows]
  BY DEF RunRows

LEMMA SetDay ==
  ASSUME NEW f \in [Runs -> RunRows], NEW r \in Runs, NEW x \in 0 .. MaxDays
  PROVE  [f EXCEPT ![r].day = x] \in [Runs -> RunRows]
  BY DEF RunRows

LEMMA SetNo ==
  ASSUME NEW f \in [Runs -> RunRows], NEW r \in Runs, NEW x \in AllOrders \cup {NoOrder}
  PROVE  [f EXCEPT ![r].no = x] \in [Runs -> RunRows]
  BY DEF RunRows

LEMMA SetSized ==
  ASSUME NEW f \in [Runs -> RunRows], NEW r \in Runs, NEW x \in BOOLEAN
  PROVE  [f EXCEPT ![r].sized = x] \in [Runs -> RunRows]
  BY DEF RunRows

LEMMA SetAbove ==
  ASSUME NEW f \in [Runs -> RunRows], NEW r \in Runs, NEW x \in BOOLEAN
  PROVE  [f EXCEPT ![r].above = x] \in [Runs -> RunRows]
  BY DEF RunRows

LEMMA SetTtl ==
  ASSUME NEW f \in [Runs -> RunRows], NEW r \in Runs, NEW x \in BOOLEAN
  PROVE  [f EXCEPT ![r].ttl = x] \in [Runs -> RunRows]
  BY DEF RunRows

LEMMA SetRetry ==
  ASSUME NEW f \in [Runs -> RunRows], NEW r \in Runs, NEW x \in BOOLEAN
  PROVE  [f EXCEPT ![r].retry = x] \in [Runs -> RunRows]
  BY DEF RunRows

LEMMA SetManual ==
  ASSUME NEW f \in [Runs -> RunRows], NEW r \in Runs, NEW x \in BOOLEAN
  PROVE  [f EXCEPT ![r].manual = x] \in [Runs -> RunRows]
  BY DEF RunRows

LEMMA SetCause ==
  ASSUME NEW f \in [Runs -> RunRows], NEW r \in Runs, NEW x \in Causes
  PROVE  [f EXCEPT ![r].cause = x] \in [Runs -> RunRows]
  BY DEF RunRows

LEMMA Names ==
  /\ {"CANCELLED", "FILLED", "PARTIAL_FILLED", "ORDER_UNKNOWN", "ORDER_SENT", "ORDER_ACKED", "HIT",
      "WAITING", "EXPIRED"} \subseteq Statuses
  /\ {"blocked", "precheck", "reject", "unsent", "kill", "above", "ttl", "path_a", "no_evidence"}
        \subseteq Causes
  BY DEF Statuses, Active, Pending, Entered, Causes

LEMMA StatusType ==
  ASSUME TypeOK, NEW r \in Runs, NEW status \in Statuses, MarkStatus(r, status)
  PROVE  run' \in [Runs -> RunRows]
  BY SetStatus DEF TypeOK, MarkStatus

LEMMA FilledType ==
  ASSUME TypeOK, NEW r \in Runs, NEW o \in AllOrders, MarkFilled(r, o)
  PROVE  run' \in [Runs -> RunRows]
<1> DEFINE f == [run EXCEPT ![r].status = "FILLED"]
<1>1. f \in [Runs -> RunRows]
  BY SetStatus, Names DEF TypeOK
<1>2. run' = [f EXCEPT ![r].no = o]
  BY DEF MarkFilled
<1> HIDE DEF f
<1> QED BY <1>1, <1>2, SetNo

LEMMA CancelType ==
  ASSUME TypeOK, NEW r \in Runs, NEW why \in Causes, CancelPlan(r, why)
  PROVE  run' \in [Runs -> RunRows]
<1>1. CASE run[r].status \notin Cancellable
  BY <1>1 DEF TypeOK, CancelPlan
<1>2. CASE run[r].status \in Cancellable
  <2> DEFINE f == [run EXCEPT ![r].status = "CANCELLED"]
  <2>1. f \in [Runs -> RunRows]
    BY SetStatus, Names DEF TypeOK
  <2>2. run' = [f EXCEPT ![r].cause = why]
    BY <1>2 DEF CancelPlan
  <2> HIDE DEF f
  <2> QED BY <2>1, <2>2, SetCause
<1> QED BY <1>1, <1>2

LEMMA RetryType ==
  ASSUME TypeOK, NEW r \in Runs, NEW retry \in BOOLEAN, Retry(r, retry)
  PROVE  run' \in [Runs -> RunRows]
  BY SetRetry DEF TypeOK, Retry

-----------------------------------------------------------------------------
(* Submission *)

LEMMA CheckEntryType ==
  ASSUME TypeInv, NEW th \in Scanners, NEW r \in Runs, CheckEntry(th, r)
  PROVE  TypeInv'
<1>1. Grow
  BY DEF CheckEntry, Grow
<1>2. job' \in [Scanners -> Jobs] /\ JobsOK'
  BY <1>1, JobEnters DEF TypeInv, CheckEntry, Scanning
<1> QED BY <1>2, RunAndJob DEF CheckEntry, TypeInv, TypeOK

LEMMA GatePassType ==
  ASSUME TypeInv, NEW th \in Scanners, GatePass(th)
  PROVE  TypeInv'
<1>1. Grow
  BY DEF GatePass, Grow
<1>2. job' \in [Scanners -> Jobs] /\ JobsOK'
  BY <1>1, JobGoes DEF TypeInv, GatePass, Places
<1>3. job[th].run \in Runs
  BY Working DEF TypeInv, JobsOK, GatePass
<1>4. run' \in [Runs -> RunRows]
  BY <1>3, StatusType, Names DEF TypeInv, GatePass
<1> QED BY <1>2, <1>4, RunAndJob DEF GatePass

LEMMA GateBlockType ==
  ASSUME TypeInv, NEW th \in Scanners, GateBlock(th)
  PROVE  TypeInv'
<1>1. Grow
  BY DEF GateBlock, Grow
<1>2. job' \in [Scanners -> Jobs] /\ JobsOK'
  BY <1>1, JobLeaves DEF TypeInv, GateBlock
<1>3. job[th].run \in Runs
  BY Working DEF TypeInv, JobsOK, GateBlock
<1>4. run' \in [Runs -> RunRows]
  BY <1>3, CancelType, Names DEF TypeInv, TypeOK, GateBlock
<1> QED BY <1>2, <1>4, RunAndJob DEF GateBlock

LEMMA PrecheckType ==
  ASSUME TypeInv, NEW th \in Scanners, Precheck(th)
  PROVE  TypeInv'
<1>1. Grow
  BY DEF Precheck, Grow
<1>2. job' \in [Scanners -> Jobs] /\ JobsOK'
  <2>1. CASE Goto(th, "place")
    BY <1>1, <2>1, JobGoes DEF TypeInv, Precheck, Places
  <2>2. CASE Leave(th)
    BY <1>1, <2>2, JobLeaves DEF TypeInv
  <2> QED BY <2>1, <2>2 DEF Precheck
<1>3. job[th].run \in Runs
  BY Working DEF TypeInv, JobsOK, Precheck
<1>4. run' \in [Runs -> RunRows]
  BY <1>3, CancelType, Names DEF TypeInv, TypeOK, Precheck
<1> QED BY <1>2, <1>4, RunAndJob DEF Precheck

\* The broker gets an order of a run.
LEMMA Taken ==
  ASSUME TypeInv, NEW o \in AllOrders, NEW r \in Runs \cup {"user", "path_a"},
         o \in Orders => r \in Runs,
         NEW st \in {"transit", "open"}, BrokerTakes(o, r, st), UNCHANGED row
  PROVE  broker' \in [AllOrders -> BrokerOrders] /\ OrdersOK' /\ Grow /\ broker'[o].st # "none"
<1> DEFINE new == [st |-> st, filled |-> 0, by |-> r, day |-> day]
<1>1. new \in BrokerOrders
  BY SizesAssumption DEF TypeInv, TypeOK, BrokerOrders
<1>2. broker' = [broker EXCEPT ![o] = new]
  BY DEF BrokerTakes, Request
<1>3. new.st = st /\ new.st # "none" /\ new.by = r
  OBVIOUS
<1> HIDE DEF new
<1>4. broker' \in [AllOrders -> BrokerOrders] /\ broker'[o] = new
  BY <1>1, <1>2 DEF TypeInv, TypeOK
<1>5. \A p \in AllOrders \ {o} : broker'[p] = broker[p]
  BY <1>2 DEF TypeInv, TypeOK
<1>6. OrdersOK'
  BY <1>3, <1>4, <1>5 DEF TypeInv, OrdersOK, AllOrders
<1>7. Grow
  BY <1>3, <1>4, <1>5 DEF Grow, AllOrders
<1> QED BY <1>3, <1>4, <1>6, <1>7

LEMMA RefreshOkType ==
  ASSUME TypeInv, NEW th \in Scanners, RefreshOk(th)
  PROVE  TypeInv'
<1> DEFINE view(h) == [ok    |-> TRUE,
                       open  |-> {o \in AllOrders : broker[o].st = "open"},
                       fills |-> [o \in AllOrders |-> IF broker[o].day = day
                                                      THEN broker[o].filled ELSE 0],
                       held  |-> h]
           j1 == [job EXCEPT ![th].at = "act"]
<1>1. PICK h \in Balances : job' = [j1 EXCEPT ![th].view = view(h)]
  BY DEF RefreshOk
<1>2. h \in Int
  BY DEF Balances
<1>3. [o \in AllOrders |-> IF broker[o].day = day THEN broker[o].filled ELSE 0]
        \in [AllOrders -> 0 .. Qty]
  BY SizesAssumption DEF TypeInv, TypeOK, BrokerOrders
<1>4. view(h) \in Views
  BY <1>2, <1>3 DEF Views
<1>5. job[th] \in Jobs /\ job[th].run \in Runs
  BY Working DEF TypeInv, TypeOK, JobsOK, RefreshOk
<1>6. j1 \in [Scanners -> Jobs] /\ j1[th].at = "act" /\ j1[th].run = job[th].run
  BY <1>5 DEF TypeInv, TypeOK, Jobs, Places
<1>7. \A u \in Scanners \ {th} : j1[u] = job[u]
  BY DEF TypeInv, TypeOK
<1> HIDE DEF view, j1
<1>8. job' \in [Scanners -> Jobs] /\ job'[th].at = "act" /\ job'[th].run \in Runs
  BY <1>1, <1>4, <1>5, <1>6 DEF Jobs
<1>9. \A u \in Scanners \ {th} : job'[u] = job[u]
  BY <1>1, <1>6, <1>7
<1>10. UNCHANGED broker
  BY DEF RefreshOk
<1>11. JobsOK'
  BY <1>8, <1>9, <1>10 DEF TypeInv, JobsOK
<1> QED BY <1>8, <1>11, RunAndJob DEF RefreshOk, TypeInv, TypeOK

\* place_order, step by step: what becomes of the job and the run when it returns a number,
LEMMA SubmittedType ==
  ASSUME TypeInv, NEW th \in Scanners, job[th].at = "place", NEW o \in AllOrders,
         Submitted(th, o), Grow, broker'[o].st # "none"
  PROVE  job' \in [Scanners -> Jobs] /\ JobsOK'
<1> DEFINE j1 == [job EXCEPT ![th].at = "sent"]
<1>1. job' = [j1 EXCEPT ![th].ord = o]
  BY DEF Submitted
<1>2. job[th] \in Jobs /\ job[th].run \in Runs
  BY Working DEF TypeInv, TypeOK, JobsOK
<1>4. j1 \in [Scanners -> Jobs] /\ j1[th].at = "sent" /\ j1[th].run = job[th].run
  BY <1>2 DEF TypeInv, TypeOK, Jobs, Places
<1>5. \A u \in Scanners \ {th} : j1[u] = job[u]
  BY DEF TypeInv, TypeOK
<1> HIDE DEF j1
<1>6. /\ job' \in [Scanners -> Jobs]
      /\ job'[th].at = "sent" /\ job'[th].run \in Runs /\ job'[th].ord = o
  BY <1>1, <1>2, <1>4 DEF Jobs
<1>7. \A u \in Scanners \ {th} : job'[u] = job[u]
  BY <1>1, <1>4, <1>5
<1>8. JobsOK'
  BY <1>6, <1>7 DEF TypeInv, JobsOK, Grow
<1> QED BY <1>6, <1>8

\* ... raises,
LEMMA SubmitUnknownType ==
  ASSUME TypeInv, NEW th \in Scanners, job[th].at = "place", SubmitUnknown(th), Grow
  PROVE  run' \in [Runs -> RunRows] /\ job' \in [Scanners -> Jobs] /\ JobsOK'
<1> DEFINE j1 == [job EXCEPT ![th].at = "refresh"]
           j2 == [j1 EXCEPT ![th].what = "unknown"]
<1>1. job[th] \in Jobs /\ job[th].run \in Runs
  BY Working DEF TypeInv, TypeOK, JobsOK
<1>2. job' = [j2 EXCEPT ![th].read = run'[job[th].run]]
  BY DEF SubmitUnknown
<1>3. run' \in [Runs -> RunRows]
  BY <1>1, StatusType, Names DEF TypeInv, SubmitUnknown, MarkUnknown
<1>5. j1 \in [Scanners -> Jobs] /\ j1[th].at = "refresh" /\ j1[th].run = job[th].run
  BY <1>1 DEF TypeInv, TypeOK, Jobs, Places
<1>6. \A u \in Scanners \ {th} : j1[u] = job[u]
  BY DEF TypeInv, TypeOK
<1>7. j2 \in [Scanners -> Jobs] /\ j2[th].at = "refresh" /\ j2[th].run = job[th].run
  <2> HIDE DEF j1
  <2> QED BY <1>5 DEF Jobs
<1>8. \A u \in Scanners \ {th} : j2[u] = job[u]
  <2> HIDE DEF j1
  <2> QED BY <1>5, <1>6
<1> HIDE DEF j2
<1>9. job' \in [Scanners -> Jobs] /\ job'[th].at = "refresh" /\ job'[th].run \in Runs
  BY <1>1, <1>2, <1>3, <1>7 DEF Jobs
<1>10. \A u \in Scanners \ {th} : job'[u] = job[u]
  BY <1>2, <1>7, <1>8
<1>11. JobsOK'
  BY <1>9, <1>10 DEF TypeInv, JobsOK, Grow
<1> QED BY <1>3, <1>9, <1>11

\* ... or is refused.
LEMMA SubmitRefusedType ==
  ASSUME TypeInv, NEW th \in Scanners, job[th].at = "place", SubmitRefused(th), Grow
  PROVE  run' \in [Runs -> RunRows] /\ job' \in [Scanners -> Jobs] /\ JobsOK'
<1>2. job' \in [Scanners -> Jobs] /\ JobsOK'
  BY JobLeaves DEF TypeInv, SubmitRefused
<1>3. job[th].run \in Runs
  BY Working DEF TypeInv, JobsOK
<1> DEFINE r == job[th].run
           f == [run EXCEPT ![r].status = "CANCELLED"]
           g == [f EXCEPT ![r].retry = FALSE]
<1>4. run' = [g EXCEPT ![r].cause = "reject"]
  BY DEF SubmitRefused
<1>5. f \in [Runs -> RunRows]
  BY <1>3, SetStatus, Names DEF TypeInv, TypeOK
<1>6. g \in [Runs -> RunRows]
  <2> HIDE DEF f
  <2> QED BY <1>3, <1>5, SetRetry
<1> HIDE DEF g
<1>7. run' \in [Runs -> RunRows]
  BY <1>3, <1>4, <1>6, SetCause, Names
<1> QED BY <1>2, <1>7

\* The rest of such a step.
LEMMA PlaceType ==
  ASSUME TypeInv, UNCHANGED <<row, pos, session>>, UNCHANGED bounds \/ Stray,
         broker' \in [AllOrders -> BrokerOrders], OrdersOK',
         run' \in [Runs -> RunRows], job' \in [Scanners -> Jobs], JobsOK'
  PROVE  TypeInv'
<1>1. crashes' \in Nat /\ kills' \in Nat /\ strays' \in Nat
  BY DEF TypeInv, TypeOK, bounds, Stray
<1> QED BY <1>1 DEF TypeInv, TypeOK, session

LEMMA PlaceAcceptedType ==
  ASSUME TypeInv, NEW th \in Scanners, PlaceAccepted(th)
  PROVE  TypeInv'
<1>1. PICK o \in Orders : BrokerTakes(o, job[th].run, "open") /\ Submitted(th, o)
  BY DEF PlaceAccepted
<1>2. job[th].at = "place" /\ job[th].run \in Runs /\ o \in AllOrders
  BY Working DEF TypeInv, JobsOK, PlaceAccepted, AllOrders
<1>3. broker' \in [AllOrders -> BrokerOrders] /\ OrdersOK' /\ Grow /\ broker'[o].st # "none"
  BY <1>1, <1>2, Taken DEF PlaceAccepted
<1>4. job' \in [Scanners -> Jobs] /\ JobsOK'
  BY <1>1, <1>2, <1>3, SubmittedType
<1> QED BY <1>3, <1>4, PlaceType DEF PlaceAccepted, TypeInv, TypeOK

\* The broker has taken nothing, or an order of the run.
LEMMA PerhapsTaken ==
  ASSUME TypeInv, NEW r \in Runs, UNCHANGED row,
         \/ UNCHANGED broker
         \/ \E o \in Orders, st \in {"transit", "open"} : BrokerTakes(o, r, st)
  PROVE  broker' \in [AllOrders -> BrokerOrders] /\ OrdersOK' /\ Grow
<1>1. CASE UNCHANGED broker
  BY <1>1 DEF TypeInv, TypeOK, OrdersOK, Grow
<1>2. CASE \E o \in Orders, st \in {"transit", "open"} : BrokerTakes(o, r, st)
  BY <1>2, Taken DEF AllOrders
<1> QED BY <1>1, <1>2

LEMMA PlaceUnknownType ==
  ASSUME TypeInv, NEW th \in Scanners, PlaceUnknown(th)
  PROVE  TypeInv'
<1>1. job[th].at = "place" /\ job[th].run \in Runs
  BY Working DEF TypeInv, JobsOK, PlaceUnknown
<1>2. broker' \in [AllOrders -> BrokerOrders] /\ OrdersOK' /\ Grow
  BY <1>1, PerhapsTaken DEF PlaceUnknown
<1> QED BY <1>1, <1>2, SubmitUnknownType, PlaceType DEF PlaceUnknown

LEMMA PlaceRejectedType ==
  ASSUME TypeInv, NEW th \in Scanners, PlaceRejected(th)
  PROVE  TypeInv'
<1>1. Grow
  BY DEF PlaceRejected, Grow
<1> QED BY <1>1, SubmitRefusedType, RunAndJob DEF PlaceRejected

\* A second submission: two orders taken in one step are one after the other.
LEMMA PlaceAgainType ==
  ASSUME TypeInv, NEW th \in Scanners, PlaceAgain(th)
  PROVE  TypeInv'
<1> DEFINE r == job[th].run
           Both(o, p, st) == /\ o # p /\ broker[o].st = "none" /\ broker[p].st = "none"
                             /\ broker' = [broker EXCEPT ![o] = Request(r, "transit"),
                                                         ![p] = Request(r, st)]
<1>1. job[th].at = "place" /\ r \in Runs /\ Stray /\ UNCHANGED <<row, pos, session>>
  BY Working DEF TypeInv, JobsOK, PlaceAgain
<1>2. ASSUME NEW o \in Orders, NEW p \in Orders, NEW st \in {"transit", "open"}, Both(o, p, st)
      PROVE  /\ broker' \in [AllOrders -> BrokerOrders] /\ OrdersOK' /\ Grow
             /\ p \in AllOrders /\ broker'[p].st # "none"
  <2>1. o \in AllOrders /\ p \in AllOrders /\ o # p
    BY <1>2 DEF AllOrders
  <2> DEFINE new1 == Request(r, "transit")
             new2 == Request(r, st)
  <2>2. /\ new1 \in BrokerOrders /\ new1.st # "none" /\ new1.by = r
        /\ new2 \in BrokerOrders /\ new2.st # "none" /\ new2.by = r
    BY <1>1, SizesAssumption DEF TypeInv, TypeOK, BrokerOrders, Request
  <2>3. broker' = [broker EXCEPT ![o] = new1, ![p] = new2]
    BY <1>2
  <2> HIDE DEF new1, new2
  <2>4. /\ broker' \in [AllOrders -> BrokerOrders] /\ broker'[o] = new1 /\ broker'[p] = new2
        /\ \A q \in AllOrders \ {o, p} : broker'[q] = broker[q]
    BY <2>1, <2>2, <2>3 DEF TypeInv, TypeOK
  <2>5. OrdersOK'
    BY <1>1, <2>1, <2>2, <2>4 DEF TypeInv, OrdersOK, AllOrders
  <2>6. Grow
    BY <2>2, <2>4 DEF Grow
  <2> QED BY <2>1, <2>2, <2>4, <2>5, <2>6
<1>3. ASSUME NEW o \in Orders, NEW p \in Orders, Both(o, p, "open"), Submitted(th, p),
             UNCHANGED run
      PROVE  TypeInv'
  <2>1. run' \in [Runs -> RunRows]
    BY <1>3 DEF TypeInv, TypeOK
  <2> QED BY <1>1, <1>2, <1>3, <2>1, SubmittedType, PlaceType
<1>4. ASSUME NEW o \in Orders, NEW p \in Orders, NEW st \in {"transit", "open"}, Both(o, p, st),
             SubmitUnknown(th)
      PROVE  TypeInv'
  BY <1>1, <1>2, <1>4, SubmitUnknownType, PlaceType
<1>5. ASSUME NEW o \in Orders, BrokerTakes(o, r, "transit"), SubmitRefused(th)
      PROVE  TypeInv'
  <2>1. broker' \in [AllOrders -> BrokerOrders] /\ OrdersOK' /\ Grow
    BY <1>1, <1>5, Taken DEF AllOrders
  <2> QED BY <1>1, <1>5, <2>1, SubmitRefusedType, PlaceType
<1>6. \/ \E o, p \in Orders : Both(o, p, "open") /\ Submitted(th, p) /\ UNCHANGED run
      \/ \E o, p \in Orders, st \in {"transit", "open"} : Both(o, p, st) /\ SubmitUnknown(th)
      \/ \E o \in Orders : BrokerTakes(o, r, "transit") /\ SubmitRefused(th)
  BY DEF PlaceAgain
<1> QED BY <1>3, <1>4, <1>5, <1>6

LEMMA PlaceFoundType ==
  ASSUME TypeInv, NEW th \in Scanners, PlaceFound(th)
  PROVE  TypeInv'
<1>1. job[th].at = "place" /\ job[th].run \in Runs /\ Stray /\ UNCHANGED <<run, row, pos, session>>
  BY Working DEF TypeInv, JobsOK, PlaceFound
<1>2. broker' \in [AllOrders -> BrokerOrders] /\ OrdersOK' /\ Grow
  BY <1>1, PerhapsTaken DEF PlaceFound
<1>3. PICK o \in AllOrders : broker[o].st \in {"open", "done"} /\ Submitted(th, o)
  BY DEF PlaceFound
<1>4. broker'[o].st # "none"
  BY <1>2, <1>3 DEF Grow
<1>5. run' \in [Runs -> RunRows]
  BY <1>1 DEF TypeInv, TypeOK
<1> QED BY <1>1, <1>2, <1>3, <1>4, <1>5, SubmittedType, PlaceType

\* A scanner's order is one.
LEMMA ItsOrder ==
  ASSUME TypeInv, NEW th \in Scanners, job[th].at \in {"sent", "acked", "row"}
  PROVE  job[th].run \in Runs /\ job[th].ord \in AllOrders /\ broker[job[th].ord].st # "none"
  BY Working DEF TypeInv, JobsOK

LEMMA MarkSentType ==
  ASSUME TypeInv, NEW th \in Scanners, MarkSent(th)
  PROVE  TypeInv'
<1>1. Grow
  BY DEF MarkSent, Grow
<1>2. job' \in [Scanners -> Jobs] /\ JobsOK'
  BY <1>1, JobGoes DEF TypeInv, MarkSent, Places
<1>3. job[th].run \in Runs /\ job[th].ord \in AllOrders
  BY ItsOrder DEF MarkSent
<1> DEFINE r == job[th].run
           f == [run EXCEPT ![r].status = "ORDER_SENT"]
           g == [f EXCEPT ![r].no = job[th].ord]
<1>4. run' = [g EXCEPT ![r].sized = TRUE]
  BY DEF MarkSent
<1>5. f \in [Runs -> RunRows]
  BY <1>3, SetStatus, Names DEF TypeInv, TypeOK
<1>6. g \in [Runs -> RunRows]
  <2> HIDE DEF f
  <2> QED BY <1>3, <1>5, SetNo
<1> HIDE DEF g
<1>7. run' \in [Runs -> RunRows]
  BY <1>3, <1>4, <1>6, SetSized
<1> QED BY <1>2, <1>7, RunAndJob DEF MarkSent

LEMMA MarkAckedType ==
  ASSUME TypeInv, NEW th \in Scanners, MarkAcked(th)
  PROVE  TypeInv'
<1>1. Grow
  BY DEF MarkAcked, Grow
<1>2. job' \in [Scanners -> Jobs] /\ JobsOK'
  BY <1>1, JobGoes DEF TypeInv, MarkAcked, Places
<1>3. job[th].run \in Runs /\ job[th].ord \in AllOrders
  BY ItsOrder DEF MarkAcked
<1> DEFINE r == job[th].run
           f == [run EXCEPT ![r].status = "ORDER_ACKED"]
<1>4. run' = [f EXCEPT ![r].no = job[th].ord]
  BY DEF MarkAcked
<1>5. f \in [Runs -> RunRows]
  BY <1>3, SetStatus, Names DEF TypeInv, TypeOK
<1> HIDE DEF f
<1>6. run' \in [Runs -> RunRows]
  BY <1>3, <1>4, <1>5, SetNo
<1> QED BY <1>2, <1>6, RunAndJob DEF MarkAcked

LEMMA AddPendingOrderType ==
  ASSUME TypeInv, NEW th \in Scanners, AddPendingOrder(th)
  PROVE  TypeInv'
<1>1. Grow
  BY DEF AddPendingOrder, Grow
<1>2. job' \in [Scanners -> Jobs] /\ JobsOK'
  BY <1>1, JobLeaves DEF TypeInv, AddPendingOrder
<1>3. job[th].run \in Runs /\ job[th].ord \in AllOrders /\ broker[job[th].ord].st # "none"
  BY ItsOrder DEF AddPendingOrder
<1> DEFINE new == [left |-> Qty, run |-> job[th].run]
<1>4. row' = [row EXCEPT ![job[th].ord] = new] /\ new \in Rows /\ new.run \in Runs
  BY <1>3, SizesAssumption DEF AddPendingOrder, Rows
<1> HIDE DEF new
<1>5. TypeOK'
  BY <1>2, <1>4 DEF TypeInv, TypeOK, AddPendingOrder, session, bounds
<1>6. OrdersOK'
  BY <1>3, <1>4 DEF TypeInv, TypeOK, OrdersOK, AddPendingOrder
<1> QED BY <1>2, <1>5, <1>6 DEF TypeInv

-----------------------------------------------------------------------------
(* Reconciliation *)

LEMMA StartAboveType ==
  ASSUME TypeInv, NEW th \in Scanners, NEW r \in Runs, StartAbove(th, r)
  PROVE  TypeInv'
<1>1. Grow
  BY DEF StartAbove, Grow
<1>2. job' \in [Scanners -> Jobs] /\ JobsOK'
  <2>1. CASE Enter(th, "refresh", "above", r)
    BY <1>1, <2>1, JobEnters DEF TypeInv, StartAbove, Scanning
  <2>2. CASE UNCHANGED job
    BY <1>1, <2>2, JobStays DEF TypeInv
  <2> QED BY <2>1, <2>2 DEF StartAbove, EnterRefresh
<1>3. run' \in [Runs -> RunRows]
  <2> DEFINE f == [run EXCEPT ![r].above = TRUE]
  <2>1. f \in [Runs -> RunRows]
    BY SetAbove DEF TypeInv, TypeOK
  <2>2. CASE run' = [run EXCEPT ![r].above = TRUE, ![r].status = "ORDER_UNKNOWN"]
    <3>1. run' = [f EXCEPT ![r].status = "ORDER_UNKNOWN"]
      BY <2>2
    <3> HIDE DEF f
    <3> QED BY <2>1, <3>1, SetStatus, Names
  <2> QED BY <2>1, <2>2 DEF StartAbove, EnterRefresh, TypeInv, TypeOK
<1> QED BY <1>2, <1>3, RunAndJob DEF StartAbove

LEMMA StartTtlType ==
  ASSUME TypeInv, NEW th \in Scanners, NEW r \in Runs, StartTtl(th, r)
  PROVE  TypeInv'
<1>1. Grow
  BY DEF StartTtl, Grow
<1>2. job' \in [Scanners -> Jobs] /\ JobsOK'
  BY <1>1, JobEnters DEF TypeInv, StartTtl, Scanning, EnterRefresh
<1> QED BY <1>2, RunAndJob DEF StartTtl, EnterRefresh, TypeInv, TypeOK

LEMMA StartUnknownType ==
  ASSUME TypeInv, NEW th \in Scanners, NEW r \in Runs, StartUnknown(th, r)
  PROVE  TypeInv'
<1>1. Grow
  BY DEF StartUnknown, Grow
<1>2. job[th] = NoJob
  BY DEF StartUnknown, Scanning, MainIdle
<1>3. job' \in [Scanners -> Jobs] /\ JobsOK'
  BY <1>1, <1>2, JobEnters DEF TypeInv, StartUnknown, EnterRefresh
<1>4. todo' \subseteq Runs
  BY DEF TypeInv, TypeOK, StartUnknown
<1>5. TypeOK'
  BY <1>3, <1>4 DEF TypeInv, TypeOK, StartUnknown, EnterRefresh, bounds
<1>6. OrdersOK'
  BY DEF TypeInv, OrdersOK, StartUnknown
<1> QED BY <1>3, <1>5, <1>6 DEF TypeInv

LEMMA RefreshFailedType ==
  ASSUME TypeInv, NEW th \in Scanners, RefreshFailed(th)
  PROVE  TypeInv'
<1>1. Grow
  BY DEF RefreshFailed, Grow
<1>2. job' \in [Scanners -> Jobs] /\ JobsOK'
  BY <1>1, JobGoes DEF TypeInv, RefreshFailed, Places
<1> QED BY <1>2, RunAndJob DEF RefreshFailed, TypeInv, TypeOK

\* The end of a reconcile.
LEMMA Acted ==
  ASSUME TypeInv, NEW th \in Scanners, NEW what, Acts(th, what),
         run' \in [Runs -> RunRows], pos' \subseteq Runs \cup {Other}
  PROVE  TypeInv'
<1>1. Grow
  BY DEF Acts, Grow
<1>2. job' \in [Scanners -> Jobs] /\ JobsOK'
  BY <1>1, JobLeaves DEF TypeInv, Acts
<1>3. TypeOK'
  BY <1>2 DEF TypeInv, TypeOK, Acts, session, bounds
<1>4. OrdersOK'
  BY DEF TypeInv, OrdersOK, Acts
<1> QED BY <1>2, <1>3, <1>4 DEF TypeInv

\* Its run, snapshot and row.
LEMMA ItsJob ==
  ASSUME TypeInv, NEW th \in Scanners, NEW what, Acts(th, what)
  PROVE  /\ job[th].run \in Runs /\ job[th].read \in RunRows
         /\ job[th].view \in Views /\ Filled(job[th].view) \subseteq AllOrders
         /\ job[th].view.open \subseteq AllOrders
<1>1. job[th] \in Jobs
  BY DEF TypeInv, TypeOK
<1>2. job[th].run \in Runs
  BY Working DEF TypeInv, JobsOK, Acts
<1>3. job[th].view \in Views /\ job[th].read \in RunRows
  BY <1>1 DEF Jobs
<1>4. job[th].view.open \subseteq AllOrders
  BY <1>3 DEF Views
<1> QED BY <1>2, <1>3, <1>4 DEF Filled

LEMMA RecoveredType ==
  ASSUME TypeInv, NEW r \in Runs, NEW o \in AllOrders, Recovered(r, o)
  PROVE  run' \in [Runs -> RunRows] /\ pos' \subseteq Runs \cup {Other}
<1>1. run' \in [Runs -> RunRows]
  BY FilledType DEF TypeInv, Recovered
<1> QED BY <1>1 DEF TypeInv, TypeOK, Recovered

LEMMA ActAboveType ==
  ASSUME TypeInv, NEW th \in Scanners, ActAbove(th)
  PROVE  TypeInv'
<1> DEFINE r == job[th].run
           v == job[th].view
<1>1. Acts(th, "above")
  BY DEF ActAbove
<1>2. r \in Runs /\ Filled(v) \subseteq AllOrders
  BY <1>1, ItsJob
<1>3. run' \in [Runs -> RunRows] /\ pos' \subseteq Runs \cup {Other}
  <2>1. CASE NoChange
    BY <2>1 DEF TypeInv, TypeOK, NoChange
  <2>2. CASE MarkUnknown(r) /\ UNCHANGED pos
    BY <1>2, <2>2, StatusType, Names DEF TypeInv, TypeOK, MarkUnknown
  <2>3. CASE \E o \in Filled(v) : Recovered(r, o)
    BY <1>2, <2>3, RecoveredType
  <2>4. CASE CancelPlan(r, "above") /\ UNCHANGED pos
    BY <1>2, <2>4, CancelType, Names DEF TypeInv, TypeOK
  <2> QED BY <2>1, <2>2, <2>3, <2>4 DEF ActAbove
<1> QED BY <1>1, <1>3, Acted

LEMMA ActTtlType ==
  ASSUME TypeInv, NEW th \in Scanners, ActTtl(th)
  PROVE  TypeInv'
<1> DEFINE r == job[th].run
           v == job[th].view
           own == job[th].read.no
<1>1. Acts(th, "ttl")
  BY DEF ActTtl
<1>2. r \in Runs /\ Filled(v) \subseteq AllOrders
  BY <1>1, ItsJob
<1>3. run' \in [Runs -> RunRows] /\ pos' \subseteq Runs \cup {Other}
  <2> DEFINE f == [run EXCEPT ![r].ttl = TRUE]
  <2>a. f \in [Runs -> RunRows]
    BY <1>2, SetTtl DEF TypeInv, TypeOK
  <2>1. CASE NoChange
    BY <2>1 DEF TypeInv, TypeOK, NoChange
  <2>2. CASE MarkUnknown(r) /\ UNCHANGED pos
    BY <1>2, <2>2, StatusType, Names DEF TypeInv, TypeOK, MarkUnknown
  <2>3. CASE own \in Filled(v) /\ Recovered(r, own)
    BY <1>2, <2>3, RecoveredType
  <2>4. CASE CancelPlan(r, "ttl") /\ UNCHANGED pos
    BY <1>2, <2>4, CancelType, Names DEF TypeInv, TypeOK
  <2>5. CASE run' = f /\ UNCHANGED pos
    BY <2>5, <2>a DEF TypeInv, TypeOK
  <2>6. CASE run' = [run EXCEPT ![r].ttl = TRUE, ![r].status = "ORDER_UNKNOWN"] /\ UNCHANGED pos
    <3>1. run' = [f EXCEPT ![r].status = "ORDER_UNKNOWN"]
      BY <2>6
    <3> HIDE DEF f
    <3>2. run' \in [Runs -> RunRows]
      BY <1>2, <2>a, <3>1, SetStatus, Names
    <3> QED BY <2>6, <3>2 DEF TypeInv, TypeOK
  <2>7. CASE UNCHANGED run /\ UNCHANGED pos
    BY <2>7 DEF TypeInv, TypeOK
  <2> QED BY <2>1, <2>2, <2>3, <2>4, <2>5, <2>6, <2>7 DEF ActTtl
<1> QED BY <1>1, <1>3, Acted

LEMMA RecoverFillType ==
  ASSUME TypeInv, NEW r \in Runs, NEW read, NEW o \in AllOrders \cup {NoOrder}, NEW qty,
         RecoverFill(r, read, o, qty)
  PROVE  run' \in [Runs -> RunRows] /\ pos' \subseteq Runs \cup {Other}
<1>1. CASE read.sized /\ qty < Qty
  <2> DEFINE f == [run EXCEPT ![r].status = "PARTIAL_FILLED"]
  <2>1. f \in [Runs -> RunRows]
    BY SetStatus, Names DEF TypeInv, TypeOK
  <2>2. run' = [f EXCEPT ![r].retry = FALSE]
    BY <1>1 DEF RecoverFill
  <2> HIDE DEF f
  <2>3. run' \in [Runs -> RunRows]
    BY <2>1, <2>2, SetRetry
  <2> QED BY <2>3 DEF RecoverFill, TypeInv, TypeOK
<1>2. CASE ~(read.sized /\ qty < Qty)
  <2> DEFINE f == [run EXCEPT ![r].status = "FILLED"]
             g == [f EXCEPT ![r].no = o]
  <2>1. f \in [Runs -> RunRows]
    BY SetStatus, Names DEF TypeInv, TypeOK
  <2>2. run' = [g EXCEPT ![r].retry = FALSE]
    BY <1>2 DEF RecoverFill
  <2>3. g \in [Runs -> RunRows]
    <3> HIDE DEF f
    <3> QED BY <2>1, SetNo
  <2> HIDE DEF g
  <2>4. run' \in [Runs -> RunRows]
    BY <2>2, <2>3, SetRetry
  <2> QED BY <2>4 DEF RecoverFill, TypeInv, TypeOK
<1> QED BY <1>1, <1>2

LEMMA RecoverOpenType ==
  ASSUME TypeInv, NEW r \in Runs, NEW read, NEW o \in AllOrders, RecoverOpen(r, read, o)
  PROVE  run' \in [Runs -> RunRows]
<1> DEFINE f == [run EXCEPT ![r].status = "ORDER_ACKED"]
           g == [f EXCEPT ![r].no = o]
           k == [g EXCEPT ![r].retry = FALSE]
<1>1. f \in [Runs -> RunRows]
  BY SetStatus, Names DEF TypeInv, TypeOK
<1>2. run' = [k EXCEPT ![r].sized = @ \/ read.no = NoOrder]
  BY DEF RecoverOpen
<1>3. g \in [Runs -> RunRows]
  <2> HIDE DEF f
  <2> QED BY <1>1, SetNo
<1>4. k \in [Runs -> RunRows]
  <2> HIDE DEF g
  <2> QED BY <1>3, SetRetry
<1> HIDE DEF k
<1>5. run' = [k EXCEPT ![r].sized = (k[r].sized \/ read.no = NoOrder)]
  BY <1>2, <1>4
<1>6. (k[r].sized \/ read.no = NoOrder) \in BOOLEAN
  OBVIOUS
<1> QED BY <1>4, <1>5, <1>6, SetSized

LEMMA UnexplainedType ==
  ASSUME TypeInv, NEW r \in Runs, NEW read, NEW available, Unexplained(r, read, available)
  PROVE  run' \in [Runs -> RunRows]
<1>1. CASE Retry(r, TRUE) \/ Retry(r, FALSE)
  BY <1>1, RetryType DEF TypeInv
<1>2. CASE run' = [run EXCEPT ![r].retry = TRUE, ![r].manual = TRUE]
  <2> DEFINE f == [run EXCEPT ![r].retry = TRUE]
  <2>1. f \in [Runs -> RunRows]
    BY SetRetry DEF TypeInv, TypeOK
  <2>2. run' = [f EXCEPT ![r].manual = TRUE]
    BY <1>2
  <2> HIDE DEF f
  <2> QED BY <2>1, <2>2, SetManual
<1>3. CASE run' = [run EXCEPT ![r].status = "CANCELLED", ![r].retry = FALSE,
                              ![r].cause = "no_evidence"]
  <2> DEFINE f == [run EXCEPT ![r].status = "CANCELLED"]
             g == [f EXCEPT ![r].retry = FALSE]
  <2>1. f \in [Runs -> RunRows]
    BY SetStatus, Names DEF TypeInv, TypeOK
  <2>2. run' = [g EXCEPT ![r].cause = "no_evidence"]
    BY <1>3
  <2>3. g \in [Runs -> RunRows]
    <3> HIDE DEF f
    <3> QED BY <2>1, SetRetry
  <2> HIDE DEF g
  <2> QED BY <2>2, <2>3, SetCause, Names
<1> QED BY <1>1, <1>2, <1>3 DEF Unexplained

\* What the evidence says.
LEMMA EvidenceMeans ==
  ASSUME NEW th \in Scanners
  PROVE  LET v == job[th].view
             own == job[th].read.no
         IN  /\ Evidence(th) = "own_fill" => own \in Filled(v)
             /\ Evidence(th) = "own_open" => own \in v.open
             /\ Evidence(th) = "holding" => v.held > 0
             /\ Evidence(th) = "local_holding" => job[th].run \in pos
  BY DEF Evidence

LEMMA ActUnknownType ==
  ASSUME TypeInv, NEW th \in Scanners, ActUnknown(th)
  PROVE  TypeInv'
<1> DEFINE r == job[th].run
           v == job[th].view
           read == job[th].read
<1>1. Acts(th, "unknown")
  BY DEF ActUnknown
<1>2. r \in Runs /\ Filled(v) \subseteq AllOrders /\ v.open \subseteq AllOrders
      /\ read.no \in AllOrders \cup {NoOrder}
  BY <1>1, ItsJob DEF RunRows
<1>3. run' \in [Runs -> RunRows] /\ pos' \subseteq Runs \cup {Other}
  <2> DEFINE f == [run EXCEPT ![r].status = "FILLED"]
             g == [run EXCEPT ![r].status = "CANCELLED"]
             h == [g EXCEPT ![r].retry = FALSE]
  <2>a. f \in [Runs -> RunRows] /\ g \in [Runs -> RunRows]
    BY <1>2, SetStatus, Names DEF TypeInv, TypeOK
  <2>b. h \in [Runs -> RunRows]
    <3> HIDE DEF g
    <3> QED BY <1>2, <2>a, SetRetry
  <2>1. CASE run' = [run EXCEPT ![r].status = "FILLED", ![r].retry = FALSE] /\ UNCHANGED pos
    <3>1. run' = [f EXCEPT ![r].retry = FALSE]
      BY <2>1
    <3> HIDE DEF f
    <3>2. run' \in [Runs -> RunRows]
      BY <1>2, <2>a, <3>1, SetRetry
    <3> QED BY <2>1, <3>2 DEF TypeInv, TypeOK
  <2>2. CASE Evidence(th) = "own_fill" /\ RecoverFill(r, read, read.no, v.fills[read.no])
    BY <1>2, <2>2, RecoverFillType
  <2>3. CASE Evidence(th) = "own_open" /\ RecoverOpen(r, read, read.no) /\ UNCHANGED pos
    BY <1>2, <2>3, EvidenceMeans, RecoverOpenType DEF TypeInv, TypeOK
  <2>4. CASE RecoverFill(r, read, read.no, v.held)
    BY <1>2, <2>4, RecoverFillType
  <2>5. CASE run' = [run EXCEPT ![r].status = "CANCELLED", ![r].retry = FALSE,
                                ![r].cause = "path_a"] /\ UNCHANGED pos
    <3>1. run' = [h EXCEPT ![r].cause = "path_a"]
      BY <2>5
    <3> HIDE DEF h
    <3>2. run' \in [Runs -> RunRows]
      BY <1>2, <2>b, <3>1, SetCause, Names
    <3> QED BY <2>5, <3>2 DEF TypeInv, TypeOK
  <2>6. CASE Retry(r, TRUE) /\ UNCHANGED pos
    BY <1>2, <2>6, RetryType DEF TypeInv, TypeOK
  <2>7. CASE \E o \in Filled(v) : RecoverFill(r, read, o, v.fills[o])
    BY <1>2, <2>7, RecoverFillType
  <2>8. CASE (\E o \in v.open : RecoverOpen(r, read, o)) /\ UNCHANGED pos
    BY <1>2, <2>8, RecoverOpenType DEF TypeInv, TypeOK
  <2>9. CASE (\E available \in BOOLEAN : Unexplained(r, read, available)) /\ UNCHANGED pos
    BY <1>2, <2>9, UnexplainedType DEF TypeInv, TypeOK
  <2> QED BY <2>1, <2>2, <2>3, <2>4, <2>5, <2>6, <2>7, <2>8, <2>9 DEF ActUnknown
<1> QED BY <1>1, <1>3, Acted

-----------------------------------------------------------------------------
(* The bot's fills and positions, the broker, plans and the session *)

LEMMA LearnFillType ==
  ASSUME TypeInv, NEW th \in Scanners, NEW o \in AllOrders, LearnFill(th, o)
  PROVE  TypeInv'
<1> DEFINE r == row[o].run
<1>1. broker[o] \in BrokerOrders /\ r \in Runs /\ row[o] \in Rows /\ row[o].left \in 0 .. Qty
  BY DEF TypeInv, TypeOK, OrdersOK, LearnFill, Rows
<1>2. broker[o].filled \in 0 .. Qty
  BY <1>1 DEF BrokerOrders
<1>3. PICK n \in 1 .. (broker[o].filled - (Qty - row[o].left)) :
        /\ row' = [row EXCEPT ![o].left = @ - n]
        /\ IF n < row[o].left THEN MarkStatus(r, "PARTIAL_FILLED") ELSE MarkFilled(r, o)
        /\ pos' = pos \cup {r}
  BY DEF LearnFill
<1>4. row[o].left - n \in 0 .. Qty /\ row[o].left - n <= row[o].left
  BY <1>1, <1>2, <1>3, SizesAssumption
<1> DEFINE new == [row[o] EXCEPT !.left = @ - n]
<1>a. new \in Rows /\ new.left = row[o].left - n /\ new.run = r
  BY <1>1, <1>4 DEF Rows
<1>b. row' = [row EXCEPT ![o] = new]
  BY <1>1, <1>3 DEF TypeInv, TypeOK, Rows
<1> HIDE DEF new
<1>5. row' \in [AllOrders -> Rows] /\ row'[o] = new
      /\ \A p \in AllOrders \ {o} : row'[p] = row[p]
  BY <1>a, <1>b DEF TypeInv, TypeOK
<1>6. run' \in [Runs -> RunRows]
  BY <1>1, <1>3, StatusType, FilledType, Names DEF TypeInv
<1>7. Grow
  BY DEF LearnFill, Grow
<1>8. JobsOK'
  BY <1>7, JobStays DEF TypeInv, LearnFill
<1>9. TypeOK'
  BY <1>1, <1>3, <1>5, <1>6 DEF TypeInv, TypeOK, LearnFill, session, bounds
<1>10. OrdersOK'
  BY <1>1, <1>5, <1>a DEF TypeInv, OrdersOK, LearnFill
<1> QED BY <1>8, <1>9, <1>10 DEF TypeInv

\* A step of the store and the positions alone.
LEMMA StoreType ==
  ASSUME TypeInv, UNCHANGED <<broker, row, job, session>>,
         UNCHANGED bounds \/ UNCHANGED <<kills, strays>>,
         run' \in [Runs -> RunRows], pos' \subseteq Runs \cup {Other}, crashes' \in Nat
  PROVE  TypeInv'
<1>1. kills' = kills /\ strays' = strays
  BY DEF bounds
<1>2. TypeOK'
  BY <1>1 DEF TypeInv, TypeOK, session
<1>3. OrdersOK'
  BY DEF TypeInv, OrdersOK
<1>4. JobsOK'
  BY DEF TypeInv, JobsOK
<1> QED BY <1>2, <1>3, <1>4 DEF TypeInv

LEMMA SyncPositionsType ==
  ASSUME TypeInv, SyncPositions
  PROVE  TypeInv'
<1>1. pos' \subseteq Runs \cup {Other}
  <2>1. \A o \in AllOrders : row[o].left > 0 => row[o].run \in Runs
    BY DEF TypeInv, OrdersOK
  <2> QED BY <2>1 DEF TypeInv, TypeOK, SyncPositions
<1>2. run' \in [Runs -> RunRows]
  BY StatusType, Names DEF TypeInv, TypeOK, SyncPositions
<1>3. crashes' \in Nat
  BY DEF TypeInv, TypeOK, SyncPositions, bounds
<1> QED BY <1>1, <1>2, <1>3, StoreType DEF SyncPositions

\* A step of one order at the broker.
LEMMA OrderType ==
  ASSUME TypeInv, NEW o \in AllOrders, NEW new \in BrokerOrders, SetBroker(o, new), BrokerOnly,
         broker[o].st # "none", new.st # "none", new.by = broker[o].by
  PROVE  TypeInv'
<1>1. broker' = [broker EXCEPT ![o] = new]
  BY DEF SetBroker
<1>2. broker' \in [AllOrders -> BrokerOrders]
  BY <1>1 DEF TypeInv, TypeOK
<1>3. OrdersOK'
  BY <1>1 DEF TypeInv, TypeOK, OrdersOK, BrokerOnly, AllOrders
<1>4. Grow
  BY <1>1 DEF TypeInv, TypeOK, Grow, AllOrders
<1>5. JobsOK'
  BY <1>4, JobStays DEF TypeInv, BrokerOnly
<1>6. TypeOK'
  BY <1>2 DEF TypeInv, TypeOK, BrokerOnly, session, bounds
<1> QED BY <1>3, <1>5, <1>6 DEF TypeInv

LEMMA BrokerType ==
  ASSUME TypeInv, Broker
  PROVE  TypeInv'
<1>1. ASSUME NEW o \in AllOrders, BrokerAccept(o)
      PROVE  TypeInv'
  <2>1. PICK st \in {"open", "done"} : SetBroker(o, [broker[o] EXCEPT !.st = st])
    BY <1>1 DEF BrokerAccept
  <2>2. broker[o] \in BrokerOrders
    BY DEF TypeInv, TypeOK
  <2> DEFINE new == [broker[o] EXCEPT !.st = st]
  <2>3. new \in BrokerOrders /\ new.st # "none" /\ new.by = broker[o].by
    BY <2>2 DEF BrokerOrders
  <2> HIDE DEF new
  <2> QED BY <1>1, <2>1, <2>3, OrderType DEF BrokerAccept, new
<1>2. ASSUME NEW o \in AllOrders, BrokerFill(o)
      PROVE  TypeInv'
  <2>1. PICK q \in broker[o].filled + 1 .. Qty :
              SetBroker(o, [broker[o] EXCEPT !.filled = q, !.st = IF q = Qty THEN "done" ELSE @])
    BY <1>2 DEF BrokerFill
  <2>2. broker[o] \in BrokerOrders
    BY DEF TypeInv, TypeOK
  <2> DEFINE new == [broker[o] EXCEPT !.filled = q, !.st = IF q = Qty THEN "done" ELSE @]
  <2>3. q \in 0 .. Qty
    BY <2>2, SizesAssumption DEF BrokerOrders
  <2>4. new \in BrokerOrders /\ new.st # "none" /\ new.by = broker[o].by
    BY <1>2, <2>2, <2>3 DEF BrokerOrders, BrokerFill
  <2>5. SetBroker(o, new)
    BY <2>1
  <2> HIDE DEF new
  <2> QED BY <1>2, <2>4, <2>5, OrderType DEF BrokerFill
<1>3. ASSUME NEW o \in AllOrders, BrokerDrop(o)
      PROVE  TypeInv'
  <2>1. broker[o] \in BrokerOrders
    BY DEF TypeInv, TypeOK
  <2> DEFINE new == [broker[o] EXCEPT !.st = "done"]
  <2>2. new \in BrokerOrders /\ new.st # "none" /\ new.by = broker[o].by
    BY <2>1 DEF BrokerOrders
  <2>3. SetBroker(o, new)
    BY <1>3 DEF BrokerDrop
  <2> HIDE DEF new
  <2> QED BY <1>3, <2>2, <2>3, OrderType DEF BrokerDrop
<1>4. ASSUME NEW o \in Others, NEW who \in {"user", "path_a"}, OtherOrder(o, who)
      PROVE  TypeInv'
  <2>1. o \in AllOrders /\ o \notin Orders
    BY NamesAssumption DEF AllOrders
  <2>2. broker' \in [AllOrders -> BrokerOrders] /\ OrdersOK' /\ Grow
    BY <1>4, <2>1, Taken DEF OtherOrder, BrokerOnly
  <2>3. JobsOK'
    BY <1>4, <2>2, JobStays DEF TypeInv, OtherOrder, BrokerOnly
  <2>4. TypeOK'
    BY <1>4, <2>2 DEF TypeInv, TypeOK, OtherOrder, BrokerOnly, session, bounds
  <2> QED BY <2>2, <2>3, <2>4 DEF TypeInv
<1> QED BY <1>1, <1>2, <1>3, <1>4 DEF Broker

LEMMA PlanType ==
  ASSUME TypeInv, Plan
  PROVE  TypeInv'
<1>1. ASSUME NEW r \in Runs, Register(r)
      PROVE  TypeInv'
  <2> DEFINE f == [run EXCEPT ![r].status = "WAITING"]
  <2>1. f \in [Runs -> RunRows]
    BY SetStatus, Names DEF TypeInv, TypeOK
  <2>2. run' = [f EXCEPT ![r].day = day]
    BY <1>1 DEF Register
  <2>3. day \in 0 .. MaxDays
    BY SizesAssumption DEF TypeInv, TypeOK
  <2> HIDE DEF f
  <2>4. run' \in [Runs -> RunRows]
    BY <2>1, <2>2, <2>3, SetDay
  <2> QED BY <1>1, <2>4, StoreType DEF Register, TypeInv, TypeOK, bounds
<1>2. ASSUME NEW r \in Runs, CancelUnsent(r)
      PROVE  TypeInv'
  <2>1. run' \in [Runs -> RunRows]
    BY <1>2, CancelType, Names DEF TypeInv, CancelUnsent
  <2> QED BY <1>2, <2>1, StoreType DEF CancelUnsent, TypeInv, TypeOK, bounds
<1>3. ASSUME Kill
      PROVE  TypeInv'
  <2>1. \A r \in Runs : [run[r] EXCEPT !.status = "CANCELLED", !.cause = "kill"] \in RunRows
    BY Names DEF TypeInv, TypeOK, RunRows
  <2>2. run' \in [Runs -> RunRows]
    BY <1>3, <2>1 DEF TypeInv, TypeOK, Kill
  <2>3. UNCHANGED <<broker, row, pos, job, phase, day, todo, crashes, strays>>
        /\ enabled' = FALSE /\ kills' = kills + 1
    BY <1>3 DEF Kill
  <2>4. kills' \in Nat
    BY <2>3 DEF TypeInv, TypeOK
  <2>5. TypeOK'
    BY <2>2, <2>3, <2>4 DEF TypeInv, TypeOK
  <2> QED BY <2>3, <2>5 DEF TypeInv, OrdersOK, JobsOK
<1>4. ASSUME Enable
      PROVE  TypeInv'
  BY <1>4 DEF Enable, TypeInv, TypeOK, OrdersOK, JobsOK, bounds
<1> QED BY <1>1, <1>2, <1>3, <1>4 DEF Plan

LEMMA SessionType ==
  ASSUME TypeInv, Session
  PROVE  TypeInv'
<1>1. ASSUME CloseMarket
      PROVE  TypeInv'
  <2> DEFINE new(o) == IF Live(o) THEN [broker[o] EXCEPT !.st = "done"] ELSE broker[o]
  <2>1. \A o \in AllOrders : /\ new(o) \in BrokerOrders /\ new(o).by = broker[o].by
                             /\ new(o).filled = broker[o].filled
                             /\ new(o).st = "none" <=> broker[o].st = "none"
    BY DEF TypeInv, TypeOK, BrokerOrders, Live
  <2>2. broker' = [o \in AllOrders |-> new(o)]
    BY <1>1 DEF CloseMarket
  <2> HIDE DEF new
  <2>3. broker' \in [AllOrders -> BrokerOrders]
    BY <2>1, <2>2
  <2>4. OrdersOK'
    BY <1>1, <2>1, <2>2 DEF TypeInv, OrdersOK, CloseMarket, AllOrders
  <2>5. Grow
    BY <2>1, <2>2 DEF Grow, AllOrders
  <2>6. JobsOK'
    BY <1>1, <2>5, JobStays DEF TypeInv, CloseMarket
  <2>7. TypeOK'
    BY <1>1, <2>3 DEF TypeInv, TypeOK, CloseMarket, bounds
  <2> QED BY <2>4, <2>6, <2>7 DEF TypeInv
<1>2. ASSUME EndSession
      PROVE  TypeInv'
  <2>1. \A r \in Runs : [run[r] EXCEPT !.status = "EXPIRED"] \in RunRows
    BY Names DEF TypeInv, TypeOK, RunRows
  <2>2. run' \in [Runs -> RunRows]
    BY <1>2, <2>1 DEF TypeInv, TypeOK, EndSession
  <2>3. row' \in [AllOrders -> Rows] /\ \A o \in AllOrders : row'[o].left = 0
    BY <1>2, NewTypes DEF EndSession
  <2>4. TypeOK'
    BY <1>2, <2>2, <2>3 DEF TypeInv, TypeOK, EndSession, bounds
  <2> QED BY <1>2, <2>3, <2>4 DEF TypeInv, OrdersOK, JobsOK, EndSession
<1>3. ASSUME OpenSession
      PROVE  TypeInv'
  <2>1. day' \in 1 .. MaxDays
    BY <1>3, SizesAssumption DEF TypeInv, TypeOK, OpenSession
  <2>2. TypeOK'
    BY <1>3, <2>1 DEF TypeInv, TypeOK, OpenSession, bounds
  <2> QED BY <1>3, <2>2 DEF TypeInv, OrdersOK, JobsOK, OpenSession
<1>4. ASSUME Opened
      PROVE  TypeInv'
  BY <1>4 DEF Opened, TypeInv, TypeOK, OrdersOK, JobsOK, bounds
<1> QED BY <1>1, <1>2, <1>3, <1>4 DEF Session

\* Jobs end with the process.
LEMMA NoJobs ==
  ASSUME job' = [th \in Scanners |-> NoJob]
  PROVE  job' \in [Scanners -> Jobs] /\ JobsOK'
<1>1. NoJob \in Jobs /\ NoJob.at = "idle"
  BY NewTypes DEF NoJob
<1> QED BY <1>1 DEF JobsOK

LEMMA CrashType ==
  ASSUME TypeInv, Crash \/ CrashInClose
  PROVE  TypeInv'
<1>1. job' \in [Scanners -> Jobs] /\ JobsOK'
  BY NoJobs DEF Crash, CrashInClose
<1>2. CASE Crash
  <2>1. /\ row' \in [AllOrders -> Rows]
        /\ \A o \in AllOrders : row'[o].left > 0 => row'[o] = row[o]
    <3>1. row' \in Restored
      BY <1>2 DEF Crash
    <3>2. CASE row' = row
      BY <3>2 DEF TypeInv, TypeOK
    <3>3. CASE \E o \in AllOrders : row' = [p \in AllOrders |-> IF p = o THEN row[p] ELSE NoRow]
      BY <3>3, NewTypes DEF TypeInv, TypeOK
    <3> QED BY <3>1, <3>2, <3>3 DEF Restored
  <2>2. /\ \A r \in Runs : [run[r] EXCEPT !.status = "FILLED"] \in RunRows
        /\ \A r \in Runs : [run[r] EXCEPT !.status = "ORDER_UNKNOWN"] \in RunRows
    BY Names DEF TypeInv, TypeOK, RunRows
  <2> DEFINE entry(r) == Today(r) /\ run[r].status \in Pending \cup {"PARTIAL_FILLED"}
             ownRow(r) == \E o \in AllOrders : row'[o].left > 0 /\ row'[o].run = r
             looking == {r \in Runs : entry(r) \/ (Today(r) /\ run[r].status = "FILLED")}
  <2>3. run' \in [Runs -> RunRows]
    <3>1. \/ run' = [r \in Runs |-> IF entry(r) THEN [run[r] EXCEPT !.status = "FILLED"]
                                                ELSE run[r]]
          \/ run' = [r \in Runs |-> IF entry(r) /\ ~ownRow(r)
                                    THEN [run[r] EXCEPT !.status = "ORDER_UNKNOWN"]
                                    ELSE run[r]]
      BY <1>2 DEF Crash
    <3> HIDE DEF entry, ownRow
    <3> QED BY <2>2, <3>1 DEF TypeInv, TypeOK
  <2>4. pos' \subseteq Runs \cup {Other}
    <3>1. UNCHANGED pos \/ \E r \in looking : pos' = {r}
      BY <1>2 DEF Crash
    <3> QED BY <3>1 DEF TypeInv, TypeOK
  <2>5. TypeOK'
    BY <1>1, <1>2, <2>1, <2>3, <2>4 DEF TypeInv, TypeOK, Crash, session
  <2>6. OrdersOK'
    BY <1>2, <2>1 DEF TypeInv, OrdersOK, Crash
  <2> QED BY <1>1, <2>5, <2>6 DEF TypeInv
<1>3. CASE CrashInClose
  <2>1. row' \in [AllOrders -> Rows] /\ \A o \in AllOrders : row'[o].left = 0
    BY <1>3, NewTypes DEF CrashInClose
  <2>2. TypeOK'
    BY <1>1, <1>3, <2>1 DEF TypeInv, TypeOK, CrashInClose
  <2>3. OrdersOK'
    BY <1>3, <2>1 DEF TypeInv, OrdersOK, CrashInClose
  <2> QED BY <1>1, <2>2, <2>3 DEF TypeInv
<1> QED BY <1>2, <1>3

LEMMA NextType == TypeInv /\ [Next]_vars => TypeInv'
<1> SUFFICES ASSUME TypeInv, [Next]_vars PROVE TypeInv'
  OBVIOUS
<1>1. CASE UNCHANGED vars
  BY <1>1 DEF vars, TypeInv, TypeOK, OrdersOK, JobsOK
<1>2. ASSUME NEW th \in Scanners, Scan(th)
      PROVE  TypeInv'
  <2>1. CASE \E r \in Runs : \/ CheckEntry(th, r)
                            \/ StartAbove(th, r) \/ StartTtl(th, r) \/ StartUnknown(th, r)
    BY <2>1, CheckEntryType, StartAboveType, StartTtlType, StartUnknownType
  <2>2. CASE Submit(th)
    BY <2>2, GatePassType, GateBlockType, PrecheckType, PlaceAcceptedType, PlaceUnknownType,
       PlaceRejectedType, PlaceAgainType, PlaceFoundType, MarkSentType, MarkAckedType,
           AddPendingOrderType DEF Submit
  <2>3. CASE Reconcile(th)
    BY <2>3, RefreshOkType, RefreshFailedType, ActAboveType, ActTtlType, ActUnknownType
       DEF Reconcile
  <2> QED BY <1>2, <2>1, <2>2, <2>3 DEF Scan
<1>3. CASE \E th \in Scanners, o \in AllOrders : LearnFill(th, o)
  BY <1>3, LearnFillType
<1>4. CASE Rest
  BY <1>1, <1>4 DEF Rest
<1> QED BY <1>1, <1>2, <1>3, <1>4, PlanType, SyncPositionsType, BrokerType, SessionType, CrashType
        DEF Next

\* The rows of the store, the orders, rows, positions and jobs keep their shape, whatever
\* the trading loop, the WebSocket thread, the Telegram thread, the broker and crashes do.
THEOREM TypeCorrect == Spec => []TypeOK
<1>1. Spec => []TypeInv
  BY InitType, NextType, PTL DEF Spec
<1>2. TypeInv => TypeOK
  BY DEF TypeInv
<1> QED BY <1>1, <1>2, PTL

-----------------------------------------------------------------------------
(* Nothing is entered before anything was bought *)

Out == \A r \in Runs : run[r].status \notin Entered

\* A snapshot that shows neither a fill nor a holding.
Blank(v) == ~ (v.held > 0) /\ Filled(v) = {}

\* Not only the store and the positions, but every snapshot that a scanner may yet act on.
Empty == /\ Out
         /\ pos = {}
         /\ \A th \in Scanners : Blank(job[th].view)

HasShares == Bought \/ Empty

LEMMA BlankNoView == Blank(NoView)
  BY DEF Blank, Filled, NoView

\* Shares once bought stay in an order.
FillsStay == \A o \in AllOrders : broker[o].filled > 0 => broker'[o].filled > 0

LEMMA TakenFills ==
  ASSUME TypeInv, NEW o \in AllOrders, NEW r, NEW st, BrokerTakes(o, r, st)
  PROVE  FillsStay
<1>1. broker[o].filled = 0
  BY DEF TypeInv, OrdersOK, BrokerTakes, Request
<1> QED BY <1>1 DEF BrokerTakes, Request, TypeInv, TypeOK, FillsStay

LEMMA NextFills == TypeInv /\ [Next]_vars => FillsStay
<1> SUFFICES ASSUME TypeInv, [Next]_vars PROVE FillsStay
  OBVIOUS
<1>1. CASE UNCHANGED broker
  BY <1>1 DEF FillsStay
<1>2. CASE UNCHANGED vars
  BY <1>1, <1>2 DEF vars
<1>3. CASE Plan
  BY <1>1, <1>3 DEF Plan, Register, CancelUnsent, Kill, Enable
<1>4. ASSUME NEW th \in Scanners, Scan(th)
      PROVE  FillsStay
  <2>1. CASE \E r \in Runs : \/ CheckEntry(th, r)
                            \/ StartAbove(th, r) \/ StartTtl(th, r) \/ StartUnknown(th, r)
    BY <1>1, <2>1 DEF CheckEntry, StartAbove, StartTtl, StartUnknown
  <2>2. CASE PlaceAccepted(th)
    BY <2>2, TakenFills DEF PlaceAccepted, Submitted, AllOrders
  <2>3. CASE PlaceUnknown(th)
    BY <1>1, <2>3, TakenFills DEF PlaceUnknown, AllOrders
  <2>6. CASE PlaceAgain(th)
    <3>1. ASSUME NEW o \in Orders, NEW p \in Orders, NEW st,
                 broker[o].st = "none", broker[p].st = "none",
                 broker' = [broker EXCEPT ![o] = Request(job[th].run, "transit"),
                                          ![p] = Request(job[th].run, st)]
          PROVE  FillsStay
      <4>1. broker[o].filled = 0 /\ broker[p].filled = 0
        BY <3>1 DEF TypeInv, OrdersOK, AllOrders
      <4>2. \A q \in AllOrders \ {o, p} : broker'[q] = broker[q]
        BY <3>1 DEF TypeInv, TypeOK
      <4> QED BY <4>1, <4>2 DEF FillsStay
    <3> QED BY <2>6, <3>1, TakenFills DEF PlaceAgain, AllOrders
  <2>7. CASE PlaceFound(th)
    BY <1>1, <2>7, TakenFills DEF PlaceFound, AllOrders
  <2>4. CASE \/ GatePass(th) \/ GateBlock(th) \/ Precheck(th) \/ PlaceRejected(th)
            \/ MarkSent(th) \/ MarkAcked(th) \/ AddPendingOrder(th)
    BY <1>1, <2>4 DEF GatePass, GateBlock, Precheck, PlaceRejected, SubmitRefused, MarkSent,
       MarkAcked,
                      AddPendingOrder
  <2>5. CASE Reconcile(th)
    BY <1>1, <2>5 DEF Reconcile, RefreshOk, RefreshFailed, ActAbove, ActTtl, ActUnknown, Acts
  <2> QED BY <1>4, <2>1, <2>2, <2>3, <2>4, <2>5, <2>6, <2>7 DEF Scan, Submit
<1>5. CASE \E th \in Scanners, o \in AllOrders : LearnFill(th, o)
  BY <1>1, <1>5 DEF LearnFill
<1>6. CASE SyncPositions
  BY <1>1, <1>6 DEF SyncPositions
<1>7. CASE Broker
  <2>1. ASSUME NEW o \in AllOrders, BrokerAccept(o) \/ BrokerDrop(o)
        PROVE  FillsStay
    BY <2>1 DEF BrokerAccept, BrokerDrop, SetBroker, TypeInv, TypeOK, BrokerOrders, FillsStay
  <2>2. ASSUME NEW o \in AllOrders, BrokerFill(o)
        PROVE  FillsStay
    <3>1. PICK q \in broker[o].filled + 1 .. Qty :
                SetBroker(o, [broker[o] EXCEPT !.filled = q, !.st = IF q = Qty THEN "done" ELSE @])
      BY <2>2 DEF BrokerFill
    <3>2. broker[o] \in BrokerOrders /\ broker[o].filled \in Nat
      BY SizesAssumption DEF TypeInv, TypeOK, BrokerOrders
    <3>3. broker'[o].filled = q /\ \A p \in AllOrders \ {o} : broker'[p] = broker[p]
      BY <3>1, <3>2 DEF SetBroker, TypeInv, TypeOK, BrokerOrders
    <3> QED BY <3>2, <3>3 DEF FillsStay
  <2>3. ASSUME NEW o \in Others, NEW who \in {"user", "path_a"}, OtherOrder(o, who)
        PROVE  FillsStay
    BY <2>3, TakenFills DEF OtherOrder, AllOrders
  <2> QED BY <1>7, <2>1, <2>2, <2>3 DEF Broker
<1>8. CASE Session
  <2>1. CASE CloseMarket
    <3>1. \A o \in AllOrders : broker'[o].filled = broker[o].filled
      BY <2>1 DEF CloseMarket, TypeInv, TypeOK, BrokerOrders
    <3> QED BY <3>1 DEF FillsStay
  <2> QED BY <1>1, <1>8, <2>1 DEF Session, EndSession, OpenSession, Opened
<1>9. CASE Crash \/ CrashInClose \/ Rest
  BY <1>1, <1>9 DEF Crash, CrashInClose, Rest, vars
<1> QED BY <1>2, <1>3, <1>4, <1>5, <1>6, <1>7, <1>8, <1>9 DEF Next

\* What a step does to the snapshots, short of taking a new one.
ViewsStay == \A th \in Scanners : job'[th].view \in {job[th].view, NoView}

LEMMA ViewsKept ==
  ASSUME TypeInv, NEW th \in Scanners,
         \/ UNCHANGED job
         \/ Leave(th)
         \/ \E place : Goto(th, place)
         \/ \E place, what, r : Enter(th, place, what, r)
  PROVE  ViewsStay
<1>a. \A u \in Scanners : job[u] \in Jobs
  BY DEF TypeInv, TypeOK
<1>1. CASE UNCHANGED job
  BY <1>1 DEF ViewsStay
<1>2. CASE Leave(th)
  <2>1. \A u \in Scanners : job'[u] \in {job[u], NoJob}
    BY <1>2 DEF TypeInv, TypeOK, Leave
  <2>2. NoJob.view = NoView
    BY DEF NoJob
  <2> QED BY <2>1, <2>2 DEF ViewsStay
<1>3. ASSUME NEW place, Goto(th, place)
      PROVE  ViewsStay
  <2>1. job' = [job EXCEPT ![th] = [job[th] EXCEPT !.at = place]]
    BY <1>3 DEF TypeInv, TypeOK, Goto
  <2>2. [job[th] EXCEPT !.at = place].view = job[th].view
    BY <1>a DEF Jobs
  <2> QED BY <2>1, <2>2 DEF TypeInv, TypeOK, ViewsStay
<1>4. ASSUME NEW place, NEW what, NEW r, Enter(th, place, what, r)
      PROVE  ViewsStay
  <2>1. \A u \in Scanners \ {th} : job'[u] = job[u]
    BY <1>4 DEF TypeInv, TypeOK, Enter
  <2>2. job'[th].view = job[th].view
    BY <1>4, <1>a DEF TypeInv, TypeOK, Enter, Jobs
  <2> QED BY <2>1, <2>2 DEF ViewsStay
<1> QED BY <1>1, <1>2, <1>3, <1>4

LEMMA EmptyStays ==
  ASSUME Empty, Out', pos' = {}, ViewsStay
  PROVE  Empty'
<1>1. \A th \in Scanners : Blank(job'[th].view)
  BY BlankNoView DEF Empty, ViewsStay
<1> QED BY <1>1 DEF Empty, Blank, Filled

\* Writes that enter nothing.
LEMMA OutStatus ==
  ASSUME TypeOK, Out, NEW r, NEW status, status \notin Entered, MarkStatus(r, status)
  PROVE  Out'
  BY DEF TypeOK, RunRows, Out, MarkStatus

LEMMA OutCancel ==
  ASSUME TypeOK, Out, NEW r, NEW why, CancelPlan(r, why)
  PROVE  Out'
<1>1. "CANCELLED" \notin Entered
  BY DEF Entered
<1>2. CASE r \in Runs
  BY <1>1, <1>2 DEF TypeOK, RunRows, Out, CancelPlan
<1>3. CASE r \notin Runs
  BY <1>3 DEF TypeOK, Out, CancelPlan
<1> QED BY <1>2, <1>3

LEMMA OutOpen ==
  ASSUME TypeOK, Out, NEW r \in Runs, NEW read, NEW o, RecoverOpen(r, read, o)
  PROVE  Out'
  BY DEF TypeOK, RunRows, Out, Entered, RecoverOpen

LEMMA OutUnexplained ==
  ASSUME TypeOK, Out, NEW r \in Runs, NEW read, NEW available, Unexplained(r, read, available)
  PROVE  Out'
  BY DEF TypeOK, RunRows, Out, Entered, Unexplained, Retry

LEMMA PlanEmpty ==
  ASSUME TypeInv, Empty, Plan
  PROVE  Empty'
<1>1. Out'
  <2>1. ASSUME NEW r \in Runs, Register(r)
        PROVE  Out'
    BY <2>1 DEF Register, TypeInv, TypeOK, RunRows, Empty, Out, Entered
  <2>2. ASSUME NEW r \in Runs, CancelUnsent(r)
        PROVE  Out'
    BY <2>2, OutCancel DEF CancelUnsent, TypeInv, Empty
  <2>3. CASE Kill
    BY <2>3 DEF Kill, TypeInv, TypeOK, RunRows, Empty, Out, Entered
  <2>4. CASE Enable
    BY <2>4 DEF Enable, Empty, Out
  <2> QED BY <2>1, <2>2, <2>3, <2>4 DEF Plan
<1>2. UNCHANGED <<pos, job>>
  BY DEF Plan, Register, CancelUnsent, Kill, Enable
<1> QED BY <1>1, <1>2 DEF Empty, Blank, Filled

LEMMA SubmittedEmpty ==
  ASSUME TypeInv, Empty, NEW th \in Scanners, NEW o, Submitted(th, o), UNCHANGED <<run, pos>>
  PROVE  Empty'
<1>1. Out' /\ pos' = {} /\ job[th] \in Jobs
  BY DEF Empty, Out, TypeInv, TypeOK
<1>2. \A u \in Scanners \ {th} : job'[u] = job[u]
  BY DEF Submitted, TypeInv, TypeOK
<1>3. job'[th].view = job[th].view
  BY <1>1 DEF Submitted, TypeInv, TypeOK, Jobs
<1> QED BY <1>1, <1>2, <1>3, EmptyStays DEF ViewsStay

LEMMA SubmitUnknownEmpty ==
  ASSUME TypeInv, Empty, NEW th \in Scanners, SubmitUnknown(th), UNCHANGED pos
  PROVE  Empty'
<1>1. pos' = {} /\ job[th] \in Jobs /\ "ORDER_UNKNOWN" \notin Entered
  BY DEF Empty, TypeInv, TypeOK, Entered
<1>2. Out'
  BY <1>1, OutStatus DEF SubmitUnknown, MarkUnknown, TypeInv, Empty
<1>3. \A u \in Scanners \ {th} : job'[u] = job[u]
  BY DEF SubmitUnknown, TypeInv, TypeOK
<1>4. job'[th].view = job[th].view
  BY <1>1 DEF SubmitUnknown, TypeInv, TypeOK, Jobs
<1> QED BY <1>1, <1>2, <1>3, <1>4, EmptyStays DEF ViewsStay

LEMMA SubmitRefusedEmpty ==
  ASSUME TypeInv, Empty, NEW th \in Scanners, job[th].at = "place", SubmitRefused(th),
         UNCHANGED pos
  PROVE  Empty'
<1>1. job[th].run \in Runs
  BY Working DEF TypeInv, JobsOK
<1>2. Out'
  BY <1>1 DEF SubmitRefused, TypeInv, TypeOK, RunRows, Empty, Out, Entered
<1>3. pos' = {}
  BY DEF Empty
<1> QED BY <1>2, <1>3, ViewsKept, EmptyStays DEF SubmitRefused

LEMMA SubmitEmpty ==
  ASSUME TypeInv, Empty, NEW th \in Scanners, Submit(th)
  PROVE  Empty'
<1> DEFINE r == job[th].run
<1>1. CASE \/ PlaceAccepted(th) \/ PlaceUnknown(th) \/ PlaceRejected(th)
           \/ PlaceAgain(th) \/ PlaceFound(th)
  BY <1>1, SubmittedEmpty, SubmitUnknownEmpty, SubmitRefusedEmpty
     DEF PlaceAccepted, PlaceUnknown, PlaceRejected, PlaceAgain, PlaceFound
<1>0. CASE \/ GatePass(th) \/ GateBlock(th) \/ Precheck(th) \/ MarkSent(th) \/ MarkAcked(th)
           \/ AddPendingOrder(th)
  <2>1. pos' = {}
    BY <1>0 DEF Empty, GatePass, GateBlock, Precheck, MarkSent, MarkAcked, AddPendingOrder
  <2>2. Out /\ TypeOK /\ "HIT" \notin Entered
    BY DEF Empty, TypeInv, Entered
  <2>3. CASE GatePass(th)
    BY <2>1, <2>2, <2>3, OutStatus, ViewsKept, EmptyStays DEF GatePass
  <2>4. CASE GateBlock(th)
    <3>1. Out'
      BY <2>2, <2>4, OutCancel DEF GateBlock, Out
    <3> QED BY <2>1, <2>4, <3>1, ViewsKept, EmptyStays DEF GateBlock
  <2>5. CASE Precheck(th)
    <3>1. Out'
      BY <2>2, <2>5, OutCancel DEF Precheck, Out
    <3> QED BY <2>1, <2>5, <3>1, ViewsKept, EmptyStays DEF Precheck
  <2>6. CASE MarkSent(th)
    <3>1. r \in Runs
      BY <2>6, ItsOrder DEF MarkSent
    <3>2. Out'
      BY <2>2, <2>6, <3>1 DEF MarkSent, TypeOK, RunRows, Out, Entered
    <3> QED BY <2>1, <2>6, <3>2, ViewsKept, EmptyStays DEF MarkSent
  <2>7. CASE MarkAcked(th)
    <3>1. r \in Runs
      BY <2>7, ItsOrder DEF MarkAcked
    <3>2. Out'
      BY <2>2, <2>7, <3>1 DEF MarkAcked, TypeOK, RunRows, Out, Entered
    <3> QED BY <2>1, <2>7, <3>2, ViewsKept, EmptyStays DEF MarkAcked
  <2>8. CASE AddPendingOrder(th)
    BY <2>1, <2>2, <2>8, ViewsKept, EmptyStays DEF AddPendingOrder, Out
  <2> QED BY <1>0, <2>3, <2>4, <2>5, <2>6, <2>7, <2>8
<1> QED BY <1>0, <1>1 DEF Submit

LEMMA StartEmpty ==
  ASSUME TypeInv, Empty, NEW th \in Scanners, NEW r \in Runs,
         CheckEntry(th, r) \/ StartAbove(th, r) \/ StartTtl(th, r) \/ StartUnknown(th, r)
  PROVE  Empty'
<1>1. pos' = {}
  BY DEF Empty, CheckEntry, StartAbove, StartTtl, StartUnknown
<1>2. ViewsStay
  BY ViewsKept DEF CheckEntry, StartAbove, StartTtl, StartUnknown, EnterRefresh
<1>3. Out'
  <2>1. CASE UNCHANGED run
    BY <2>1 DEF Empty, Out
  <2>2. CASE StartAbove(th, r)
    BY <2>1, <2>2 DEF StartAbove, EnterRefresh, TypeInv, TypeOK, RunRows, Empty, Out, Entered
  <2> QED BY <2>1, <2>2 DEF CheckEntry, StartTtl, StartUnknown, EnterRefresh
<1> QED BY <1>1, <1>2, <1>3, EmptyStays

\* A snapshot of an account that has bought nothing is blank.
LEMMA RefreshEmpty ==
  ASSUME TypeInv, Empty, ~Bought, NEW th \in Scanners, RefreshOk(th)
  PROVE  Empty'
<1> DEFINE j1 == [job EXCEPT ![th].at = "act"]
           fills == [o \in AllOrders |-> IF broker[o].day = day THEN broker[o].filled ELSE 0]
           view == [ok |-> TRUE, open |-> {o \in AllOrders : broker[o].st = "open"},
                    fills |-> fills, held |-> 0]
<1>1. job' = [j1 EXCEPT ![th].view = view]
  BY DEF RefreshOk, Balances
<1>2. \A o \in AllOrders : ~(fills[o] > 0)
  BY DEF Bought
<1>3. Blank(view)
  BY <1>2 DEF Blank, Filled
<1>4. j1 \in [Scanners -> Jobs] /\ \A u \in Scanners \ {th} : j1[u] = job[u]
  BY DEF TypeInv, TypeOK, Jobs, Places
<1> HIDE DEF j1, view
<1>5. job'[th].view = view /\ \A u \in Scanners \ {th} : job'[u] = job[u]
  BY <1>1, <1>4 DEF Jobs
<1>6. UNCHANGED <<run, pos>>
  BY DEF RefreshOk
<1> QED BY <1>3, <1>5, <1>6 DEF Empty, Out, Blank, Filled

LEMMA ReconcileEmpty ==
  ASSUME TypeInv, Empty, ~Bought, NEW th \in Scanners, Reconcile(th)
  PROVE  Empty'
<1> DEFINE r == job[th].run
           v == job[th].view
           own == job[th].read.no
<1>1. Out /\ TypeOK /\ pos = {} /\ Filled(v) = {} /\ ~(v.held > 0) /\ "ORDER_UNKNOWN" \notin Entered
  BY DEF Empty, Blank, TypeInv, Entered
<1>2. ASSUME NEW what, Acts(th, what), Out', UNCHANGED pos
      PROVE  Empty'
  BY <1>1, <1>2, ViewsKept, EmptyStays DEF Acts
<1>3. ASSUME NEW what, Acts(th, what)
      PROVE  r \in Runs
  BY <1>3, ItsJob
<1>4. CASE RefreshFailed(th)
  BY <1>1, <1>4, ViewsKept, EmptyStays DEF RefreshFailed, Out
<1>5. CASE ActAbove(th)
  <2>1. Acts(th, "above")
    BY <1>5 DEF ActAbove
  <2>2. \/ NoChange
        \/ MarkUnknown(r) /\ UNCHANGED pos
        \/ CancelPlan(r, "above") /\ UNCHANGED pos
    BY <1>1, <1>5 DEF ActAbove
  <2>3. Out' /\ UNCHANGED pos
    BY <1>1, <2>2, OutStatus, OutCancel DEF NoChange, MarkUnknown, Out
  <2> QED BY <1>2, <2>1, <2>3
<1>6. CASE ActTtl(th)
  <2>1. Acts(th, "ttl")
    BY <1>6 DEF ActTtl
  <2>2. UNCHANGED pos
    BY <1>1, <1>6 DEF ActTtl, NoChange
  <2>3. \/ UNCHANGED run
        \/ MarkUnknown(r)
        \/ CancelPlan(r, "ttl")
        \/ run' = [run EXCEPT ![r].ttl = TRUE]
        \/ run' = [run EXCEPT ![r].ttl = TRUE, ![r].status = "ORDER_UNKNOWN"]
    BY <1>1, <1>6 DEF ActTtl, NoChange
  <2>4. r \in Runs
    BY <1>3, <2>1
  <2>5. Out'
    <3>1. CASE UNCHANGED run
      BY <1>1, <3>1 DEF Out
    <3>2. CASE MarkUnknown(r)
      BY <1>1, <3>2, OutStatus DEF MarkUnknown
    <3>3. CASE CancelPlan(r, "ttl")
      BY <1>1, <3>3, OutCancel
    <3>4. CASE run' = [run EXCEPT ![r].ttl = TRUE]
      BY <1>1, <2>4, <3>4 DEF TypeOK, RunRows, Out
    <3>5. CASE run' = [run EXCEPT ![r].ttl = TRUE, ![r].status = "ORDER_UNKNOWN"]
      BY <1>1, <2>4, <3>5 DEF TypeOK, RunRows, Out, Entered
    <3> QED BY <2>3, <3>1, <3>2, <3>3, <3>4, <3>5
  <2> QED BY <1>2, <2>1, <2>2, <2>5
<1>7. CASE ActUnknown(th)
  <2>1. Acts(th, "unknown")
    BY <1>7 DEF ActUnknown
  <2>2. r \in Runs
    BY <1>3, <2>1
  <2>3. Evidence(th) \notin {"local_holding", "own_fill", "holding"}
    BY <1>1, EvidenceMeans
  <2>4. /\ UNCHANGED pos
        /\ \/ \E o \in v.open \cup {own} : RecoverOpen(r, job[th].read, o)
           \/ run' = [run EXCEPT ![r].status = "CANCELLED", ![r].retry = FALSE,
                                 ![r].cause = "path_a"]
           \/ Retry(r, TRUE)
           \/ \E available \in BOOLEAN : Unexplained(r, job[th].read, available)
    BY <1>1, <1>7, <2>3 DEF ActUnknown
  <2>5. Out'
    <3>1. CASE \E o \in v.open \cup {own} : RecoverOpen(r, job[th].read, o)
      BY <1>1, <2>2, <3>1, OutOpen
    <3>2. CASE run' = [run EXCEPT ![r].status = "CANCELLED", ![r].retry = FALSE,
                                  ![r].cause = "path_a"]
      BY <1>1, <2>2, <3>2 DEF TypeOK, RunRows, Out, Entered
    <3>3. CASE Retry(r, TRUE)
      BY <1>1, <2>2, <3>3 DEF TypeOK, RunRows, Out, Retry
    <3>4. CASE \E available \in BOOLEAN : Unexplained(r, job[th].read, available)
      BY <1>1, <2>2, <3>4, OutUnexplained
    <3> QED BY <2>4, <3>1, <3>2, <3>3, <3>4
  <2> QED BY <1>2, <2>1, <2>4, <2>5
<1> QED BY <1>4, <1>5, <1>6, <1>7, RefreshEmpty DEF Reconcile

LEMMA LearnFillBought ==
  ASSUME TypeInv, NEW th \in Scanners, NEW o \in AllOrders, LearnFill(th, o)
  PROVE  Bought
<1>1. o \in AllOrders /\ broker[o] \in BrokerOrders /\ row[o].left \in 0 .. Qty
  BY DEF TypeInv, TypeOK, Rows
<1>2. PICK n \in 1 .. (broker[o].filled - (Qty - row[o].left)) : TRUE
  BY DEF LearnFill
<1>3. broker[o].filled > 0
  BY <1>1, <1>2, SizesAssumption DEF BrokerOrders
<1> QED BY <1>1, <1>3 DEF Bought

LEMMA RestEmpty ==
  ASSUME TypeInv, Empty, ~Bought,
         SyncPositions \/ Broker \/ Session \/ Crash \/ CrashInClose \/ Rest
  PROVE  Empty'
<1>1. CASE SyncPositions
  <2>1. Cardinality(pos) = 0
    BY FS_EmptySet DEF Empty
  <2> QED BY <1>1, <2>1 DEF SyncPositions
<1>2. CASE Broker
  BY <1>2 DEF Broker, BrokerAccept, BrokerFill, BrokerDrop, OtherOrder, BrokerOnly, Empty, Out,
              Blank, Filled
<1>3. CASE Session
  <2>1. UNCHANGED <<pos, job>>
    BY <1>3 DEF Session, CloseMarket, EndSession, OpenSession, Opened
  <2>2. Out'
    <3>1. CASE EndSession
      BY <3>1 DEF EndSession, TypeInv, TypeOK, RunRows, Empty, Out, Entered
    <3>2. CASE UNCHANGED run
      BY <3>2 DEF Empty, Out
    <3> QED BY <1>3, <3>1, <3>2 DEF Session, CloseMarket, OpenSession, Opened
  <2> QED BY <2>1, <2>2 DEF Empty, Blank, Filled
<1>4. CASE Crash
  <2>1. /\ job' = [th \in Scanners |-> NoJob] /\ UNCHANGED pos
        /\ \A r \in Runs : run'[r] \in {run[r], [run[r] EXCEPT !.status = "ORDER_UNKNOWN"]}
    BY <1>4 DEF Crash, Empty, TypeInv, TypeOK
  <2>2. Out'
    BY <2>1 DEF TypeInv, TypeOK, RunRows, Empty, Out, Entered
  <2>3. ViewsStay
    BY <2>1 DEF ViewsStay, NoJob
  <2> QED BY <2>1, <2>2, <2>3, EmptyStays DEF Empty
<1>5. CASE CrashInClose
  <2>1. job' = [th \in Scanners |-> NoJob] /\ UNCHANGED <<run, pos>>
    BY <1>5 DEF CrashInClose
  <2>2. ViewsStay
    BY <2>1 DEF ViewsStay, NoJob
  <2> QED BY <2>1, <2>2, EmptyStays DEF Empty, Out
<1>6. CASE Rest
  BY <1>6 DEF Rest, vars, Empty, Out, Blank, Filled
<1> QED BY <1>1, <1>2, <1>3, <1>4, <1>5, <1>6

LEMMA NextShares == TypeInv /\ HasShares /\ [Next]_vars => HasShares'
<1> SUFFICES ASSUME TypeInv, HasShares, [Next]_vars PROVE HasShares'
  OBVIOUS
<1>1. CASE Bought
  BY <1>1, NextFills DEF Bought, FillsStay, HasShares
<1>2. CASE ~Bought
  <2>1. Empty
    BY <1>2 DEF HasShares
  <2>2. CASE UNCHANGED vars
    BY <2>1, <2>2 DEF vars, Empty, Out, Blank, Filled, HasShares
  <2>3. ASSUME NEW th \in Scanners, Scan(th)
        PROVE  Empty'
    BY <1>2, <2>1, <2>3, StartEmpty, SubmitEmpty, ReconcileEmpty DEF Scan
  <2>4. ASSUME NEW th \in Scanners, NEW o \in AllOrders, LearnFill(th, o)
        PROVE  FALSE
    BY <1>2, <2>4, LearnFillBought
  <2> QED BY <1>2, <2>1, <2>2, <2>3, <2>4, PlanEmpty, RestEmpty DEF Next, HasShares
<1> QED BY <1>1, <1>2

LEMMA AlwaysShares == Spec => []HasShares
<1>1. Init => HasShares
  <2> SUFFICES ASSUME Init PROVE Empty
    BY DEF HasShares
  <2>1. Out
    BY DEF Init, Out, NewRun, Entered
  <2>2. \A th \in Scanners : job[th].view = NoView
    BY DEF Init, NoJob
  <2> QED BY <2>1, <2>2, BlankNoView DEF Init, Empty
<1>2. Spec => []TypeInv
  BY InitType, NextType, PTL DEF Spec
<1> QED BY <1>1, <1>2, NextShares, PTL DEF Spec

\* Whatever is mistaken for a run's fill, the orders of the user and of Path A included, no run
\* counts as entered and nobody has a position before the account has bought the ticker.  The
\* snapshots in the scanners' hands are part of the argument: a stale one shows no more than
\* there was, and what was bought stays bought.
THEOREM NothingFromNothing == Spec => []EntryHasShares
<1>1. HasShares => EntryHasShares
  BY DEF HasShares, Empty, Out, EntryHasShares
<1> QED BY <1>1, AlwaysShares, PTL

-----------------------------------------------------------------------------
(* What a step does to each run, order, job and pending row *)

Placed(o) == broker[o].st # "none"
Quiet(o) == broker[o].st = "done" /\ broker[o].filled = 0
Registered(r) == run[r].status # "NONE"
Cancelling == {"above", "ttl"}
Recorded == {"ORDER_UNKNOWN"} \cup Pending \cup Entered

\* The row of a run in the store: what its writes leave alone.
Dated(r) == run'[r].day = run[r].day
Keeps(r) == Dated(r) /\ run'[r].no = run[r].no /\ run'[r].cause = run[r].cause
Stays(r) == Keeps(r) /\ run'[r].status = run[r].status
Becomes(r, from, to) == Keeps(r) /\ run[r].status \in from /\ run'[r].status \in to

\* Writes that no job makes.
Registers(r) == /\ run[r].status = "NONE" /\ run'[r].status = "WAITING" /\ run'[r].day = day
                /\ run'[r].no = run[r].no /\ run'[r].cause = run[r].cause
                /\ ActiveRuns = {} /\ phase = "open"
                /\ \A q \in Runs \ {r} : run'[q] = run[q]
                /\ UNCHANGED <<broker, job, row, phase, day>>
IsCancelled(r, from, why) == /\ run[r].status \in from /\ run'[r].status = "CANCELLED"
                             /\ run'[r].cause = why
                             /\ run'[r].no = run[r].no /\ Dated(r)
IsUnsent(r) == /\ IsCancelled(r, {"WAITING", "HIT"}, "unsent")
               /\ MainIdle /\ UNCHANGED <<broker, job, row, phase, day>>
IsKilled(r) == kills' # 0 /\ IsCancelled(r, Cancellable, "kill")
               /\ UNCHANGED <<broker, job, row, phase, day>>
IsUnconfirmed(r) == Becomes(r, Pending, {"ORDER_UNKNOWN"})
                    /\ UNCHANGED <<broker, job, row, phase, day>>
IsFilled(r) == /\ \E o \in Orders : row[o].left > 0 /\ broker[o].by = r /\ broker[o].filled > 0
               /\ run'[r].status \in Entered /\ run'[r].cause = run[r].cause /\ Dated(r)
               /\ UNCHANGED <<broker, job, phase, day>>
IsSynced(r) == Becomes(r, Pending, Entered) /\ MainIdle
               /\ UNCHANGED <<broker, job, row, phase, day>>
IsExpired(r) == /\ Becomes(r, {"WAITING", "HIT"}, {"EXPIRED"}) /\ MainIdle
                /\ phase = "closing" /\ UNCHANGED <<broker, job>>
IsRecovered(r) == /\ Becomes(r, Pending \cup {"PARTIAL_FILLED"}, {"FILLED", "ORDER_UNKNOWN"})
                  /\ UNCHANGED <<broker, phase, day>> /\ \A th \in Scanners : job'[th] = NoJob

\* Writes of the job of scanner th.
Submits(th) ==
    LET r == job[th].run
    IN  \/ /\ job[th].at = "gate" /\ job'[th].at = "precheck"
           /\ run'[r].status = "HIT" /\ Keeps(r)
        \/ /\ job[th].at \in {"gate", "precheck"} /\ job'[th] = NoJob
           /\ \E why \in {"blocked", "precheck"} : IsCancelled(r, Cancellable, why)
        \/ /\ job[th].at = "place" /\ job'[th].at = "refresh"
           /\ run'[r].status = "ORDER_UNKNOWN" /\ Keeps(r)
        \/ /\ job[th].at = "place" /\ job'[th] = NoJob
           /\ IsCancelled(r, Statuses, "reject")
        \/ /\ job[th].at = "sent" /\ job'[th].at = "acked" /\ UNCHANGED broker
           /\ run'[r].status = "ORDER_SENT" /\ run'[r].cause = run[r].cause /\ Dated(r)
        \/ /\ job[th].at = "acked" /\ job'[th].at = "row" /\ UNCHANGED broker
           /\ run'[r].status = "ORDER_ACKED" /\ run'[r].cause = run[r].cause /\ Dated(r)

Reconciles(th) ==
    LET r == job[th].run
        v == job[th].view
    IN  /\ job[th].at = "act" /\ job'[th] = NoJob /\ UNCHANGED <<broker, row, phase, day>>
        /\ Dated(r)
        /\ \/ run'[r].status \in Entered \cup {"ORDER_UNKNOWN"} /\ run'[r].cause = run[r].cause
           \/ /\ run'[r].status = "ORDER_ACKED" /\ run'[r].cause = run[r].cause
              /\ \E o \in v.open : TRUE
           \/ /\ job[th].what \in Cancelling /\ v.ok /\ v.open = {} /\ Filled(v) = {}
              /\ IsCancelled(r, Cancellable, job[th].what)
           \/ Others # {} /\ IsCancelled(r, Statuses, "path_a")
           \/ /\ phase = "opening" /\ v.ok /\ ~ (v.held > 0)
              /\ IsCancelled(r, Statuses, "no_evidence")

ByJob(r) == \E th \in Scanners : /\ job[th] # NoJob /\ job[th].run = r
                                 /\ Submits(th) \/ Reconciles(th)

RunGoes(r) == \/ Stays(r)
              \/ Registers(r) \/ IsUnsent(r) \/ IsKilled(r) \/ IsUnconfirmed(r) \/ IsFilled(r)
              \/ IsSynced(r) \/ IsExpired(r) \/ IsRecovered(r)
              \/ ByJob(r)

RunsGo == \A r \in Runs : RunGoes(r)

\* What is said here is said of steps without a stray submission.
LEMMA NoStray ==
  ASSUME TypeInv, strays' = 0
  PROVE  ~Stray
<1>1. strays \in Nat
  BY DEF TypeInv, TypeOK
<1> QED BY <1>1 DEF Stray

\* A pending row is that of an order of its own run, and so is an order in a scanner's hand.
OwnRows ==
    /\ \A o \in AllOrders : row[o].left > 0 => o \in Orders /\ row[o].run = broker[o].by
    /\ \A th \in Scanners : job[th].at \in {"sent", "acked", "row"} =>
          job[th].ord \in Orders /\ broker[job[th].ord].by = job[th].run

\* A row that is not written stays.
LEMMA RunUnchanged ==
  ASSUME UNCHANGED run
  PROVE  RunsGo
BY DEF RunsGo, RunGoes, Stays, Keeps, Dated

LEMMA OthersStay ==
  ASSUME NEW r \in Runs, RunGoes(r), \A q \in Runs \ {r} : run'[q] = run[q]
  PROVE  RunsGo
BY DEF RunsGo, RunGoes, Stays, Keeps, Dated

LEMMA PlanGoes ==
  ASSUME TypeInv, Plan
  PROVE  RunsGo
<1>1. ASSUME NEW r \in Runs, Register(r)
      PROVE  RunsGo
  <2>2. \A q \in Runs \ {r} : run'[q] = run[q]
    BY <1>1 DEF Register, TypeInv, TypeOK
  <2>1. Registers(r)
    BY <1>1, <2>2 DEF Register, Registers, TypeInv, TypeOK, RunRows, session
  <2> QED BY <2>1, <2>2, OthersStay DEF RunGoes
<1>2. ASSUME NEW r \in Runs, CancelUnsent(r)
      PROVE  RunsGo
  <2>1. run[r].status \in {"WAITING", "HIT"}
        /\ run' = [run EXCEPT ![r].status = "CANCELLED", ![r].cause = "unsent"]
    BY <1>2 DEF CancelUnsent, CancelPlan, Cancellable
  <2>2. IsUnsent(r)
    BY <1>2, <2>1 DEF CancelUnsent, IsUnsent, IsCancelled, Dated, TypeInv, TypeOK, RunRows, session
  <2>3. \A q \in Runs \ {r} : run'[q] = run[q]
    BY <2>1 DEF TypeInv, TypeOK
  <2> QED BY <2>2, <2>3, OthersStay DEF RunGoes
<1>3. ASSUME Kill
      PROVE  RunsGo
  <2> SUFFICES ASSUME NEW r \in Runs PROVE RunGoes(r)
    BY DEF RunsGo
  <2>0. kills' = kills + 1 /\ kills \in Nat
    BY <1>3 DEF Kill, TypeInv, TypeOK
  <2>1. kills' # 0 /\ UNCHANGED <<broker, job, row, phase, day>>
    <3>1. kills' # 0
      BY <2>0
    <3> QED BY <1>3, <3>1 DEF Kill
  <2>2. CASE Today(r) /\ run[r].status \in Cancellable
    <3>1. run'[r] = [run[r] EXCEPT !.status = "CANCELLED", !.cause = "kill"]
      BY <1>3, <2>2 DEF Kill
    <3>2. IsCancelled(r, Cancellable, "kill")
      BY <2>2, <3>1 DEF IsCancelled, Dated, TypeInv, TypeOK, RunRows
    <3> QED BY <2>1, <3>2 DEF IsKilled, RunGoes
  <2>3. CASE ~(Today(r) /\ run[r].status \in Cancellable)
    BY <1>3, <2>3 DEF Kill, RunGoes, Stays, Keeps, Dated
  <2> QED BY <2>2, <2>3
<1>4. CASE Enable
  BY <1>4, RunUnchanged DEF Enable
<1> QED BY <1>1, <1>2, <1>3, <1>4 DEF Plan

\* A cancelled plan was one that could be.
LEMMA Cancels ==
  ASSUME TypeInv, NEW r \in Runs, NEW why \in Causes, CancelPlan(r, why)
  PROVE  UNCHANGED run \/ /\ IsCancelled(r, Cancellable, why)
                          /\ \A q \in Runs \ {r} : run'[q] = run[q]
BY DEF CancelPlan, IsCancelled, Dated, TypeInv, TypeOK, RunRows

LEMMA JobLeft ==
  ASSUME TypeInv, NEW th \in Scanners, Leave(th)
  PROVE  job'[th] = NoJob
BY DEF TypeInv, TypeOK, Leave

LEMMA JobGone ==
  ASSUME TypeInv, NEW th \in Scanners, NEW place, Goto(th, place)
  PROVE  job'[th].at = place
BY DEF TypeInv, TypeOK, Goto, Jobs

LEMMA SubmitGoes ==
  ASSUME TypeInv, NEW th \in Scanners, Submit(th), strays' = 0
  PROVE  RunsGo
<1> DEFINE r == job[th].run
<1>a. job[th] # NoJob /\ r \in Runs
  BY Working DEF Submit, GatePass, GateBlock, Precheck, PlaceAccepted, PlaceUnknown, PlaceRejected,
     PlaceAgain, PlaceFound, MarkSent, MarkAcked, AddPendingOrder, TypeInv, JobsOK
<1>b. ASSUME Submits(th), \A q \in Runs \ {r} : run'[q] = run[q]
      PROVE  RunsGo
  BY <1>a, <1>b, OthersStay DEF RunGoes, ByJob
<1>1. CASE GatePass(th)
  <2>1. job'[th].at = "precheck"
    BY <1>1, JobGone DEF GatePass
  <2>2. run' = [run EXCEPT ![r].status = "HIT"]
    BY <1>1 DEF GatePass, MarkStatus
  <2>3. run'[r].status = "HIT" /\ Keeps(r) /\ \A q \in Runs \ {r} : run'[q] = run[q]
    BY <1>a, <2>2 DEF Keeps, Dated, TypeInv, TypeOK, RunRows
  <2> QED BY <1>1, <1>b, <2>1, <2>3 DEF Submits, GatePass
<1>2. CASE GateBlock(th)
  <2>1. job'[th] = NoJob
    BY <1>2, JobLeft DEF GateBlock
  <2>2. UNCHANGED run \/ (IsCancelled(r, Cancellable, "blocked")
                          /\ \A q \in Runs \ {r} : run'[q] = run[q])
    BY <1>2, <1>a, Cancels, Names DEF GateBlock
  <2> QED BY <1>2, <1>b, <2>1, <2>2, RunUnchanged DEF Submits, GateBlock
<1>3. CASE Precheck(th)
  <2>1. CASE UNCHANGED run
    BY <2>1, RunUnchanged
  <2>2. CASE CancelPlan(r, "precheck") /\ Leave(th)
    <3>1. job'[th] = NoJob
      BY <2>2, JobLeft
    <3>2. UNCHANGED run \/ (IsCancelled(r, Cancellable, "precheck")
                            /\ \A q \in Runs \ {r} : run'[q] = run[q])
      BY <2>2, <1>a, Cancels, Names
    <3> QED BY <1>3, <1>b, <3>1, <3>2, RunUnchanged DEF Submits, Precheck
  <2> QED BY <1>3, <2>1, <2>2 DEF Precheck
<1>4. CASE PlaceAccepted(th) \/ AddPendingOrder(th)
  BY <1>4, RunUnchanged DEF PlaceAccepted, Submitted, AddPendingOrder
<1>5. CASE PlaceUnknown(th)
  <2>1. job'[th].at = "refresh"
    BY <1>5 DEF PlaceUnknown, SubmitUnknown, TypeInv, TypeOK, Jobs
  <2>2. run' = [run EXCEPT ![r].status = "ORDER_UNKNOWN"]
    BY <1>5 DEF PlaceUnknown, SubmitUnknown, MarkUnknown, MarkStatus
  <2>3. run'[r].status = "ORDER_UNKNOWN" /\ Keeps(r) /\ \A q \in Runs \ {r} : run'[q] = run[q]
    BY <1>a, <2>2 DEF Keeps, Dated, TypeInv, TypeOK, RunRows
  <2> QED BY <1>5, <1>b, <2>1, <2>3 DEF Submits, PlaceUnknown, SubmitUnknown
<1>6. CASE PlaceRejected(th)
  <2>1. job'[th] = NoJob
    BY <1>6, JobLeft DEF PlaceRejected, SubmitRefused
  <2>2. run' = [run EXCEPT ![r].status = "CANCELLED", ![r].retry = FALSE, ![r].cause = "reject"]
    BY <1>6 DEF PlaceRejected, SubmitRefused
  <2>3. IsCancelled(r, Statuses, "reject") /\ \A q \in Runs \ {r} : run'[q] = run[q]
    BY <1>a, <2>2 DEF IsCancelled, Dated, TypeInv, TypeOK, RunRows
  <2> QED BY <1>6, <1>b, <2>1, <2>3 DEF Submits, PlaceRejected, SubmitRefused
<1>7. CASE MarkSent(th)
  <2>1. job'[th].at = "acked"
    BY <1>7, JobGone DEF MarkSent
  <2>2. run' = [run EXCEPT ![r].status = "ORDER_SENT", ![r].no = job[th].ord, ![r].sized = TRUE]
    BY <1>7 DEF MarkSent
  <2>3. run'[r].status = "ORDER_SENT" /\ Dated(r) /\ run'[r].cause = run[r].cause
        /\ \A q \in Runs \ {r} : run'[q] = run[q]
    BY <1>a, <2>2 DEF Dated, TypeInv, TypeOK, RunRows
  <2> QED BY <1>7, <1>b, <2>1, <2>3 DEF Submits, MarkSent
<1>8. CASE MarkAcked(th)
  <2>1. job'[th].at = "row"
    BY <1>8, JobGone DEF MarkAcked
  <2>2. run' = [run EXCEPT ![r].status = "ORDER_ACKED", ![r].no = job[th].ord]
    BY <1>8 DEF MarkAcked
  <2>3. run'[r].status = "ORDER_ACKED" /\ Dated(r) /\ run'[r].cause = run[r].cause
        /\ \A q \in Runs \ {r} : run'[q] = run[q]
    BY <1>a, <2>2 DEF Dated, TypeInv, TypeOK, RunRows
  <2> QED BY <1>8, <1>b, <2>1, <2>3 DEF Submits, MarkAcked
<1> QED BY <1>1, <1>2, <1>3, <1>4, <1>5, <1>6, <1>7, <1>8, NoStray
        DEF Submit, PlaceAgain, PlaceFound

LEMMA StartGoes ==
  ASSUME TypeInv, NEW th \in Scanners, NEW r \in Runs,
         CheckEntry(th, r) \/ StartAbove(th, r) \/ StartTtl(th, r) \/ StartUnknown(th, r)
  PROVE  RunsGo
<1>1. CASE UNCHANGED run
  BY <1>1, RunUnchanged
<1>2. CASE StartAbove(th, r)
  <2>1. CASE run' = [run EXCEPT ![r].above = TRUE]
    <3>1. Stays(r) /\ \A q \in Runs \ {r} : run'[q] = run[q]
      BY <2>1 DEF Stays, Keeps, Dated, TypeInv, TypeOK, RunRows
    <3> QED BY <3>1, OthersStay DEF RunGoes
  <2>2. CASE UNCHANGED job /\ run' = [run EXCEPT ![r].above = TRUE, ![r].status = "ORDER_UNKNOWN"]
    <3>1. Becomes(r, Pending, {"ORDER_UNKNOWN"}) /\ \A q \in Runs \ {r} : run'[q] = run[q]
      BY <1>2, <2>2 DEF StartAbove, Becomes, Keeps, Dated, TypeInv, TypeOK, RunRows
    <3>2. IsUnconfirmed(r)
      BY <1>2, <2>2, <3>1 DEF StartAbove, IsUnconfirmed, session
    <3> QED BY <3>1, <3>2, OthersStay DEF RunGoes
  <2> QED BY <1>1, <1>2, <2>1, <2>2 DEF StartAbove, EnterRefresh
<1> QED BY <1>1, <1>2 DEF CheckEntry, StartTtl, StartUnknown, EnterRefresh

\* The ends of a reconcile.
LEMMA ActGoes ==
  ASSUME TypeInv, NEW th \in Scanners, ActAbove(th) \/ ActTtl(th)
  PROVE  RunsGo
<1> DEFINE r == job[th].run
           v == job[th].view
           own == job[th].read.no
<1>0. \E what \in Cancelling : /\ Acts(th, what)
                               /\ (ActAbove(th) /\ what = "above") \/ (ActTtl(th) /\ what = "ttl")
  <2>1. ASSUME ActAbove(th)
        PROVE  Acts(th, "above")
    BY <2>1 DEF ActAbove
  <2>2. ASSUME ActTtl(th)
        PROVE  Acts(th, "ttl")
    BY <2>2 DEF ActTtl
  <2> QED BY <2>1, <2>2 DEF Cancelling
<1> PICK what \in Cancelling : /\ Acts(th, what)
                               /\ (ActAbove(th) /\ what = "above") \/ (ActTtl(th) /\ what = "ttl")
  BY <1>0
<1>1. job[th] # NoJob /\ r \in Runs /\ job[th].at = "act" /\ job'[th] = NoJob /\ job[th].what = what
      /\ UNCHANGED <<broker, row, phase, day>>
  BY Working, ItsJob, JobLeft DEF Acts, session
<1>2. ASSUME Reconciles(th), \A q \in Runs \ {r} : run'[q] = run[q]
      PROVE  RunsGo
  BY <1>1, <1>2, OthersStay DEF RunGoes, ByJob
<1>3. ASSUME run'[r].status \in Entered \cup {"ORDER_UNKNOWN"}, run'[r].cause = run[r].cause,
             Dated(r), \A q \in Runs \ {r} : run'[q] = run[q]
      PROVE  RunsGo
  BY <1>1, <1>2, <1>3 DEF Reconciles
<1>4. CASE UNCHANGED run
  BY <1>4, RunUnchanged
<1>5. CASE MarkUnknown(r)
  <2>1. run' = [run EXCEPT ![r].status = "ORDER_UNKNOWN"]
    BY <1>5 DEF MarkUnknown, MarkStatus
  <2> QED BY <1>1, <1>3, <2>1 DEF Dated, TypeInv, TypeOK, RunRows
<1>6. ASSUME NEW o, Recovered(r, o)
      PROVE  RunsGo
  <2>1. run' = [run EXCEPT ![r].status = "FILLED", ![r].no = o]
    BY <1>6 DEF Recovered, MarkFilled
  <2> QED BY <1>1, <1>3, <2>1 DEF Dated, TypeInv, TypeOK, RunRows, Entered
<1>7. CASE CancelPlan(r, what) /\ v.ok /\ v.open = {} /\ Filled(v) = {}
  <2>1. UNCHANGED run \/ (IsCancelled(r, Cancellable, what)
                          /\ \A q \in Runs \ {r} : run'[q] = run[q])
    BY <1>1, <1>7, Cancels, Names DEF Cancelling
  <2>2. ASSUME IsCancelled(r, Cancellable, what)
        PROVE  Reconciles(th)
    BY <1>1, <1>7, <2>2 DEF Reconciles, IsCancelled
  <2> QED BY <1>2, <1>4, <2>1, <2>2
<1>8. CASE run' = [run EXCEPT ![r].ttl = TRUE]
  <2>1. Stays(r) /\ \A q \in Runs \ {r} : run'[q] = run[q]
    BY <1>1, <1>8 DEF Stays, Keeps, Dated, TypeInv, TypeOK, RunRows
  <2> QED BY <1>1, <2>1, OthersStay DEF RunGoes
<1>9. CASE run' = [run EXCEPT ![r].ttl = TRUE, ![r].status = "ORDER_UNKNOWN"]
  BY <1>1, <1>3, <1>9 DEF Dated, TypeInv, TypeOK, RunRows
<1>10. CASE ActAbove(th)
  <2>1. what = "above"
    BY <1>10 DEF ActAbove, ActTtl, Acts
  <2> QED BY <1>4, <1>5, <1>6, <1>7, <1>10, <2>1 DEF ActAbove, NoChange
<1>11. CASE ActTtl(th)
  <2>1. what = "ttl"
    BY <1>11 DEF ActAbove, ActTtl, Acts
  <2> QED BY <1>4, <1>5, <1>6, <1>7, <1>8, <1>9, <1>11, <2>1 DEF ActTtl, NoChange
<1> QED BY <1>10, <1>11

LEMMA UnknownGoes ==
  ASSUME TypeInv, NEW th \in Scanners, ActUnknown(th)
  PROVE  RunsGo
<1> DEFINE r == job[th].run
           v == job[th].view
           read == job[th].read
<1>1. job[th] # NoJob /\ r \in Runs /\ job[th].at = "act" /\ job'[th] = NoJob
      /\ UNCHANGED <<broker, row, phase, day>>
  BY Working, ItsJob, JobLeft DEF ActUnknown, Acts, session
<1>2. ASSUME Reconciles(th), \A q \in Runs \ {r} : run'[q] = run[q]
      PROVE  RunsGo
  BY <1>1, <1>2, OthersStay DEF RunGoes, ByJob
<1>3. ASSUME run'[r].status \in Entered \cup {"ORDER_UNKNOWN"}, run'[r].cause = run[r].cause,
             Dated(r), \A q \in Runs \ {r} : run'[q] = run[q]
      PROVE  RunsGo
  BY <1>1, <1>2, <1>3 DEF Reconciles
<1>4. ASSUME Stays(r), \A q \in Runs \ {r} : run'[q] = run[q]
      PROVE  RunsGo
  BY <1>1, <1>4, OthersStay DEF RunGoes
<1>5. CASE run' = [run EXCEPT ![r].status = "FILLED", ![r].retry = FALSE]
  BY <1>1, <1>3, <1>5 DEF Dated, TypeInv, TypeOK, RunRows, Entered
<1>6. ASSUME NEW o, NEW qty, RecoverFill(r, read, o, qty)
      PROVE  RunsGo
  <2>1. \/ run' = [run EXCEPT ![r].status = "PARTIAL_FILLED", ![r].retry = FALSE]
        \/ run' = [run EXCEPT ![r].status = "FILLED", ![r].no = o, ![r].retry = FALSE]
    BY <1>6 DEF RecoverFill
  <2>2. run'[r].status \in Entered /\ run'[r].cause = run[r].cause /\ Dated(r)
        /\ \A q \in Runs \ {r} : run'[q] = run[q]
    BY <1>1, <2>1 DEF Dated, TypeInv, TypeOK, RunRows, Entered
  <2> QED BY <1>3, <2>2
<1>7. ASSUME NEW o \in v.open, RecoverOpen(r, read, o)
      PROVE  RunsGo
  <2>1. run'[r].status = "ORDER_ACKED" /\ run'[r].cause = run[r].cause /\ Dated(r)
        /\ \A q \in Runs \ {r} : run'[q] = run[q]
    BY <1>1, <1>7 DEF RecoverOpen, Dated, TypeInv, TypeOK, RunRows
  <2> QED BY <1>1, <1>2, <1>7, <2>1 DEF Reconciles
<1>8. CASE /\ Evidence(th) = "path_a"
           /\ run' = [run EXCEPT ![r].status = "CANCELLED", ![r].retry = FALSE, ![r].cause = "path_a"]
  <2>1. Others # {}
    BY <1>8 DEF Evidence, PathAEvidence
  <2>2. IsCancelled(r, Statuses, "path_a") /\ \A q \in Runs \ {r} : run'[q] = run[q]
    BY <1>1, <1>8 DEF IsCancelled, Dated, TypeInv, TypeOK, RunRows
  <2> QED BY <1>1, <1>2, <2>1, <2>2 DEF Reconciles, IsCancelled
<1>9. ASSUME NEW retry, Retry(r, retry)
      PROVE  RunsGo
  BY <1>1, <1>4, <1>9 DEF Retry, Stays, Keeps, Dated, TypeInv, TypeOK, RunRows
<1>10. CASE run' = [run EXCEPT ![r].retry = TRUE, ![r].manual = TRUE]
  BY <1>1, <1>4, <1>10 DEF Stays, Keeps, Dated, TypeInv, TypeOK, RunRows
<1>11. CASE /\ Evidence(th) = "none" /\ phase = "opening"
            /\ run' = [run EXCEPT ![r].status = "CANCELLED", ![r].retry = FALSE,
                                  ![r].cause = "no_evidence"]
  <2>1. v.ok /\ ~ (v.held > 0)
    BY <1>11 DEF Evidence
  <2>2. IsCancelled(r, Statuses, "no_evidence") /\ \A q \in Runs \ {r} : run'[q] = run[q]
    BY <1>1, <1>11 DEF IsCancelled, Dated, TypeInv, TypeOK, RunRows
  <2> QED BY <1>1, <1>2, <1>11, <2>1, <2>2 DEF Reconciles, IsCancelled
<1>12. CASE Evidence(th) = "unavailable" /\ Unexplained(r, read, FALSE)
  BY <1>9, <1>10, <1>12 DEF Unexplained
<1>13. CASE Evidence(th) = "none" /\ Unexplained(r, read, TRUE)
  BY <1>9, <1>10, <1>11, <1>13 DEF Unexplained
<1>14. CASE Evidence(th) = "own_open" /\ RecoverOpen(r, read, read.no)
  BY <1>7, <1>14, EvidenceMeans
<1> QED BY <1>5, <1>6, <1>7, <1>8, <1>9, <1>12, <1>13, <1>14 DEF ActUnknown

LEMMA BotGoes ==
  ASSUME TypeInv, OwnRows,
         SyncPositions \/ \E th \in Scanners, o \in AllOrders : LearnFill(th, o)
  PROVE  RunsGo
<1>1. ASSUME NEW th \in Scanners, NEW o \in AllOrders, LearnFill(th, o)
      PROVE  RunsGo
  <2> DEFINE r == row[o].run
  <2>1. PICK n \in 1 .. (broker[o].filled - (Qty - row[o].left)) :
            IF n < row[o].left THEN MarkStatus(r, "PARTIAL_FILLED") ELSE MarkFilled(r, o)
    BY <1>1 DEF LearnFill
  <2>2. /\ broker[o] \in BrokerOrders /\ row[o].left \in 0 .. Qty /\ row[o].left > 0 /\ r \in Runs
        /\ o \in Orders /\ broker[o].by = r
    BY <1>1 DEF TypeInv, TypeOK, Rows, OrdersOK, OwnRows, LearnFill
  <2>3. broker[o].filled > 0
    BY <2>1, <2>2, SizesAssumption DEF BrokerOrders
  <2>4. run'[r].status \in Entered /\ run'[r].cause = run[r].cause /\ Dated(r)
        /\ \A q \in Runs \ {r} : run'[q] = run[q]
    <3>1. \/ run' = [run EXCEPT ![r].status = "PARTIAL_FILLED"]
          \/ run' = [run EXCEPT ![r].status = "FILLED", ![r].no = o]
      BY <2>1 DEF MarkStatus, MarkFilled
    <3> QED BY <2>2, <3>1 DEF Dated, TypeInv, TypeOK, RunRows, Entered
  <2>5. IsFilled(r)
    BY <1>1, <2>2, <2>3, <2>4 DEF IsFilled, LearnFill, session
  <2> QED BY <2>2, <2>4, <2>5, OthersStay DEF RunGoes
<1>2. CASE SyncPositions
  <2>1. CASE UNCHANGED run
    BY <2>1, RunUnchanged
  <2>2. ASSUME NEW r \in Runs, run[r].status \in Pending, MarkStatus(r, "FILLED")
        PROVE  RunsGo
    <3>1. Becomes(r, Pending, Entered) /\ \A q \in Runs \ {r} : run'[q] = run[q]
      BY <2>2 DEF MarkStatus, Becomes, Keeps, Dated, TypeInv, TypeOK, RunRows, Entered
    <3>2. IsSynced(r)
      BY <1>2, <3>1 DEF SyncPositions, IsSynced, session
    <3> QED BY <3>1, <3>2, OthersStay DEF RunGoes
  <2> QED BY <1>2, <2>1, <2>2 DEF SyncPositions
<1> QED BY <1>1, <1>2

LEMMA SessionGoes ==
  ASSUME TypeInv, Session \/ Crash \/ CrashInClose
  PROVE  RunsGo
<1>1. CASE UNCHANGED run
  BY <1>1, RunUnchanged
<1>2. CASE EndSession
  <2> SUFFICES ASSUME NEW r \in Runs PROVE RunGoes(r)
    BY DEF RunsGo
  <2>1. CASE Today(r) /\ run[r].status \in {"WAITING", "HIT"}
    <3>1. run'[r] = [run[r] EXCEPT !.status = "EXPIRED"]
      BY <1>2, <2>1 DEF EndSession
    <3>2. Becomes(r, {"WAITING", "HIT"}, {"EXPIRED"})
      BY <2>1, <3>1 DEF Becomes, Keeps, Dated, TypeInv, TypeOK, RunRows
    <3> QED BY <1>2, <3>2 DEF EndSession, IsExpired, RunGoes
  <2>2. CASE ~(Today(r) /\ run[r].status \in {"WAITING", "HIT"})
    BY <1>2, <2>2 DEF EndSession, RunGoes, Stays, Keeps, Dated
  <2> QED BY <2>1, <2>2
<1>3. CASE Crash
  <2> SUFFICES ASSUME NEW r \in Runs PROVE RunGoes(r)
    BY DEF RunsGo
  <2>1. UNCHANGED <<broker, phase, day>> /\ \A th \in Scanners : job'[th] = NoJob
    BY <1>3 DEF Crash, session
  <2>2. \/ run'[r] = run[r]
        \/ /\ run[r].status \in Pending \cup {"PARTIAL_FILLED"}
           /\ \/ run'[r] = [run[r] EXCEPT !.status = "FILLED"]
              \/ run'[r] = [run[r] EXCEPT !.status = "ORDER_UNKNOWN"]
    BY <1>3 DEF Crash
  <2>3. CASE run'[r] = run[r]
    BY <2>3 DEF RunGoes, Stays, Keeps, Dated
  <2>4. CASE run'[r] # run[r]
    <3>1. Becomes(r, Pending \cup {"PARTIAL_FILLED"}, {"FILLED", "ORDER_UNKNOWN"})
      BY <2>2, <2>4 DEF Becomes, Keeps, Dated, TypeInv, TypeOK, RunRows
    <3> QED BY <2>1, <3>1 DEF IsRecovered, RunGoes
  <2> QED BY <2>3, <2>4
<1> QED BY <1>1, <1>2, <1>3 DEF Session, CloseMarket, OpenSession, Opened, CrashInClose

\* What becomes of the rows of the store.
LEMMA NextRuns ==
  ASSUME TypeInv, OwnRows, [Next]_vars, strays' = 0
  PROVE  RunsGo
<1>1. CASE UNCHANGED vars
  BY <1>1, RunUnchanged DEF vars
<1>2. ASSUME NEW th \in Scanners, Scan(th)
      PROVE  RunsGo
  <2>1. CASE Reconcile(th)
    BY <2>1, ActGoes, UnknownGoes, RunUnchanged DEF Reconcile, RefreshOk, RefreshFailed
  <2> QED BY <1>2, <2>1, StartGoes, SubmitGoes DEF Scan
<1>3. CASE Broker
  BY <1>3, RunUnchanged DEF Broker, BrokerAccept, BrokerFill, BrokerDrop, OtherOrder, BrokerOnly
<1>4. CASE Rest
  BY <1>1, <1>4 DEF Rest
<1> QED BY <1>1, <1>2, <1>3, <1>4, PlanGoes, BotGoes, SessionGoes DEF Next

-----------------------------------------------------------------------------
(* Jobs *)

\* A job begins on a run that is there to be sent or to be reconciled,
Begins(th) ==
    /\ job[th] = NoJob /\ job'[th].ord = NoOrder /\ job'[th].view = NoView
    /\ UNCHANGED <<broker, row, phase, day>>
    /\ LET r == job'[th].run
       IN  /\ r \in Runs
           /\ \/ /\ job'[th].at = "gate" /\ job'[th].what = "" /\ UNCHANGED run
                 /\ phase = "open" /\ Today(r) /\ run[r].status = "WAITING"
              \/ /\ job'[th].at = "refresh" /\ job'[th].what \in Cancelling
                 /\ run'[r].status = run[r].status
                 /\ phase = "open" /\ Today(r) /\ run[r].status \in Pending
              \/ /\ job'[th].at = "refresh" /\ job'[th].what = "unknown" /\ UNCHANGED run
                 /\ run[r].status = "ORDER_UNKNOWN"
                 /\ (phase = "open" /\ Today(r)) \/ (th = "main" /\ r \in todo)

\* and goes on, step by step.
SameHands(th) == /\ job'[th].what = job[th].what /\ job'[th].ord = job[th].ord
                 /\ job'[th].view = job[th].view
Takes(th) ==
    /\ job[th].at = "place" /\ job'[th].at = "sent" /\ UNCHANGED run
    /\ job'[th].what = job[th].what /\ job'[th].view = job[th].view
    /\ job'[th].ord \in Orders /\ BrokerTakes(job'[th].ord, job[th].run, "open")

Looks(th) ==
    LET v == job'[th].view
    IN  /\ job[th].at = "refresh" /\ job'[th].at = "act" /\ UNCHANGED <<run, broker>>
        /\ job'[th].what = job[th].what /\ job'[th].ord = job[th].ord
        /\ \/ v = job[th].view
           \/ /\ v.ok
              /\ v.open = {o \in AllOrders : broker[o].st = "open"}
              /\ v.fills = [o \in AllOrders |-> IF broker[o].day = day THEN broker[o].filled ELSE 0]
              /\ v.held \in Balances

Advances(th) ==
    LET r == job[th].run
    IN  /\ job[th].at # "idle" /\ job'[th].run = r /\ UNCHANGED <<row, phase, day>>
        /\ \/ /\ job[th].at = "gate" /\ job'[th].at = "precheck" /\ SameHands(th)
              /\ GateOpen(r) /\ run'[r].status = "HIT" /\ UNCHANGED broker
           \/ /\ job[th].at = "precheck" /\ job'[th].at = "place" /\ SameHands(th)
              /\ UNCHANGED <<run, broker>>
           \/ Takes(th)
           \/ /\ job[th].at = "place" /\ job'[th].at = "refresh"
              /\ job'[th].what = "unknown" /\ job'[th].ord = job[th].ord
              /\ job'[th].view = job[th].view
              /\ run'[r].status = "ORDER_UNKNOWN"
           \/ /\ job[th].at = "sent" /\ job'[th].at = "acked" /\ SameHands(th)
              /\ run'[r].status = "ORDER_SENT" /\ UNCHANGED broker
           \/ /\ job[th].at = "acked" /\ job'[th].at = "row" /\ SameHands(th)
              /\ run'[r].status = "ORDER_ACKED" /\ UNCHANGED broker
           \/ Looks(th)

JobMoves(th) == job'[th] = job[th] \/ job'[th] = NoJob \/ Begins(th) \/ Advances(th)
JobsGo == \A th \in Scanners : JobMoves(th)

LEMMA JobsUnchanged ==
  ASSUME UNCHANGED job
  PROVE  JobsGo
BY DEF JobsGo, JobMoves

LEMMA OneJobGoes ==
  ASSUME NEW th \in Scanners, JobMoves(th), \A u \in Scanners \ {th} : job'[u] = job[u]
  PROVE  JobsGo
BY DEF JobsGo, JobMoves

LEMMA JobEnds ==
  ASSUME TypeInv, NEW th \in Scanners, Leave(th)
  PROVE  JobsGo
BY DEF JobsGo, JobMoves, TypeInv, TypeOK, Leave

LEMMA JobMoved ==
  ASSUME TypeInv, NEW th \in Scanners, NEW place, Goto(th, place)
  PROVE  /\ job'[th].at = place /\ job'[th].run = job[th].run /\ SameHands(th)
         /\ \A u \in Scanners \ {th} : job'[u] = job[u]
BY DEF TypeInv, TypeOK, Goto, Jobs, SameHands

LEMMA JobEntered ==
  ASSUME TypeInv, NEW th \in Scanners, NEW place, NEW what, NEW r \in Runs,
         job[th] = NoJob, Enter(th, place, what, r)
  PROVE  /\ job'[th].at = place /\ job'[th].what = what /\ job'[th].run = r
         /\ job'[th].ord = NoOrder /\ job'[th].view = NoView
         /\ \A u \in Scanners \ {th} : job'[u] = job[u]
<1>1. NoJob.ord = NoOrder /\ NoJob.view = NoView
  BY DEF NoJob
<1> QED BY <1>1 DEF TypeInv, TypeOK, Enter, Jobs

LEMMA StartJobs ==
  ASSUME TypeInv, NEW th \in Scanners, NEW r \in Runs,
         CheckEntry(th, r) \/ StartAbove(th, r) \/ StartTtl(th, r) \/ StartUnknown(th, r)
  PROVE  JobsGo
<1>0. job[th] = NoJob
  BY DEF CheckEntry, StartAbove, StartTtl, StartUnknown, Scanning, MainIdle
<1>1. CASE CheckEntry(th, r)
  <2>1. Enter(th, "gate", "", r) /\ phase = "open" /\ Today(r) /\ run[r].status = "WAITING"
        /\ UNCHANGED <<run, broker, row, phase, day>>
    BY <1>1 DEF CheckEntry, Scanning, session
  <2>2. /\ job'[th].at = "gate" /\ job'[th].what = "" /\ job'[th].run = r
        /\ job'[th].ord = NoOrder /\ job'[th].view = NoView
        /\ \A u \in Scanners \ {th} : job'[u] = job[u]
    BY <1>0, <2>1, JobEntered
  <2>3. Begins(th)
    BY <1>0, <2>1, <2>2 DEF Begins
  <2> QED BY <2>2, <2>3, OneJobGoes DEF JobMoves
<1>2. CASE StartAbove(th, r)
  <2>1. phase = "open" /\ Today(r) /\ run[r].status \in Pending /\ UNCHANGED <<broker, row, phase, day>>
    BY <1>2 DEF StartAbove, Scanning, session
  <2>2. CASE UNCHANGED job
    BY <2>2, JobsUnchanged
  <2>3. CASE Enter(th, "refresh", "above", r) /\ run'[r].status = run[r].status
    <3>1. /\ job'[th].at = "refresh" /\ job'[th].what = "above" /\ job'[th].run = r
          /\ job'[th].ord = NoOrder /\ job'[th].view = NoView
          /\ \A u \in Scanners \ {th} : job'[u] = job[u]
      BY <1>0, <2>3, JobEntered
    <3>2. Begins(th)
      BY <1>0, <2>1, <2>3, <3>1 DEF Begins, Cancelling
    <3> QED BY <3>1, <3>2, OneJobGoes DEF JobMoves
  <2>4. CASE Enter(th, "refresh", "above", r) /\ run' = [run EXCEPT ![r].above = TRUE]
    BY <2>3, <2>4 DEF TypeInv, TypeOK, RunRows
  <2> QED BY <1>2, <2>2, <2>3, <2>4 DEF StartAbove, EnterRefresh
<1>3. CASE StartTtl(th, r)
  <2>1. Enter(th, "refresh", "ttl", r) /\ phase = "open" /\ Today(r) /\ run[r].status \in Pending
        /\ UNCHANGED <<run, broker, row, phase, day>>
    BY <1>3 DEF StartTtl, EnterRefresh, Scanning, session
  <2>2. /\ job'[th].at = "refresh" /\ job'[th].what = "ttl" /\ job'[th].run = r
        /\ job'[th].ord = NoOrder /\ job'[th].view = NoView
        /\ \A u \in Scanners \ {th} : job'[u] = job[u]
    BY <1>0, <2>1, JobEntered
  <2>3. Begins(th)
    BY <1>0, <2>1, <2>2 DEF Begins, Cancelling
  <2> QED BY <2>2, <2>3, OneJobGoes DEF JobMoves
<1>4. CASE StartUnknown(th, r)
  <2>1. Enter(th, "refresh", "unknown", r) /\ run[r].status = "ORDER_UNKNOWN"
        /\ ((phase = "open" /\ Today(r)) \/ (th = "main" /\ r \in todo))
        /\ UNCHANGED <<run, broker, row, phase, day>>
    BY <1>4 DEF StartUnknown, EnterRefresh, Scanning
  <2>2. /\ job'[th].at = "refresh" /\ job'[th].what = "unknown" /\ job'[th].run = r
        /\ job'[th].ord = NoOrder /\ job'[th].view = NoView
        /\ \A u \in Scanners \ {th} : job'[u] = job[u]
    BY <1>0, <2>1, JobEntered
  <2>3. Begins(th)
    BY <1>0, <2>1, <2>2 DEF Begins
  <2> QED BY <2>2, <2>3, OneJobGoes DEF JobMoves
<1> QED BY <1>1, <1>2, <1>3, <1>4

LEMMA SubmitJobs ==
  ASSUME TypeInv, NEW th \in Scanners, Submit(th), strays' = 0
  PROVE  JobsGo
<1> DEFINE r == job[th].run
<1>0. job[th] \in Jobs
  BY DEF TypeInv, TypeOK
<1>1. r \in Runs /\ job[th].at # "idle"
  BY Working DEF Submit, GatePass, GateBlock, Precheck, PlaceAccepted, PlaceUnknown, PlaceRejected,
     PlaceAgain, PlaceFound, MarkSent, MarkAcked, AddPendingOrder, TypeInv, JobsOK
<1>2. ASSUME Advances(th), \A u \in Scanners \ {th} : job'[u] = job[u]
      PROVE  JobsGo
  BY <1>2, OneJobGoes DEF JobMoves
<1>3. CASE Leave(th)
  BY <1>3, JobEnds
<1>4. CASE GatePass(th)
  <2>1. run'[r].status = "HIT"
    BY <1>1, <1>4 DEF GatePass, MarkStatus, TypeInv, TypeOK, RunRows
  <2>2. Goto(th, "precheck") /\ job[th].at = "gate" /\ GateOpen(r) /\ UNCHANGED <<broker, row, phase, day>>
    BY <1>4 DEF GatePass, session
  <2> QED BY <1>1, <1>2, <2>1, <2>2, JobMoved DEF Advances
<1>5. CASE Precheck(th) /\ Goto(th, "place") /\ UNCHANGED run
  <2>1. job[th].at = "precheck" /\ UNCHANGED <<run, broker, row, phase, day>>
    BY <1>5 DEF Precheck, session
  <2> QED BY <1>1, <1>2, <1>5, <2>1, JobMoved DEF Advances
<1>6. CASE PlaceAccepted(th)
  <2>1. PICK o \in Orders : /\ BrokerTakes(o, r, "open")
                            /\ job' = [job EXCEPT ![th].at = "sent", ![th].ord = o]
    BY <1>6 DEF PlaceAccepted, Submitted
  <2>2. /\ job'[th].at = "sent" /\ job'[th].ord = o /\ job'[th].run = r
        /\ job'[th].what = job[th].what /\ job'[th].view = job[th].view
        /\ \A u \in Scanners \ {th} : job'[u] = job[u]
    BY <1>0, <2>1 DEF TypeInv, TypeOK, Jobs
  <2>3. job[th].at = "place" /\ UNCHANGED <<run, row, phase, day>>
    BY <1>6 DEF PlaceAccepted, Submitted, session
  <2> QED BY <1>1, <1>2, <2>1, <2>2, <2>3 DEF Advances, Takes
<1>7. CASE PlaceUnknown(th)
  <2>1. /\ job'[th].at = "refresh" /\ job'[th].what = "unknown" /\ job'[th].run = r
        /\ job'[th].ord = job[th].ord /\ job'[th].view = job[th].view
        /\ \A u \in Scanners \ {th} : job'[u] = job[u]
    BY <1>0, <1>7 DEF PlaceUnknown, SubmitUnknown, TypeInv, TypeOK, Jobs
  <2>2. run'[r].status = "ORDER_UNKNOWN"
    BY <1>1, <1>7 DEF PlaceUnknown, SubmitUnknown, MarkUnknown, MarkStatus, TypeInv, TypeOK, RunRows
  <2>3. job[th].at = "place" /\ UNCHANGED <<row, phase, day>>
    BY <1>7 DEF PlaceUnknown, SubmitUnknown, session
  <2> QED BY <1>1, <1>2, <2>1, <2>2, <2>3 DEF Advances
<1>8. CASE MarkSent(th)
  <2>1. run'[r].status = "ORDER_SENT"
    BY <1>1, <1>8 DEF MarkSent, TypeInv, TypeOK, RunRows
  <2>2. Goto(th, "acked") /\ job[th].at = "sent" /\ UNCHANGED <<broker, row, phase, day>>
    BY <1>8 DEF MarkSent, session
  <2> QED BY <1>1, <1>2, <2>1, <2>2, JobMoved DEF Advances
<1>9. CASE MarkAcked(th)
  <2>1. run'[r].status = "ORDER_ACKED"
    BY <1>1, <1>9 DEF MarkAcked, TypeInv, TypeOK, RunRows
  <2>2. Goto(th, "row") /\ job[th].at = "acked" /\ UNCHANGED <<broker, row, phase, day>>
    BY <1>9 DEF MarkAcked, session
  <2> QED BY <1>1, <1>2, <2>1, <2>2, JobMoved DEF Advances
<1> QED BY <1>3, <1>4, <1>5, <1>6, <1>7, <1>8, <1>9, NoStray
        DEF Submit, GateBlock, Precheck, PlaceRejected, SubmitRefused, AddPendingOrder,
            PlaceAgain, PlaceFound

LEMMA LookJobs ==
  ASSUME TypeInv, NEW th \in Scanners, RefreshOk(th) \/ RefreshFailed(th)
  PROVE  JobsGo
<1> DEFINE r == job[th].run
<1>0. job[th] \in Jobs /\ job[th].at = "refresh" /\ UNCHANGED <<run, broker, row, phase, day>>
  BY DEF TypeInv, TypeOK, RefreshOk, RefreshFailed, session
<1>1. ASSUME job'[th].run = r, Looks(th), \A u \in Scanners \ {th} : job'[u] = job[u]
      PROVE  JobsGo
  BY <1>0, <1>1, OneJobGoes DEF JobMoves, Advances
<1>2. CASE RefreshOk(th)
  <2> DEFINE view(h) == [ok    |-> TRUE,
                         open  |-> {o \in AllOrders : broker[o].st = "open"},
                         fills |-> [o \in AllOrders |-> IF broker[o].day = day
                                                        THEN broker[o].filled ELSE 0],
                         held  |-> h]
  <2>1. PICK h \in Balances : job' = [job EXCEPT ![th].at = "act", ![th].view = view(h)]
    BY <1>2 DEF RefreshOk
  <2> HIDE DEF view
  <2>2. /\ job'[th].at = "act" /\ job'[th].view = view(h) /\ job'[th].run = r
        /\ job'[th].what = job[th].what /\ job'[th].ord = job[th].ord
        /\ \A u \in Scanners \ {th} : job'[u] = job[u]
    BY <1>0, <2>1 DEF TypeInv, TypeOK, Jobs
  <2>3. /\ view(h).ok /\ view(h).open = {o \in AllOrders : broker[o].st = "open"}
        /\ view(h).fills = [o \in AllOrders |-> IF broker[o].day = day THEN broker[o].filled ELSE 0]
        /\ view(h).held = h
    BY DEF view
  <2>4. h \in Balances
    BY <2>1
  <2>5. Looks(th)
    BY <1>0, <2>2, <2>3, <2>4 DEF Looks
  <2> QED BY <1>1, <2>2, <2>5
<1>3. CASE RefreshFailed(th)
  <2>1. Goto(th, "act")
    BY <1>3 DEF RefreshFailed
  <2> QED BY <1>0, <1>1, <2>1, JobMoved DEF Looks, SameHands
<1> QED BY <1>2, <1>3

\* What becomes of the scanners' jobs.
LEMMA NextJobs ==
  ASSUME TypeInv, [Next]_vars, strays' = 0
  PROVE  JobsGo
<1>1. CASE UNCHANGED job
  BY <1>1, JobsUnchanged
<1>2. CASE Crash \/ CrashInClose
  BY <1>2 DEF Crash, CrashInClose, JobsGo, JobMoves
<1>3. ASSUME NEW th \in Scanners, Scan(th)
      PROVE  JobsGo
  <2>1. CASE Reconcile(th)
    BY <2>1, LookJobs, JobEnds DEF Reconcile, ActAbove, ActTtl, ActUnknown, Acts
  <2> QED BY <1>3, <2>1, StartJobs, SubmitJobs DEF Scan
<1>4. CASE Plan \/ SyncPositions \/ Broker \/ Session \/ Rest \/ UNCHANGED vars
  BY <1>1, <1>4 DEF Plan, Register, CancelUnsent, Kill, Enable, SyncPositions, Broker, BrokerAccept,
     BrokerFill, BrokerDrop, OtherOrder, BrokerOnly, Session, CloseMarket, EndSession, OpenSession,
     Opened, Rest, vars
<1>5. CASE \E th \in Scanners, o \in AllOrders : LearnFill(th, o)
  BY <1>1, <1>5 DEF LearnFill
<1> QED BY <1>2, <1>3, <1>4, <1>5 DEF Next

-----------------------------------------------------------------------------
(* Orders, pending rows, sessions *)

\* An order stays as it is, goes on at the broker, or is new there.
OrderStays(o) == broker'[o] = broker[o]
OrderGoesOn(o) ==
    /\ Live(o) /\ broker'[o].by = broker[o].by /\ broker'[o].day = broker[o].day
    /\ broker'[o].filled >= broker[o].filled /\ broker'[o].st \in {"open", "done"}
    /\ UNCHANGED <<run, row, pos, job, day>>
    /\ phase' = phase \/ (phase' = "closing" /\ broker'[o].st = "done")
    /\ broker[o].st = "transit" => broker'[o].filled = broker[o].filled
OrderIsTaken(o) ==
    /\ broker[o].st = "none" /\ broker'[o].st \in {"transit", "open"}
    /\ broker'[o].filled = 0 /\ broker'[o].day = day
    /\ \A p \in AllOrders \ {o} : broker'[p] = broker[p]
    /\ UNCHANGED <<row, pos, phase, day>>
    /\ \/ o \in Others
       \/ \E th \in Scanners :
            /\ job[th].at = "place" /\ broker'[o].by = job[th].run
            /\ \/ /\ job'[th].at = "sent" /\ job'[th].ord = o /\ UNCHANGED run
                  /\ broker'[o].st = "open"
               \/ job'[th].at = "refresh" /\ run'[job[th].run].status = "ORDER_UNKNOWN"

OrdersGo == \A o \in AllOrders : OrderStays(o) \/ OrderGoesOn(o) \/ OrderIsTaken(o)

LEMMA OrdersUnchanged ==
  ASSUME UNCHANGED broker
  PROVE  OrdersGo
BY DEF OrdersGo, OrderStays

LEMMA OneOrderGoes ==
  ASSUME NEW o \in AllOrders, OrderGoesOn(o) \/ OrderIsTaken(o),
         \A p \in AllOrders \ {o} : broker'[p] = broker[p]
  PROVE  OrdersGo
BY DEF OrdersGo, OrderStays

LEMMA TakenOrder ==
  ASSUME TypeInv, NEW o \in AllOrders, NEW r, NEW st, BrokerTakes(o, r, st)
  PROVE  /\ broker[o].st = "none" /\ broker'[o].st = st /\ broker'[o].by = r
         /\ broker'[o].filled = 0 /\ broker'[o].day = day
         /\ \A p \in AllOrders \ {o} : broker'[p] = broker[p]
BY DEF BrokerTakes, Request, TypeInv, TypeOK

LEMMA PlacedOrders ==
  ASSUME TypeInv, NEW th \in Scanners, PlaceAccepted(th) \/ PlaceUnknown(th)
  PROVE  OrdersGo
<1> DEFINE r == job[th].run
<1>0. job[th] \in Jobs /\ job[th].at = "place" /\ UNCHANGED <<row, pos, phase, day>>
  BY DEF TypeInv, TypeOK, PlaceAccepted, Submitted, PlaceUnknown, SubmitUnknown, session
<1>1. r \in Runs
  BY <1>0, Working DEF TypeInv, JobsOK
<1>2. CASE PlaceAccepted(th)
  <2>1. PICK o \in Orders : /\ BrokerTakes(o, r, "open")
                            /\ job' = [job EXCEPT ![th].at = "sent", ![th].ord = o]
    BY <1>2 DEF PlaceAccepted, Submitted
  <2>2. job'[th].at = "sent" /\ job'[th].ord = o /\ UNCHANGED run
    BY <1>0, <1>2, <2>1 DEF PlaceAccepted, Submitted, TypeInv, TypeOK, Jobs
  <2>3. o \in AllOrders
    BY DEF AllOrders
  <2>4. /\ broker[o].st = "none" /\ broker'[o].st = "open" /\ broker'[o].by = r
        /\ broker'[o].filled = 0 /\ broker'[o].day = day
        /\ \A p \in AllOrders \ {o} : broker'[p] = broker[p]
    BY <2>1, <2>3, TakenOrder
  <2>5. OrderIsTaken(o)
    BY <1>0, <2>2, <2>4 DEF OrderIsTaken
  <2> QED BY <2>3, <2>4, <2>5, OneOrderGoes
<1>3. CASE PlaceUnknown(th)
  <2>1. CASE UNCHANGED broker
    BY <2>1, OrdersUnchanged
  <2>2. ASSUME NEW o \in Orders, NEW st \in {"transit", "open"}, BrokerTakes(o, r, st)
        PROVE  OrdersGo
    <3>1. job'[th].at = "refresh"
      BY <1>0, <1>3 DEF PlaceUnknown, SubmitUnknown, TypeInv, TypeOK, Jobs
    <3>2. run'[r].status = "ORDER_UNKNOWN"
      BY <1>1, <1>3 DEF PlaceUnknown, SubmitUnknown, MarkUnknown, MarkStatus, TypeInv, TypeOK,
         RunRows
    <3>3. o \in AllOrders
      BY DEF AllOrders
    <3>4. /\ broker[o].st = "none" /\ broker'[o].st = st /\ broker'[o].by = r
          /\ broker'[o].filled = 0 /\ broker'[o].day = day
          /\ \A p \in AllOrders \ {o} : broker'[p] = broker[p]
      BY <2>2, <3>3, TakenOrder
    <3>5. OrderIsTaken(o)
      BY <1>0, <3>1, <3>2, <3>4 DEF OrderIsTaken
    <3> QED BY <3>3, <3>4, <3>5, OneOrderGoes
  <2> QED BY <1>3, <2>1, <2>2 DEF PlaceUnknown, SubmitUnknown
<1> QED BY <1>2, <1>3

LEMMA BrokerOrdersGo ==
  ASSUME TypeInv, Broker
  PROVE  OrdersGo
<1>1. ASSUME NEW o \in AllOrders, BrokerAccept(o) \/ BrokerFill(o) \/ BrokerDrop(o)
      PROVE  OrdersGo
  <2>0. broker[o] \in BrokerOrders /\ Live(o) /\ UNCHANGED <<run, row, pos, job, day, phase>>
    BY <1>1 DEF BrokerAccept, BrokerFill, BrokerDrop, BrokerOnly, session, TypeInv, TypeOK, Live
  <2>1. CASE BrokerAccept(o)
    <3>1. PICK st \in {"open", "done"} : broker' = [broker EXCEPT ![o] = [broker[o] EXCEPT !.st = st]]
      BY <2>1 DEF BrokerAccept, SetBroker
    <3>2. /\ broker'[o].by = broker[o].by /\ broker'[o].day = broker[o].day
          /\ broker'[o].filled = broker[o].filled /\ broker'[o].st = st
          /\ \A p \in AllOrders \ {o} : broker'[p] = broker[p]
      BY <2>0, <3>1 DEF TypeInv, TypeOK, BrokerOrders
    <3> QED BY <2>0, <3>2, OneOrderGoes DEF OrderGoesOn, BrokerOrders
  <2>2. CASE BrokerDrop(o)
    <3>1. broker' = [broker EXCEPT ![o] = [broker[o] EXCEPT !.st = "done"]]
      BY <2>2 DEF BrokerDrop, SetBroker
    <3>2. /\ broker'[o].by = broker[o].by /\ broker'[o].day = broker[o].day
          /\ broker'[o].filled = broker[o].filled /\ broker'[o].st = "done"
          /\ \A p \in AllOrders \ {o} : broker'[p] = broker[p]
      BY <2>0, <3>1 DEF TypeInv, TypeOK, BrokerOrders
    <3> QED BY <2>0, <3>2, OneOrderGoes DEF OrderGoesOn, BrokerOrders
  <2>3. CASE BrokerFill(o)
    <3>1. PICK q \in broker[o].filled + 1 .. Qty :
             broker' = [broker EXCEPT ![o] = [broker[o] EXCEPT !.filled = q,
                                                  !.st = IF q = Qty THEN "done" ELSE @]]
      BY <2>3 DEF BrokerFill, SetBroker
    <3>2. broker[o].st = "open"
      BY <2>3 DEF BrokerFill
    <3>3. /\ broker'[o].by = broker[o].by /\ broker'[o].day = broker[o].day
          /\ broker'[o].filled = q /\ broker'[o].st \in {"open", "done"}
          /\ \A p \in AllOrders \ {o} : broker'[p] = broker[p]
      BY <2>0, <3>1, <3>2 DEF TypeInv, TypeOK, BrokerOrders
    <3>4. q >= broker[o].filled
      BY <2>0, SizesAssumption DEF BrokerOrders
    <3> QED BY <2>0, <3>2, <3>3, <3>4, OneOrderGoes DEF OrderGoesOn
  <2> QED BY <1>1, <2>1, <2>2, <2>3
<1>2. ASSUME NEW o \in Others, NEW who \in {"user", "path_a"}, OtherOrder(o, who)
      PROVE  OrdersGo
  <2>0. o \in AllOrders /\ BrokerTakes(o, who, "open") /\ UNCHANGED <<row, pos, phase, day>>
    BY <1>2 DEF OtherOrder, BrokerOnly, session, AllOrders
  <2>1. /\ broker[o].st = "none" /\ broker'[o].st = "open"
        /\ broker'[o].filled = 0 /\ broker'[o].day = day
        /\ \A p \in AllOrders \ {o} : broker'[p] = broker[p]
    BY <2>0, TakenOrder
  <2>2. OrderIsTaken(o)
    BY <2>0, <2>1 DEF OrderIsTaken
  <2> QED BY <2>0, <2>1, <2>2, OneOrderGoes
<1> QED BY <1>1, <1>2 DEF Broker

LEMMA CloseOrders ==
  ASSUME TypeInv, CloseMarket
  PROVE  OrdersGo
<1> SUFFICES ASSUME NEW o \in AllOrders
             PROVE  OrderStays(o) \/ OrderGoesOn(o)
  BY DEF OrdersGo
<1>0. broker[o] \in BrokerOrders /\ UNCHANGED <<run, row, pos, job, day>> /\ phase' = "closing"
  BY DEF TypeInv, TypeOK, CloseMarket
<1>1. CASE Live(o)
  <2>1. broker'[o] = [broker[o] EXCEPT !.st = "done"]
    BY <1>1 DEF CloseMarket
  <2>2. /\ broker'[o].by = broker[o].by /\ broker'[o].day = broker[o].day
        /\ broker'[o].filled = broker[o].filled /\ broker'[o].st = "done"
    BY <1>0, <2>1 DEF BrokerOrders
  <2> QED BY <1>0, <1>1, <2>2 DEF OrderGoesOn, BrokerOrders
<1>2. CASE ~Live(o)
  BY <1>2 DEF CloseMarket, OrderStays
<1> QED BY <1>1, <1>2

\* What becomes of the orders at the broker.
LEMMA NextOrders ==
  ASSUME TypeInv, [Next]_vars, strays' = 0
  PROVE  OrdersGo
<1>1. CASE UNCHANGED broker
  BY <1>1, OrdersUnchanged
<1>2. ASSUME NEW th \in Scanners, Scan(th)
      PROVE  OrdersGo
  <2>1. CASE Submit(th)
    BY <1>1, <2>1, PlacedOrders, NoStray DEF Submit, GatePass, GateBlock, Precheck, PlaceRejected,
       PlaceAgain, PlaceFound, MarkSent, MarkAcked, AddPendingOrder
  <2>2. CASE Reconcile(th)
    BY <1>1, <2>2 DEF Reconcile, RefreshOk, RefreshFailed, ActAbove, ActTtl, ActUnknown, Acts
  <2>3. CASE \E r \in Runs : \/ CheckEntry(th, r)
                             \/ StartAbove(th, r) \/ StartTtl(th, r) \/ StartUnknown(th, r)
    BY <1>1, <2>3 DEF CheckEntry, StartAbove, StartTtl, StartUnknown
  <2> QED BY <1>2, <2>1, <2>2, <2>3 DEF Scan
<1>3. CASE Plan \/ SyncPositions \/ Rest \/ Crash \/ CrashInClose \/ UNCHANGED vars
  BY <1>1, <1>3 DEF Plan, Register, CancelUnsent, Kill, Enable, SyncPositions, Rest, Crash,
     CrashInClose, vars
<1>4. CASE Session
  BY <1>1, <1>4, CloseOrders DEF Session, EndSession, OpenSession, Opened
<1>5. CASE \E th \in Scanners, o \in AllOrders : LearnFill(th, o)
  BY <1>1, <1>5 DEF LearnFill
<1> QED BY <1>2, <1>3, <1>4, <1>5, BrokerOrdersGo DEF Next

\* A pending row is written once, goes down with the fills, and goes.
RowGoes(o) ==
    \/ row'[o] = row[o]
    \/ row'[o].left = 0
    \/ \E th \in Scanners : /\ job[th].at = "row" /\ job[th].ord = o /\ job'[th] = NoJob
                            /\ UNCHANGED <<run, broker, pos, phase, day>>
                            /\ row'[o].run = job[th].run
    \/ row[o].left > 0 /\ row'[o].run = row[o].run /\ UNCHANGED <<broker, job, phase, day>>

RowsGo == \A o \in AllOrders : RowGoes(o)

LEMMA NextRows ==
  ASSUME TypeInv, [Next]_vars, strays' = 0
  PROVE  RowsGo
<1>1. CASE UNCHANGED row
  BY <1>1 DEF RowsGo, RowGoes
<1>2. CASE EndSession \/ CrashInClose
  BY <1>2, NewTypes DEF EndSession, CrashInClose, RowsGo, RowGoes
<1>3. CASE Crash
  BY <1>3, NewTypes DEF Crash, Restored, RowsGo, RowGoes
<1>4. ASSUME NEW th \in Scanners, NEW o \in AllOrders, LearnFill(th, o)
      PROVE  RowsGo
  <2>1. \A p \in AllOrders \ {o} : row'[p] = row[p]
    BY <1>4 DEF LearnFill, TypeInv, TypeOK
  <2>2. row[o].left > 0 /\ row'[o].run = row[o].run /\ UNCHANGED <<broker, job, phase, day>>
    BY <1>4 DEF LearnFill, session, TypeInv, TypeOK, Rows
  <2> QED BY <2>1, <2>2 DEF RowsGo, RowGoes
<1>5. ASSUME NEW th \in Scanners, AddPendingOrder(th)
      PROVE  RowsGo
  <2>1. job'[th] = NoJob
    BY <1>5, JobLeft DEF AddPendingOrder
  <2>2. \A p \in AllOrders : row'[p] = row[p] \/ p = job[th].ord
    BY <1>5 DEF AddPendingOrder, TypeInv, TypeOK
  <2>3. job[th].at = "row" /\ UNCHANGED <<run, broker, pos, phase, day>>
    BY <1>5 DEF AddPendingOrder, session
  <2>4. job[th].ord \in AllOrders => row'[job[th].ord].run = job[th].run
    BY <1>5 DEF AddPendingOrder, TypeInv, TypeOK
  <2> QED BY <2>1, <2>2, <2>3, <2>4 DEF RowsGo, RowGoes
<1>6. ASSUME NEW th \in Scanners, Scan(th)
      PROVE  RowsGo
  BY <1>1, <1>5, <1>6 DEF Scan, Submit, GatePass, GateBlock, Precheck, PlaceAccepted, PlaceUnknown,
     PlaceRejected, PlaceAgain, PlaceFound, MarkSent, MarkAcked, Reconcile,
     RefreshOk, RefreshFailed, ActAbove, ActTtl,
     ActUnknown, Acts, CheckEntry, StartAbove, StartTtl, StartUnknown
<1>7. CASE Plan \/ SyncPositions \/ Broker \/ CloseMarket \/ OpenSession \/ Opened \/ Rest
           \/ UNCHANGED vars
  BY <1>1, <1>7 DEF Plan, Register, CancelUnsent, Kill, Enable, SyncPositions, Broker, BrokerAccept,
     BrokerFill, BrokerDrop, OtherOrder, BrokerOnly, CloseMarket, OpenSession, Opened, Rest, vars
<1> QED BY <1>2, <1>3, <1>4, <1>6, <1>7 DEF Next, Session

\* A position has a new owner: the run counts as active then, or has a pending row.
OwnersGo ==
    \A r \in Runs : r \in pos' /\ r \notin pos =>
        \/ run'[r].status \in Active
        \/ \E o \in Orders : row[o].left > 0 /\ broker[o].by = r /\ UNCHANGED <<broker, phase, day>>

\* The session goes round; a day begins with nothing to do but the unknown runs.
SessionTurns ==
    \/ UNCHANGED <<phase, day>> /\ todo' \subseteq todo
    \/ /\ phase = "open" /\ phase' = "closing" /\ UNCHANGED <<day, run, row, pos, job>>
       /\ \A th \in Scanners : job[th] = NoJob
       /\ \A r \in todo' : Today(r) /\ Registered(r)
       /\ \A o \in Orders : broker'[o].st \notin {"transit", "open"}
    \/ /\ phase = "closing" /\ phase' = "closed" /\ UNCHANGED <<day, broker, pos>>
       /\ \/ MainIdle /\ todo = {} /\ UNCHANGED <<job, todo>>
          \/ todo' = {} /\ \A th \in Scanners : job'[th] = NoJob
       /\ \A o \in Orders : row'[o].left = 0
    \/ /\ phase = "closed" /\ phase' = "opening" /\ day' = day + 1
       /\ UNCHANGED <<run, broker, row, pos, job>>
       /\ \A r \in todo' : Registered(r)
    \/ /\ phase = "opening" /\ phase' = "open" /\ todo = {}
       /\ MainIdle
       /\ UNCHANGED <<run, broker, row, pos, job, day, todo>>

LEMMA NextSession ==
  ASSUME TypeInv, [Next]_vars, strays' = 0
  PROVE  SessionTurns
<1>1. CASE UNCHANGED <<phase, day>> /\ todo' \subseteq todo
  BY <1>1 DEF SessionTurns
<1>2. CASE CloseMarket
  <2>1. \A r \in todo' : Today(r) /\ Registered(r)
    BY <1>2 DEF CloseMarket, Registered
  <2>2. ASSUME NEW o \in Orders
        PROVE  broker'[o].st \notin {"transit", "open"}
    <3>1. o \in AllOrders /\ broker[o] \in BrokerOrders
      BY DEF AllOrders, TypeInv, TypeOK
    <3>2. broker'[o] = IF Live(o) THEN [broker[o] EXCEPT !.st = "done"] ELSE broker[o]
      BY <1>2, <3>1 DEF CloseMarket
    <3> QED BY <3>1, <3>2 DEF Live, BrokerOrders
  <2> QED BY <1>2, <2>1, <2>2 DEF CloseMarket, SessionTurns
<1>3. CASE EndSession \/ CrashInClose
  BY <1>3, NewTypes DEF EndSession, CrashInClose, SessionTurns, AllOrders
<1>4. CASE OpenSession \/ Opened
  BY <1>4 DEF OpenSession, Opened, SessionTurns, Registered
<1>5. ASSUME NEW th \in Scanners, Scan(th)
      PROVE  SessionTurns
  <2>1. CASE Submit(th) \/ Reconcile(th)
    BY <1>1, <2>1 DEF Submit, GatePass, GateBlock, Precheck, PlaceAccepted, PlaceUnknown,
     PlaceRejected, PlaceAgain, PlaceFound, MarkSent, MarkAcked,
     AddPendingOrder, Reconcile, RefreshOk, RefreshFailed,
     ActAbove, ActTtl, ActUnknown, Acts, session
  <2>2. CASE \E r \in Runs : \/ CheckEntry(th, r)
                             \/ StartAbove(th, r) \/ StartTtl(th, r) \/ StartUnknown(th, r)
    BY <1>1, <2>2 DEF CheckEntry, StartAbove, StartTtl, StartUnknown, session
  <2> QED BY <1>5, <2>1, <2>2 DEF Scan
<1>6. CASE Plan \/ SyncPositions \/ Broker \/ Crash \/ Rest \/ UNCHANGED vars
  BY <1>1, <1>6 DEF Plan, Register, CancelUnsent, Kill, Enable, SyncPositions, Broker, BrokerAccept,
     BrokerFill, BrokerDrop, OtherOrder, BrokerOnly, Crash, Rest, vars, session
<1>7. CASE \E th \in Scanners, o \in AllOrders : LearnFill(th, o)
  BY <1>1, <1>7 DEF LearnFill, session
<1> QED BY <1>2, <1>3, <1>4, <1>5, <1>6, <1>7 DEF Next, Session

-----------------------------------------------------------------------------
(* Owners of positions *)

LEMMA OwnersUnchanged ==
  ASSUME pos' \subseteq pos
  PROVE  OwnersGo
BY DEF OwnersGo

LEMMA NewOwner ==
  ASSUME NEW r \in Runs, pos' \subseteq pos \cup {r}, run'[r].status \in Active
  PROVE  OwnersGo
BY DEF OwnersGo

LEMMA ReconcileOwners ==
  ASSUME TypeInv, NEW th \in Scanners, Reconcile(th)
  PROVE  OwnersGo
<1> DEFINE r == job[th].run
           v == job[th].view
           read == job[th].read
<1>1. CASE pos' \subseteq pos
  BY <1>1, OwnersUnchanged
<1>2. ASSUME r \in Runs, NEW o, Recovered(r, o)
      PROVE  OwnersGo
  <2>1. run'[r].status = "FILLED" /\ pos' = pos \cup {r}
    BY <1>2 DEF Recovered, MarkFilled, TypeInv, TypeOK, RunRows
  <2> QED BY <1>2, <2>1, NewOwner DEF Active, Entered
<1>3. CASE ActAbove(th)
  <2>1. r \in Runs
    BY <1>3, ItsJob DEF ActAbove
  <2> QED BY <1>1, <1>2, <1>3, <2>1 DEF ActAbove, NoChange
<1>4. CASE ActTtl(th)
  <2>1. r \in Runs
    BY <1>4, ItsJob DEF ActTtl
  <2> QED BY <1>1, <1>2, <1>4, <2>1 DEF ActTtl, NoChange
<1>5. CASE ActUnknown(th)
  <2>1. r \in Runs
    BY <1>5, ItsJob DEF ActUnknown
  <2>2. ASSUME NEW o, NEW qty, RecoverFill(r, read, o, qty)
        PROVE  OwnersGo
    <3>1. \/ run' = [run EXCEPT ![r].status = "PARTIAL_FILLED", ![r].retry = FALSE]
          \/ run' = [run EXCEPT ![r].status = "FILLED", ![r].no = o, ![r].retry = FALSE]
      BY <2>2 DEF RecoverFill
    <3>2. run'[r].status \in Entered
      BY <2>1, <3>1 DEF TypeInv, TypeOK, RunRows, Entered
    <3>3. pos' = pos \cup {r}
      BY <2>2 DEF RecoverFill
    <3> QED BY <2>1, <3>2, <3>3, NewOwner DEF Active
  <2> QED BY <1>1, <1>5, <2>2 DEF ActUnknown
<1> QED BY <1>1, <1>3, <1>4, <1>5 DEF Reconcile, RefreshOk, RefreshFailed

LEMMA BotOwners ==
  ASSUME TypeInv, OwnRows, SyncPositions \/ \E th \in Scanners, o \in AllOrders : LearnFill(th, o)
  PROVE  OwnersGo
<1>1. CASE pos' \subseteq pos
  BY <1>1, OwnersUnchanged
<1>2. ASSUME NEW th \in Scanners, NEW o \in AllOrders, LearnFill(th, o)
      PROVE  OwnersGo
  <2> DEFINE r == row[o].run
  <2>1. r \in Runs /\ pos' = pos \cup {r}
    BY <1>2 DEF LearnFill, TypeInv, OrdersOK
  <2>2. MarkStatus(r, "PARTIAL_FILLED") \/ MarkFilled(r, o)
    BY <1>2 DEF LearnFill
  <2>3. run'[r].status \in Entered
    BY <2>1, <2>2 DEF MarkStatus, MarkFilled, TypeInv, TypeOK, RunRows, Entered
  <2> QED BY <2>1, <2>3, NewOwner DEF Active
<1>3. CASE SyncPositions
  <2>0. UNCHANGED <<broker, phase, day>>
    BY <1>3 DEF SyncPositions, session
  <2>1. ASSUME NEW o \in AllOrders, row[o].left > 0, pos' = {row[o].run}
        PROVE  OwnersGo
    BY <2>0, <2>1 DEF OwnersGo, OwnRows
  <2>2. ASSUME NEW r \in Runs, Explains(r), pos' = {r},
               IF run[r].status \in Pending THEN MarkStatus(r, "FILLED") ELSE UNCHANGED run
        PROVE  OwnersGo
    <3>1. run'[r].status \in Active
      BY <2>2 DEF Explains, MarkStatus, Active, Pending, Entered, TypeInv, TypeOK, RunRows
    <3> QED BY <2>2, <3>1, NewOwner
  <2>3. CASE pos' = {Other}
    BY <2>3, NamesAssumption DEF OwnersGo
  <2> QED BY <1>1, <1>3, <2>1, <2>2, <2>3 DEF SyncPositions
<1> QED BY <1>2, <1>3

LEMMA CrashOwners ==
  ASSUME TypeInv, Crash
  PROVE  OwnersGo
<1>1. CASE pos' \subseteq pos
  BY <1>1, OwnersUnchanged
<1>2. CASE ~(pos' \subseteq pos)
  <2> DEFINE entry(r) == Today(r) /\ run[r].status \in Pending \cup {"PARTIAL_FILLED"}
  <2>1. PICK r \in Runs : /\ entry(r) \/ (Today(r) /\ run[r].status = "FILLED")
                          /\ pos' = {r}
                          /\ run' = [q \in Runs |-> IF entry(q) THEN [run[q] EXCEPT !.status = "FILLED"]
                                                    ELSE run[q]]
    BY <1>2 DEF Crash
  <2>2. run'[r].status = "FILLED"
    BY <2>1 DEF TypeInv, TypeOK, RunRows
  <2> QED BY <2>1, <2>2, NewOwner DEF Active, Entered
<1> QED BY <1>1, <1>2

\* Who gets a position of the ticker.
LEMMA NextOwners ==
  ASSUME TypeInv, OwnRows, [Next]_vars, strays' = 0
  PROVE  OwnersGo
<1>1. CASE pos' \subseteq pos
  BY <1>1, OwnersUnchanged
<1>2. ASSUME NEW th \in Scanners, Scan(th)
      PROVE  OwnersGo
  <2>1. CASE Submit(th)
    BY <1>1, <2>1 DEF Submit, GatePass, GateBlock, Precheck, PlaceAccepted, PlaceUnknown,
     PlaceRejected, PlaceAgain, PlaceFound, MarkSent, MarkAcked, AddPendingOrder
  <2>2. CASE \E r \in Runs : \/ CheckEntry(th, r)
                             \/ StartAbove(th, r) \/ StartTtl(th, r) \/ StartUnknown(th, r)
    BY <1>1, <2>2 DEF CheckEntry, StartAbove, StartTtl, StartUnknown
  <2> QED BY <1>2, <2>1, <2>2, ReconcileOwners DEF Scan
<1>3. CASE Plan \/ Broker \/ Session \/ CrashInClose \/ Rest \/ UNCHANGED vars
  BY <1>1, <1>3 DEF Plan, Register, CancelUnsent, Kill, Enable, Broker, BrokerAccept, BrokerFill,
     BrokerDrop, OtherOrder, BrokerOnly, Session, CloseMarket, EndSession, OpenSession, Opened,
     CrashInClose, Rest, vars
<1> QED BY <1>2, <1>3, BotOwners, CrashOwners DEF Next

\* All of it.
Steps == RunsGo /\ JobsGo /\ OrdersGo /\ RowsGo /\ OwnersGo /\ SessionTurns
         /\ (kills' = 0 => kills = 0)

LEMMA CountersGrow ==
  ASSUME TypeInv, [Next]_vars
  PROVE  (kills' = 0 => kills = 0) /\ (strays' = 0 => strays = 0)
<1>1. kills' \in {kills, kills + 1} /\ strays' \in {strays, strays + 1}
  <2>1. CASE Kill \/ Crash \/ CrashInClose \/ UNCHANGED vars \/ Rest
    BY <2>1 DEF Kill, Crash, CrashInClose, vars, Rest
  <2>2. CASE Plan
    BY <2>1, <2>2 DEF Plan, Register, CancelUnsent, Enable, bounds
  <2>3. CASE SyncPositions \/ Broker \/ Session
    BY <2>3 DEF SyncPositions, Broker, BrokerAccept, BrokerFill, BrokerDrop, OtherOrder,
       BrokerOnly, Session, CloseMarket, EndSession, OpenSession, Opened, bounds
  <2>4. ASSUME NEW th \in Scanners, Scan(th) \/ \E o \in AllOrders : LearnFill(th, o)
        PROVE  kills' = kills /\ strays' \in {strays, strays + 1}
    <3>1. CASE Submit(th)
      BY <3>1 DEF Submit, GatePass, GateBlock, Precheck, PlaceAccepted, PlaceUnknown,
         PlaceRejected, PlaceAgain, PlaceFound, Stray, MarkSent, MarkAcked, AddPendingOrder, bounds
    <3>2. CASE Reconcile(th)
      BY <3>2 DEF Reconcile, RefreshOk, RefreshFailed, ActAbove, ActTtl, ActUnknown, Acts, bounds
    <3>3. CASE \E r \in Runs : \/ CheckEntry(th, r)
                               \/ StartAbove(th, r) \/ StartTtl(th, r) \/ StartUnknown(th, r)
      BY <3>3 DEF CheckEntry, StartAbove, StartTtl, StartUnknown, bounds
    <3>4. CASE \E o \in AllOrders : LearnFill(th, o)
      BY <3>4 DEF LearnFill, bounds
    <3> QED BY <2>4, <3>1, <3>2, <3>3, <3>4 DEF Scan
  <2> QED BY <2>1, <2>2, <2>3, <2>4 DEF Next
<1>2. kills \in Nat /\ strays \in Nat
  BY DEF TypeInv, TypeOK
<1> QED BY <1>1, <1>2

LEMMA NextSteps ==
  ASSUME TypeInv, OwnRows, [Next]_vars, strays' = 0
  PROVE  Steps
BY CountersGrow, NextRuns, NextJobs, NextOrders, NextRows, NextOwners, NextSession DEF Steps

\* Rows and the scanners' orders stay their runs' own.
LEMMA NextOwnRows ==
  ASSUME TypeInv, TypeInv', OwnRows, [Next]_vars, strays' = 0
  PROVE  OwnRows'
<1>0. JobsGo /\ OrdersGo /\ RowsGo
  BY NextJobs, NextOrders, NextRows
<1>1. ASSUME NEW o \in AllOrders, Placed(o)
      PROVE  broker'[o].by = broker[o].by
  BY <1>0, <1>1 DEF OrdersGo, OrderStays, OrderGoesOn, OrderIsTaken, Placed
<1>2. ASSUME NEW o \in AllOrders, row'[o].left > 0
      PROVE  o \in Orders /\ row'[o].run = broker'[o].by
  <2>1. \/ row'[o] = row[o] \/ (row[o].left > 0 /\ row'[o].run = row[o].run)
        \/ \E th \in Scanners : /\ job[th].at = "row" /\ job[th].ord = o
                                /\ row'[o].run = job[th].run
    BY <1>0, <1>2 DEF RowsGo, RowGoes, TypeInv, TypeOK, Rows
  <2>2. CASE row[o].left > 0 /\ row'[o].run = row[o].run
    BY <1>1, <2>2 DEF OwnRows, TypeInv, OrdersOK, Placed
  <2>3. ASSUME NEW th \in Scanners, job[th].at = "row", job[th].ord = o,
               row'[o].run = job[th].run
        PROVE  o \in Orders /\ row'[o].run = broker'[o].by
    <3>1. Placed(o)
      BY <2>3, ItsOrder DEF Placed
    <3> QED BY <1>1, <2>3, <3>1 DEF OwnRows
  <2> QED BY <1>2, <2>1, <2>2, <2>3
<1>3. ASSUME NEW th \in Scanners, job'[th].at \in {"sent", "acked", "row"}
      PROVE  job'[th].ord \in Orders /\ broker'[job'[th].ord].by = job'[th].run
  <2>0. job'[th] # NoJob
    <3>1. NoJob.at = "idle"
      BY DEF NoJob
    <3> QED BY <1>3, <3>1
  <2>1. CASE job'[th] = job[th] \/ (Advances(th) /\ job[th].at \in {"sent", "acked"})
    <3>1. job[th].at \in {"sent", "acked", "row"} /\ job'[th].ord = job[th].ord
          /\ job'[th].run = job[th].run
      BY <1>3, <2>1 DEF Advances, SameHands, Takes, Looks
    <3>2. Placed(job[th].ord) /\ job[th].ord \in AllOrders
      BY <3>1, ItsOrder DEF Placed
    <3> QED BY <1>1, <3>1, <3>2 DEF OwnRows
  <2>2. CASE Takes(th) /\ job'[th].run = job[th].run
    <3>1. job'[th].ord \in Orders /\ BrokerTakes(job'[th].ord, job[th].run, "open")
      BY <2>2 DEF Takes
    <3>2. broker'[job'[th].ord].by = job[th].run
      BY <3>1, TakenOrder DEF AllOrders
    <3> QED BY <2>2, <3>1, <3>2
  <2>3. ~Begins(th)
    BY <1>3 DEF Begins
  <2>4. Advances(th) => (Takes(th) /\ job'[th].run = job[th].run) \/ job[th].at \in {"sent", "acked"}
    BY <1>3 DEF Advances, Looks
  <2> QED BY <1>0, <2>0, <2>1, <2>2, <2>3, <2>4 DEF JobsGo, JobMoves
<1> QED BY <1>2, <1>3 DEF OwnRows

-----------------------------------------------------------------------------
(* What is of which session *)

Submitting == {"gate", "precheck", "place", "sent", "acked", "row"}
Seen(th) == job[th].view.open \cup Filled(job[th].view)

\* An order is of the session of its run, and only today's can fill.
OrdersDated ==
    /\ \A o \in Orders : IF Placed(o) THEN /\ Registered(broker[o].by)
                                           /\ broker[o].day = run[broker[o].by].day
                         ELSE broker[o].by = NoRun
    /\ \A o \in AllOrders : broker[o].st = "transit" => broker[o].filled = 0
    /\ \A o \in Orders : Live(o) => phase = "open" /\ broker[o].day = day

\* A run is registered in an open session; only registered runs are looked at.
RunsDated ==
    /\ \A r \in Runs : Registered(r) => run[r].day <= day /\ (phase = "opening" => run[r].day < day)
    /\ \A r \in Runs : ~Registered(r) => run[r].cause = ""
    /\ \A r \in Runs : r \in pos \cup todo => Registered(r)
    /\ phase \in {"open", "closed"} => todo = {}
    /\ phase = "closing" => \A r \in todo : Today(r)

\* A job is on a run of the session's, except at its opening.
JobsDated ==
    \A th \in Scanners :
      /\ job[th] # NoJob => /\ Registered(job[th].run) /\ phase # "closed"
                            /\ phase # "opening" => Today(job[th].run)
                            /\ phase # "open" => th = "main"
      /\ job[th].at \in Submitting \/ job[th].what \in Cancelling => phase = "open" /\ job[th] # NoJob
      /\ job[th].at # "act" => job[th].view = NoView
      /\ \A p \in Seen(th) : Placed(p) /\ broker[p].st # "transit"
      /\ job[th].at # "idle" => job[th] # NoJob
      /\ job[th].what # "" => job[th].at \in {"refresh", "act"}

Dates == OwnRows /\ OrdersDated /\ RunsDated /\ JobsDated

LEMMA RegisteredStays ==
  ASSUME TypeInv, Dates, Steps, NEW r \in Runs, Registered(r)
  PROVE  run'[r].status # "NONE" /\ run'[r].day = run[r].day
<1>1. RunGoes(r)
  BY DEF Steps, RunsGo
<1>2. CASE Registers(r)
  BY <1>2 DEF Registers, Registered
<1>3. CASE Stays(r) \/ IsUnsent(r) \/ IsKilled(r) \/ IsUnconfirmed(r) \/ IsFilled(r)
           \/ IsSynced(r) \/ IsExpired(r) \/ IsRecovered(r)
  BY <1>3 DEF Stays, IsUnsent, IsKilled, IsUnconfirmed, IsFilled, IsSynced, IsExpired, IsRecovered,
     IsCancelled, Becomes, Keeps, Dated, Entered, Registered
<1>4. ASSUME NEW th \in Scanners, job[th].run = r, Submits(th)
      PROVE  run'[r].status # "NONE" /\ run'[r].day = run[r].day
  BY <1>4 DEF Submits, IsCancelled, Keeps, Dated
<1>5. ASSUME NEW th \in Scanners, job[th].run = r, Reconciles(th)
      PROVE  run'[r].status # "NONE" /\ run'[r].day = run[r].day
  BY <1>5 DEF Reconciles, IsCancelled, Dated, Entered
<1> QED BY <1>1, <1>2, <1>3, <1>4, <1>5 DEF RunGoes, ByJob

LEMMA UnregisteredGoes ==
  ASSUME TypeInv, Dates, Steps, NEW r \in Runs, ~Registered(r)
  PROVE  Stays(r) \/ Registers(r)
<1>1. RunGoes(r)
  BY DEF Steps, RunsGo
<1>2. CASE IsUnsent(r) \/ IsKilled(r) \/ IsUnconfirmed(r)
           \/ IsSynced(r) \/ IsExpired(r) \/ IsRecovered(r)
  BY <1>2 DEF IsUnsent, IsKilled, IsUnconfirmed, IsSynced, IsExpired, IsRecovered,
     IsCancelled, Becomes, Cancellable, Pending, Registered
<1>3. CASE IsFilled(r)
  BY <1>3 DEF IsFilled, TypeInv, OrdersOK, Dates, OrdersDated, Placed, AllOrders
<1>4. CASE ByJob(r)
  <2>1. PICK th \in Scanners : job[th] # NoJob /\ job[th].run = r
    BY <1>4 DEF ByJob
  <2>2. Registered(job[th].run)
    BY <2>1 DEF Dates, JobsDated
  <2> QED BY <2>1, <2>2 DEF Registered
<1> QED BY <1>1, <1>2, <1>3, <1>4 DEF RunGoes

LEMMA PlacedStays ==
  ASSUME TypeInv, Steps, NEW o \in AllOrders, Placed(o)
  PROVE  /\ broker'[o].st # "none" /\ broker'[o].by = broker[o].by /\ broker'[o].day = broker[o].day
         /\ broker[o].st # "transit" => broker'[o].st # "transit"
BY DEF Steps, OrdersGo, OrderStays, OrderGoesOn, OrderIsTaken, Placed

\* A scanner that sends is on a run of the day.
LEMMA TakenOf ==
  ASSUME TypeInv, Dates, Steps, NEW o \in Orders, OrderIsTaken(o)
  PROVE  \E th \in Scanners :
            /\ job[th].at = "place" /\ broker'[o].by = job[th].run /\ job[th].run \in Runs
            /\ Registered(job[th].run) /\ Today(job[th].run) /\ phase = "open"
            /\ \/ /\ job'[th].at = "sent" /\ job'[th].ord = o /\ UNCHANGED run
                  /\ broker'[o].st = "open"
               \/ job'[th].at = "refresh" /\ run'[job[th].run].status = "ORDER_UNKNOWN"
<1>1. o \notin Others
  BY NamesAssumption
<1>2. PICK th \in Scanners :
            /\ job[th].at = "place" /\ broker'[o].by = job[th].run
            /\ \/ /\ job'[th].at = "sent" /\ job'[th].ord = o /\ UNCHANGED run
                  /\ broker'[o].st = "open"
               \/ job'[th].at = "refresh" /\ run'[job[th].run].status = "ORDER_UNKNOWN"
  BY <1>1 DEF OrderIsTaken
<1>3. phase = "open" /\ job[th] # NoJob
  BY <1>2 DEF Dates, JobsDated, Submitting
<1>4. job[th].run \in Runs /\ Registered(job[th].run) /\ Today(job[th].run)
  BY <1>3 DEF Dates, JobsDated, TypeInv, JobsOK
<1> QED BY <1>2, <1>3, <1>4

LEMMA OrdersDatedStep ==
  ASSUME TypeInv, Dates, Steps
  PROVE  OrdersDated'
<1>1. ASSUME NEW o \in Orders
      PROVE  IF Placed(o)' THEN /\ Registered(broker[o].by)'
                                /\ broker'[o].day = run'[broker'[o].by].day
             ELSE broker'[o].by = NoRun
  <2>0. o \in AllOrders
    BY DEF AllOrders
  <2>1. CASE Placed(o)
    <3>1. broker[o].by \in Runs /\ Registered(broker[o].by) /\ broker[o].day = run[broker[o].by].day
      BY <2>1 DEF TypeInv, OrdersOK, Placed, Dates, OrdersDated
    <3> QED BY <2>0, <2>1, <3>1, PlacedStays, RegisteredStays DEF Registered, Placed
  <2>2. CASE OrderIsTaken(o)
    <3>1. PICK th \in Scanners : /\ broker'[o].by = job[th].run /\ job[th].run \in Runs
                                 /\ Registered(job[th].run) /\ Today(job[th].run)
      BY <2>2, TakenOf
    <3>2. broker'[o].day = day /\ broker'[o].st # "none"
      BY <2>2 DEF OrderIsTaken
    <3> QED BY <3>1, <3>2, RegisteredStays DEF Registered, Placed, Today
  <2>3. CASE ~Placed(o) /\ OrderStays(o)
    BY <2>3 DEF Placed, OrderStays, Dates, OrdersDated
  <2> QED BY <2>0, <2>1, <2>2, <2>3 DEF Steps, OrdersGo, OrderGoesOn, Live, Placed
<1>2. ASSUME NEW o \in AllOrders
      PROVE  broker'[o].st = "transit" => broker'[o].filled = 0
  BY DEF Steps, OrdersGo, OrderStays, OrderGoesOn, OrderIsTaken, Dates, OrdersDated
<1>3. ASSUME NEW o \in Orders, Live(o)'
      PROVE  phase' = "open" /\ broker'[o].day = day'
  <2>0. o \in AllOrders
    BY DEF AllOrders
  <2>1. CASE Live(o)
    <3>1. phase = "open" /\ broker[o].day = day
      BY <2>1 DEF Dates, OrdersDated
    <3>2. broker'[o].day = broker[o].day
      BY <2>0, <2>1, PlacedStays DEF Live, Placed
    <3>3. UNCHANGED <<phase, day>>
      BY <1>3, <3>1 DEF Steps, SessionTurns, Live
    <3> QED BY <3>1, <3>2, <3>3
  <2>2. CASE OrderIsTaken(o)
    BY <2>2, TakenOf DEF OrderIsTaken
  <2> QED BY <1>3, <2>0, <2>1, <2>2 DEF Steps, OrdersGo, OrderStays, OrderGoesOn, Live
<1> QED BY <1>1, <1>2, <1>3 DEF OrdersDated

LEMMA RunsDatedStep ==
  ASSUME TypeInv, TypeInv', Dates, Steps
  PROVE  RunsDated'
<1>0. day \in Nat /\ \A r \in Runs : run[r].day \in Nat
  BY SizesAssumption DEF TypeInv, TypeOK, RunRows
<1>1. ASSUME NEW r \in Runs, Registered(r)'
      PROVE  run'[r].day <= day' /\ (phase' = "opening" => run'[r].day < day')
  <2>1. CASE Registered(r)
    <3>1. run'[r].day = run[r].day
      BY <2>1, RegisteredStays
    <3>2. run[r].day <= day /\ (phase = "opening" => run[r].day < day)
      BY <2>1 DEF Dates, RunsDated
    <3>3. UNCHANGED <<phase, day>> \/ (phase' # "opening" /\ UNCHANGED day)
          \/ (phase' = "opening" /\ day' = day + 1)
      BY DEF Steps, SessionTurns
    <3> QED BY <1>0, <3>1, <3>2, <3>3
  <2>2. CASE ~Registered(r)
    <3>1. Registers(r)
      BY <1>1, <2>2, UnregisteredGoes DEF Stays, Registered
    <3> QED BY <1>0, <3>1 DEF Registers
  <2> QED BY <2>1, <2>2
<1>2. ASSUME NEW r \in Runs, ~Registered(r)'
      PROVE  run'[r].cause = ""
  <2>1. ~Registered(r)
    BY <1>2, RegisteredStays DEF Registered
  <2>2. Stays(r)
    BY <1>2, <2>1, UnregisteredGoes DEF Registers, Registered
  <2> QED BY <2>1, <2>2 DEF Stays, Keeps, Dates, RunsDated
<1>3. ASSUME NEW r \in Runs, r \in pos' \cup todo'
      PROVE  Registered(r)'
  <2>1. CASE r \in pos \cup todo
    BY <2>1, RegisteredStays DEF Dates, RunsDated, Registered
  <2>2. CASE r \in pos' /\ r \notin pos
    <3>1. CASE run'[r].status \in Active
      BY <3>1 DEF Active, Pending, Entered, Registered
    <3>2. CASE \E o \in Orders : row[o].left > 0 /\ broker[o].by = r
      <4>1. Registered(r)
        BY <3>2 DEF TypeInv, OrdersOK, Dates, OrdersDated, Placed, AllOrders
      <4> QED BY <4>1, RegisteredStays DEF Registered
    <3> QED BY <2>2, <3>1, <3>2 DEF Steps, OwnersGo
  <2>3. CASE r \in todo' /\ r \notin todo
    <3>1. Registered(r)
      BY <2>3 DEF Steps, SessionTurns
    <3> QED BY <3>1, RegisteredStays DEF Registered
  <2> QED BY <1>3, <2>1, <2>2, <2>3
<1>4. phase' \in {"open", "closed"} => todo' = {}
  BY DEF Steps, SessionTurns, Dates, RunsDated
<1>5. ASSUME phase' = "closing", NEW r \in todo'
      PROVE  Today(r)'
  <2>0. r \in Runs
    BY <1>5 DEF TypeInv, TypeOK
  <2>1. UNCHANGED day /\ Today(r) /\ Registered(r)
    BY <1>5, <2>0 DEF Steps, SessionTurns, Dates, RunsDated
  <2> QED BY <2>0, <2>1, RegisteredStays DEF Today
<1> QED BY <1>1, <1>2, <1>3, <1>4, <1>5 DEF RunsDated

LEMMA Blanks ==
  /\ NoJob.at = "idle" /\ NoJob.what = "" /\ NoJob.ord = NoOrder /\ NoJob.view = NoView
  /\ NoView.open \cup Filled(NoView) = {} /\ ~NoView.ok
BY DEF NoJob, NoView, Filled

LEMMA JobsDatedStep ==
  ASSUME TypeInv, TypeInv', Dates, Steps
  PROVE  JobsDated'
<1> SUFFICES ASSUME NEW th \in Scanners
             PROVE  /\ job'[th] # NoJob => /\ Registered(job[th].run)' /\ phase' # "closed"
                                           /\ phase' # "opening" => Today(job[th].run)'
                                           /\ phase' # "open" => th = "main"
                    /\ job'[th].at \in Submitting \/ job'[th].what \in Cancelling
                          => phase' = "open" /\ job'[th] # NoJob
                    /\ job'[th].at # "act" => job'[th].view = NoView
                    /\ \A p \in Seen(th)' : Placed(p)' /\ broker'[p].st # "transit"
                    /\ job'[th].at # "idle" => job'[th] # NoJob
                    /\ job'[th].what # "" => job'[th].at \in {"refresh", "act"}
  BY DEF JobsDated
<1>a. JobMoves(th)
  BY DEF Steps, JobsGo
<1>b. job[th] # NoJob => job[th].run \in Runs
  BY DEF TypeInv, JobsOK
<1>c. job[th] \in Jobs /\ job[th].view.open \subseteq AllOrders
  BY DEF TypeInv, TypeOK, Jobs, Views
<1>1. CASE job'[th] = NoJob
  BY <1>1, Blanks DEF Seen, Submitting, Cancelling
<1>2. CASE job'[th] = job[th] /\ job[th] # NoJob
  <2>1. run'[job[th].run].status # "NONE" /\ run'[job[th].run].day = run[job[th].run].day
    BY <1>2, <1>b, RegisteredStays DEF Dates, JobsDated, Registered
  <2>2. phase # "closed" /\ (phase # "opening" => Today(job[th].run)) /\ (phase # "open" => th = "main")
    BY <1>2 DEF Dates, JobsDated
  <2>3. UNCHANGED <<phase, day>>
    BY <1>2, <2>2 DEF Steps, SessionTurns, MainIdle
  <2>4. \A p \in Seen(th)' : Placed(p)' /\ broker'[p].st # "transit"
    <3>1. Seen(th)' = Seen(th) /\ Seen(th) \subseteq AllOrders
      BY <1>2, <1>c DEF Seen, Filled
    <3>2. \A p \in Seen(th) : Placed(p) /\ broker[p].st # "transit"
      BY DEF Dates, JobsDated
    <3>3. \A p \in Seen(th) : broker'[p].st # "none" /\ broker'[p].st # "transit"
      BY <3>1, <3>2, PlacedStays
    <3> QED BY <3>1, <3>3 DEF Placed
  <2>5. /\ job[th].at \in Submitting \/ job[th].what \in Cancelling => phase = "open"
        /\ job[th].at # "act" => job[th].view = NoView
        /\ job[th].what # "" => job[th].at \in {"refresh", "act"}
    BY DEF Dates, JobsDated
  <2> QED BY <1>2, <2>1, <2>2, <2>3, <2>4, <2>5 DEF Today, Registered
<1>3. CASE Begins(th)
  <2> PICK r \in Runs : r = job'[th].run
    BY <1>3 DEF Begins
  <2>1. UNCHANGED <<broker, row, phase, day>> /\ job'[th].view = NoView
        /\ job'[th].at \in {"gate", "refresh"}
        /\ (job'[th].what = "" \/ job'[th].at = "refresh")
    BY <1>3 DEF Begins
  <2>2. job'[th] # NoJob
    BY <2>1, Blanks
  <2>3. /\ Registered(r)
        /\ \/ phase = "open" /\ Today(r)
           \/ th = "main" /\ r \in todo /\ job'[th].what = "unknown" /\ job'[th].at = "refresh"
    BY <1>3 DEF Begins, Registered, Pending
  <2>4. run'[r].status # "NONE" /\ run'[r].day = run[r].day
    BY <2>3, RegisteredStays
  <2>5. phase # "closed" /\ (phase \notin {"open", "opening"} => Today(r))
        /\ (phase # "open" => th = "main" /\ job'[th].what = "unknown" /\ job'[th].at = "refresh")
    <3>1. CASE phase = "open" /\ Today(r)
      BY <3>1
    <3>2. CASE th = "main" /\ r \in todo /\ job'[th].what = "unknown" /\ job'[th].at = "refresh"
      <4>1. phase \in {"closing", "opening"} /\ (phase = "closing" => Today(r))
        BY <3>2 DEF Dates, RunsDated, TypeInv, TypeOK
      <4> QED BY <3>2, <4>1
    <3> QED BY <2>3, <3>1, <3>2
  <2>6. Seen(th)' = {}
    BY <2>1, Blanks DEF Seen
  <2>7. phase = "open" => Today(r)
    BY <2>3 DEF Dates, RunsDated
  <2> QED BY <2>1, <2>2, <2>4, <2>5, <2>6, <2>7
          DEF Submitting, Cancelling, Today, Registered
<1>4. CASE Advances(th)
  <2> DEFINE r == job[th].run
  <2>1. job[th] # NoJob /\ job'[th].run = r /\ UNCHANGED <<phase, day>>
        /\ job'[th].at \in (Submitting \ {"gate"}) \cup {"refresh", "act"}
    BY <1>4 DEF Advances, Takes, Looks, Dates, JobsDated, Submitting
  <2>2. job'[th] # NoJob /\ job'[th].at # "idle"
    BY <2>1, Blanks DEF Submitting
  <2>3. Registered(r)' /\ run'[r].day = run[r].day
    BY <2>1, <1>b, RegisteredStays DEF Dates, JobsDated, Registered
  <2>4. phase # "closed" /\ (phase # "opening" => Today(r)) /\ (phase # "open" => th = "main")
    BY <2>1 DEF Dates, JobsDated
  <2>5. CASE Looks(th)
    <3>1. job'[th].at = "act" /\ job'[th].what = job[th].what /\ UNCHANGED broker /\ job[th].at = "refresh"
      BY <2>5 DEF Looks
    <3>2. \A p \in Seen(th)' : Placed(p)' /\ broker'[p].st # "transit"
      <4>1. CASE job'[th].view = job[th].view
        <5>1. Seen(th)' = Seen(th)
          BY <4>1 DEF Seen, Filled
        <5>2. \A p \in Seen(th) : Placed(p) /\ broker[p].st # "transit"
          BY DEF Dates, JobsDated
        <5> QED BY <3>1, <5>1, <5>2 DEF Placed
      <4>2. CASE /\ job'[th].view.open = {o \in AllOrders : broker[o].st = "open"}
                 /\ job'[th].view.fills =
                       [o \in AllOrders |-> IF broker[o].day = day THEN broker[o].filled ELSE 0]
        <5>1. ASSUME NEW p \in job'[th].view.open
              PROVE  broker[p].st = "open"
          BY <4>2, <5>1
        <5>2. ASSUME NEW p \in AllOrders, job'[th].view.fills[p] > 0
              PROVE  broker[p].filled # 0
          BY <4>2, <5>2
        <5>3. \A p \in AllOrders : broker[p].filled # 0 => broker[p].st \notin {"none", "transit"}
          BY DEF Dates, OrdersDated, TypeInv, OrdersOK
        <5> QED BY <3>1, <5>1, <5>2, <5>3 DEF Seen, Filled, Placed
      <4> QED BY <2>5, <4>1, <4>2 DEF Looks
    <3> QED BY <2>1, <2>2, <2>3, <2>4, <3>1, <3>2 DEF Submitting, Dates, JobsDated, Today
  <2>6. CASE ~Looks(th)
    <3>1. job'[th].view = job[th].view /\ job[th].at \in Submitting
          /\ \/ job'[th].at \in Submitting /\ job'[th].what = job[th].what
             \/ job'[th].at = "refresh" /\ job'[th].what = "unknown"
      BY <1>4, <2>6 DEF Advances, Takes, SameHands, Submitting
    <3>2. job[th].view = NoView /\ phase = "open" /\ job[th].what = ""
      BY <3>1 DEF Dates, JobsDated, Submitting
    <3> QED BY <2>1, <2>2, <2>3, <2>4, <3>1, <3>2, Blanks DEF Seen, Submitting, Cancelling, Today
  <2> QED BY <2>5, <2>6
<1> QED BY <1>a, <1>1, <1>2, <1>3, <1>4 DEF JobMoves

\* The dates hold together, whoever scans.
LEMMA NextDates ==
  ASSUME TypeInv, Dates, [Next]_vars, strays' = 0
  PROVE  Dates'
<1>1. TypeInv'
  BY NextType
<1>2. Steps /\ OwnRows'
  BY <1>1, NextSteps, NextOwnRows DEF Dates
<1> QED BY <1>1, <1>2, OrdersDatedStep, RunsDatedStep, JobsDatedStep DEF Dates

LEMMA InitDates == Init => Dates
<1> SUFFICES ASSUME Init PROVE Dates
  OBVIOUS
<1>0. TypeInv
  BY InitType
<1>1. OrdersDated
  BY DEF Init, OrdersDated, Placed, Live, NewOrder, AllOrders
<1>2. RunsDated
  BY DEF Init, RunsDated, Registered, NewRun
<1>3. JobsDated
  BY Blanks DEF Init, JobsDated, Seen, Submitting, Cancelling
<1>4. OwnRows
  <2>1. \A o \in AllOrders : row[o].left = 0
    BY NewTypes DEF Init
  <2>2. ~(0 > 0)
    OBVIOUS
  <2>3. \A th \in Scanners : job[th].at = "idle"
    BY Blanks DEF Init
  <2> QED BY <2>1, <2>2, <2>3 DEF OwnRows
<1> QED BY <1>1, <1>2, <1>3, <1>4 DEF Dates

\* They hold as long as no submission has gone astray.
OwnDates == strays = 0 => Dates

LEMMA NextOwnDates ==
  ASSUME TypeInv, OwnDates, [Next]_vars
  PROVE  OwnDates'
BY CountersGrow, NextDates DEF OwnDates

-----------------------------------------------------------------------------
(* A plan is sent once *)

Alone == \A th \in Scanners \ {"main"} : job[th] = NoJob

\* A plan is sent once,
OneEach == \A o, p \in Orders : Placed(o) /\ Placed(p) /\ broker[o].by = broker[p].by => o = p

\* what has not been sent has nothing at the broker, or an order that nobody knows of,
Unsent ==
    \A r \in Runs :
        /\ run[r].status \in {"NONE", "WAITING"} => Of(r) = {}
        /\ run[r].status \in {"NONE", "WAITING", "HIT"} => run[r].no = NoOrder
        /\ run[r].status \in {"HIT", "EXPIRED"} \/ run[r].cause = "unsent" =>
              \A o \in Orders : broker[o].by = r => row[o].left = 0
        /\ run[r].cause = "unsent" => run[r].status = "CANCELLED"

\* and a job finds its run in the status in which it has put it.
Progress ==
    \A th \in Scanners :
        LET r == job[th].run IN
        /\ job[th].at = "gate" => run[r].status = "WAITING"
        /\ job[th].at \in {"precheck", "place"} => run[r].status = "HIT" /\ Of(r) = {}
        /\ job[th].at = "sent" => run[r].status = "HIT"
        /\ job[th].at \in {"acked", "row", "refresh", "act"} => run[r].status \in Recorded
        /\ job[th].at \in Submitting \ {"gate"} => \A o \in Orders : row[o].left = 0
        /\ job[th].ord # NoOrder <=> job[th].at \in {"sent", "acked", "row"}
        /\ job[th].ord # NoOrder => job[th].ord \in Of(r)

SentOnce == OneEach /\ Unsent /\ Progress

\* Orders are of runs only if the system has placed them.
LEMMA OfPlaced ==
  ASSUME Others = {}, TypeInv, Dates, NEW r \in Runs, NEW o \in AllOrders, broker[o].by = r
  PROVE  o \in Orders /\ Placed(o)
BY NamesAssumption DEF AllOrders, Dates, OrdersDated

LEMMA NewOfRun ==
  ASSUME Others = {}, TypeInv, TypeInv', Dates, Steps,
         NEW r \in Runs, NEW o \in AllOrders, broker'[o].by = r, broker[o].by # r
  PROVE  /\ o \in Orders /\ OrderIsTaken(o)
         /\ \E th \in Scanners :
              /\ job[th].at = "place" /\ r = job[th].run /\ job[th] # NoJob
              /\ \/ /\ job'[th].at = "sent" /\ job'[th].ord = o /\ UNCHANGED run
                    /\ broker'[o].st = "open"
                 \/ job'[th].at = "refresh" /\ run'[r].status = "ORDER_UNKNOWN"
<1>1. o \in Orders
  BY DEF AllOrders
<1>2. ~Placed(o)
  BY PlacedStays
<1>3. ~OrderStays(o)
  BY DEF OrderStays
<1>4. OrderIsTaken(o)
  BY <1>2, <1>3 DEF Steps, OrdersGo, OrderGoesOn, Live, Placed
<1>5. PICK th \in Scanners :
        /\ job[th].at = "place" /\ broker'[o].by = job[th].run
        /\ \/ /\ job'[th].at = "sent" /\ job'[th].ord = o /\ UNCHANGED run
              /\ broker'[o].st = "open"
           \/ job'[th].at = "refresh" /\ run'[job[th].run].status = "ORDER_UNKNOWN"
  BY <1>1, <1>4, TakenOf
<1>6. job[th] # NoJob
  BY <1>5, Working
<1> QED BY <1>1, <1>4, <1>5, <1>6

\* The writes of the store, when nobody kills and the trading loop scans alone.
LEMMA RunAlone ==
  ASSUME Steps, Alone, kills' = 0, NEW r \in Runs
  PROVE  \/ Stays(r)
         \/ Registers(r) \/ IsUnsent(r) \/ IsUnconfirmed(r) \/ IsFilled(r)
         \/ IsSynced(r) \/ IsExpired(r) \/ IsRecovered(r)
         \/ /\ job["main"] # NoJob /\ job["main"].run = r
            /\ Submits("main") \/ Reconciles("main")
BY DEF Steps, RunsGo, RunGoes, IsKilled, ByJob, Alone

LEMMA OneEachStep ==
  ASSUME Others = {}, TypeInv, TypeInv', Dates, Dates', SentOnce, Steps, Alone
  PROVE  OneEach'
<1> SUFFICES ASSUME NEW o \in Orders, NEW p \in Orders, Placed(o)', Placed(p)',
                    broker'[o].by = broker'[p].by
             PROVE  o = p
  BY DEF OneEach
<1>0. o \in AllOrders /\ p \in AllOrders /\ broker'[o].by \in Runs
  BY DEF AllOrders, TypeInv, OrdersOK, Placed
<1>1. CASE broker[o].by = broker'[o].by /\ broker[p].by = broker'[p].by
  BY <1>0, <1>1, OfPlaced DEF SentOnce, OneEach
<1>2. ASSUME NEW u \in Orders, NEW w \in Orders, broker'[u].by \in Runs,
             broker'[u].by = broker'[w].by, broker[u].by # broker'[u].by
      PROVE  u = w
  <2>0. u \in AllOrders /\ w \in AllOrders
    BY DEF AllOrders
  <2>1. OrderIsTaken(u) /\ \E th \in Scanners : /\ job[th].at = "place" /\ job[th] # NoJob
                                               /\ broker'[u].by = job[th].run
    BY <1>2, <2>0, NewOfRun
  <2>2. Of(broker'[u].by) = {}
    BY <2>1 DEF SentOnce, Progress
  <2>3. broker[w].by # broker'[w].by
    BY <1>2, <2>0, <2>2 DEF Of
  <2> QED BY <2>0, <2>1, <2>3 DEF OrderIsTaken
<1> QED BY <1>0, <1>1, <1>2

LEMMA UnsentStep ==
  ASSUME Others = {}, TypeInv, TypeInv', Dates, Dates', SentOnce, Steps, Alone, kills' = 0
  PROVE  Unsent'
<1>m. "main" \in Scanners
  BY ScannersAssumption
<1> SUFFICES ASSUME NEW r \in Runs
             PROVE  /\ run'[r].status \in {"NONE", "WAITING"} => Of(r)' = {}
                    /\ run'[r].status \in {"NONE", "WAITING", "HIT"} => run'[r].no = NoOrder
                    /\ run'[r].status \in {"HIT", "EXPIRED"} \/ run'[r].cause = "unsent" =>
                          \A o \in Orders : broker'[o].by = r => row'[o].left = 0
                    /\ run'[r].cause = "unsent" => run'[r].status = "CANCELLED"
  BY DEF Unsent
<1>r. /\ run[r].status \in {"NONE", "WAITING"} => Of(r) = {}
      /\ run[r].status \in {"NONE", "WAITING", "HIT"} => run[r].no = NoOrder
      /\ run[r].status \in {"HIT", "EXPIRED"} \/ run[r].cause = "unsent" =>
            \A o \in Orders : broker[o].by = r => row[o].left = 0
      /\ run[r].cause = "unsent" => run[r].status = "CANCELLED"
  BY DEF SentOnce, Unsent
<1>j. job["main"].run = r =>
        /\ job["main"].at = "gate" => run[r].status = "WAITING"
        /\ job["main"].at \in {"precheck", "place", "sent"} => run[r].status = "HIT"
        /\ job["main"].at \in {"acked", "row", "refresh", "act"} => run[r].status \in Recorded
  BY <1>m DEF SentOnce, Progress
<1>g. \/ Stays(r)
      \/ Registers(r) \/ IsUnsent(r) \/ IsUnconfirmed(r) \/ IsFilled(r)
      \/ IsSynced(r) \/ IsExpired(r) \/ IsRecovered(r)
      \/ /\ job["main"] # NoJob /\ job["main"].run = r
         /\ Submits("main") \/ Reconciles("main")
  BY RunAlone
<1>1. run'[r].status \in {"NONE", "WAITING"} => run[r].status \in {"NONE", "WAITING"}
  BY <1>g DEF Stays, Registers, IsUnsent, IsUnconfirmed, IsFilled, IsSynced, IsExpired, IsRecovered,
     Submits, Reconciles, IsCancelled, Becomes, Keeps, Entered, Cancellable, Pending
<1>2. ASSUME run'[r].status \in {"NONE", "WAITING"}
      PROVE  Of(r)' = {}
  <2>1. ASSUME NEW o \in AllOrders, broker'[o].by = r
        PROVE  FALSE
    <3>1. broker[o].by # r
      BY <1>r, <1>1, <1>2 DEF Of
    <3>2. \E th \in Scanners : job[th].at = "place" /\ r = job[th].run /\ job[th] # NoJob
      BY <2>1, <3>1, NewOfRun
    <3> QED BY <1>j, <1>1, <1>2, <3>2 DEF Alone
  <2> QED BY <2>1 DEF Of
<1>3. run'[r].status \in {"NONE", "WAITING", "HIT"} => run'[r].no = NoOrder
  BY <1>g, <1>r, <1>j DEF Stays, Registers, IsUnsent, IsUnconfirmed, IsFilled, IsSynced, IsExpired,
     IsRecovered, Submits, Reconciles, IsCancelled, Becomes, Keeps, Entered, Cancellable, Pending
<1>4. run'[r].cause = "unsent" => run'[r].status = "CANCELLED"
  <2>1. CASE IsFilled(r)
    BY <1>r, <2>1 DEF IsFilled
  <2> QED BY <1>g, <1>r, <1>j, <2>1 DEF Stays, Registers, IsUnsent, IsUnconfirmed, IsSynced,
        IsExpired, IsRecovered, Submits, Reconciles, IsCancelled, Becomes, Keeps, Recorded, Entered,
        Cancellable, Pending, Cancelling
<1>5. ASSUME run'[r].status \in {"HIT", "EXPIRED"} \/ run'[r].cause = "unsent",
             NEW o \in Orders, broker'[o].by = r
      PROVE  row'[o].left = 0
  <2>0. o \in AllOrders
    BY DEF AllOrders
  <2>1. broker[o].by = r => row[o].left = 0
    <3>1. CASE run[r].status \in {"WAITING", "HIT", "EXPIRED"} \/ run[r].cause = "unsent"
      BY <1>r, <2>0, <3>1 DEF Of
    <3>2. run[r].status \in {"WAITING", "HIT", "EXPIRED"} \/ run[r].cause = "unsent"
      BY <1>g, <1>5, <1>j DEF Stays, Registers, IsUnsent, IsUnconfirmed, IsFilled, IsSynced,
        IsExpired, IsRecovered, Submits, Reconciles, IsCancelled, Becomes, Keeps, Entered,
        Cancellable, Pending, Cancelling
    <3> QED BY <3>1, <3>2
  <2>2. CASE broker[o].by = r
    <3>1. RowGoes(o)
      BY <2>0 DEF Steps, RowsGo
    <3>2. ASSUME NEW th \in Scanners, job[th].at = "row", job[th].ord = o, UNCHANGED run
          PROVE  FALSE
      <4>1. o # NoOrder
        BY NamesAssumption
      <4>2. o \in Of(job[th].run) /\ run[job[th].run].status \in Recorded
        BY <3>2, <4>1 DEF SentOnce, Progress
      <4>3. job[th].run = r
        BY <2>2, <4>2 DEF Of
      <4> QED BY <1>5, <1>r, <3>2, <4>2, <4>3 DEF Recorded, Pending, Entered
    <3> QED BY <2>1, <2>2, <3>1, <3>2 DEF RowGoes
  <2>3. CASE broker[o].by # r
    <3>1. OrderIsTaken(o)
      BY <1>5, <2>0, <2>3, NewOfRun
    <3>2. row[o].left = 0
      BY <2>0, <3>1, SizesAssumption DEF OrderIsTaken, TypeInv, TypeOK, OrdersOK, Rows
    <3> QED BY <3>1, <3>2 DEF OrderIsTaken
  <2> QED BY <2>2, <2>3
<1> QED BY <1>2, <1>3, <1>4, <1>5

\* What the others may do to the run of a job that is under way.
LEMMA JobsRun ==
  ASSUME TypeInv, Dates, Steps, Alone, kills' = 0,
         job["main"] # NoJob, job'["main"] = job["main"]
  PROVE  LET r == job["main"].run
         IN  Stays(r) \/ IsUnconfirmed(r) \/ IsFilled(r)
<1> DEFINE r == job["main"].run
<1>m. "main" \in Scanners
  BY ScannersAssumption
<1>1. r \in Runs /\ Registered(r)
  BY <1>m DEF TypeInv, JobsOK, Dates, JobsDated
<1>2. \/ Stays(r)
      \/ Registers(r) \/ IsUnsent(r) \/ IsUnconfirmed(r) \/ IsFilled(r)
      \/ IsSynced(r) \/ IsExpired(r) \/ IsRecovered(r)
      \/ Submits("main") \/ Reconciles("main")
  BY <1>1, RunAlone
<1>3. ~(IsUnsent(r) \/ IsSynced(r) \/ IsExpired(r) \/ IsRecovered(r) \/ Registers(r))
  BY <1>m, <1>1 DEF IsUnsent, IsSynced, IsExpired, IsRecovered, Registers, MainIdle, Registered
<1>4. ~Submits("main")
  BY <1>m DEF Submits
<1>5. ~Reconciles("main")
  BY <1>m DEF Reconciles
<1> QED BY <1>2, <1>3, <1>4, <1>5

\* No order is new unless the trading loop is placing one.
LEMMA NoNewOrder ==
  ASSUME Others = {}, TypeInv, TypeInv', Dates, Steps, Alone, NEW r \in Runs,
         ~(/\ job["main"].at = "place" /\ job["main"].run = r
           /\ job'["main"].at \in {"sent", "refresh"})
  PROVE  \A o \in AllOrders : broker'[o].by = r => broker[o].by = r
<1> SUFFICES ASSUME NEW o \in AllOrders, broker'[o].by = r, broker[o].by # r
             PROVE  FALSE
  OBVIOUS
<1>1. PICK th \in Scanners : /\ job[th].at = "place" /\ r = job[th].run /\ job[th] # NoJob
                             /\ job'[th].at \in {"sent", "refresh"}
  BY NewOfRun
<1> QED BY <1>1 DEF Alone

\* A pending row is new when the trading loop is writing one.
LEMMA NoNewRow ==
  ASSUME TypeInv, TypeInv', Steps, Alone, job["main"].at # "row",
         \A o \in Orders : row[o].left = 0
  PROVE  \A o \in Orders : row'[o].left = 0
<1> SUFFICES ASSUME NEW o \in Orders
             PROVE  row'[o].left = 0
  OBVIOUS
<1>1. RowGoes(o)
  BY DEF Steps, RowsGo, AllOrders
<1>2. ASSUME NEW th \in Scanners
      PROVE  job[th].at # "row"
  BY Blanks DEF Alone
<1>3. row[o].left = 0
  OBVIOUS
<1> QED BY <1>1, <1>2, <1>3 DEF RowGoes

LEMMA ProgressStep ==
  ASSUME Others = {}, TypeInv, TypeInv', Dates, Dates', SentOnce, Steps, Alone, Alone', kills' = 0
  PROVE  Progress'
<1> SUFFICES ASSUME NEW th \in Scanners
             PROVE  LET q == job'[th].run
                        at == job'[th].at
                        ord == job'[th].ord
                    IN  /\ at = "gate" => run'[q].status = "WAITING"
                        /\ at \in {"precheck", "place"} =>
                              run'[q].status = "HIT" /\ \A o \in AllOrders : broker'[o].by # q
                        /\ at = "sent" => run'[q].status = "HIT"
                        /\ at \in {"acked", "row", "refresh", "act"} => run'[q].status \in Recorded
                        /\ at \in Submitting \ {"gate"} => \A o \in Orders : row'[o].left = 0
                        /\ ord # NoOrder <=> at \in {"sent", "acked", "row"}
                        /\ ord # NoOrder => ord \in AllOrders /\ broker'[ord].by = q
  BY DEF Progress, Of
<1>1. CASE job'[th] = NoJob
  BY <1>1, Blanks DEF Submitting
<1>2. CASE job'[th] # NoJob
  <2>m. th = "main"
    BY <1>2 DEF Alone
  <2> DEFINE r == job["main"].run
  <2>0. /\ job["main"].at = "gate" => run[r].status = "WAITING"
        /\ job["main"].at \in {"precheck", "place"} =>
              run[r].status = "HIT" /\ \A o \in AllOrders : broker[o].by # r
        /\ job["main"].at = "sent" => run[r].status = "HIT"
        /\ job["main"].at \in {"acked", "row", "refresh", "act"} => run[r].status \in Recorded
        /\ job["main"].at \in Submitting \ {"gate"} => \A o \in Orders : row[o].left = 0
        /\ job["main"].ord # NoOrder <=> job["main"].at \in {"sent", "acked", "row"}
        /\ job["main"].ord # NoOrder =>
              job["main"].ord \in AllOrders /\ broker[job["main"].ord].by = r
    BY <2>m DEF SentOnce, Progress, Of
  <2>u. r \in Runs => (run[r].status = "WAITING" => \A o \in AllOrders : broker[o].by # r)
    BY DEF SentOnce, Unsent, Of
  <2>p. job["main"].ord # NoOrder => broker'[job["main"].ord].by = broker[job["main"].ord].by
    <3>1. job["main"].ord # NoOrder => job["main"].ord \in Orders
      BY <2>m, <2>0 DEF Dates, OwnRows
    <3>2. job["main"].ord # NoOrder => job["main"].ord \in AllOrders /\ Placed(job["main"].ord)
      BY <2>m, <2>0 DEF TypeInv, JobsOK, Placed
    <3> QED BY <3>2, PlacedStays
  <2>a. JobMoves("main")
    BY <2>m DEF Steps, JobsGo
  <2>1. CASE job'["main"] = job["main"]
    <3>0. r \in Runs /\ job["main"] # NoJob
      BY <1>2, <2>1, <2>m DEF TypeInv, JobsOK
    <3>1. Stays(r) \/ IsUnconfirmed(r) \/ IsFilled(r)
      BY <2>1, <3>0, JobsRun
    <3>2. \A o \in AllOrders : broker'[o].by = r => broker[o].by = r
      BY <2>1, <3>0, NoNewOrder
    <3>3. job["main"].at \in Submitting \ {"gate"} => \A o \in Orders : row'[o].left = 0
      <4>1. CASE job["main"].at # "row"
        BY <2>0, <4>1, NoNewRow
      <4>2. CASE job["main"].at = "row"
        <5>1. \A t \in Scanners : job'[t] = NoJob => job[t] = NoJob
          BY <2>1, <3>0 DEF Alone
        <5>2. ASSUME NEW o \in Orders PROVE row'[o].left = 0
          <6>1. RowGoes(o) /\ row[o].left = 0
            BY <2>0, <4>2 DEF Steps, RowsGo, Submitting, AllOrders
          <6>2. ASSUME NEW t \in Scanners, job[t].at = "row", job'[t] = NoJob
                PROVE  FALSE
            BY <5>1, <6>2, Working
          <6> QED BY <6>1, <6>2 DEF RowGoes
        <5> QED BY <5>2
      <4> QED BY <4>1, <4>2
    <3>4. IsFilled(r) => ~(\A o \in AllOrders : broker[o].by # r)
                         /\ ~(\A o \in Orders : row[o].left = 0)
      BY DEF IsFilled, AllOrders
    <3>5. job["main"].at = "gate" => run'[r].status = "WAITING"
      BY <2>0, <2>u, <3>0, <3>1, <3>4 DEF Stays, IsUnconfirmed, Becomes, Pending
    <3>6. job["main"].at \in {"precheck", "place", "sent"} => run'[r].status = "HIT"
      BY <2>0, <3>1, <3>4 DEF Stays, IsUnconfirmed, Becomes, Pending, Submitting
    <3>7. job["main"].at \in {"acked", "row", "refresh", "act"} => run'[r].status \in Recorded
      BY <2>0, <3>1 DEF Stays, IsUnconfirmed, IsFilled, Becomes, Recorded
    <3> QED BY <2>m, <2>0, <2>p, <2>1, <3>2, <3>3, <3>5, <3>6, <3>7
  <2>2. CASE Begins("main")
    <3> PICK q \in Runs : q = job'["main"].run
      BY <2>2 DEF Begins
    <3>1. /\ job'["main"].ord = NoOrder
          /\ \/ job'["main"].at = "gate" /\ run'[q].status = "WAITING"
             \/ job'["main"].at = "refresh" /\ run'[q].status \in Recorded
      BY <2>2 DEF Begins, Recorded
    <3> QED BY <2>m, <3>1 DEF Submitting
  <2>3. CASE Advances("main")
    <3>0. r \in Runs /\ job'["main"].run = r /\ UNCHANGED row
      BY <2>3, <2>m, Working DEF Advances, TypeInv, JobsOK
    <3>1. CASE job["main"].at = "gate"
      <4>1. job'["main"].at = "precheck" /\ job'["main"].ord = NoOrder /\ GateOpen(r)
            /\ run'[r].status = "HIT" /\ UNCHANGED broker
        BY <2>0, <2>3, <3>1 DEF Advances, Takes, Looks, SameHands
      <4> QED BY <2>m, <2>0, <2>u, <3>0, <3>1, <4>1 DEF GateOpen, AllOrders
    <3>2. CASE job["main"].at = "precheck"
      <4>1. job'["main"].at = "place" /\ job'["main"].ord = NoOrder /\ UNCHANGED <<run, broker>>
        BY <2>0, <2>3, <3>2 DEF Advances, Takes, Looks, SameHands
      <4> QED BY <2>m, <2>0, <3>0, <3>2, <4>1 DEF Submitting
    <3>3. CASE Takes("main")
      <4>1. /\ job["main"].at = "place" /\ job'["main"].at = "sent" /\ UNCHANGED run
            /\ job'["main"].ord \in Orders /\ BrokerTakes(job'["main"].ord, r, "open")
        BY <3>3 DEF Takes
      <4>2. job'["main"].ord \in AllOrders /\ job'["main"].ord # NoOrder
        BY <4>1, NamesAssumption DEF AllOrders
      <4>3. broker'[job'["main"].ord].by = r
        BY <4>1, <4>2, TakenOrder
      <4> QED BY <2>m, <2>0, <3>0, <4>1, <4>2, <4>3 DEF Submitting
    <3>4. CASE job["main"].at = "place" /\ ~Takes("main")
      <4>1. job'["main"].at = "refresh" /\ job'["main"].ord = NoOrder
            /\ run'[r].status = "ORDER_UNKNOWN"
        BY <2>0, <2>3, <3>4 DEF Advances, Looks
      <4> QED BY <2>m, <3>0, <4>1 DEF Submitting, Recorded
    <3>5. CASE job["main"].at \in {"sent", "acked"}
      <4>1. job'["main"].at \in {"acked", "row"} /\ job'["main"].ord = job["main"].ord
            /\ run'[r].status \in Pending
        BY <2>3, <3>5 DEF Advances, Takes, Looks, SameHands, Pending
      <4> QED BY <2>m, <2>0, <2>p, <3>0, <3>5, <4>1 DEF Submitting, Recorded
    <3>6. CASE Looks("main")
      <4>1. job["main"].at = "refresh" /\ job'["main"].at = "act"
            /\ job'["main"].ord = NoOrder /\ UNCHANGED run
        BY <2>0, <3>6 DEF Looks
      <4> QED BY <2>m, <2>0, <3>0, <4>1 DEF Submitting
    <3> QED BY <2>3, <3>1, <3>2, <3>3, <3>4, <3>5, <3>6 DEF Advances, Takes
  <2> QED BY <1>2, <2>m, <2>a, <2>1, <2>2, <2>3 DEF JobMoves
<1> QED BY <1>1, <1>2

LEMMA NextSentOnce ==
  ASSUME Others = {}, TypeInv, Dates, SentOnce, [Next]_vars, Alone, Alone', kills' = 0, strays' = 0
  PROVE  SentOnce'
<1>1. TypeInv' /\ Steps /\ Dates'
  BY NextType, NextSteps, NextDates DEF Dates
<1> QED BY <1>1, OneEachStep, UnsentStep, ProgressStep DEF SentOnce

LEMMA InitSentOnce == Init => SentOnce
<1> SUFFICES ASSUME Init PROVE SentOnce
  OBVIOUS
<1>0. TypeInv /\ Dates
  BY InitType, InitDates
<1>1. OneEach
  BY DEF Init, OneEach, Placed, NewOrder, AllOrders
<1>2. Unsent
  BY <1>0, NamesAssumption DEF Init, Unsent, Of, NewRun, NewOrder
<1>3. Progress
  BY Blanks DEF Init, Progress, Submitting
<1> QED BY <1>1, <1>2, <1>3 DEF SentOnce

\* A lost order stays lost.
LEMMA LostStays ==
  ASSUME Others = {}, TypeInv, Dates, SentOnce, [Next]_vars, Alone, Alone',
         kills' = 0, strays' = 0, Lost' = {}
  PROVE  Lost = {}
<1>1. TypeInv' /\ Steps /\ Dates' /\ SentOnce'
  BY NextType, NextSteps, NextDates, NextSentOnce DEF Dates
<1> SUFFICES ASSUME NEW o \in Orders, o \in Lost
             PROVE  o \in Lost'
  BY DEF Lost
<1> DEFINE r == broker[o].by
<1>2. /\ Placed(o) /\ run[r].no = NoOrder
      /\ \A th \in Scanners : job[th].ord # o
      /\ run[r].status \in {"HIT", "EXPIRED"} \/ run[r].cause = "unsent"
  BY DEF Lost, Placed
<1>3. o \in AllOrders /\ r \in Runs /\ o # NoOrder
  BY <1>2, NamesAssumption DEF AllOrders, TypeInv, OrdersOK, Placed
<1>4. broker'[o].st # "none" /\ broker'[o].by = r
  BY <1>1, <1>2, <1>3, PlacedStays
<1>m. "main" \in Scanners
  BY ScannersAssumption
<1>5. job["main"] # NoJob /\ job["main"].run = r => job["main"].at = "idle"
  <2> SUFFICES ASSUME job["main"] # NoJob, job["main"].run = r, job["main"].at # "idle"
               PROVE  FALSE
    OBVIOUS
  <2>1. job["main"].at \in Places
    BY <1>m DEF TypeInv, TypeOK, Jobs
  <2>2. run[r].cause = "unsent" => run[r].status = "CANCELLED"
    BY <1>3 DEF SentOnce, Unsent
  <2>3. Of(r) # {}
    BY <1>3 DEF Of
  <2>4. job["main"].at \in {"sent", "gate"}
    BY <1>m, <1>2, <2>1, <2>2, <2>3 DEF SentOnce, Progress, Places, Recorded, Pending, Entered
  <2>5. job["main"].at = "sent"
    BY <1>m, <1>2, <2>2, <2>4 DEF SentOnce, Progress
  <2>6. job["main"].ord \in Of(r) /\ job["main"].ord \in Orders
    BY <1>m, <2>5 DEF SentOnce, Progress, Dates, OwnRows
  <2>7. broker[job["main"].ord].by = r /\ Placed(job["main"].ord)
    BY <1>m, <2>5, <2>6 DEF Of, TypeInv, JobsOK, Placed
  <2>8. job["main"].ord = o
    BY <1>2, <2>6, <2>7 DEF SentOnce, OneEach
  <2> QED BY <1>m, <1>2, <2>8
<1>6. \/ Stays(r) \/ IsUnsent(r) \/ IsExpired(r)
  <2>1. \/ Stays(r)
        \/ Registers(r) \/ IsUnsent(r) \/ IsUnconfirmed(r) \/ IsFilled(r)
        \/ IsSynced(r) \/ IsExpired(r) \/ IsRecovered(r)
        \/ /\ job["main"] # NoJob /\ job["main"].run = r
           /\ Submits("main") \/ Reconciles("main")
    BY <1>1, <1>3, RunAlone
  <2>2. \/ ~Submits("main") /\ ~Reconciles("main")
        \/ ~(job["main"] # NoJob /\ job["main"].run = r)
    BY <1>5 DEF Submits, Reconciles
  <2>3. run[r].cause = "unsent" => run[r].status = "CANCELLED"
    BY <1>3 DEF SentOnce, Unsent
  <2>4. ~IsFilled(r)
    BY <1>2, <1>3 DEF SentOnce, Unsent, IsFilled
  <2>5. ~(Registers(r) \/ IsUnconfirmed(r) \/ IsSynced(r) \/ IsRecovered(r))
    BY <1>2, <2>3 DEF Registers, IsUnconfirmed, IsSynced, IsRecovered, Becomes, Pending
  <2> QED BY <2>1, <2>2, <2>4, <2>5
<1>7. run'[r].no = NoOrder /\ (run'[r].status \in {"HIT", "EXPIRED"} \/ run'[r].cause = "unsent")
  BY <1>2, <1>6 DEF Stays, IsUnsent, IsExpired, IsCancelled, Becomes, Keeps
<1>8. ASSUME NEW th \in Scanners, job'[th].ord = o
      PROVE  FALSE
  <2>1. JobMoves(th)
    BY <1>1 DEF Steps, JobsGo
  <2>2. Advances(th)
    BY <1>2, <1>3, <1>8, <2>1, Blanks DEF JobMoves, Begins
  <2>3. BrokerTakes(o, job[th].run, "open")
    BY <1>2, <1>8, <2>2 DEF Advances, Takes, Looks, SameHands
  <2> QED BY <1>2, <2>3 DEF BrokerTakes, Request, Placed
<1> QED BY <1>4, <1>7, <1>8 DEF Lost

-----------------------------------------------------------------------------
(* Cancels, and what snapshots show *)

\* An order that may fill or has filled,
Counts(o) == Live(o) \/ broker[o].filled > 0
\* and a run whose orders are all known to the broker.
Sent(r) == /\ \E o \in AllOrders : broker[o].by = r
           /\ \A o \in AllOrders : broker[o].by = r => broker[o].st # "transit"
Dead(r) == /\ \E o \in AllOrders : broker[o].by = r
           /\ \A o \in AllOrders : broker[o].by = r => Quiet(o)

\* What a job has seen is its run's,
ViewOwn == \A th \in Scanners : \A p \in Seen(th) : broker[p].by = job[th].run

\* pending runs, and those whose cancellation is awaited, have an order that the broker knows;
PendingSent ==
    /\ \A r \in Runs : run[r].status \in Pending => Sent(r)
    /\ \A th \in Scanners :
          (job[th].what \in Cancelling \/ job[th].at \in {"sent", "acked", "row"}) => Sent(job[th].run)

\* a snapshot shows it, or it is dead; and a cancelled run's is.
CancelsSeen ==
    /\ \A th \in Scanners :
          job[th].what \in Cancelling /\ job[th].view.ok =>
             \A o \in AllOrders : broker[o].by = job[th].run => o \in Seen(th) \/ Quiet(o)
    /\ \A r \in Runs : run[r].cause \in Cancelling => Dead(r)

CancelsSafe == PendingSent /\ CancelsSeen

LEMMA SeenPlaced ==
  ASSUME Dates
  PROVE  \A th \in Scanners : \A p \in Seen(th) : broker[p].st # "none" /\ broker[p].st # "transit"
<1>1. JobsDated
  BY DEF Dates
<1> SUFFICES ASSUME NEW th \in Scanners, NEW p \in Seen(th)
             PROVE  broker[p].st # "none" /\ broker[p].st # "transit"
  OBVIOUS
<1> QED BY <1>1 DEF JobsDated, Placed

LEMMA SentAlready ==
  ASSUME Others = {}, TypeInv, TypeInv', Dates, Dates', Steps, OneEach',
         NEW r \in Runs, NEW o \in AllOrders, broker[o].by = r
  PROVE  /\ broker'[o].by = r
         /\ \A p \in AllOrders : broker'[p].by = r => broker[p].by = r
<1>1. o \in Orders /\ broker'[o].by = r /\ broker'[o].st # "none"
  BY OfPlaced, PlacedStays
<1>2. ASSUME NEW p \in AllOrders, broker'[p].by = r, broker[p].by # r
      PROVE  FALSE
  <2>1. p \in Orders /\ OrderIsTaken(p)
    BY <1>2, NewOfRun
  <2>2. broker'[p].st # "none"
    BY <2>1 DEF OrderIsTaken
  <2>3. o = p
    BY <1>1, <1>2, <2>1, <2>2 DEF OneEach, Placed
  <2> QED BY <1>2, <2>3
<1> QED BY <1>1, <1>2

LEMMA SentStays ==
  ASSUME Others = {}, TypeInv, TypeInv', Dates, Dates', Steps, OneEach', NEW r \in Runs, Sent(r)
  PROVE  Sent(r)'
<1>1. PICK o \in AllOrders : broker[o].by = r
  BY DEF Sent
<1>2. broker'[o].by = r /\ \A p \in AllOrders : broker'[p].by = r => broker[p].by = r
  BY <1>1, SentAlready
<1>3. ASSUME NEW p \in AllOrders, broker'[p].by = r
      PROVE  broker'[p].st # "transit"
  <2>1. broker[p].by = r /\ broker[p].st # "transit"
    BY <1>2, <1>3 DEF Sent
  <2> QED BY <2>1, OfPlaced, PlacedStays
<1> QED BY <1>2, <1>3 DEF Sent

LEMMA QuietStays ==
  ASSUME Steps, NEW o \in AllOrders, Quiet(o)
  PROVE  broker'[o] = broker[o]
BY DEF Steps, OrdersGo, OrderStays, OrderGoesOn, OrderIsTaken, Quiet, Live

LEMMA DeadStays ==
  ASSUME Others = {}, TypeInv, TypeInv', Dates, Dates', Steps, OneEach', NEW r \in Runs, Dead(r)
  PROVE  Dead(r)'
<1>1. PICK o \in AllOrders : broker[o].by = r
  BY DEF Dead
<1>2. broker'[o].by = r /\ \A p \in AllOrders : broker'[p].by = r => broker[p].by = r
  BY <1>1, SentAlready
<1>3. ASSUME NEW p \in AllOrders, broker'[p].by = r
      PROVE  broker'[p].st = "done" /\ broker'[p].filled = 0
  <2>1. Quiet(p)
    BY <1>2, <1>3 DEF Dead
  <2> QED BY <2>1, QuietStays DEF Quiet
<1> QED BY <1>2, <1>3 DEF Dead, Quiet

LEMMA PendingSentStep ==
  ASSUME Others = {}, TypeInv, TypeInv', Dates, Dates', Steps, OneEach, OneEach', ViewOwn,
         CancelsSafe
  PROVE  PendingSent'
<1>1. ASSUME NEW r \in Runs, run'[r].status \in Pending
      PROVE  Sent(r)'
  <2>1. RunGoes(r)
    BY DEF Steps, RunsGo
  <2>2. Stays(r) \/ ByJob(r)
    BY <1>1, <2>1 DEF RunGoes, Registers, IsUnsent, IsKilled, IsUnconfirmed, IsFilled, IsSynced,
       IsExpired, IsRecovered, IsCancelled, Becomes, Pending, Entered
  <2>3. CASE Stays(r)
    BY <1>1, <2>3, SentStays DEF Stays, CancelsSafe, PendingSent
  <2>4. CASE ByJob(r)
    <3>1. PICK th \in Scanners : /\ job[th] # NoJob /\ job[th].run = r
                                 /\ Submits(th) \/ Reconciles(th)
      BY <2>4 DEF ByJob
    <3>2. CASE Submits(th)
      <4>1. job[th].at \in {"sent", "acked"}
        BY <1>1, <3>1, <3>2 DEF Submits, IsCancelled, Pending
      <4>2. Sent(r)
        BY <3>1, <4>1 DEF CancelsSafe, PendingSent
      <4> QED BY <4>2, SentStays
    <3>3. CASE Reconciles(th)
      <4>1. PICK p \in job[th].view.open : TRUE
        BY <1>1, <3>1, <3>3 DEF Reconciles, IsCancelled, Pending, Entered
      <4>2. p \in Seen(th) /\ p \in AllOrders
        BY <4>1 DEF Seen, TypeInv, TypeOK, Jobs, Views
      <4>3. broker[p].by = r /\ Placed(p) /\ broker[p].st # "transit"
        <5>1. broker[p].by = job[th].run
          BY <3>1, <4>2 DEF ViewOwn
        <5>2. Placed(p) /\ broker[p].st # "transit"
          BY <3>1, <4>2, SeenPlaced DEF Placed
        <5> QED BY <3>1, <5>1, <5>2
      <4>4. ASSUME NEW q \in AllOrders, broker[q].by = r
            PROVE  q = p
        BY <4>2, <4>3, <4>4, OfPlaced DEF OneEach
      <4>5. Sent(r)
        BY <4>2, <4>3, <4>4 DEF Sent
      <4> QED BY <4>5, SentStays
    <3> QED BY <3>1, <3>2, <3>3
  <2> QED BY <2>2, <2>3, <2>4
<1>2. ASSUME NEW th \in Scanners,
             job'[th].what \in Cancelling \/ job'[th].at \in {"sent", "acked", "row"}
      PROVE  \E r \in Runs : r = job'[th].run /\ Sent(r)'
  <2>1. JobMoves(th)
    BY DEF Steps, JobsGo
  <2>2. job'[th] # NoJob
    BY <1>2, Blanks DEF Cancelling
  <2>3. ASSUME job'[th].run = job[th].run,
               job[th].what \in Cancelling \/ job[th].at \in {"sent", "acked", "row"}
        PROVE  \E r \in Runs : r = job'[th].run /\ Sent(r)'
    <3>1. job[th].run \in Runs
      BY <2>3 DEF Dates, JobsDated, Submitting, TypeInv, JobsOK
    <3>2. Sent(job[th].run)
      BY <2>3 DEF CancelsSafe, PendingSent
    <3> DEFINE r == job[th].run
    <3>3. PICK q \in Runs : q = r
      BY <3>1
    <3>4. Sent(q)
      BY <3>2, <3>3 DEF Sent
    <3>5. Sent(q)'
      BY <3>4, SentStays
    <3> QED BY <2>3, <3>3, <3>5
  <2>4. CASE job'[th] = job[th]
    BY <1>2, <2>3, <2>4
  <2>5. CASE Begins(th)
    <3> PICK r \in Runs : r = job'[th].run
      BY <2>5 DEF Begins
    <3>1. run[r].status \in Pending
      BY <1>2, <2>5 DEF Begins, Cancelling
    <3>2. Sent(r)'
      BY <3>1, SentStays DEF CancelsSafe, PendingSent
    <3> QED BY <3>2
  <2>6. CASE Advances(th) /\ ~Takes(th)
    <3>1. job'[th].run = job[th].run
      BY <2>6 DEF Advances
    <3>2. job[th].what \in Cancelling \/ job[th].at \in {"sent", "acked", "row"}
      BY <1>2, <2>6 DEF Advances, Looks, SameHands, Cancelling
    <3> QED BY <2>3, <3>1, <3>2
  <2>7. CASE Advances(th) /\ Takes(th)
    <3> DEFINE o == job'[th].ord
    <3>0. job[th].run \in Runs /\ job'[th].run = job[th].run
      BY <2>7, Working DEF Advances, TypeInv, JobsOK
    <3>1. PICK r \in Runs : r = job[th].run
      BY <3>0
    <3>2. PICK u \in Orders : u = job'[th].ord /\ BrokerTakes(u, r, "open")
      BY <2>7, <3>1 DEF Takes
    <3>3. u \in AllOrders
      BY DEF AllOrders
    <3>4. broker'[u].by = r /\ broker'[u].st = "open"
      BY <3>2, <3>3, TakenOrder
    <3>5. ASSUME NEW p \in AllOrders, broker'[p].by = r
          PROVE  p = u
      <4>1. p \in Orders /\ broker'[p].st # "none"
        BY <3>5, NamesAssumption DEF AllOrders, Dates, OrdersDated, Placed
      <4> QED BY <3>4, <3>5, <4>1 DEF OneEach, Placed
    <3>6. Sent(r)'
      BY <3>3, <3>4, <3>5 DEF Sent
    <3> QED BY <3>0, <3>1, <3>6
  <2> QED BY <2>1, <2>2, <2>4, <2>5, <2>6, <2>7 DEF JobMoves
<1>3. ASSUME NEW th \in Scanners,
             job'[th].what \in Cancelling \/ job'[th].at \in {"sent", "acked", "row"}
      PROVE  Sent(job[th].run)'
  BY <1>2, <1>3 DEF Sent
<1> QED BY <1>1, <1>3 DEF PendingSent

LEMMA CancelsSeenStep ==
  ASSUME Others = {}, TypeInv, TypeInv', Dates, Dates', Steps, OneEach, OneEach', ViewOwn,
         CancelsSafe
  PROVE  CancelsSeen'
<1>1. ASSUME NEW th \in Scanners, job'[th].what \in Cancelling, job'[th].view.ok,
             NEW o \in AllOrders, broker'[o].by = job'[th].run
      PROVE  o \in Seen(th)' \/ Quiet(o)'
  <2>1. JobMoves(th)
    BY DEF Steps, JobsGo
  <2>2. job'[th] # NoJob /\ ~Begins(th)
    BY <1>1, Blanks DEF Cancelling, Begins
  <2>3. ASSUME job'[th].run = job[th].run, job'[th].what = job[th].what
        PROVE  broker[o].by = job[th].run /\ job[th].run \in Runs /\ Sent(job[th].run)
    <3>0. job[th] # NoJob
      BY <1>1, <2>3 DEF Dates, JobsDated
    <3>1. job[th].run \in Runs
      BY <3>0 DEF TypeInv, JobsOK
    <3>2. Sent(job[th].run)
      BY <1>1, <2>3 DEF CancelsSafe, PendingSent
    <3>3. PICK u \in AllOrders : broker[u].by = job[th].run
      BY <3>2 DEF Sent
    <3> QED BY <1>1, <2>3, <3>1, <3>2, <3>3, SentAlready
  <2>4. ASSUME job'[th].run = job[th].run, job'[th].what = job[th].what,
               job'[th].view = job[th].view
        PROVE  o \in Seen(th)' \/ Quiet(o)'
    <3>1. o \in Seen(th) \/ Quiet(o)
      BY <1>1, <2>3, <2>4 DEF CancelsSafe, CancelsSeen
    <3>2. Seen(th)' = Seen(th)
      BY <2>4 DEF Seen, Filled
    <3>3. Quiet(o) => broker'[o].st = "done" /\ broker'[o].filled = 0
      BY QuietStays DEF Quiet
    <3> QED BY <3>1, <3>2, <3>3 DEF Quiet
  <2>5. CASE Looks(th)
    <3>0. job'[th].run = job[th].run /\ job'[th].what = job[th].what /\ UNCHANGED <<run, broker>>
      BY <2>1, <2>2, <2>5, Blanks DEF JobMoves, Advances, Looks
    <3>1. CASE job'[th].view = job[th].view
      BY <2>4, <3>0, <3>1
    <3>2. CASE /\ job'[th].view.open = {p \in AllOrders : broker[p].st = "open"}
               /\ job'[th].view.fills =
                     [p \in AllOrders |-> IF broker[p].day = day THEN broker[p].filled ELSE 0]
      <4>1. broker[o].by = job[th].run /\ job[th].run \in Runs /\ Sent(job[th].run)
        BY <2>3, <3>0
      <4>2. broker[o].st \in {"open", "done"} /\ o \in Orders /\ Placed(o)
        <5>1. o \in Orders /\ Placed(o)
          BY <4>1, OfPlaced
        <5>2. broker[o].st # "transit"
          BY <4>1 DEF Sent
        <5> QED BY <5>1, <5>2 DEF TypeInv, TypeOK, BrokerOrders, Placed
      <4>3. broker[o].day = day
        <5>1. broker[o].day = run[job[th].run].day
          BY <4>1, <4>2 DEF Dates, OrdersDated
        <5>2. phase = "open" /\ job[th] # NoJob
          BY <1>1, <3>0 DEF Dates, JobsDated
        <5>3. Today(job[th].run)
          BY <5>2 DEF Dates, JobsDated
        <5> QED BY <5>1, <5>3 DEF Today
      <4>4. CASE broker[o].st = "open"
        <5>1. o \in job'[th].view.open
          BY <3>2, <4>4
        <5> QED BY <5>1 DEF Seen
      <4>5. CASE broker[o].st = "done"
        <5>1. job'[th].view.fills[o] = broker[o].filled
          BY <3>2, <4>3
        <5>2. broker[o].filled \in Nat
          BY SizesAssumption DEF TypeInv, TypeOK, BrokerOrders
        <5>3. broker[o].filled > 0 => o \in Seen(th)'
          BY <5>1 DEF Seen, Filled
        <5> QED BY <3>0, <4>5, <5>2, <5>3 DEF Quiet
      <4> QED BY <4>2, <4>4, <4>5
    <3> QED BY <2>5, <3>1, <3>2 DEF Looks
  <2>6. CASE Advances(th) /\ ~Looks(th)
    <3>1. job[th].at # "act" /\ job'[th].view = job[th].view
      BY <2>6 DEF Advances, Takes, SameHands
    <3>2. ~job'[th].view.ok
      BY <3>1, Blanks DEF Dates, JobsDated
    <3> QED BY <1>1, <3>2
  <2> QED BY <2>1, <2>2, <2>4, <2>5, <2>6 DEF JobMoves
<1>2. ASSUME NEW r \in Runs, run'[r].cause \in Cancelling
      PROVE  Dead(r)'
  <2>1. RunGoes(r)
    BY DEF Steps, RunsGo
  <2>2. CASE run'[r].cause = run[r].cause
    BY <1>2, <2>2, DeadStays DEF CancelsSafe, CancelsSeen
  <2>3. CASE ByJob(r)
    <3>1. PICK th \in Scanners : /\ job[th] # NoJob /\ job[th].run = r
                                 /\ Submits(th) \/ Reconciles(th)
      BY <2>3 DEF ByJob
    <3>2. CASE Submits(th)
      BY <1>2, <2>2, <3>1, <3>2 DEF Submits, IsCancelled, Keeps, Cancelling
    <3>3. CASE Reconciles(th)
      <4>1. CASE /\ job[th].what \in Cancelling /\ job[th].view.ok
                 /\ job[th].view.open = {} /\ Filled(job[th].view) = {}
        <5>1. Sent(r) /\ \A o \in AllOrders : broker[o].by = r => Quiet(o)
          BY <3>1, <4>1 DEF CancelsSafe, PendingSent, CancelsSeen, Seen
        <5>2. Dead(r)
          BY <5>1 DEF Dead, Sent
        <5> QED BY <5>2, DeadStays
      <4> QED BY <1>2, <2>2, <3>1, <3>3, <4>1 DEF Reconciles, IsCancelled, Cancelling
    <3> QED BY <3>1, <3>2, <3>3
  <2> QED BY <1>2, <2>1, <2>2, <2>3 DEF RunGoes, Stays, Registers, IsUnsent, IsKilled,
     IsUnconfirmed,
        IsFilled, IsSynced, IsExpired, IsRecovered, IsCancelled, Becomes, Keeps, Cancelling
<1> QED BY <1>1, <1>2 DEF CancelsSeen

-----------------------------------------------------------------------------
(* Shares and their runs *)

\* An order that counts is of an active run,
Kept == \A o \in Orders : Counts(o) => run[broker[o].by].status \in Active
\* a session has one such run,
Single == \A r, q \in Runs :
             run[r].status \in Active /\ run[q].status \in Active /\ run[r].day = run[q].day => r = q
\* a pending row is the day's one order that counts,
RowLatest == \A o \in Orders : row[o].left > 0 =>
                /\ broker[o].day = day /\ phase \in {"open", "closing"}
                /\ \A p \in Orders \ {o} : Placed(p) /\ broker[p].day = day => Quiet(p)
\* an owner of a position has bought, or a fill of another day is taken for its own,
PosOwn == \A r \in Runs : r \in pos =>
             \/ \E o \in AllOrders : broker[o].by = r /\ broker[o].filled > 0
             \/ \E p \in Orders : broker[p].filled > 0 /\ broker[p].day # run[r].day
\* and at the opening the balance shows the fills of a run of the day before.
OldFills == \A th \in Scanners :
               job[th].at = "act" /\ phase = "opening" /\ job[th].view.ok /\ ~ (job[th].view.held > 0) =>
                  \A o \in AllOrders : broker[o].by = job[th].run => broker[o].filled = 0

OwnShares == Kept /\ Single /\ RowLatest /\ PosOwn /\ ViewOwn /\ OldFills

LEMMA Counting ==
  ASSUME TypeInv, Dates, NEW o \in Orders, Counts(o)
  PROVE  /\ o \in AllOrders /\ Placed(o) /\ broker[o].by \in Runs /\ Registered(broker[o].by)
         /\ broker[o].day = run[broker[o].by].day
<1>1. o \in AllOrders
  BY DEF AllOrders
<1>2. broker[o].filled > 0 => broker[o].filled # 0
  BY <1>1, SizesAssumption DEF TypeInv, TypeOK, BrokerOrders
<1>3. Placed(o)
  BY <1>1, <1>2 DEF Counts, Live, Placed, TypeInv, OrdersOK
<1> QED BY <1>1, <1>3 DEF TypeInv, OrdersOK, Placed, Dates, OrdersDated

\* The run of an order that counts stays active.
LEMMA KeptRun ==
  ASSUME Others = {}, TypeInv, TypeInv', Dates, Dates', SentOnce, OwnShares, CancelsSafe, Steps,
         Alone, kills' = 0, Lost' = {},
         NEW o \in Orders, Counts(o)
  PROVE  run'[broker[o].by].status \in Active
<1> DEFINE r == broker[o].by
<1>m. "main" \in Scanners
  BY ScannersAssumption
<1>1. o \in AllOrders /\ Placed(o) /\ r \in Runs /\ Of(r) # {} /\ o \in Of(r)
  BY Counting DEF Of
<1>2. run[r].status \in Active /\ run[r].status # "WAITING"
  BY <1>1 DEF OwnShares, Kept, SentOnce, Unsent
<1>3. \/ Stays(r)
      \/ Registers(r) \/ IsUnsent(r) \/ IsUnconfirmed(r) \/ IsFilled(r)
      \/ IsSynced(r) \/ IsExpired(r) \/ IsRecovered(r)
      \/ /\ job["main"] # NoJob /\ job["main"].run = r
         /\ Submits("main") \/ Reconciles("main")
  BY <1>1, RunAlone
<1>4. CASE Stays(r) \/ IsUnconfirmed(r) \/ IsFilled(r) \/ IsSynced(r) \/ IsRecovered(r)
  BY <1>2, <1>4 DEF Stays, IsUnconfirmed, IsFilled, IsSynced, IsRecovered, Becomes, Active, Entered
<1>5. CASE Registers(r)
  BY <1>2, <1>5 DEF Registers, Active, Pending, Entered
<1>6. CASE IsUnsent(r) \/ IsExpired(r)
  <2>1. run[r].status = "HIT" /\ MainIdle /\ UNCHANGED <<broker, job>>
    BY <1>2, <1>6 DEF IsUnsent, IsExpired, IsCancelled, Becomes
  <2>2. run'[r].no = NoOrder /\ (run'[r].status = "EXPIRED" \/ run'[r].cause = "unsent")
    <3>1. run[r].no = NoOrder
      BY <1>1, <2>1 DEF SentOnce, Unsent
    <3> QED BY <1>6, <3>1 DEF IsUnsent, IsExpired, IsCancelled, Becomes, Keeps
  <2>3. \A th \in Scanners : job'[th].ord # o
    <3>1. \A th \in Scanners : job[th] = NoJob
      BY <2>1 DEF Alone, MainIdle
    <3> QED BY <2>1, <3>1, Blanks, NamesAssumption
  <2>4. o \in Lost'
    BY <1>1, <2>1, <2>2, <2>3 DEF Lost, Placed
  <2> QED BY <2>4
<1>7. CASE job["main"] # NoJob /\ job["main"].run = r /\ Submits("main")
  <2>1. job["main"].at \notin {"gate", "precheck", "place"}
    BY <1>m, <1>1, <1>2, <1>7 DEF SentOnce, Progress
  <2> QED BY <1>7, <2>1 DEF Submits, Active, Pending
<1>8. CASE job["main"] # NoJob /\ job["main"].run = r /\ Reconciles("main")
  <2> DEFINE v == job["main"].view
  <2>1. ~(job["main"].what \in Cancelling /\ v.ok /\ v.open = {} /\ Filled(v) = {})
    <3>1. ~Quiet(o)
      BY DEF Counts, Live, Quiet, TypeInv, TypeOK, BrokerOrders
    <3> QED BY <1>m, <1>1, <1>8, <3>1 DEF CancelsSafe, CancelsSeen, Seen
  <2>2. ~(phase = "opening" /\ v.ok /\ ~ (v.held > 0))
    <3>1. Live(o) => phase = "open"
      BY DEF Dates, OrdersDated
    <3>2. job["main"].at = "act"
      BY <1>8 DEF Reconciles
    <3> QED BY <1>m, <1>1, <1>8, <3>1, <3>2 DEF OwnShares, OldFills, Counts
  <2> QED BY <1>8, <2>1, <2>2 DEF Reconciles, Active, Pending, Entered
<1> QED BY <1>3, <1>4, <1>5, <1>6, <1>7, <1>8

LEMMA KeptStep ==
  ASSUME Others = {}, TypeInv, TypeInv', Dates, Dates', SentOnce, OwnShares, CancelsSafe, Steps,
         Alone, kills' = 0, Lost' = {}
  PROVE  Kept'
<1> SUFFICES ASSUME NEW o \in Orders, Counts(o)'
             PROVE  run'[broker'[o].by].status \in Active
  BY DEF Kept
<1>0. o \in AllOrders
  BY DEF AllOrders
<1>1. CASE OrderStays(o)
  <2>1. Counts(o)
    BY <1>1 DEF Counts, Live, OrderStays
  <2> QED BY <1>1, <2>1, KeptRun DEF OrderStays
<1>2. CASE OrderGoesOn(o)
  <2>1. Counts(o)
    BY <1>2 DEF Counts, OrderGoesOn
  <2> QED BY <1>2, <2>1, KeptRun DEF OrderGoesOn
<1>3. CASE OrderIsTaken(o)
  <2>1. PICK th \in Scanners :
            /\ job[th].at = "place" /\ broker'[o].by = job[th].run
            /\ \/ UNCHANGED run
               \/ run'[job[th].run].status = "ORDER_UNKNOWN"
    BY <1>3, TakenOf
  <2>2. run[job[th].run].status = "HIT"
    BY <2>1 DEF SentOnce, Progress
  <2> QED BY <2>1, <2>2 DEF Active
<1> QED BY <1>0, <1>1, <1>2, <1>3 DEF Steps, OrdersGo

\* A run is active because it was, or because it is registered.
LEMMA ActiveBefore ==
  ASSUME Others = {}, TypeInv, Dates, SentOnce, OwnShares, Steps, Alone, kills' = 0,
         NEW r \in Runs, run'[r].status \in Active
  PROVE  run[r].status \in Active \/ Registers(r)
<1>m. "main" \in Scanners
  BY ScannersAssumption
<1>1. \/ Stays(r)
      \/ Registers(r) \/ IsUnsent(r) \/ IsUnconfirmed(r) \/ IsFilled(r)
      \/ IsSynced(r) \/ IsExpired(r) \/ IsRecovered(r)
      \/ /\ job["main"] # NoJob /\ job["main"].run = r
         /\ Submits("main") \/ Reconciles("main")
  BY RunAlone
<1>2. CASE Stays(r) \/ IsUnsent(r) \/ IsUnconfirmed(r) \/ IsSynced(r) \/ IsExpired(r) \/ IsRecovered(r)
  BY <1>2 DEF Stays, IsUnsent, IsUnconfirmed, IsSynced, IsExpired, IsRecovered, IsCancelled,
     Becomes,
     Active, Entered
<1>3. CASE IsFilled(r)
  <2>1. PICK o \in Orders : broker[o].by = r /\ broker[o].filled > 0
    BY <1>3 DEF IsFilled
  <2> QED BY <2>1 DEF OwnShares, Kept, Counts
<1>4. CASE job["main"] # NoJob /\ job["main"].run = r /\ (Submits("main") \/ Reconciles("main"))
  <2>1. job["main"].at \in {"gate", "precheck", "place", "sent", "acked", "act"}
    BY <1>4 DEF Submits, Reconciles
  <2>2. run[r].status \in {"WAITING", "HIT"} \cup Recorded
    BY <1>m, <1>4, <2>1 DEF SentOnce, Progress
  <2> QED BY <2>2 DEF Recorded, Active
<1> QED BY <1>1, <1>2, <1>3, <1>4

LEMMA SingleStep ==
  ASSUME Others = {}, TypeInv, Dates, SentOnce, OwnShares, Steps, Alone, kills' = 0
  PROVE  Single'
<1> SUFFICES ASSUME NEW r \in Runs, NEW q \in Runs, run'[r].status \in Active,
                    run'[q].status \in Active, run'[r].day = run'[q].day
             PROVE  r = q
  BY DEF Single
<1>1. \A u \in Runs : run[u].status \in Active => run'[u].day = run[u].day
  BY RegisteredStays DEF Registered, Active, Pending, Entered
<1>2. CASE run[r].status \in Active /\ run[q].status \in Active
  BY <1>1, <1>2 DEF OwnShares, Single
<1>3. ASSUME NEW u \in Runs, NEW w \in Runs, u # w, Registers(u),
             run'[w].status \in Active, run'[u].day = run'[w].day
      PROVE  FALSE
  BY <1>3 DEF Registers, ActiveRuns, Today
<1> QED BY <1>2, <1>3, ActiveBefore

LEMMA RowLatestStep ==
  ASSUME Others = {}, TypeInv, TypeInv', Dates, Dates', SentOnce, OwnShares, Steps, Alone
  PROVE  RowLatest'
<1> SUFFICES ASSUME NEW o \in Orders, row'[o].left > 0
             PROVE  /\ broker'[o].day = day' /\ phase' \in {"open", "closing"}
                    /\ \A p \in Orders \ {o} : Placed(p)' /\ broker'[p].day = day' => Quiet(p)'
  BY DEF RowLatest
<1>0. o \in AllOrders /\ RowGoes(o)
  BY DEF Steps, RowsGo, AllOrders
<1>1. CASE row[o].left > 0
  <2>1. /\ broker[o].day = day /\ phase \in {"open", "closing"} /\ Placed(o)
        /\ \A p \in Orders \ {o} : Placed(p) /\ broker[p].day = day => Quiet(p)
    BY <1>0, <1>1 DEF OwnShares, RowLatest, TypeInv, OrdersOK, Placed
  <2>2. UNCHANGED day /\ phase' \in {"open", "closing"}
    <3>1. phase' # "closed" \/ UNCHANGED phase
      BY DEF Steps, SessionTurns
    <3> QED BY <2>1, <3>1 DEF Steps, SessionTurns
  <2>3. broker'[o].day = broker[o].day
    BY <1>0, <2>1, PlacedStays
  <2>4. ASSUME NEW p \in Orders \ {o}, Placed(p)', broker'[p].day = day'
        PROVE  Quiet(p)'
    <3>0. p \in AllOrders
      BY DEF AllOrders
    <3>1. ~OrderIsTaken(p)
      <4>1. SUFFICES ASSUME OrderIsTaken(p) PROVE FALSE
        OBVIOUS
      <4>2. PICK th \in Scanners : job[th].at = "place"
        BY <4>1, TakenOf
      <4>3. row[o].left = 0
        BY <4>2 DEF SentOnce, Progress, Submitting
      <4> QED BY <1>1, <4>3
    <3>2. Placed(p)
      BY <2>4, <3>0, <3>1 DEF Steps, OrdersGo, OrderStays, OrderGoesOn, Placed, Live
    <3>3. Quiet(p)
      BY <2>1, <2>2, <2>4, <3>0, <3>2, PlacedStays
    <3>4. broker'[p] = broker[p]
      BY <3>0, <3>3, QuietStays
    <3> QED BY <3>3, <3>4 DEF Quiet
  <2> QED BY <2>1, <2>2, <2>3, <2>4
<1>2. CASE ~ (row[o].left > 0)
  <2>1. row[o].left = 0
    BY <1>0, <1>2, SizesAssumption DEF TypeInv, TypeOK, Rows
  <2>2. PICK th \in Scanners : /\ job[th].at = "row" /\ job[th].ord = o
                               /\ UNCHANGED <<run, broker, phase, day>>
    BY <1>0, <1>2, <2>1 DEF RowGoes
  <2> DEFINE r == job[th].run
  <2>3. o # NoOrder
    BY NamesAssumption
  <2>4. o \in Of(r) /\ run[r].status \in Recorded
    BY <2>2, <2>3 DEF SentOnce, Progress
  <2>5. phase = "open" /\ job[th] # NoJob
    BY <2>2 DEF Dates, JobsDated, Submitting
  <2>6. r \in Runs /\ Today(r)
    BY <2>2, <2>5 DEF Dates, JobsDated, TypeInv, JobsOK
  <2>7. broker[o].by = r /\ Placed(o)
    <3>1. broker[o].by = r
      BY <2>4 DEF Of
    <3> QED BY <1>0, <2>6, <3>1, OfPlaced
  <2>8. broker[o].day = day
    BY <2>6, <2>7 DEF Dates, OrdersDated, Today
  <2>9. ASSUME NEW p \in Orders \ {o}, Placed(p), broker[p].day = day
        PROVE  Quiet(p)
    <3>1. SUFFICES ASSUME ~Quiet(p) PROVE FALSE
      OBVIOUS
    <3>2. Counts(p)
      <4>1. broker[p] \in BrokerOrders
        BY DEF TypeInv, TypeOK, AllOrders
      <4> QED BY <2>9, <3>1, <4>1, SizesAssumption DEF Quiet, Placed, Counts, Live, BrokerOrders
    <3>3. run[broker[p].by].status \in Active /\ broker[p].by \in Runs
          /\ broker[p].day = run[broker[p].by].day
      BY <3>2, Counting DEF OwnShares, Kept
    <3>4. run[r].status \in Active
      BY <2>4 DEF Recorded, Active
    <3>5. broker[p].by = r
      BY <2>6, <2>9, <3>3, <3>4 DEF OwnShares, Single, Today
    <3> QED BY <2>7, <2>9, <3>5 DEF SentOnce, OneEach
  <2> QED BY <2>2, <2>5, <2>8, <2>9 DEF Quiet, Placed
<1> QED BY <1>1, <1>2

\* The balance of a day holds what any order up to that day has bought.
LEMMA HeldBounds ==
  ASSUME TypeInv, NEW d \in Int, NEW o \in AllOrders, broker[o].day <= d
  PROVE  HeldBy(d) \in Nat /\ HeldBy(d) >= broker[o].filled
<1> DEFINE W == {p \in AllOrders : broker[p].day <= d}
           F == [p \in W |-> broker[p].filled]
           Sums(iter) == [S \in SUBSET W |->
                             IF S = {} THEN 0 ELSE broker[Pick(S)].filled + iter[S \ {Pick(S)}]]
           it == CHOOSE iter : iter = Sums(iter)
<1>1. IsFiniteSet(W)
  BY NamesAssumption, FS_Subset DEF AllOrders
<1>2. F \in [W -> Nat]
  BY SizesAssumption DEF TypeInv, TypeOK, BrokerOrders
<1>3. HeldBy(d) = it[W]
  BY DEF HeldBy, MapThenSumSet, MapThenFoldSet, Pick
<1>4. ASSUME NEW iter PROVE Sums(iter) = [S \in SUBSET W |-> Adding(iter, F, S)]
  <2>1. ASSUME NEW S \in SUBSET W, S # {} PROVE F[Pick(S)] = broker[Pick(S)].filled
    BY <2>1, PickIsIn
  <2> QED BY <2>1 DEF Adding
<1>w. o \in W /\ W \in SUBSET W
  OBVIOUS
<1>f. F[o] = broker[o].filled
  BY <1>w
<1> HIDE DEF F, W
<1>5. IsSum(it, F, W)
  <2>1. PICK jt : IsSum(jt, F, W)
    BY <1>1, SumExists
  <2>2. jt = Sums(jt)
    BY <1>4, <2>1 DEF IsSum
  <2> HIDE DEF Sums
  <2>3. it = Sums(it)
    BY <2>2
  <2> QED BY <1>4, <2>3 DEF IsSum
<1> HIDE DEF it
<1>6. it[W] \in Nat
  BY <1>1, <1>2, <1>5, <1>w, SumIsNat
<1>7. it[W] >= F[o]
  BY <1>1, <1>2, <1>5, <1>w, SumBoundsTerms
<1> QED BY <1>3, <1>6, <1>7, <1>f

LEMMA PosOwnStep ==
  ASSUME Others = {}, TypeInv, TypeInv', Dates, Dates', SentOnce, OwnShares, HasShares', Kept',
         Single', Steps
  PROVE  PosOwn'
<1> SUFFICES ASSUME NEW r \in Runs, r \in pos'
             PROVE  \/ \E o \in AllOrders : broker'[o].by = r /\ broker'[o].filled > 0
                    \/ \E p \in Orders : broker'[p].filled > 0 /\ broker'[p].day # run'[r].day
  BY DEF PosOwn
<1>1. PICK u \in AllOrders : broker'[u].filled > 0
  <2>1. Bought'
    BY DEF HasShares, Empty
  <2> QED BY <2>1 DEF Bought
<1>2. u \in Orders
  BY DEF AllOrders
<1>3. ASSUME NEW o \in AllOrders, broker[o].filled > 0
      PROVE  broker'[o].filled > 0 /\ broker'[o].by = broker[o].by /\ broker'[o].day = broker[o].day
  <2>1. o \in Orders /\ Counts(o)
    BY <1>3 DEF Counts, AllOrders
  <2>2. Placed(o)
    BY <2>1, Counting
  <2>3. broker[o].filled \in Nat /\ broker'[o].filled \in Nat
    BY SizesAssumption DEF TypeInv, TypeOK, BrokerOrders
  <2> QED BY <1>3, <2>2, <2>3, PlacedStays DEF Steps, OrdersGo, OrderStays, OrderGoesOn,
     OrderIsTaken, Placed
<1>4. CASE r \in pos
  <2>1. Registered(r)
    BY <1>4 DEF Dates, RunsDated
  <2>2. run'[r].day = run[r].day
    BY <2>1, RegisteredStays
  <2>3. \/ \E o \in AllOrders : broker[o].by = r /\ broker[o].filled > 0
        \/ \E p \in Orders : broker[p].filled > 0 /\ broker[p].day # run[r].day
    BY <1>4 DEF OwnShares, PosOwn
  <2> QED BY <1>3, <2>2, <2>3 DEF AllOrders
<1>5. CASE run'[r].status \in Active
  <2>1. CASE broker'[u].day # run'[r].day
    BY <1>1, <1>2, <2>1
  <2>2. CASE broker'[u].day = run'[r].day
    <3>1. Counts(u)'
      BY <1>1 DEF Counts
    <3>2. broker'[u].st # "none"
      BY <1>1, SizesAssumption DEF TypeInv, OrdersOK, TypeOK, BrokerOrders
    <3>3. broker'[u].by \in Runs /\ broker'[u].day = run'[broker'[u].by].day
      BY <1>2, <3>2 DEF TypeInv, OrdersOK, Dates, OrdersDated, Placed
    <3>4. run'[broker'[u].by].status \in Active
      BY <1>2, <3>1 DEF Kept
    <3>5. broker'[u].by = r
      BY <1>5, <2>2, <3>3, <3>4 DEF Single
    <3> QED BY <1>1, <3>5
  <2> QED BY <2>1, <2>2
<1>6. ASSUME NEW o \in Orders, row[o].left > 0, broker[o].by = r, UNCHANGED broker
      PROVE  \/ \E p \in AllOrders : broker'[p].by = r /\ broker'[p].filled > 0
             \/ \E p \in Orders : broker'[p].filled > 0 /\ broker'[p].day # run'[r].day
  <2>0. Placed(o) /\ o \in AllOrders
    BY <1>6 DEF TypeInv, OrdersOK, Placed, AllOrders
  <2>1. broker[o].day = day /\ broker[o].day = run[r].day /\ Registered(r)
    BY <1>6, <2>0 DEF OwnShares, RowLatest, Dates, OrdersDated
  <2>2. run'[r].day = day
    BY <2>1, RegisteredStays
  <2>3. CASE broker[u].day # day
    BY <1>1, <1>2, <1>6, <2>2, <2>3
  <2>4. CASE broker[u].day = day
    <3>1. Placed(u)
      BY <1>1, <1>2, <1>6, Counting DEF Counts
    <3>2. ~Quiet(u)
      BY <1>1, <1>6 DEF Quiet
    <3>3. u = o
      BY <1>2, <1>6, <2>4, <3>1, <3>2 DEF OwnShares, RowLatest
    <3> QED BY <1>1, <1>6, <2>0, <3>3
  <2> QED BY <2>3, <2>4
<1> QED BY <1>4, <1>5, <1>6 DEF Steps, OwnersGo

LEMMA ViewOwnStep ==
  ASSUME Others = {}, TypeInv, TypeInv', Dates, Dates', SentOnce, OwnShares, Steps
  PROVE  ViewOwn'
<1> SUFFICES ASSUME NEW th \in Scanners, NEW p \in Seen(th)'
             PROVE  broker'[p].by = job'[th].run
  BY DEF ViewOwn
<1>0. JobMoves(th)
  BY DEF Steps, JobsGo
<1>1. job'[th] # NoJob /\ ~Begins(th)
  BY Blanks DEF Seen, Begins
<1>2. job'[th].run = job[th].run
  BY <1>0, <1>1 DEF JobMoves, Advances
<1>3. CASE job'[th].view = job[th].view
  <2>1. p \in Seen(th)
    BY <1>3 DEF Seen, Filled
  <2>2. broker[p].by = job[th].run /\ Placed(p)
    BY <2>1, SeenPlaced DEF OwnShares, ViewOwn, Placed
  <2>3. p \in AllOrders
    BY <2>1 DEF Seen, Filled, TypeInv, TypeOK, Jobs, Views
  <2> QED BY <1>2, <2>2, <2>3, PlacedStays
<1>4. CASE job'[th].view # job[th].view
  <2>1. Looks(th) /\ job[th].at = "refresh"
    BY <1>0, <1>1, <1>4 DEF JobMoves, Advances, Takes, SameHands, Looks
  <2>2. /\ UNCHANGED broker
        /\ job'[th].view.open = {o \in AllOrders : broker[o].st = "open"}
        /\ job'[th].view.fills = [o \in AllOrders |-> IF broker[o].day = day THEN broker[o].filled ELSE 0]
    BY <1>4, <2>1 DEF Looks
  <2>3. /\ p \in AllOrders
        /\ broker[p].st = "open" \/ (broker[p].filled > 0 /\ broker[p].day = day)
    BY <2>2 DEF Seen, Filled
  <2>4. p \in Orders /\ Counts(p)
    BY <2>3 DEF Counts, Live, AllOrders
  <2>5. broker[p].day = day
    BY <2>3, <2>4 DEF Dates, OrdersDated, Live
  <2>6. /\ broker[p].by \in Runs /\ broker[p].day = run[broker[p].by].day
        /\ run[broker[p].by].status \in Active /\ Registered(broker[p].by)
    BY <2>4, Counting DEF OwnShares, Kept
  <2>7. job[th] # NoJob /\ job[th].run \in Runs /\ run[job[th].run].status \in Recorded
    BY <2>1, Working DEF SentOnce, Progress, TypeInv, JobsOK
  <2>8. phase # "opening"
    <3>1. phase = "opening" => run[broker[p].by].day < day
      BY <2>6 DEF Dates, RunsDated
    <3>2. day \in Int
      BY DEF TypeInv, TypeOK
    <3> QED BY <2>5, <2>6, <3>1, <3>2
  <2>9. Today(job[th].run)
    BY <2>7, <2>8 DEF Dates, JobsDated
  <2>10. run[job[th].run].status \in Active
    BY <2>7 DEF Recorded, Active
  <2>11. broker[p].by = job[th].run
    BY <2>5, <2>6, <2>7, <2>9, <2>10 DEF OwnShares, Single, Today
  <2> QED BY <1>2, <2>2, <2>11
<1> QED BY <1>3, <1>4

LEMMA OldFillsStep ==
  ASSUME Others = {}, TypeInv, TypeInv', Dates, Dates', SentOnce, OwnShares, Steps
  PROVE  OldFills'
<1> SUFFICES ASSUME NEW th \in Scanners, job'[th].at = "act", phase' = "opening",
                    job'[th].view.ok, ~ (job'[th].view.held > 0),
                    NEW o \in AllOrders, broker'[o].by = job'[th].run
             PROVE  broker'[o].filled = 0
  BY DEF OldFills
<1>0. JobMoves(th)
  BY DEF Steps, JobsGo
<1>1. job'[th] # NoJob /\ ~Begins(th)
  BY Blanks DEF Begins
<1>2. job'[th].run = job[th].run /\ job[th] # NoJob
  BY <1>0, <1>1, Working DEF JobMoves, Advances
<1>3. phase = "opening" /\ UNCHANGED day
  <2>1. phase # "closed"
    BY <1>2 DEF Dates, JobsDated
  <2> QED BY <2>1 DEF Steps, SessionTurns
<1>4. job[th].run \in Runs /\ Registered(job[th].run) /\ o \in Orders
  BY <1>2 DEF Dates, JobsDated, TypeInv, JobsOK, AllOrders
<1>5. broker'[o] = broker[o]
  <2>1. ~OrderGoesOn(o)
    BY <1>3, <1>4 DEF OrderGoesOn, Dates, OrdersDated
  <2>2. ~OrderIsTaken(o)
    BY <1>3, <1>4, TakenOf
  <2> QED BY <2>1, <2>2 DEF Steps, OrdersGo, OrderStays
<1>6. CASE job'[th] = job[th]
  BY <1>2, <1>3, <1>5, <1>6 DEF OwnShares, OldFills
<1>7. CASE Looks(th)
  <2>1. job[th].at = "refresh"
    BY <1>7 DEF Looks
  <2>2. ~job[th].view.ok
    BY <2>1, Blanks DEF Dates, JobsDated
  <2>3. job'[th].view.held \in Balances
    BY <1>7, <2>2 DEF Looks
  <2>4. broker[o].by = job[th].run
    BY <1>2, <1>5
  <2>5. broker[o].filled \in Nat /\ broker[o].day \in Int /\ day \in Int
    BY SizesAssumption DEF TypeInv, TypeOK, BrokerOrders
  <2>6. broker[o].day <= day - 1
    <3>1. Placed(o)
      BY <1>4, <2>4, OfPlaced
    <3>2. broker[o].day = run[job[th].run].day
      BY <1>4, <2>4, <3>1 DEF Dates, OrdersDated
    <3>3. run[job[th].run].day < day
      BY <1>3, <1>4 DEF Dates, RunsDated
    <3> QED BY <2>5, <3>2, <3>3
  <2>7. HeldBy(day - 1) \in Nat /\ HeldBy(day - 1) >= broker[o].filled
    BY <2>5, <2>6, HeldBounds
  <2>8. CASE Bought
    <3>1. job'[th].view.held \in HeldBy(day - 1) .. Held
      BY <2>3, <2>8 DEF Balances
    <3>2. job'[th].view.held >= HeldBy(day - 1) /\ job'[th].view.held \in Int
      BY <3>1
    <3> QED BY <1>5, <2>5, <2>7, <3>2
  <2>9. CASE ~Bought
    BY <1>5, <2>5, <2>9 DEF Bought
  <2> QED BY <2>8, <2>9
<1> QED BY <1>0, <1>1, <1>6, <1>7 DEF JobMoves, Advances, Takes

LEMMA NextShareInv ==
  ASSUME Others = {}, TypeInv, HasShares, Dates, SentOnce, OwnShares, CancelsSafe, [Next]_vars,
         Alone, Alone', kills' = 0, strays' = 0, Lost' = {}
  PROVE  OwnShares' /\ CancelsSafe'
<1>1. TypeInv' /\ Steps /\ Dates' /\ SentOnce' /\ HasShares'
  BY NextType, NextSteps, NextDates, NextSentOnce, NextShares DEF Dates
<1>2. OneEach /\ OneEach' /\ ViewOwn
  BY <1>1 DEF SentOnce, OwnShares
<1>3. CancelsSafe'
  BY <1>1, <1>2, PendingSentStep, CancelsSeenStep DEF CancelsSafe
<1>4. Kept' /\ Single' /\ RowLatest' /\ ViewOwn' /\ OldFills'
  BY <1>1, KeptStep, SingleStep, RowLatestStep, ViewOwnStep, OldFillsStep
<1>5. PosOwn'
  BY <1>1, <1>4, PosOwnStep
<1> QED BY <1>3, <1>4, <1>5 DEF OwnShares

LEMMA InitShareInv == Init => OwnShares /\ CancelsSafe
<1> SUFFICES ASSUME Init PROVE OwnShares /\ CancelsSafe
  OBVIOUS
<1>0. /\ \A r \in Runs : run[r].status = "NONE" /\ run[r].cause = ""
      /\ \A o \in AllOrders : broker[o].st = "none" /\ broker[o].filled = 0
      /\ \A o \in Orders : row[o].left = 0 /\ o \in AllOrders
      /\ \A th \in Scanners : job[th] = NoJob
      /\ pos = {}
  BY NewTypes DEF Init, NewRun, NewOrder, AllOrders
<1>1. Kept /\ RowLatest
  <2>1. \A o \in Orders : ~Counts(o) /\ ~(row[o].left > 0)
    <3>1. ~(0 > 0)
      OBVIOUS
    <3> QED BY <1>0, <3>1 DEF Counts, Live
  <2> QED BY <2>1 DEF Kept, RowLatest
<1>6. PosOwn
  BY <1>0 DEF PosOwn
<1>2. Single
  BY <1>0 DEF Single, Active, Pending, Entered
<1>3. ViewOwn /\ OldFills
  BY <1>0, Blanks DEF ViewOwn, Seen, OldFills
<1>4. PendingSent
  BY <1>0, Blanks DEF PendingSent, Pending, Cancelling
<1>5. CancelsSeen
  BY <1>0, Blanks DEF CancelsSeen, Cancelling
<1> QED BY <1>1, <1>2, <1>3, <1>4, <1>5, <1>6 DEF OwnShares, CancelsSafe

\* What holds of the trading loop alone.
IfAlone == (kills = 0 /\ strays = 0 => SentOnce) /\ (NoneForgotten => OwnShares /\ CancelsSafe)

LEMMA NextAlone ==
  ASSUME Others = {}, TypeInv, HasShares, OwnDates, IfAlone, [Next]_vars, Alone, Alone'
  PROVE  IfAlone'
<1>1. (kills' = 0 => kills = 0) /\ (strays' = 0 => strays = 0)
  BY CountersGrow
<1>2. ASSUME kills' = 0, strays' = 0
      PROVE  SentOnce'
  <2>1. SentOnce /\ Dates
    BY <1>1, <1>2 DEF IfAlone, OwnDates
  <2> QED BY <1>2, <2>1, NextSentOnce
<1>3. ASSUME kills' = 0, strays' = 0, Lost' = {}
      PROVE  OwnShares' /\ CancelsSafe'
  <2>1. SentOnce /\ Dates
    BY <1>1, <1>3 DEF IfAlone, OwnDates
  <2>2. Lost = {}
    BY <1>3, <2>1, LostStays
  <2>3. OwnShares /\ CancelsSafe
    BY <1>1, <1>3, <2>2 DEF IfAlone, NoneForgotten
  <2> QED BY <1>3, <2>1, <2>3, NextShareInv
<1> QED BY <1>2, <1>3 DEF IfAlone, NoneForgotten

-----------------------------------------------------------------------------
(* What follows *)

LEMMA OneCounts ==
  ASSUME TypeInv, Dates, SentOnce, OwnShares, NEW o \in Orders, NEW p \in Orders, Counts(o),
         Counts(p),
         broker[o].day = broker[p].day
  PROVE  o = p
<1>1. /\ run[broker[o].by].status \in Active /\ run[broker[p].by].status \in Active
      /\ broker[o].by \in Runs /\ broker[p].by \in Runs /\ Placed(o) /\ Placed(p)
      /\ run[broker[o].by].day = run[broker[p].by].day
  BY Counting DEF OwnShares, Kept
<1>2. broker[o].by = broker[p].by
  BY <1>1 DEF OwnShares, Single
<1> QED BY <1>1, <1>2 DEF SentOnce, OneEach

LEMMA Uncounted ==
  ASSUME TypeInv, NEW o \in AllOrders, ~Counts(o)
  PROVE  ~Live(o) /\ broker[o].filled = 0
<1>1. broker[o].filled \in Nat
  BY SizesAssumption DEF TypeInv, TypeOK, BrokerOrders
<1> QED BY <1>1 DEF Counts

LEMMA OneExposureAlone ==
  ASSUME TypeInv, Dates, SentOnce, OwnShares
  PROVE  OneExposure
<1> SUFFICES ASSUME NEW o \in Orders, NEW p \in Orders, o # p, Live(o), broker[p].day = broker[o].day
             PROVE  ~Live(p) /\ broker[p].filled = 0
  BY DEF OneExposure
<1>1. ~Counts(p)
  BY OneCounts DEF Counts
<1> QED BY <1>1, Uncounted DEF AllOrders

LEMMA CancelledIsDead ==
  ASSUME CancelsSafe
  PROVE  ConfirmedCancelIsDead
<1> SUFFICES ASSUME NEW r \in Runs, run[r].cause \in {"above", "ttl"}, NEW o \in Of(r)
             PROVE  ~Live(o) /\ broker[o].filled = 0
  BY DEF ConfirmedCancelIsDead
<1>1. Quiet(o)
  BY DEF CancelsSafe, CancelsSeen, Dead, Cancelling, Of
<1> QED BY <1>1 DEF Quiet, Live

\* A run counts as entered only when shares were bought; here, by a run's order of its session.
LEMMA SomethingBought ==
  ASSUME Others = {}, HasShares, NEW r \in Runs, run[r].status \in Entered \/ r \in pos,
         \A o \in AllOrders : broker[o].filled > 0 => broker[o].day = run[r].day
  PROVE  \E o \in Orders : Counts(o) /\ broker[o].filled > 0 /\ broker[o].day = run[r].day
<1>1. Bought
  BY DEF HasShares, Empty, Out
<1> QED BY <1>1 DEF Bought, AllOrders, Counts

LEMMA EntryIsOwnAlone ==
  ASSUME Others = {}, TypeInv, Dates, HasShares, SentOnce, OwnShares
  PROVE  EntryIsOwn
<1> SUFFICES ASSUME NEW r \in Runs, run[r].status \in Entered \/ r \in pos,
                    \A o \in AllOrders : broker[o].filled > 0 => broker[o].day = run[r].day
             PROVE  \E o \in AllOrders : broker[o].by = r /\ broker[o].filled > 0
  BY DEF EntryIsOwn, Of
<1>1. CASE r \in pos
  BY <1>1 DEF OwnShares, PosOwn, AllOrders
<1>2. CASE run[r].status \in Entered
  <2>1. PICK o \in Orders : Counts(o) /\ broker[o].filled > 0 /\ broker[o].day = run[r].day
    BY SomethingBought
  <2>2. /\ o \in AllOrders /\ broker[o].by \in Runs /\ run[broker[o].by].status \in Active
        /\ broker[o].day = run[broker[o].by].day
    BY <2>1, Counting DEF OwnShares, Kept
  <2>3. broker[o].by = r
    BY <1>2, <2>1, <2>2 DEF OwnShares, Single, Active
  <2> QED BY <2>1, <2>2, <2>3
<1> QED BY <1>1, <1>2

LEMMA WatchedAlone ==
  ASSUME Others = {}, TypeInv, Dates, SentOnce, OwnShares
  PROVE  LiveOrderIsWatched
<1> SUFFICES ASSUME NoneForgotten, NEW o \in Orders, Live(o)
             PROVE  \/ run[broker[o].by].status \in Pending \cup Entered \cup {"ORDER_UNKNOWN"}
                    \/ \E th \in Scanners : job[th].ord = o
  BY DEF LiveOrderIsWatched
<1>1. /\ o \in AllOrders /\ Placed(o) /\ broker[o].by \in Runs
      /\ run[broker[o].by].status \in Active
  BY Counting DEF Counts, OwnShares, Kept
<1>2. run[broker[o].by].status # "WAITING"
  BY <1>1 DEF SentOnce, Unsent, Of
<1>3. ASSUME run[broker[o].by].status = "HIT"
      PROVE  \E th \in Scanners : job[th].ord = o
  <2>1. run[broker[o].by].no = NoOrder
    BY <1>1, <1>3 DEF SentOnce, Unsent
  <2>2. o \notin Lost
    BY DEF NoneForgotten
  <2> QED BY <1>1, <1>3, <2>1, <2>2 DEF Lost, Placed
<1> QED BY <1>1, <1>2, <1>3 DEF Active

-----------------------------------------------------------------------------
(* The trading loop alone *)

LoopAlone == OneExposure /\ ConfirmedCancelIsDead /\ EntryIsOwn /\ LiveOrderIsWatched

\* The invariants give the properties of the trading loop alone.
LEMMA AloneSuffices ==
  ASSUME Others = {}, TypeInv, HasShares, OwnDates, IfAlone
  PROVE  LoopAlone
<1>1. CASE NoneForgotten
  <2>1. OwnShares /\ SentOnce /\ CancelsSafe /\ Dates
    BY <1>1 DEF IfAlone, NoneForgotten, OwnDates
  <2> QED BY <2>1, OneExposureAlone, CancelledIsDead, EntryIsOwnAlone, WatchedAlone DEF LoopAlone
<1>2. CASE ~NoneForgotten
  BY <1>2 DEF LoopAlone, OneExposure, ConfirmedCancelIsDead, EntryIsOwn, LiveOrderIsWatched
<1> QED BY <1>1, <1>2

\* While the trading loop is the only scanner, whatever crashes, lost answers, late fills,
\* cancels and restarts do: where no order was forgotten in a crash between place_order and
\* mark_order_sent, no plan was killed, and every submission was that of one order (place_order
\* did not submit again what the broker had yet to accept, nor took another's order for its
\* own), a session has at most one order that fills or can (PathBRuntime._submit_buy and its
\* gates), a cancel that is recorded as confirmed has no live order behind it, a run that counts
\* as entered has bought, and every live order is in its run's record or in the scanner's hand.
THEOREM NoDuplicateAlone ==
  ASSUME Others = {}
  PROVE  Spec /\ []Alone => []LoopAlone
<1>1. Init => TypeInv /\ OwnDates /\ IfAlone
  BY InitType, InitDates, InitSentOnce, InitShareInv DEF IfAlone, OwnDates
<1>2. TypeInv /\ HasShares /\ OwnDates /\ IfAlone /\ Alone /\ Alone' /\ [Next]_vars
      => TypeInv' /\ OwnDates' /\ IfAlone'
  BY NextType, NextOwnDates, NextAlone
<1>3. TypeInv /\ HasShares /\ OwnDates /\ IfAlone => LoopAlone
  BY AloneSuffices
<1> QED BY <1>1, <1>2, <1>3, AlwaysShares, PTL DEF Spec

-----------------------------------------------------------------------------
(* ... except in the last session *)

LEMMA AloneInModes ==
  ASSUME "ws" \in Scanners, Modes, day < MaxDays
  PROVE  Alone
BY ScannersAssumption, SizesAssumption DEF Modes, Alone

InModes == /\ day < MaxDays => IfAlone
           /\ day = MaxDays /\ strays = 0 => CancelsSafe

LEMMA OneInModes ==
  ASSUME Others = {}, TypeInv, Dates, Modes, day = MaxDays
  PROVE  OneEach /\ ViewOwn
<1>0. ~(day < MaxDays)
  BY SizesAssumption
<1>1. /\ \A r, q \in Runs : Registered(r) /\ Registered(q) => r = q
      /\ \A o, p \in Orders : Placed(o) /\ Placed(p) => o = p
  BY <1>0 DEF Modes, Registered, Placed
<1>2. ASSUME NEW th \in Scanners, NEW p \in Seen(th)
      PROVE  broker[p].by = job[th].run
  <2>1. p \in Orders /\ Placed(p)
    BY SeenPlaced DEF Seen, Filled, TypeInv, TypeOK, Jobs, Views, AllOrders, Placed
  <2>2. Registered(broker[p].by) /\ broker[p].by \in Runs
    BY <2>1 DEF Dates, OrdersDated, TypeInv, OrdersOK, Placed
  <2>3. job[th] # NoJob
    BY Blanks DEF Seen
  <2>4. Registered(job[th].run) /\ job[th].run \in Runs
    BY <2>3 DEF Dates, JobsDated, TypeInv, JobsOK
  <2> QED BY <1>1, <2>2, <2>4
<1> QED BY <1>1, <1>2 DEF OneEach, ViewOwn

LEMMA NextInModes ==
  ASSUME Others = {}, "ws" \in Scanners, TypeInv, HasShares, OwnDates, InModes, Modes, Modes',
         [Next]_vars
  PROVE  InModes'
<1> SUFFICES ASSUME strays' = 0
             PROVE  InModes'
  BY DEF InModes, IfAlone, NoneForgotten
<1>s. strays = 0 /\ Dates
  BY CountersGrow DEF OwnDates
<1>0. TypeInv' /\ Dates' /\ Steps
  BY <1>s, NextType, NextDates, NextSteps DEF Dates
<1>1. /\ day \in 1 .. MaxDays /\ day' \in 1 .. MaxDays /\ MaxDays \in Nat
      /\ \/ UNCHANGED day
         \/ day' = day + 1 /\ phase' = "opening" /\ phase = "closed" /\ UNCHANGED <<run, job>>
  BY <1>0, SizesAssumption DEF TypeInv, TypeOK, Steps, SessionTurns
<1>2. ASSUME day' < MaxDays
      PROVE  IfAlone'
  <2>1. day < MaxDays
    BY <1>1, <1>2
  <2>2. Alone /\ IfAlone
    BY <2>1, AloneInModes DEF InModes
  <2>3. Alone'
    BY <1>2, ScannersAssumption DEF Modes, Alone
  <2> QED BY <2>2, <2>3, NextAlone
<1>3. ASSUME day' = MaxDays, UNCHANGED day
      PROVE  CancelsSafe'
  <2>1. CancelsSafe /\ OneEach /\ ViewOwn
    BY <1>s, <1>3, OneInModes DEF InModes
  <2>2. OneEach'
    <3>1. ~(day' < MaxDays)
      BY <1>1, <1>3
    <3> QED BY <3>1 DEF Modes, OneEach, Placed
  <2> QED BY <1>s, <1>0, <2>1, <2>2, PendingSentStep, CancelsSeenStep DEF CancelsSafe
<1>4. ASSUME day' = MaxDays, day' = day + 1, phase' = "opening"
      PROVE  CancelsSafe'
  <2>1. ASSUME NEW r \in Runs
        PROVE  run'[r].status = "NONE"
    <3>1. run'[r].status # "NONE" => run'[r].day = day'
      <4>1. ~(day' < MaxDays)
        BY <1>1, <1>4
      <4> QED BY <1>4, <4>1 DEF Modes
    <3>2. run'[r].status # "NONE" => run'[r].day < day'
      BY <1>0, <1>4 DEF Dates, RunsDated, Registered
    <3> QED BY <1>1, <3>1, <3>2
  <2>2. \A r \in Runs : run'[r].cause = ""
    BY <1>0, <2>1 DEF Dates, RunsDated, Registered
  <2>3. ASSUME NEW th \in Scanners
        PROVE  job'[th] = NoJob
    <3>1. SUFFICES ASSUME job'[th] # NoJob PROVE FALSE
      OBVIOUS
    <3>2. PICK q : q = job'[th].run
      OBVIOUS
    <3>3. q \in Runs
      BY <1>0, <3>1, <3>2 DEF TypeInv, JobsOK
    <3>4. run'[q].status # "NONE"
      BY <1>0, <3>1, <3>2 DEF Dates, JobsDated, Registered
    <3> QED BY <2>1, <3>3, <3>4
  <2>4. PendingSent'
    BY <2>1, <2>3, Blanks DEF PendingSent, Pending, Cancelling
  <2>5. CancelsSeen'
    BY <2>2, <2>3, Blanks DEF CancelsSeen, Cancelling
  <2> QED BY <2>4, <2>5 DEF CancelsSafe
<1> QED BY <1>1, <1>2, <1>3, <1>4 DEF InModes

LEMMA AlwaysInModes ==
  ASSUME Others = {}, "ws" \in Scanners
  PROVE  Spec /\ []Modes => [](TypeInv /\ HasShares /\ OwnDates /\ InModes)
<1>1. Init => TypeInv /\ OwnDates /\ InModes
  BY InitType, InitDates, InitSentOnce, InitShareInv DEF InModes, IfAlone, OwnDates
<1>2. TypeInv /\ HasShares /\ OwnDates /\ InModes /\ Modes /\ Modes' /\ [Next]_vars
      => TypeInv' /\ OwnDates' /\ InModes'
  BY NextType, NextOwnDates, NextInModes
<1> QED BY <1>1, <1>2, AlwaysShares, PTL DEF Spec

LEMMA LastSession ==
  ASSUME Others = {}, TypeInv, HasShares, Dates, InModes, Modes, day = MaxDays, strays = 0
  PROVE  OneExposure /\ ConfirmedCancelIsDead /\ EntryIsOwn
<1>0. ~(day < MaxDays)
  BY SizesAssumption
<1>1. /\ \A r, q \in Runs : Registered(r) /\ Registered(q) => r = q
      /\ \A o, p \in Orders : Placed(o) /\ Placed(p) => o = p
  BY <1>0 DEF Modes, Registered, Placed
<1>2. OneExposure
  <2> SUFFICES ASSUME NEW o \in Orders, NEW p \in Orders, o # p, Live(o)
               PROVE  ~Live(p) /\ broker[p].filled = 0
    BY DEF OneExposure
  <2>1. ~Placed(p)
    BY <1>1 DEF Live, Placed
  <2> QED BY <2>1 DEF TypeInv, OrdersOK, AllOrders, Placed, Live
<1>3. ConfirmedCancelIsDead
  BY CancelledIsDead DEF InModes
<1>4. EntryIsOwn
  <2> SUFFICES ASSUME NEW r \in Runs, run[r].status \in Entered \/ r \in pos,
                      \A o \in AllOrders : broker[o].filled > 0 => broker[o].day = run[r].day
               PROVE  \E o \in AllOrders : broker[o].by = r /\ broker[o].filled > 0
    BY DEF EntryIsOwn, Of
  <2>1. PICK o \in Orders : Counts(o) /\ broker[o].filled > 0 /\ broker[o].day = run[r].day
    BY SomethingBought
  <2>2. o \in AllOrders /\ broker[o].by \in Runs /\ Registered(broker[o].by)
    BY <2>1, Counting
  <2>3. Registered(r)
    BY DEF Dates, RunsDated, Registered, Entered
  <2> QED BY <1>1, <2>1, <2>2, <2>3
<1> QED BY <1>2, <1>3, <1>4

LEMMA InModesSuffices ==
  ASSUME Others = {}, TypeInv, HasShares, OwnDates, InModes, Modes
  PROVE  /\ OneExposure /\ ConfirmedCancelIsDead /\ EntryIsOwn
         /\ day < MaxDays => LiveOrderIsWatched
<1>1. CASE day < MaxDays
  BY <1>1, AloneSuffices DEF InModes, LoopAlone
<1>2. CASE ~(day < MaxDays) /\ strays = 0
  <2>1. day = MaxDays /\ Dates
    BY <1>2, SizesAssumption DEF TypeInv, TypeOK, OwnDates
  <2> QED BY <1>2, <2>1, LastSession
<1>3. CASE ~(day < MaxDays) /\ strays # 0
  BY <1>3 DEF NoneForgotten, OneExposure, ConfirmedCancelIsDead, EntryIsOwn
<1> QED BY <1>1, <1>2, <1>3

\* One session, one exposure: beside an order that can fill, no other order of the day fills or
\* has filled, in the modes of the scanners that Modes names.  (The gate, the precheck and
\* _order_unknown_blocked are all that stands between two submissions.)
THEOREM OneExposureHolds ==
  ASSUME Others = {}, "ws" \in Scanners
  PROVE  Spec /\ []Modes => []OneExposureInModes
<1>1. TypeInv /\ HasShares /\ OwnDates /\ InModes /\ Modes => OneExposureInModes
  BY InModesSuffices DEF OneExposureInModes
<1> QED BY <1>1, AlwaysInModes, PTL

\* A cancel for price or time that is recorded as confirmed left nothing at the broker: the
\* snapshot of the reconcile that confirms it was taken after the order was known there.
THEOREM ConfirmedCancelHolds ==
  ASSUME Others = {}, "ws" \in Scanners
  PROVE  Spec /\ []Modes => []ConfirmedCancelIsDeadInModes
<1>1. TypeInv /\ HasShares /\ OwnDates /\ InModes /\ Modes => ConfirmedCancelIsDeadInModes
  BY InModesSuffices DEF ConfirmedCancelIsDeadInModes
<1> QED BY <1>1, AlwaysInModes, PTL

\* A run that counts as entered, and the run named by a position, bought shares with an order of
\* its own, where all the shares are of its session: no other run's fill was taken for its own.
THEOREM EntryIsOwnHolds ==
  ASSUME Others = {}, "ws" \in Scanners
  PROVE  Spec /\ []Modes => []EntryIsOwnInModes
<1>1. TypeInv /\ HasShares /\ OwnDates /\ InModes /\ Modes => EntryIsOwnInModes
  BY InModesSuffices DEF EntryIsOwnInModes
<1> QED BY <1>1, AlwaysInModes, PTL

\* A live order is never forgotten while the trading loop scans alone: its run is pending,
\* entered or unknown, so that a reconcile looks for it, or a scanner has it in hand.
THEOREM LiveOrderIsWatchedHolds ==
  ASSUME Others = {}, "ws" \in Scanners
  PROVE  Spec /\ []Modes => []WatchedIfAlone
<1>1. TypeInv /\ HasShares /\ OwnDates /\ InModes /\ Modes => WatchedIfAlone
  BY InModesSuffices DEF WatchedIfAlone
<1> QED BY <1>1, AlwaysInModes, PTL
=============================================================================
