-------------------------- MODULE GenericExit_proofs --------------------------
(* Proofs about GenericExit.tla. *)
EXTENDS GenericExit, SumLemmas, TLAPS

(***************************************************************************)
(* Minima and maxima of the sets the module takes them of.                 *)
(***************************************************************************)
LEMMA MinOfTwo ==
  ASSUME NEW a \in Int, NEW b \in Int
  PROVE  Min({a, b}) = IF a <= b THEN a ELSE b
<1>1. PICK x \in {a, b} : \A y \in {a, b} : x <= y
  OBVIOUS
<1>2. Min({a, b}) \in {a, b} /\ \A y \in {a, b} : Min({a, b}) <= y
  BY <1>1 DEF Min
<1> QED
  BY <1>2

LEMMA MinOfThree ==
  ASSUME NEW a \in Int, NEW b \in Int, NEW c \in Int
  PROVE  LET m == Min({a, b} \cup {c}) IN m \in {a, b, c} /\ m <= a /\ m <= b /\ m <= c
<1>1. PICK x \in {a, b, c} : \A y \in {a, b, c} : x <= y
  OBVIOUS
<1>2. {a, b} \cup {c} = {a, b, c}
  OBVIOUS
<1>3. Min({a, b, c}) \in {a, b, c} /\ \A y \in {a, b, c} : Min({a, b, c}) <= y
  BY <1>1 DEF Min
<1> QED
  BY <1>2, <1>3

LEMMA MaxOfTwo ==
  ASSUME NEW a \in Int, NEW b \in Int
  PROVE  Max({a, b}) = IF a >= b THEN a ELSE b
<1>1. PICK x \in {a, b} : \A y \in {a, b} : x >= y
  OBVIOUS
<1>2. Max({a, b}) \in {a, b} /\ \A y \in {a, b} : Max({a, b}) >= y
  BY <1>1 DEF Max
<1> QED
  BY <1>2

(***************************************************************************)
(* Types.                                                                  *)
(***************************************************************************)
LEMMA BookedType ==
  ASSUME booked \in 0 .. Size + 1, NEW n \in Nat
  PROVE  Booked(n) \in 0 .. Size + 1
BY MinOfTwo, SizeAssumption DEF Booked

LEMMA FilledByType ==
  ASSUME NEW v \in Views, NEW asked \in -1 .. Size
  PROVE  /\ FilledBy(v, asked) \in Nat
         /\ FilledBy(v, asked) > 0 => asked > 0 \/ (v.ok /\ v.filled > 0)
<1>1. Max({0, asked}) = IF 0 >= asked THEN 0 ELSE asked
  BY MaxOfTwo, SizeAssumption
<1> QED
  BY <1>1, SizeAssumption DEF FilledBy, Views

\* A snapshot has the balance and the orders of now, or those of the last snapshot.
LEMMA SnapshotType ==
  ASSUME TypeOK, NEW force \in BOOLEAN, NEW s \in Snapshot(force)
  PROVE  /\ s \in Snapshots
         /\ s.bal \in {held, truth.bal}
         /\ s.order \in {order, truth.order}
<1>1. CASE s \in Renewed
  <2>1. PICK b \in Balances : s = [ok |-> TRUE, bal |-> b, order |-> order, hand |-> hand]
    BY <1>1 DEF Renewed
  <2> QED
    BY <2>1 DEF Balances, TypeOK, Snapshots
<1>2. CASE s = Failed
  BY <1>2 DEF Failed, TypeOK, Snapshots
<1>3. CASE s = truth
  BY <1>3 DEF TypeOK
<1> QED
  BY <1>1, <1>2, <1>3 DEF Snapshot

LEMMA DoneType ==
  ASSUME TypeOK, NEW t \in Threads, Done(t)
  PROVE  lock' \in Threads \cup {None} /\ pc' \in [Threads -> Steps] /\ me' \in [Threads -> Work]
<1>1. Nothing \in Work
  BY SizeAssumption DEF Nothing, Work, NoView, Views
<1> QED
  BY <1>1 DEF TypeOK, Done, Steps

LEMMA CloseAllType ==
  ASSUME TypeOK, CloseAll
  PROVE  pos' \in Positions /\ booked' \in 0 .. Size + 1
<1>1. pos.qty \in Nat
  BY SizeAssumption DEF TypeOK, Positions
<1>2. Booked(pos.qty) \in 0 .. Size + 1
  BY <1>1, BookedType DEF TypeOK
<1> QED
  BY <1>2 DEF CloseAll, TypeOK, Positions

LEMMA RemoveType ==
  ASSUME TypeOK, Remove \/ UNCHANGED book
  PROVE  /\ pos' \in Positions /\ saved' \in Positions
         /\ closedToday' = closedToday /\ booked' = booked
<1>1. CASE Remove
  <2>1. [pos EXCEPT !.there = FALSE] \in Positions
    BY DEF TypeOK, Positions
  <2> QED
    BY <1>1, <2>1 DEF Remove, TypeOK
<1>2. CASE UNCHANGED book
  BY <1>2 DEF book, TypeOK
<1> QED
  BY <1>1, <1>2

LEMMA SettleType ==
  ASSUME TypeOK, NEW v \in Views, NEW n \in Nat, Settle(v, n)
  PROVE  pos' \in Positions /\ booked' \in 0 .. Size + 1 /\ closedToday' \in BOOLEAN
<1>0. pos \in Positions /\ pos.qty \in 0 .. Size /\ pos.asked \in 0 .. Size /\ pos.there \in BOOLEAN
      /\ closedToday \in BOOLEAN /\ booked \in 0 .. Size + 1
      /\ v.ok \in BOOLEAN /\ v.open \in BOOLEAN
  BY DEF TypeOK, Positions, Views
<1>1. ASSUME CloseAll, closedToday' = (closedToday \/ pos.there)
      PROVE  pos' \in Positions /\ booked' \in 0 .. Size + 1 /\ closedToday' \in BOOLEAN
  BY <1>0, <1>1, CloseAllType
<1>2. CASE n > 0
  <2> DEFINE c == Min({n, pos.qty} \cup (IF pos.asked > 0 THEN {pos.asked} ELSE {}))
  <2>1. c \in 0 .. Size /\ c <= pos.qty
    <3>1. CASE pos.asked > 0
      <4>1. c = Min({n, pos.qty} \cup {pos.asked})
        BY <3>1
      <4>2. n \in Int /\ pos.qty \in Int /\ pos.asked \in Int
        BY <1>0, SizeAssumption
      <4>3. c \in {n, pos.qty, pos.asked} /\ c <= pos.qty
        BY <4>1, <4>2, MinOfThree
      <4> QED
        BY <1>0, <1>2, <4>3, SizeAssumption
    <3>2. CASE ~(pos.asked > 0)
      <4>1. {n, pos.qty} \cup {} = {n, pos.qty}
        OBVIOUS
      <4> QED
        BY <1>0, <1>2, <3>2, <4>1, MinOfTwo, SizeAssumption
    <3> QED
      BY <3>1, <3>2
  <2>2. CASE c >= pos.qty
    BY <1>1, <1>2, <2>2 DEF Settle
  <2>3. CASE ~(c >= pos.qty)
    <3>1. ClosePart(c, v)
      BY <1>2, <2>3 DEF Settle
    <3>2. Booked(c) \in 0 .. Size + 1
      BY <1>0, <2>1, BookedType, SizeAssumption
    <3>3. pos.qty - c \in 0 .. Size
      BY <1>0, <2>1, SizeAssumption
    <3> HIDE DEF c
    <3> QED
      BY <1>0, <3>1, <3>2, <3>3 DEF ClosePart, Positions
  <2> QED
    BY <2>2, <2>3
<1>3. CASE ~(n > 0)
  BY <1>0, <1>1, <1>3 DEF Settle, Keep, Positions
<1> QED
  BY <1>2, <1>3

(***************************************************************************)
(* Every step preserves the types.                                         *)
(***************************************************************************)
LEMMA OutsideTypes ==
  ASSUME TypeOK, Outside
  PROVE  TypeOK'
<1> USE SizeAssumption, BoundsAssumption
<1>1. ASSUME NEW o \in Sells, Cancel(o)
      PROVE  TypeOK'
  BY <1>1 DEF Cancel, TypeOK, Orders, book, threads
<1>2. ASSUME NEW o \in Sells, NEW n \in 1 .. Size, Fill(o, n)
      PROVE  TypeOK'
  <2>1. order[o] \in [stage : {"new", "live", "dead"}, qty : 0 .. Size, filled : 0 .. Size]
    BY DEF TypeOK, Orders
  <2>2. n <= order[o].qty - order[o].filled
    BY <1>2, <2>1 DEF Fill, Left
  <2>3. order[o].filled + n \in 0 .. Size /\ held - n \in 0 .. Size
    BY <1>2, <2>1, <2>2 DEF Fill, TypeOK
  <2>4. order' \in Orders
    BY <1>2, <2>3 DEF Fill, TypeOK, Orders
  <2> QED
    BY <1>2, <2>3, <2>4 DEF Fill, TypeOK, book, threads, bounds
<1>3. ASSUME NEW n \in 1 .. Size, UserSells(n)
      PROVE  TypeOK'
  BY <1>3 DEF UserSells, TypeOK, book, threads, bounds
<1>4. CASE RefreshTruth
  <2>1. truth' \in Snapshot(TRUE)
    BY <1>4 DEF RefreshTruth, Snapshot
  <2>2. truth' \in Snapshots
    BY <2>1, SnapshotType
  <2> QED
    BY <1>4, <2>2 DEF RefreshTruth, TypeOK, broker, book, threads, bounds
<1> QED
  BY <1>1, <1>2, <1>3, <1>4 DEF Outside

LEMMA LookTypes ==
  ASSUME TypeOK, NEW t \in Threads, NEW force \in BOOLEAN, NEW s \in Snapshot(force),
         NEW then \in {"idle", "recheck"}, Look(t, s, then)
  PROVE  TypeOK'
<1>1. s \in Snapshots
  BY SnapshotType
<1> DEFINE view == [ok |-> s.ok, bal |-> s.bal, open |-> pos.sale \in OpenIn(s),
                    filled |-> IF pos.sale = None THEN 0 ELSE s.order[pos.sale].filled]
<1>2. view \in Views
  BY <1>1, SizeAssumption DEF Views, Snapshots, Orders, TypeOK, Positions
<1>3. me' = [me EXCEPT ![t].then = then, ![t].view = view]
  BY DEF Look
<1>4. me' \in [Threads -> Work]
  <2> HIDE DEF view
  <2> QED
    BY <1>2, <1>3 DEF TypeOK, Work
<1>5. pc' \in [Threads -> Steps]
  BY DEF Look, Goes, TypeOK, Steps
<1> QED
  BY <1>1, <1>4, <1>5 DEF Look, TypeOK, broker, book, bounds

LEMMA SellTypes ==
  ASSUME TypeOK, NEW t \in Threads, Sell(t)
  PROVE  TypeOK'
<1> USE DEF broker, book, bounds
<1>1. me[t] \in Work /\ pos \in Positions
  BY DEF TypeOK
<1>2. ASSUME NEW step \in Steps, Goes(t, step)
      PROVE  pc' \in [Threads -> Steps]
  BY <1>2 DEF Goes, TypeOK
<1>3. CASE StartExit(t)
  <2>1. pc' \in [Threads -> Steps]
    BY <1>2, <1>3 DEF StartExit, Steps
  <2>2. me' \in [Threads -> Work]
    BY <1>3 DEF StartExit, TypeOK, Work, Positions
  <2> QED
    BY <1>3, <2>1, <2>2 DEF StartExit, TypeOK
<1>4. CASE Halted(t) \/ ReviewHolds(t) \/ PrecheckFails(t)
  BY <1>4, DoneType DEF Halted, ReviewHolds, PrecheckFails, TypeOK
<1>5. CASE CheckFree(t) \/ ReviewSells(t)
  <2>1. pc' \in [Threads -> Steps]
    BY <1>2, <1>5 DEF CheckFree, ReviewSells, Steps
  <2> QED
    BY <1>5, <2>1 DEF CheckFree, ReviewSells, TypeOK
<1>6. CASE CheckPending(t)
  BY <1>6, LookTypes DEF CheckPending
<1>7. ASSUME NEW n \in -1 .. Size, Reconcile(t, n)
      PROVE  TypeOK'
  <2>1. me[t].view \in Views
    BY <1>1 DEF Work
  <2>2. pos' \in Positions /\ booked' \in 0 .. Size + 1 /\ closedToday' \in BOOLEAN
    BY <1>7, <2>1, FilledByType, SettleType DEF Reconcile
  <2>3. saved' \in Positions
    BY <1>7, <2>2 DEF Reconcile, TypeOK
  <2>4. lock' \in Threads \cup {None} /\ pc' \in [Threads -> Steps] /\ me' \in [Threads -> Work]
    <3>1. CASE me[t].then = "recheck"
      <4>1. pc' \in [Threads -> Steps]
        BY <1>2, <1>7, <3>1 DEF Reconcile, Steps
      <4>2. me' \in [Threads -> Work]
        <5>1. NoView \in Views
          BY SizeAssumption DEF NoView, Views
        <5>2. me' = [me EXCEPT ![t].view = NoView]
          BY <1>7, <3>1 DEF Reconcile
        <5> QED
          BY <5>1, <5>2 DEF TypeOK, Work
      <4> QED
        BY <1>7, <3>1, <4>1, <4>2 DEF Reconcile, TypeOK
    <3>2. CASE me[t].then # "recheck"
      BY <1>7, <3>2, DoneType DEF Reconcile
    <3> QED
      BY <3>1, <3>2
  <2> QED
    BY <1>7, <2>2, <2>3, <2>4 DEF Reconcile, TypeOK
<1>8. CASE Recheck(t)
  <2>1. lock' \in Threads \cup {None} /\ pc' \in [Threads -> Steps] /\ me' \in [Threads -> Work]
    <3>1. CASE HasPending
      BY <1>8, <3>1, DoneType DEF Recheck
    <3>2. CASE ~HasPending
      BY <1>2, <1>8, <3>2 DEF Recheck, Steps, TypeOK
    <3> QED
      BY <3>1, <3>2
  <2> QED
    BY <1>8, <2>1 DEF Recheck, TypeOK
<1>9. ASSUME NEW b \in Balances, Precheck(t, b) \/ NothingHeld(t, b)
      PROVE  TypeOK'
  <2>1. CASE Precheck(t, b)
    <3>1. pc' \in [Threads -> Steps]
      BY <2>1 DEF Precheck, Goes, Steps, TypeOK
    <3> QED
      BY <2>1, <3>1 DEF Precheck, TypeOK
  <2>2. CASE NothingHeld(t, b)
    <3>1. lock' \in Threads \cup {None} /\ pc' \in [Threads -> Steps] /\ me' \in [Threads -> Work]
      BY <2>2, DoneType DEF NothingHeld
    <3>2. pos' \in Positions /\ saved' \in Positions
          /\ closedToday' = closedToday /\ booked' = booked
      BY <2>2, RemoveType DEF NothingHeld
    <3> QED
      BY <2>2, <3>1, <3>2 DEF NothingHeld, TypeOK
  <2> QED
    BY <1>9, <2>1, <2>2
<1>10. ASSUME NEW s \in Snapshot(TRUE), Zero(t, s)
       PROVE  TypeOK'
  <2>1. lock' \in Threads \cup {None} /\ pc' \in [Threads -> Steps] /\ me' \in [Threads -> Work]
    BY <1>10, DoneType DEF Zero
  <2>2. pos' \in Positions /\ saved' \in Positions
        /\ closedToday' = closedToday /\ booked' = booked
    BY <1>10, RemoveType DEF Zero
  <2>3. truth' \in Snapshots
    BY <1>10, SnapshotType DEF Zero
  <2> QED
    BY <1>10, <2>1, <2>2, <2>3 DEF Zero, TypeOK
<1>11. ASSUME NEW o \in Sells, Accepted(o, me[t].qty)
       PROVE  order' \in Orders
  BY <1>1, <1>11, SizeAssumption DEF Accepted, TypeOK, Orders, Work
<1>12. ASSUME NEW o \in Sells, PlaceAccepted(t, o)
       PROVE  TypeOK'
  <2>1. pc' \in [Threads -> Steps] /\ me' \in [Threads -> Work]
    BY <1>2, <1>12 DEF PlaceAccepted, Steps, TypeOK, Work
  <2> QED
    BY <1>11, <1>12, <2>1 DEF PlaceAccepted, TypeOK
<1>13. CASE PlaceLost(t)
  <2>1. lock' \in Threads \cup {None} /\ pc' \in [Threads -> Steps] /\ me' \in [Threads -> Work]
    BY <1>13, DoneType DEF PlaceLost
  <2>2. order' \in Orders
    BY <1>11, <1>13 DEF PlaceLost, TypeOK
  <2>3. faults' \in 0 .. MaxFaults
    BY <1>13, BoundsAssumption DEF PlaceLost, TypeOK
  <2> QED
    BY <1>13, <2>1, <2>2, <2>3 DEF PlaceLost, TypeOK
<1>14. CASE PlaceRejected(t)
  <2>1. lock' \in Threads \cup {None} /\ pc' \in [Threads -> Steps] /\ me' \in [Threads -> Work]
    <3>1. CASE Done(t)
      BY <3>1, DoneType
    <3>2. CASE Goes(t, "nothing held") /\ UNCHANGED <<me, lock>>
      BY <1>2, <3>2 DEF Steps, TypeOK
    <3> QED
      BY <1>14, <3>1, <3>2 DEF PlaceRejected
  <2> QED
    BY <1>14, <2>1 DEF PlaceRejected, TypeOK
<1>15. CASE Confirmed(t)
  <2>1. lock' \in Threads \cup {None} /\ pc' \in [Threads -> Steps] /\ me' \in [Threads -> Work]
    <3>1. CASE pos.there
      BY <1>2, <1>15, <3>1 DEF Confirmed, Steps, TypeOK
    <3>2. CASE ~pos.there
      BY <1>15, <3>2, DoneType DEF Confirmed
    <3> QED
      BY <3>1, <3>2
  <2>2. pos' \in Positions /\ booked' \in 0 .. Size + 1
    BY <1>15, CloseAllType DEF Confirmed
  <2> QED
    BY <1>15, <2>1, <2>2 DEF Confirmed, TypeOK
<1>16. CASE SaveSold(t)
  BY <1>16, DoneType DEF SaveSold, TypeOK
<1>17. CASE Unconfirmed(t)
  <2>1. lock' \in Threads \cup {None} /\ pc' \in [Threads -> Steps] /\ me' \in [Threads -> Work]
    BY <1>17, DoneType DEF Unconfirmed
  <2>2. pos' \in Positions /\ saved' \in Positions
    BY <1>1, <1>17 DEF Unconfirmed, Positions, Work
  <2> QED
    BY <1>17, <2>1, <2>2 DEF Unconfirmed, TypeOK
<1> QED
  BY <1>3, <1>4, <1>5, <1>6, <1>7, <1>8, <1>9, <1>10, <1>12, <1>13, <1>14, <1>15, <1>16, <1>17
  DEF Sell

LEMMA LoopTypes ==
  ASSUME TypeOK, Loop
  PROVE  TypeOK'
<1> USE DEF broker, book, bounds
<1>0. "loop" \in Threads /\ me["loop"] \in Work
  BY ThreadsAssumption DEF TypeOK
<1>1. ASSUME NEW force \in BOOLEAN, Cycle(force)
      PROVE  TypeOK'
  BY <1>0, <1>1, LookTypes DEF Cycle
<1>2. CASE StartOutside
  <2>1. pc' \in [Threads -> Steps]
    BY <1>2 DEF StartOutside, Goes, Steps, TypeOK
  <2>2. me' \in [Threads -> Work]
    BY <1>0, <1>2 DEF StartOutside, TypeOK, Work, Positions
  <2> QED
    BY <1>2, <2>1, <2>2 DEF StartOutside, TypeOK
<1>3. ASSUME NEW b \in Balances \cup {-1}, NEW others \in BOOLEAN, Sync(b, others)
      PROVE  TypeOK'
  <2>1. b \in {-1} \cup 0 .. Size
    BY <1>3, SizeAssumption DEF Balances, TypeOK, Snapshots
  <2>2. ASSUME NEW list \in {"keep", "drop", "inject"}, NEW n \in 0 .. Size,
               NEW then \in {"idle", "recheck"}, Synced(list, n, then),
               pos' \in Positions, truth' \in Snapshots
        PROVE  TypeOK'
    <3>1. me' = [me EXCEPT !["loop"].list = list, !["loop"].qty = n, !["loop"].then = then]
      BY <2>2 DEF Synced
    <3>2. me' \in [Threads -> Work]
      BY <1>0, <3>1 DEF TypeOK, Work
    <3>3. pc' \in [Threads -> Steps]
      BY <2>2 DEF Synced, Goes, Steps, TypeOK
    <3> QED
      BY <2>2, <3>2, <3>3 DEF Synced, TypeOK
  <2>3. 0 \in 0 .. Size
    BY SizeAssumption
  <2>4. pos \in Positions /\ truth \in Snapshots
    BY DEF TypeOK
  <2>5. ASSUME Synced("keep", 0, "idle"), UNCHANGED <<pos, truth>>
        PROVE  TypeOK'
    BY <2>2, <2>3, <2>4, <2>5
  <2>6. ASSUME b > 0, pos' = [pos EXCEPT !.qty = b, !.missing = FALSE],
               Synced("keep", 0, "idle"), UNCHANGED truth
        PROVE  TypeOK'
    <3>0. b \in 0 .. Size
      BY <2>1, <2>6
    <3>1. pos' \in Positions
      BY <2>4, <2>6, <3>0 DEF Positions
    <3> QED
      BY <2>2, <2>3, <2>4, <2>6, <3>1
  <2>7. ASSUME Synced("keep", 0, "recheck"), UNCHANGED <<pos, truth>>
        PROVE  TypeOK'
    BY <2>2, <2>3, <2>4, <2>7
  <2>8. ASSUME truth' \in Snapshot(TRUE), Synced("drop", 0, "idle"), UNCHANGED pos
        PROVE  TypeOK'
    BY <2>2, <2>3, <2>4, <2>8, SnapshotType
  <2>9. ASSUME truth' \in Snapshot(TRUE), pos' = [pos EXCEPT !.missing = TRUE],
               Synced("keep", 0, "idle")
        PROVE  TypeOK'
    <3>1. pos' \in Positions
      BY <2>4, <2>9 DEF Positions
    <3> QED
      BY <2>2, <2>3, <2>9, <3>1, SnapshotType
  <2>10. ASSUME b > 0, Synced("inject", b, "idle"), UNCHANGED <<pos, truth>>
         PROVE  TypeOK'
    BY <2>1, <2>2, <2>4, <2>10
  <2> QED
    BY <1>3, <2>5, <2>6, <2>7, <2>8, <2>9, <2>10 DEF Sync
<1>4. CASE Assign
  <2>1. pos' \in Positions
    <3>1. [pos EXCEPT !.there = TRUE] \in Positions /\ [pos EXCEPT !.there = FALSE] \in Positions
      BY DEF TypeOK, Positions
    <3>2. Position(me["loop"].qty) \in Positions
      BY <1>0, SizeAssumption DEF Position, Positions, Work
    <3>3. me["loop"].list \in {"keep", "drop", "inject"}
      BY <1>0 DEF Work
    <3> QED
      BY <1>4, <3>1, <3>2, <3>3 DEF Assign
  <2>2. saved' \in Positions
    BY <1>4, <2>1 DEF Assign, TypeOK
  <2>3. lock' \in Threads \cup {None} /\ pc' \in [Threads -> Steps] /\ me' \in [Threads -> Work]
    <3>1. CASE me["loop"].then = "recheck"
      BY <1>4, <3>1 DEF Assign, Goes, Steps, TypeOK
    <3>2. CASE me["loop"].then # "recheck"
      BY <1>0, <1>4, <3>2, DoneType DEF Assign
    <3> QED
      BY <3>1, <3>2
  <2> QED
    BY <1>4, <2>1, <2>2, <2>3 DEF Assign, TypeOK
<1>5. CASE Protected
  <2>1. CASE HasPending
    BY <1>0, <1>5, <2>1, LookTypes DEF Protected
  <2>2. CASE ~HasPending
    BY <1>0, <1>5, <2>2, DoneType DEF Protected, TypeOK
  <2> QED
    BY <2>1, <2>2
<1> QED
  BY <1>1, <1>2, <1>3, <1>4, <1>5 DEF Loop

LEMMA CrashTypes ==
  ASSUME TypeOK, Crash
  PROVE  TypeOK'
<1>1. /\ \A b \in Balances : [saved EXCEPT !.qty = b] \in Positions
      /\ [saved EXCEPT !.there = FALSE] \in Positions
  BY DEF TypeOK, Positions, Balances, Snapshots
<1>2. pos' \in Positions
  BY <1>1 DEF Crash, TypeOK
<1>3. Nothing \in Work
  BY SizeAssumption DEF Nothing, Work, NoView, Views
<1>4. me' \in [Threads -> Work] /\ pc' \in [Threads -> Steps]
  BY <1>3 DEF Crash, Steps
<1>5. faults' \in 0 .. MaxFaults
  BY BoundsAssumption DEF Crash, TypeOK
<1> QED
  BY <1>2, <1>4, <1>5 DEF Crash, TypeOK, broker

\* Every variable of GenericExit.tla keeps to its values.
THEOREM TypeCorrect == Spec => []TypeOK
<1>1. Init => TypeOK
  <2> SUFFICES ASSUME Init PROVE TypeOK
    OBVIOUS
  <2> USE SizeAssumption, SellsAssumption, ThreadsAssumption, BoundsAssumption
  <2>1. Nothing \in Work
    BY DEF Nothing, Work, NoView, Views
  <2>2. order \in Orders
    BY DEF Init, Orders, NewOrder
  <2>3. Position(Size) \in Positions
    BY DEF Position, Positions
  <2>4. truth \in Snapshots
    BY <2>2 DEF Init, Snapshots
  <2>5. pc \in [Threads -> Steps] /\ me \in [Threads -> Work] /\ lock \in Threads \cup {None}
    BY <2>1 DEF Init, Steps
  <2>6. held \in 0 .. Size /\ hand \in 0 .. Size /\ booked \in 0 .. Size + 1
        /\ cancels \in 0 .. MaxCancels /\ faults \in 0 .. MaxFaults
    BY DEF Init
  <2>8. closedToday \in BOOLEAN
    BY DEF Init
  <2>7. pos \in Positions /\ saved \in Positions
    BY <2>3 DEF Init
  <2> QED
    BY <2>2, <2>4, <2>5, <2>6, <2>7, <2>8 DEF TypeOK
<1>2. TypeOK /\ [Next]_vars => TypeOK'
  <2> SUFFICES ASSUME TypeOK, [Next]_vars PROVE TypeOK'
    OBVIOUS
  <2>1. CASE UNCHANGED vars
    BY <2>1 DEF vars, broker, book, threads, bounds, TypeOK
  <2> QED
    BY <2>1, OutsideTypes, SellTypes, LoopTypes, CrashTypes DEF Next
<1> QED
  BY <1>1, <1>2, PTL DEF Spec

(***************************************************************************)
(* While orders are filled whole, a position leaves the list only when its *)
(* shares are sold.  ClosedIsSold alone is not inductive: whoever takes    *)
(* the position away does so for a fill, a balance or a list it was told   *)
(* of earlier.  What makes it so is that all the quantities the bot and    *)
(* its snapshots hold are at least the shares held, so that an order is    *)
(* for all of them, and its fill leaves none.                              *)
(***************************************************************************)

\* The thread works with a quantity for a sale, or for an injection.
Selling(t) ==
    \/ pc[t] \in {"check", "recheck", "review", "precheck", "place", "confirm"}
    \/ pc[t] = "reconcile" /\ me[t].then = "recheck"
    \/ pc[t] = "assign" /\ me[t].list = "inject"

ThreadCovers(t) ==
    /\ Selling(t) => me[t].qty >= held
    /\ me[t].view.ok => me[t].view.bal >= held /\ me[t].view.filled = 0
    /\ pc[t] = "confirm" => me[t].order \in Sells
    /\ pc[t] = "assign" => me[t].list # "drop"

OrdersCover ==
    \A o \in Sells : order[o].filled = 0 /\ (order[o].stage = "live" => order[o].qty >= held)

BooksCover == pos.there /\ saved.there /\ pos.qty >= held /\ saved.qty >= held

TruthCovers == truth.bal >= held /\ \A o \in Sells : truth.order[o].filled = 0

Cover == OrdersCover /\ BooksCover /\ TruthCovers /\ \A t \in Threads : ThreadCovers(t)

Covered == held > 0 => Cover

\* What the steps of a thread, other than t, leave as it was.
LEMMA OthersCover ==
  ASSUME NEW t \in Threads, \A u \in Threads : ThreadCovers(u), held' = held,
         pc \in [Threads -> Steps], me \in [Threads -> Work],
         NEW step, NEW work, pc' = [pc EXCEPT ![t] = step], me' = [me EXCEPT ![t] = work],
         ThreadCovers(t)'
  PROVE  (\A u \in Threads : ThreadCovers(u))'
<1> SUFFICES ASSUME NEW u \in Threads PROVE ThreadCovers(u)'
  OBVIOUS
<1>1. CASE u = t
  BY <1>1
<1>2. CASE u # t
  <2>1. pc'[u] = pc[u] /\ me'[u] = me[u]
    BY <1>2
  <2> QED
    BY <2>1 DEF ThreadCovers, Selling
<1> QED
  BY <1>1, <1>2

LEMMA DoneCovers ==
  ASSUME TypeOK, NEW t \in Threads, Done(t), \A u \in Threads : ThreadCovers(u), held' = held
  PROVE  (\A u \in Threads : ThreadCovers(u))'
<1>1. pc \in [Threads -> Steps] /\ me \in [Threads -> Work]
  BY DEF TypeOK
<1>2. pc' = [pc EXCEPT ![t] = "idle"] /\ me' = [me EXCEPT ![t] = Nothing]
  BY DEF Done
<1>3. pc'[t] = "idle" /\ me'[t].view.ok = FALSE
  BY <1>1, <1>2 DEF Nothing, NoView
<1>4. ThreadCovers(t)'
  BY <1>3 DEF ThreadCovers, Selling
<1> QED
  BY <1>1, <1>2, <1>4, OthersCover

\* A thread that goes on with what it has.
LEMMA GoesCovers ==
  ASSUME TypeOK, NEW t \in Threads, NEW step, Goes(t, step), UNCHANGED me,
         \A u \in Threads : ThreadCovers(u), held' = held,
         \/ step \in {"zero", "nothing held", "save", "protected"}
         \/ Selling(t) /\ step \in {"recheck", "review", "precheck", "place"}
  PROVE  (\A u \in Threads : ThreadCovers(u))'
<1>1. pc \in [Threads -> Steps] /\ me \in [Threads -> Work]
  BY DEF TypeOK
<1>2. pc' = [pc EXCEPT ![t] = step] /\ me' = [me EXCEPT ![t] = me[t]]
  BY <1>1 DEF Goes
<1>3. pc'[t] = step /\ me'[t] = me[t]
  BY <1>1, <1>2
<1>4. ThreadCovers(t)'
  BY <1>3 DEF ThreadCovers, Selling
<1> QED
  BY <1>1, <1>2, <1>4, OthersCover

LEMMA LookCovers ==
  ASSUME TypeOK, NEW t \in Threads, NEW force \in BOOLEAN, NEW s \in Snapshot(force),
         NEW then \in {"idle", "recheck"}, Look(t, s, then),
         held > 0, OrdersCover, TruthCovers, \A u \in Threads : ThreadCovers(u),
         then = "recheck" => Selling(t)
  PROVE  TruthCovers' /\ (\A u \in Threads : ThreadCovers(u))'
<1>1. s \in Snapshots /\ s.bal \in {held, truth.bal} /\ s.order \in {order, truth.order}
  BY SnapshotType
<1>2. held \in Nat /\ s.bal >= held /\ \A o \in Sells : s.order[o].filled = 0
  BY <1>1, SizeAssumption DEF OrdersCover, TruthCovers, TypeOK
<1> DEFINE view == [ok |-> s.ok, bal |-> s.bal, open |-> pos.sale \in OpenIn(s),
                    filled |-> IF pos.sale = None THEN 0 ELSE s.order[pos.sale].filled]
<1>3. view.bal >= held /\ view.filled = 0
  BY <1>2 DEF TypeOK, Positions
<1>4. me' = [me EXCEPT ![t].then = then, ![t].view = view] /\ held' = held /\ truth' = s
      /\ pc' = [pc EXCEPT ![t] = "reconcile"]
  BY DEF Look, Goes, broker
<1> HIDE DEF view
<1>5. pc \in [Threads -> Steps] /\ me \in [Threads -> Work]
  BY DEF TypeOK
<1>6. me' = [me EXCEPT ![t] = [me[t] EXCEPT !.then = then, !.view = view]]
  BY <1>4, <1>5
<1>7. pc'[t] = "reconcile" /\ me'[t].qty = me[t].qty /\ me'[t].then = then /\ me'[t].view = view
  BY <1>4, <1>5, <1>6 DEF Work
<1>8. ThreadCovers(t)'
  BY <1>3, <1>4, <1>7 DEF ThreadCovers, Selling
<1>9. TruthCovers'
  BY <1>2, <1>4 DEF TruthCovers
<1> QED
  BY <1>4, <1>5, <1>6, <1>8, <1>9, OthersCover

LEMMA OutsideCovers ==
  ASSUME ~Partly, TypeOK, held' > 0, held > 0, OrdersCover, BooksCover, TruthCovers,
         \A u \in Threads : ThreadCovers(u), Outside
  PROVE  OrdersCover' /\ BooksCover' /\ TruthCovers' /\ (\A u \in Threads : ThreadCovers(u))'
<1> USE DEF book, threads, bounds, broker
<1>0. held \in 0 .. Size /\ order \in Orders
  BY DEF TypeOK
<1>1. ASSUME NEW o \in Sells, Cancel(o)
      PROVE  OrdersCover' /\ BooksCover' /\ TruthCovers' /\ (\A u \in Threads : ThreadCovers(u))'
  <2>1. OrdersCover'
    BY <1>0, <1>1 DEF Cancel, OrdersCover, Orders
  <2>2. UNCHANGED <<held, pos, saved, truth, pc, me>>
    BY <1>1 DEF Cancel
  <2> QED
    BY <2>1, <2>2 DEF BooksCover, TruthCovers, ThreadCovers, Selling
<1>2. ASSUME NEW o \in Sells, NEW n \in 1 .. Size, Fill(o, n)
      PROVE  FALSE
  <2>1. order[o].filled = 0 /\ order[o].qty \in 0 .. Size
    BY <1>0 DEF OrdersCover, Orders
  <2>2. n = Left(o)
    BY <1>2 DEF Fill
  <2>3. order[o].stage = "live" /\ n = order[o].qty
    BY <1>2, <2>1, <2>2, SizeAssumption DEF Left, Live
  <2>4. n >= held
    BY <2>3 DEF OrdersCover
  <2> QED
    BY <1>0, <1>2, <2>4, SizeAssumption DEF Fill
<1>3. ASSUME NEW n \in 1 .. Size, UserSells(n)
      PROVE  OrdersCover' /\ BooksCover' /\ TruthCovers' /\ (\A u \in Threads : ThreadCovers(u))'
  <2>1. UNCHANGED <<order, pos, saved, truth, pc, me>> /\ held' \in Int /\ held' <= held
    BY <1>0, <1>3, SizeAssumption DEF UserSells
  <2>2. OrdersCover'
    BY <1>0, <2>1, SizeAssumption DEF OrdersCover, Orders
  <2>3. BooksCover'
    BY <1>0, <2>1, SizeAssumption DEF BooksCover, TypeOK, Positions
  <2>4. TruthCovers'
    BY <1>0, <2>1, SizeAssumption DEF TruthCovers, TypeOK, Snapshots
  <2>5. ASSUME NEW u \in Threads PROVE ThreadCovers(u)'
    <3>1. me[u].qty \in 0 .. Size /\ me[u].view.bal \in 0 .. Size
      BY DEF TypeOK, Work, Views
    <3>2. ThreadCovers(u)
      OBVIOUS
    <3> QED
      BY <1>0, <2>1, <3>1, <3>2, SizeAssumption DEF ThreadCovers, Selling
  <2> QED
    BY <2>2, <2>3, <2>4, <2>5
<1>4. CASE RefreshTruth
  <2>1. truth' \in Snapshot(TRUE)
    BY <1>4 DEF RefreshTruth, Snapshot
  <2>2. truth'.bal \in {held, truth.bal} /\ truth'.order \in {order, truth.order}
    BY <2>1, SnapshotType
  <2>3. UNCHANGED <<held, order, pos, saved, pc, me>>
    BY <1>4 DEF RefreshTruth
  <2>4. TruthCovers'
    BY <1>0, <2>2, <2>3, SizeAssumption DEF TruthCovers, OrdersCover
  <2> QED
    BY <2>3, <2>4 DEF OrdersCover, BooksCover, ThreadCovers, Selling
<1> QED
  BY <1>1, <1>2, <1>3, <1>4 DEF Outside

LEMMA SellCovers ==
  ASSUME TypeOK, held' > 0, held > 0, OrdersCover, BooksCover, TruthCovers,
         \A u \in Threads : ThreadCovers(u), NEW t \in Threads, Sell(t)
  PROVE  Cover'
<1> USE DEF book, bounds, broker
<1>0. /\ held \in 0 .. Size /\ order \in Orders /\ pos \in Positions /\ me[t] \in Work
      /\ pc \in [Threads -> Steps] /\ me \in [Threads -> Work]
      /\ ThreadCovers(t)
  BY DEF TypeOK
<1>1. ASSUME UNCHANGED <<held, order>> PROVE OrdersCover'
  BY <1>1 DEF OrdersCover
<1>2. ASSUME UNCHANGED <<held, pos, saved>> PROVE BooksCover'
  BY <1>2 DEF BooksCover
<1>3. ASSUME UNCHANGED <<held, truth>> PROVE TruthCovers'
  BY <1>3 DEF TruthCovers
<1>4. ASSUME UNCHANGED <<broker, book, truth>>, (\A u \in Threads : ThreadCovers(u))'
      PROVE  Cover'
  BY <1>1, <1>2, <1>3, <1>4 DEF Cover
<1>5. CASE StartExit(t)
  <2>1. pc' = [pc EXCEPT ![t] = "check"] /\ me' = [me EXCEPT ![t] = [me[t] EXCEPT !.qty = pos.qty]]
        /\ UNCHANGED <<broker, book, truth>>
    BY <1>0, <1>5 DEF StartExit, Goes
  <2>2. pc'[t] = "check" /\ me'[t].qty = pos.qty /\ me'[t].view = me[t].view
    BY <1>0, <2>1 DEF Work
  <2>3. ThreadCovers(t)'
    BY <1>0, <2>1, <2>2 DEF ThreadCovers, Selling, BooksCover
  <2> QED
    BY <1>0, <1>4, <2>1, <2>3, OthersCover
<1>6. CASE Halted(t) \/ ReviewHolds(t) \/ PrecheckFails(t)
  BY <1>4, <1>6, DoneCovers DEF Halted, ReviewHolds, PrecheckFails
<1>7. CASE CheckFree(t) \/ ReviewSells(t)
  <2>1. Selling(t)
    BY <1>7 DEF CheckFree, ReviewSells, Selling
  <2> QED
    BY <1>4, <1>7, <2>1, GoesCovers DEF CheckFree, ReviewSells
<1>8. CASE CheckPending(t)
  <2>1. PICK s \in Snapshot(TRUE) : Look(t, s, "recheck")
    BY <1>8 DEF CheckPending
  <2>2. Selling(t)
    BY <1>8 DEF CheckPending, Selling
  <2>3. TruthCovers' /\ (\A u \in Threads : ThreadCovers(u))'
    BY <2>1, <2>2, LookCovers
  <2>4. UNCHANGED <<broker, book>>
    BY <2>1 DEF Look
  <2> QED
    BY <1>1, <1>2, <2>3, <2>4 DEF Cover
<1>9. ASSUME NEW n \in -1 .. Size, Reconcile(t, n)
      PROVE  Cover'
  <2>1. me[t].view \in Views /\ n <= 0
    BY <1>0, <1>9, SizeAssumption DEF Reconcile, Work, OrdersCover, Positions
  <2>2. FilledBy(me[t].view, n) \in Nat /\ ~(FilledBy(me[t].view, n) > 0)
    BY <1>0, <2>1, FilledByType DEF ThreadCovers
  <2>3. ~(me[t].view.ok /\ me[t].view.bal = 0)
    BY <1>0 DEF ThreadCovers
  <2>4. Settle(me[t].view, FilledBy(me[t].view, n))
    BY <1>9 DEF Reconcile
  <2>5. pos' = pos \/ pos' = [pos EXCEPT !.pending = FALSE]
    BY <2>1, <2>2, <2>3, <2>4 DEF Settle, Keep, Views
  <2>6. pos'.there = pos.there /\ pos'.qty = pos.qty
    BY <1>0, <2>5 DEF Positions
  <2>7. UNCHANGED <<broker, truth>> /\ saved' = pos'
    BY <1>9, <2>6 DEF Reconcile, BooksCover
  <2>8. BooksCover'
    BY <2>6, <2>7 DEF BooksCover
  <2>9. (\A u \in Threads : ThreadCovers(u))'
    <3>1. CASE me[t].then = "recheck"
      <4>1. pc' = [pc EXCEPT ![t] = "recheck"] /\ me' = [me EXCEPT ![t] = [me[t] EXCEPT !.view = NoView]]
        BY <1>0, <1>9, <3>1 DEF Reconcile, Goes
      <4>2. pc'[t] = "recheck" /\ me'[t].qty = me[t].qty /\ me'[t].view.ok = FALSE
        BY <1>0, <4>1 DEF Work, NoView
      <4>3. me[t].qty >= held
        BY <1>0, <1>9, <3>1 DEF Reconcile, ThreadCovers, Selling
      <4>4. ThreadCovers(t)'
        BY <2>7, <4>2, <4>3 DEF ThreadCovers, Selling
      <4> QED
        BY <1>0, <2>7, <4>1, <4>4, OthersCover
    <3>2. CASE me[t].then # "recheck"
      BY <1>9, <2>7, <3>2, DoneCovers DEF Reconcile
    <3> QED
      BY <3>1, <3>2
  <2> QED
    BY <1>1, <1>3, <2>7, <2>8, <2>9 DEF Cover
<1>10. CASE Recheck(t)
  <2>1. CASE HasPending
    BY <1>4, <1>10, <2>1, DoneCovers DEF Recheck
  <2>2. CASE ~HasPending
    <3>1. Selling(t)
      BY <1>10 DEF Recheck, Selling
    <3> QED
      BY <1>4, <1>10, <2>2, <3>1, GoesCovers DEF Recheck
  <2> QED
    BY <2>1, <2>2
<1>11. ASSUME NEW b \in Balances
       PROVE  b # 0
  BY <1>0, <1>11, SizeAssumption DEF Balances, TruthCovers, TypeOK, Snapshots
<1>12. ASSUME NEW b \in Balances, Precheck(t, b)
       PROVE  Cover'
  <2>1. Selling(t)
    BY <1>12 DEF Precheck, Selling
  <2> QED
    BY <1>4, <1>12, <2>1, GoesCovers DEF Precheck
<1>13. ASSUME NEW b \in Balances, NothingHeld(t, b)
       PROVE  Cover'
  BY <1>4, <1>11, <1>13, DoneCovers DEF NothingHeld
<1>14. ASSUME NEW s \in Snapshot(TRUE), Zero(t, s)
       PROVE  Cover'
  <2>1. s.bal \in {held, truth.bal} /\ s.order \in {order, truth.order}
    BY SnapshotType
  <2>2. ~ZeroHolding(s)
    BY <1>0, <1>11, <2>1 DEF ZeroHolding, Balances
  <2>3. UNCHANGED <<broker, book>> /\ truth' = s /\ Done(t)
    BY <1>14, <2>2 DEF Zero
  <2>4. TruthCovers'
    BY <1>0, <2>1, <2>3, SizeAssumption DEF TruthCovers, OrdersCover
  <2>5. (\A u \in Threads : ThreadCovers(u))'
    BY <2>3, DoneCovers
  <2> QED
    BY <1>1, <1>2, <2>3, <2>4, <2>5 DEF Cover
<1>15. ASSUME NEW o \in Sells, Accepted(o, me[t].qty), pc[t] = "place", UNCHANGED held
       PROVE  OrdersCover'
  <2>1. me[t].qty >= held
    BY <1>0, <1>15 DEF ThreadCovers, Selling
  <2> QED
    BY <1>0, <1>15, <2>1 DEF Accepted, OrdersCover, Orders
<1>16. ASSUME NEW o \in Sells, PlaceAccepted(t, o)
       PROVE  Cover'
  <2>1. UNCHANGED <<held, hand, book, truth>> /\ OrdersCover'
    BY <1>15, <1>16 DEF PlaceAccepted
  <2>2. pc' = [pc EXCEPT ![t] = "confirm"] /\ me' = [me EXCEPT ![t] = [me[t] EXCEPT !.order = o]]
    BY <1>0, <1>16 DEF PlaceAccepted, Goes
  <2>3. pc'[t] = "confirm" /\ me'[t].qty = me[t].qty /\ me'[t].view = me[t].view /\ me'[t].order = o
    BY <1>0, <2>2 DEF Work
  <2>4. me[t].qty >= held
    BY <1>0, <1>16 DEF PlaceAccepted, ThreadCovers, Selling
  <2>5. ThreadCovers(t)'
    BY <1>0, <2>1, <2>3, <2>4 DEF ThreadCovers, Selling
  <2> QED
    BY <1>0, <1>2, <1>3, <2>1, <2>2, <2>5, OthersCover DEF Cover
<1>17. CASE PlaceLost(t)
  <2>1. UNCHANGED <<held, hand, book, truth>> /\ Done(t)
    BY <1>17 DEF PlaceLost
  <2>2. OrdersCover'
    BY <1>1, <1>15, <1>17 DEF PlaceLost
  <2> QED
    BY <1>2, <1>3, <2>1, <2>2, DoneCovers DEF Cover
<1>18. CASE PlaceRejected(t)
  BY <1>4, <1>18, DoneCovers, GoesCovers DEF PlaceRejected
<1>19. CASE Confirmed(t)
  <2>1. order[me[t].order].filled = 0 /\ me[t].qty >= held
    BY <1>0, <1>19 DEF Confirmed, OrdersCover, ThreadCovers, Selling
  <2> QED
    BY <1>0, <1>19, <2>1, SizeAssumption DEF Confirmed, Work
<1>20. CASE SaveSold(t)
  <2>1. UNCHANGED <<broker, pos, truth>> /\ saved' = pos /\ Done(t)
    BY <1>20 DEF SaveSold
  <2>2. BooksCover'
    BY <2>1 DEF BooksCover
  <2> QED
    BY <1>1, <1>3, <2>1, <2>2, DoneCovers DEF Cover
<1>21. CASE Unconfirmed(t)
  <2>1. UNCHANGED <<broker, truth>> /\ saved' = pos' /\ Done(t)
    BY <1>21 DEF Unconfirmed
  <2>2. pos'.there = pos.there /\ pos'.qty = pos.qty
    BY <1>0, <1>21 DEF Unconfirmed, Positions
  <2>3. BooksCover'
    BY <2>1, <2>2 DEF BooksCover
  <2> QED
    BY <1>1, <1>3, <2>1, <2>3, DoneCovers DEF Cover
<1> QED
  BY <1>5, <1>6, <1>7, <1>8, <1>9, <1>10, <1>12, <1>13, <1>14, <1>16, <1>17, <1>18, <1>19,
     <1>20, <1>21 DEF Sell

LEMMA LoopCovers ==
  ASSUME TypeOK, held' > 0, held > 0, OrdersCover, BooksCover, TruthCovers,
         \A u \in Threads : ThreadCovers(u), Loop
  PROVE  Cover'
<1> USE DEF book, bounds, broker
<1>0. /\ "loop" \in Threads /\ held \in 0 .. Size /\ pos \in Positions /\ saved \in Positions
      /\ me["loop"] \in Work /\ pc \in [Threads -> Steps] /\ me \in [Threads -> Work]
      /\ ThreadCovers("loop")
  BY ThreadsAssumption DEF TypeOK
<1>1. ASSUME UNCHANGED <<held, order>> PROVE OrdersCover'
  BY <1>1 DEF OrdersCover
<1>2. ASSUME UNCHANGED <<held, pos, saved>> PROVE BooksCover'
  BY <1>2 DEF BooksCover
<1>3. ASSUME UNCHANGED <<held, truth>> PROVE TruthCovers'
  BY <1>3 DEF TruthCovers
<1>4. ASSUME NEW force \in BOOLEAN, NEW s \in Snapshot(force), Look("loop", s, "idle")
      PROVE  Cover'
  <2>1. TruthCovers' /\ (\A u \in Threads : ThreadCovers(u))'
    BY <1>0, <1>4, LookCovers
  <2>2. UNCHANGED <<broker, book>>
    BY <1>4 DEF Look
  <2> QED
    BY <1>1, <1>2, <2>1, <2>2 DEF Cover
<1>5. ASSUME NEW force \in BOOLEAN, Cycle(force)
      PROVE  Cover'
  BY <1>4, <1>5 DEF Cycle
<1>6. CASE StartOutside
  <2>1. /\ pc' = [pc EXCEPT !["loop"] = "check"]
        /\ me' = [me EXCEPT !["loop"] = [me["loop"] EXCEPT !.qty = pos.qty]]
        /\ UNCHANGED <<broker, book, truth>>
    BY <1>0, <1>6 DEF StartOutside, Goes
  <2>2. pc'["loop"] = "check" /\ me'["loop"].qty = pos.qty /\ me'["loop"].view = me["loop"].view
    BY <1>0, <2>1 DEF Work
  <2>3. ThreadCovers("loop")'
    BY <1>0, <2>1, <2>2 DEF ThreadCovers, Selling, BooksCover
  <2>4. (\A u \in Threads : ThreadCovers(u))'
    BY <1>0, <2>1, <2>3, OthersCover
  <2> QED
    BY <1>1, <1>2, <1>3, <2>1, <2>4 DEF Cover
<1>7. ASSUME NEW b \in Balances \cup {-1}, NEW others \in BOOLEAN, Sync(b, others)
      PROVE  Cover'
  <2>1. b >= held \/ b = -1
    BY <1>0, <1>7, SizeAssumption DEF Balances, TruthCovers, TypeOK, Snapshots
  <2>2. ASSUME NEW n, NEW then, Synced("keep", n, then)
        PROVE  (\A u \in Threads : ThreadCovers(u))'
    <3> DEFINE work == [me["loop"] EXCEPT !.list = "keep", !.qty = n, !.then = then]
    <3>1. pc' = [pc EXCEPT !["loop"] = "assign"] /\ me' = [me EXCEPT !["loop"] = work] /\ held' = held
      BY <1>0, <2>2 DEF Synced, Goes
    <3>2. pc'["loop"] = "assign" /\ me'["loop"].list = "keep" /\ me'["loop"].view = me["loop"].view
      BY <1>0, <3>1 DEF Work
    <3>3. ThreadCovers("loop")'
      BY <1>0, <3>1, <3>2 DEF ThreadCovers, Selling
    <3> HIDE DEF work
    <3> QED
      BY <1>0, <3>1, <3>3, OthersCover
  <2>3. ASSUME Synced("keep", 0, "idle") \/ Synced("keep", 0, "recheck"),
               pos'.there, pos'.qty >= held, TruthCovers'
        PROVE  Cover'
    <3>1. (\A u \in Threads : ThreadCovers(u))' /\ UNCHANGED <<broker, saved>>
      BY <2>2, <2>3 DEF Synced
    <3>2. BooksCover'
      BY <2>3, <3>1 DEF BooksCover
    <3> QED
      BY <1>1, <2>3, <3>1, <3>2 DEF Cover
  <2>4. pos.there /\ pos.qty >= held
    BY DEF BooksCover
  <2>5. ASSUME Synced("keep", 0, "idle") \/ Synced("keep", 0, "recheck"),
               UNCHANGED <<pos, truth>>
        PROVE  Cover'
    <3>1. TruthCovers'
      BY <1>3, <2>5 DEF Synced
    <3> QED
      BY <2>3, <2>4, <2>5, <3>1
  <2>6. ASSUME b > 0, pos' = [pos EXCEPT !.qty = b, !.missing = FALSE],
               Synced("keep", 0, "idle"), UNCHANGED truth
        PROVE  Cover'
    <3>1. pos'.there /\ pos'.qty >= held
      BY <1>0, <2>1, <2>4, <2>6 DEF Positions
    <3>2. TruthCovers'
      BY <1>3, <2>6 DEF Synced
    <3> QED
      BY <2>3, <2>6, <3>1, <3>2
  <2>7. b # 0
    BY <1>0, <2>1
  <2> QED
    BY <1>7, <2>4, <2>5, <2>6, <2>7 DEF Sync
<1>8. CASE Assign
  <2>1. UNCHANGED <<broker, truth>> /\ saved' \in {saved, pos'}
    BY <1>8 DEF Assign
  <2>2. me["loop"].list \in {"keep", "inject"}
    BY <1>0, <1>8 DEF Assign, ThreadCovers, Work
  <2>3. pos'.there /\ pos'.qty >= held
    <3>1. CASE me["loop"].list = "keep"
      <4>1. pos' = [pos EXCEPT !.there = TRUE]
        BY <1>8, <3>1 DEF Assign
      <4> QED
        BY <1>0, <4>1 DEF BooksCover, Positions
    <3>2. CASE me["loop"].list = "inject"
      <4>1. pos' = Position(me["loop"].qty)
        BY <1>8, <3>2 DEF Assign
      <4>2. me["loop"].qty >= held
        BY <1>0, <1>8, <3>2 DEF Assign, ThreadCovers, Selling
      <4> QED
        BY <4>1, <4>2 DEF Position
    <3> QED
      BY <2>2, <3>1, <3>2
  <2>4. BooksCover'
    BY <2>1, <2>3 DEF BooksCover
  <2>5. (\A u \in Threads : ThreadCovers(u))'
    <3>1. CASE me["loop"].then = "recheck"
      BY <1>0, <1>8, <2>1, <3>1, GoesCovers DEF Assign
    <3>2. CASE me["loop"].then # "recheck"
      BY <1>0, <1>8, <2>1, <3>2, DoneCovers DEF Assign
    <3> QED
      BY <3>1, <3>2
  <2> QED
    BY <1>1, <1>3, <2>1, <2>4, <2>5 DEF Cover
<1>9. CASE Protected
  <2>1. CASE HasPending
    BY <1>4, <1>9, <2>1 DEF Protected
  <2>2. CASE ~HasPending
    <3>1. UNCHANGED <<broker, book, truth>> /\ Done("loop")
      BY <1>9, <2>2 DEF Protected
    <3> QED
      BY <1>0, <1>1, <1>2, <1>3, <3>1, DoneCovers DEF Cover
  <2> QED
    BY <2>1, <2>2
<1> QED
  BY <1>5, <1>6, <1>7, <1>8, <1>9 DEF Loop

LEMMA CrashCovers ==
  ASSUME TypeOK, held > 0, OrdersCover, BooksCover, TruthCovers, Crash
  PROVE  Cover'
<1>1. held \in 0 .. Size /\ saved \in Positions
  BY DEF TypeOK
<1>2. UNCHANGED <<held, order, saved, truth>>
  BY DEF Crash, broker
<1>3. \/ pos' = saved
      \/ \E b \in Balances : b > 0 /\ pos' = [saved EXCEPT !.qty = b]
  <2>1. \A b \in Balances : b > 0
    BY <1>1 DEF Balances, TruthCovers, TypeOK, Snapshots
  <2> QED BY <2>1 DEF Crash, BooksCover
<1>4. BooksCover'
  <2>1. \A b \in Balances : b >= held
    BY <1>1 DEF Balances, TruthCovers
  <2> QED BY <1>1, <1>2, <1>3, <2>1 DEF BooksCover, Positions
<1>5. ASSUME NEW u \in Threads PROVE ThreadCovers(u)'
  <2>1. pc'[u] = "idle" /\ me'[u].view.ok = FALSE
    BY DEF Crash, Nothing, NoView
  <2> QED
    BY <2>1 DEF ThreadCovers, Selling
<1> QED
  BY <1>2, <1>4, <1>5 DEF Cover, OrdersCover, TruthCovers

LEMMA CoveredInductive ==
  ASSUME ~Partly
  PROVE  /\ Init => Covered
         /\ TypeOK /\ TypeOK' /\ Covered /\ [Next]_vars => Covered'
         /\ TypeOK /\ Covered => ClosedIsSold
<1>1. Init => Covered
  <2> SUFFICES ASSUME Init, held > 0 PROVE Cover
    BY DEF Covered
  <2>1. OrdersCover /\ BooksCover /\ TruthCovers
    BY SizeAssumption DEF Init, OrdersCover, BooksCover, TruthCovers, NewOrder, Position
  <2>2. ASSUME NEW u \in Threads PROVE ThreadCovers(u)
    <3>1. pc[u] = "idle" /\ me[u].view.ok = FALSE
      BY DEF Init, Nothing, NoView
    <3> QED
      BY <3>1 DEF ThreadCovers, Selling
  <2> QED
    BY <2>1, <2>2 DEF Cover
<1>2. TypeOK /\ TypeOK' /\ Covered /\ [Next]_vars => Covered'
  <2> SUFFICES ASSUME TypeOK, TypeOK', Covered, [Next]_vars, held' > 0 PROVE Cover'
    BY DEF Covered
  <2>1. held' <= held
    <3>1. held \in Int /\ held' \in Int
      BY SizeAssumption DEF TypeOK
    <3>2. ASSUME NEW o \in Sells, NEW n \in 1 .. Size, Fill(o, n) PROVE held' <= held
      BY <3>1, <3>2, SizeAssumption DEF Fill
    <3>3. ASSUME NEW n \in 1 .. Size, UserSells(n) PROVE held' <= held
      BY <3>1, <3>3, SizeAssumption DEF UserSells
    <3>4. ASSUME Outside PROVE held' <= held
      BY <3>1, <3>2, <3>3, <3>4 DEF Outside, Cancel, RefreshTruth, broker
    <3>5. ASSUME NEW t \in Threads, Sell(t) PROVE held' = held
      BY <3>5 DEF Sell, StartExit, Halted, CheckFree, CheckPending, Look, Reconcile, Recheck,
                  ReviewHolds, ReviewSells, Precheck, NothingHeld, PrecheckFails, Zero,
                  PlaceAccepted, PlaceLost, PlaceRejected, Confirmed, SaveSold, Unconfirmed, broker
    <3>6. ASSUME Loop PROVE held' = held
      BY <3>6 DEF Loop, Cycle, Look, StartOutside, Sync, Synced, Assign, Protected, broker
    <3>7. ASSUME Crash PROVE held' = held
      BY <3>7 DEF Crash, broker
    <3> QED
      BY <3>1, <3>4, <3>5, <3>6, <3>7 DEF Next, vars, broker
  <2>2. held > 0
    BY <2>1, SizeAssumption DEF TypeOK
  <2>3. OrdersCover /\ BooksCover /\ TruthCovers /\ \A t \in Threads : ThreadCovers(t)
    BY <2>2 DEF Covered, Cover
  <2>4. CASE UNCHANGED vars
    BY <2>3, <2>4 DEF vars, broker, book, threads, bounds, Cover, OrdersCover, BooksCover,
                      TruthCovers, ThreadCovers, Selling
  <2>5. CASE Outside
    BY <2>2, <2>3, <2>5, OutsideCovers DEF Cover
  <2>6. CASE \E t \in Threads : Sell(t)
    BY <2>2, <2>3, <2>6, SellCovers
  <2>7. CASE Loop
    BY <2>2, <2>3, <2>7, LoopCovers
  <2>8. CASE Crash
    BY <2>2, <2>3, <2>8, CrashCovers
  <2> QED
    BY <2>4, <2>5, <2>6, <2>7, <2>8 DEF Next
<1>3. TypeOK /\ Covered => ClosedIsSold
  BY SizeAssumption DEF TypeOK, Covered, Cover, BooksCover, ClosedIsSold
<1> QED
  BY <1>1, <1>2, <1>3

\* Where orders are filled whole, no position leaves the bot's list while the broker holds a
\* share of it: whatever the threads, the orders, the sales by hand and the crashes.
THEOREM WholeFillsCloseSold ==
  ASSUME ~Partly
  PROVE  Spec => []ClosedIsSold
<1>1. Spec => []TypeOK
  BY TypeCorrect
<1> QED
  BY <1>1, CoveredInductive, PTL DEF Spec

(***************************************************************************)
(* What is booked is what was sold, with one thread, while orders are      *)
(* filled whole and the user sells nothing.  Then every quantity anywhere  *)
(* is that of the whole position, so that a fill is settled at once, and   *)
(* the step that books it leaves nothing from which it could be booked     *)
(* again: no pending sale, in memory or in the file, no order to confirm,  *)
(* and no order to come, for the broker has no shares for it.              *)
(***************************************************************************)
Quantities ==
    /\ held > 0 => held = Size
    /\ pos.qty = Size /\ saved.qty = Size
    /\ pos.asked \in {0, Size} /\ saved.asked \in {0, Size}
    /\ truth.bal \in {0, Size}
    /\ \A o \in Sells : /\ order[o].filled \in {0, Size} /\ order[o].filled <= order[o].qty
                        /\ truth.order[o].filled \in {0, Size}

\* What the loop works with is still so: nobody else touches the position.
LoopKnows ==
    LET l == me["loop"]
    IN  /\ Selling("loop") => l.qty = Size
        /\ l.view.filled \in {0, Size}
        /\ pc["loop"] = "confirm" => l.order \in Sells
        /\ pc["loop"] = "reconcile" => HasPending
        /\ pc["loop"] \in {"review", "precheck", "place", "confirm"} => ~HasPending
        /\ pc["loop"] = "assign" /\ l.list = "keep" => pos.there
        /\ pc["loop"] = "assign" /\ l.list = "inject" => ~pos.there

SavedPending == saved.there /\ saved.pending

BookedOnce ==
    /\ held > 0 \/ pc["loop"] = "confirm" => (SavedPending => HasPending)
    /\ booked # 0 => /\ booked = Size /\ held = 0
                     /\ pc["loop"] # "confirm" /\ ~HasPending /\ ~SavedPending

Books == Quantities /\ LoopKnows /\ BookedOnce

\* What the broker can still sell is at most what it holds.
LEMMA AvailableIsHeld ==
  ASSUME TypeOK, \A o \in Sells : order[o].filled <= order[o].qty
  PROVE  Available \in Int /\ Available <= held
<1> DEFINE F == [o \in Sells |-> Left(o)]
           Sums(iter) == [S \in SUBSET Sells |->
                             IF S = {} THEN 0
                             ELSE Left(Pick(S)) + iter[S \ {Pick(S)}]]
           it == CHOOSE iter : iter = Sums(iter)
<1>1. IsFiniteSet(Sells)
  BY SellsAssumption, FS_Interval DEF Sells
<1>2. ASSUME NEW o \in Sells PROVE Left(o) \in Nat
  <2>1. order[o].qty \in Nat /\ order[o].filled \in Nat /\ order[o].filled <= order[o].qty
    BY SizeAssumption DEF TypeOK, Orders
  <2> QED BY <2>1 DEF Left
<1>3. F \in [Sells -> Nat]
  BY <1>2
<1>4. Available = held - it[Sells]
  BY DEF Available, MapThenSumSet, MapThenFoldSet, Pick
<1>5. ASSUME NEW iter PROVE Sums(iter) = [S \in SUBSET Sells |-> Adding(iter, F, S)]
  <2>1. ASSUME NEW S \in SUBSET Sells, S # {} PROVE F[Pick(S)] = Left(Pick(S))
    BY <2>1, PickIsIn
  <2> QED BY <2>1 DEF Adding
<1>6. IsSum(it, F, Sells)
  <2>1. PICK jt : IsSum(jt, F, Sells)
    BY <1>1, SumExists
  <2>2. jt = Sums(jt)
    BY <1>5, <2>1 DEF IsSum
  <2> HIDE DEF Sums
  <2>3. it = Sums(it)
    BY <2>2
  <2> QED BY <1>5, <2>3 DEF IsSum
<1> HIDE DEF it, F
<1>7. it[Sells] \in Nat
  BY <1>1, <1>3, <1>6, SumIsNat
<1>8. held \in Nat
  BY SizeAssumption DEF TypeOK
<1> QED BY <1>4, <1>7, <1>8

(***************************************************************************)
(* Every step keeps it.                                                    *)
(***************************************************************************)
OneLoop == TypeOK /\ TypeOK' /\ Covered /\ Threads = {"loop"} /\ hand = 0 /\ hand' = 0

LEMMA BooksDone ==
  ASSUME OneLoop, Done("loop")
  PROVE  LoopKnows' /\ pc'["loop"] = "idle"
<1>1. pc'["loop"] = "idle" /\ me'["loop"] = Nothing
  BY ThreadsAssumption DEF OneLoop, TypeOK, Done
<1> QED BY <1>1 DEF LoopKnows, Selling, Nothing, NoView

LEMMA BooksUnbooked ==
  ASSUME BookedOnce, UNCHANGED <<held, pos, saved, booked>>, pc'["loop"] # "confirm"
  PROVE  BookedOnce'
BY DEF BookedOnce, HasPending, SavedPending

LEMMA BooksOutside ==
  ASSUME ~Partly, OneLoop, Books, Outside
  PROVE  Books'
<1> USE DEF OneLoop, Books
<1>0. /\ held \in 0 .. Size /\ order \in Orders /\ Size \in Nat \ {0} /\ booked \in 0 .. Size + 1
  BY SizeAssumption DEF TypeOK
<1>1. ASSUME UNCHANGED <<pos, pc, me>> PROVE LoopKnows'
  BY <1>1 DEF LoopKnows, Selling, HasPending
<1>2. ASSUME NEW o \in Sells, Cancel(o) PROVE Books'
  <2>1. UNCHANGED <<held, pos, saved, booked, truth, pc, me>>
    BY <1>2 DEF Cancel, book, threads
  <2>2. \A p \in Sells : order'[p].filled = order[p].filled /\ order'[p].qty = order[p].qty
    BY <1>0, <1>2 DEF Cancel, Orders
  <2>3. Quantities'
    BY <2>1, <2>2 DEF Quantities
  <2>4. BookedOnce'
    BY <2>1 DEF BookedOnce, HasPending, SavedPending
  <2> QED BY <1>1, <2>1, <2>3, <2>4
<1>3. ASSUME NEW o \in Sells, NEW n \in 1 .. Size, Fill(o, n) PROVE Books'
  <2>1. UNCHANGED <<pos, saved, booked, truth, pc, me>>
    BY <1>3 DEF Fill, book, threads
  <2>2. held > 0 /\ n = Left(o) /\ n <= held /\ held' = held - n
    BY <1>0, <1>3 DEF Fill
  <2>3. order[o].filled = 0 /\ order[o].stage = "live" /\ n = order[o].qty /\ n >= held
    <3>1. OrdersCover
      BY <2>2 DEF Covered, Cover
    <3>2. order[o].filled = 0 /\ order[o].qty \in 0 .. Size
      BY <1>0, <3>1 DEF OrdersCover, Orders
    <3>3. order[o].stage = "live" /\ n = order[o].qty
      BY <1>0, <2>2, <3>2 DEF Left, Live
    <3> QED BY <3>1, <3>2, <3>3 DEF OrdersCover
  <2>4. held' = 0 /\ n = Size /\ held = Size
    BY <1>0, <2>2, <2>3 DEF Quantities
  <2>5. \A p \in Sells : \/ order'[p] = order[p]
                         \/ order'[p].filled = Size /\ order'[p].qty = Size
    <3>1. order' = [order EXCEPT ![o].filled = @ + n, ![o].stage = IF n = Left(o) THEN "dead" ELSE "live"]
      BY <1>3 DEF Fill
    <3>2. order[o] \in [stage : {"new", "live", "dead"}, qty : 0 .. Size, filled : 0 .. Size]
          /\ order[o].qty = Size /\ order[o].filled + n = Size
      BY <1>0, <2>3, <2>4 DEF Orders
    <3>3. \A p \in Sells \ {o} : order'[p] = order[p]
      BY <1>0, <3>1 DEF Orders
    <3>4. order'[o].filled = order[o].filled + n /\ order'[o].qty = order[o].qty
      BY <1>0, <3>1, <3>2 DEF Orders
    <3> QED BY <3>2, <3>3, <3>4
  <2>6. Quantities'
    BY <1>0, <2>1, <2>4, <2>5 DEF Quantities
  <2>7. BookedOnce'
    BY <1>0, <2>1, <2>4 DEF BookedOnce, HasPending, SavedPending
  <2> QED BY <1>1, <2>1, <2>6, <2>7
<1>4. ASSUME NEW n \in 1 .. Size, UserSells(n) PROVE Books'
  <2>1. hand' = hand + n
    BY <1>4 DEF UserSells
  <2> QED BY <1>0, <2>1
<1>5. CASE RefreshTruth
  <2>1. truth' \in Snapshot(TRUE)
    BY <1>5 DEF RefreshTruth, Snapshot
  <2>2. truth'.bal \in {held, truth.bal} /\ truth'.order \in {order, truth.order}
    BY <2>1, SnapshotType
  <2>3. UNCHANGED <<held, order, pos, saved, booked, pc, me>>
    BY <1>5 DEF RefreshTruth, broker, book, threads
  <2>4. Quantities'
    BY <1>0, <2>2, <2>3 DEF Quantities
  <2>5. BookedOnce'
    BY <2>3 DEF BookedOnce, HasPending, SavedPending
  <2> QED BY <1>1, <2>3, <2>4, <2>5
<1> QED
  BY <1>2, <1>3, <1>4, <1>5 DEF Outside

LEMMA BooksLook ==
  ASSUME OneLoop, Books, NEW force \in BOOLEAN, NEW s \in Snapshot(force),
         NEW then \in {"idle", "recheck"}, Look("loop", s, then), HasPending,
         then = "recheck" => Selling("loop")
  PROVE  Books'
<1> USE DEF OneLoop, Books
<1>0. /\ held \in 0 .. Size /\ Size \in Nat \ {0} /\ "loop" \in Threads /\ pos \in Positions
      /\ pc \in [Threads -> Steps] /\ me \in [Threads -> Work]
  BY SizeAssumption DEF TypeOK
<1>1. s.bal \in {held, truth.bal} /\ s.order \in {order, truth.order}
  BY SnapshotType
<1> DEFINE view == [ok |-> s.ok, bal |-> s.bal, open |-> pos.sale \in OpenIn(s),
                    filled |-> IF pos.sale = None THEN 0 ELSE s.order[pos.sale].filled]
<1>2. view.filled \in {0, Size}
  BY <1>0, <1>1 DEF Quantities, Positions
<1>3. /\ me' = [me EXCEPT !["loop"].then = then, !["loop"].view = view]
      /\ pc' = [pc EXCEPT !["loop"] = "reconcile"] /\ truth' = s
      /\ UNCHANGED <<held, order, pos, saved, booked>>
  BY DEF Look, Goes, broker, book
<1> HIDE DEF view
<1>4. pc'["loop"] = "reconcile" /\ me'["loop"].qty = me["loop"].qty /\ me'["loop"].view = view
      /\ me'["loop"].then = then
  BY <1>0, <1>3 DEF Work
<1>5. LoopKnows'
  BY <1>2, <1>3, <1>4 DEF LoopKnows, Selling, HasPending
<1>6. Quantities'
  BY <1>0, <1>1, <1>3 DEF Quantities
<1>7. BookedOnce'
  BY <1>3, <1>4, BooksUnbooked
<1> QED BY <1>5, <1>6, <1>7

\* What a reconciliation makes of a position that is pending: nothing, or all of it is sold.
LEMMA BooksSettle ==
  ASSUME OneLoop, Books, HasPending, NEW v \in Views, v.filled \in {0, Size},
         held > 0 /\ v.ok => v.filled = 0 /\ v.bal # 0,
         NEW asked \in -1 .. Size, asked \in {-1, 0, Size}, held > 0 => asked <= 0,
         Settle(v, FilledBy(v, asked))
  PROVE  \/ UNCHANGED <<pos, booked>>
         \/ pos' = [pos EXCEPT !.pending = FALSE] /\ booked' = booked
         \/ pos' = [pos EXCEPT !.there = FALSE] /\ booked' = Size /\ held = 0
<1> USE DEF OneLoop, Books
<1>0. /\ held \in 0 .. Size /\ Size \in Nat \ {0} /\ pos \in Positions /\ pos.there
      /\ pos.qty = Size /\ pos.asked \in {0, Size} /\ booked = 0
  BY SizeAssumption DEF TypeOK, Quantities, BookedOnce, HasPending
<1> DEFINE n == FilledBy(v, asked)
<1>1. n \in Nat /\ (n > 0 => n >= Size /\ held = 0)
  <2>1. Max({0, asked}) = IF 0 >= asked THEN 0 ELSE asked
    BY <1>0, MaxOfTwo
  <2>2. n = (IF 0 >= asked THEN 0 ELSE asked) + (IF v.ok THEN v.filled ELSE 0)
    BY <2>1 DEF FilledBy
  <2> HIDE DEF n
  <2> QED BY <1>0, <2>2
<1> HIDE DEF n
<1>2. Settle(v, n)
  BY DEF n
<1>3. ASSUME CloseAll, held = 0
      PROVE  pos' = [pos EXCEPT !.there = FALSE] /\ booked' = Size /\ held = 0
  <2>1. Booked(Size) = Size
    BY <1>0, MinOfTwo DEF Booked
  <2> QED BY <1>0, <1>3, <2>1 DEF CloseAll
<1>4. CASE n > 0
  <2> DEFINE c == Min({n, pos.qty} \cup (IF pos.asked > 0 THEN {pos.asked} ELSE {}))
  <2>1. c >= pos.qty
    <3>1. CASE pos.asked > 0
      <4>1. c = Min({n, pos.qty} \cup {pos.asked})
        BY <3>1
      <4>2. n \in Int /\ pos.qty \in Int /\ pos.asked \in Int
        BY <1>0, <1>1
      <4>3. c \in {n, pos.qty, pos.asked}
        BY <4>1, <4>2, MinOfThree
      <4> QED BY <1>0, <1>1, <1>4, <3>1, <4>3
    <3>2. CASE ~(pos.asked > 0)
      <4>1. {n, pos.qty} \cup {} = {n, pos.qty}
        OBVIOUS
      <4> QED BY <1>0, <1>1, <1>4, <3>2, <4>1, MinOfTwo
    <3> QED BY <3>1, <3>2
  <2>2. CloseAll
    BY <1>2, <1>4, <2>1 DEF Settle
  <2> QED BY <1>1, <1>3, <1>4, <2>2
<1>5. CASE ~(n > 0) /\ (~v.ok \/ v.open)
  BY <1>2, <1>5 DEF Settle, Keep
<1>6. CASE ~(n > 0) /\ ~(~v.ok \/ v.open) /\ v.bal = 0
  <2>1. held = 0
    BY <1>0, <1>6
  <2>2. CloseAll
    BY <1>2, <1>6 DEF Settle
  <2> QED BY <1>3, <2>1, <2>2
<1>7. CASE ~(n > 0) /\ ~(~v.ok \/ v.open) /\ v.bal # 0
  BY <1>2, <1>7 DEF Settle
<1> QED BY <1>4, <1>5, <1>6, <1>7

LEMMA BooksSell ==
  ASSUME OneLoop, Books, NEW t \in Threads, Sell(t)
  PROVE  Books'
<1> USE DEF OneLoop, Books
<1>0. /\ t = "loop" /\ "loop" \in Threads /\ held \in 0 .. Size /\ Size \in Nat \ {0}
      /\ order \in Orders /\ pos \in Positions /\ saved \in Positions
      /\ pc \in [Threads -> Steps] /\ me \in [Threads -> Work] /\ me["loop"] \in Work
      /\ booked \in 0 .. Size + 1
  BY SizeAssumption DEF TypeOK
<1>1. ASSUME UNCHANGED <<broker, pos, saved, truth>> PROVE Quantities'
  BY <1>1 DEF Quantities, broker
<1>2. ASSUME UNCHANGED <<broker, book, truth>>, LoopKnows', pc'["loop"] # "confirm" PROVE Books'
  BY <1>1, <1>2, BooksUnbooked DEF broker, book
<1>3. ASSUME UNCHANGED <<broker, book, truth>>, Done("loop") PROVE Books'
  BY <1>2, <1>3, BooksDone
<1>4. ASSUME NEW step \in Steps \ {"confirm", "reconcile", "assign"}, Goes("loop", step),
             UNCHANGED <<broker, book, truth, me>>,
             step \in {"recheck", "review", "precheck", "place", "check"} => Selling("loop"),
             step \in {"review", "precheck", "place"} => ~HasPending
      PROVE  Books'
  <2>1. pc'["loop"] = step
    BY <1>0, <1>4 DEF Goes
  <2>2. LoopKnows'
    BY <1>4, <2>1 DEF LoopKnows, Selling, HasPending, book
  <2> QED BY <1>2, <1>4, <2>1, <2>2
<1>5. CASE StartExit(t)
  <2>1. pc'["loop"] = "check" /\ me'["loop"].qty = pos.qty /\ me'["loop"].view = me["loop"].view
    BY <1>0, <1>5 DEF StartExit, Goes, Work
  <2>2. UNCHANGED <<broker, book, truth>>
    BY <1>5 DEF StartExit
  <2>3. LoopKnows'
    BY <2>1, <2>2 DEF LoopKnows, Selling, Quantities
  <2> QED BY <1>2, <2>1, <2>2, <2>3
<1>6. CASE Halted(t) \/ ReviewHolds(t) \/ PrecheckFails(t)
  BY <1>0, <1>3, <1>6 DEF Halted, ReviewHolds, PrecheckFails
<1>7. CASE CheckFree(t) \/ ReviewSells(t)
  <2>1. Selling("loop") /\ ~HasPending
    BY <1>0, <1>7 DEF CheckFree, ReviewSells, Selling, LoopKnows
  <2> QED BY <1>0, <1>4, <1>7, <2>1 DEF CheckFree, ReviewSells, Steps
<1>8. CASE CheckPending(t)
  <2>1. Selling("loop")
    BY <1>0, <1>8 DEF CheckPending, Selling
  <2> QED BY <1>0, <1>8, <2>1, BooksLook DEF CheckPending
<1>9. ASSUME NEW n \in -1 .. Size, Reconcile(t, n) PROVE Books'
  <2> DEFINE v == me["loop"].view
  <2>1. HasPending /\ v \in Views /\ v.filled \in {0, Size} /\ pc["loop"] = "reconcile"
    BY <1>0, <1>9 DEF Reconcile, LoopKnows, Work
  <2>2. n # -1 => pos.sale \in Sells /\ n = order[pos.sale].filled
    BY <1>0, <1>9 DEF Reconcile, Positions
  <2>3. n \in {-1, 0, Size}
    BY <2>2 DEF Quantities
  <2>4. held > 0 /\ v.ok => v.filled = 0 /\ v.bal # 0
    BY <1>0 DEF Covered, Cover, ThreadCovers, Work, Views
  <2>5. held > 0 => n <= 0
    <3> SUFFICES ASSUME held > 0, n # -1 PROVE n <= 0
      BY <1>0
    <3> QED BY <1>0, <2>2 DEF Covered, Cover, OrdersCover
  <2> HIDE DEF v
  <2>6. \/ UNCHANGED <<pos, booked>>
        \/ pos' = [pos EXCEPT !.pending = FALSE] /\ booked' = booked
        \/ pos' = [pos EXCEPT !.there = FALSE] /\ booked' = Size /\ held = 0
    <3>1. Settle(v, FilledBy(v, n))
      BY <1>0, <1>9 DEF Reconcile, v
    <3> QED BY <2>1, <2>3, <2>4, <2>5, <3>1, BooksSettle
  <2>7. UNCHANGED <<held, order, truth>> /\ saved' = pos'
    BY <1>9, <2>1 DEF Reconcile, broker, HasPending
  <2>8. pos'.qty = pos.qty /\ pos'.asked = pos.asked
    BY <1>0, <2>6 DEF Positions
  <2>9. Quantities'
    BY <2>7, <2>8 DEF Quantities
  <2>10. pc'["loop"] # "confirm" /\ LoopKnows'
    <3>1. CASE me["loop"].then = "recheck"
      <4>1. pc' = [pc EXCEPT !["loop"] = "recheck"] /\ me' = [me EXCEPT !["loop"].view = NoView]
        BY <1>0, <1>9, <3>1 DEF Reconcile, Goes
      <4>2. pc'["loop"] = "recheck" /\ me'["loop"].qty = me["loop"].qty /\ me'["loop"].view = NoView
        BY <1>0, <4>1 DEF Work
      <4>3. Selling("loop")
        BY <2>1, <3>1 DEF Selling
      <4> QED BY <4>2, <4>3 DEF LoopKnows, NoView
    <3>2. CASE me["loop"].then # "recheck"
      <4>1. Done("loop")
        BY <1>0, <1>9, <3>2 DEF Reconcile
      <4> QED BY <4>1, BooksDone
    <3> QED BY <3>1, <3>2
  <2>11. BookedOnce'
    <3>1. booked = 0
      BY <2>1 DEF BookedOnce
    <3>2. SavedPending' = HasPending'
      BY <2>7 DEF SavedPending, HasPending
    <3>3. booked' # 0 => booked' = Size /\ held' = 0 /\ ~HasPending'
      BY <1>0, <2>6, <2>7, <3>1 DEF HasPending, Positions
    <3> QED BY <2>10, <3>2, <3>3 DEF BookedOnce
  <2> QED BY <2>9, <2>10, <2>11
<1>10. CASE Recheck(t)
  <2>1. CASE HasPending
    BY <1>0, <1>3, <1>10, <2>1 DEF Recheck
  <2>2. CASE ~HasPending
    <3>1. Selling("loop")
      BY <1>0, <1>10 DEF Recheck, Selling
    <3> QED BY <1>0, <1>4, <1>10, <2>2, <3>1 DEF Recheck, Steps
  <2> QED BY <2>1, <2>2
<1>11. ASSUME NEW b \in Balances, Precheck(t, b) PROVE Books'
  <2>1. Selling("loop") /\ ~HasPending
    BY <1>0, <1>11 DEF Precheck, Selling, LoopKnows
  <2> QED BY <1>0, <1>4, <1>11, <2>1 DEF Precheck, Steps
\* A position that leaves the list with nothing booked.
<1>12. ASSUME Remove, Done("loop"), UNCHANGED broker, truth'.bal \in {0, Size},
              \A o \in Sells : truth'.order[o].filled \in {0, Size}, held = 0
       PROVE  Books'
  <2>1. pos' = [pos EXCEPT !.there = FALSE] /\ saved' \in {saved, pos'} /\ booked' = booked
    BY <1>12 DEF Remove
  <2>2. /\ pos'.qty = pos.qty /\ pos'.asked = pos.asked /\ pos'.there = FALSE
        /\ held' = held /\ order' = order
    BY <1>0, <1>12, <2>1 DEF Positions, broker
  <2>3. Quantities'
    BY <1>12, <2>1, <2>2 DEF Quantities
  <2>4. pc'["loop"] # "confirm" /\ LoopKnows'
    BY <1>12, BooksDone
  <2>5. ~HasPending' /\ (SavedPending' => SavedPending)
    BY <2>1, <2>2 DEF HasPending, SavedPending
  <2>6. BookedOnce'
    BY <1>12, <2>1, <2>2, <2>4, <2>5 DEF BookedOnce
  <2> QED BY <2>3, <2>4, <2>6
<1>13. ASSUME NEW b \in Balances, NothingHeld(t, b) PROVE Books'
  <2>1. CASE b # 0
    BY <1>0, <1>3, <1>13, <2>1 DEF NothingHeld
  <2>2. CASE b = 0
    <3>1. held = 0
      BY <1>0, <2>2 DEF Balances, Covered, Cover, TruthCovers, TypeOK, Snapshots
    <3> QED BY <1>0, <1>12, <1>13, <2>2, <3>1 DEF NothingHeld, Quantities
  <2> QED BY <2>1, <2>2
<1>14. ASSUME NEW s \in Snapshot(TRUE), Zero(t, s) PROVE Books'
  <2>1. s.bal \in {held, truth.bal} /\ s.order \in {order, truth.order}
    BY SnapshotType
  <2>2. s.bal \in {0, Size} /\ \A o \in Sells : s.order[o].filled \in {0, Size}
    BY <1>0, <2>1 DEF Quantities
  <2>3. CASE ZeroHolding(s)
    <3>1. held = 0
      BY <1>0, <2>1, <2>3 DEF ZeroHolding, Covered, Cover, TruthCovers, TypeOK, Snapshots
    <3> QED BY <1>0, <1>12, <1>14, <2>2, <2>3, <3>1 DEF Zero
  <2>4. CASE ~ZeroHolding(s)
    <3>1. UNCHANGED <<broker, book>> /\ truth' = s /\ Done("loop")
      BY <1>0, <1>14, <2>4 DEF Zero
    <3>2. Quantities'
      BY <2>2, <3>1 DEF Quantities, broker, book
    <3> QED BY <3>1, <3>2, BooksDone, BooksUnbooked DEF broker, book
  <2> QED BY <2>3, <2>4
\* An order is accepted for what the broker holds.
<1>15. ASSUME NEW o \in Sells, Accepted(o, me["loop"].qty), pc["loop"] = "place",
              me["loop"].qty <= Available, UNCHANGED <<held, pos, saved, truth>>
       PROVE  Quantities' /\ held > 0
  <2>1. me["loop"].qty = Size
    BY <1>15 DEF LoopKnows, Selling
  <2>2. Available \in Int /\ Available <= held
    BY AvailableIsHeld DEF Quantities
  <2>3. \A p \in Sells \ {o} : order'[p] = order[p]
    BY <1>0, <1>15 DEF Accepted, Orders
  <2>4. order'[o].filled = 0 /\ order'[o].qty = Size
    BY <1>0, <1>15, <2>1 DEF Accepted, Orders
  <2>5. Quantities'
    BY <1>0, <1>15, <2>3, <2>4 DEF Quantities
  <2> QED BY <1>0, <1>15, <2>1, <2>2, <2>5
<1>16. ASSUME NEW o \in Sells, PlaceAccepted(t, o) PROVE Books'
  <2>1. UNCHANGED <<held, pos, saved, booked, truth>>
    BY <1>16 DEF PlaceAccepted, book
  <2>2. Quantities' /\ held > 0
    BY <1>0, <1>15, <1>16, <2>1 DEF PlaceAccepted
  <2>3. pc'["loop"] = "confirm" /\ me'["loop"].order = o
        /\ me'["loop"].qty = me["loop"].qty /\ me'["loop"].view = me["loop"].view
    BY <1>0, <1>16 DEF PlaceAccepted, Goes, Work
  <2>4. Selling("loop") /\ ~HasPending
    BY <1>0, <1>16 DEF PlaceAccepted, Selling, LoopKnows
  <2>5. LoopKnows'
    BY <2>1, <2>3, <2>4 DEF LoopKnows, Selling, HasPending
  <2>6. booked = 0
    BY <1>0, <2>2 DEF BookedOnce
  <2>7. BookedOnce'
    BY <2>1, <2>2, <2>6 DEF BookedOnce, HasPending, SavedPending
  <2> QED BY <2>2, <2>5, <2>7
<1>17. CASE PlaceLost(t)
  <2>1. UNCHANGED <<held, pos, saved, booked, truth>> /\ Done("loop")
    BY <1>0, <1>17 DEF PlaceLost, book
  <2>2. Quantities'
    <3>1. CASE UNCHANGED order
      BY <2>1, <3>1 DEF Quantities
    <3>2. CASE order' # order
      BY <1>0, <1>15, <1>17, <2>1, <3>2 DEF PlaceLost
    <3> QED BY <3>1, <3>2
  <2> QED BY <2>1, <2>2, BooksDone, BooksUnbooked
<1>18. CASE PlaceRejected(t)
  BY <1>0, <1>3, <1>4, <1>18 DEF PlaceRejected, Steps
<1>19. CASE Confirmed(t)
  <2>1. me["loop"].qty = Size /\ me["loop"].order \in Sells /\ ~HasPending /\ pc["loop"] = "confirm"
    BY <1>0, <1>19 DEF Confirmed, LoopKnows, Selling
  <2>2. held = 0 /\ booked = 0 /\ ~SavedPending
    BY <1>0, <1>19, <2>1 DEF Confirmed, Covered, Cover, OrdersCover, BookedOnce
  <2>3. UNCHANGED <<broker, saved, truth>> /\ CloseAll
    BY <1>19 DEF Confirmed
  <2>4. Booked(Size) = Size
    BY <1>0, <2>2, MinOfTwo DEF Booked
  <2>5. /\ pos'.there = FALSE /\ pos'.qty = pos.qty /\ pos'.asked = pos.asked
        /\ booked' \in {0, Size}
    BY <1>0, <2>2, <2>3, <2>4 DEF CloseAll, Quantities, Positions
  <2>6. Quantities'
    BY <2>3, <2>5 DEF Quantities, broker
  <2>7. pc'["loop"] # "confirm" /\ LoopKnows'
    <3>1. CASE pos.there
      <4>1. pc'["loop"] = "save" /\ me' = me
        BY <1>0, <1>19, <3>1 DEF Confirmed, Goes
      <4> QED BY <4>1 DEF LoopKnows, Selling
    <3>2. CASE ~pos.there
      BY <1>0, <1>19, <3>2, BooksDone DEF Confirmed
    <3> QED BY <3>1, <3>2
  <2>8. BookedOnce'
    BY <1>0, <2>2, <2>3, <2>5, <2>7 DEF BookedOnce, HasPending, SavedPending, broker
  <2> QED BY <2>6, <2>7, <2>8
<1>20. CASE SaveSold(t)
  <2>1. saved' = pos /\ UNCHANGED <<broker, pos, booked, truth>> /\ Done("loop")
    BY <1>0, <1>20 DEF SaveSold
  <2>2. Quantities'
    BY <2>1 DEF Quantities, broker
  <2>3. BookedOnce'
    BY <2>1, BooksDone DEF BookedOnce, HasPending, SavedPending, broker
  <2> QED BY <2>1, <2>2, <2>3, BooksDone
<1>21. CASE Unconfirmed(t)
  <2>1. saved' = pos' /\ UNCHANGED <<broker, booked, truth>> /\ Done("loop")
    BY <1>0, <1>21 DEF Unconfirmed
  <2>2. me["loop"].qty = Size
    BY <1>0, <1>21 DEF Unconfirmed, LoopKnows, Selling
  <2>3. pos'.qty = pos.qty /\ pos'.asked \in {pos.asked, Size}
    BY <1>0, <1>21, <2>2 DEF Unconfirmed, Positions
  <2>4. Quantities'
    BY <2>1, <2>3 DEF Quantities, broker
  <2>5. booked = 0
    BY <1>0, <1>21 DEF Unconfirmed, BookedOnce
  <2>6. BookedOnce'
    BY <2>1, <2>5, BooksDone DEF BookedOnce, HasPending, SavedPending
  <2> QED BY <2>1, <2>4, <2>6, BooksDone
<1> QED
  BY <1>5, <1>6, <1>7, <1>8, <1>9, <1>10, <1>11, <1>13, <1>14, <1>16, <1>17, <1>18, <1>19,
     <1>20, <1>21 DEF Sell

LEMMA BooksLoop ==
  ASSUME OneLoop, Books, Loop
  PROVE  Books'
<1> USE DEF OneLoop, Books
<1>0. /\ "loop" \in Threads /\ held \in 0 .. Size /\ Size \in Nat \ {0}
      /\ pos \in Positions /\ saved \in Positions /\ truth \in Snapshots
      /\ pc \in [Threads -> Steps] /\ me \in [Threads -> Work] /\ me["loop"] \in Work
  BY SizeAssumption DEF TypeOK
<1>1. ASSUME NEW force \in BOOLEAN, Cycle(force) PROVE Books'
  BY <1>1, BooksLook DEF Cycle, HasPending
<1>2. CASE StartOutside
  <2>1. pc'["loop"] = "check" /\ me'["loop"].qty = pos.qty /\ me'["loop"].view = me["loop"].view
    BY <1>0, <1>2 DEF StartOutside, Goes, Work
  <2>2. UNCHANGED <<held, order, pos, saved, booked, truth>>
    BY <1>2 DEF StartOutside, broker, book
  <2>3. LoopKnows'
    BY <2>1, <2>2 DEF LoopKnows, Selling, Quantities
  <2>4. Quantities'
    BY <2>2 DEF Quantities
  <2> QED BY <2>1, <2>2, <2>3, <2>4, BooksUnbooked
<1>3. ASSUME NEW b \in Balances \cup {-1}, NEW others \in BOOLEAN, Sync(b, others) PROVE Books'
  <2>1. b \in {-1, 0, Size}
    BY <1>0 DEF Balances, Quantities
  <2>2. ASSUME NEW list \in {"keep", "drop", "inject"}, NEW n, NEW then, Synced(list, n, then)
        PROVE  /\ pc'["loop"] = "assign" /\ me'["loop"].list = list /\ me'["loop"].qty = n
               /\ me'["loop"].view = me["loop"].view
               /\ UNCHANGED <<held, order, saved, booked>>
    BY <1>0, <2>2 DEF Synced, Goes, Work, broker
  \* The lists that are assigned, and the position that this leaves.
  <2>3. ASSUME NEW list \in {"keep", "drop", "inject"}, NEW n, NEW then, Synced(list, n, then),
               list = "keep" => pos.there, list = "inject" => ~pos.there /\ n = Size,
               /\ pos'.there = pos.there /\ pos'.pending = pos.pending
               /\ pos'.qty = Size /\ pos'.asked = pos.asked,
               truth' \in Snapshot(TRUE) \/ truth' = truth
        PROVE  Books'
    <3>1. /\ pc'["loop"] = "assign" /\ me'["loop"].list = list /\ me'["loop"].qty = n
          /\ me'["loop"].view = me["loop"].view
          /\ UNCHANGED <<held, order, saved, booked>>
      BY <2>2, <2>3
    <3>2. truth'.bal \in {0, Size} /\ \A o \in Sells : truth'.order[o].filled \in {0, Size}
      <4>1. CASE truth' = truth
        BY <4>1 DEF Quantities
      <4>2. CASE truth' \in Snapshot(TRUE)
        <5>1. truth'.bal \in {held, truth.bal} /\ truth'.order \in {order, truth.order}
          BY <4>2, SnapshotType
        <5> QED BY <1>0, <5>1 DEF Quantities
      <4> QED BY <2>3, <4>1, <4>2
    <3>3. Quantities'
      BY <2>3, <3>1, <3>2 DEF Quantities
    <3>4. LoopKnows'
      BY <2>3, <3>1 DEF LoopKnows, Selling
    <3>5. BookedOnce'
      BY <2>3, <3>1 DEF BookedOnce, HasPending, SavedPending
    <3> QED BY <3>3, <3>4, <3>5
  <2>4. pos.qty = Size
    BY DEF Quantities
  <2>5. /\ [pos EXCEPT !.qty = b, !.missing = FALSE].there = pos.there
        /\ [pos EXCEPT !.qty = b, !.missing = FALSE].pending = pos.pending
        /\ [pos EXCEPT !.qty = b, !.missing = FALSE].asked = pos.asked
        /\ [pos EXCEPT !.qty = b, !.missing = FALSE].qty = b
        /\ [pos EXCEPT !.missing = TRUE].there = pos.there
        /\ [pos EXCEPT !.missing = TRUE].pending = pos.pending
        /\ [pos EXCEPT !.missing = TRUE].asked = pos.asked
        /\ [pos EXCEPT !.missing = TRUE].qty = pos.qty
    BY <1>0 DEF Positions
  <2>6. ASSUME pos.there, Synced("keep", 0, "idle") \/ Synced("keep", 0, "recheck"),
               UNCHANGED <<pos, truth>>
        PROVE  Books'
    BY <2>3, <2>4, <2>6
  <2>7. ASSUME pos.there, b > 0, pos' = [pos EXCEPT !.qty = b, !.missing = FALSE],
               Synced("keep", 0, "idle"), UNCHANGED truth
        PROVE  Books'
    <3>1. b = Size
      BY <1>0, <2>1, <2>7
    <3> QED BY <2>3, <2>5, <2>7, <3>1
  <2>8. ASSUME pos.there, truth' \in Snapshot(TRUE), Synced("drop", 0, "idle"), UNCHANGED pos
        PROVE  Books'
    BY <2>3, <2>4, <2>8
  <2>9. ASSUME pos.there, truth' \in Snapshot(TRUE), pos' = [pos EXCEPT !.missing = TRUE],
               Synced("keep", 0, "idle")
        PROVE  Books'
    BY <2>3, <2>4, <2>5, <2>9
  <2>10. ASSUME ~pos.there, b > 0, Synced("inject", b, "idle"), UNCHANGED <<pos, truth>>
         PROVE  Books'
    <3>1. b = Size
      BY <1>0, <2>1, <2>10
    <3> QED BY <2>3, <2>4, <2>10, <3>1
  <2> QED BY <1>3, <2>6, <2>7, <2>8, <2>9, <2>10 DEF Sync
<1>4. CASE Assign
  <2> DEFINE l == me["loop"]
  <2>1. UNCHANGED <<held, order, booked, truth>> /\ saved' \in {saved, pos'} /\ pc["loop"] = "assign"
    BY <1>4 DEF Assign, broker
  <2>2. LoopKnows' /\ pc'["loop"] # "confirm"
    <3>1. CASE l.then = "recheck"
      <4>1. pc'["loop"] = "protected" /\ me' = me
        BY <1>0, <1>4, <3>1 DEF Assign, Goes
      <4> QED BY <4>1 DEF LoopKnows, Selling
    <3>2. CASE l.then # "recheck"
      BY <1>4, <3>2, BooksDone DEF Assign
    <3> QED BY <3>1, <3>2
  <2>3. CASE l.list = "keep"
    <3>1. pos' = [pos EXCEPT !.there = TRUE] /\ pos.there
      BY <1>4, <2>1, <2>3 DEF Assign, LoopKnows
    <3>2. pos' = pos
      BY <1>0, <3>1 DEF Positions
    <3>3. Quantities' /\ BookedOnce'
      BY <2>1, <2>2, <3>1, <3>2 DEF Quantities, BookedOnce, HasPending, SavedPending
    <3> QED BY <2>2, <3>3
  <2>4. CASE l.list = "drop"
    <3>1. pos' = [pos EXCEPT !.there = FALSE]
      BY <1>4, <2>4 DEF Assign
    <3>2. pos'.there = FALSE /\ pos'.qty = pos.qty /\ pos'.asked = pos.asked
      BY <1>0, <3>1 DEF Positions
    <3>3. held = 0
      BY <1>0, <2>1, <2>4 DEF Covered, Cover, ThreadCovers
    <3>4. Quantities'
      BY <2>1, <3>2 DEF Quantities
    <3>5. BookedOnce'
      BY <1>0, <2>1, <2>2, <3>2, <3>3 DEF BookedOnce, HasPending, SavedPending
    <3> QED BY <2>2, <3>4, <3>5
  <2>5. CASE l.list = "inject"
    <3>1. pos' = Position(Size)
      BY <1>4, <2>1, <2>5 DEF Assign, LoopKnows, Selling
    <3>2. pos'.pending = FALSE /\ pos'.qty = Size /\ pos'.asked = 0
      BY <3>1 DEF Position
    <3>3. ~pos.there
      BY <2>1, <2>5 DEF LoopKnows
    <3>4. held = 0
      BY <1>0, <3>3 DEF Covered, Cover, BooksCover
    <3>5. Quantities'
      BY <2>1, <3>2 DEF Quantities
    <3>6. BookedOnce'
      BY <1>0, <2>1, <2>2, <3>2, <3>4 DEF BookedOnce, HasPending, SavedPending
    <3> QED BY <2>2, <3>5, <3>6
  <2> QED BY <1>0, <2>3, <2>4, <2>5 DEF Work
<1>5. CASE Protected
  <2>1. CASE HasPending
    BY <1>5, <2>1, BooksLook DEF Protected
  <2>2. CASE ~HasPending
    <3>1. UNCHANGED <<held, order, pos, saved, booked, truth>> /\ Done("loop")
      BY <1>5, <2>2 DEF Protected, broker, book
    <3>2. Quantities'
      BY <3>1 DEF Quantities
    <3> QED BY <3>1, <3>2, BooksDone, BooksUnbooked
  <2> QED BY <2>1, <2>2
<1> QED BY <1>1, <1>2, <1>3, <1>4, <1>5 DEF Loop

LEMMA BooksCrash ==
  ASSUME OneLoop, Books, Covered, Crash
  PROVE  Books'
<1> USE DEF OneLoop, Books
<1>0. held \in 0 .. Size /\ Size \in Nat \ {0} /\ "loop" \in Threads /\ saved \in Positions
  BY ThreadsAssumption, SizeAssumption DEF TypeOK
<1>1. UNCHANGED <<held, order, saved, booked, truth>>
      /\ pc'["loop"] = "idle" /\ me'["loop"] = Nothing
  BY <1>0 DEF Crash, broker
<1>2. LoopKnows'
  BY <1>1 DEF LoopKnows, Selling, Nothing, NoView
<1>3. \/ pos' = saved
      \/ saved.there /\ pos' = [saved EXCEPT !.qty = Size]
      \/ held = 0 /\ pos' = [saved EXCEPT !.there = FALSE]
  <2>1. \A b \in Balances : (b > 0 => b = Size) /\ (held > 0 => b > 0)
    BY <1>0 DEF Balances, Quantities, Covered, Cover, TruthCovers
  <2> QED BY <1>0, <2>1 DEF Crash
<1>4. pos'.qty = Size /\ pos'.asked = saved.asked /\ pos'.pending = saved.pending
      /\ (pos'.there => saved.there) /\ (held > 0 => pos'.there = saved.there)
  BY <1>0, <1>3 DEF Quantities, Positions
<1>5. Quantities'
  BY <1>1, <1>4 DEF Quantities
<1>6. BookedOnce'
  BY <1>1, <1>4 DEF BookedOnce, HasPending, SavedPending
<1> QED BY <1>2, <1>5, <1>6

LEMMA BooksInductive ==
  ASSUME ~Partly, Threads = {"loop"}
  PROVE  /\ Init => (hand = 0 => Books)
         /\ TypeOK /\ TypeOK' /\ Covered /\ (hand = 0 => Books) /\ [Next]_vars => (hand = 0 => Books)'
         /\ TypeOK /\ (hand = 0 => Books) => BookedIsSold
<1>0. Size \in Nat \ {0}
  BY SizeAssumption
<1>1. Init => (hand = 0 => Books)
  <2> SUFFICES ASSUME Init PROVE Books
    OBVIOUS
  <2>1. pc["loop"] = "idle" /\ me["loop"] = Nothing
    BY ThreadsAssumption DEF Init
  <2>2. LoopKnows
    BY <2>1 DEF LoopKnows, Selling, Nothing, NoView
  <2>3. Quantities /\ BookedOnce
    BY <1>0 DEF Init, Quantities, BookedOnce, Position, NewOrder, SavedPending
  <2> QED BY <2>2, <2>3 DEF Books
<1>2. TypeOK /\ TypeOK' /\ Covered /\ (hand = 0 => Books) /\ [Next]_vars => (hand = 0 => Books)'
  <2> SUFFICES ASSUME TypeOK, TypeOK', Covered, hand = 0 => Books, [Next]_vars, hand' = 0 PROVE Books'
    OBVIOUS
  <2>1. hand = 0
    <3>1. hand \in 0 .. Size
      BY DEF TypeOK
    <3>2. ASSUME Outside PROVE hand = 0
      <4>1. ASSUME NEW n \in 1 .. Size, UserSells(n) PROVE hand = 0
        <5>1. hand' = hand + n
          BY <4>1 DEF UserSells
        <5> QED BY <1>0, <3>1, <5>1
      <4>2. ASSUME NEW o \in Sells, NEW n \in 1 .. Size, Fill(o, n) PROVE hand' = hand
        BY <4>2 DEF Fill
      <4>3. ASSUME NEW o \in Sells, Cancel(o) PROVE hand' = hand
        BY <4>3 DEF Cancel
      <4>4. ASSUME RefreshTruth PROVE hand' = hand
        BY <4>4 DEF RefreshTruth, broker
      <4> QED BY <3>2, <4>1, <4>2, <4>3, <4>4 DEF Outside
    <3>3. ASSUME NEW t \in Threads, Sell(t) PROVE hand' = hand
      BY <3>3 DEF Sell, StartExit, Halted, CheckFree, CheckPending, Look, Reconcile, Recheck,
                  ReviewHolds, ReviewSells, Precheck, NothingHeld, PrecheckFails, Zero,
                  PlaceAccepted, PlaceLost, PlaceRejected, Confirmed, SaveSold, Unconfirmed, broker
    <3>4. ASSUME Loop PROVE hand' = hand
      BY <3>4 DEF Loop, Cycle, Look, StartOutside, Sync, Synced, Assign, Protected, broker
    <3>5. ASSUME Crash PROVE hand' = hand
      BY <3>5 DEF Crash, broker
    <3> QED BY <3>2, <3>3, <3>4, <3>5 DEF Next, vars, broker
  <2>2. OneLoop /\ Books
    BY <2>1 DEF OneLoop
  <2>3. CASE UNCHANGED vars
    BY <2>2, <2>3 DEF vars, broker, book, threads, bounds, Books, Quantities, LoopKnows, Selling,
                      HasPending, BookedOnce, SavedPending
  <2>4. CASE Outside
    BY <2>2, <2>4, BooksOutside
  <2>5. CASE \E t \in Threads : Sell(t)
    BY <2>2, <2>5, BooksSell
  <2>6. CASE Loop
    BY <2>2, <2>6, BooksLoop
  <2>7. CASE Crash
    BY <2>2, <2>7, BooksCrash
  <2> QED BY <2>3, <2>4, <2>5, <2>6, <2>7 DEF Next
<1>3. TypeOK /\ (hand = 0 => Books) => BookedIsSold
  <2> SUFFICES ASSUME TypeOK, Books PROVE booked <= Size - held
    BY DEF BookedIsSold
  <2>1. held \in 0 .. Size /\ booked \in 0 .. Size + 1
    BY DEF TypeOK
  <2>2. booked = 0 \/ (booked = Size /\ held = 0)
    BY DEF Books, BookedOnce
  <2> QED BY <1>0, <2>1, <2>2
<1> QED BY <1>1, <1>2, <1>3

\* With the trading loop alone, while orders are filled whole and the user sells nothing, the
\* bot books exactly what was sold or has yet to book it: no step that tells of the sale (the
\* confirmation, the reconciliations, the crash that brings back the file) books it again.
THEOREM OneThreadBooksOnce ==
  ASSUME ~Partly, Threads = {"loop"}
  PROVE  Spec => []BookedIsSold
<1>1. Spec => []TypeOK
  BY TypeCorrect
<1>2. Spec => []Covered
  BY <1>1, CoveredInductive, PTL DEF Spec
<1> QED BY <1>1, <1>2, BooksInductive, PTL DEF Spec
=============================================================================
