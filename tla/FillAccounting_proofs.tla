----------------------- MODULE FillAccounting_proofs -----------------------
(***************************************************************************)
(* Proofs about the bookkeeping of fills, for any orders, sizes and bounds.*)
(***************************************************************************)
EXTENDS FillAccounting, TLAPS

\* The row the trading loop has in hand.
InHand == IF pc = "answer" THEN {cur.order} ELSE {}

\* TypeOK alone is not inductive: what a job writes is a row of an order.
TypeInv == TypeOK /\ InHand \subseteq Orders

\* An order that has no row yet.
Entering(o) == ws = o \/ (pc = "placing" /\ cur.order = o)
Unentered(o) == stage[o] = "new" \/ Entering(o)

\* The rows of a job.
InJob == todo \cup kept \cup InHand

Whole(r) == r.qty + r.accum = Size

\* Inductive invariant of RowAddsUp.  Unless torn, every row is whole, in memory and on disk,
\* and what a job has read of the row in hand is what is there; what was told of a pending
\* row is what was taken off it, except of a row the job has found filled and has not yet
\* dropped from the list.  An order without a row is in none of the lists.
RowsInv ==
    /\ \A o \in Orders \ torn : Whole(row[o]) /\ Whole(file.row[o])
    /\ \A o \in Orders : Entering(o) => stage[o] # "new"
    /\ \A o \in Orders : ~(ws = o /\ pc = "placing" /\ cur.order = o)
    /\ \A o \in Orders : Unentered(o) => /\ told[o] = 0 /\ o \notin pending /\ o \notin file.pending
                                         /\ Reconciling => o \notin InJob
    /\ Reconciling => /\ todo \cap kept = {} /\ InHand \cap (todo \cup kept) = {}
                      /\ \A o \in InJob \ torn : told[o] = row[o].accum
    /\ pc = "answer" /\ cur.order \notin torn => cur.qty = row[cur.order].qty
    /\ \A o \in pending \ torn : \/ told[o] = row[o].accum
                                 \/ Reconciling /\ dirty /\ o \notin InJob
    /\ pc = "list" => dirty
    /\ pc \notin {"placing", "answer"} => cur.order = NoOrder

-----------------------------------------------------------------------------
LEMMA AppendType ==
  ASSUME NEW p \in Positions, NEW o \in Orders, NEW n \in Nat
  PROVE  Append(p, o, n) \in Positions
  BY DEF Append, Positions

LEMMA OnlyType ==
  ASSUME NEW o \in Orders \cup {NoOrder}, NEW n \in Nat
  PROVE  Only(o, n) \in Positions
  BY DEF Only, Positions

\* So many entries of so many shares.
LEMMA Times ==
  ASSUME NEW k \in Nat, NEW n \in Nat
  PROVE  k * n \in Nat /\ (k > 0 => n <= k * n) /\ (k <= 1 => k * n <= n) /\ 0 * n = 0
<1>1. k * n \in Nat /\ 0 * n = 0 /\ 1 * n = n
  OBVIOUS
<1>2. ASSUME k > 0 PROVE n <= k * n
  <2>1. k - 1 \in Nat
    BY <1>2
  <2>2. k * n = (k - 1) * n + n
    OBVIOUS
  <2>3. (k - 1) * n \in Nat
    BY <2>1
  <2> QED BY <2>2, <2>3
<1>3. k <= 1 => k = 0 \/ k = 1
  OBVIOUS
<1> QED BY <1>1, <1>2, <1>3

LEMMA CorrectedType ==
  ASSUME NEW p \in Positions, NEW n \in Nat
  PROVE  Corrected(p, n) \in Positions
<1>1. p.entries * n \in Nat /\ \A o \in Orders : p.own[o] * n \in Nat
  BY Times DEF Positions
<1> QED BY <1>1 DEF Corrected, Positions

LEMMA NoPositionType == NoPosition \in Positions
  BY DEF NoPosition, Positions

LEMMA NormalizedType ==
  ASSUME NEW S \in SUBSET Orders, NEW r
  PROVE  Normalized(S, r) \subseteq S
  BY DEF Normalized

\* What the loop over the positions may come to is a position.
LEMMA SyncedType ==
  ASSUME TypeOK
  PROVE  Synced \subseteq Positions
<1>1. SUFFICES ASSUME NEW p \in Synced PROVE p \in Positions
  OBVIOUS
<1>2. bal > 0 => bal \in Nat
  BY DEF TypeOK, Balances
<1>3. pos.by \in Orders \cup {NoOrder} /\ pos.qty \in Nat /\ file.pos.by \in Orders \cup {NoOrder}
  BY DEF TypeOK, Positions
<1>4. pending \subseteq Orders
  BY DEF TypeOK
<1>5. p = NoPosition \/ \E o \in Orders \cup {NoOrder}, n \in Nat : p = Only(o, n)
  <2>1. CASE pos.total > 0 /\ bal > 0
    <3>1. p = Only(pos.by, bal)
      BY <1>1, <2>1 DEF Synced
    <3> QED BY <3>1, <2>1, <1>2, <1>3
  <2>2. CASE pos.total > 0 /\ ~(bal > 0)
    <3>1. p = Only(pos.by, pos.qty) \/ p = NoPosition
      BY <1>1, <2>2 DEF Synced
    <3> QED BY <3>1, <1>3
  <2>3. CASE ~(pos.total > 0) /\ bal <= 0
    BY <1>1, <2>3 DEF Synced
  <2>4. CASE ~(pos.total > 0) /\ bal > 0
    <3>1. \E o \in Orders \cup {NoOrder} : p = Only(o, bal)
      <4>0. ~(bal <= 0)
        BY <2>4, <1>2
      <4>1. CASE pending # {}
        BY <1>1, <2>4, <4>0, <4>1, <1>4 DEF Synced
      <4>2. CASE pending = {} /\ file.pos.total > 0
        BY <1>1, <2>4, <4>0, <4>2, <1>3 DEF Synced
      <4>3. CASE pending = {} /\ ~(file.pos.total > 0)
        BY <1>1, <2>4, <4>0, <4>3 DEF Synced
      <4> QED BY <4>1, <4>2, <4>3
    <3> QED BY <3>1, <2>4, <1>2
  <2>5. bal \in Int
    BY DEF TypeOK, Balances
  <2> QED BY <2>1, <2>2, <2>3, <2>4, <2>5
<1> QED BY <1>5, OnlyType, NoPositionType

\* A row that is written keeps its type.
LEMMA RowType ==
  ASSUME NEW r \in Rows, NEW q \in 1 .. Size, NEW a \in Nat, NEW p \in BOOLEAN, NEW b \in BOOLEAN,
         NEW c \in BOOLEAN
  PROVE  /\ [r EXCEPT !.qty = q, !.accum = a, !.part = p, !.priced = b] \in Rows
         /\ [r EXCEPT !.priced = b, !.recorded = c] \in Rows
         /\ [r EXCEPT !.old = b] \in Rows
  BY DEF Rows

\* The records of a decision.
LEMMA CurTypes ==
  ASSUME TypeOK
  PROVE  LET Cur == [order : Orders \cup {NoOrder}, qty : 0 .. Size, already : Nat, asks : BOOLEAN]
         IN  cur \in Cur /\ NoDecision \in Cur
             /\ \A o \in Orders : Undecided(o) \in Cur
<1> DEFINE Cur == [order : Orders \cup {NoOrder}, qty : 0 .. Size, already : Nat, asks : BOOLEAN]
<1>1. cur \in Cur
  BY DEF TypeOK
<1>2. NoDecision \in Cur
  BY SizeAssumption DEF NoDecision, Undecided
<1>3. ASSUME NEW o \in Orders PROVE Undecided(o) \in Cur
  BY SizeAssumption DEF Undecided
<1> QED BY <1>1, <1>2, <1>3

LEMMA InitType == Init => TypeInv
<1> SUFFICES ASSUME Init PROVE TypeInv OBVIOUS
<1> USE SizeAssumption, BoundsAssumption, OrdersAssumption
<1>1. NewRow \in Rows
  BY DEF NewRow, Rows
<1>2. /\ stage \in [Orders -> {"new", "live", "dead"}] /\ filled \in [Orders -> 0 .. Size]
      /\ told \in [Orders -> Nat] /\ row \in [Orders -> Rows]
  BY <1>1 DEF Init
<1>3. cur \in [order : Orders \cup {NoOrder}, qty : 0 .. Size, already : Nat, asks : BOOLEAN]
  BY SizeAssumption DEF Init, NoDecision, Undecided
<1>4. file \in [row : [Orders -> Rows], pending : SUBSET Orders, pos : Positions]
  BY <1>2, NoPositionType DEF Init
<1>5. /\ held \in Nat /\ net \subseteq Notices /\ seen \subseteq net /\ pending \subseteq Orders
      /\ unknown \subseteq Orders /\ bal \in Balances /\ acc \in Nat /\ todo \subseteq Orders
      /\ kept \subseteq Orders /\ torn \subseteq Orders /\ ws \in Orders \cup {NoOrder}
  BY DEF Init, Balances
<1>6. /\ pc \in {"idle", "placing", "rows", "answer", "list", "positions", "assign", "clear"}
      /\ dirty \in BOOLEAN /\ closing \in BOOLEAN /\ fresh \in BOOLEAN
      /\ doubt \in {"none", "passing", "lasting"}
  BY DEF Init
<1>7. /\ others \in 0 .. MaxOthers /\ midnights \in 0 .. MaxMidnights
      /\ closes \in 0 .. MaxCloses /\ crashes \in 0 .. MaxCrashes
  BY DEF Init
<1>8. pos \in Positions /\ synced \in Positions
  BY NoPositionType DEF Init
<1>9. TypeOK
  BY <1>2, <1>3, <1>4, <1>5, <1>6, <1>7, <1>8 DEF TypeOK
<1> QED BY <1>9 DEF TypeInv, InHand, Init

LEMMA BrokerType ==
  ASSUME TypeInv, NEW o \in Orders, Place(o) \/ Drop(o) \/ \E n \in 1 .. Size : Fill(o, n)
  PROVE  TypeInv'
<1> USE SizeAssumption, BoundsAssumption, OrdersAssumption DEF TypeInv, InHand, book, loop, history, bounds
<1>1. CASE Place(o)
  <2>1. stage' \in [Orders -> {"new", "live", "dead"}]
    BY <1>1 DEF Place, TypeOK
  <2>2. cur' \in [order : Orders \cup {NoOrder}, qty : 0 .. Size, already : Nat, asks : BOOLEAN]
    <3>1. cur' = cur \/ cur' = Undecided(o)
      BY <1>1 DEF Place
    <3> QED BY <3>1, CurTypes
  <2>3. /\ pc' \in {"idle", "placing", "rows", "answer", "list", "positions", "assign", "clear"}
        /\ ws' \in Orders \cup {NoOrder}
        /\ pc' = "answer" => pc = "answer" /\ cur' = cur
    BY <1>1 DEF Place, TypeOK
  <2> QED BY <1>1, <2>1, <2>2, <2>3 DEF Place, TypeOK
<1>2. CASE Drop(o)
  BY <1>2 DEF Drop, TypeOK
<1>3. ASSUME NEW n \in 1 .. Size, Fill(o, n) PROVE TypeInv'
  BY <1>3 DEF Fill, TypeOK, Notices
<1> QED BY <1>1, <1>2, <1>3

LEMMA BrokerUserType == TypeInv /\ UserBuys => TypeInv'
  BY BoundsAssumption DEF TypeInv, InHand, book, loop, history, UserBuys, TypeOK

LEMMA RowsType ==
  ASSUME TypeInv, Midnight \/ (\E o \in Orders : AddPendingOrder(o)) \/ RebuildPending \/ ClearPending
  PROVE  TypeInv'
<1> USE SizeAssumption, BoundsAssumption, OrdersAssumption
        DEF TypeInv, InHand, broker, book, loop, history, bounds
<1>1. CASE Midnight
  <2>1. row' \in [Orders -> Rows]
    <3>1. row' = [o \in Orders |-> [row[o] EXCEPT !.old = (o \in pending \/ row[o].old)]]
      BY <1>1 DEF Midnight
    <3>2. \A o \in Orders : row[o] \in Rows
      BY DEF TypeOK
    <3>3. ASSUME NEW o \in Orders
          PROVE  [row[o] EXCEPT !.old = (o \in pending \/ row[o].old)] \in Rows
      <4>1. (o \in pending \/ row[o].old) \in BOOLEAN
        OBVIOUS
      <4>2. \A b \in BOOLEAN : [row[o] EXCEPT !.old = b] \in Rows
        BY <3>2 DEF Rows
      <4> QED BY <4>1, <4>2
    <3> QED BY <3>1, <3>3
  <2>2. midnights' \in 0 .. MaxMidnights
    BY <1>1 DEF Midnight, TypeOK
  <2> QED BY <1>1, <2>1, <2>2 DEF Midnight, TypeOK
<1>2. ASSUME NEW o \in Orders, AddPendingOrder(o) PROVE TypeInv'
  <2>1. row' \in [Orders -> Rows]
    BY <1>2 DEF AddPendingOrder, TypeOK, NewRow, Rows
  <2>2. Normalized(pending \cup {o}, row') \subseteq Orders
    <3>1. pending \cup {o} \in SUBSET Orders
      BY DEF TypeOK
    <3>2. Normalized(pending \cup {o}, row') \subseteq pending \cup {o}
      BY <3>1, NormalizedType
    <3> QED BY <3>1, <3>2
  <2>3. pending' \subseteq Orders /\ file' \in [row : [Orders -> Rows], pending : SUBSET Orders, pos : Positions]
    BY <1>2, <2>1, <2>2 DEF AddPendingOrder, SavePending, TypeOK
  <2>4. cur' \in [order : Orders \cup {NoOrder}, qty : 0 .. Size, already : Nat, asks : BOOLEAN]
    <3>1. cur' = cur \/ cur' = NoDecision
      BY <1>2 DEF AddPendingOrder
    <3> QED BY <3>1, CurTypes
  <2> QED BY <1>2, <2>1, <2>3, <2>4 DEF AddPendingOrder, TypeOK
<1>3. CASE RebuildPending
  <2>1. Normalized(kept, row) \subseteq Orders
    BY NormalizedType DEF TypeOK
  <2>2. pending' \subseteq Orders /\ file' \in [row : [Orders -> Rows], pending : SUBSET Orders, pos : Positions]
    BY <1>3, <2>1 DEF RebuildPending, SavePending, TypeOK
  <2> QED BY <1>3, <2>2 DEF RebuildPending, TypeOK
<1>4. CASE ClearPending
  <2>1. Normalized({}, row) \subseteq Orders
    BY NormalizedType
  <2>2. pending' \subseteq Orders /\ file' \in [row : [Orders -> Rows], pending : SUBSET Orders, pos : Positions]
    BY <1>4, <2>1 DEF ClearPending, SavePending, TypeOK
  <2> QED BY <1>4, <2>2 DEF ClearPending, TypeOK, Balances
<1> QED BY <1>1, <1>2, <1>3, <1>4

LEMMA NoticeType ==
  ASSUME TypeInv, NEW n \in net, OnFillNotice(n)
  PROVE  TypeInv'
<1> USE SizeAssumption, BoundsAssumption, OrdersAssumption
        DEF TypeInv, InHand, broker, loop, bounds
<1> DEFINE o == n.order
           q == Lesser(n.qty, row[o].qty)
<1>1. o \in Orders /\ n.qty \in 1 .. Size /\ row[o] \in Rows /\ row[o].qty \in 1 .. Size
      /\ row[o].accum \in Nat /\ told[o] \in Nat
  BY DEF OnFillNotice, TypeOK, Notices, Rows
<1>2. q \in Nat
  BY <1>1 DEF Lesser
<1>3. pos' \in Positions
  BY <1>1, <1>2, AppendType DEF OnFillNotice, TypeOK
<1>4. told' \in [Orders -> Nat]
  BY <1>1, <1>2 DEF OnFillNotice, TypeOK
<1>5. row' \in [Orders -> Rows]
  <2>1. n.qty < row[o].qty => row[o].qty - n.qty \in 1 .. Size
    BY <1>1
  <2>2. row[o].accum + q \in Nat
    BY <1>1, <1>2
  <2>3. row \in [Orders -> Rows]
    BY DEF TypeOK
  <2>4. CASE n.qty < row[o].qty
    <3>1. row' = [row EXCEPT ![o] = [row[o] EXCEPT !.qty = row[o].qty - n.qty,
                         !.accum = row[o].accum + q, !.part = TRUE, !.priced = TRUE]]
      BY <2>3, <2>4, <1>1 DEF OnFillNotice
    <3>2. [row[o] EXCEPT !.qty = row[o].qty - n.qty, !.accum = row[o].accum + q, !.part = TRUE,
                         !.priced = TRUE] \in Rows
      BY <1>1, <2>1, <2>2, <2>4 DEF Rows
    <3> QED BY <2>3, <3>1, <3>2
  <2>5. CASE ~(n.qty < row[o].qty)
    <3>1. row' = [row EXCEPT ![o] = [row[o] EXCEPT !.priced = TRUE]]
      BY <2>3, <2>5, <1>1 DEF OnFillNotice
    <3>2. [row[o] EXCEPT !.priced = TRUE] \in Rows
      BY <1>1 DEF Rows
    <3> QED BY <2>3, <3>1, <3>2
  <2> QED BY <2>4, <2>5
<1>6. pending' \subseteq Orders /\ file' \in [row : [Orders -> Rows], pending : SUBSET Orders, pos : Positions]
  <2>1. PICK S \in SUBSET Orders : SaveBoth(S, row', pos')
    BY DEF OnFillNotice, TypeOK
  <2> QED BY <2>1, <1>3, <1>5, NormalizedType DEF SaveBoth
<1>7. seen' \subseteq net /\ torn' \subseteq Orders /\ fresh' \in BOOLEAN
      /\ doubt' \in {"none", "passing", "lasting"}
  BY <1>1 DEF OnFillNotice, TypeOK
<1> QED BY <1>3, <1>4, <1>5, <1>6, <1>7 DEF OnFillNotice, TypeOK

LEMMA StartType ==
  ASSUME TypeInv, NEW b \in Reads, StartSync(b) \/ StartClose(b)
  PROVE  TypeInv'
<1> USE SizeAssumption, BoundsAssumption, OrdersAssumption
        DEF TypeInv, InHand, broker, book, bounds
<1>1. PICK close \in BOOLEAN : StartJob(close, b) /\ closes' \in 0 .. MaxCloses
  <2>1. CASE StartSync(b)
    BY <2>1 DEF StartSync, TypeOK
  <2>2. CASE StartClose(b)
    <3>1. closes' \in 0 .. MaxCloses
      BY <2>2 DEF StartClose, TypeOK
    <3>2. StartJob(TRUE, b)
      BY <2>2 DEF StartClose
    <3> QED BY <3>1, <3>2
  <2> QED BY <2>1, <2>2
<1>2. bal' \in Balances /\ acc' \in Nat
  BY <1>1 DEF StartJob, TypeOK, Balances, Reads, Positions
<1>3. /\ pc' \in {"idle", "placing", "rows", "answer", "list", "positions", "assign", "clear"}
      /\ pc' # "answer" /\ fresh' \in BOOLEAN
  BY <1>1 DEF StartJob, AfterRows
<1> QED BY <1>1, <1>2, <1>3 DEF StartJob, TypeOK

LEMMA ReadRowType ==
  ASSUME TypeInv, NEW o \in Orders, ReadRow(o)
  PROVE  TypeInv'
<1> USE SizeAssumption, BoundsAssumption, OrdersAssumption
        DEF TypeInv, InHand, broker, book, history, bounds
<1>1. row[o] \in Rows /\ pos \in Positions
  BY DEF TypeOK
<1>2. Greater(row[o].accum, pos.of[o]) \in Nat /\ row[o].qty \in 0 .. Size
  BY <1>1 DEF Greater, Rows, Positions
<1>3. (~row[o].priced \/ row[o].part) \in BOOLEAN
  OBVIOUS
<1>4. cur' \in [order : Orders \cup {NoOrder}, qty : 0 .. Size, already : Nat, asks : BOOLEAN]
      /\ cur'.order = o
  BY <1>2, <1>3 DEF ReadRow
<1> QED BY <1>4 DEF ReadRow, TypeOK

LEMMA AnswerType ==
  ASSUME TypeInv, NEW cum \in 0 .. Size \cup {-1}, Answer(cum)
  PROVE  TypeInv'
<1> USE SizeAssumption, BoundsAssumption, OrdersAssumption
        DEF TypeInv, InHand, broker, history, bounds
<1> DEFINE o == cur.order
<1>1. /\ o \in Orders /\ cur.qty \in 0 .. Size /\ cur.already \in Nat
      /\ row[o] \in Rows /\ row[o].qty \in 1 .. Size /\ row[o].accum \in Nat
      /\ told[o] \in Nat /\ acc \in Nat /\ bal \in Int
  <2>1. o \in Orders
    BY DEF Answer
  <2>2. row[o] \in Rows /\ told[o] \in Nat /\ acc \in Nat
    BY <2>1 DEF TypeOK
  <2>3. cur.qty \in 0 .. Size /\ cur.already \in Nat
    BY DEF TypeOK
  <2>4. bal \in Int
    BY DEF TypeOK, Balances
  <2> QED BY <2>1, <2>2, <2>3, <2>4 DEF Rows
<1>2. New(cum) \in Nat /\ Delta \in Nat
  BY <1>1 DEF New, Delta, Greater
<1>3. PartOf(cum) \in Nat /\ (PartOf(cum) > 0 => cur.qty - PartOf(cum) \in 1 .. Size)
  BY <1>1, <1>2 DEF PartOf
<1>4. cur' \in [order : Orders \cup {NoOrder}, qty : 0 .. Size, already : Nat, asks : BOOLEAN]
  BY CurTypes DEF Answer
<1>5. CASE PartFilled(cum)
  <2>1. pos' \in Positions
    BY <1>1, <1>3, <1>5, AppendType DEF PartFilled, TypeOK
  <2>2. told' \in [Orders -> Nat] /\ acc' \in Nat
    BY <1>1, <1>3, <1>5 DEF PartFilled, TypeOK
  <2>3. row' \in [Orders -> Rows]
    BY <1>1, <1>3, <1>5 DEF PartFilled, TypeOK, Rows
  <2> QED BY <1>1, <1>4, <1>5, <2>1, <2>2, <2>3 DEF PartFilled, Answer, TypeOK
<1>6. CASE AllFilled(cum)
  <2>1. pos' \in Positions
    BY <1>1, <1>6, AppendType DEF AllFilled, TypeOK
  <2>2. told' \in [Orders -> Nat] /\ acc' \in Nat
    BY <1>1, <1>6 DEF AllFilled, TypeOK
  <2>3. row' \in [Orders -> Rows]
    BY <1>1, <1>6 DEF AllFilled, TypeOK, Rows
  <2> QED BY <1>1, <1>4, <1>6, <2>1, <2>2, <2>3 DEF AllFilled, Answer, TypeOK
<1>7. CASE NothingFilled(cum)
  <2>1. row' \in [Orders -> Rows]
    <3>1. PICK due \in BOOLEAN :
             row' = [row EXCEPT ![o].priced = (row[o].priced \/ cum > 0),
                                ![o].recorded = (row[o].recorded \/ due)]
      BY <1>1, <1>7 DEF NothingFilled, TypeOK
    <3>2. (row[o].priced \/ cum > 0) \in BOOLEAN /\ (row[o].recorded \/ due) \in BOOLEAN
      OBVIOUS
    <3>3. \A b, c \in BOOLEAN : [row[o] EXCEPT !.priced = b, !.recorded = c] \in Rows
      BY <1>1 DEF Rows
    <3>4. row \in [Orders -> Rows]
      BY DEF TypeOK
    <3> HIDE DEF o
    <3> QED BY <1>1, <3>1, <3>2, <3>3, <3>4
  <2>2. unknown' \subseteq Orders /\ dirty' \in BOOLEAN
    BY <1>1, <1>7 DEF NothingFilled, TypeOK
  <2> QED BY <1>1, <1>4, <1>7, <2>1, <2>2 DEF NothingFilled, Answer, TypeOK
<1> QED BY <1>5, <1>6, <1>7 DEF Answer

LEMMA SaveType ==
  ASSUME TypeInv, SavePositions \/ ReadPositions \/ AssignPositions
  PROVE  TypeInv'
<1> USE SizeAssumption, BoundsAssumption, OrdersAssumption
        DEF TypeInv, InHand, broker, book, history, bounds
<1>1. CASE SavePositions
  <2>1. file' \in [row : [Orders -> Rows], pending : SUBSET Orders, pos : Positions]
    BY <1>1 DEF SavePositions, TypeOK
  <2> QED BY <1>1, <2>1 DEF SavePositions, TypeOK
<1>2. CASE ReadPositions
  <2>1. pos' \in Positions
    BY <1>2, CorrectedType DEF ReadPositions, TypeOK, Balances
  <2> QED BY <1>2, <2>1, SyncedType DEF ReadPositions, TypeOK
<1>3. CASE AssignPositions
  <2>1. file' \in [row : [Orders -> Rows], pending : SUBSET Orders, pos : Positions]
    BY <1>3 DEF AssignPositions, TypeOK
  <2> QED BY <1>3, <2>1, NoPositionType DEF AssignPositions, TypeOK, Balances
<1> QED BY <1>1, <1>2, <1>3

LEMMA CrashType ==
  ASSUME TypeInv, Crash
  PROVE  TypeInv'
<1> USE SizeAssumption, BoundsAssumption, OrdersAssumption DEF TypeInv, InHand
<1>1. file.row \in [Orders -> Rows] /\ file.pending \in SUBSET Orders /\ file.pos \in Positions
  BY DEF TypeOK
<1>2. pending' \subseteq Orders /\ file' \in [row : [Orders -> Rows], pending : SUBSET Orders, pos : Positions]
  BY <1>1, NormalizedType DEF Crash, SavePending, TypeOK
<1>3. pos' \in Positions
  <2>1. held \in Nat
    BY DEF TypeOK
  <2> QED BY <1>1, <2>1, CorrectedType DEF Crash
<1>4. cur' \in [order : Orders \cup {NoOrder}, qty : 0 .. Size, already : Nat, asks : BOOLEAN]
  BY CurTypes DEF Crash
<1>5. torn' \subseteq Orders /\ doubt' \in {"none", "passing", "lasting"}
      /\ crashes' \in 0 .. MaxCrashes
  <2>1. torn' \subseteq torn \cup file.pending /\ crashes' = crashes + 1 /\ crashes < MaxCrashes
        /\ (doubt' = "lasting" \/ doubt' = doubt)
    BY DEF Crash
  <2> QED BY <2>1, <1>1 DEF TypeOK
<1> QED BY <1>1, <1>2, <1>3, <1>4, <1>5, NoPositionType DEF Crash, TypeOK, Balances

LEMMA NextType ==
  ASSUME TypeInv, [Next]_vars
  PROVE  TypeInv'
<1>1. CASE UNCHANGED vars
  BY <1>1 DEF vars, broker, book, loop, history, bounds, TypeInv, TypeOK, InHand
<1>2. CASE UserBuys
  BY <1>2, BrokerUserType
<1>3. ASSUME NEW o \in Orders, Place(o) \/ Drop(o) \/ \E n \in 1 .. Size : Fill(o, n) PROVE TypeInv'
  BY <1>3, BrokerType
<1>4. CASE Midnight \/ (\E o \in Orders : AddPendingOrder(o)) \/ RebuildPending \/ ClearPending
  BY <1>4, RowsType
<1>5. CASE \E n \in net : OnFillNotice(n)
  BY <1>5, NoticeType
<1>6. CASE \E b \in Reads : StartSync(b) \/ StartClose(b)
  BY <1>6, StartType
<1>7. CASE \E o \in Orders : ReadRow(o)
  BY <1>7, ReadRowType
<1>8. CASE \E cum \in 0 .. Size \cup {-1} : Answer(cum)
  BY <1>8, AnswerType
<1>9. CASE SavePositions \/ ReadPositions \/ AssignPositions
  BY <1>9, SaveType
<1>10. CASE Crash
  BY <1>10, CrashType
<1> QED BY <1>1, <1>2, <1>3, <1>4, <1>5, <1>6, <1>7, <1>8, <1>9, <1>10 DEF Next, LoopStep

\* Whatever the orders, their size and the bounds, the bookkeeping is well formed.
THEOREM TypeCorrect == Spec => []TypeOK
<1>1. TypeInv => TypeOK
  BY DEF TypeInv
<1> QED BY <1>1, InitType, NextType, PTL DEF Spec

-----------------------------------------------------------------------------
LEMMA InitRows == Init => RowsInv
<1> SUFFICES ASSUME Init PROVE RowsInv OBVIOUS
<1>1. \A o \in Orders : Whole(row[o]) /\ Whole(file.row[o])
  <2>1. NewRow.qty = Size /\ NewRow.accum = 0 /\ Size + 0 = Size
    BY SizeAssumption DEF NewRow
  <2>2. \A o \in Orders : row[o] = NewRow /\ file.row[o] = NewRow
    BY DEF Init
  <2> QED BY <2>1, <2>2 DEF Whole
<1> QED BY <1>1, OrdersAssumption DEF Init, RowsInv, Entering, Unentered, Reconciling, NoDecision,
                                       Undecided

LEMMA BrokerRows ==
  ASSUME TypeInv, RowsInv, NEW o \in Orders, Place(o) \/ Drop(o) \/ \E n \in 1 .. Size : Fill(o, n)
  PROVE  RowsInv'
<1> USE OrdersAssumption DEF InHand, InJob, Entering, Unentered, Reconciling, Whole
<1>1. CASE Place(o)
  <2>1. /\ Unentered(o) /\ stage'[o] = "live"
        /\ \A p \in Orders \ {o} : stage'[p] = stage[p]
        /\ UNCHANGED <<row, pending, told, todo, kept, dirty, file, torn>>
    BY <1>1 DEF Place, TypeInv, TypeOK, book, history
  <2>2. \/ ws' = o /\ ws = NoOrder /\ pc' = pc /\ cur' = cur
        \/ ws' = ws /\ pc = "idle" /\ pc' = "placing" /\ cur'.order = o
    BY <1>1 DEF Place, Undecided
  <2>3. Reconciling' = Reconciling /\ InHand' = InHand /\ InJob' = InJob
    BY <2>1, <2>2
  <2>4. \A p \in Orders \ {o} : Unentered(p)' => Unentered(p)
    BY <2>1, <2>2
  <2>5. ~Entering(o)
    BY <1>1 DEF Place, RowsInv
  <2> QED BY <2>1, <2>2, <2>3, <2>4, <2>5 DEF RowsInv
<1>2. CASE Drop(o)
  BY <1>2 DEF Drop, RowsInv, TypeInv, TypeOK, book, loop, history
<1>3. ASSUME NEW n \in 1 .. Size, Fill(o, n) PROVE RowsInv'
  BY <1>3 DEF Fill, RowsInv, TypeInv, TypeOK, book, loop, history
<1> QED BY <1>1, <1>2, <1>3

LEMMA QuietRows ==
  ASSUME TypeInv, RowsInv, UserBuys \/ Midnight \/ ReadPositions \/ AssignPositions
  PROVE  RowsInv'
<1> USE OrdersAssumption DEF InHand, InJob, Entering, Unentered, Reconciling, Whole
<1>1. CASE UserBuys
  BY <1>1 DEF UserBuys, RowsInv, TypeInv, TypeOK, book, loop, history
<1>2. CASE Midnight
  <2>1. \A o \in Orders : row'[o].qty = row[o].qty /\ row'[o].accum = row[o].accum
    BY <1>2 DEF Midnight, TypeInv, TypeOK, Rows
  <2>2. pc = "answer" => cur.order \in Orders
    BY DEF TypeInv
  <2>3. pending \subseteq Orders /\ todo \subseteq Orders /\ kept \subseteq Orders
    BY DEF TypeInv, TypeOK
  <2>4. UNCHANGED <<stage, pending, told, ws, file, torn, pc, todo, kept, cur, dirty>>
    BY <1>2 DEF Midnight, broker, loop, history
  <2>5. /\ InHand' = InHand /\ Reconciling' = Reconciling /\ InJob' = InJob /\ InJob \subseteq Orders
        /\ \A o \in Orders : (Unentered(o)' <=> Unentered(o)) /\ (Entering(o)' <=> Entering(o))
    BY <2>2, <2>3, <2>4
  <2>6. \A o \in Orders \ torn' : Whole(row'[o]) /\ Whole(file'.row[o])
    BY <2>1, <2>4 DEF RowsInv
  <2>7. pc' = "answer" /\ cur'.order \notin torn' => cur'.qty = row'[cur'.order].qty
    BY <2>1, <2>2, <2>4 DEF RowsInv
  <2> HIDE DEF InHand, InJob, Entering, Unentered, Reconciling, Whole
  <2> QED BY <2>1, <2>3, <2>4, <2>5, <2>6, <2>7 DEF RowsInv
<1>3. CASE ReadPositions
  BY <1>3 DEF ReadPositions, RowsInv, TypeInv, TypeOK, broker, history, vars
<1>4. CASE AssignPositions
  BY <1>4 DEF AssignPositions, RowsInv, TypeInv, TypeOK, broker
<1> QED BY <1>1, <1>2, <1>3, <1>4

LEMMA AddRows ==
  ASSUME TypeInv, RowsInv, NEW o \in Orders, AddPendingOrder(o)
  PROVE  RowsInv'
<1> USE OrdersAssumption DEF InHand, InJob, Entering, Unentered, Reconciling
<1>1. Entering(o) /\ ~Entering(o)'
  BY DEF AddPendingOrder, RowsInv, NoDecision, Undecided
<1>2. \A p \in Orders \ {o} : Entering(p)' <=> Entering(p)
  BY DEF AddPendingOrder, NoDecision, Undecided, TypeInv, TypeOK
<1>3. /\ row'[o].qty = Size /\ row'[o].accum = 0
      /\ \A p \in Orders \ {o} : row'[p] = row[p]
  BY DEF AddPendingOrder, TypeInv, TypeOK, NewRow
<1>4. /\ pending' \subseteq pending \cup {o} /\ file'.row = row' /\ file'.pending = pending'
  BY NormalizedType DEF AddPendingOrder, SavePending, TypeInv, TypeOK
<1>5. /\ InHand' = InHand /\ Reconciling' = Reconciling /\ InJob' = InJob
      /\ UNCHANGED <<stage, told, todo, kept, dirty, torn>>
      /\ pc' = "answer" => cur' = cur
      /\ pc' = "list" => pc = "list"
      /\ ws' \in {NoOrder, ws}
  BY DEF AddPendingOrder, broker
<1>6. told[o] = 0 /\ (Reconciling => o \notin InJob) /\ stage[o] # "new"
  BY <1>1 DEF RowsInv
<1>7. \A p \in Orders \ torn' : Whole(row'[p]) /\ Whole(file'.row[p])
  <2>1. torn' = torn /\ file'.row = row'
    BY <1>4, <1>5
  <2>2. Whole(row'[o])
    BY <1>3, SizeAssumption DEF Whole
  <2>3. \A p \in Orders \ {o} : p \notin torn => Whole(row'[p])
    BY <1>3 DEF RowsInv
  <2> QED BY <2>1, <2>2, <2>3
<1>8. \A p \in Orders : Unentered(p)' => Unentered(p) /\ p # o
  BY <1>1, <1>2, <1>5, <1>6
<1>9. pc' \notin {"placing", "answer"} => cur'.order = NoOrder
  BY DEF AddPendingOrder, RowsInv, NoDecision, Undecided
<1>10. pc' = "answer" /\ cur'.order \notin torn' => cur'.qty = row'[cur'.order].qty
  BY <1>3, <1>5, <1>6 DEF RowsInv, TypeInv
<1>11. Reconciling' => /\ todo' \cap kept' = {} /\ InHand' \cap (todo' \cup kept') = {}
                       /\ \A p \in InJob' \ torn' : told'[p] = row'[p].accum
  BY <1>3, <1>5, <1>6 DEF RowsInv, TypeInv, TypeOK
<1>12. \A p \in pending' \ torn' :
          told'[p] = row'[p].accum \/ (Reconciling' /\ dirty' /\ p \notin InJob')
  <2> SUFFICES ASSUME NEW p \in pending', p \notin torn, p # o
               PROVE  told[p] = row[p].accum \/ (Reconciling /\ dirty /\ p \notin InJob)
    <3>1. pending' \subseteq Orders
      BY <1>4 DEF TypeInv, TypeOK
    <3>2. told'[o] = row'[o].accum
      BY <1>3, <1>5, <1>6
    <3>3. \A p \in pending' \ {o} : told'[p] = told[p] /\ row'[p].accum = row[p].accum
      BY <1>3, <1>5, <3>1
    <3>4. torn' = torn /\ Reconciling' = Reconciling /\ dirty' = dirty /\ InJob' = InJob
      BY <1>5
    <3> HIDE DEF InHand, InJob, Reconciling
    <3> QED BY <3>2, <3>3, <3>4
  <2> QED BY <1>4 DEF RowsInv
<1>13. \A p \in Orders : /\ Entering(p)' => stage'[p] # "new"
                          /\ ~(ws' = p /\ pc' = "placing" /\ cur'.order = p)
  <2>1. \A p \in Orders : Entering(p)' => stage'[p] # "new"
    BY <1>1, <1>2, <1>5 DEF RowsInv
  <2>2. ws' = NoOrder \/ pc' # "placing"
    BY DEF AddPendingOrder
  <2> QED BY <2>1, <2>2
<1>14. \A p \in Orders : Unentered(p)' => /\ told'[p] = 0 /\ p \notin pending' /\ p \notin file'.pending
                                          /\ Reconciling' => p \notin InJob'
  BY <1>4, <1>5, <1>8 DEF RowsInv
<1> QED BY <1>5, <1>7, <1>9, <1>10, <1>11, <1>12, <1>13, <1>14 DEF RowsInv

\* A notice tears the row it changes while a job is on; else it keeps the row whole.
LEMMA NoticeRows ==
  ASSUME TypeInv, RowsInv, NEW n \in net, OnFillNotice(n)
  PROVE  RowsInv'
<1> USE OrdersAssumption DEF InHand, InJob, Entering, Unentered, Reconciling
<1> DEFINE o == n.order
           q == Lesser(n.qty, row[o].qty)
<1>1. /\ o \in Orders /\ o \in pending /\ n.qty \in Nat /\ row[o].qty \in Nat /\ row[o].accum \in Nat
      /\ told[o] \in Nat /\ pending \subseteq Orders /\ InJob \subseteq Orders
  BY DEF OnFillNotice, TypeInv, TypeOK, Notices, Rows
<1>2. UNCHANGED <<stage, pc, todo, kept, cur, dirty, ws>>
  BY DEF OnFillNotice, broker, loop
<1>3. /\ InHand' = InHand /\ Reconciling' = Reconciling /\ InJob' = InJob
      /\ \A p \in Orders : (Unentered(p)' <=> Unentered(p)) /\ (Entering(p)' <=> Entering(p))
  BY <1>2
<1>4. \A p \in Orders \ {o} : row'[p] = row[p] /\ told'[p] = told[p]
  BY <1>1 DEF OnFillNotice, TypeInv, TypeOK
<1>5. ~Unentered(o)
  BY <1>1 DEF RowsInv
<1>6. /\ torn' = IF Reconciling THEN torn \cup {o} ELSE torn
      /\ file'.row = row' /\ file'.pending = pending' /\ pending' \subseteq pending
  <2>1. PICK S \in SUBSET pending : SaveBoth(S, row', pos') /\ (n.qty < row[o].qty \/ o \notin S)
    BY DEF OnFillNotice
  <2>2. pending' \subseteq S
    BY <2>1, <1>1, NormalizedType DEF SaveBoth
  <2>3. torn' = IF Reconciling THEN torn \cup {o} ELSE torn
    BY DEF OnFillNotice
  <2> QED BY <2>1, <2>2, <2>3 DEF SaveBoth
<1>7. o \in pending' => n.qty < row[o].qty
  <2>1. PICK S \in SUBSET pending : SaveBoth(S, row', pos') /\ (n.qty < row[o].qty \/ o \notin S)
    BY DEF OnFillNotice
  <2>2. pending' \subseteq S
    BY <2>1, <1>1, NormalizedType DEF SaveBoth
  <2> QED BY <2>1, <2>2
<1>8. /\ row'[o].qty + row'[o].accum = row[o].qty + row[o].accum
      /\ n.qty < row[o].qty => told'[o] = told[o] + n.qty /\ row'[o].accum = row[o].accum + n.qty
  <2>1. CASE n.qty < row[o].qty
    <3>1. q = n.qty
      BY <1>1, <2>1 DEF Lesser
    <3>2. row'[o].qty = row[o].qty - n.qty /\ row'[o].accum = row[o].accum + q /\ told'[o] = told[o] + q
      BY <1>1, <2>1 DEF OnFillNotice, TypeInv, TypeOK, Rows
    <3> QED BY <1>1, <3>1, <3>2
  <2>2. CASE ~(n.qty < row[o].qty)
    BY <1>1, <2>2 DEF OnFillNotice, TypeInv, TypeOK, Rows
  <2> QED BY <2>1, <2>2
<1> HIDE DEF o, InHand, InJob, Entering, Unentered, Reconciling
<1>9. \A p \in Orders \ torn' : Whole(row'[p]) /\ Whole(file'.row[p])
  BY <1>4, <1>6, <1>8 DEF RowsInv, Whole
<1>10. Reconciling' => \A p \in InJob' \ torn' : told'[p] = row'[p].accum
  BY <1>1, <1>3, <1>4, <1>6 DEF RowsInv
<1>11. pc' = "answer" /\ cur'.order \notin torn' => cur'.qty = row'[cur'.order].qty
  <2>1. pc = "answer" => Reconciling /\ cur.order \in Orders
    BY DEF Reconciling, TypeInv, InHand
  <2> QED BY <2>1, <1>2, <1>4, <1>6 DEF RowsInv
<1>12. \A p \in pending' \ torn' :
          told'[p] = row'[p].accum \/ (Reconciling' /\ dirty' /\ p \notin InJob')
  <2>1. ASSUME NEW p \in pending', p \notin torn', p # o
        PROVE  told'[p] = row'[p].accum \/ (Reconciling /\ dirty /\ p \notin InJob)
    BY <2>1, <1>1, <1>4, <1>6 DEF RowsInv
  <2>2. ASSUME o \in pending', o \notin torn'
        PROVE  told'[o] = row'[o].accum
    BY <2>2, <1>1, <1>6, <1>7, <1>8 DEF RowsInv
  <2> QED BY <2>1, <2>2, <1>2, <1>3
<1>13. \A p \in Orders : Unentered(p)' => /\ told'[p] = 0 /\ p \notin pending' /\ p \notin file'.pending
                                          /\ Reconciling' => p \notin InJob'
  BY <1>3, <1>4, <1>5, <1>6 DEF RowsInv
<1> QED BY <1>2, <1>3, <1>9, <1>10, <1>11, <1>12, <1>13 DEF RowsInv

LEMMA StartRows ==
  ASSUME TypeInv, RowsInv, NEW b \in Reads, StartSync(b) \/ StartClose(b)
  PROVE  RowsInv'
<1> USE OrdersAssumption DEF InHand, InJob, Entering, Unentered, Reconciling
<1>1. PICK close \in BOOLEAN : StartJob(close, b)
  BY DEF StartSync, StartClose
<1>2. /\ pc = "idle" /\ pc' \in {"rows", "clear", "positions"} /\ todo' = pending /\ kept' = {}
      /\ ~dirty' /\ UNCHANGED <<stage, row, pending, told, cur, ws, file, torn>>
  BY <1>1 DEF StartJob, AfterRows, broker, book
<1>3. InJob' = pending /\ InHand' = {}
  BY <1>2
<1>4. \A p \in Orders : Entering(p)' <=> Entering(p)
  BY <1>2
<1> QED BY <1>2, <1>3, <1>4 DEF RowsInv, TypeInv, TypeOK

LEMMA ReadRowRows ==
  ASSUME TypeInv, RowsInv, NEW o \in Orders, ReadRow(o)
  PROVE  RowsInv'
<1> USE OrdersAssumption DEF InHand, InJob, Entering, Unentered, Reconciling
<1>1. /\ pc = "rows" /\ pc' = "answer" /\ todo' = todo \ {o} /\ kept' = kept /\ o \in todo
      /\ cur'.order = o /\ cur'.qty = row[o].qty
      /\ UNCHANGED <<stage, row, pending, told, ws, file, torn, dirty>>
  BY DEF ReadRow, broker, book, history
<1>2. InJob' = InJob
  BY <1>1
<1>3. \A p \in Orders : Entering(p)' <=> Entering(p)
  BY <1>1
<1> QED BY <1>1, <1>2, <1>3 DEF RowsInv

LEMMA SaveRows ==
  ASSUME TypeInv, RowsInv, SavePositions \/ RebuildPending \/ ClearPending
  PROVE  RowsInv'
<1> USE OrdersAssumption DEF InHand, InJob, Entering, Unentered, Reconciling
<1>1. CASE SavePositions
  <2>1. /\ pc = "rows" /\ pc' \in {"list", "clear", "positions"} /\ (pc' = "list" <=> dirty)
        /\ file'.row = file.row /\ file'.pending = file.pending
        /\ UNCHANGED <<stage, row, pending, told, ws, torn, dirty, todo, kept, cur>>
    BY <1>1 DEF SavePositions, broker, book, history, TypeInv, TypeOK
  <2>2. InJob' = InJob /\ InHand' = {}
    BY <2>1
  <2>3. \A p \in Orders : Entering(p)' <=> Entering(p)
    BY <2>1
  <2> QED BY <2>1, <2>2, <2>3 DEF RowsInv
<1>2. CASE RebuildPending
  <2>1. /\ pc = "list" /\ pc' \in {"clear", "positions"}
        /\ file'.row = row /\ file'.pending = pending' /\ pending' \subseteq kept
        /\ UNCHANGED <<stage, row, told, ws, torn, dirty, todo, kept, cur>>
    BY <1>2, NormalizedType DEF RebuildPending, SavePending, broker, history, TypeInv, TypeOK
  <2>2. \A p \in Orders : Entering(p)' <=> Entering(p)
    BY <2>1
  <2> QED BY <2>1, <2>2 DEF RowsInv
<1>3. CASE ClearPending
  <2>1. /\ pc = "clear" /\ pc' = "idle"
        /\ file'.row = row /\ file'.pending = {} /\ pending' = {}
        /\ UNCHANGED <<stage, row, told, ws, torn, cur>>
    BY <1>3, NormalizedType DEF ClearPending, SavePending, broker, history, TypeInv, TypeOK
  <2>2. \A p \in Orders : Entering(p)' <=> Entering(p)
    BY <2>1
  <2> QED BY <2>1, <2>2 DEF RowsInv
<1> QED BY <1>1, <1>2, <1>3

LEMMA CrashRows ==
  ASSUME TypeInv, RowsInv, Crash
  PROVE  RowsInv'
<1> USE OrdersAssumption DEF InHand, InJob, Entering, Unentered, Reconciling
<1>1. /\ row' = file.row /\ file'.row = file.row /\ pending' \subseteq file.pending
      /\ file'.pending = pending' /\ pc' = "idle" /\ cur'.order = NoOrder /\ ws' = NoOrder
      /\ UNCHANGED <<stage, told>>
      /\ torn' = torn \cup {o \in file.pending : told[o] # file.row[o].accum}
  BY NormalizedType DEF Crash, SavePending, NoDecision, Undecided, TypeInv, TypeOK
<1>2. \A p \in Orders : ~Entering(p)'
  BY <1>1
<1> QED BY <1>1, <1>2 DEF RowsInv, TypeInv, TypeOK

LEMMA AnswerRows ==
  ASSUME TypeInv, RowsInv, NEW cum \in 0 .. Size \cup {-1}, Answer(cum)
  PROVE  RowsInv'
<1> USE OrdersAssumption DEF InHand, InJob, Entering, Unentered, Reconciling
<1> DEFINE o == cur.order
<1>1. /\ o \in Orders /\ pc = "answer" /\ pc' = "rows" /\ cur'.order = NoOrder
      /\ UNCHANGED <<stage, pending, ws, file, torn, todo>>
      /\ row[o].qty \in Nat /\ row[o].accum \in Nat /\ told[o] \in Nat /\ cur.qty \in Nat
      /\ kept \subseteq Orders /\ todo \subseteq Orders /\ pending \subseteq Orders
  <2>1. o \in Orders
    BY DEF Answer, TypeInv
  <2>2. row[o] \in Rows /\ told[o] \in Nat
    BY <2>1 DEF TypeInv, TypeOK
  <2>3. cur.qty \in Nat
    BY SizeAssumption DEF TypeInv, TypeOK
  <2>4. row[o].qty \in Nat /\ row[o].accum \in Nat
    BY <2>2, SizeAssumption DEF Rows
  <2> QED BY <2>1, <2>2, <2>3, <2>4 DEF Answer, NoDecision, Undecided, broker, history, TypeInv, TypeOK
<1>2. /\ \A p \in Orders \ {o} : row'[p] = row[p] /\ told'[p] = told[p]
      /\ kept' \in {kept, kept \cup {o}} /\ (dirty => dirty')
  BY <1>1 DEF Answer, PartFilled, AllFilled, NothingFilled, TypeInv, TypeOK
<1>3. o \notin torn => row'[o].qty + row'[o].accum = row[o].qty + row[o].accum
  <2>1. CASE PartFilled(cum)
    <3>1. PartOf(cum) \in Int
      BY <1>1 DEF PartOf, New, Delta, Greater, TypeInv, TypeOK, Balances
    <3>2. o \notin torn => cur.qty = row[o].qty
      BY <1>1 DEF RowsInv
    <3>3. row'[o].qty = cur.qty - PartOf(cum) /\ row'[o].accum = row[o].accum + PartOf(cum)
      BY <1>1, <2>1 DEF PartFilled, TypeInv, TypeOK, Rows
    <3> QED BY <1>1, <3>1, <3>2, <3>3
  <2>2. CASE AllFilled(cum)
    BY <1>1, <2>2 DEF AllFilled, TypeInv, TypeOK, Rows
  <2>3. CASE NothingFilled(cum)
    BY <1>1, <2>3 DEF NothingFilled, TypeInv, TypeOK, Rows
  <2> QED BY <2>1, <2>2, <2>3 DEF Answer
\* Either the row stays in the job with what was told in step, or the job drops it.
<1>4. \/ kept' = kept \cup {o} /\ (o \notin torn => told'[o] = row'[o].accum)
      \/ kept' = kept /\ dirty'
  <2>1. o \notin torn => told[o] = row[o].accum
    BY <1>1 DEF RowsInv
  <2>2. CASE PartFilled(cum)
    <3>1. row'[o].accum = row[o].accum + PartOf(cum) /\ told'[o] = told[o] + PartOf(cum)
      BY <1>1, <2>2 DEF PartFilled, TypeInv, TypeOK, Rows
    <3> QED BY <2>1, <2>2, <3>1 DEF PartFilled
  <2>3. CASE AllFilled(cum)
    BY <2>3 DEF AllFilled
  <2>4. CASE NothingFilled(cum)
    <3>1. row'[o].accum = row[o].accum /\ told' = told
      BY <1>1, <2>4 DEF NothingFilled, TypeInv, TypeOK, Rows
    <3> QED BY <2>1, <2>4, <3>1 DEF NothingFilled
  <2> QED BY <2>2, <2>3, <2>4 DEF Answer
<1> HIDE DEF o
<1>5. InJob = todo \cup kept \cup {o} /\ InJob' = todo \cup kept' /\ InHand' = {}
  BY <1>1 DEF o
<1>6. o \notin todo \cup kept /\ ~Unentered(o)
  BY <1>1, <1>5 DEF RowsInv, o
<1>7. \A p \in Orders \ torn' : Whole(row'[p]) /\ Whole(file'.row[p])
  BY <1>1, <1>2, <1>3 DEF RowsInv, Whole
<1>8. \A p \in InJob' \ torn' : told'[p] = row'[p].accum
  BY <1>1, <1>2, <1>4, <1>5, <1>6 DEF RowsInv
<1>9. \A p \in pending' \ torn' :
          told'[p] = row'[p].accum \/ (Reconciling' /\ dirty' /\ p \notin InJob')
  <2>1. ASSUME NEW p \in pending, p \notin torn, p # o
        PROVE  told'[p] = row'[p].accum \/ (dirty' /\ p \notin InJob')
    BY <2>1, <1>1, <1>2, <1>5 DEF RowsInv
  <2>2. ASSUME o \notin torn
        PROVE  told'[o] = row'[o].accum \/ (dirty' /\ o \notin InJob')
    BY <2>2, <1>4, <1>5, <1>6
  <2> QED BY <2>1, <2>2, <1>1
<1>10. \A p \in Orders : Entering(p)' <=> Entering(p)
  BY <1>1
<1>11. \A p \in Orders : Unentered(p)' => /\ told'[p] = 0 /\ p \notin pending' /\ p \notin file'.pending
                                          /\ Reconciling' => p \notin InJob'
  BY <1>1, <1>2, <1>5, <1>6, <1>10 DEF RowsInv
<1> QED BY <1>1, <1>2, <1>5, <1>6, <1>7, <1>8, <1>9, <1>10, <1>11 DEF RowsInv

LEMMA NextRows ==
  ASSUME TypeInv, RowsInv, [Next]_vars
  PROVE  RowsInv'
<1>1. CASE UNCHANGED vars
  BY <1>1 DEF vars, broker, book, loop, history, bounds, RowsInv, InHand, InJob, Entering, Unentered,
              Reconciling
<1>2. CASE UserBuys \/ Midnight \/ ReadPositions \/ AssignPositions
  BY <1>2, QuietRows
<1>3. ASSUME NEW o \in Orders, Place(o) \/ Drop(o) \/ \E n \in 1 .. Size : Fill(o, n) PROVE RowsInv'
  BY <1>3, BrokerRows
<1>4. CASE \E o \in Orders : AddPendingOrder(o)
  BY <1>4, AddRows
<1>5. CASE \E n \in net : OnFillNotice(n)
  BY <1>5, NoticeRows
<1>6. CASE \E b \in Reads : StartSync(b) \/ StartClose(b)
  BY <1>6, StartRows
<1>7. CASE \E o \in Orders : ReadRow(o)
  BY <1>7, ReadRowRows
<1>8. CASE \E cum \in 0 .. Size \cup {-1} : Answer(cum)
  BY <1>8, AnswerRows
<1>9. CASE SavePositions \/ RebuildPending \/ ClearPending
  BY <1>9, SaveRows
<1>10. CASE Crash
  BY <1>10, CrashRows
<1> QED BY <1>1, <1>2, <1>3, <1>4, <1>5, <1>6, <1>7, <1>8, <1>9, <1>10 DEF Next, LoopStep

\* A pending row that neither a crossing notice nor a restart has torn adds up to its order,
\* and PathB was told of what was taken off it, once.
THEOREM RowsAddUp == Spec => []RowAddsUp
<1>1. TypeInv /\ RowsInv => RowAddsUp
  <2> SUFFICES ASSUME TypeInv, RowsInv, NEW o \in pending, o \notin torn,
                      Reconciling => o \in todo \cup kept \cup {cur.order}
               PROVE  row[o].qty + row[o].accum = Size /\ told[o] = row[o].accum
    BY DEF RowAddsUp
  <2>1. o \in Orders /\ o # NoOrder
    BY OrdersAssumption DEF TypeInv, TypeOK
  <2>2. Reconciling => o \in InJob
    BY <2>1 DEF RowsInv, InJob, InHand, Reconciling
  <2> QED BY <2>1, <2>2 DEF RowsInv, Whole
<1>2. Init => TypeInv /\ RowsInv
  BY InitType, InitRows
<1>3. TypeInv /\ RowsInv /\ [Next]_vars => TypeInv' /\ RowsInv'
  BY NextType, NextRows
<1> QED BY <1>1, <1>2, <1>3, PTL DEF Spec

-----------------------------------------------------------------------------
(* One order: every step is one of ShareLedger                              *)
(*                                                                         *)
(* The ledger asks that outside doubt no more is counted than is held.  It *)
(* is inductive with what the loop may still add: a position and what a    *)
(* query finds beyond it (Within), or the balance shows beyond it, are     *)
(* together no more than is held, of the positions as they are and as the  *)
(* synchronisation will have them.  A notice that crosses breaks this only *)
(* by a position that ends in the order's number, and as such the next     *)
(* undisturbed synchronisation keeps it.                                   *)

OneOrderOnly == \A o, p \in Orders : o = p

\* Shares of the holding that the order has not bought.
Elsewhere(o) == held - filled[o]

\* The last entry is part of the position; one without a number has no entry of the order.
Proper(p) ==
    /\ p.qty <= p.total /\ (p.total > 0 => p.entries > 0)
    /\ p.by = NoOrder => \A o \in Orders : p.own[o] = 0 /\ p.of[o] = 0

\* A position, when the query has added what it finds, is no more than is held.
Within(p, o) == p.total <= Elsewhere(o) + Greater(row[o].accum, p.of[o])

\* The rows that are still to be reconciled.
InUse(o) == IF Reconciling THEN o \in InJob ELSE o \in pending

BrokerSound ==
    /\ \A o \in Orders : (stage[o] = "new" => filled[o] = 0) /\ filled[o] <= held
    /\ bal <= held
    /\ net # {} => held > 0

\* What the positions are synchronised to is one entry.
AllProper ==
    /\ Proper(pos) /\ Proper(synced) /\ Proper(file.pos)
    /\ \A o \in Orders : synced.by = o => synced.of[o] = synced.total

\* A job on rows, and a notice, come after the row; the job keeps or finishes it.
RowsEntered ==
    /\ Reconciling \/ doubt = "passing" => \A o \in Orders : ~Unentered(o)
    /\ Reconciling => \A o \in pending : o \in InJob \/ dirty
    /\ pc = "placing" => cur.order \in Orders

\* What a job has read still is what it read, unless a notice has crossed it: then the
\* positions end in the order's.
JobReads ==
    /\ Reconciling /\ (pos.by = NoOrder \/ doubt = "none") => acc = pos.total
    /\ pc = "answer" /\ doubt = "none" =>
          /\ cur.qty = row[cur.order].qty
          /\ cur.already = Greater(row[cur.order].accum, pos.of[cur.order])
    /\ Reconciling /\ bal > 0 /\ pos.by = NoOrder => \A o \in kept : bal <= pos.total
    /\ doubt = "passing" => held > 0
    /\ fresh /\ pc \notin {"idle", "placing"} => bal > 0

\* Outside doubt no more is counted than is held,
Counted ==
    /\ doubt = "none" => file.pos.total <= held /\ (~Correcting => pos.total <= held)
    /\ doubt = "none" /\ pc = "placing" => pos.total <= Elsewhere(cur.order)
    /\ pc = "assign" /\ (doubt = "none" \/ fresh) => synced.total <= held

\* and what a query or the balance can add is not counted already.
Accounted ==
    /\ pc # "assign" /\ (doubt = "none" \/ (doubt = "passing" /\ pos.by = NoOrder)) =>
          \A o \in Orders : InUse(o) => Within(pos, o)
    /\ pc = "assign" /\ doubt # "lasting" => \A o \in pending : Within(synced, o)
    /\ pc = "positions" /\ doubt # "lasting" /\ bal > 0 /\ pos.by = NoOrder =>
          \A o \in pending : bal <= Elsewhere(o) + row[o].accum

LedgerInv == BrokerSound /\ AllProper /\ RowsEntered /\ JobReads /\ Counted /\ Accounted

\* All of it.
BooksInv == TypeInv /\ RowsInv /\ LedgerInv

-----------------------------------------------------------------------------
\* What types say of the quantities.
LEMMA Numbers ==
  ASSUME TypeInv
  PROVE  /\ held \in Nat /\ bal \in Int /\ bal >= -1 /\ acc \in Nat /\ Size \in Nat
         /\ pos.total \in Nat /\ pos.qty \in Nat /\ synced.total \in Nat /\ synced.qty \in Nat
         /\ file.pos.total \in Nat /\ file.pos.qty \in Nat
         /\ \A o \in Orders : /\ filled[o] \in Nat /\ row[o].accum \in Nat /\ row[o].qty \in Nat
                              /\ row[o].qty > 0
                              /\ pos.of[o] \in Nat /\ synced.of[o] \in Nat /\ file.pos.of[o] \in Nat
BY SizeAssumption DEF TypeInv, TypeOK, Positions, Rows, Balances

LEMMA InitLedger == Init => LedgerInv
<1> SUFFICES ASSUME Init PROVE LedgerInv
  OBVIOUS
<1>1. Proper(NoPosition)
  BY DEF Proper, NoPosition
<1>2. /\ pc = "idle" /\ bal = 0 /\ held = 0 /\ net = {} /\ doubt = "none" /\ pending = {}
      /\ pos = NoPosition /\ synced = NoPosition /\ file.pos = NoPosition
      /\ \A o \in Orders : filled[o] = 0
  BY DEF Init
<1>3. BrokerSound
  BY <1>2 DEF BrokerSound
<1>4. AllProper
  BY <1>1, <1>2 DEF AllProper, NoPosition
<1>5. RowsEntered /\ JobReads
  BY <1>2 DEF RowsEntered, JobReads, Reconciling
<1>6. Counted
  BY <1>2 DEF Counted, Correcting, NoPosition
<1>7. Accounted
  BY <1>2 DEF Accounted, InUse, Reconciling
<1> QED BY <1>3, <1>4, <1>5, <1>6, <1>7 DEF LedgerInv

-----------------------------------------------------------------------------
(* The broker and the user *)

\* More is held, by the order or by others: nothing has been counted of it yet.
LEMMA HoldingGrows ==
  ASSUME OneOrderOnly, TypeInv, LedgerInv, NEW n \in Nat,
         UNCHANGED <<book, loop, ws, file, history>>,
         held' = held + n, net' = net \/ n > 0,
         \A o \in Orders : /\ stage'[o] = "new" <=> stage[o] = "new"
                           /\ filled'[o] = filled[o] \/ filled'[o] = filled[o] + n
                           /\ filled'[o] # filled[o] => stage[o] # "new"
  PROVE  LedgerInv'
<1> USE DEF book, loop, history
<1>1. /\ held' >= held /\ held' \in Nat
      /\ \A o \in Orders : /\ filled[o] \in Nat /\ filled'[o] \in Nat
                           /\ Elsewhere(o)' >= Elsewhere(o) /\ Elsewhere(o) \in Int /\ Elsewhere(o)' \in Int
  BY Numbers DEF Elsewhere
<1>2. BrokerSound'
  BY <1>1, Numbers DEF LedgerInv, BrokerSound
<1>3. AllProper' /\ RowsEntered'
  BY DEF LedgerInv, AllProper, Proper, RowsEntered, Reconciling, Unentered, Entering, InJob, InHand
<1>4. JobReads'
  BY <1>1, Numbers DEF LedgerInv, JobReads, Reconciling
<1>5. Counted'
  <2>1. doubt = "none" /\ pc = "placing" => cur.order \in Orders
    BY DEF LedgerInv, RowsEntered
  <2> QED BY <1>1, <2>1, Numbers DEF LedgerInv, Counted, Correcting
<1>6. Accounted'
  <2>1. ASSUME NEW p \in Positions, NEW o \in Orders, Within(p, o)
        PROVE  p.total <= Elsewhere(o)' + Greater(row'[o].accum, p.of[o])
    <3>1. p.total \in Nat /\ p.of[o] \in Nat
      BY DEF Positions
    <3> QED BY <1>1, <2>1, <3>1, Numbers DEF Within, Greater
  <2>2. pos \in Positions /\ synced \in Positions /\ pending \subseteq Orders
    BY DEF TypeInv, TypeOK
  <2>3. \A o \in Orders : InUse(o)' <=> InUse(o)
    BY DEF InUse, Reconciling, InJob, InHand
  <2>4. pc' # "assign" /\ (doubt' = "none" \/ (doubt' = "passing" /\ pos'.by = NoOrder)) =>
          \A o \in Orders : InUse(o)' => Within(pos, o)'
    BY <2>1, <2>2, <2>3 DEF LedgerInv, Accounted, Within
  <2>5. pc' = "assign" /\ doubt' # "lasting" => \A o \in pending' : Within(synced, o)'
    BY <2>1, <2>2 DEF LedgerInv, Accounted, Within
  <2>6. pc' = "positions" /\ doubt' # "lasting" /\ bal' > 0 /\ pos'.by = NoOrder =>
          \A o \in pending' : bal' <= Elsewhere(o)' + row'[o].accum
    BY <1>1, <2>2, Numbers DEF LedgerInv, Accounted
  <2> QED BY <2>4, <2>5, <2>6 DEF Accounted
<1> QED BY <1>2, <1>3, <1>4, <1>5, <1>6 DEF LedgerInv
LEMMA BrokerLedger ==
  ASSUME OneOrderOnly, TypeInv, RowsInv, LedgerInv, NEW o \in Orders,
         Drop(o) \/ \E n \in 1 .. Size : Fill(o, n)
  PROVE  LedgerInv'
<1>1. CASE Drop(o)
  <2>1. \A p \in Orders : stage'[p] = "new" <=> stage[p] = "new"
    BY <1>1 DEF Drop, TypeInv, TypeOK
  <2>2. held' = held + 0
    BY <1>1, Numbers DEF Drop
  <2> QED BY <1>1, <2>1, <2>2, HoldingGrows DEF Drop
<1>2. ASSUME NEW n \in 1 .. Size, Fill(o, n) PROVE LedgerInv'
  <2>1. \A p \in Orders : /\ stage'[p] = "new" <=> stage[p] = "new"
                          /\ filled'[p] = filled[p] \/ filled'[p] = filled[p] + n
                          /\ filled'[p] # filled[p] => stage[p] # "new"
    BY <1>2 DEF Fill, TypeInv, TypeOK
  <2>2. n \in Nat /\ held' = held + n
    BY <1>2, Numbers DEF Fill
  <2> QED BY <1>2, <2>1, <2>2, HoldingGrows DEF Fill
<1> QED BY <1>1, <1>2

LEMMA UserLedger ==
  ASSUME OneOrderOnly, TypeInv, RowsInv, LedgerInv, UserBuys
  PROVE  LedgerInv'
<1>1. held' = held + 1 /\ net' = net
  BY DEF UserBuys
<1> QED BY <1>1, HoldingGrows DEF UserBuys

\* The broker's answer on its way to the loop: no job runs, and nothing has been bought.
LEMMA PlaceLedger ==
  ASSUME OneOrderOnly, TypeInv, RowsInv, LedgerInv, NEW o \in Orders, Place(o)
  PROVE  LedgerInv'
<1> USE DEF book, history
<1>1. /\ UNCHANGED <<filled, held, net, row, pending, pos, bal, acc, todo, kept, dirty, synced, file,
                     fresh, doubt>>
      /\ stage[o] = "new" /\ \A p \in Orders : p = o /\ stage'[p] # "new"
      /\ \/ UNCHANGED <<pc, cur>>
         \/ pc = "idle" /\ pc' = "placing" /\ cur'.order = o
  BY DEF Place, Undecided, OneOrderOnly, TypeInv, TypeOK
<1>2. filled[o] = 0 /\ ~Reconciling /\ doubt # "passing"
  BY <1>1 DEF LedgerInv, BrokerSound, RowsEntered, Unentered
<1>3. ~Reconciling'
  BY <1>1, <1>2 DEF Reconciling
<1>4. BrokerSound' /\ AllProper'
  BY <1>1 DEF LedgerInv, BrokerSound, AllProper, Proper
<1>5. RowsEntered'
  BY <1>1, <1>2, <1>3 DEF LedgerInv, RowsEntered
<1>6. JobReads'
  BY <1>1, <1>2, <1>3 DEF LedgerInv, JobReads, Reconciling
<1>7. Counted'
  BY <1>1, <1>2, Numbers DEF LedgerInv, RowsEntered, Counted, Correcting, Elsewhere
<1>8. Accounted'
  BY <1>1, <1>2, <1>3 DEF LedgerInv, Accounted, InUse, Within, Elsewhere
<1> QED BY <1>4, <1>5, <1>6, <1>7, <1>8 DEF LedgerInv

LEMMA MidnightLedger ==
  ASSUME OneOrderOnly, TypeInv, RowsInv, LedgerInv, Midnight
  PROVE  LedgerInv'
<1>1. /\ UNCHANGED <<stage, filled, held, net, pending, pos, loop, ws, file, history>>
      /\ \A o \in Orders : row'[o].qty = row[o].qty /\ row'[o].accum = row[o].accum
  BY DEF Midnight, broker, history, TypeInv, TypeOK, Rows
<1> USE DEF loop, history
<1>2. BrokerSound' /\ AllProper'
  BY <1>1 DEF LedgerInv, BrokerSound, AllProper, Proper
<1>3. RowsEntered'
  BY <1>1 DEF LedgerInv, RowsEntered, Reconciling, Unentered, Entering, InJob, InHand
<1>4. JobReads'
  <2>1. pc = "answer" => cur.order \in Orders
    BY DEF TypeInv, InHand
  <2> QED BY <1>1, <2>1 DEF LedgerInv, JobReads, Reconciling
<1>5. Counted'
  BY <1>1 DEF LedgerInv, Counted, Correcting, Elsewhere
<1>6. Accounted'
  <2>1. pending \subseteq Orders
    BY DEF TypeInv, TypeOK
  <2> QED BY <1>1, <2>1 DEF LedgerInv, Accounted, InUse, Within, Elsewhere, Reconciling, InJob, InHand
<1> QED BY <1>2, <1>3, <1>4, <1>5, <1>6 DEF LedgerInv

-----------------------------------------------------------------------------
(* The row and the notice *)

\* A row that the WebSocket thread adds after a fill is in doubt for good.
LEMMA AddLedger ==
  ASSUME OneOrderOnly, TypeInv, RowsInv, LedgerInv, NEW o \in Orders, AddPendingOrder(o)
  PROVE  LedgerInv'
<1> USE DEF broker
<1>1. /\ UNCHANGED <<stage, filled, held, net, pos, bal, acc, todo, kept, dirty, synced>>
      /\ fresh' => fresh
      /\ Unentered(o) /\ \A p \in Orders : p = o /\ stage[p] # "new"
      /\ row'[o] = NewRow /\ file'.pos = file.pos /\ pending' \subseteq Orders
      /\ \/ pc = "placing" /\ pc' = "idle" /\ cur.order = o /\ UNCHANGED <<ws, doubt>>
         \/ /\ UNCHANGED <<pc, cur>>
            /\ doubt' = IF filled[o] > 0 THEN "lasting" ELSE doubt
  <2>1. pending' \subseteq Orders
    BY NormalizedType DEF AddPendingOrder, SavePending, TypeInv, TypeOK
  <2>2. stage[o] # "new" /\ Unentered(o)
    BY DEF AddPendingOrder, RowsInv, Entering, Unentered
  <2>3. Behind(NewRow, o) <=> filled[o] > 0
    BY DEF Behind, NewRow
  <2> QED BY <2>1, <2>2, <2>3 DEF AddPendingOrder, SavePending, OneOrderOnly, TypeInv, TypeOK
<1>2. ~Reconciling /\ ~Reconciling' /\ doubt # "passing" /\ NewRow.accum = 0
  BY <1>1 DEF LedgerInv, RowsEntered, Reconciling, NewRow
<1>3. BrokerSound' /\ AllProper'
  BY <1>1 DEF LedgerInv, BrokerSound, AllProper, Proper
<1>4. RowsEntered'
  BY <1>1, <1>2 DEF LedgerInv, RowsEntered
<1>5. JobReads'
  BY <1>1, <1>2 DEF LedgerInv, JobReads, Reconciling
<1>6. Counted'
  BY <1>1, <1>2 DEF LedgerInv, Counted, Correcting, Elsewhere
<1>7. doubt' = "none" => doubt = "none" /\ (filled[o] = 0 \/ pc = "placing")
  BY <1>1, Numbers
<1>8. Accounted'
  <2>1. ASSUME doubt' = "none", pc' # "assign" PROVE Within(pos, o)'
    <3>1. pos.total <= Elsewhere(o)
      BY <1>1, <1>7, <2>1, Numbers DEF LedgerInv, Counted, Correcting, Elsewhere
    <3>2. Greater(0, pos.of[o]) >= 0 /\ Greater(0, pos.of[o]) \in Int
      BY Numbers DEF Greater
    <3>3. Elsewhere(o) \in Int /\ Elsewhere(o)' = Elsewhere(o)
      BY <1>1, Numbers DEF Elsewhere
    <3> QED BY <1>1, <1>2, <3>1, <3>2, <3>3, Numbers DEF Within
  <2>2. ASSUME pc' = "assign", doubt' # "lasting" PROVE Within(synced, o)'
    <3>1. pc = "assign" /\ doubt = "none" /\ filled[o] = 0
      BY <1>1, <1>2, <2>2, Numbers DEF TypeInv, TypeOK
    <3>2. synced.total <= Elsewhere(o)
      BY <3>1, Numbers DEF LedgerInv, Counted, Correcting, Elsewhere
    <3>3. Greater(0, synced.of[o]) >= 0 /\ Greater(0, synced.of[o]) \in Int
      BY Numbers DEF Greater
    <3>4. Elsewhere(o) \in Int /\ Elsewhere(o)' = Elsewhere(o)
      BY <1>1, Numbers DEF Elsewhere
    <3> QED BY <1>1, <1>2, <3>2, <3>3, <3>4, Numbers DEF Within
  <2>3. ASSUME pc' = "positions", doubt' # "lasting", bal' > 0
        PROVE  bal' <= Elsewhere(o)' + row'[o].accum
    <3>1. doubt = "none" /\ filled[o] = 0
      BY <1>1, <1>2, <2>3, Numbers DEF TypeInv, TypeOK
    <3> QED BY <1>1, <1>2, <3>1, Numbers DEF LedgerInv, BrokerSound, Elsewhere
  <2>4. doubt' \in {"none", "lasting"}
    BY <1>1, <1>2 DEF TypeInv, TypeOK
  <2> QED BY <1>1, <1>2, <2>1, <2>2, <2>3, <2>4 DEF Accounted
<1> QED BY <1>3, <1>4, <1>5, <1>6, <1>8 DEF LedgerInv

LEMMA Appended ==
  ASSUME NEW p \in Positions, NEW o \in Orders, NEW n \in Nat, Proper(p)
  PROVE  /\ Proper(Append(p, o, n)) /\ Append(p, o, n).by = o /\ o # NoOrder
         /\ Append(p, o, n).total = p.total + n /\ Append(p, o, n).of[o] = p.of[o] + n
BY OrdersAssumption DEF Proper, Append, Positions

\* What is taken off the row goes to the positions: Within stays.
LEMMA NoticeLedger ==
  ASSUME OneOrderOnly, TypeInv, RowsInv, LedgerInv, NEW n \in net, OnFillNotice(n)
  PROVE  LedgerInv'
<1> USE DEF broker, loop
<1> DEFINE o == n.order
           q == Lesser(n.qty, row[o].qty)
<1>1. /\ o \in Orders /\ o \in pending /\ q \in Nat /\ q > 0 /\ \A p \in Orders : p = o
      /\ UNCHANGED <<stage, filled, held, net, loop, ws>>
      /\ doubt' = IF doubt = "none" THEN "passing" ELSE doubt
      /\ pos' = Append(pos, o, q) /\ file'.pos = pos' /\ fresh' = FALSE
      /\ pending' \subseteq pending
  <2>1. o \in Orders /\ o \in pending /\ pending \subseteq Orders
    BY DEF OnFillNotice, TypeInv, TypeOK
  <2>2. n.qty \in Nat /\ n.qty > 0
    BY SizeAssumption DEF TypeInv, TypeOK, Notices
  <2>3. q \in Nat /\ q > 0
    BY <2>1, <2>2, Numbers DEF Lesser
  <2>4. pending' \subseteq pending
    BY <2>1, NormalizedType DEF OnFillNotice, SaveBoth
  <2> QED BY <2>1, <2>3, <2>4 DEF OnFillNotice, SaveBoth, OneOrderOnly
<1>2. Proper(pos') /\ pos'.by = o /\ o # NoOrder
  BY <1>1, Appended DEF LedgerInv, AllProper, TypeInv, TypeOK
<1>3. ~Unentered(o)
  BY <1>1 DEF RowsInv
<1>4. held > 0
  BY DEF LedgerInv, BrokerSound
<1>5. BrokerSound'
  BY <1>1 DEF LedgerInv, BrokerSound
<1>6. AllProper'
  BY <1>1, <1>2 DEF LedgerInv, AllProper, Proper
<1>7. RowsEntered'
  BY <1>1, <1>3 DEF LedgerInv, RowsEntered, Reconciling, Unentered, Entering, InJob, InHand
<1>8. JobReads'
  BY <1>1, <1>2, <1>4 DEF JobReads
<1>9. Counted'
  BY <1>1 DEF Counted, Correcting
<1>10. Accounted'
  <2>1. ASSUME pc' = "assign", doubt' # "lasting", o \in pending'
        PROVE  Within(synced, o)'
    <3>1. Within(synced, o)
      BY <1>1, <2>1 DEF LedgerInv, Accounted
    <3>2. row'[o].accum \in Int /\ row'[o].accum >= row[o].accum
      BY <1>1, Numbers DEF OnFillNotice, TypeInv, TypeOK, Rows
    <3> HIDE DEF o
    <3> QED BY <1>1, <3>1, <3>2, Numbers DEF Within, Greater, Elsewhere
  <2>2. doubt' # "none" /\ \A p \in pending' : p = o
    BY <1>1 DEF TypeInv, TypeOK
  <2> HIDE DEF o, q
  <2> QED BY <1>1, <1>2, <2>1, <2>2 DEF Accounted
<1> QED BY <1>5, <1>6, <1>7, <1>8, <1>9, <1>10 DEF LedgerInv

-----------------------------------------------------------------------------
(* A job of the trading loop *)

LEMMA StartLedger ==
  ASSUME OneOrderOnly, TypeInv, RowsInv, LedgerInv, NEW close \in BOOLEAN, NEW b \in Reads,
         StartJob(close, b)
  PROVE  LedgerInv'
<1> USE DEF broker, book
<1>1. /\ UNCHANGED <<stage, filled, held, net, row, pending, pos, cur, synced, ws, file, doubt>>
      /\ pc = "idle" /\ bal' = b /\ acc' = pos.total /\ todo' = pending /\ kept' = {}
      /\ fresh' = (b > 0) /\ pc' \in {"rows", "positions", "clear"}
      /\ Reconciling' => pending # {}
  BY DEF StartJob, AfterRows, Reconciling
<1>2. b \in Int /\ b <= held /\ (b # -1 => b = held)
  BY Numbers DEF Reads
<1>3. Reconciling' => \A o \in Orders : ~Unentered(o) /\ ~Entering(o)'
  BY <1>1 DEF RowsInv, OneOrderOnly, TypeInv, TypeOK, Unentered, Entering, Reconciling
<1>4. BrokerSound' /\ AllProper'
  BY <1>1, <1>2 DEF LedgerInv, BrokerSound, AllProper, Proper
<1>5. RowsEntered'
  BY <1>1, <1>3 DEF LedgerInv, RowsEntered, Unentered, Entering, InJob, InHand
<1>6. JobReads'
  BY <1>1, <1>2, Numbers DEF LedgerInv, JobReads
<1>7. Counted'
  BY <1>1 DEF LedgerInv, Counted, Correcting
<1>8. Accounted'
  <2>1. \A o \in Orders : InUse(o)' => InUse(o)
    BY <1>1 DEF InUse, Reconciling, InJob, InHand
  <2>2. pc' = "positions" => pending = {} \/ bal' = -1 \/ close
    BY DEF StartJob, AfterRows
  <2>3. pc' = "positions" => pending = {}
    BY DEF StartJob, AfterRows
  <2> QED BY <1>1, <2>1, <2>3 DEF LedgerInv, Accounted, Within, Elsewhere
<1> QED BY <1>4, <1>5, <1>6, <1>7, <1>8 DEF LedgerInv

LEMMA ReadRowLedger ==
  ASSUME OneOrderOnly, TypeInv, RowsInv, LedgerInv, NEW o \in Orders, ReadRow(o)
  PROVE  LedgerInv'
<1> USE DEF broker, book, history
<1>1. /\ UNCHANGED <<stage, filled, held, net, row, pending, pos, bal, acc, kept, dirty, synced, ws,
                     file, fresh, doubt>>
      /\ pc = "rows" /\ pc' = "answer" /\ cur'.order = o /\ o \in todo /\ todo' = todo \ {o}
      /\ cur'.qty = row[o].qty /\ cur'.already = Greater(row[o].accum, pos.of[o])
  BY DEF ReadRow
<1>2. InJob' = InJob /\ Reconciling /\ Reconciling'
  BY <1>1 DEF InJob, InHand, Reconciling
<1>3. BrokerSound' /\ AllProper'
  BY <1>1 DEF LedgerInv, BrokerSound, AllProper, Proper
<1>4. RowsEntered'
  BY <1>1, <1>2 DEF LedgerInv, RowsEntered, Unentered, Entering
<1>5. JobReads'
  BY <1>1, <1>2 DEF LedgerInv, JobReads
<1>6. Counted'
  BY <1>1 DEF LedgerInv, Counted, Correcting
<1>7. Accounted'
  BY <1>1, <1>2 DEF LedgerInv, Accounted, InUse, Within, Elsewhere
<1> QED BY <1>3, <1>4, <1>5, <1>6, <1>7 DEF LedgerInv

\* When the rows are done, those that remain have been looked at: what the balance showed beyond
\* the positions has been counted.
LEMMA RowsDone ==
  ASSUME OneOrderOnly, TypeInv, RowsInv, LedgerInv, Reconciling, pc' \in {"positions", "clear"},
         UNCHANGED <<stage, filled, held, net, row, pos, bal, cur, synced, ws, fresh, doubt>>,
         file'.pos \in {file.pos, pos}, pending' \subseteq kept
  PROVE  LedgerInv'
<1>1. ~Reconciling' /\ \A o \in Orders : ~Entering(o)' /\ o # NoOrder
  BY OrdersAssumption DEF Reconciling, RowsInv, Entering, LedgerInv, RowsEntered, Unentered
<1>2. BrokerSound' /\ AllProper'
  BY DEF LedgerInv, BrokerSound, AllProper, Proper
<1>3. RowsEntered'
  BY <1>1 DEF LedgerInv, RowsEntered, Unentered, Entering
<1>4. JobReads'
  BY <1>1 DEF LedgerInv, JobReads, Reconciling
<1>5. Counted'
  BY DEF LedgerInv, Counted, Correcting, Reconciling
<1>6. kept \subseteq Orders /\ \A o \in kept : InUse(o)
  BY DEF InUse, InJob, TypeInv, TypeOK
<1>7. ASSUME doubt # "lasting", bal > 0, pos.by = NoOrder, NEW o \in kept
      PROVE  bal <= Elsewhere(o) + row[o].accum
  <2>1. bal <= pos.total /\ pos.of[o] = 0
    BY <1>6, <1>7 DEF LedgerInv, JobReads, AllProper, Proper
  <2>2. Within(pos, o)
    BY <1>6, <1>7 DEF LedgerInv, Accounted, TypeInv, TypeOK, Reconciling
  <2> QED BY <1>6, <2>1, <2>2, Numbers DEF Within, Greater, Elsewhere
<1>8. Accounted'
  <2>1. pc # "assign" /\ pc' # "assign"
    BY DEF Reconciling
  <2> QED BY <1>1, <1>6, <1>7, <2>1 DEF LedgerInv, Accounted, InUse, Within, Elsewhere
<1> QED BY <1>2, <1>3, <1>4, <1>5, <1>8 DEF LedgerInv

LEMMA SaveLedger ==
  ASSUME OneOrderOnly, TypeInv, RowsInv, LedgerInv, SavePositions
  PROVE  LedgerInv'
<1> USE DEF broker, book, history
<1>1. /\ UNCHANGED <<stage, filled, held, net, row, pending, pos, bal, acc, todo, kept, cur, dirty,
                     synced, ws, fresh, doubt>>
      /\ file'.pos \in {file.pos, pos} /\ pc = "rows" /\ todo = {} /\ Reconciling
  BY DEF SavePositions, Reconciling, TypeInv, TypeOK
<1>2. CASE dirty
  <2>1. pc' = "list" /\ Reconciling' /\ InJob' = InJob
    BY <1>1, <1>2 DEF SavePositions, Reconciling, InJob, InHand
  <2>2. BrokerSound' /\ AllProper'
    BY <1>1 DEF LedgerInv, BrokerSound, AllProper, Proper
  <2>3. RowsEntered'
    BY <1>1, <2>1 DEF LedgerInv, RowsEntered, Unentered, Entering
  <2>4. JobReads'
    BY <1>1, <2>1 DEF LedgerInv, JobReads
  <2>5. Counted'
    BY <1>1, <2>1 DEF LedgerInv, Counted, Correcting
  <2>6. Accounted'
    BY <1>1, <2>1 DEF LedgerInv, Accounted, InUse, Within, Elsewhere
  <2> QED BY <2>2, <2>3, <2>4, <2>5, <2>6 DEF LedgerInv
<1>3. CASE ~dirty
  <2>1. pc' \in {"positions", "clear"}
    BY <1>3 DEF SavePositions
  <2>2. pending \subseteq kept
    BY <1>1, <1>3 DEF LedgerInv, RowsEntered, InJob, InHand
  <2> QED BY <1>1, <2>1, <2>2, RowsDone
<1> QED BY <1>2, <1>3

LEMMA RebuildLedger ==
  ASSUME OneOrderOnly, TypeInv, RowsInv, LedgerInv, RebuildPending
  PROVE  LedgerInv'
<1>1. /\ UNCHANGED <<stage, filled, held, net, row, pos, bal, cur, synced, ws, fresh, doubt>>
      /\ file'.pos = file.pos /\ Reconciling /\ pc' \in {"positions", "clear"}
  BY DEF RebuildPending, SavePending, Reconciling, broker, history, TypeInv, TypeOK
<1>2. pending' \subseteq kept
  BY NormalizedType DEF RebuildPending, SavePending, TypeInv, TypeOK
<1> QED BY <1>1, <1>2, RowsDone

LEMMA ClearLedger ==
  ASSUME OneOrderOnly, TypeInv, RowsInv, LedgerInv, ClearPending
  PROVE  LedgerInv'
<1>1. /\ UNCHANGED <<stage, filled, held, net, row, pos, cur, synced, ws, fresh, doubt>>
      /\ file'.pos = file.pos /\ pc = "clear" /\ pc' = "idle" /\ bal' = 0 /\ pending' = {}
      /\ ~Reconciling'
  BY NormalizedType DEF ClearPending, SavePending, Reconciling, broker, history, TypeInv, TypeOK
<1>2. BrokerSound' /\ AllProper'
  BY <1>1, Numbers DEF LedgerInv, BrokerSound, AllProper, Proper
<1>3. RowsEntered'
  BY <1>1 DEF LedgerInv, RowsEntered, Unentered, Entering
<1>4. JobReads' /\ Counted'
  BY <1>1 DEF LedgerInv, JobReads, Counted, Correcting
<1>5. Accounted'
  BY <1>1 DEF Accounted, InUse
<1> QED BY <1>2, <1>3, <1>4, <1>5 DEF LedgerInv

-----------------------------------------------------------------------------
(* The positions by the balance *)

LEMMA One ==
  ASSUME NEW x \in Orders \cup {NoOrder}, NEW n \in Nat
  PROVE  /\ Only(x, n).by = x /\ Only(x, n).total = n /\ Proper(Only(x, n))
         /\ \A o \in Orders : Only(x, n).of[o] = IF o = x THEN n ELSE 0
BY OrdersAssumption DEF Only, Proper

\* A position with the order's number accounts for the order.
LEMMA OwnWithin ==
  ASSUME TypeInv, LedgerInv, NEW o \in Orders, NEW n \in Nat
  PROVE  Within(Only(o, n), o)
<1>1. Only(o, n).total = n /\ Only(o, n).of[o] = n
  BY One
<1>2. Elsewhere(o) \in Int /\ Elsewhere(o) >= 0
  BY Numbers DEF Elsewhere, LedgerInv, BrokerSound
<1>3. Greater(row[o].accum, n) \in Int /\ Greater(row[o].accum, n) >= n
  BY Numbers DEF Greater
<1> QED BY <1>1, <1>2, <1>3 DEF Within

\* What the positions become by the balance is held, and accounts for a pending order.
LEMMA SyncedLedger ==
  ASSUME OneOrderOnly, TypeInv, RowsInv, LedgerInv, pc = "positions", NEW p \in Synced
  PROVE  /\ Proper(p)
         /\ \A o \in Orders : p.by = o => p.of[o] = p.total
         /\ doubt = "none" \/ fresh => p.total <= held
         /\ doubt # "lasting" => \A o \in pending : Within(p, o)
<1>1. /\ pos.by \in Orders \cup {NoOrder} /\ file.pos.by \in Orders \cup {NoOrder}
      /\ pending \subseteq Orders /\ \A o \in Orders : o # NoOrder
      /\ bal <= held /\ pos.qty <= pos.total
      /\ doubt \in {"none", "passing", "lasting"}
      /\ doubt = "none" => pos.total <= held
      /\ fresh => bal > 0
  BY OrdersAssumption DEF TypeInv, TypeOK, Positions, LedgerInv, BrokerSound, AllProper, Proper, Counted, Correcting,
                          JobReads
<1>2. ASSUME pos.total > 0, bal > 0
      PROVE  p = Only(pos.by, bal)
  BY <1>2 DEF Synced
<1>3. ASSUME pos.total > 0, ~(bal > 0)
      PROVE  p \in {Only(pos.by, pos.qty), NoPosition}
  BY <1>3 DEF Synced
<1>4. ASSUME ~(pos.total > 0), ~(bal > 0)
      PROVE  p = NoPosition
  BY <1>4, Numbers DEF Synced
<1>5. ASSUME ~(pos.total > 0), bal > 0
      PROVE  \E x \in Orders \cup {NoOrder} : p = Only(x, bal) /\ (pending # {} => x \in Orders)
  <2>1. ~(bal <= 0)
    BY <1>5, Numbers
  <2> QED BY <1>1, <1>5, <2>1 DEF Synced
<1>6. p = NoPosition \/ \E x \in Orders \cup {NoOrder} :
         \/ bal > 0 /\ p = Only(x, bal) /\ (pending # {} => x \in Orders \/ (x = pos.by /\ pos.total > 0))
         \/ ~(bal > 0) /\ x = pos.by /\ p = Only(x, pos.qty)
  BY <1>1, <1>2, <1>3, <1>4, <1>5
<1>7. CASE p = NoPosition
  <2>1. Proper(p) /\ p.by = NoOrder /\ p.total = 0 /\ \A o \in Orders : p.of[o] = 0
    BY <1>7 DEF Proper, NoPosition
  <2>2. ASSUME NEW o \in Orders PROVE Within(p, o)
    <3>1. Elsewhere(o) \in Int /\ Elsewhere(o) >= 0
      BY Numbers DEF Elsewhere, LedgerInv, BrokerSound
    <3>2. Greater(row[o].accum, 0) \in Int /\ Greater(row[o].accum, 0) >= 0
      BY Numbers DEF Greater
    <3> QED BY <2>1, <3>1, <3>2 DEF Within
  <2> QED BY <1>1, <2>1, <2>2, Numbers
<1>8. ASSUME bal > 0, NEW x \in Orders \cup {NoOrder}, p = Only(x, bal),
             pending # {} => x \in Orders \/ (x = pos.by /\ pos.total > 0)
      PROVE  /\ Proper(p) /\ p.total <= held
             /\ \A o \in Orders : p.by = o => p.of[o] = p.total
             /\ doubt # "lasting" => \A o \in pending : Within(p, o)
  <2>0. bal \in Nat
    BY <1>8, Numbers
  <2>1. /\ Proper(p) /\ p.by = x /\ p.total = bal
        /\ \A o \in Orders : p.of[o] = IF o = x THEN bal ELSE 0
    BY <1>8, <2>0, One
  <2>2. ASSUME doubt # "lasting", NEW o \in pending PROVE Within(p, o)
    <3>1. CASE x \in Orders
      <4>1. x = o
        BY <1>1, <3>1 DEF OneOrderOnly
      <4> QED BY <1>8, <2>0, <3>1, <4>1, OwnWithin
    <3>2. CASE x = NoOrder
      <4>1. pos.by = NoOrder
        BY <1>1, <1>8, <3>2
      <4>2. bal <= Elsewhere(o) + row[o].accum
        BY <1>8, <2>2, <4>1 DEF LedgerInv, Accounted
      <4>3. p.of[o] = 0 /\ o \in Orders
        BY <1>1, <2>1, <3>2
      <4> QED BY <2>1, <4>2, <4>3, Numbers DEF Within, Greater, Elsewhere
    <3> QED BY <3>1, <3>2
  <2> QED BY <1>1, <2>1, <2>2
<1>9. ASSUME ~(bal > 0), p = Only(pos.by, pos.qty)
      PROVE  /\ Proper(p)
             /\ \A o \in Orders : p.by = o => p.of[o] = p.total
             /\ doubt = "none" \/ fresh => p.total <= held
             /\ doubt # "lasting" => \A o \in pending : Within(p, o)
  <2>1. /\ Proper(p) /\ p.by = pos.by /\ p.total = pos.qty
        /\ \A o \in Orders : p.of[o] = IF o = pos.by THEN pos.qty ELSE 0
    BY <1>1, <1>9, One, Numbers
  <2>2. ASSUME doubt # "lasting", NEW o \in pending PROVE Within(p, o)
    <3>1. CASE pos.by \in Orders
      <4>1. pos.by = o
        BY <1>1, <3>1 DEF OneOrderOnly
      <4> QED BY <1>9, <3>1, <4>1, OwnWithin, Numbers
    <3>2. CASE pos.by = NoOrder
      <4>1. Within(pos, o) /\ o \in Orders
        BY <1>1, <2>2, <3>2 DEF LedgerInv, Accounted, InUse, Reconciling
      <4>2. p.of[o] = 0 /\ pos.of[o] = 0
        BY <1>1, <2>1, <3>2, <4>1 DEF LedgerInv, AllProper, Proper
      <4> QED BY <1>1, <2>1, <4>1, <4>2, Numbers DEF Within, Greater, Elsewhere
    <3> QED BY <1>1, <3>1, <3>2
  <2>3. doubt = "none" => p.total <= held
    BY <1>1, <2>1, Numbers
  <2> QED BY <1>1, <1>9, <2>1, <2>2, <2>3
<1> QED BY <1>6, <1>7, <1>8, <1>9

\* Several entries of the balance's quantity are more than is held, one is not.
LEMMA CorrectedProper ==
  ASSUME NEW p \in Positions, Proper(p), p.total > 0, NEW n \in Nat
  PROVE  /\ Proper(Corrected(p, n)) /\ Corrected(p, n).entries = p.entries
         /\ p.entries <= 1 => Corrected(p, n).total <= n
<1>1. /\ p.entries \in Nat /\ p.entries > 0 /\ n <= p.entries * n
      /\ p.entries <= 1 => p.entries * n <= n
  BY Times DEF Positions, Proper
<1>2. /\ Corrected(p, n).total = p.entries * n /\ Corrected(p, n).qty = n
      /\ Corrected(p, n).entries = p.entries /\ Corrected(p, n).by = p.by
      /\ Corrected(p, n).own = p.own
      /\ \A o \in Orders : Corrected(p, n).of[o] = p.own[o] * n
  BY DEF Corrected, Positions
<1>3. p.by = NoOrder => \A o \in Orders : p.own[o] = 0 /\ p.own[o] * n = 0
  BY Times DEF Proper
<1> QED BY <1>1, <1>2, <1>3 DEF Proper

LEMMA ReadPositionsLedger ==
  ASSUME OneOrderOnly, TypeInv, RowsInv, LedgerInv, ReadPositions
  PROVE  LedgerInv'
<1> USE DEF broker, book, history
<1>1. /\ UNCHANGED <<stage, filled, held, net, row, pending, bal, cur, ws, file, fresh, doubt>>
      /\ pc = "positions" /\ pc' = "assign" /\ synced' \in Synced /\ ~Reconciling /\ ~Reconciling'
      /\ \/ pos' = pos /\ (bal > 0 => pos.total = 0)
         \/ pos' = Corrected(pos, bal) /\ bal > 0 /\ pos.total > 0
  BY Numbers DEF ReadPositions, Reconciling
<1>2. /\ Proper(pos')
      /\ doubt = "none" /\ ~Correcting' => pos'.total <= held
  <2>1. Proper(pos) /\ bal <= held /\ (doubt = "none" => pos.total <= held)
    BY <1>1 DEF LedgerInv, AllProper, BrokerSound, Counted, Correcting
  <2>2. CASE pos' = pos /\ (bal > 0 => pos.total = 0)
    BY <2>1, <2>2
  <2>3. CASE pos' = Corrected(pos, bal) /\ bal > 0 /\ pos.total > 0
    <3>1. bal \in Nat /\ held \in Nat /\ pos \in Positions
      BY <2>3, Numbers DEF TypeInv, TypeOK
    <3>2. Proper(pos') /\ pos'.entries = pos.entries /\ (pos.entries <= 1 => pos'.total <= bal)
      BY <2>1, <2>3, <3>1, CorrectedProper
    <3>3. ~Correcting' => pos.entries <= 1
      BY <1>1, <2>3, <3>1, <3>2 DEF Correcting, Positions
    <3>4. pos' \in Positions
      BY <2>3, <3>1, CorrectedType
    <3> QED BY <2>1, <3>1, <3>2, <3>3, <3>4 DEF Positions
  <2> QED BY <1>1, <2>2, <2>3
<1>3. BrokerSound' /\ AllProper'
  BY <1>1, <1>2, SyncedLedger DEF LedgerInv, BrokerSound, AllProper, Proper
<1>4. RowsEntered' /\ JobReads'
  BY <1>1 DEF LedgerInv, RowsEntered, JobReads, Unentered, Entering
<1>5. Counted'
  BY <1>1, <1>2, SyncedLedger DEF LedgerInv, Counted
<1>6. Accounted'
  <2>1. doubt # "lasting" => \A o \in pending : Within(synced', o)
    BY <1>1, SyncedLedger
  <2> QED BY <1>1, <2>1 DEF LedgerInv, Accounted, InUse, Within, Elsewhere
<1> QED BY <1>3, <1>4, <1>5, <1>6 DEF LedgerInv

LEMMA AssignLedger ==
  ASSUME OneOrderOnly, TypeInv, RowsInv, LedgerInv, AssignPositions
  PROVE  LedgerInv'
<1> USE DEF broker
<1>1. /\ UNCHANGED <<stage, filled, held, net, row, pending, cur, ws, fresh>>
      /\ pc = "assign" /\ pc' = "idle" /\ pos' = synced /\ file'.pos = synced /\ bal' = 0
      /\ synced' = NoPosition /\ ~Reconciling'
      /\ doubt' = IF fresh /\ (doubt = "passing" \/ RowsSettled) THEN "none" ELSE doubt
  BY DEF AssignPositions, Reconciling, TypeInv, TypeOK
<1>2. BrokerSound'
  BY <1>1, Numbers DEF LedgerInv, BrokerSound
<1>3. AllProper'
  BY <1>1 DEF LedgerInv, AllProper, Proper, NoPosition
<1>4. RowsEntered' /\ JobReads'
  BY <1>1 DEF LedgerInv, RowsEntered, JobReads, Unentered, Entering
<1>5. Counted'
  BY <1>1 DEF LedgerInv, Counted, Correcting
\* What the rows can still tell is not counted: as before, or because they are settled.
<1>6. ASSUME doubt # "lasting" \/ (fresh /\ RowsSettled), NEW o \in pending
      PROVE  Within(synced, o)
  <2>1. CASE doubt # "lasting"
    BY <1>1, <1>6, <2>1 DEF LedgerInv, Accounted
  <2>2. CASE fresh /\ RowsSettled
    <3>1. /\ o \in Orders /\ synced.total <= held
          /\ synced.by = o => synced.of[o] = synced.total
      BY <1>1, <2>2 DEF LedgerInv, Counted, AllProper, TypeInv, TypeOK
    <3>2. filled[o] \in Nat /\ filled[o] <= held
      BY <3>1, Numbers DEF LedgerInv, BrokerSound
    <3>3. synced.by = o \/ ~(row[o].accum < filled[o])
      BY <2>2 DEF RowsSettled, Behind
    <3> QED BY <3>1, <3>2, <3>3, Numbers DEF Within, Greater, Elsewhere
  <2> QED BY <1>6, <2>1, <2>2
<1>7. Accounted'
  <2>1. \A o \in Orders : InUse(o)' <=> o \in pending
    BY <1>1 DEF InUse
  <2>2. doubt' # "lasting" => doubt # "lasting" \/ (fresh /\ RowsSettled)
    BY <1>1
  <2> QED BY <1>1, <1>6, <2>1, <2>2 DEF Accounted, Within, Elsewhere
<1> QED BY <1>2, <1>3, <1>4, <1>5, <1>7 DEF LedgerInv

-----------------------------------------------------------------------------
(* The answer *)

\* What the answer adds was not counted, as long as nothing crosses.
LEMMA AnswerAdds ==
  ASSUME OneOrderOnly, TypeInv, RowsInv, LedgerInv, doubt = "none", pc = "answer",
         NEW cum \in 0 .. Size \cup {-1}, cum # -1 => cum = filled[cur.order]
  PROVE  /\ PartOf(cum) > 0 => pos.total + PartOf(cum) <= held
         /\ Completed(cum) => pos.total + cur.qty <= held
<1> DEFINE o == cur.order
<1>1. /\ o \in Orders /\ acc = pos.total /\ cur.already \in Int /\ cur.qty \in Int
      /\ pos.total <= Elsewhere(o) + cur.already
  <2>1. o \in Orders /\ InUse(o)
    BY DEF TypeInv, InHand, InUse, InJob, Reconciling
  <2>2. cur.already \in Int /\ cur.qty \in Int
    BY SizeAssumption DEF TypeInv, TypeOK
  <2> QED BY <2>1, <2>2 DEF LedgerInv, JobReads, Accounted, Within, Reconciling
<1>2. New(cum) > 0 => pos.total + New(cum) <= held
  BY <1>1, Numbers DEF New, Greater, Elsewhere
<1>3. Delta > 0 => pos.total + Delta <= held
  BY <1>1, Numbers DEF Delta, Greater, LedgerInv, BrokerSound
<1>4. PartOf(cum) > 0 => PartOf(cum) \in {New(cum), Delta} /\ (New(cum) > 0 \/ Delta > 0)
  BY DEF PartOf
<1>5. New(cum) \in Int /\ Delta \in Int
  BY <1>1, Numbers DEF New, Delta, Greater
<1>6. PartOf(cum) > 0 => pos.total + PartOf(cum) <= held
  <2>1. CASE New(cum) > 0 /\ New(cum) < cur.qty
    BY <1>2, <2>1 DEF PartOf
  <2>2. CASE ~(New(cum) > 0 /\ New(cum) < cur.qty)
    BY <1>3, <2>2 DEF PartOf
  <2> QED BY <2>1, <2>2
<1>7. Completed(cum) => pos.total + cur.qty <= held
  <2>1. CASE bal > 0 /\ bal >= acc + cur.qty
    BY <1>1, <2>1, Numbers DEF LedgerInv, BrokerSound
  <2>2. CASE cum # -1 /\ New(cum) >= Greater(cur.qty, 1)
    <3>1. New(cum) >= cur.qty /\ New(cum) > 0
      BY <1>1, <1>5, <2>2 DEF Greater
    <3> QED BY <1>1, <1>2, <1>5, <3>1, Numbers
  <2> QED BY <2>1, <2>2 DEF Completed
<1> QED BY <1>6, <1>7

LEMMA AnswerLedger ==
  ASSUME OneOrderOnly, TypeInv, RowsInv, LedgerInv, NEW cum \in 0 .. Size \cup {-1}, Answer(cum)
  PROVE  LedgerInv'
<1> USE DEF broker, history
<1> DEFINE o == cur.order
<1>1. /\ UNCHANGED <<stage, filled, held, net, pending, bal, todo, synced, ws, file, fresh, doubt>>
      /\ pc = "answer" /\ pc' = "rows" /\ o \in Orders /\ o # NoOrder /\ \A p \in Orders : p = o
      /\ cum # -1 => cum = filled[o]
  BY OrdersAssumption DEF Answer, TypeInv, InHand, OneOrderOnly
<1>2. /\ Reconciling /\ Reconciling' /\ InUse(o) /\ InJob' = todo \cup kept'
      /\ \A p \in Orders : InUse(p)' <=> p \in todo \cup kept'
      /\ o \notin todo \cup kept
  <2>1. Reconciling /\ Reconciling'
    BY <1>1 DEF Reconciling
  <2>2. InHand = {o} /\ InHand' = {}
    BY <1>1 DEF InHand
  <2>3. InJob' = todo \cup kept' /\ o \in InJob
    BY <1>1, <2>2 DEF InJob
  <2>4. o \notin todo \cup kept
    BY <2>1, <2>2 DEF RowsInv
  <2>5. \A p \in Orders : InUse(p)' <=> p \in todo \cup kept'
    BY <2>1, <2>3 DEF InUse
  <2> QED BY <2>1, <2>3, <2>4, <2>5 DEF InUse
<1>3. /\ row[o] \in Rows /\ row \in [Orders -> Rows] /\ pos \in Positions /\ cur.qty \in Int
      /\ doubt = "none" => acc = pos.total /\ cur.qty = row[o].qty
  BY <1>1, <1>2, SizeAssumption DEF TypeInv, TypeOK, LedgerInv, JobReads
<1>4. PartOf(cum) \in Int /\ PartOf(cum) >= 0 /\ New(cum) \in Int /\ Delta \in Int
  <2>1. cur.already \in Int
    BY DEF TypeInv, TypeOK
  <2> QED BY <1>1, <1>3, <2>1, Numbers DEF PartOf, New, Delta, Greater
\* One of the three outcomes:
<1>5. \/ \* part of the row,
         /\ pos' = Append(pos, o, PartOf(cum)) /\ PartOf(cum) > 0
         /\ row'[o].accum = row[o].accum + PartOf(cum)
         /\ acc' = acc + PartOf(cum) /\ kept' = kept \cup {o} /\ dirty'
      \/ \* the row,
         /\ pos' = Append(pos, o, row[o].qty) /\ Completed(cum)
         /\ acc' = acc + cur.qty /\ kept' = kept /\ dirty'
      \/ \* or nothing.
         /\ pos' = pos /\ row'[o].accum = row[o].accum /\ acc' = acc /\ kept' = kept \cup {o}
         /\ PartOf(cum) = 0 /\ ~Completed(cum) /\ (dirty => dirty')
  <2>1. CASE PartFilled(cum)
    BY <1>1, <1>3, <2>1 DEF PartFilled, Rows
  <2>2. CASE AllFilled(cum)
    BY <2>2 DEF AllFilled
  <2>3. CASE NothingFilled(cum)
    BY <1>1, <1>3, <2>3 DEF NothingFilled, Rows
  <2> QED BY <2>1, <2>2, <2>3 DEF Answer
<1>6. row[o].qty \in Nat /\ row[o].accum \in Nat /\ row[o].qty > 0
  BY <1>1, Numbers
<1> HIDE DEF o
<1>7. \/ Proper(pos') /\ pos'.by = o
      \/ pos' = pos /\ kept' = kept \cup {o} /\ PartOf(cum) = 0 /\ ~Completed(cum) /\ acc' = acc
  BY <1>1, <1>3, <1>4, <1>5, <1>6, Appended DEF LedgerInv, AllProper
<1>8. BrokerSound' /\ AllProper'
  BY <1>1, <1>7 DEF LedgerInv, BrokerSound, AllProper, Proper
<1>9. RowsEntered'
  <2>1. \A p \in Orders : Unentered(p)' => Unentered(p)
    BY <1>1 DEF Unentered, Entering
  <2>2. o \in InJob' \/ dirty'
    BY <1>2, <1>5
  <2>3. pending \subseteq Orders
    BY DEF TypeInv, TypeOK
  <2> QED BY <1>1, <1>2, <2>1, <2>2, <2>3 DEF LedgerInv, RowsEntered
<1>10. JobReads'
  <2>1. ASSUME pos'.by = NoOrder \/ doubt' = "none" PROVE acc' = pos'.total
    BY <1>1, <1>2, <1>3, <1>4, <1>5, <1>6, <1>7, <2>1, Appended, Numbers DEF LedgerInv, JobReads, AllProper
  <2>2. ASSUME bal' > 0, pos'.by = NoOrder PROVE bal' <= pos'.total
    <3>1. pos' = pos /\ PartOf(cum) = 0 /\ ~Completed(cum) /\ acc = pos.total
      BY <1>1, <1>2, <1>7, <2>2 DEF LedgerInv, JobReads
    <3>2. bal < acc + cur.qty /\ ~(Delta > 0 /\ Delta < cur.qty)
      BY <1>1, <1>3, <1>4, <2>2, <3>1, Numbers DEF Completed, PartOf
    <3> QED BY <1>1, <1>3, <2>2, <3>1, <3>2, Numbers DEF Delta, Greater
  <2> QED BY <1>1, <1>2, <2>1, <2>2 DEF LedgerInv, JobReads
<1>11. Counted'
  <2>1. ASSUME doubt = "none" PROVE pos'.total <= held
    <3>1. /\ PartOf(cum) > 0 => pos.total + PartOf(cum) <= held
          /\ Completed(cum) => pos.total + cur.qty <= held
      BY <1>1, <2>1, AnswerAdds DEF o
    <3> QED BY <1>1, <1>3, <1>4, <1>5, <1>6, <2>1, <3>1, Appended DEF LedgerInv, AllProper, Counted, Correcting
  <2> QED BY <1>1, <2>1 DEF LedgerInv, Counted, Correcting
<1>12. Accounted'
  <2>1. ASSUME doubt = "none" \/ (doubt = "passing" /\ pos'.by = NoOrder), o \in todo \cup kept'
        PROVE  pos'.total <= Elsewhere(o) + Greater(row'[o].accum, pos'.of[o])
    <3>1. doubt = "none" \/ (doubt = "passing" /\ pos.by = NoOrder)
      BY <1>1, <1>7, <2>1
    <3>2. Within(pos, o) /\ Elsewhere(o) \in Int
      BY <1>1, <1>2, <3>1, Numbers DEF LedgerInv, Accounted, Elsewhere
    <3>3. CASE pos' = pos /\ row'[o].accum = row[o].accum
      BY <3>2, <3>3 DEF Within
    <3>4. CASE /\ pos' = Append(pos, o, PartOf(cum)) /\ PartOf(cum) > 0
               /\ row'[o].accum = row[o].accum + PartOf(cum)
      <4>0. PartOf(cum) \in Nat
        BY <1>4
      <4>1. /\ pos'.total = pos.total + PartOf(cum) /\ pos'.of[o] = pos.of[o] + PartOf(cum)
        BY <1>1, <1>3, <4>0, <3>4, Appended DEF LedgerInv, AllProper
      <4>2. pos.total \in Nat /\ pos.of[o] \in Nat
        BY <1>1, Numbers
      <4>3. pos.total <= Elsewhere(o) + Greater(row[o].accum, pos.of[o])
        BY <3>2 DEF Within
      <4> HIDE DEF Elsewhere
      <4> QED BY <1>6, <4>0, <3>2, <3>4, <4>1, <4>2, <4>3 DEF Greater
    <3> QED BY <1>2, <1>5, <2>1, <3>3, <3>4
  <2>2. ASSUME NEW p \in Orders, InUse(p)', doubt' = "none" \/ (doubt' = "passing" /\ pos'.by = NoOrder)
        PROVE  Within(pos, p)'
    <3>1. p = o /\ o \in todo \cup kept'
      BY <1>1, <1>2, <2>2
    <3>2. Elsewhere(p)' = Elsewhere(o)
      BY <1>1, <3>1 DEF Elsewhere
    <3> QED BY <1>1, <2>1, <2>2, <3>1, <3>2 DEF Within
  <2> QED BY <1>1, <2>2 DEF Accounted
<1> QED BY <1>8, <1>9, <1>10, <1>11, <1>12 DEF LedgerInv

LEMMA CrashLedger ==
  ASSUME OneOrderOnly, TypeInv, RowsInv, LedgerInv, Crash
  PROVE  LedgerInv'
<1>1. /\ UNCHANGED <<stage, filled, held>> /\ net' = {} /\ pc' = "idle" /\ bal' = 0 /\ ws' = NoOrder
      /\ synced' = NoPosition /\ file'.pos = file.pos /\ ~Reconciling'
      /\ doubt' = IF pos'.entries > 1 \/ \E o \in pending' : doubt # "none" \/ Behind(row'[o], o)
                  THEN "lasting" ELSE doubt
      /\ fresh' = FALSE
  BY DEF Crash, SavePending, Reconciling, TypeInv, TypeOK
<1>2. pos' = file.pos \/ (file.pos.total > 0 /\ pos' = Corrected(file.pos, held))
  BY DEF Crash
<1>3. /\ Proper(pos')
      /\ doubt' = "none" => pos'.total <= held /\ pos'.total \in Int /\ pos'.of \in [Orders -> Int]
  <2>1. file.pos \in Positions /\ Proper(file.pos) /\ (doubt = "none" => file.pos.total <= held)
    BY DEF LedgerInv, AllProper, Counted, TypeInv, TypeOK
  <2>2. pos' \in Positions
    BY <1>2, <2>1, CorrectedType, Numbers
  <2>3. doubt' = "none" => doubt = "none" /\ ~(pos'.entries > 1) /\ pos'.entries \in Nat
    BY <1>1, <2>2 DEF Positions
  <2>4. Proper(pos') /\ (doubt' = "none" => pos'.total <= held)
    BY <1>2, <2>1, <2>3, CorrectedProper, Numbers
  <2> QED BY <2>2, <2>4 DEF Positions
<1>4. BrokerSound' /\ AllProper'
  BY <1>1, <1>3, Numbers DEF LedgerInv, BrokerSound, AllProper, Proper, NoPosition
<1>5. RowsEntered' /\ JobReads'
  <2>1. \A o \in Orders : o # NoOrder
    BY OrdersAssumption
  <2> QED BY <1>1, <2>1 DEF LedgerInv, RowsEntered, JobReads, Unentered, Entering
<1>6. Counted'
  BY <1>1, <1>3, Numbers DEF LedgerInv, Counted, Correcting
\* A row that is not behind can tell nothing that is counted.
<1>7. ASSUME doubt' = "none", NEW o \in pending' PROVE Within(pos, o)'
  <2>1. o \in Orders /\ row'[o].accum \in Nat
    BY CrashType, <1>7, Numbers DEF TypeInv, TypeOK, Rows
  <2>2. ~(row'[o].accum < filled[o]) /\ filled[o] \in Nat
    BY <1>1, <1>7, <2>1, Numbers DEF Behind
  <2>3. pos'.total <= held /\ pos'.total \in Int /\ pos'.of[o] \in Int
    BY <1>3, <1>7, <2>1
  <2> QED BY <1>1, <2>1, <2>2, <2>3, Numbers DEF Within, Greater, Elsewhere
<1>8. Accounted'
  <2>1. \A o \in Orders : InUse(o)' <=> o \in pending'
    BY <1>1 DEF InUse
  <2>2. doubt' = "passing" => pending' = {}
    BY <1>1
  <2> QED BY <1>1, <1>7, <2>1, <2>2 DEF Accounted
<1> QED BY <1>4, <1>5, <1>6, <1>8 DEF LedgerInv

LEMMA NextLedger ==
  ASSUME OneOrderOnly, TypeInv, RowsInv, LedgerInv, [Next]_vars
  PROVE  LedgerInv'
<1>1. CASE UNCHANGED vars
  BY <1>1 DEF vars, broker, book, loop, history, bounds, LedgerInv, BrokerSound, AllProper, Proper,
              RowsEntered, JobReads, Counted, Correcting, Accounted, InUse, Within, Elsewhere, Reconciling, InJob,
              InHand, Unentered, Entering
<1>2. CASE UserBuys \/ Midnight
  BY <1>2, UserLedger, MidnightLedger
<1>3. ASSUME NEW o \in Orders, Place(o) \/ Drop(o) \/ AddPendingOrder(o) \/ ReadRow(o)
                               \/ \E n \in 1 .. Size : Fill(o, n)
      PROVE  LedgerInv'
  BY <1>3, PlaceLedger, BrokerLedger, AddLedger, ReadRowLedger
<1>4. CASE \E n \in net : OnFillNotice(n)
  BY <1>4, NoticeLedger
<1>5. CASE \E b \in Reads : StartSync(b) \/ StartClose(b)
  BY <1>5, StartLedger DEF StartSync, StartClose
<1>6. CASE \E cum \in 0 .. Size \cup {-1} : Answer(cum)
  BY <1>6, AnswerLedger
<1>7. CASE SavePositions \/ RebuildPending \/ ReadPositions \/ AssignPositions \/ ClearPending
  BY <1>7, SaveLedger, RebuildLedger, ReadPositionsLedger, AssignLedger, ClearLedger
<1>8. CASE Crash
  BY <1>8, CrashLedger
<1> QED BY <1>1, <1>2, <1>3, <1>4, <1>5, <1>6, <1>7, <1>8 DEF Next, LoopStep

-----------------------------------------------------------------------------
(* The refinement *)

LEMMA InitRefines == Init => Ledger!Init
BY DEF Init, Ledger!Init, NoPosition, Correcting

\* With the invariant each step is one of the ledger's, or leaves it as it is.
LEMMA StepRefines ==
  ASSUME OneOrderOnly, BooksInv, [Next]_vars
  PROVE  [Ledger!Next]_(Ledger!ledger)
<1>1. TypeInv' /\ LedgerInv' /\ TypeInv /\ LedgerInv
  BY NextType, NextLedger DEF BooksInv
<1>2. /\ held \in Nat /\ pos.total \in Nat /\ held' \in Nat /\ pos'.total \in Nat
      /\ doubt' = "none" /\ ~Correcting' => pos'.total <= held'
  <2>1. TypeOK /\ TypeOK'
    BY <1>1 DEF TypeInv
  <2>2. doubt' = "none" /\ ~Correcting' => pos'.total <= held'
    BY <1>1 DEF LedgerInv, Counted
  <2> QED BY <2>1, <2>2 DEF TypeOK, Positions
\* The broker buys; or what is counted changes, in doubt or to no more than is held.
<1>4. ASSUME held' > held, UNCHANGED <<pos, pc, bal, doubt>>
      PROVE  Ledger!Next
  BY <1>2, <1>4 DEF Ledger!Next, Ledger!Buy, Correcting
<1>5. ASSUME held' = held
      PROVE  Ledger!Next
  <2>1. CASE doubt' # "none" \/ Correcting'
    BY <1>2, <1>5, <2>1 DEF Ledger!Next, Ledger!Disturb
  <2>2. CASE doubt' = "none" /\ ~Correcting'
    BY <1>2, <1>5, <2>2 DEF Ledger!Next, Ledger!Settle
  <2> QED BY <2>1, <2>2
<1>6. held' = held \/ (held' > held /\ UNCHANGED <<pos, pc, bal, doubt>>)
  <2>1. CASE UNCHANGED vars
    BY <2>1 DEF vars, broker
  <2>2. ASSUME NEW o \in Orders, NEW n \in 1 .. Size, Fill(o, n)
        PROVE  held' > held /\ UNCHANGED <<pos, pc, bal, doubt>>
    BY <1>2, <2>2, SizeAssumption DEF Fill, book, loop, history
  <2>3. CASE UserBuys
    BY <1>2, <2>3 DEF UserBuys, book, loop, history
  <2>4. ASSUME NEW o \in Orders, Place(o) \/ Drop(o) \/ AddPendingOrder(o) \/ ReadRow(o)
        PROVE  held' = held
    BY <2>4 DEF Place, Drop, AddPendingOrder, ReadRow, broker
  <2>5. CASE Midnight \/ (\E n \in net : OnFillNotice(n)) \/ (\E b \in Reads : StartSync(b) \/ StartClose(b))
    BY <2>5 DEF Midnight, OnFillNotice, StartSync, StartClose, StartJob, broker
  <2>6. CASE LoopStep
    BY <2>4, <2>6 DEF LoopStep, Answer, SavePositions, RebuildPending, ReadPositions, AssignPositions,
                      ClearPending, broker
  <2>7. CASE Crash
    BY <2>7 DEF Crash
  <2> QED BY <2>1, <2>2, <2>3, <2>4, <2>5, <2>6, <2>7 DEF Next
<1> QED BY <1>4, <1>5, <1>6

\* The bookkeeping of one order implements ShareLedger: whatever query, balance, notice, close
\* or restart brings the news of a fill, outside doubt the bot counts no more shares than the
\* broker holds (_reconcile_pending_orders, _sync_runtime_with_broker, _on_fill_notice).
THEOREM KeepsTheLedger ==
  ASSUME OneOrderOnly
  PROVE  Spec => ImplementsLedger
<1>1. Init => BooksInv
  BY InitType, InitRows, InitLedger DEF BooksInv
<1>2. BooksInv /\ [Next]_vars => BooksInv'
  BY NextType, NextRows, NextLedger DEF BooksInv
<1>3. BooksInv /\ [Next]_vars => [Ledger!Next]_(Ledger!ledger)
  BY StepRefines
<1> QED BY <1>1, <1>2, <1>3, InitRefines, PTL DEF Spec, ImplementsLedger, Ledger!Spec
=============================================================================
