-------------------------- MODULE PathBExit_proofs --------------------------
(* Proofs about PathBExit, for any size of the position, any number of orders and any       *)
(* bounds.  Every record keeps to its values (TInv), whatever happens.  As long as no mark  *)
(* was taken for stale under a thread at work (hasty): the two threads never send the same  *)
(* exit at once (IInv); no order is sent while an earlier one can be filled, and none is    *)
(* forgotten (LInv); a run is closed when its shares are sold (ZInv).  Each invariant rests *)
(* on those before it.                                                                      *)
EXTENDS PathBExit, SumLemmas, TLAPS

-----------------------------------------------------------------------------
(* The invariant *)

\* The records have their fields.  (What is in them comes below, in TInv; nothing about the two
\* threads needs it.)
Shape ==
    /\ run = [status |-> run.status, exit |-> run.exit, asked |-> run.asked, sent |-> run.sent,
              watch |-> run.watch, stuck |-> run.stuck]
    /\ pos = [there |-> pos.there, qty |-> pos.qty, closing |-> pos.closing, sale |-> pos.sale,
              watch |-> pos.watch, stuck |-> pos.stuck, missing |-> pos.missing]
    /\ saved = [there |-> saved.there, qty |-> saved.qty, closing |-> saved.closing,
                sale |-> saved.sale, watch |-> saved.watch, stuck |-> saved.stuck,
                missing |-> saved.missing]
    /\ truth = [ok |-> truth.ok, bal |-> truth.bal, order |-> truth.order]
    /\ pc \in [Threads -> Steps]
    /\ me = [t \in Threads |-> [run |-> me[t].run, qty |-> me[t].qty, order |-> me[t].order]]

\* A run that was sent has the number of its order, in the store and where a thread has read it.
HasNumber(r) == r.exit \in Sells \cup {None} /\ (r.sent => r.exit # None)

Numbers ==
    /\ HasNumber(run)
    /\ \A t \in Threads : HasNumber(me[t].run) /\ (pc[t] = "mark" => me[t].order \in Sells)

\* The balance that was seen last is no less than the holding, which nothing adds to.
Balance == held \in Int /\ truth.bal \in Int /\ held <= truth.bal

\* A thread that sells: before the mark on the position, and after it.
Before == {"observe", "review"}
AtWork == Before \cup Attempt

\* Two threads that sell, or one that sells and one that asks about an old mark, have both
\* found the run FILLED, and neither has changed that.
BothFindFilled ==
    \A t, u \in Threads : t # u /\ pc[t] \in AtWork \cup {"stale"} /\ pc[u] \in AtWork =>
        run.status = "FILLED"

\* While one is in its attempt the other does not begin one, and does not begin to sell.
Barred ==
    \A t, u \in Threads : t # u /\ pc[t] \in Attempt =>
        /\ pc[u] \notin Attempt
        /\ pc[u] \in Before => pos.closing
        /\ run.status = "FILLED" => InFlight(run, pos) \/ run.stuck

\* What the loop does about an unknown run cannot let the other thread into a second attempt:
\* that thread is not in one unless nothing is held any more, and cannot begin one.
Unsure == run.status = "ORDER_UNKNOWN" \/ \E t \in Threads : pc[t] = "unknown"

NobodySells ==
    Unsure => \A u \in Threads \ {"loop"} :
        /\ pc[u] \in Attempt => truth.bal <= 0
        /\ pc[u] \in Before => pos.closing \/ run.exit # None \/ truth.bal <= 0

\* While the loop reconciles an unknown run nobody makes it FILLED.  While it reconciles a sale,
\* the run keeps a number, and keeps that number while the other thread is in its attempt.
Reconciled ==
    \A t \in Threads :
        /\ pc[t] = "unknown" => t = "loop" /\ run.status # "FILLED"
        /\ t = "loop" /\ pc[t] = "pending" =>
            /\ me[t].run.exit # None => run.exit # None
            /\ \A u \in Threads : u # t /\ pc[u] \in Attempt /\ me[t].run.sent =>
                   run.exit = me[t].run.exit

IInv == Shape /\ Numbers /\ Balance /\ BothFindFilled /\ Barred /\ NobodySells /\ Reconciled

-----------------------------------------------------------------------------
(* Orders of a snapshot *)

LEMMA FirstIsSale ==
  ASSUME NEW S \in SUBSET Sells, S # {}
  PROVE  First(S) \in S /\ First(S) \in Sells
<1>1. Sells \subseteq Nat
  BY SellsAssumption DEF Sells
<1>2. PICK x \in S : \A y \in S : x <= y
  BY <1>1, LeastNatural
<1>3. Min(S) \in S
  BY <1>2 DEF Min
<1> QED BY <1>3 DEF First

\* Nothing sold is no order with fills.
LEMMA NoneSold ==
  ASSUME NEW s, NEW e, WithFills(s, e) = {}
  PROVE  Sold(s, e) = 0
<1> DEFINE f(o) == s.order[o].filled
           pick(S) == CHOOSE x \in S : TRUE
           Fold(iter) == [S \in SUBSET {} |->
                             IF S = {} THEN 0 ELSE LET x == pick(S) IN f(x) + iter[S \ {x}]]
<1>1. Sold(s, e) = (CHOOSE iter : iter = Fold(iter))[{}]
  BY DEF Sold, MapThenSumSet, MapThenFoldSet
<1>2. [S \in SUBSET {} |-> 0] = Fold([S \in SUBSET {} |-> 0])
  OBVIOUS
<1> HIDE DEF Fold
<1> DEFINE it == CHOOSE iter : iter = Fold(iter)
<1>3. it = Fold(it)
  BY <1>2
<1>4. Fold(it)[{}] = 0
  BY DEF Fold
<1> QED BY <1>1, <1>3, <1>4

-----------------------------------------------------------------------------
(* What steps leave of the invariant *)

RunShape(r) == r = [status |-> r.status, exit |-> r.exit, asked |-> r.asked, sent |-> r.sent,
                    watch |-> r.watch, stuck |-> r.stuck]

PosShape(p) == p = [there |-> p.there, qty |-> p.qty, closing |-> p.closing, sale |-> p.sale,
                    watch |-> p.watch, stuck |-> p.stuck, missing |-> p.missing]

WorkShape(m) == m = [run |-> m.run, qty |-> m.qty, order |-> m.order]

\* A snapshot a thread can get, and what truth may become.
Seen(s) ==
    /\ s = [ok |-> s.ok, bal |-> s.bal, order |-> s.order]
    /\ s.bal \in Int /\ held <= s.bal /\ s.bal <= truth.bal

LEMMA RefreshedIsSeen ==
  ASSUME IInv, NEW b, NEW s \in Refreshed(b)
  PROVE  Seen(s)
<1>1. ASSUME s \in Renewed PROVE Seen(s)
  <2>1. PICK c \in Balances : s = [ok |-> TRUE, bal |-> c, order |-> order]
    BY <1>1 DEF Renewed
  <2> QED BY <2>1 DEF Balances, Seen, IInv, Balance
<1>2. ASSUME s \in Failed PROVE Seen(s)
  <2>1. s = [ok |-> FALSE, bal |-> truth.bal, order |-> truth.order]
    BY <1>2 DEF Failed, IInv, Shape
  <2> QED BY <2>1 DEF Seen, IInv, Balance
<1>3. Seen(truth)
  BY DEF Seen, IInv, Shape, Balance
<1> QED BY <1>1, <1>2, <1>3 DEF Refreshed

\* There are but two threads.
LEMMA Two ==
  ASSUME NEW t \in Threads, NEW u \in Threads, NEW w \in Threads, t # u, u # w
  PROVE  t = w
BY ThreadsAssumption

\* Steps of the broker, the user and the clock.
LEMMA Apart ==
  ASSUME IInv, UNCHANGED <<run, saved, pc, me>>, PosShape(pos'),
         pos'.closing = pos.closing, pos'.sale = pos.sale,
         truth' = truth, held' \in Int, held' <= held
  PROVE  IInv'
<1>1. Shape'
  BY DEF IInv, Shape, PosShape
<1>2. Numbers'
  BY DEF IInv, Numbers, HasNumber
<1>3. Balance'
  BY DEF IInv, Balance
<1>4. InFlight(run, pos)' <=> InFlight(run, pos)
  BY DEF InFlight
<1>5. BothFindFilled' /\ Barred'
  BY <1>4 DEF IInv, BothFindFilled, Barred
<1>6. NobodySells' /\ Reconciled'
  BY DEF IInv, NobodySells, Unsure, Reconciled
<1> QED BY <1>1, <1>2, <1>3, <1>5, <1>6 DEF IInv

\* A thread ends, or goes on to something that is no sale.
LEMMA Rests ==
  ASSUME IInv, NEW t \in Threads, NEW q \in {"idle", "zero", "stale"}, NEW m, WorkShape(m),
         HasNumber(m.run), q = "stale" => run'.status = "FILLED",
         pc' = [pc EXCEPT ![t] = q], me' = [me EXCEPT ![t] = m],
         held' = held, Seen(truth'),
         RunShape(run'), HasNumber(run'), PosShape(pos'), PosShape(saved'),
         \A u \in Threads : u # t /\ pc[u] \in Attempt /\ run'.status = "FILLED" =>
             InFlight(run', pos') \/ run'.stuck,
         t = "loop" /\ run'.status = "ORDER_UNKNOWN" =>
             \A u \in Threads \ {t} :
                 /\ pc[u] \in Attempt => truth'.bal <= 0
                 /\ pc[u] \in Before => pos'.closing \/ run'.exit # None \/ truth'.bal <= 0,
         t # "loop" => /\ run'.status = "FILLED" => run.status = "FILLED"
                       /\ run.exit # None => run'.exit # None
  PROVE  IInv'
<1>1. /\ pc' \in [Threads -> Steps] /\ pc'[t] = q /\ me'[t] = m
      /\ \A u \in Threads : u # t => pc'[u] = pc[u] /\ me'[u] = me[u]
  BY DEF IInv, Shape, Steps
<1>2. q \notin AtWork /\ q \notin Attempt /\ q \notin Before
  BY DEF AtWork, Attempt, Before
<1>3. Shape'
  <2>1. me' = [u \in Threads |-> [run |-> me'[u].run, qty |-> me'[u].qty,
                                  order |-> me'[u].order]]
    BY DEF IInv, Shape, WorkShape
  <2> QED BY <1>1, <2>1 DEF Shape, Seen, RunShape, PosShape
<1>4. Numbers'
  BY <1>1 DEF IInv, Numbers, HasNumber
<1>5. Balance'
  BY DEF IInv, Balance, Seen
<1>6. BothFindFilled'
  BY <1>1, <1>2, Two DEF BothFindFilled
<1>7. Barred'
  <2> SUFFICES ASSUME NEW u \in Threads, NEW w \in Threads, u # w, pc'[u] \in Attempt
               PROVE  /\ pc'[w] \notin Attempt /\ pc'[w] \notin Before
                      /\ run'.status = "FILLED" => InFlight(run', pos') \/ run'.stuck
    BY DEF Barred, InFlight
  <2>1. u # t /\ w = t /\ pc[u] \in Attempt
    BY <1>1, <1>2, Two
  <2> QED BY <1>1, <1>2, <2>1
<1>8. NobodySells'
  <2> SUFFICES ASSUME Unsure', NEW u \in Threads \ {"loop"}
               PROVE  /\ pc'[u] \in Attempt => truth'.bal <= 0
                      /\ pc'[u] \in Before => pos'.closing \/ run'.exit # None \/ truth'.bal <= 0
    BY DEF NobodySells
  <2>1. CASE u = t
    BY <1>1, <1>2, <2>1
  <2>2. CASE u # t
    <3>1. t = "loop"
      BY <2>2, Two, ThreadsAssumption
    <3>2. pc'[u] # "unknown"
      BY <1>1, <2>2, <3>1 DEF IInv, Reconciled
    <3>3. run'.status = "ORDER_UNKNOWN"
      BY <1>1, <2>2, <3>2, Two DEF Unsure
    <3> QED BY <1>1, <2>2, <3>1, <3>3
  <2> QED BY <2>1, <2>2
<1>9. Reconciled'
  <2> SUFFICES ASSUME NEW u \in Threads
               PROVE  /\ pc'[u] = "unknown" => u = "loop" /\ run'.status # "FILLED"
                      /\ u = "loop" /\ pc'[u] = "pending" =>
                          /\ me'[u].run.exit # None => run'.exit # None
                          /\ \A w \in Threads : w # u /\ pc'[w] \in Attempt /\ me'[u].run.sent =>
                                 run'.exit = me'[u].run.exit
    BY DEF Reconciled
  <2>1. CASE u = t
    BY <1>1, <2>1
  <2>2. CASE u # t
    <3>1. \A w \in Threads : w # u => w = t
      BY <2>2, Two
    <3>2. u = "loop" => t # "loop"
      BY <2>2
    <3> QED BY <1>1, <1>2, <2>2, <3>1, <3>2 DEF IInv, Reconciled
  <2> QED BY <2>1, <2>2
<1> QED BY <1>3, <1>4, <1>5, <1>6, <1>7, <1>8, <1>9 DEF IInv

\* A thread goes on with its attempt.
LEMMA GoesOn ==
  ASSUME IInv, NEW t \in Threads, NEW q \in Attempt, NEW m, WorkShape(m), m.run = me[t].run,
         q = "mark" => m.order \in Sells,
         pc[t] \in Attempt, pc' = [pc EXCEPT ![t] = q], me' = [me EXCEPT ![t] = m],
         UNCHANGED <<held, run, pos, saved>>, Seen(truth')
  PROVE  IInv'
<1>1. /\ pc' \in [Threads -> Steps] /\ pc'[t] = q /\ me'[t] = m
      /\ \A u \in Threads : u # t => pc'[u] = pc[u] /\ me'[u] = me[u]
  BY DEF IInv, Shape, Steps, Attempt
<1>2. Shape'
  <2>1. me' = [u \in Threads |-> [run |-> me'[u].run, qty |-> me'[u].qty,
                                  order |-> me'[u].order]]
    BY DEF IInv, Shape, WorkShape
  <2> QED BY <1>1, <2>1 DEF IInv, Shape, Seen
<1>3. Numbers'
  BY <1>1 DEF IInv, Numbers, HasNumber
<1>4. Balance'
  BY DEF IInv, Balance, Seen
<1>5. /\ \A u \in Threads : pc'[u] \in Attempt <=> pc[u] \in Attempt
      /\ \A u \in Threads : pc'[u] \in Before <=> pc[u] \in Before
      /\ \A u \in Threads : pc'[u] \in {"unknown", "pending"} => pc'[u] = pc[u]
      /\ \A u \in Threads : pc[u] \in {"unknown", "pending"} => pc'[u] = pc[u]
      /\ \A u \in Threads : me'[u].run = me[u].run
      /\ \A u \in Threads : pc'[u] = "stale" => pc[u] = "stale"
  BY <1>1 DEF Attempt, Before
<1>6. BothFindFilled' /\ Barred'
  BY <1>5 DEF IInv, BothFindFilled, Barred, AtWork, InFlight
<1>7. NobodySells' /\ Reconciled'
  BY <1>5 DEF IInv, NobodySells, Unsure, Reconciled, Seen, Balance
<1> QED BY <1>2, <1>3, <1>4, <1>6, <1>7 DEF IInv

LEMMA FinalizeCloses ==
  ASSUME IInv, NEW o \in Sells, Finalize(o)
  PROVE  /\ RunShape(run') /\ HasNumber(run') /\ PosShape(pos') /\ PosShape(saved')
         /\ run'.status = "CLOSED" /\ run'.exit # None
<1>1. PosShape(pos') /\ PosShape(saved')
  BY DEF IInv, Shape, Finalize, PosShape, Save
<1>2. None \notin Sells
  BY SellsAssumption DEF Sells
<1>3. RunShape(run') /\ HasNumber(run') /\ run'.status = "CLOSED" /\ run'.exit # None
  BY <1>2 DEF IInv, Shape, Numbers, Finalize, RunShape, HasNumber
<1> QED BY <1>1, <1>3

LEMMA StatusWrites ==
  ASSUME IInv, NEW st, Status(st)
  PROVE  /\ RunShape(run') /\ HasNumber(run') /\ run'.status = st
         /\ run'.exit = run.exit /\ run'.sent = run.sent
BY DEF IInv, Shape, Numbers, Status, RunShape, HasNumber

LEMMA Unwritten ==
  ASSUME IInv, UNCHANGED <<run, pos, saved>>
  PROVE  /\ RunShape(run') /\ HasNumber(run') /\ PosShape(pos') /\ PosShape(saved')
         /\ InFlight(run, pos)' <=> InFlight(run, pos)
BY DEF IInv, Shape, Numbers, RunShape, PosShape, HasNumber, InFlight

LEMMA PartWrites ==
  ASSUME IInv, NEW r, NEW s, Part(r, s)
  PROVE  PosShape(pos') /\ PosShape(saved')
BY DEF IInv, Shape, Part, Reduced, PosShape, Save

LEMMA NothingIsWork == WorkShape(Nothing) /\ HasNumber(Nothing.run)
BY DEF WorkShape, Nothing, HasNumber, NewRun

-----------------------------------------------------------------------------
(* The steps *)

LEMMA StepReads ==
  ASSUME IInv, NEW t \in Threads, ReadPending(t) \/ ReadFilled(t) \/ ReadUnknown(t)
  PROVE  IInv'
<1>1. PICK what \in {"pending", "filled", "unknown"} :
          /\ Reads(t, what)
          /\ what = "unknown" => t = "loop" /\ run.status = "ORDER_UNKNOWN"
  BY DEF ReadPending, ReadFilled, ReadUnknown
<1>2. /\ pc' \in [Threads -> Steps] /\ pc'[t] = what /\ me'[t].run = run
      /\ \A u \in Threads : u # t => pc'[u] = pc[u] /\ me'[u] = me[u]
  BY <1>1 DEF IInv, Shape, Steps, Reads
<1>3. Shape'
  <2>1. me' = [u \in Threads |-> [run |-> me'[u].run, qty |-> me'[u].qty,
                                  order |-> me'[u].order]]
    BY <1>1 DEF IInv, Shape, Reads
  <2> QED BY <1>1, <1>2, <2>1 DEF IInv, Shape, Reads, book
<1>4. Numbers'
  BY <1>1, <1>2 DEF IInv, Numbers, HasNumber, Reads, book
<1>5. Balance' /\ UNCHANGED <<run, pos, truth>>
  BY <1>1 DEF IInv, Balance, Reads, book, broker
<1>6. pc[t] = "idle" /\ what \notin AtWork /\ what \notin Attempt /\ what \notin Before
  BY <1>1 DEF Reads, AtWork, Attempt, Before
<1>7. BothFindFilled' /\ Barred'
  BY <1>2, <1>5, <1>6 DEF IInv, BothFindFilled, Barred, InFlight
<1>8. NobodySells'
  <2>1. Unsure' => Unsure
    BY <1>1, <1>2, <1>5 DEF Unsure
  <2> QED BY <1>2, <1>5, <1>6, <2>1 DEF IInv, NobodySells
<1>9. Reconciled'
  BY <1>1, <1>2, <1>5, <1>6 DEF IInv, Reconciled
<1> QED BY <1>3, <1>4, <1>5, <1>7, <1>8, <1>9 DEF IInv

LEMMA StepReadStale ==
  ASSUME IInv, NEW t \in Threads, ReadStale(t)
  PROVE  IInv'
<1> DEFINE m == me[t]
<1>1. /\ WorkShape(m) /\ HasNumber(m.run) /\ me' = [me EXCEPT ![t] = m]
      /\ pc' = [pc EXCEPT ![t] = "stale"] /\ held' = held /\ run.status = "FILLED"
      /\ UNCHANGED <<run, pos, saved>>
  BY DEF ReadStale, Goes, IInv, Shape, Numbers, WorkShape, broker, book
<1>2. Seen(truth')
  BY DEF ReadStale, Seen, IInv, Shape, Balance
<1> HIDE DEF m
<1> QED BY <1>1, <1>2, Unwritten, Rests DEF IInv, Barred

LEMMA StepPending ==
  ASSUME IInv, NEW t \in Threads, NEW s \in Refreshed(FALSE), NEW late \in BOOLEAN,
         Pending(t, s, late)
  PROVE  IInv'
<1> DEFINE r == me[t].run
<1>1. /\ Seen(truth') /\ held' = held /\ pc[t] = "pending"
      /\ pc' = [pc EXCEPT ![t] = "idle"] /\ me' = [me EXCEPT ![t] = Nothing]
  BY RefreshedIsSeen DEF Pending, Done, Seen, broker
<1>2. HasNumber(r) /\ (t = "loop" /\ r.exit # None => run.exit # None)
  BY <1>1 DEF IInv, Numbers, Reconciled
<1>3. CASE UNCHANGED book
  <2>1. UNCHANGED <<run, pos, saved>>
    BY <1>3 DEF book
  <2>2. t = "loop" /\ run.status = "ORDER_UNKNOWN" =>
            \A u \in Threads \ {t} :
                /\ pc[u] \in Attempt => truth'.bal <= 0
                /\ pc[u] \in Before => pos.closing \/ run.exit # None \/ truth'.bal <= 0
    BY <1>1 DEF IInv, NobodySells, Unsure, Seen, Balance
  <2> QED BY <1>1, <2>1, <2>2, Unwritten, NothingIsWork, Rests DEF IInv, Barred
<1>4. CASE Evidence(r, s) # {} /\
           Finalize(IF r.exit \in Evidence(r, s) THEN r.exit ELSE First(Evidence(r, s)))
  <2>1. Evidence(r, s) \in SUBSET Sells
    BY <1>2 DEF Evidence, WithFills, Of, HasNumber
  <2>2. (IF r.exit \in Evidence(r, s) THEN r.exit ELSE First(Evidence(r, s))) \in Sells
    BY <1>4, <2>1, FirstIsSale
  <2> QED BY <1>1, <1>4, <2>2, FinalizeCloses, NothingIsWork, Rests
<1>5. ASSUME NEW st \in {"ORDER_UNKNOWN", "SELL_PARTIAL_FILLED", "SELL_ACKED"}, Status(st),
             st = "ORDER_UNKNOWN" => MayBeLate(t, s),
             PosShape(pos'), PosShape(saved')
      PROVE  IInv'
  <2>1. RunShape(run') /\ HasNumber(run') /\ run'.status = st /\ run'.exit = run.exit
    BY <1>5, StatusWrites
  <2>2. ASSUME t = "loop", st = "ORDER_UNKNOWN", NEW u \in Threads \ {t}
        PROVE  pc[u] \notin Attempt /\ run.exit # None
    <3>1. r.sent /\ r.exit # None /\ run.exit # None
      BY <1>2, <1>5, <2>2 DEF MayBeLate, HasNumber
    <3>2. pc[u] \in Attempt => run.exit = r.exit
      BY <1>1, <2>2, <3>1 DEF IInv, Reconciled
    <3> QED BY <1>5, <2>2, <3>1, <3>2 DEF MayBeLate
  <2> QED BY <1>1, <1>5, <2>1, <2>2, NothingIsWork, Rests
<1>6. CASE Part(r, s) /\ Status(IF late THEN "ORDER_UNKNOWN" ELSE "SELL_PARTIAL_FILLED")
           /\ (late => MayBeLate(t, s))
  BY <1>5, <1>6, PartWrites
<1>7. CASE /\ Status(IF late /\ Open(s, r.exit) = {} THEN "ORDER_UNKNOWN" ELSE "SELL_ACKED")
           /\ UNCHANGED <<closes, pos, saved>> /\ (late => MayBeLate(t, s))
  <2>1. PosShape(pos') /\ PosShape(saved')
    BY <1>7 DEF IInv, Shape, PosShape
  <2> QED BY <1>5, <1>7, <2>1
<1> QED BY <1>3, <1>4, <1>6, <1>7 DEF Pending

LEMMA StepFilled ==
  ASSUME IInv, NEW t \in Threads, NEW s \in Refreshed(FALSE), Filled(t, s)
  PROVE  IInv'
<1> DEFINE r == me[t].run
<1>1. /\ Seen(truth') /\ held' = held /\ truth' = s
      /\ pc' = [pc EXCEPT ![t] = "idle"] /\ me' = [me EXCEPT ![t] = Nothing]
  BY RefreshedIsSeen DEF Filled, Done, Seen, broker
<1>2. CASE s.bal = 0 /\ Sold(s, r.exit) >= Size /\ Finalize(First(WithFills(s, r.exit)))
  <2>1. WithFills(s, r.exit) # {}
    BY <1>2, NoneSold, SizeAssumption
  <2>2. WithFills(s, r.exit) \in SUBSET Sells
    BY DEF IInv, Numbers, HasNumber, WithFills, Of
  <2>3. First(WithFills(s, r.exit)) \in Sells
    BY <2>1, <2>2, FirstIsSale
  <2> QED BY <1>1, <1>2, <2>3, FinalizeCloses, NothingIsWork, Rests
<1>3. CASE s.bal = 0 /\ Status("ORDER_UNKNOWN") /\ UNCHANGED <<closes, pos, saved>>
  <2>1. PosShape(pos') /\ PosShape(saved')
    BY <1>3 DEF IInv, Shape, PosShape
  <2>2. /\ RunShape(run') /\ HasNumber(run') /\ run'.status = "ORDER_UNKNOWN"
        /\ run'.exit = run.exit /\ truth'.bal <= 0
    BY <1>1, <1>3, StatusWrites
  <2> QED BY <1>1, <2>1, <2>2, NothingIsWork, Rests
<1>4. CASE UNCHANGED book
  <2>1. UNCHANGED <<run, pos, saved>>
    BY <1>4 DEF book
  <2>2. t = "loop" /\ run.status = "ORDER_UNKNOWN" =>
            \A u \in Threads \ {t} :
                /\ pc[u] \in Attempt => truth'.bal <= 0
                /\ pc[u] \in Before => pos.closing \/ run.exit # None \/ truth'.bal <= 0
    BY <1>1 DEF IInv, NobodySells, Unsure, Seen, Balance
  <2> QED BY <1>1, <2>1, <2>2, Unwritten, NothingIsWork, Rests DEF IInv, Barred
<1> QED BY <1>2, <1>3, <1>4 DEF Filled

LEMMA StepUnknown ==
  ASSUME IInv, NEW t \in Threads, NEW s \in Refreshed(FALSE), Unknown(t, s)
  PROVE  IInv'
<1> DEFINE r == me[t].run
<1>1. /\ Seen(truth') /\ held' = held /\ truth' = s /\ s.bal <= truth.bal
      /\ s.bal \in Int /\ truth.bal \in Int
      /\ pc' = [pc EXCEPT ![t] = "idle"] /\ me' = [me EXCEPT ![t] = Nothing]
  BY RefreshedIsSeen DEF Unknown, Done, Seen, broker, IInv, Balance
<1>2. t = "loop" /\ Unsure
  BY DEF IInv, Reconciled, Unknown, Unsure
<1>3. ASSUME NEW st \in {"CLOSED", "SELL_PARTIAL_FILLED", "SELL_ACKED"}, Status(st),
             PosShape(pos'), PosShape(saved')
      PROVE  IInv'
  BY <1>1, <1>3, StatusWrites, NothingIsWork, Rests
<1>4. CASE UNCHANGED <<book, lock>>
  <2>1. UNCHANGED <<run, pos, saved>>
    BY <1>4 DEF book
  <2>2. \A u \in Threads \ {t} :
            /\ pc[u] \in Attempt => truth'.bal <= 0
            /\ pc[u] \in Before => pos.closing \/ run.exit # None \/ truth'.bal <= 0
    BY <1>1, <1>2 DEF IInv, NobodySells
  <2> QED BY <1>1, <2>1, <2>2, Unwritten, NothingIsWork, Rests DEF IInv, Barred
<1>5. CASE closes > 0 /\ Status("CLOSED") /\ UNCHANGED <<closes, pos, saved, lock>>
  <2>1. PosShape(pos') /\ PosShape(saved')
    BY <1>5 DEF IInv, Shape, PosShape
  <2> QED BY <1>3, <1>5, <2>1
<1>6. CASE Evidence(r, s) # {} /\
           Finalize(IF r.exit \in Evidence(r, s) THEN r.exit ELSE First(Evidence(r, s)))
  <2>1. Evidence(r, s) \in SUBSET Sells
    BY DEF IInv, Numbers, Evidence, WithFills, Of, HasNumber
  <2>2. (IF r.exit \in Evidence(r, s) THEN r.exit ELSE First(Evidence(r, s))) \in Sells
    BY <1>6, <2>1, FirstIsSale
  <2> QED BY <1>1, <1>6, <2>2, FinalizeCloses, NothingIsWork, Rests
<1>7. CASE Part(r, s) /\ Status("SELL_PARTIAL_FILLED")
  BY <1>3, <1>7, PartWrites
<1>8. CASE Status("SELL_ACKED") /\ UNCHANGED <<closes, pos, saved, lock>>
  <2>1. PosShape(pos') /\ PosShape(saved')
    BY <1>8 DEF IInv, Shape, PosShape
  <2> QED BY <1>3, <1>8, <2>1
<1>9. CASE StillHeld(r, s) /\ FilledAgain(r)
  <2>1. /\ RunShape(run') /\ HasNumber(run') /\ run'.status = "FILLED"
        /\ PosShape(pos') /\ PosShape(saved')
    BY <1>9 DEF IInv, Shape, FilledAgain, RunShape, PosShape, HasNumber, Save
  <2>2. ~(s.bal <= 0)
    BY <1>1, <1>9 DEF StillHeld
  <2>3. \A u \in Threads : u # t => pc[u] \notin Attempt
    BY <1>1, <1>2, <2>2 DEF IInv, NobodySells
  <2> QED BY <1>1, <1>2, <2>1, <2>3, NothingIsWork, Rests
<1> QED BY <1>4, <1>5, <1>6, <1>7, <1>8, <1>9 DEF Unknown

LEMMA StepStart ==
  ASSUME IInv, NEW t \in Threads, StartSell(t)
  PROVE  IInv'
<1>1. PICK q \in Before : pc' = [pc EXCEPT ![t] = q]
  BY DEF StartSell, Goes, Before
<1>2. /\ pc' \in [Threads -> Steps] /\ pc'[t] = q
      /\ \A u \in Threads : u # t => pc'[u] = pc[u]
      /\ \A u \in Threads : me'[u].run = me[u].run /\ me'[u].order = me[u].order
      /\ UNCHANGED <<held, truth, run, pos, saved>>
  BY <1>1 DEF IInv, Shape, Steps, Before, StartSell, broker, book
<1>3. /\ run.status = "FILLED" /\ ~InFlight(run, pos) /\ ~run.stuck
      /\ q \notin Attempt /\ q # "unknown" /\ q # "pending" /\ q # "mark"
  BY DEF StartSell, Untrusted, Before, Attempt
<1>4. Shape'
  <2>1. me' = [u \in Threads |-> [run |-> me'[u].run, qty |-> me'[u].qty,
                                  order |-> me'[u].order]]
    BY DEF IInv, Shape, StartSell
  <2> QED BY <1>2, <2>1 DEF IInv, Shape
<1>5. Numbers' /\ Balance'
  BY <1>2, <1>3 DEF IInv, Numbers, HasNumber, Balance
<1>6. \A u \in Threads : u # t => pc[u] \notin Attempt
  BY <1>3 DEF IInv, Barred
<1>7. BothFindFilled' /\ Barred'
  BY <1>2, <1>3, <1>6 DEF BothFindFilled, Barred
<1>8. NobodySells'
  <2>1. ~Unsure'
    BY <1>2, <1>3 DEF Unsure, IInv, Reconciled
  <2> QED BY <2>1 DEF NobodySells
<1>9. Reconciled'
  BY <1>2, <1>3 DEF IInv, Reconciled
<1> QED BY <1>4, <1>5, <1>7, <1>8, <1>9 DEF IInv

\* What a thread that sells and looks at the sales of the day writes: it ends, and the run is
\* closed, in flight or quarantined.
LEMMA Looked ==
  ASSUME IInv, NEW t \in Threads, NEW s, Seen(s), Looks(t, s) \/ Quarantine(t),
         pc[t] \in AtWork, truth' = s, held' = held
  PROVE  IInv'
<1>1. pc' = [pc EXCEPT ![t] = "idle"] /\ me' = [me EXCEPT ![t] = Nothing]
  BY DEF Looks, Quarantine, TakeFills, Relink, GivesUp, Done
<1>2. Open(s, None) \in SUBSET Sells /\ WithFills(s, None) \in SUBSET Sells
  BY DEF Open, WithFills, Of
<1>3. CASE Quarantine(t)
  <2>1. /\ RunShape(run') /\ HasNumber(run') /\ PosShape(pos') /\ PosShape(saved')
        /\ run'.stuck /\ run'.status = run.status /\ run'.exit = run.exit
    BY <1>3 DEF IInv, Shape, Numbers, Quarantine, Save, RunShape, HasNumber, PosShape
  <2>2. ASSUME run.status = "ORDER_UNKNOWN", t = "loop", NEW u \in Threads \ {t}
        PROVE  pc[u] \notin AtWork
    BY <2>2 DEF IInv, BothFindFilled
  <2> QED BY <1>1, <2>1, <2>2, NothingIsWork, Rests DEF AtWork
<1>4. CASE WithFills(s, None) # {} /\ TakeFills(t, s)
  <2>1. First(WithFills(s, None)) \in Sells
    BY <1>2, <1>4, FirstIsSale
  <2>2. CASE Finalize(First(WithFills(s, None)))
    BY <1>1, <2>1, <2>2, FinalizeCloses, NothingIsWork, Rests
  <2>3. CASE ~Finalize(First(WithFills(s, None)))
    <3>1. /\ PosShape(pos') /\ PosShape(saved')
          /\ run' = [run EXCEPT !.status = "SELL_PARTIAL_FILLED",
                                !.exit = First(WithFills(s, None)),
                                !.asked = me[t].qty, !.sent = TRUE, !.stuck = TRUE]
      BY <1>4, <2>3 DEF IInv, Shape, TakeFills, Reduced, PosShape
    <3>2. /\ RunShape(run') /\ HasNumber(run') /\ run'.status = "SELL_PARTIAL_FILLED"
          /\ run'.exit # None
      BY <2>1, <3>1, SellsAssumption DEF IInv, Shape, RunShape, HasNumber, Sells
    <3> QED BY <1>1, <3>1, <3>2, NothingIsWork, Rests
  <2> QED BY <2>2, <2>3
<1>5. CASE Open(s, None) # {} /\ Relink(t, s)
  <2>1. First(Open(s, None)) \in Sells
    BY <1>2, <1>5, FirstIsSale
  <2>2. /\ RunShape(run') /\ HasNumber(run') /\ run'.status = "SELL_ACKED" /\ run'.exit # None
    BY <1>5, <2>1, SellsAssumption DEF IInv, Shape, Relink, RunShape, HasNumber, Sells
  <2>3. PosShape(pos') /\ PosShape(saved')
    BY <1>5 DEF IInv, Shape, Relink, Save, PosShape
  <2> QED BY <1>1, <2>2, <2>3, NothingIsWork, Rests
<1> QED BY <1>3, <1>4, <1>5 DEF Looks

LEMMA StepObserve ==
  ASSUME IInv, NEW t \in Threads, NEW s \in Refreshed(TRUE), Observe(t, s)
  PROVE  IInv'
<1>1. Seen(s) /\ truth' = s /\ held' = held /\ pc[t] = "observe"
  BY RefreshedIsSeen DEF Observe, broker
<1>2. CASE Looks(t, s)
  BY <1>1, <1>2, Looked DEF AtWork, Before
<1>3. CASE /\ pos' = [pos EXCEPT !.watch = FALSE] /\ Save
           /\ run' = [run EXCEPT !.watch = FALSE]
           /\ Goes(t, "review") /\ UNCHANGED <<closes, me, lock>>
  <2>1. /\ pc' \in [Threads -> Steps] /\ pc'[t] = "review"
        /\ \A u \in Threads : u # t => pc'[u] = pc[u]
    BY <1>3 DEF IInv, Shape, Steps, Goes
  <2>2. /\ run'.status = run.status /\ run'.exit = run.exit /\ run'.sent = run.sent
        /\ run'.stuck = run.stuck /\ pos'.closing = pos.closing /\ pos'.sale = pos.sale
    BY <1>3 DEF IInv, Shape
  <2>3. Shape'
    BY <1>1, <1>3, <2>1 DEF IInv, Shape, Save, Seen
  <2>4. Numbers' /\ Balance'
    BY <1>1, <1>3, <2>1, <2>2 DEF IInv, Numbers, HasNumber, Balance, Seen
  <2>5. /\ \A u \in Threads : pc'[u] \in Attempt <=> pc[u] \in Attempt
        /\ \A u \in Threads : pc'[u] \in Before <=> pc[u] \in Before
        /\ \A u \in Threads : pc'[u] \in {"unknown", "pending", "stale"} => pc'[u] = pc[u]
    BY <1>1, <2>1 DEF Attempt, Before
  <2>6. BothFindFilled' /\ Barred'
    BY <2>2, <2>5 DEF IInv, BothFindFilled, Barred, AtWork, InFlight
  <2>7. NobodySells'
    <3>1. Unsure' => Unsure
      BY <2>2, <2>5 DEF Unsure
    <3> QED BY <1>1, <2>2, <2>5, <3>1 DEF IInv, NobodySells, Seen, Balance
  <2>8. Reconciled'
    BY <1>3, <2>2, <2>5 DEF IInv, Reconciled
  <2> QED BY <2>3, <2>4, <2>6, <2>7, <2>8 DEF IInv
<1> QED BY <1>2, <1>3 DEF Observe

LEMMA StepRejected ==
  ASSUME IInv, NEW t \in Threads, NEW s \in Refreshed(TRUE), Rejected(t, s)
  PROVE  IInv'
<1>1. Seen(s) /\ truth' = s /\ held' = held /\ pc[t] = "reject"
  BY RefreshedIsSeen DEF Rejected, broker
<1> QED BY <1>1, Looked DEF Rejected, AtWork, Attempt

\* A thread gives up without a word to the run.
LEMMA GivenUp ==
  ASSUME IInv, NEW t \in Threads, pc[t] \in AtWork, NEW q \in {"idle", "zero"},
         NEW m, WorkShape(m), HasNumber(m.run),
         pc' = [pc EXCEPT ![t] = q], me' = [me EXCEPT ![t] = m],
         UNCHANGED <<held, truth, run, saved>>,
         pos' = pos \/ (pc[t] \in Attempt /\ pos' = [pos EXCEPT !.closing = FALSE])
  PROVE  IInv'
<1>1. Seen(truth')
  BY DEF Seen, IInv, Shape, Balance
<1>2. RunShape(run') /\ HasNumber(run') /\ PosShape(pos') /\ PosShape(saved')
  BY DEF IInv, Shape, Numbers, RunShape, HasNumber, PosShape
<1>3. CASE pos' = pos
  <2>1. InFlight(run', pos') <=> InFlight(run, pos)
    BY <1>3 DEF InFlight
  <2>2. t = "loop" /\ run.status = "ORDER_UNKNOWN" =>
            \A u \in Threads \ {t} : pc[u] \notin AtWork
    BY DEF IInv, BothFindFilled
  <2> QED BY <1>1, <1>2, <1>3, <2>1, <2>2, Rests DEF IInv, Barred, AtWork
<1>4. CASE pc[t] \in Attempt
  <2>1. \A u \in Threads : u # t => pc[u] \notin Attempt
    BY <1>4 DEF IInv, Barred
  <2>2. t = "loop" /\ run.status = "ORDER_UNKNOWN" =>
            \A u \in Threads \ {t} : pc[u] \notin AtWork
    BY DEF IInv, BothFindFilled
  <2> QED BY <1>1, <1>2, <2>1, <2>2, Rests DEF AtWork
<1> QED BY <1>3, <1>4

LEMMA StepReview ==
  ASSUME IInv, NEW t \in Threads, ReviewHolds(t) \/ ReviewSells(t)
  PROVE  IInv'
<1>1. /\ pc[t] = "review" /\ pc[t] \in Before /\ pc[t] \in AtWork
      /\ UNCHANGED <<held, truth, run, saved>>
  BY DEF ReviewHolds, ReviewSells, AtWork, Before, broker, book
<1>2. CASE GivesUp(t) /\ UNCHANGED pos
  <2>1. /\ pc' = [pc EXCEPT ![t] = "idle"] /\ me' = [me EXCEPT ![t] = Nothing]
        /\ pos' = pos
    BY <1>2 DEF GivesUp, Done
  <2> QED BY <1>1, <2>1, NothingIsWork, GivenUp
<1>3. CASE /\ ~(Untrusted(run, pos) \/ InFlight(run, pos))
           /\ pos' = [pos EXCEPT !.closing = TRUE]
           /\ Goes(t, "precheck") /\ UNCHANGED <<me, lock>>
  <2>1. /\ pc' \in [Threads -> Steps] /\ pc'[t] = "precheck"
        /\ \A u \in Threads : u # t => pc'[u] = pc[u]
    BY <1>3 DEF IInv, Shape, Steps, Goes
  <2>2. pos'.closing /\ InFlight(run', pos')
    BY <1>3 DEF IInv, Shape, InFlight
  <2>3. run.exit = None /\ ~pos.closing
    BY <1>3 DEF InFlight
  <2>4. \A u \in Threads : u # t => pc[u] \notin Attempt
    BY <1>1, <2>3 DEF IInv, Barred
  <2>5. Shape'
    BY <1>1, <1>3, <2>1 DEF IInv, Shape
  <2>6. Numbers' /\ Balance'
    BY <1>1, <1>3, <2>1 DEF IInv, Numbers, HasNumber, Balance
  <2>7. BothFindFilled'
    BY <1>1, <2>1 DEF IInv, BothFindFilled, AtWork, Attempt
  <2>8. Barred'
    BY <2>1, <2>2, <2>4 DEF Barred, Before
  <2>9. NobodySells'
    <3>1. Unsure' => Unsure
      BY <1>1, <2>1 DEF Unsure
    <3> QED BY <1>1, <2>1, <2>2, <2>3, <3>1 DEF IInv, NobodySells, Before
  <2>10. Reconciled'
    <3>1. ASSUME NEW u \in Threads, u # t, u = "loop", pc[u] = "pending"
          PROVE  ~me[u].run.sent
      BY <2>3, <3>1 DEF IInv, Reconciled, Numbers, HasNumber
    <3> QED BY <1>1, <1>3, <2>1, <2>4, <3>1 DEF IInv, Reconciled
  <2> QED BY <2>5, <2>6, <2>7, <2>8, <2>9, <2>10 DEF IInv
<1> QED BY <1>2, <1>3 DEF ReviewHolds, ReviewSells, book

LEMMA StepPrecheck ==
  ASSUME IInv, NEW t \in Threads, (\E b \in Balances : Precheck(t, b)) \/ PrecheckFails(t)
  PROVE  IInv'
<1>1. /\ pc[t] = "precheck" /\ pc[t] \in Attempt /\ pc[t] \in AtWork
      /\ UNCHANGED <<held, truth>>
  BY DEF Precheck, PrecheckFails, AtWork, Attempt, broker
<1>2. WorkShape(me[t]) /\ HasNumber(me[t].run) /\ me = [me EXCEPT ![t] = me[t]]
  BY DEF IInv, Shape, Numbers, WorkShape
<1>3. Seen(truth')
  BY <1>1 DEF Seen, IInv, Shape, Balance
<1>4. CASE Goes(t, "place") /\ UNCHANGED <<book, me, lock>>
  <2>1. UNCHANGED <<run, pos, saved>> /\ "place" \in Attempt
    BY <1>4 DEF book, Attempt
  <2> QED BY <1>1, <1>2, <1>3, <1>4, <2>1, GoesOn DEF Goes
<1>5. CASE Goes(t, "zero") /\ NotClosing /\ UNCHANGED <<me, lock>>
  <2> DEFINE m == me[t]
  <2>1. /\ WorkShape(m) /\ HasNumber(m.run) /\ me' = [me EXCEPT ![t] = m]
        /\ pc' = [pc EXCEPT ![t] = "zero"] /\ UNCHANGED <<run, saved>>
        /\ pos' = [pos EXCEPT !.closing = FALSE]
    BY <1>2, <1>5 DEF Goes, NotClosing
  <2> HIDE DEF m
  <2> QED BY <1>1, <2>1, GivenUp
<1>6. CASE GivesUp(t) /\ NotClosing
  BY <1>1, <1>6, NothingIsWork, GivenUp DEF GivesUp, Done, NotClosing
<1> QED BY <1>4, <1>5, <1>6 DEF Precheck, PrecheckFails

LEMMA StepZero ==
  ASSUME IInv, NEW t \in Threads, NEW s \in Refreshed(TRUE), Zero(t, s)
  PROVE  IInv'
<1>1. /\ Seen(truth') /\ held' = held
      /\ pc' = [pc EXCEPT ![t] = "idle"] /\ me' = [me EXCEPT ![t] = Nothing]
  <2>1. Seen(s)
    BY RefreshedIsSeen
  <2>2. Seen(truth)
    BY DEF Seen, IInv, Shape, Balance
  <2> QED BY <2>1, <2>2 DEF Zero, GivesUp, Done, broker, Seen
<1>2. CASE UNCHANGED book
  <2>1. UNCHANGED <<run, pos, saved>>
    BY <1>2 DEF book
  <2>2. t = "loop" /\ run.status = "ORDER_UNKNOWN" =>
            \A u \in Threads \ {t} :
                /\ pc[u] \in Attempt => truth'.bal <= 0
                /\ pc[u] \in Before => pos.closing \/ run.exit # None \/ truth'.bal <= 0
    BY <1>1 DEF IInv, NobodySells, Unsure, Seen, Balance
  <2> QED BY <1>1, <2>1, <2>2, Unwritten, NothingIsWork, Rests DEF IInv, Barred
<1>3. CASE /\ pos' = [pos EXCEPT !.there = FALSE]
           /\ IF pos.there THEN Save ELSE UNCHANGED saved
           /\ Status("CLOSED")
  <2>1. PosShape(pos') /\ PosShape(saved')
    BY <1>3 DEF IInv, Shape, PosShape, Save
  <2>2. /\ RunShape(run') /\ HasNumber(run') /\ run'.status = "CLOSED"
        /\ run'.exit = run.exit
    BY <1>3, StatusWrites
  <2> QED BY <1>1, <2>1, <2>2, NothingIsWork, Rests
<1> QED BY <1>2, <1>3 DEF Zero, book

LEMMA StepPlace ==
  ASSUME IInv, NEW t \in Threads,
         \/ \E o \in Sells : PlaceAccepted(t, o) \/ Found(t, o)
         \/ ServerError(t) \/ PlaceUnknown(t) \/ PlaceRejected(t) \/ PlaceFails(t)
  PROVE  IInv'
<1>1. /\ pc[t] \in Attempt /\ pc[t] \in AtWork
      /\ UNCHANGED <<held, truth>>
  BY DEF PlaceAccepted, Found, ServerError, PlaceUnknown, PlaceRejected, PlaceFails, Sending, AtWork,
         Attempt, broker
<1>2. Seen(truth')
  BY <1>1 DEF Seen, IInv, Shape, Balance
<1>3. ASSUME NEW o, NEW q \in Attempt, q = "mark" => o \in Sells,
             pc' = [pc EXCEPT ![t] = q], me' = [me EXCEPT ![t].order = o], UNCHANGED <<run, pos, saved>>
      PROVE  IInv'
  <2>1. me' = [me EXCEPT ![t] = [me[t] EXCEPT !.order = o]]
    BY <1>3 DEF IInv, Shape
  <2>2. me[t] = [run |-> me[t].run, qty |-> me[t].qty, order |-> me[t].order]
    BY DEF IInv, Shape
  <2> DEFINE m == [me[t] EXCEPT !.order = o]
  <2>3. WorkShape(m) /\ m.run = me[t].run /\ m.order = o
    BY <2>2 DEF WorkShape
  <2> HIDE DEF m
  <2>4. me' = [me EXCEPT ![t] = m]
    BY <2>1 DEF m
  <2> QED BY <1>1, <1>2, <1>3, <2>3, <2>4, GoesOn
<1>4. CASE PlaceUnknown(t)
  <2>1. /\ RunShape(run') /\ HasNumber(run') /\ run'.status = "ORDER_UNKNOWN"
        /\ run'.exit = run.exit
    BY <1>4, StatusWrites DEF PlaceUnknown
  <2>2. UNCHANGED <<pos, saved>> /\ PosShape(pos') /\ PosShape(saved')
    BY <1>4 DEF PlaceUnknown, IInv, Shape, PosShape
  <2>3. \A u \in Threads : u # t => pc[u] \notin Attempt /\ (pc[u] \in Before => pos.closing)
    BY <1>1 DEF IInv, Barred
  <2>4. pc' = [pc EXCEPT ![t] = "idle"] /\ me' = [me EXCEPT ![t] = Nothing]
    BY <1>4 DEF PlaceUnknown, GivesUp, Done
  <2> QED BY <1>1, <1>2, <2>1, <2>2, <2>3, <2>4, NothingIsWork, Rests
<1>5. CASE PlaceRejected(t)
  BY <1>3, <1>5 DEF PlaceRejected, Goes, book, Attempt
<1>6. CASE PlaceFails(t)
  BY <1>1, <1>6, NothingIsWork, GivenUp DEF PlaceFails, GivesUp, Done, NotClosing
<1>7. ASSUME NEW o \in Sells, PlaceAccepted(t, o) \/ Found(t, o) PROVE IInv'
  BY <1>3, <1>7 DEF PlaceAccepted, Found, Goes, book, Attempt
<1>8. CASE ServerError(t)
  <2>1. pc' = [pc EXCEPT ![t] = "truth"] /\ UNCHANGED <<run, pos, saved>> /\ "truth" \in Attempt
    BY <1>8 DEF ServerError, Goes, book, Attempt
  <2>2. CASE \E o \in Sells : me' = [me EXCEPT ![t].order = o]
    BY <1>3, <2>1, <2>2
  <2>3. CASE me' = me
    <3> DEFINE m == me[t]
    <3>1. WorkShape(m) /\ me' = [me EXCEPT ![t] = m] /\ m.run = me[t].run
      BY <2>3 DEF IInv, Shape, WorkShape
    <3> HIDE DEF m
    <3> QED BY <1>1, <1>2, <2>1, <3>1, GoesOn
  <2> QED BY <1>8, <2>2, <2>3 DEF ServerError
<1> QED BY <1>4, <1>5, <1>6, <1>7, <1>8

LEMMA StepMark ==
  ASSUME IInv, NEW t \in Threads, Mark(t)
  PROVE  IInv'
<1>1. Seen(truth') /\ held' = held
  BY DEF Mark, broker, Seen, IInv, Shape, Balance
<1>2. pc' = [pc EXCEPT ![t] = "idle"] /\ me' = [me EXCEPT ![t] = Nothing]
  BY DEF Mark, Done
<1>3. me[t].order \in Sells /\ me[t].order # None
  BY SellsAssumption DEF Mark, IInv, Numbers, Sells
<1>4. /\ RunShape(run') /\ HasNumber(run') /\ run'.status = "SELL_SENT" /\ run'.exit # None
  BY <1>3 DEF IInv, Shape, Mark, RunShape, HasNumber
<1>5. PosShape(pos') /\ PosShape(saved')
  BY DEF IInv, Shape, Mark, Save, PosShape
<1> QED BY <1>1, <1>2, <1>4, <1>5, NothingIsWork, Rests

\* A mark that is cleared is not that of a sale in its course: not until the history says so.
LEMMA StepClear ==
  ASSUME IInv, NEW t \in Threads, NEW s \in Refreshed(TRUE), ClearStale(t, s) \/ KeepStale(t, s), ~hasty'
  PROVE  IInv'
<1>1. /\ Seen(truth') /\ UNCHANGED <<held, run>> /\ pc[t] = "stale"
      /\ pc' = [pc EXCEPT ![t] = "idle"] /\ me' = [me EXCEPT ![t] = Nothing]
  BY RefreshedIsSeen DEF ClearStale, KeepStale, Done, broker, book, Seen
<1>2. RunShape(run') /\ HasNumber(run') /\ PosShape(pos') /\ PosShape(saved')
  BY <1>1 DEF ClearStale, KeepStale, Save, book, IInv, Shape, Numbers, RunShape, HasNumber, PosShape
<1>3. \A u \in Threads : u # t /\ pc[u] \in AtWork => run.status = "FILLED"
  BY <1>1 DEF IInv, BothFindFilled
<1>4. CASE ClearStale(t, s)
  <2>1. \A u \in Threads : pc[u] \notin Attempt
    BY <1>4 DEF ClearStale
  <2> QED BY <1>1, <1>2, <1>3, <2>1, NothingIsWork, Rests DEF AtWork
<1>5. CASE KeepStale(t, s)
  <2>1. UNCHANGED <<run, pos, saved>>
    BY <1>5 DEF KeepStale, book
  <2> QED BY <1>1, <1>2, <1>3, <2>1, Unwritten, NothingIsWork, Rests DEF IInv, Barred, AtWork
<1> QED BY <1>4, <1>5

LEMMA StepSync ==
  ASSUME IInv, NEW b, Sync(b)
  PROVE  IInv'
<1>1. PosShape(pos') /\ pos'.closing = pos.closing /\ pos'.sale = pos.sale /\ saved' = pos'
  BY DEF Sync, Save, IInv, Shape, PosShape
<1>2. UNCHANGED <<held, truth, run, pc, me>>
  BY DEF Sync, broker, threads
<1>3. Shape'
  BY <1>1, <1>2 DEF IInv, Shape, PosShape
<1>4. Numbers' /\ Balance'
  BY <1>2 DEF IInv, Numbers, HasNumber, Balance
<1>5. BothFindFilled' /\ Barred' /\ NobodySells' /\ Reconciled'
  BY <1>1, <1>2 DEF IInv, BothFindFilled, Barred, InFlight, NobodySells, Unsure, Reconciled
<1> QED BY <1>3, <1>4, <1>5 DEF IInv

LEMMA StepCrash ==
  ASSUME IInv, Crash
  PROVE  IInv'
<1>1. /\ \A t \in Threads : pc'[t] = "idle" /\ me'[t] = Nothing
      /\ UNCHANGED <<held, run, saved>> /\ pos' = saved
  BY DEF Crash, broker
<1>2. Shape'
  <2>1. /\ pc' \in [Threads -> Steps]
        /\ me' = [t \in Threads |-> [run |-> me'[t].run, qty |-> me'[t].qty,
                                     order |-> me'[t].order]]
    BY DEF Crash, Steps, Nothing
  <2>2. truth' = [ok |-> truth'.ok, bal |-> truth'.bal, order |-> truth'.order]
    BY DEF Crash, IInv, Shape
  <2> QED BY <1>1, <2>1, <2>2 DEF IInv, Shape
<1>3. Numbers'
  BY <1>1, NothingIsWork DEF IInv, Numbers, HasNumber
<1>4. truth'.bal = truth.bal
  BY DEF Crash, IInv, Shape
<1>5. Balance'
  BY <1>1, <1>4 DEF IInv, Balance
<1>6. BothFindFilled' /\ Barred' /\ NobodySells' /\ Reconciled'
  BY <1>1 DEF BothFindFilled, Barred, NobodySells, Reconciled, AtWork, Before, Attempt
<1> QED BY <1>2, <1>3, <1>5, <1>6 DEF IInv

LEMMA StepApart ==
  ASSUME IInv, Outside \/ LockExpires
  PROVE  IInv'
<1>1. UNCHANGED <<run, saved, pc, me, pos, truth>>
  BY DEF Outside, Fill, UserSells, Cancel, LockExpires, book, threads, broker
<1>2. held' \in Int /\ held' <= held
  <2>1. CASE \E o \in Sells, n \in 1 .. Size : Fill(o, n)
    BY <2>1, SizeAssumption DEF Fill, IInv, Balance
  <2>2. CASE ~(\E o \in Sells, n \in 1 .. Size : Fill(o, n))
    <3>1. held' = held
      BY <2>2 DEF Outside, UserSells, Cancel, LockExpires, broker
    <3> QED BY <3>1 DEF IInv, Balance
  <2> QED BY <2>1, <2>2
<1>3. PosShape(pos') /\ pos'.closing = pos.closing /\ pos'.sale = pos.sale
  BY <1>1 DEF IInv, Shape, PosShape
<1> QED BY <1>1, <1>2, <1>3, Apart

-----------------------------------------------------------------------------
(* The theorem *)

LEMMA InitIInv == Init => IInv
<1> SUFFICES ASSUME Init PROVE IInv
  OBVIOUS
<1>1. Shape
  BY DEF Init, Shape, NewRun, NewPosition, Nothing, Steps
<1>2. Numbers
  BY NothingIsWork DEF Init, Numbers, HasNumber, NewRun
<1>3. Balance
  BY SizeAssumption DEF Init, Balance
<1>4. BothFindFilled /\ Barred /\ NobodySells /\ Reconciled
  BY DEF Init, BothFindFilled, Barred, NobodySells, Reconciled, AtWork, Before, Attempt
<1> QED BY <1>1, <1>2, <1>3, <1>4 DEF IInv

LEMMA StepIInv == IInv /\ [Next]_vars /\ ~hasty' => IInv'
<1> SUFFICES ASSUME IInv, [Next]_vars, ~hasty' PROVE IInv'
  OBVIOUS
<1>1. CASE Outside \/ LockExpires
  BY <1>1, StepApart
<1>2. ASSUME NEW t \in Threads, Read(t) PROVE IInv'
  BY <1>2, StepReads, StepReadStale DEF Read
<1>3. ASSUME NEW t \in Threads, Reconcile(t) PROVE IInv'
  BY <1>3, StepPending, StepFilled, StepUnknown DEF Reconcile
<1>4. ASSUME NEW t \in Threads, Sell(t) PROVE IInv'
  BY <1>4, StepStart, StepObserve, StepRejected, StepZero, StepReview, StepPrecheck, StepPlace,
     StepMark DEF Sell
<1>5. ASSUME NEW t \in Threads, Clear(t) PROVE IInv'
  BY <1>5, StepClear DEF Clear
<1>6. CASE \E b \in Balances : Sync(b)
  BY <1>6, StepSync
<1>7. CASE Crash
  BY <1>7, StepCrash
<1>8. CASE UNCHANGED vars
  <2>1. UNCHANGED <<held, run, pos, saved, truth, pc, me>>
    BY <1>8 DEF vars, broker, book, threads
  <2>2. held' \in Int /\ held' <= held /\ PosShape(pos')
    BY <2>1 DEF IInv, Balance, Shape, PosShape
  <2> QED BY <2>1, <2>2, Apart
<1> QED BY <1>1, <1>2, <1>3, <1>4, <1>5, <1>6, <1>7, <1>8 DEF Next

\* What the history remembers it does not forget.
LEMMA HistoryStays ==
  ASSUME [Next]_vars
  PROVE  (hasty => hasty') /\ (crossed => crossed') /\ (astray => astray')
<1>1. CASE Outside \/ LockExpires \/ (\E b \in Balances : Sync(b)) \/ Crash \/ UNCHANGED vars
  <2>1. UNCHANGED <<hasty, crossed, astray>>
    BY <1>1 DEF Outside, Fill, Cancel, UserSells, LockExpires, Sync, Crash, vars, history
  <2> QED BY <2>1
<1>2. ASSUME NEW t \in Threads, Read(t) \/ Reconcile(t)
      PROVE  (hasty => hasty') /\ (crossed => crossed') /\ (astray => astray')
  <2>1. UNCHANGED <<hasty, astray>>
    BY <1>2 DEF Read, ReadPending, ReadFilled, ReadUnknown, ReadStale, Reads, Reconcile, Pending,
                Filled, Unknown, Crosses, history
  <2>2. crossed => crossed'
    BY <1>2 DEF Read, ReadPending, ReadFilled, ReadUnknown, ReadStale, Reads, Reconcile, Pending,
                Filled, Unknown, Crosses, history
  <2> QED BY <2>1, <2>2
<1>3. ASSUME NEW t \in Threads, Clear(t)
      PROVE  (hasty => hasty') /\ (crossed => crossed') /\ (astray => astray')
  <2>1. UNCHANGED <<crossed, astray>>
    BY <1>3 DEF Clear, ClearStale, KeepStale, history
  <2>2. hasty => hasty'
    BY <1>3 DEF Clear, ClearStale, KeepStale, history
  <2> QED BY <2>1, <2>2
<1>4. ASSUME NEW t \in Threads, Sell(t)
      PROVE  (hasty => hasty') /\ (crossed => crossed') /\ (astray => astray')
  <2>1. hasty' = hasty
    BY <1>4 DEF Sell, StartSell, Observe, Rejected, Zero, ReviewHolds, ReviewSells, Precheck,
                PrecheckFails, PlaceAccepted, ServerError, Found, PlaceUnknown, PlaceRejected,
                PlaceFails, Mark, history
  <2>2. crossed => crossed'
    BY <1>4 DEF Sell, StartSell, Observe, Rejected, Zero, ReviewHolds, ReviewSells, Precheck,
                PrecheckFails, PlaceAccepted, ServerError, Found, PlaceUnknown, PlaceRejected,
                PlaceFails, Mark, history
  <2>3. astray => astray'
    BY <1>4 DEF Sell, StartSell, Observe, Rejected, Zero, ReviewHolds, ReviewSells, Precheck,
                PrecheckFails, PlaceAccepted, ServerError, Found, PlaceUnknown, PlaceRejected,
                PlaceFails, Mark, history
  <2> QED BY <2>1, <2>2, <2>3
<1> QED BY <1>1, <1>2, <1>3, <1>4 DEF Next

LEMMA HoldsUnhurried == Spec => [](hasty \/ IInv)
<1>1. (hasty \/ IInv) /\ [Next]_vars => (hasty \/ IInv)'
  BY StepIInv, HistoryStays
<1> QED BY InitIInv, <1>1, PTL DEF Spec

\* The trading loop and the WebSocket thread never send one exit at once, whatever expires,
\* fails, is sent again, is lost or is restarted, unless the mark of a sale is cleared while a
\* thread is at it.
THEOREM NeverBoth == Spec => []OneAttempt
<1>1. hasty \/ IInv => OneAttempt
  BY DEF IInv, Barred, OneAttempt
<1> QED BY HoldsUnhurried, <1>1, PTL

-----------------------------------------------------------------------------
(* Sums over orders: what the broker can still sell, and what was sold. *)

Terms == [o \in Sells |-> Left(o)]

LEMMA SellsFinite == IsFiniteSet(Sells)
BY SellsAssumption, FS_Interval DEF Sells

LEMMA AvailableIs == \E it : IsSum(it, Terms, Sells) /\ Available = held - it[Sells]
<1> DEFINE Sums(iter) == [S \in SUBSET Sells |->
                             IF S = {} THEN 0 ELSE Left(Pick(S)) + iter[S \ {Pick(S)}]]
           it == CHOOSE iter : iter = Sums(iter)
<1>1. Available = held - it[Sells]
  BY DEF Available, MapThenSumSet, MapThenFoldSet, Pick
<1>2. ASSUME NEW iter PROVE Sums(iter) = [S \in SUBSET Sells |-> Adding(iter, Terms, S)]
  <2>1. ASSUME NEW S \in SUBSET Sells, S # {} PROVE Terms[Pick(S)] = Left(Pick(S))
    BY <2>1, PickIsIn DEF Terms
  <2> QED BY <2>1 DEF Adding
<1>3. IsSum(it, Terms, Sells)
  <2>1. PICK jt : IsSum(jt, Terms, Sells)
    BY SellsFinite, SumExists
  <2>2. jt = Sums(jt)
    BY <1>2, <2>1 DEF IsSum
  <2> HIDE DEF Sums
  <2>3. it = Sums(it)
    BY <2>2
  <2> QED BY <1>2, <2>3 DEF IsSum
<1> QED BY <1>1, <1>3

LEMMA AvailableIsNext == (\E it : IsSum(it, Terms, Sells) /\ Available = held - it[Sells])'
BY AvailableIs, PTL

\* Sold adds up naturals, and of one order it is what that order has sold.
LEMMA SoldIs ==
  ASSUME NEW s, \A o \in Sells : s.order[o].filled \in Nat, NEW e \in Sells \cup {None}
  PROVE  /\ Sold(s, e) \in Nat
         /\ e # None => Sold(s, e) = s.order[e].filled
         /\ \A o : WithFills(s, e) = {o} => Sold(s, e) = s.order[o].filled
         /\ Sold(s, e) = 0 => WithFills(s, e) = {}
<1> DEFINE W == WithFills(s, e)
           F == [o \in W |-> s.order[o].filled]
           Sums(iter) == [S \in SUBSET W |->
                             IF S = {} THEN 0 ELSE s.order[Pick(S)].filled + iter[S \ {Pick(S)}]]
           it == CHOOSE iter : iter = Sums(iter)
<1>1. W \in SUBSET Sells /\ IsFiniteSet(W)
  <2>1. W \in SUBSET Sells
    BY DEF WithFills, Of
  <2> QED BY <2>1, SellsFinite, FS_Subset
<1>2. F \in [W -> Nat]
  BY <1>1
<1>3. Sold(s, e) = it[W]
  BY DEF Sold, MapThenSumSet, MapThenFoldSet, Pick
<1>4. ASSUME NEW iter PROVE Sums(iter) = [S \in SUBSET W |-> Adding(iter, F, S)]
  <2>1. ASSUME NEW S \in SUBSET W, S # {} PROVE F[Pick(S)] = s.order[Pick(S)].filled
    BY <2>1, PickIsIn
  <2> QED BY <2>1 DEF Adding
<1> HIDE DEF F
<1>5. IsSum(it, F, W)
  <2>1. PICK jt : IsSum(jt, F, W)
    BY <1>1, SumExists
  <2>2. jt = Sums(jt)
    BY <1>4, <2>1 DEF IsSum
  <2> HIDE DEF Sums
  <2>3. it = Sums(it)
    BY <2>2
  <2> QED BY <1>4, <2>3 DEF IsSum
<1> HIDE DEF it
<1>6. \A S \in SUBSET W : it[S] \in Nat
  BY <1>1, <1>2, <1>5, SumIsNat
<1>7. W \in SUBSET W
  OBVIOUS
<1>8. ASSUME Sold(s, e) = 0 PROVE W = {}
  <2> SUFFICES ASSUME NEW o \in W PROVE FALSE
    OBVIOUS
  <2>0. it[W] = 0
    BY <1>3, <1>8
  <2>1. \A x \in W : F[x] = 0
    <3> HIDE DEF W
    <3> QED BY <1>1, <1>2, <1>5, <1>7, <2>0, SumOfZeros
  <2>2. s.order[o].filled = 0
    BY <2>1 DEF F
  <2> QED BY <2>2 DEF WithFills
<1>9. ASSUME NEW o, W = {o} PROVE Sold(s, e) = s.order[o].filled
  <2>1. it[W] = F[Pick(W)] + it[W \ {Pick(W)}] /\ Pick(W) = o /\ W \ {o} = {}
    BY <1>5, <1>7, <1>9, SumStep, PickIsIn
  <2>2. it[{}] = 0
    BY <1>5, SumStep
  <2>3. F[o] = s.order[o].filled /\ s.order[o].filled \in Nat
    BY <1>1, <1>9 DEF F
  <2>4. it[W] = F[o] + it[{}]
    BY <2>1
  <2> QED BY <1>3, <2>2, <2>3, <2>4
<1>10. ASSUME e # None PROVE Sold(s, e) = s.order[e].filled
  <2>1. e \in Sells /\ W = IF s.order[e].filled > 0 THEN {e} ELSE {}
    BY <1>10 DEF WithFills, Of
  <2>2. CASE s.order[e].filled > 0
    BY <1>9, <2>1, <2>2
  <2>3. CASE ~(s.order[e].filled > 0)
    <3>1. W = {} /\ s.order[e].filled = 0
      BY <2>1, <2>3
    <3>2. it[{}] = 0
      BY <1>5, SumStep
    <3> QED BY <1>3, <3>1, <3>2
  <2> QED BY <2>2, <2>3
<1> QED BY <1>3, <1>6, <1>7, <1>8, <1>9, <1>10

-----------------------------------------------------------------------------
(* Types.  They are inductive once no order has sold more than it is for, and the orders that *)
(* are open are for no more than what is held: both bound what is left to be filled.          *)

NoneOversold ==
    \A o \in Sells : /\ order[o].filled <= order[o].qty
                     /\ truth.order[o].filled <= truth.order[o].qty

TInv == TypeOK /\ NoneOversold /\ Available >= 0

Works == [run : Runs, qty : 0 .. Size, order : Sells \cup {None}]

LEMMA MaxOfTwo ==
  ASSUME NEW a \in Int, NEW b \in Int
  PROVE  Max({a, b}) = IF a >= b THEN a ELSE b
<1>1. PICK x \in {a, b} : \A y \in {a, b} : x >= y
  OBVIOUS
<1>2. Max({a, b}) \in {a, b} /\ \A y \in {a, b} : Max({a, b}) >= y
  BY <1>1 DEF Max
<1> QED BY <1>2

LEMMA LeftType ==
  ASSUME TypeOK, NoneOversold
  PROVE  /\ \A o \in Sells : Left(o) \in 0 .. Size
         /\ Terms \in [Sells -> Nat]
<1>1. ASSUME NEW o \in Sells PROVE Left(o) \in 0 .. Size
  <2>1. order[o].qty \in 0 .. Size /\ order[o].filled \in 0 .. Size
        /\ order[o].filled <= order[o].qty
    BY DEF TypeOK, SellOrders, NoneOversold
  <2> QED BY <2>1, SizeAssumption DEF Left
<1> QED BY <1>1, SizeAssumption DEF Terms

LEMMA AvailableType ==
  ASSUME TypeOK, NoneOversold
  PROVE  /\ Available \in Int /\ Available <= held
         /\ \A o \in Sells : Available + Left(o) <= held
<1>1. PICK it : IsSum(it, Terms, Sells) /\ Available = held - it[Sells]
  BY AvailableIs
<1>2. Terms \in [Sells -> Nat] /\ Sells \in SUBSET Sells /\ held \in Nat
  BY LeftType, SizeAssumption DEF TypeOK
<1>3. it[Sells] \in Nat
  BY <1>1, <1>2, SellsFinite, SumIsNat
<1>4. ASSUME NEW o \in Sells PROVE it[Sells] >= Left(o) /\ Left(o) \in Nat
  <2>1. it[Sells] >= Terms[o]
    BY <1>1, <1>2, SellsFinite, SumBoundsTerms
  <2> QED BY <1>2, <2>1 DEF Terms
<1> QED BY <1>1, <1>2, <1>3, <1>4

\* One order changes, and what is held.
LEMMA AvailableChanges ==
  ASSUME TypeOK, NoneOversold, NEW o \in Sells, NEW n \in Int, Left(o)' = n, n >= 0,
         \A p \in Sells \ {o} : order'[p] = order[p], held' \in Int
  PROVE  Available' = Available + (held' - held) - (n - Left(o))
<1>1. PICK it : IsSum(it, Terms, Sells) /\ Available = held - it[Sells]
  BY AvailableIs
<1>2. PICK jt : IsSum(jt, Terms', Sells) /\ Available' = held' - jt[Sells]
  BY AvailableIsNext
<1>3. Terms \in [Sells -> Nat] /\ Sells \in SUBSET Sells /\ held \in Nat
  BY LeftType, SizeAssumption DEF TypeOK
<1>4. \A p \in Sells \ {o} : Terms[p] = Terms'[p]
  BY DEF Terms, Left, Live
<1>5. Terms[o] = Left(o) /\ Terms'[o] = n
  BY DEF Terms
<1>6. Terms \in [Sells -> Int] /\ Terms' \in [Sells -> Int]
  <2>1. Terms' = [p \in Sells |-> Terms'[p]]
    BY DEF Terms
  <2>2. ASSUME NEW p \in Sells PROVE Terms'[p] \in Int
    <3>1. CASE p = o
      BY <1>5, <3>1
    <3>2. CASE p # o
      BY <1>3, <1>4, <3>2
    <3> QED BY <3>1, <3>2
  <2> HIDE DEF Terms
  <2>3. Terms' \in [Sells -> Int]
    BY <2>1, <2>2
  <2> QED BY <1>3, <2>3
<1>7. jt[Sells] = it[Sells] - Left(o) + n
  <2> DEFINE T == Terms'
  <2>1. T \in [Sells -> Int] /\ IsSum(jt, T, Sells) /\ T[o] = n /\ \A p \in Sells \ {o} : Terms[p] = T[p]
    BY <1>2, <1>4, <1>5, <1>6
  <2> HIDE DEF T
  <2>2. jt[Sells] = it[Sells] - Terms[o] + T[o]
    BY <1>1, <1>6, <2>1, SellsFinite, SumChanges
  <2> QED BY <1>5, <2>1, <2>2
<1>8. it[Sells] \in Nat /\ Left(o) \in Nat
  BY <1>1, <1>3, <1>5, SellsFinite, SumIsNat
<1> QED BY <1>1, <1>2, <1>3, <1>7, <1>8

LEMMA AvailableStays ==
  ASSUME TypeOK, NoneOversold, UNCHANGED <<held, order>>
  PROVE  Available' = Available
<1>1. PICK it : IsSum(it, Terms, Sells) /\ Available = held - it[Sells]
  BY AvailableIs
<1>2. PICK jt : IsSum(jt, Terms', Sells) /\ Available' = held' - jt[Sells]
  BY AvailableIsNext
<1>3. Terms' = Terms
  BY DEF Terms, Left, Live
<1>4. Sells \in SUBSET Sells
  OBVIOUS
<1>5. IsSum(jt, Terms, Sells)
  BY <1>2, <1>3
<1> HIDE DEF Terms
<1>6. it[Sells] = jt[Sells]
  BY <1>1, <1>4, <1>5, SellsFinite, SumOfSame
<1> QED BY <1>1, <1>2, <1>6

LEMMA PlacedType ==
  ASSUME TypeOK
  PROVE  Cardinality(Placed) \in 0 .. MaxSells
<1>1. IsFiniteSet(1 .. MaxSells) /\ Cardinality(1 .. MaxSells) = MaxSells
  BY SellsAssumption, FS_Interval
<1>2. Placed \in SUBSET (1 .. MaxSells)
  BY DEF Placed, Sells
<1>3. IsFiniteSet(Placed) /\ Cardinality(Placed) <= MaxSells
  BY <1>1, <1>2, FS_Subset
<1>4. Cardinality(Placed) \in Nat
  BY <1>3, FS_CardinalityType
<1> QED BY <1>3, <1>4, SellsAssumption

LEMMA SnapshotType ==
  ASSUME TypeOK, NoneOversold, NEW b, NEW s \in Refreshed(b)
  PROVE  /\ s \in Snapshots /\ s.bal \in {held, truth.bal} /\ s.order \in {order, truth.order}
         /\ \A o \in Sells : s.order[o].filled <= s.order[o].qty
         /\ \A o \in Sells : s.order[o].filled \in Nat
         /\ s.ok \/ s = [truth EXCEPT !.ok = FALSE] \/ s = truth
<1>1. CASE s \in Renewed
  <2>1. PICK c \in Balances : s = [ok |-> TRUE, bal |-> c, order |-> order]
    BY <1>1 DEF Renewed
  <2>2. s.ok /\ s.bal = c /\ s.order = order /\ c \in 0 .. Size
    BY <2>1 DEF Balances, TypeOK, Snapshots
  <2>3. s \in Snapshots
    BY <2>1, <2>2 DEF Balances, TypeOK, Snapshots
  <2> QED BY <2>2, <2>3, SizeAssumption DEF Balances, NoneOversold, TypeOK, SellOrders
<1>2. CASE s \in Failed
  <2>1. s \in Snapshots /\ s.bal = truth.bal /\ s.order = truth.order
    BY <1>2 DEF Failed, TypeOK, Snapshots
  <2> QED BY <1>2, <2>1, SizeAssumption DEF Failed, NoneOversold, TypeOK, Snapshots, SellOrders
<1>3. CASE s = truth
  BY <1>3, SizeAssumption DEF NoneOversold, TypeOK, Snapshots, SellOrders
<1> QED BY <1>1, <1>2, <1>3 DEF Refreshed

BookTypes == run \in Runs /\ closes \in Nat /\ pos \in Positions /\ saved \in Positions
ThreadTypes == lock \in BOOLEAN /\ pc \in [Threads -> Steps] /\ me \in [Threads -> Works]

\* The thread has the number of an order: the broker has accepted it, or the list shows it.
Takes(t, o) == \/ IsNext(o) /\ me[t].qty <= Available /\ Accepted(o, me[t].qty, FALSE)
               \/ Found(t, o)

\* A thread that is at one step is at another.
Moved(t) ==
    /\ \A u \in Threads \ {t} : pc'[u] = pc[u] /\ me'[u] = me[u]
    /\ \/ pc'[t] = "idle" /\ me'[t] = Nothing
       \/ /\ pc[t] = "idle" /\ pc'[t] \in {"pending", "filled", "unknown", "stale"}
          /\ me'[t].order = me[t].order
       \/ /\ StartSell(t) /\ pc[t] = "idle" /\ pc'[t] \in Before /\ me'[t].order = me[t].order
          /\ me'[t].qty = pos.qty /\ pos.qty > 0
       \/ /\ pc[t] \in AtWork \ {"truth", "mark"} /\ pc'[t] \in (AtWork \cup {"zero"}) \ {"mark"}
          /\ me'[t] = me[t]
       \/ /\ pc[t] \in Sending /\ pc'[t] = "reject"
          /\ me'[t].qty = me[t].qty /\ me'[t].order = None
       \/ \E o \in Sells : /\ Takes(t, o) /\ pc[t] \in Sending /\ pc'[t] \in {"truth", "mark"}
                          /\ me'[t].qty = me[t].qty /\ me'[t].order = o

LEMMA WhoMoves ==
  ASSUME TypeOK, [Next]_vars
  PROVE  \/ UNCHANGED <<pc, me>>
         \/ Crash
         \/ \E t \in Threads : Moved(t)
<1>0. pc \in [Threads -> Steps] /\ me \in [Threads -> Works]
  BY DEF TypeOK, Works
<1>1. CASE Outside \/ LockExpires \/ (\E b \in Balances : Sync(b)) \/ UNCHANGED vars
  BY <1>1 DEF Outside, Fill, Cancel, UserSells, LockExpires, Sync, vars, threads
<1>3. ASSUME NEW t \in Threads, Done(t) PROVE Moved(t)
  BY <1>0, <1>3 DEF Done, Moved
<1>2. ASSUME NEW t \in Threads, Clear(t) PROVE Moved(t)
  BY <1>2, <1>3 DEF Clear, ClearStale, KeepStale
<1>4. ASSUME NEW t \in Threads, Read(t) PROVE Moved(t)
  <2>1. CASE ReadStale(t)
    <3>1. pc[t] = "idle" /\ pc' = [pc EXCEPT ![t] = "stale"] /\ me' = me
      BY <2>1 DEF ReadStale, Goes
    <3>2. pc'[t] = "stale" /\ me'[t].order = me[t].order
          /\ \A u \in Threads \ {t} : pc'[u] = pc[u] /\ me'[u] = me[u]
      BY <1>0, <3>1
    <3> QED BY <3>1, <3>2 DEF Moved
  <2>2. CASE ~ReadStale(t)
    <3>1. PICK what \in {"pending", "filled", "unknown"} : Reads(t, what)
      BY <1>4, <2>2 DEF Read, ReadPending, ReadFilled, ReadUnknown
    <3>2. me[t] \in Works
      BY <1>0
    <3>3. /\ pc[t] = "idle" /\ pc' = [pc EXCEPT ![t] = what]
          /\ me' = [me EXCEPT ![t] = [me[t] EXCEPT !.run = run]]
      BY <1>0, <3>1 DEF Reads
    <3>4. pc'[t] = what /\ me'[t].order = me[t].order
          /\ \A u \in Threads \ {t} : pc'[u] = pc[u] /\ me'[u] = me[u]
      BY <1>0, <3>2, <3>3 DEF Works
    <3> QED BY <3>3, <3>4 DEF Moved
  <2> QED BY <2>1, <2>2
<1>5. ASSUME NEW t \in Threads, Reconcile(t) PROVE Moved(t)
  BY <1>3, <1>5 DEF Reconcile, Pending, Filled, Unknown
<1>6. ASSUME NEW t \in Threads, NEW q \in (AtWork \cup {"zero"}) \ {"mark"}, Goes(t, q), me' = me,
             pc[t] \in AtWork \ {"truth", "mark"}
      PROVE  Moved(t)
  BY <1>0, <1>6 DEF Goes, Moved
<1>7. ASSUME NEW t \in Threads, StartSell(t) PROVE Moved(t)
  <2>1. /\ pc[t] = "idle" /\ me' = [me EXCEPT ![t] = [me[t] EXCEPT !.qty = pos.qty]]
        /\ pos.qty > 0
    BY <1>0, <1>7 DEF StartSell
  <2>2. PICK q \in Before : pc' = [pc EXCEPT ![t] = q]
    BY <1>7 DEF StartSell, Goes, Before
  <2>3. pc'[t] = q /\ me'[t].order = me[t].order /\ me'[t].qty = pos.qty
        /\ \A u \in Threads \ {t} : pc'[u] = pc[u] /\ me'[u] = me[u]
    BY <1>0, <2>1, <2>2 DEF Works
  <2> QED BY <1>7, <2>1, <2>3 DEF Moved
<1>8. ASSUME NEW t \in Threads, NEW s, Observe(t, s) PROVE Moved(t)
  <2>1. CASE Looks(t, s)
    BY <1>3, <2>1 DEF Looks, Quarantine, TakeFills, Relink, GivesUp
  <2>2. CASE ~Looks(t, s)
    BY <1>6, <1>8, <2>2 DEF Observe, AtWork, Before
  <2> QED BY <2>1, <2>2
<1>9. ASSUME NEW t \in Threads, NEW s, Rejected(t, s) PROVE Moved(t)
  BY <1>3, <1>9 DEF Rejected, Looks, Quarantine, TakeFills, Relink, GivesUp
<1>10. ASSUME NEW t \in Threads, NEW s, Zero(t, s) PROVE Moved(t)
  BY <1>3, <1>10 DEF Zero, GivesUp
<1>11. ASSUME NEW t \in Threads, ReviewHolds(t) \/ ReviewSells(t) PROVE Moved(t)
  BY <1>3, <1>6, <1>11 DEF ReviewHolds, ReviewSells, GivesUp, AtWork, Before, Attempt
<1>12. ASSUME NEW t \in Threads, (\E b \in Balances : Precheck(t, b)) \/ PrecheckFails(t) PROVE Moved(t)
  <2>1. CASE GivesUp(t)
    BY <1>3, <2>1 DEF GivesUp
  <2>2. CASE ~GivesUp(t)
    <3>1. pc[t] = "precheck" /\ me' = me /\ \E q \in {"place", "zero"} : Goes(t, q)
      BY <1>12, <2>2 DEF Precheck, PrecheckFails
    <3> QED BY <1>6, <3>1 DEF AtWork, Attempt
  <2> QED BY <2>1, <2>2
<1>13. ASSUME NEW t \in Threads, NEW o \in Sells, Takes(t, o), pc[t] \in Sending,
              NEW q \in {"truth", "mark"}, Goes(t, q), me' = [me EXCEPT ![t].order = o]
       PROVE  Moved(t)
  <2>1. /\ me' = [me EXCEPT ![t] = [me[t] EXCEPT !.order = o]]
        /\ pc' = [pc EXCEPT ![t] = q]
    BY <1>0, <1>13 DEF Goes
  <2>2. pc'[t] = q /\ me'[t].order = o /\ me'[t].qty = me[t].qty
        /\ \A u \in Threads \ {t} : pc'[u] = pc[u] /\ me'[u] = me[u]
    BY <1>0, <2>1 DEF Works
  <2> QED BY <1>13, <2>2 DEF Moved
<1>14. ASSUME NEW t \in Threads, PlaceUnknown(t) \/ PlaceFails(t) \/ Mark(t) PROVE Moved(t)
  BY <1>3, <1>14 DEF PlaceUnknown, PlaceFails, Mark, GivesUp
<1>15. ASSUME NEW t \in Threads, PlaceRejected(t) PROVE Moved(t)
  <2>1. /\ me' = [me EXCEPT ![t] = [me[t] EXCEPT !.order = None]]
        /\ pc' = [pc EXCEPT ![t] = "reject"] /\ pc[t] \in Sending
    BY <1>0, <1>15 DEF PlaceRejected, Goes
  <2>2. pc'[t] = "reject" /\ me'[t].order = None /\ me'[t].qty = me[t].qty
        /\ \A u \in Threads \ {t} : pc'[u] = pc[u] /\ me'[u] = me[u]
    BY <1>0, <2>1 DEF Works
  <2> QED BY <2>1, <2>2 DEF Moved
<1>16. ASSUME NEW t \in Threads, (\E o \in Sells : PlaceAccepted(t, o) \/ Found(t, o)) \/ ServerError(t)
       PROVE  Moved(t)
  <2>1. CASE \E o \in Sells : PlaceAccepted(t, o)
    BY <1>13, <2>1 DEF PlaceAccepted, Takes
  <2>2. CASE \E o \in Sells : Found(t, o)
    BY <1>13, <2>2 DEF Found, Takes, Sending
  <2>3. CASE ServerError(t) /\ me' = me
    BY <1>6, <2>3 DEF ServerError, AtWork, Attempt
  <2>4. CASE ServerError(t) /\ me' # me
    BY <1>13, <2>4 DEF ServerError, Takes, Sending
  <2> QED BY <1>16, <2>1, <2>2, <2>3, <2>4
<1>17. ASSUME NEW t \in Threads, Sell(t) PROVE Moved(t)
  BY <1>7, <1>8, <1>9, <1>10, <1>11, <1>12, <1>14, <1>15, <1>16, <1>17 DEF Sell
<1> QED BY <1>1, <1>2, <1>4, <1>5, <1>17 DEF Next

\* A thread that has an answer of the broker has the number of an order.
Marks == \A t \in Threads : pc[t] = "mark" => me[t].order \in Sells

LEMMA StepMarks == TypeOK /\ Marks /\ [Next]_vars => Marks'
<1> SUFFICES ASSUME TypeOK, Marks, [Next]_vars PROVE Marks'
  OBVIOUS
<1>1. CASE UNCHANGED <<pc, me>>
  BY <1>1 DEF Marks
<1>2. CASE Crash
  BY <1>2 DEF Crash, Marks
<1>3. ASSUME NEW t \in Threads, Moved(t) PROVE Marks'
  <2>1. pc'[t] = "mark" => me'[t].order \in Sells
    BY <1>3 DEF Moved, Before
  <2> QED BY <1>3, <2>1 DEF Moved, Marks
<1> QED BY <1>1, <1>2, <1>3, WhoMoves

\* Most steps leave the broker alone.
LEMMA BrokerLeft ==
  ASSUME TInv, BookTypes', ThreadTypes', UNCHANGED <<held, order>>,
         truth' = truth \/ (\E b \in BOOLEAN : truth' \in Refreshed(b)),
         marked' \subseteq Sells, crossed' \in BOOLEAN, hasty' \in BOOLEAN, astray' \in BOOLEAN,
         cancels' \in 0 .. MaxCancels, faults' \in 0 .. MaxFaults
  PROVE  TInv'
<1>1. /\ truth' \in Snapshots
      /\ \A o \in Sells : truth'.order[o].filled <= truth'.order[o].qty
  <2>1. CASE truth' = truth
    BY <2>1 DEF TInv, TypeOK, NoneOversold
  <2>2. CASE \E b \in BOOLEAN : truth' \in Refreshed(b)
    BY <2>2, SnapshotType DEF TInv
  <2> QED BY <2>1, <2>2
<1>2. TypeOK'
  BY <1>1 DEF TInv, TypeOK, BookTypes, ThreadTypes, Works
<1>3. NoneOversold'
  BY <1>1 DEF TInv, NoneOversold
<1>4. Available' = Available
  BY AvailableStays DEF TInv
<1> QED BY <1>2, <1>3, <1>4 DEF TInv

LEMMA DoneTypes ==
  ASSUME TypeOK, NEW t \in Threads, Done(t)
  PROVE  pc' \in [Threads -> Steps] /\ me' \in [Threads -> Works]
<1>1. Nothing \in Works
  BY SizeAssumption DEF Nothing, Works, NewRun, Runs, Statuses
<1> QED BY <1>1 DEF TypeOK, Works, Done, Steps

LEMMA FirstType ==
  ASSUME NEW S \in SUBSET Sells
  PROVE  First(S) \in Sells \cup {None}
<1>1. CASE S = {}
  BY <1>1 DEF First
<1>2. CASE S # {}
  BY <1>2, FirstIsSale
<1> QED BY <1>1, <1>2

LEMMA FinalizeTypes ==
  ASSUME TypeOK, NEW o \in Sells \cup {None}, Finalize(o)
  PROVE  BookTypes'
<1>0. pos \in Positions /\ saved \in Positions /\ run \in Runs /\ closes \in Nat
  BY DEF TypeOK
<1>1. pos' \in Positions /\ saved' \in Positions
  <2>1. [pos EXCEPT !.there = FALSE, !.closing = FALSE] \in Positions
    BY <1>0 DEF Positions
  <2> QED BY <1>0, <2>1 DEF Finalize, Save
<1>2. run' \in Runs
  <2>1. ASSUME NEW e \in Sells \cup {None}
        PROVE  [run EXCEPT !.exit = e] \in Runs /\ [run EXCEPT !.status = "CLOSED", !.exit = e] \in Runs
    BY <1>0 DEF Runs, Statuses
  <2>2. run.exit \in Sells \cup {None}
    BY <1>0 DEF Runs
  <2> QED BY <2>1, <2>2 DEF Finalize
<1>3. closes' \in Nat
  BY <1>0 DEF Finalize
<1> QED BY <1>1, <1>2, <1>3 DEF BookTypes

LEMMA StatusTypes ==
  ASSUME TypeOK, NEW st \in Statuses, Status(st)
  PROVE  run' \in Runs
BY DEF TypeOK, Status, Runs

LEMMA AskedType ==
  ASSUME TypeOK, NEW r \in Runs
  PROVE  Asked(r) \in 0 .. Size
BY SizeAssumption DEF TypeOK, Runs, Positions, Asked

LEMMA ReducedType ==
  ASSUME TypeOK, NEW n \in Int, n <= Size
  PROVE  Reduced(n) \in Positions
<1>1. Max({0, n}) = IF 0 >= n THEN 0 ELSE n
  BY MaxOfTwo
<1>2. Max({0, n}) \in 0 .. Size
  BY <1>1, SizeAssumption
<1> QED BY <1>2 DEF TypeOK, Reduced, Positions

LEMMA PartTypes ==
  ASSUME TypeOK, NEW r \in Runs, NEW s, \A o \in Sells : s.order[o].filled \in Nat, Part(r, s)
  PROVE  pos' \in Positions /\ saved' \in Positions /\ closes' \in Nat
<1>1. Asked(r) \in 0 .. Size
  BY AskedType
<1>2. r.exit \in Sells \cup {None}
  BY DEF Runs
<1>3. PartSold(r, s) \in Nat
  BY <1>2, SoldIs DEF PartSold
<1>4. pos' = Reduced((IF Asked(r) > 0 THEN Asked(r) ELSE PartSold(r, s)) - PartSold(r, s))
  BY DEF Part
<1>5. pos' \in Positions
  BY <1>1, <1>3, <1>4, ReducedType, SizeAssumption
<1> QED BY <1>5 DEF Part, Save, TypeOK

LEMMA EvidenceType ==
  ASSUME NEW r \in Runs, NEW s
  PROVE  Evidence(r, s) \in SUBSET Sells /\ WithFills(s, r.exit) \in SUBSET Sells
         /\ WithFills(s, None) \in SUBSET Sells /\ Open(s, None) \in SUBSET Sells
<1>1. r.exit \in Sells \cup {None}
  BY DEF Runs
<1> QED BY <1>1 DEF Evidence, WithFills, Open, Of

\* What the reconciliations close the run with.
LEMMA FinalizeSeen ==
  ASSUME TypeOK, NEW r \in Runs, NEW s,
         Finalize(IF r.exit \in Evidence(r, s) THEN r.exit ELSE First(Evidence(r, s)))
  PROVE  BookTypes'
<1>1. First(Evidence(r, s)) \in Sells \cup {None} /\ r.exit \in Sells \cup {None}
  BY EvidenceType, FirstType DEF Runs
<1> QED BY <1>1, FinalizeTypes

LEMMA ReconcileTypes ==
  ASSUME TInv, NEW t \in Threads, Read(t) \/ Reconcile(t) \/ Clear(t)
  PROVE  TInv'
<1> USE DEF TInv
<1>1. /\ me[t] \in Works /\ me[t].run \in Runs
      /\ run \in Runs /\ closes \in Nat /\ pos \in Positions /\ saved \in Positions
      /\ lock \in BOOLEAN
  BY DEF TypeOK, Works
<1>2. ASSUME NEW what \in {"pending", "filled", "unknown"}, Reads(t, what) PROVE TInv'
  <2>1. pc' \in [Threads -> Steps] /\ me' \in [Threads -> Works]
    BY <1>1, <1>2 DEF Reads, TypeOK, Works, Steps
  <2> QED BY <1>1, <1>2, <2>1, BrokerLeft
          DEF Reads, broker, book, history, bounds, BookTypes, ThreadTypes, TypeOK
<1>3. ASSUME NEW s \in Refreshed(FALSE), truth' = s, Done(t), BookTypes', lock' \in BOOLEAN,
             Crosses(t), UNCHANGED <<broker, bounds>>
      PROVE  TInv'
  <2>1. pc' \in [Threads -> Steps] /\ me' \in [Threads -> Works]
    BY <1>3, DoneTypes
  <2>2. marked' \subseteq Sells /\ crossed' \in BOOLEAN /\ hasty' \in BOOLEAN /\ astray' \in BOOLEAN
    BY <1>3 DEF Crosses, TypeOK
  <2> QED BY <1>3, <2>1, <2>2, BrokerLeft DEF broker, bounds, ThreadTypes, TypeOK
<1>4. ASSUME NEW s \in Refreshed(FALSE), NEW late \in BOOLEAN, Pending(t, s, late) PROVE TInv'
  <2> DEFINE r == me[t].run
  <2>0. /\ truth' = s /\ Done(t) /\ Crosses(t) /\ UNCHANGED <<broker, bounds>> /\ lock' = lock
        /\ \A o \in Sells : s.order[o].filled \in Nat
    BY <1>4, SnapshotType DEF Pending
  <2>1. CASE UNCHANGED book
    BY <1>1, <1>3, <2>0, <2>1 DEF book, BookTypes
  <2>2. CASE Finalize(IF r.exit \in Evidence(r, s) THEN r.exit ELSE First(Evidence(r, s)))
    BY <1>1, <1>3, <2>0, <2>2, FinalizeSeen
  <2>3. CASE Part(r, s) /\ Status(IF late THEN "ORDER_UNKNOWN" ELSE "SELL_PARTIAL_FILLED")
    <3>1. run' \in Runs
      BY <2>3, StatusTypes DEF Statuses, Selling
    <3>2. pos' \in Positions /\ saved' \in Positions /\ closes' \in Nat
      BY <1>1, <2>0, <2>3, PartTypes
    <3> QED BY <1>1, <1>3, <2>0, <3>1, <3>2 DEF BookTypes
  <2>4. CASE /\ Status(IF late /\ Open(s, r.exit) = {} THEN "ORDER_UNKNOWN" ELSE "SELL_ACKED")
             /\ UNCHANGED <<closes, pos, saved>>
    <3>1. run' \in Runs
      BY <2>4, StatusTypes DEF Statuses, Selling
    <3> QED BY <1>1, <1>3, <2>0, <2>4, <3>1 DEF BookTypes
  <2> QED BY <1>4, <2>1, <2>2, <2>3, <2>4 DEF Pending
<1>5. ASSUME NEW s \in Refreshed(FALSE), Filled(t, s) PROVE TInv'
  <2>0. truth' = s /\ Done(t) /\ Crosses(t) /\ UNCHANGED <<broker, bounds>> /\ lock' = lock
    BY <1>5 DEF Filled
  <2>1. CASE UNCHANGED book
    BY <1>1, <1>3, <2>0, <2>1 DEF book, BookTypes
  <2>2. CASE Finalize(First(WithFills(s, me[t].run.exit)))
    <3>1. First(WithFills(s, me[t].run.exit)) \in Sells \cup {None}
      BY <1>1, EvidenceType, FirstType
    <3> QED BY <1>1, <1>3, <2>0, <2>2, <3>1, FinalizeTypes
  <2>3. CASE Status("ORDER_UNKNOWN") /\ UNCHANGED <<closes, pos, saved>>
    <3>1. run' \in Runs
      BY <2>3, StatusTypes DEF Statuses
    <3> QED BY <1>1, <1>3, <2>0, <2>3, <3>1 DEF BookTypes
  <2> QED BY <1>5, <2>1, <2>2, <2>3 DEF Filled
<1>6. ASSUME NEW s \in Refreshed(FALSE), Unknown(t, s) PROVE TInv'
  <2> DEFINE r == me[t].run
  <2>0. /\ truth' = s /\ Done(t) /\ Crosses(t) /\ UNCHANGED <<broker, bounds>>
        /\ lock' \in BOOLEAN /\ \A o \in Sells : s.order[o].filled \in Nat
    BY <1>1, <1>6, SnapshotType DEF Unknown, FilledAgain
  <2>1. CASE UNCHANGED book
    BY <1>1, <1>3, <2>0, <2>1 DEF book, BookTypes
  <2>2. CASE Finalize(IF r.exit \in Evidence(r, s) THEN r.exit ELSE First(Evidence(r, s)))
    BY <1>1, <1>3, <2>0, <2>2, FinalizeSeen
  <2>3. CASE Part(r, s) /\ Status("SELL_PARTIAL_FILLED")
    <3>1. run' \in Runs
      BY <2>3, StatusTypes DEF Statuses, Selling
    <3>2. pos' \in Positions /\ saved' \in Positions /\ closes' \in Nat
      BY <1>1, <2>0, <2>3, PartTypes
    <3> QED BY <1>1, <1>3, <2>0, <3>1, <3>2 DEF BookTypes
  <2>4. CASE (Status("SELL_ACKED") \/ Status("CLOSED")) /\ UNCHANGED <<closes, pos, saved>>
    <3>1. run' \in Runs
      BY <2>4, StatusTypes DEF Statuses, Selling
    <3> QED BY <1>1, <1>3, <2>0, <2>4, <3>1 DEF BookTypes
  <2>5. CASE FilledAgain(r)
    <3>1. run' \in Runs /\ closes' = closes
      <4> DEFINE w == r.exit # None
      <4>1. w \in BOOLEAN /\ 0 \in 0 .. Size
        BY SizeAssumption
      <4>2. run' = [run EXCEPT !.status = "FILLED", !.exit = None, !.asked = 0, !.sent = FALSE,
                               !.watch = w, !.stuck = FALSE] /\ closes' = closes
        BY <2>5 DEF FilledAgain
      <4> HIDE DEF w
      <4> QED BY <1>1, <4>1, <4>2 DEF Runs, Statuses
    <3>2. pos' \in Positions
      BY <1>1, <2>5 DEF FilledAgain, Positions
    <3>3. saved' \in Positions
      BY <1>1, <2>5, <3>2 DEF FilledAgain, Save
    <3> QED BY <1>1, <1>3, <2>0, <3>1, <3>2, <3>3 DEF BookTypes
  <2> QED BY <1>6, <2>1, <2>2, <2>3, <2>4, <2>5 DEF Unknown, book
<1>7. CASE ReadStale(t)
  <2>1. pc' \in [Threads -> Steps] /\ me' \in [Threads -> Works]
    BY <1>7 DEF ReadStale, Goes, TypeOK, Works, Steps
  <2> QED BY <1>1, <1>7, <2>1, BrokerLeft
          DEF ReadStale, broker, book, history, bounds, BookTypes, ThreadTypes, TypeOK
<1>8. ASSUME NEW s \in Refreshed(TRUE), ClearStale(t, s) \/ KeepStale(t, s) PROVE TInv'
  <2>0. /\ truth' = s /\ Done(t) /\ UNCHANGED <<broker, bounds>> /\ lock' = lock
        /\ UNCHANGED <<marked, crossed, astray>>
    BY <1>8 DEF ClearStale, KeepStale, history
  <2>1. ThreadTypes'
    BY <1>1, <2>0, DoneTypes DEF ThreadTypes
  <2>2. hasty' \in BOOLEAN
    BY <1>8 DEF ClearStale, KeepStale, history, TypeOK
  <2>3. BookTypes'
    <3>1. [pos EXCEPT !.closing = FALSE, !.sale = None] \in Positions
      BY <1>1 DEF Positions
    <3> QED BY <1>1, <1>8, <3>1 DEF ClearStale, KeepStale, Save, book, BookTypes
  <2> QED BY <2>0, <2>1, <2>2, <2>3, BrokerLeft DEF broker, bounds, TypeOK
<1> QED BY <1>2, <1>4, <1>5, <1>6, <1>7, <1>8
        DEF Read, ReadPending, ReadFilled, ReadUnknown, Reconcile, Clear

LEMMA BookLeft ==
  ASSUME TypeOK, UNCHANGED book
  PROVE  BookTypes'
BY DEF TypeOK, book, BookTypes

LEMMA FlagsType ==
  ASSUME TypeOK
  PROVE  /\ \A c, d \in BOOLEAN : /\ [pos EXCEPT !.closing = c] \in Positions
                                /\ [pos EXCEPT !.closing = c, !.stuck = d] \in Positions
                                /\ [pos EXCEPT !.watch = c] \in Positions
                                /\ [pos EXCEPT !.there = c] \in Positions
                                /\ [pos EXCEPT !.missing = c] \in Positions
                                /\ [run EXCEPT !.watch = c] \in Runs
                                /\ [run EXCEPT !.stuck = c] \in Runs
         /\ \A o \in Sells \cup {None} : /\ [pos EXCEPT !.sale = o] \in Positions
                                       /\ [pos EXCEPT !.closing = FALSE, !.sale = o] \in Positions
<1>1. pos \in Positions /\ run \in Runs
  BY DEF TypeOK
<1> QED BY <1>1 DEF Positions, Runs

LEMMA LooksTypes ==
  ASSUME TInv, NEW t \in Threads, NEW s \in Refreshed(TRUE), Looks(t, s) \/ Quarantine(t)
  PROVE  BookTypes' /\ ThreadTypes'
<1> USE DEF TInv
<1>0. /\ me[t] \in Works /\ me[t].qty \in 0 .. Size /\ run \in Runs /\ closes \in Nat
      /\ pos \in Positions /\ saved \in Positions /\ lock \in BOOLEAN
      /\ s \in Snapshots /\ \A o \in Sells : s.order[o].filled <= s.order[o].qty
      /\ \A o \in Sells : s.order[o].filled \in Nat
  BY SnapshotType DEF TypeOK, Works
<1>1. ASSUME Done(t), lock' = lock \/ lock' = FALSE PROVE ThreadTypes'
  BY <1>0, <1>1, DoneTypes DEF ThreadTypes
<1>2. CASE Quarantine(t)
  <2>1. pos' \in Positions /\ run' \in Runs
    BY <1>2, FlagsType DEF Quarantine
  <2> QED BY <1>0, <1>1, <1>2, <2>1 DEF Quarantine, GivesUp, Save, BookTypes
<1>3. CASE WithFills(s, None) # {} /\ TakeFills(t, s)
  <2> DEFINE o == First(WithFills(s, None))
             left == me[t].qty - Sold(s, None)
             opened == IF Open(s, None) = {} THEN {o} ELSE Open(s, None)
             sale == First(opened)
  <2>1. o \in Sells
    BY <1>0, <1>3, EvidenceType, FirstIsSale DEF Works
  <2>2. Done(t) /\ lock' = FALSE
    BY <1>3 DEF TakeFills, GivesUp
  <2>3. CASE left <= 0
    <3>1. Finalize(o)
      BY <1>3, <2>3 DEF TakeFills
    <3> QED BY <1>1, <2>1, <2>2, <3>1, FinalizeTypes
  <2>4. CASE ~(left <= 0)
    <3>1. left \in Int /\ left <= Size
      <4>1. Sold(s, None) \in Nat
        BY <1>0, SoldIs
      <4> QED BY <1>0, <4>1, SizeAssumption
    <3>2. sale \in Sells
      <4>1. opened \in SUBSET Sells /\ opened # {}
        BY <1>0, <2>1, EvidenceType DEF Works
      <4> HIDE DEF opened
      <4> QED BY <4>1, FirstIsSale
    <3>3. /\ pos' = [Reduced(left) EXCEPT !.closing = FALSE, !.sale = sale]
          /\ saved' = (IF pos.there THEN Reduced(left) ELSE saved)
          /\ run' = [run EXCEPT !.status = "SELL_PARTIAL_FILLED", !.exit = o,
                                !.asked = me[t].qty, !.sent = TRUE, !.stuck = TRUE]
          /\ closes' = closes
      BY <1>3, <2>4 DEF TakeFills
    <3> HIDE DEF left, sale, o
    <3>4. Reduced(left) \in Positions
      BY <3>1, ReducedType
    <3>5. pos' \in Positions /\ saved' \in Positions
      BY <1>0, <3>2, <3>3, <3>4 DEF Positions
    <3>6. run' \in Runs
      BY <1>0, <2>1, <3>3 DEF Runs, Statuses, Selling
    <3> QED BY <1>0, <1>1, <2>2, <3>3, <3>5, <3>6 DEF BookTypes
  <2> QED BY <2>3, <2>4
<1>4. CASE Open(s, None) # {} /\ Relink(t, s)
  <2> DEFINE o == First(Open(s, None))
             n == s.order[o].qty - s.order[o].filled
  <2>1. o \in Sells
    BY <1>0, <1>4, EvidenceType, FirstIsSale DEF Works
  <2>2. n \in 0 .. Size
    <3>1. s.order[o].qty \in 0 .. Size /\ s.order[o].filled \in 0 .. Size
          /\ s.order[o].filled <= s.order[o].qty
      BY <1>0, <2>1 DEF Snapshots, SellOrders
    <3> QED BY <3>1, SizeAssumption
  <2>3. /\ pos' = [pos EXCEPT !.closing = FALSE, !.sale = o, !.stuck = FALSE, !.watch = FALSE]
        /\ saved' = pos' /\ Done(t) /\ closes' = closes /\ lock' = lock
        /\ run' = [run EXCEPT !.status = "SELL_ACKED", !.exit = o, !.sent = TRUE, !.stuck = FALSE,
                              !.asked = n]
    BY <1>4 DEF Relink, Save
  <2> HIDE DEF o, n
  <2>4. pos' \in Positions
    BY <1>0, <2>1, <2>3 DEF Positions
  <2>5. run' \in Runs
    BY <1>0, <2>1, <2>2, <2>3 DEF Runs, Statuses, Selling
  <2> QED BY <1>0, <1>1, <2>3, <2>4, <2>5 DEF BookTypes
<1> QED BY <1>2, <1>3, <1>4 DEF Looks

\* An order is accepted for what is available.
LEMMA AcceptedTypes ==
  ASSUME TInv, NEW o \in Sells, NEW n \in 0 .. Size, n <= Available, NEW h \in BOOLEAN,
         Accepted(o, n, h), UNCHANGED <<held, truth, history, cancels>>,
         BookTypes', ThreadTypes', faults' \in 0 .. MaxFaults
  PROVE  TInv'
<1> USE DEF TInv
<1>0. order \in [Sells -> SellOrders] /\ held \in 0 .. Size
  BY DEF TypeOK
<1> DEFINE new == [NewOrder EXCEPT !.stage = "live", !.qty = n, !.hand = h]
<1>1. new \in SellOrders /\ new.stage = "live" /\ new.qty = n /\ new.filled = 0
  <2>1. NewOrder \in SellOrders /\ NewOrder.filled = 0
    BY SizeAssumption, SellsAssumption DEF NewOrder, SellOrders
  <2> QED BY <2>1 DEF SellOrders
<1>2. order' = [order EXCEPT ![o] = new]
  BY DEF Accepted
<1> HIDE DEF new
<1>3. order'[o] = new /\ order' \in [Sells -> SellOrders] /\ \A p \in Sells \ {o} : order'[p] = order[p]
  BY <1>0, <1>1, <1>2
<1>4. Left(o)' = n
  BY <1>1, <1>3, SizeAssumption DEF Left, Live
<1>5. Available' = Available - (n - Left(o)) /\ Left(o) \in Nat /\ Available \in Int
  BY <1>0, <1>3, <1>4, AvailableChanges, AvailableType, LeftType, SizeAssumption
<1>6. Available' >= 0
  BY <1>5, SizeAssumption
<1>7. NoneOversold'
  BY <1>1, <1>3, SizeAssumption DEF NoneOversold
<1>8. TypeOK'
  BY <1>3 DEF TypeOK, BookTypes, ThreadTypes, Works, history
<1> QED BY <1>6, <1>7, <1>8

LEMMA SellTypes ==
  ASSUME TInv, Marks, NEW t \in Threads, Sell(t)
  PROVE  TInv'
<1> USE DEF TInv
<1>0. /\ me[t] \in Works /\ run \in Runs /\ closes \in Nat
      /\ pos \in Positions /\ saved \in Positions /\ lock \in BOOLEAN
      /\ pc \in [Threads -> Steps] /\ me \in [Threads -> Works]
      /\ marked \subseteq Sells /\ crossed \in BOOLEAN /\ hasty \in BOOLEAN /\ astray \in BOOLEAN
      /\ cancels \in 0 .. MaxCancels /\ faults \in 0 .. MaxFaults
  BY DEF TypeOK, Works
<1>1. ASSUME Done(t), lock' = FALSE PROVE ThreadTypes'
  BY <1>1, DoneTypes DEF ThreadTypes
<1>2. ASSUME NEW q \in Steps, Goes(t, q), UNCHANGED <<me, lock>> PROVE ThreadTypes'
  BY <1>0, <1>2 DEF Goes, ThreadTypes
<1>3. ASSUME BookTypes', ThreadTypes', UNCHANGED <<broker, history, bounds>>,
             truth' = truth \/ truth' \in Refreshed(TRUE)
      PROVE  TInv'
  BY <1>0, <1>3, BrokerLeft DEF broker, history, bounds
<1>4. CASE StartSell(t)
  <2>1. ThreadTypes'
    BY <1>0, <1>4 DEF StartSell, Goes, ThreadTypes, Works, Steps, Positions
  <2> QED BY <1>3, <1>4, <2>1, BookLeft DEF StartSell
<1>5. ASSUME NEW s \in Refreshed(TRUE), Observe(t, s) PROVE TInv'
  <2>1. CASE Looks(t, s)
    BY <1>3, <1>5, <2>1, LooksTypes DEF Observe
  <2>2. CASE ~Looks(t, s)
    <3>1. pos' = [pos EXCEPT !.watch = FALSE] /\ saved' = pos' /\ run' = [run EXCEPT !.watch = FALSE]
          /\ closes' = closes /\ Goes(t, "review") /\ UNCHANGED <<me, lock>>
      BY <1>5, <2>2 DEF Observe, Save
    <3>2. BookTypes'
      BY <1>0, <3>1, FlagsType DEF BookTypes
    <3> QED BY <1>2, <1>3, <1>5, <3>1, <3>2 DEF Observe, Steps
  <2> QED BY <2>1, <2>2
<1>6. ASSUME NEW s \in Refreshed(TRUE), Rejected(t, s) PROVE TInv'
  BY <1>3, <1>6, LooksTypes DEF Rejected
<1>7. ASSUME NEW s \in Refreshed(TRUE), Zero(t, s) PROVE TInv'
  <2>1. ThreadTypes' /\ UNCHANGED <<broker, history, bounds>> /\ (truth' = truth \/ truth' = s)
    BY <1>1, <1>7 DEF Zero, GivesUp
  <2>2. CASE UNCHANGED book
    BY <1>3, <1>7, <2>1, <2>2, BookLeft
  <2>3. CASE pos' = [pos EXCEPT !.there = FALSE] /\ (IF pos.there THEN Save ELSE UNCHANGED saved)
             /\ Status("CLOSED") /\ UNCHANGED closes
    <3>1. run' \in Runs
      BY <2>3, StatusTypes DEF Statuses
    <3>2. BookTypes'
      BY <1>0, <2>3, <3>1, FlagsType DEF BookTypes, Save
    <3> QED BY <1>3, <1>7, <2>1, <3>2
  <2> QED BY <1>7, <2>2, <2>3 DEF Zero, book
<1>8. CASE ReviewHolds(t)
  BY <1>1, <1>3, <1>8, BookLeft DEF ReviewHolds, GivesUp
<1>9. CASE ReviewSells(t)
  <2>1. ThreadTypes'
    BY <1>1, <1>2, <1>9 DEF ReviewSells, GivesUp, Steps
  <2>2. BookTypes'
    BY <1>0, <1>9, FlagsType DEF ReviewSells, BookTypes
  <2> QED BY <1>3, <1>9, <2>1, <2>2 DEF ReviewSells
<1>10. ASSUME NotClosing PROVE BookTypes'
  BY <1>0, <1>10, FlagsType DEF NotClosing, BookTypes
<1>11. ASSUME NEW b \in Balances, Precheck(t, b) PROVE TInv'
  <2>1. ThreadTypes'
    BY <1>1, <1>2, <1>11 DEF Precheck, GivesUp, Steps
  <2>2. BookTypes'
    BY <1>10, <1>11, BookLeft DEF Precheck
  <2> QED BY <1>3, <1>11, <2>1, <2>2 DEF Precheck
<1>12. CASE PrecheckFails(t) \/ PlaceFails(t)
  BY <1>1, <1>3, <1>10, <1>12 DEF PrecheckFails, PlaceFails, GivesUp
<1>13. ASSUME NEW o \in Sells, me[t].qty <= Available, Accepted(o, me[t].qty, FALSE), UNCHANGED <<held, truth>>,
              BookTypes', ThreadTypes', UNCHANGED <<history, cancels>>, faults' \in 0 .. MaxFaults
       PROVE  TInv'
  <2>1. me[t].qty \in 0 .. Size /\ FALSE \in BOOLEAN
    BY <1>0 DEF Works
  <2> QED BY <1>13, <2>1, AcceptedTypes
<1>14. ASSUME NEW o \in Sells \cup {None}, NEW q \in Steps, Goes(t, q), me' = [me EXCEPT ![t].order = o],
              lock' = lock
       PROVE  ThreadTypes'
  BY <1>0, <1>14 DEF Goes, ThreadTypes, Works
<1>15. ASSUME NEW o \in Sells, PlaceAccepted(t, o) PROVE TInv'
  <2>1. ThreadTypes'
    BY <1>14, <1>15 DEF PlaceAccepted, Steps
  <2> QED BY <1>0, <1>13, <1>15, <2>1, BookLeft DEF PlaceAccepted, bounds
<1>16. CASE ServerError(t)
  <2>1. faults' \in 0 .. MaxFaults
    BY <1>0, <1>16, BoundsAssumption DEF ServerError
  <2>2. BookTypes'
    BY <1>16, BookLeft DEF ServerError
  <2>3. CASE UNCHANGED <<order, me>>
    <3>1. ThreadTypes'
      BY <1>2, <1>16, <2>3 DEF ServerError, Steps
    <3> QED BY <1>0, <1>16, <2>1, <2>2, <2>3, <3>1, BrokerLeft DEF ServerError, history
  <2>4. ASSUME NEW o \in Sells, me[t].qty <= Available, Accepted(o, me[t].qty, FALSE),
               me' = [me EXCEPT ![t].order = o]
        PROVE  TInv'
    <3>1. ThreadTypes'
      BY <1>14, <1>16, <2>4 DEF ServerError, Steps
    <3> QED BY <1>13, <1>16, <2>1, <2>2, <2>4, <3>1 DEF ServerError
  <2> QED BY <1>16, <2>3, <2>4 DEF ServerError
<1>17. ASSUME NEW o \in Sells, Found(t, o) PROVE TInv'
  <2>1. ThreadTypes'
    BY <1>14, <1>17 DEF Found, Steps
  <2>2. astray' \in BOOLEAN
    BY <1>0, <1>17 DEF Found
  <2> QED BY <1>0, <1>17, <2>1, <2>2, BookLeft, BrokerLeft DEF Found, broker, bounds
<1>18. CASE PlaceUnknown(t)
  <2>1. ThreadTypes' /\ faults' \in 0 .. MaxFaults
    <3>0. faults' = faults \/ (faults < MaxFaults /\ faults' = faults + 1)
      BY <1>18 DEF PlaceUnknown
    <3>1. Done(t) /\ lock' = FALSE
      BY <1>18 DEF PlaceUnknown, GivesUp
    <3>2. faults' \in 0 .. MaxFaults
      BY <1>0, <3>0, BoundsAssumption
    <3>3. ThreadTypes'
      BY <1>1, <3>1
    <3> QED BY <3>2, <3>3
  <2>2. run' \in Runs
    BY <1>18, StatusTypes DEF PlaceUnknown, Statuses
  <2>3. BookTypes'
    BY <1>0, <1>18, <2>2 DEF PlaceUnknown, BookTypes
  <2>4. CASE UNCHANGED order
    BY <1>0, <1>18, <2>1, <2>3, <2>4, BrokerLeft DEF PlaceUnknown, history
  <2>5. CASE \E o \in Sells : IsNext(o) /\ me[t].qty <= Available /\ Accepted(o, me[t].qty, FALSE)
    BY <1>13, <1>18, <2>1, <2>3, <2>5 DEF PlaceUnknown
  <2> QED BY <1>18, <2>4, <2>5 DEF PlaceUnknown
<1>19. CASE PlaceRejected(t)
  <2>1. ThreadTypes'
    BY <1>14, <1>19 DEF PlaceRejected, Steps
  <2> QED BY <1>3, <1>19, <2>1, BookLeft DEF PlaceRejected
<1>20. CASE Mark(t)
  <2> DEFINE o == me[t].order
  <2>1. o \in Sells /\ me[t].qty \in 0 .. Size
    BY <1>0, <1>20 DEF Mark, Marks, Works
  <2>2. run' \in Runs /\ pos' \in Positions /\ saved' = pos' /\ closes' = closes
    BY <1>0, <1>20, <2>1, FlagsType DEF Mark, Save, Runs, Statuses, Selling
  <2>3. ThreadTypes'
    BY <1>0, <1>20, DoneTypes DEF Mark, ThreadTypes
  <2>4. marked' \subseteq Sells /\ crossed' \in BOOLEAN
    BY <1>0, <1>20, <2>1 DEF Mark
  <2> QED BY <1>0, <1>20, <2>2, <2>3, <2>4, BrokerLeft DEF Mark, BookTypes, broker, bounds
<1> QED
  BY <1>4, <1>5, <1>6, <1>7, <1>8, <1>9, <1>11, <1>12, <1>15, <1>16, <1>17, <1>18, <1>19, <1>20 DEF Sell

LEMMA ApartTypes ==
  ASSUME TInv, Outside \/ LockExpires \/ (\E b \in Balances : Sync(b)) \/ Crash
  PROVE  TInv'
<1> USE DEF TInv
<1>0. /\ run \in Runs /\ closes \in Nat /\ held \in 0 .. Size /\ order \in [Sells -> SellOrders]
      /\ pos \in Positions /\ saved \in Positions /\ lock \in BOOLEAN /\ truth \in Snapshots
      /\ pc \in [Threads -> Steps] /\ me \in [Threads -> Works]
      /\ marked \subseteq Sells /\ crossed \in BOOLEAN /\ hasty \in BOOLEAN /\ astray \in BOOLEAN
      /\ cancels \in 0 .. MaxCancels /\ faults \in 0 .. MaxFaults
  BY DEF TypeOK, Works
<1>1. ASSUME UNCHANGED threads PROVE ThreadTypes'
  BY <1>0, <1>1 DEF threads, ThreadTypes
<1>2. ASSUME NEW o \in Sells, NEW n \in 1 .. Size, Fill(o, n) PROVE TInv'
  <2> DEFINE st == IF n = Left(o) THEN "dead" ELSE "live"
             new == [order[o] EXCEPT !.filled = @ + n, !.upto = Cardinality(Placed), !.stage = st]
  <2>1. /\ Available \in Int /\ Available + Left(o) <= held /\ Left(o) \in 0 .. Size
        /\ n <= Left(o) /\ held' = held - n
    BY <1>2, AvailableType, LeftType DEF Fill
  <2>2. held' \in 0 .. Size
    BY <1>0, <2>1, SizeAssumption
  <2>3. order' = [order EXCEPT ![o] = new]
    <3>1. order' = [order EXCEPT ![o].filled = @ + n, ![o].upto = Cardinality(Placed), ![o].stage = st]
      BY <1>2 DEF Fill
    <3> HIDE DEF st
    <3> QED BY <1>0, <3>1
  <2>4. order[o] \in SellOrders /\ Left(o) = order[o].qty - order[o].filled /\ order[o].stage = "live"
    BY <1>0, <2>1, SizeAssumption DEF Left, Live
  <2>5. order[o].filled \in 0 .. Size /\ order[o].qty \in 0 .. Size
    BY <2>4 DEF SellOrders
  <2>6. order[o].filled + n \in 0 .. Size /\ order[o].filled + n <= order[o].qty
    BY <2>1, <2>4, <2>5, SizeAssumption
  <2>7. new \in SellOrders /\ new.filled = order[o].filled + n /\ new.qty = order[o].qty /\ new.stage = st
    BY <2>4, <2>6, PlacedType DEF SellOrders
  <2> HIDE DEF new
  <2>8. order'[o] = new /\ order' \in [Sells -> SellOrders] /\ \A p \in Sells \ {o} : order'[p] = order[p]
    BY <1>0, <2>3, <2>7
  <2>9. Left(o)' = Left(o) - n
    <3>1. CASE n = Left(o)
      BY <2>1, <2>7, <2>8, <3>1 DEF Left, Live
    <3>2. CASE n # Left(o)
      BY <2>1, <2>4, <2>5, <2>7, <2>8, <3>2, SizeAssumption DEF Left, Live
    <3> QED BY <3>1, <3>2
  <2>10. Available' >= 0
    <3> DEFINE m == Left(o) - n
    <3>1. m \in Int /\ m >= 0 /\ Left(o)' = m
      BY <2>1, <2>9, SizeAssumption
    <3> HIDE DEF m
    <3>2. Available' = Available + (held' - held) - (m - Left(o))
      BY <2>2, <2>8, <3>1, AvailableChanges, SizeAssumption
    <3> QED BY <1>0, <2>1, <3>2, SizeAssumption DEF m
  <2>11. NoneOversold'
    BY <1>2, <2>6, <2>7, <2>8 DEF NoneOversold, Fill
  <2>12. UNCHANGED <<run, closes, pos, saved, truth, lock, pc, me, marked, crossed, hasty,
                     astray, cancels, faults>>
    BY <1>2 DEF Fill, book, threads, history, bounds
  <2>13. TypeOK'
    BY <2>2, <2>8, <2>12 DEF TypeOK
  <2> QED BY <2>10, <2>11, <2>13
<1>3. ASSUME NEW o \in Sells, NEW n \in 1 .. Size, UserSells(o, n) PROVE TInv'
  <2>1. n <= Available /\ Accepted(o, n, TRUE) /\ UNCHANGED <<held, truth, history, cancels>>
    BY <1>3 DEF UserSells
  <2>3. n \in 0 .. Size /\ TRUE \in BOOLEAN
    BY SizeAssumption
  <2>4. faults' \in 0 .. MaxFaults
    BY <1>0, <1>3, BoundsAssumption DEF UserSells
  <2>2. BookTypes' /\ ThreadTypes'
    BY <1>1, <1>3, BookLeft DEF UserSells
  <2> QED BY <2>1, <2>2, <2>3, <2>4, AcceptedTypes
<1>4. ASSUME NEW o \in Sells, Cancel(o) PROVE TInv'
  <2>1. order' = [order EXCEPT ![o] = [order[o] EXCEPT !.stage = "dead"]]
        /\ UNCHANGED <<held, run, closes, pos, saved, truth, lock, pc, me, marked, crossed, hasty,
                      astray, faults>>
    BY <1>0, <1>4 DEF Cancel, book, threads, history
  <2>2. cancels' \in 0 .. MaxCancels
    BY <1>0, <1>4, BoundsAssumption DEF Cancel
  <2>3. order'[o] = [order[o] EXCEPT !.stage = "dead"] /\ \A p \in Sells \ {o} : order'[p] = order[p]
    BY <1>0, <2>1
  <2>4. order' \in [Sells -> SellOrders]
    BY <1>0, <2>1 DEF SellOrders
  <2>5. order'[o].stage = "dead" /\ order'[o].filled = order[o].filled /\ order'[o].qty = order[o].qty
    BY <1>0, <2>3 DEF SellOrders
  <2>6. Left(o)' = 0
    BY <2>5 DEF Left, Live
  <2>7. Available' = Available + (held' - held) - (0 - Left(o)) /\ Left(o) \in Nat /\ Available \in Int
    BY <1>0, <2>1, <2>3, <2>6, AvailableChanges, AvailableType, LeftType, SizeAssumption
  <2>8. Available' >= 0
    BY <1>0, <2>1, <2>7, SizeAssumption
  <2>9. NoneOversold'
    BY <2>1, <2>3, <2>5 DEF NoneOversold
  <2>10. TypeOK'
    BY <2>1, <2>2, <2>4 DEF TypeOK
  <2> QED BY <2>8, <2>9, <2>10
<1>5. CASE LockExpires
  <2>1. BookTypes' /\ ThreadTypes'
    BY <1>0, <1>5, BookLeft DEF LockExpires, ThreadTypes
  <2> QED BY <1>0, <1>5, <2>1, BrokerLeft DEF LockExpires, broker, history, bounds
<1>6. ASSUME NEW b \in Balances, Sync(b) PROVE TInv'
  <2>1. b \in 0 .. Size
    BY <1>0 DEF Balances, Snapshots
  <2>2. [pos EXCEPT !.qty = b, !.missing = FALSE] \in Positions
    BY <1>0, <2>1 DEF Positions
  <2>3. BookTypes' /\ ThreadTypes'
    BY <1>0, <1>1, <1>6, <2>2, FlagsType DEF Sync, Save, BookTypes
  <2> QED BY <1>0, <1>6, <2>3, BrokerLeft DEF Sync, broker, history, bounds
<1>7. CASE Crash
  <2>1. Nothing \in Works
    BY SizeAssumption DEF Nothing, Works, NewRun, Runs, Statuses
  <2>2. pc' \in [Threads -> Steps] /\ me' \in [Threads -> Works] /\ lock' = FALSE
    BY <1>7, <2>1 DEF Crash, Steps
  <2>3. BookTypes' /\ ThreadTypes'
    BY <1>0, <1>7, <2>2 DEF Crash, BookTypes, ThreadTypes
  <2>4. faults' \in 0 .. MaxFaults /\ truth' \in Refreshed(TRUE)
    BY <1>0, <1>7, BoundsAssumption DEF Crash, Refreshed, Failed
  <2> QED BY <1>0, <1>7, <2>3, <2>4, BrokerLeft DEF Crash, broker, history
<1> QED BY <1>2, <1>3, <1>4, <1>5, <1>6, <1>7 DEF Outside

LEMMA InitTInv == Init => TInv
<1> SUFFICES ASSUME Init PROVE TInv
  OBVIOUS
<1> USE SizeAssumption, SellsAssumption, BoundsAssumption
<1>1. NewOrder \in SellOrders /\ NewRun \in Runs /\ NewPosition \in Positions
  BY DEF NewOrder, SellOrders, NewRun, Runs, Statuses, NewPosition, Positions
<1>2. Nothing \in Works
  BY <1>1 DEF Nothing, Works
<1>3. truth \in Snapshots
  BY <1>1 DEF Init, Snapshots
<1>4. TypeOK
  <2>1. held \in 0 .. Size /\ order \in [Sells -> SellOrders]
    BY <1>1 DEF Init
  <2>2. run \in Runs /\ closes \in Nat /\ pos \in Positions /\ saved \in Positions /\ lock \in BOOLEAN
    BY <1>1 DEF Init
  <2>3. pc \in [Threads -> Steps] /\ me \in [Threads -> Works]
    BY <1>2 DEF Init, Steps
  <2>4. marked \subseteq Sells /\ crossed \in BOOLEAN /\ hasty \in BOOLEAN /\ astray \in BOOLEAN
    BY DEF Init
  <2>5. cancels \in 0 .. MaxCancels /\ faults \in 0 .. MaxFaults
    BY DEF Init
  <2> QED BY <1>3, <2>1, <2>2, <2>3, <2>4, <2>5 DEF TypeOK, Works
<1>5. NoneOversold
  BY DEF Init, NoneOversold, NewOrder
<1>6. Available >= 0
  <2>1. PICK it : IsSum(it, Terms, Sells) /\ Available = held - it[Sells]
    BY AvailableIs
  <2>2. Terms \in [Sells -> Int] /\ \A o \in Sells : Terms[o] = 0
    BY DEF Terms, Left, Live, Init, NewOrder
  <2>3. it[Sells] = 0
    BY <2>1, <2>2, SellsFinite, SumOfNothing
  <2> QED BY <2>1, <2>3 DEF Init
<1> QED BY <1>4, <1>5, <1>6 DEF TInv

LEMMA StepTInv == Marks /\ TInv /\ [Next]_vars => TInv'
<1> SUFFICES ASSUME Marks, TInv, [Next]_vars PROVE TInv'
  OBVIOUS
<1>1. ASSUME NEW t \in Threads, Read(t) \/ Reconcile(t) \/ Clear(t) PROVE TInv'
  BY <1>1, ReconcileTypes
<1>2. ASSUME NEW t \in Threads, Sell(t) PROVE TInv'
  BY <1>2, SellTypes
<1>3. CASE Outside \/ LockExpires \/ (\E b \in Balances : Sync(b)) \/ Crash
  BY <1>3, ApartTypes
<1>4. CASE UNCHANGED vars
  <2>1. UNCHANGED <<held, order, run, closes, pos, saved, truth, lock, pc, me, marked, crossed, hasty,
                    astray, cancels, faults>>
    BY <1>4 DEF vars, broker, book, threads, history, bounds
  <2>2. BookTypes' /\ ThreadTypes'
    BY <2>1 DEF TInv, TypeOK, BookTypes, ThreadTypes, Works
  <2> QED BY <2>1, <2>2, BrokerLeft DEF TInv, TypeOK
<1> QED BY <1>1, <1>2, <1>3, <1>4 DEF Next

LEMMA TypesHold == Spec => [](Marks /\ TInv)
<1>1. Init => Marks
  BY DEF Init, Marks
<1>2. Marks /\ TInv /\ [Next]_vars => (Marks /\ TInv)'
  BY StepMarks, StepTInv DEF TInv
<1> QED BY <1>1, <1>2, InitTInv, PTL DEF Spec

\* The shares stay those of the position: what the broker holds, what each order still sells and
\* what every record counts are numbers of shares of it, though threads, faults and restarts
\* write them in any order.
THEOREM TypeCorrect == Spec => []TypeOK
<1>1. Marks /\ TInv => TypeOK
  BY DEF TInv
<1> QED BY <1>1, TypesHold, PTL

-----------------------------------------------------------------------------
(* Orders: they are numbered as they come, they only go on, and a snapshot is an older view. *)

InOrder == Placed = 1 .. Cardinality(Placed)

\* What becomes of an order from one moment to a later one.
GoesOnAs(a, b) ==
    /\ a.filled <= b.filled
    /\ a.stage # "new" => b.stage # "new" /\ b.qty = a.qty /\ b.hand = a.hand
    /\ a.stage = "dead" => b = a
    /\ b.stage = "new" => b = a

Older == \A o \in Sells : GoesOnAs(truth.order[o], order[o])

\* What is open has shares left, and what is marked is placed.
Something == \A o \in Sells : /\ Live(o) => order[o].filled < order[o].qty
                              /\ order[o].stage = "new" => order[o].filled = 0

Known ==
    /\ marked \subseteq Placed
    /\ \A t \in Threads : me[t].order # None => pc[t] \in {"truth", "mark"} /\ me[t].order \in Placed

\* Whoever sells has something to sell.
Sellers == \A t \in Threads : pc[t] \in AtWork \cup {"zero"} => me[t].qty > 0

SavedIs == saved.watch = pos.watch /\ saved.qty = pos.qty /\ saved.there = pos.there

\* A run that can be sold again has no number, and the loop is not reconciling a sale of it.
Again == run.status = "FILLED" => run.exit = None /\ pc["loop"] \notin {"pending", "unknown"}

Orders == InOrder /\ Older /\ Something /\ Known

LEMMA GoesOnAgain ==
  ASSUME NEW a \in SellOrders, NEW b \in SellOrders, NEW c \in SellOrders,
         GoesOnAs(a, b), GoesOnAs(b, c)
  PROVE  GoesOnAs(a, c)
<1>1. a.filled \in Int /\ b.filled \in Int /\ c.filled \in Int
  BY SizeAssumption DEF SellOrders
<1>2. a.filled <= c.filled
  BY <1>1 DEF GoesOnAs
<1> QED BY <1>2 DEF GoesOnAs

LEMMA FillFields ==
  ASSUME TypeOK, NoneOversold, NEW o \in Sells, NEW n \in 1 .. Size, Fill(o, n)
  PROVE  /\ \A p \in Sells \ {o} : order'[p] = order[p]
         /\ order[o].stage = "live" /\ order'[o].stage \in {"live", "dead"}
         /\ order'[o].filled = order[o].filled + n /\ order[o].filled + n <= order[o].qty
         /\ order'[o].qty = order[o].qty /\ order'[o].hand = order[o].hand
         /\ order'[o].stage = "live" => order'[o].filled < order'[o].qty
         /\ n <= Left(o) /\ Left(o) \in 0 .. Size /\ held' = held - n /\ held \in 0 .. Size
<1> DEFINE st == IF n = Left(o) THEN "dead" ELSE "live"
           new == [order[o] EXCEPT !.filled = @ + n, !.upto = Cardinality(Placed), !.stage = st]
<1>0. order \in [Sells -> SellOrders] /\ held \in 0 .. Size
  BY DEF TypeOK
<1>1. Left(o) \in 0 .. Size /\ n <= Left(o) /\ held' = held - n
  BY LeftType DEF Fill
<1>2. order' = [order EXCEPT ![o] = new]
  <2>1. order' = [order EXCEPT ![o].filled = @ + n, ![o].upto = Cardinality(Placed), ![o].stage = st]
    BY DEF Fill
  <2> HIDE DEF st
  <2> QED BY <1>0, <2>1
<1>3. order[o] \in SellOrders /\ Left(o) = order[o].qty - order[o].filled /\ order[o].stage = "live"
  BY <1>0, <1>1, SizeAssumption DEF Left, Live
<1>4. order[o].filled \in 0 .. Size /\ order[o].qty \in 0 .. Size
  BY <1>3 DEF SellOrders
<1>5. order[o].filled + n \in 0 .. Size /\ order[o].filled + n <= order[o].qty
  BY <1>1, <1>3, <1>4, SizeAssumption
<1>6. /\ new.filled = order[o].filled + n /\ new.qty = order[o].qty /\ new.stage = st
      /\ new.hand = order[o].hand
  BY <1>3 DEF SellOrders
<1> HIDE DEF new
<1>7. order'[o] = new /\ \A p \in Sells \ {o} : order'[p] = order[p]
  BY <1>0, <1>2
<1>8. st = "live" => order[o].filled + n < order[o].qty
  BY <1>1, <1>3, <1>4, SizeAssumption
<1>9. st \in {"live", "dead"}
  OBVIOUS
<1> HIDE DEF st
<1> QED BY <1>0, <1>1, <1>3, <1>5, <1>6, <1>7, <1>8, <1>9

LEMMA AcceptedFields ==
  ASSUME TypeOK, NEW o \in Sells, NEW n \in 0 .. Size, NEW h \in BOOLEAN, Accepted(o, n, h)
  PROVE  /\ \A p \in Sells \ {o} : order'[p] = order[p]
         /\ order'[o].stage = "live" /\ order'[o].qty = n /\ order'[o].filled = 0
         /\ order'[o].hand = h
<1> DEFINE new == [NewOrder EXCEPT !.stage = "live", !.qty = n, !.hand = h]
<1>1. NewOrder \in SellOrders /\ NewOrder.filled = 0
  BY SizeAssumption, SellsAssumption DEF NewOrder, SellOrders
<1>2. new.stage = "live" /\ new.qty = n /\ new.filled = 0 /\ new.hand = h
  BY <1>1 DEF SellOrders
<1>3. order' = [order EXCEPT ![o] = new]
  BY DEF Accepted
<1> HIDE DEF new
<1> QED BY <1>2, <1>3 DEF TypeOK

LEMMA CancelFields ==
  ASSUME TypeOK, NEW o \in Sells, Cancel(o)
  PROVE  /\ \A p \in Sells \ {o} : order'[p] = order[p]
         /\ order[o].stage = "live" /\ order'[o].stage = "dead"
         /\ order'[o].qty = order[o].qty /\ order'[o].filled = order[o].filled
         /\ order'[o].hand = order[o].hand
<1>1. order \in [Sells -> SellOrders] /\ order[o].stage = "live"
  BY DEF TypeOK, Cancel, Live
<1>2. order' = [order EXCEPT ![o] = [order[o] EXCEPT !.stage = "dead"]]
  BY <1>1 DEF Cancel
<1> QED BY <1>1, <1>2 DEF SellOrders

LEMMA NextIsNew ==
  ASSUME InOrder, TypeOK, NEW o \in Sells, IsNext(o)
  PROVE  order[o].stage = "new"
<1>1. Cardinality(Placed) \in Nat
  BY PlacedType, SellsAssumption
<1>2. o \notin Placed
  BY <1>1 DEF InOrder, IsNext
<1> QED BY <1>2 DEF Placed

\* What an action does to the orders.
OneMoves(o) ==
    /\ \A p \in Sells \ {o} : order'[p] = order[p]
    /\ \/ /\ order[o].stage = "live" /\ order'[o].stage \in {"live", "dead"}
          /\ order'[o].qty = order[o].qty /\ order'[o].hand = order[o].hand
          /\ order[o].filled <= order'[o].filled
       \/ order[o].stage = "new" /\ order'[o].stage = "live" /\ order'[o].filled = 0 /\ IsNext(o)
    /\ order'[o].stage = "live" => order'[o].filled < order'[o].qty

LEMMA InOrderStays ==
  ASSUME InOrder, TypeOK, NEW o \in Sells, OneMoves(o)
  PROVE  InOrder'
<1> DEFINE N == Cardinality(Placed)
<1>0. N \in 0 .. MaxSells
  BY PlacedType
<1>1. CASE order[o].stage = "live"
  <2>1. Placed' = Placed
    BY <1>1 DEF OneMoves, Placed
  <2> QED BY <2>1 DEF InOrder
<1>2. CASE order[o].stage = "new" /\ order'[o].stage = "live" /\ IsNext(o)
  <2>1. Placed' = Placed \cup {o} /\ o \notin Placed
    BY <1>2 DEF OneMoves, Placed
  <2>2. IsFiniteSet(Placed)
    BY SellsFinite, FS_Subset DEF Placed
  <2>3. Cardinality(Placed \cup {o}) = N + 1
    BY <2>1, <2>2, FS_AddElement
  <2>4. o = N + 1 /\ Placed = 1 .. N
    BY <1>2 DEF IsNext, InOrder
  <2> HIDE DEF N
  <2>5. (1 .. N) \cup {N + 1} = 1 .. (N + 1)
    BY <1>0, SellsAssumption
  <2> QED BY <2>1, <2>3, <2>4, <2>5 DEF InOrder
<1> QED BY <1>1, <1>2 DEF OneMoves

LEMMA WhatMoves ==
  ASSUME TInv, InOrder, Sellers, [Next]_vars
  PROVE  \/ order' = order
         \/ \E o \in Sells : OneMoves(o) /\ truth' = truth
<1> USE DEF TInv
<1>1. ASSUME NEW o \in Sells, NEW n \in 1 .. Size, Fill(o, n)
      PROVE  OneMoves(o) /\ truth' = truth
  <2>1. order[o].filled <= order[o].filled + n
    BY SizeAssumption DEF TypeOK, SellOrders
  <2> QED BY <1>1, <2>1, FillFields DEF OneMoves, Fill
<1>2. ASSUME NEW o \in Sells, Cancel(o) PROVE OneMoves(o) /\ truth' = truth
  <2>1. order[o].filled <= order[o].filled
    BY SizeAssumption DEF TypeOK, SellOrders
  <2> QED BY <1>2, <2>1, CancelFields DEF OneMoves, Cancel
<1>3. ASSUME NEW o \in Sells, NEW n \in 0 .. Size, n > 0, NEW h \in BOOLEAN, IsNext(o), Accepted(o, n, h)
      PROVE  OneMoves(o)
  BY <1>3, AcceptedFields, NextIsNew DEF OneMoves
<1>4. ASSUME NEW o \in Sells, NEW n \in 1 .. Size, UserSells(o, n)
      PROVE  OneMoves(o) /\ truth' = truth
  <2>1. n \in 0 .. Size /\ n > 0 /\ TRUE \in BOOLEAN
    BY SizeAssumption
  <2> QED BY <1>3, <1>4, <2>1 DEF UserSells
<1>5. ASSUME NEW t \in Threads, NEW o \in Sells, pc[t] \in Sending, IsNext(o), Accepted(o, me[t].qty, FALSE)
      PROVE  OneMoves(o)
  <2>1. me[t].qty \in 0 .. Size /\ FALSE \in BOOLEAN
    BY DEF TypeOK
  <2>2. me[t].qty > 0
    BY <1>5 DEF Sellers, AtWork, Attempt, Sending
  <2> QED BY <1>3, <1>5, <2>1, <2>2
<1>6. ASSUME NEW t \in Threads, Read(t) \/ Reconcile(t) \/ Clear(t) PROVE order' = order
  BY <1>6 DEF Read, ReadPending, ReadFilled, ReadUnknown, ReadStale, Reads, Reconcile, Pending, Filled,
              Unknown, Clear, ClearStale, KeepStale, broker
<1>7. ASSUME NEW t \in Threads, Sell(t), ~PlaceUnknown(t), ~ServerError(t),
             ~(\E o \in Sells : PlaceAccepted(t, o))
      PROVE  order' = order
  BY <1>7 DEF Sell, StartSell, Observe, Rejected, Zero, ReviewHolds, ReviewSells, Precheck,
              PrecheckFails, Found, PlaceRejected, PlaceFails, Mark, broker
<1>8. CASE LockExpires \/ (\E b \in Balances : Sync(b)) \/ Crash \/ UNCHANGED vars
  BY <1>8 DEF LockExpires, Sync, Crash, broker, vars
<1>9. ASSUME NEW t \in Threads, NEW o \in Sells, PlaceAccepted(t, o) PROVE OneMoves(o) /\ truth' = truth
  BY <1>5, <1>9 DEF PlaceAccepted
<1>10. ASSUME NEW t \in Threads, PlaceUnknown(t) \/ ServerError(t)
       PROVE  order' = order \/ \E o \in Sells : OneMoves(o) /\ truth' = truth
  BY <1>5, <1>10 DEF PlaceUnknown, ServerError, Sending
<1>11. ASSUME NEW t \in Threads, Sell(t)
       PROVE  order' = order \/ \E o \in Sells : OneMoves(o) /\ truth' = truth
  BY <1>7, <1>9, <1>10, <1>11
<1>12. CASE Outside
  BY <1>1, <1>2, <1>4, <1>12 DEF Outside
<1> QED BY <1>6, <1>8, <1>11, <1>12 DEF Next

\* What becomes of the snapshot.
LEMMA WhatIsSeen ==
  ASSUME [Next]_vars
  PROVE  \/ truth' = truth \/ truth' = [truth EXCEPT !.ok = FALSE]
         \/ \E b \in BOOLEAN : truth' \in Refreshed(b)
<1>1. CASE Outside \/ LockExpires \/ (\E b \in Balances : Sync(b)) \/ Crash \/ UNCHANGED vars
  BY <1>1 DEF Outside, Fill, Cancel, UserSells, LockExpires, Sync, Crash, vars
<1>2. ASSUME NEW t \in Threads, Read(t) \/ Reconcile(t) \/ Clear(t)
      PROVE  truth' = truth \/ \E b \in BOOLEAN : truth' \in Refreshed(b)
  BY <1>2 DEF Read, ReadPending, ReadFilled, ReadUnknown, ReadStale, Reads, Reconcile, Pending, Filled,
              Unknown, Clear, ClearStale, KeepStale
<1>3. ASSUME NEW t \in Threads, Sell(t)
      PROVE  truth' = truth \/ \E b \in BOOLEAN : truth' \in Refreshed(b)
  BY <1>3 DEF Sell, StartSell, Observe, Rejected, Zero, ReviewHolds, ReviewSells, Precheck,
              PrecheckFails, PlaceAccepted, ServerError, Found, PlaceUnknown, PlaceRejected,
              PlaceFails, Mark
<1> QED BY <1>1, <1>2, <1>3 DEF Next

LEMMA WhatIsMarked ==
  ASSUME [Next]_vars
  PROVE  \/ marked' = marked
         \/ \E t \in Threads : Mark(t)
<1>1. CASE Outside \/ LockExpires \/ (\E b \in Balances : Sync(b)) \/ Crash \/ UNCHANGED vars
  BY <1>1 DEF Outside, Fill, Cancel, UserSells, LockExpires, Sync, Crash, vars, history
<1>2. ASSUME NEW t \in Threads, Read(t) \/ Reconcile(t) \/ Clear(t) PROVE marked' = marked
  BY <1>2 DEF Read, ReadPending, ReadFilled, ReadUnknown, ReadStale, Reads, Reconcile, Pending, Filled,
              Unknown, Crosses, Clear, ClearStale, KeepStale, history
<1>3. ASSUME NEW t \in Threads, Sell(t), ~Mark(t) PROVE marked' = marked
  BY <1>3 DEF Sell, StartSell, Observe, Rejected, Zero, ReviewHolds, ReviewSells, Precheck,
              PrecheckFails, PlaceAccepted, ServerError, Found, PlaceUnknown, PlaceRejected,
              PlaceFails, history
<1> QED BY <1>1, <1>2, <1>3 DEF Next

LEMMA OrdersGoOn ==
  ASSUME TInv, InOrder, Something, Sellers, [Next]_vars
  PROVE  /\ \A o \in Sells : GoesOnAs(order[o], order'[o])
         /\ InOrder' /\ Something'
         /\ Placed \subseteq Placed'
<1>0. TypeOK
  BY DEF TInv
<1>1. \A o \in Sells : GoesOnAs(order[o], order[o]) /\ order[o].filled \in Nat
  BY <1>0, SizeAssumption DEF GoesOnAs, TypeOK, SellOrders
<1>2. CASE order' = order
  BY <1>1, <1>2 DEF InOrder, Placed, Something, Live
<1>3. ASSUME NEW o \in Sells, OneMoves(o)
      PROVE  /\ \A p \in Sells : GoesOnAs(order[p], order'[p])
             /\ InOrder' /\ Something'
  <2>1. GoesOnAs(order[o], order'[o])
    <3>1. CASE order[o].stage = "live"
      BY <1>3, <3>1 DEF OneMoves, GoesOnAs
    <3>2. CASE order[o].stage = "new"
      <4>1. order[o].filled = 0 /\ order'[o].filled = 0
        BY <1>3, <3>2 DEF OneMoves, Something
      <4> QED BY <1>3, <3>2, <4>1 DEF OneMoves, GoesOnAs
    <3> QED BY <1>3, <3>1, <3>2 DEF OneMoves
  <2>2. InOrder'
    BY <1>0, <1>3, InOrderStays
  <2>3. Something'
    BY <1>3 DEF OneMoves, Something, Live
  <2> QED BY <1>1, <1>3, <2>1, <2>2, <2>3 DEF OneMoves
<1>4. (\A p \in Sells : GoesOnAs(order[p], order'[p])) => Placed \subseteq Placed'
  BY DEF GoesOnAs, Placed
<1> QED BY <1>2, <1>3, <1>4, WhatMoves

LEMMA StepOrders ==
  ASSUME TInv, IInv, Orders, Sellers, [Next]_vars, TInv'
  PROVE  Orders'
<1> USE DEF Orders
<1>0. TypeOK /\ NoneOversold /\ order \in [Sells -> SellOrders] /\ order' \in [Sells -> SellOrders]
      /\ truth.order \in [Sells -> SellOrders] /\ pc \in [Threads -> Steps] /\ me \in [Threads -> Works]
  BY DEF TInv, TypeOK, Snapshots, Works
<1>1. /\ \A o \in Sells : GoesOnAs(order[o], order'[o])
      /\ InOrder' /\ Something' /\ Placed \subseteq Placed'
  BY OrdersGoOn
<1>2. Older'
  <2>1. truth'.order \in {truth.order, order}
    <3>1. [truth EXCEPT !.ok = FALSE].order = truth.order
      BY <1>0 DEF TInv, TypeOK, Snapshots
    <3> QED BY <1>0, <3>1, WhatIsSeen, SnapshotType
  <2>2. ASSUME NEW o \in Sells PROVE GoesOnAs(truth.order[o], order'[o])
    BY <1>0, <1>1, GoesOnAgain DEF Older
  <2> QED BY <1>1, <2>1, <2>2 DEF Older
<1>3. Known'
  <2>1. marked' \subseteq Placed'
    <3>1. ASSUME NEW t \in Threads, Mark(t) PROVE marked' \subseteq Placed'
      <4>1. marked' = marked \cup {me[t].order} /\ pc[t] = "mark"
        BY <3>1 DEF Mark
      <4>2. me[t].order \in Sells /\ None \notin Sells
        BY <4>1, SellsAssumption DEF IInv, Numbers, Sells
      <4> QED BY <1>1, <4>1, <4>2 DEF Known
    <3> QED BY <1>1, <3>1, WhatIsMarked DEF Known
  <2>2. \A t \in Threads : me'[t].order # None => pc'[t] \in {"truth", "mark"} /\ me'[t].order \in Placed'
    <3>0. Nothing.order = None
      BY DEF Nothing
    <3>1. CASE UNCHANGED <<pc, me>>
      BY <1>1, <3>1 DEF Known
    <3>2. CASE Crash
      BY <3>0, <3>2 DEF Crash
    <3>3. ASSUME NEW t \in Threads, Moved(t), me'[t].order # None
          PROVE  pc'[t] \in {"truth", "mark"} /\ me'[t].order \in Placed'
      <4>1. ASSUME NEW o \in Sells, Takes(t, o), pc'[t] \in {"truth", "mark"}, me'[t].order = o
            PROVE  pc'[t] \in {"truth", "mark"} /\ me'[t].order \in Placed'
        <5>1. CASE Found(t, o)
          BY <1>1, <4>1, <5>1 DEF Found
        <5>2. CASE IsNext(o) /\ me[t].qty <= Available /\ Accepted(o, me[t].qty, FALSE)
          <6>1. me[t].qty \in 0 .. Size /\ FALSE \in BOOLEAN
            BY <1>0 DEF Works
          <6>2. order'[o].stage = "live"
            BY <1>0, <5>2, <6>1, AcceptedFields
          <6> QED BY <4>1, <6>2 DEF Placed
        <5> QED BY <4>1, <5>1, <5>2 DEF Takes
      <4>2. CASE me'[t].order = None
        BY <3>3, <4>2
      <4>3. CASE pc[t] \notin {"truth", "mark"} /\ me'[t].order = me[t].order
        BY <3>3, <4>3 DEF Known
      <4>4. CASE \E o \in Sells : /\ Takes(t, o) /\ pc[t] \in Sending /\ pc'[t] \in {"truth", "mark"}
                                  /\ me'[t].qty = me[t].qty /\ me'[t].order = o
        BY <4>1, <4>4
      <4> QED BY <3>0, <3>3, <4>2, <4>3, <4>4 DEF Moved
    <3>4. ASSUME NEW t \in Threads, Moved(t), NEW u \in Threads \ {t}, me'[u].order # None
          PROVE  pc'[u] \in {"truth", "mark"} /\ me'[u].order \in Placed'
      BY <1>1, <3>4 DEF Moved, Known
    <3> QED BY <1>0, <3>1, <3>2, <3>3, <3>4, WhoMoves
  <2> QED BY <2>1, <2>2 DEF Known
<1> QED BY <1>1, <1>2, <1>3

LEMMA StepSellers ==
  ASSUME TypeOK, Sellers, [Next]_vars
  PROVE  Sellers'
<1>1. CASE UNCHANGED <<pc, me>>
  BY <1>1 DEF Sellers
<1>2. CASE Crash
  BY <1>2 DEF Crash, Sellers, AtWork, Before, Attempt
<1>3. ASSUME NEW t \in Threads, Moved(t) PROVE Sellers'
  <2> SUFFICES ASSUME NEW u \in Threads, pc'[u] \in AtWork \cup {"zero"} PROVE me'[u].qty > 0
    BY DEF Sellers
  <2>1. CASE u # t
    BY <1>3, <2>1 DEF Moved, Sellers
  <2>2. CASE u = t
    BY <1>3, <2>2 DEF Moved, Sellers, AtWork, Before, Attempt, Sending
  <2> QED BY <2>1, <2>2
<1> QED BY <1>1, <1>2, <1>3, WhoMoves

-----------------------------------------------------------------------------
(* What an action writes of the run and of the position. *)

\* The run keeps its status and its number; it gets another status, and keeps a number; or the
\* loop makes it FILLED again.
Kept == run'.status = run.status /\ run'.exit = run.exit /\ run'.asked = run.asked
Written == run'.status # "FILLED" /\ (run'.exit = run.exit \/ run'.exit # None)
Anew(s) == /\ pc["loop"] = "unknown" /\ Done("loop") /\ FilledAgain(me["loop"].run)
           /\ s.ok /\ PartSold(me["loop"].run, s) = 0 /\ s.bal > 0

\* The mark to look is left, set by the loop, taken off after a look, or not needed: there is
\* a number.
Looking == \/ pos'.watch = pos.watch
           \/ run'.exit # None /\ \E t \in Threads : pc[t] \in {"observe", "reject"}
           \/ \E s \in Refreshed(TRUE) : NothingSeen(s)
           \/ \E s \in Refreshed(FALSE) : Anew(s)

LEMMA EvidenceNamed ==
  ASSUME NEW r \in Runs, NEW s, Evidence(r, s) # {}
  PROVE  (IF r.exit \in Evidence(r, s) THEN r.exit ELSE First(Evidence(r, s))) \in Sells
<1>1. Evidence(r, s) \in SUBSET Sells
  BY EvidenceType
<1> QED BY <1>1, FirstIsSale

LEMMA FinalizeWrites ==
  ASSUME TypeOK, IInv, NEW o \in Sells, Finalize(o)
  PROVE  Written /\ pos'.watch = pos.watch /\ (SavedIs => SavedIs') /\ run'.status = "CLOSED"
         /\ run'.exit # None
<1>1. run'.status = "CLOSED" /\ run'.exit # None
  BY FinalizeCloses
<1>2. pos'.watch = pos.watch /\ (SavedIs => SavedIs')
  BY DEF Finalize, TypeOK, Positions, Save, SavedIs
<1> QED BY <1>1, <1>2 DEF Written

LEMMA StatusKeeps ==
  ASSUME TypeOK, NEW st, Status(st)
  PROVE  run'.status = st /\ run'.exit = run.exit /\ run'.asked = run.asked /\ run'.sent = run.sent
         /\ run'.watch = run.watch /\ (st # "FILLED" => Written)
BY DEF TypeOK, Runs, Status, Written

LEMMA PartKeeps ==
  ASSUME TypeOK, NEW r, NEW s, Part(r, s)
  PROVE  pos'.watch = pos.watch /\ (SavedIs => SavedIs')
<1>1. ASSUME NEW n PROVE Reduced(n).watch = pos.watch
  BY DEF Reduced, TypeOK, Positions
<1>2. pos'.watch = pos.watch
  BY <1>1 DEF Part
<1>3. SavedIs => SavedIs'
  BY DEF Part, Reduced, Save, SavedIs
<1> QED BY <1>2, <1>3

LEMMA ReconcileWrites ==
  ASSUME TInv, IInv, NEW t \in Threads, NEW s \in Refreshed(FALSE),
         (\E late \in BOOLEAN : Pending(t, s, late)) \/ Filled(t, s) \/ Unknown(t, s)
  PROVE  /\ Kept \/ Written \/ Anew(s)
         /\ Looking /\ (SavedIs => SavedIs')
<1> DEFINE r == me[t].run
           Fine == (Kept \/ Written \/ Anew(s)) /\ Looking /\ (SavedIs => SavedIs')
<1>0. r \in Runs /\ TypeOK /\ \A o \in Sells : s.order[o].filled \in Nat
  BY SnapshotType DEF TInv, TypeOK, Works
<1>1. ASSUME UNCHANGED book PROVE Fine
  BY <1>1 DEF book, Kept, Looking, SavedIs
<1>2. ASSUME NEW st, st # "FILLED", Status(st), UNCHANGED <<pos, saved>> PROVE Fine
  BY <1>0, <1>2, StatusKeeps DEF Looking, SavedIs
<1>3. ASSUME NEW st, st # "FILLED", Status(st), Part(r, s) PROVE Fine
  BY <1>0, <1>3, StatusKeeps, PartKeeps DEF Looking
<1>4. ASSUME NEW o \in Sells, Finalize(o) PROVE Fine
  BY <1>0, <1>4, FinalizeWrites DEF Looking
<1>5. ASSUME Evidence(r, s) # {},
             Finalize(IF r.exit \in Evidence(r, s) THEN r.exit ELSE First(Evidence(r, s)))
      PROVE  Fine
  BY <1>0, <1>4, <1>5, EvidenceNamed
<1>6. ASSUME NEW late \in BOOLEAN, Pending(t, s, late) PROVE Fine
  BY <1>1, <1>2, <1>3, <1>5, <1>6 DEF Pending
<1>7. ASSUME Filled(t, s) PROVE Fine
  <2>1. CASE s.ok /\ s.bal = 0 /\ Sold(s, r.exit) >= Size
    <3>1. r.exit \in Sells \cup {None}
      BY <1>0 DEF Runs
    <3>2. WithFills(s, r.exit) # {}
      <4>1. ASSUME WithFills(s, r.exit) = {} PROVE Sold(s, r.exit) = 0
        BY <4>1, NoneSold
      <4> QED BY <2>1, <4>1, SizeAssumption
    <3>3. First(WithFills(s, r.exit)) \in Sells
      BY <1>0, <3>2, EvidenceType, FirstIsSale
    <3> QED BY <1>4, <1>7, <2>1, <3>3 DEF Filled
  <2>2. CASE ~(s.ok /\ s.bal = 0 /\ Sold(s, r.exit) >= Size)
    BY <1>1, <1>2, <1>7, <2>2 DEF Filled
  <2> QED BY <2>1, <2>2
<1>8. ASSUME Unknown(t, s) PROVE Fine
  <2>0. pc[t] = "unknown" /\ t = "loop"
    BY <1>8 DEF Unknown, IInv, Reconciled
  <2>1. CASE FilledAgain(r)
    <3>0. FilledAgain(r) => run'.status = "FILLED" /\ run.status # "FILLED"
      BY <1>0, <2>0 DEF FilledAgain, TypeOK, Runs, IInv, Reconciled
    <3>1. StillHeld(r, s) /\ s.ok /\ PartSold(r, s) = 0
      <4>1. ASSUME NEW st, st # "FILLED", Status(st) PROVE FALSE
        BY <1>0, <2>1, <3>0, <4>1, StatusKeeps
      <4>2. ASSUME Evidence(r, s) # {},
                   Finalize(IF r.exit \in Evidence(r, s) THEN r.exit ELSE First(Evidence(r, s)))
            PROVE  FALSE
        BY <1>0, <2>1, <3>0, <4>2, EvidenceNamed, FinalizeWrites
      <4>3. ~ UNCHANGED book
        BY <2>1, <3>0 DEF book
      <4> QED BY <1>8, <4>1, <4>2, <4>3 DEF Unknown, book
    <3>2. s.bal > 0
      BY <3>1 DEF StillHeld
    <3>3. Anew(s) /\ Looking
      BY <1>8, <2>0, <2>1, <3>1, <3>2 DEF Anew, Looking, Unknown
    <3>4. SavedIs => SavedIs'
      BY <1>0, <2>1 DEF FilledAgain, SavedIs, Save, TypeOK, Positions
    <3> QED BY <3>3, <3>4
  <2>2. CASE ~FilledAgain(r)
    BY <1>1, <1>2, <1>3, <1>5, <1>8, <2>2 DEF Unknown, book
  <2> QED BY <2>1, <2>2
<1> QED BY <1>6, <1>7, <1>8

LEMMA LooksWrites ==
  ASSUME TInv, IInv, NEW t \in Threads, NEW s \in Refreshed(TRUE), Looks(t, s) \/ Quarantine(t),
         pc[t] \in {"observe", "reject"}
  PROVE  (Kept \/ (Written /\ run'.exit # None)) /\ Looking /\ (SavedIs => SavedIs')
<1>0. TypeOK /\ None \notin Sells /\ run \in Runs /\ pos \in Positions
      /\ Open(s, None) \in SUBSET Sells /\ WithFills(s, None) \in SUBSET Sells
  BY SellsAssumption DEF TInv, TypeOK, Sells, Open, WithFills, Of
<1>1. CASE Quarantine(t)
  <2>1. pos'.watch = pos.watch /\ Kept
    BY <1>0, <1>1 DEF Quarantine, Kept, Runs, Positions
  <2>2. saved' = pos'
    BY <1>1 DEF Quarantine, Save
  <2>3. SavedIs'
    BY <2>2 DEF SavedIs
  <2>4. Looking
    BY <2>1 DEF Looking
  <2> QED BY <2>1, <2>3, <2>4
<1>2. CASE WithFills(s, None) # {} /\ TakeFills(t, s)
  <2> DEFINE o == First(WithFills(s, None))
  <2>1. o \in Sells
    BY <1>0, <1>2, FirstIsSale
  <2>2. CASE Finalize(o)
    BY <1>0, <2>1, <2>2, FinalizeWrites DEF Looking
  <2>3. CASE ~Finalize(o)
    <3>1. PICK n, sale : /\ pos' = [Reduced(n) EXCEPT !.closing = FALSE, !.sale = sale]
                         /\ saved' = (IF pos.there THEN Reduced(n) ELSE saved)
      BY <1>2, <2>3 DEF TakeFills
    <3>2. run' = [run EXCEPT !.status = "SELL_PARTIAL_FILLED", !.exit = o,
                             !.asked = me[t].qty, !.sent = TRUE, !.stuck = TRUE]
      BY <1>2, <2>3 DEF TakeFills
    <3>3. Written /\ run'.exit # None
      <4> HIDE DEF o
      <4> QED BY <1>0, <2>1, <3>2 DEF Written, Runs
    <3>4. /\ Reduced(n).watch = pos.watch /\ Reduced(n).there = pos.there
          /\ pos'.watch = Reduced(n).watch /\ pos'.qty = Reduced(n).qty /\ pos'.there = Reduced(n).there
          /\ ~pos.there => Reduced(n).qty = pos.qty
      BY <1>0, <3>1 DEF Reduced, Positions
    <3> QED BY <3>1, <3>3, <3>4 DEF Looking, SavedIs
  <2> QED BY <2>2, <2>3
<1>3. CASE Open(s, None) # {} /\ Relink(t, s)
  <2> DEFINE o == First(Open(s, None))
  <2>1. o \in Sells
    BY <1>0, <1>3, FirstIsSale
  <2>2. saved' = pos' /\ run'.status = "SELL_ACKED" /\ run'.exit = o
    BY <1>0, <1>3 DEF Relink, Save, Runs
  <2> QED BY <1>0, <2>1, <2>2 DEF Written, Looking, SavedIs
<1> QED BY <1>1, <1>2, <1>3 DEF Looks

LEMMA SellWrites ==
  ASSUME TInv, IInv, NEW t \in Threads, Sell(t)
  PROVE  (Kept \/ Written) /\ Looking /\ (SavedIs => SavedIs')
<1> DEFINE Fine == (Kept \/ Written) /\ Looking /\ (SavedIs => SavedIs')
<1>0. TypeOK /\ run \in Runs /\ pos \in Positions /\ saved \in Positions /\ None \notin Sells
  BY SellsAssumption DEF TInv, TypeOK, Sells
<1>1. ASSUME UNCHANGED <<run, saved>>, pos' = pos \/ (\E c \in BOOLEAN : pos' = [pos EXCEPT !.closing = c])
      PROVE  Fine
  BY <1>0, <1>1 DEF Kept, Looking, SavedIs, Positions
<1>2. ASSUME NEW s \in Refreshed(TRUE), Observe(t, s) PROVE Fine
  <2>1. CASE Looks(t, s)
    BY <1>2, <2>1, LooksWrites DEF Observe
  <2>2. CASE ~Looks(t, s)
    BY <1>0, <1>2, <2>2 DEF Observe, Kept, Looking, Save, SavedIs, Runs
  <2> QED BY <2>1, <2>2
<1>3. ASSUME NEW s \in Refreshed(TRUE), Rejected(t, s) PROVE Fine
  BY <1>3, LooksWrites DEF Rejected
<1>4. ASSUME NEW s \in Refreshed(TRUE), Zero(t, s) PROVE Fine
  <2>1. CASE UNCHANGED book
    BY <1>1, <2>1 DEF book
  <2>2. CASE ~ UNCHANGED book
    <3>1. /\ pos' = [pos EXCEPT !.there = FALSE] /\ Status("CLOSED")
          /\ IF pos.there THEN Save ELSE UNCHANGED saved
      BY <1>4, <2>2 DEF Zero, book
    <3>2. pos'.watch = pos.watch /\ pos'.qty = pos.qty /\ pos'.there = FALSE
      BY <1>0, <3>1 DEF Positions
    <3>3. SavedIs => SavedIs'
      BY <1>0, <3>1, <3>2 DEF Save, SavedIs, Positions
    <3> QED BY <1>0, <3>1, <3>2, <3>3, StatusKeeps DEF Looking
  <2> QED BY <2>1, <2>2
<1>5. ASSUME StartSell(t) \/ ReviewHolds(t) \/ ReviewSells(t) \/ (\E b \in Balances : Precheck(t, b))
             \/ PrecheckFails(t) \/ (\E o \in Sells : PlaceAccepted(t, o) \/ Found(t, o))
             \/ ServerError(t) \/ PlaceRejected(t) \/ PlaceFails(t)
      PROVE  Fine
  BY <1>1, <1>5 DEF StartSell, ReviewHolds, ReviewSells, Precheck, PrecheckFails, PlaceAccepted,
                    Found, ServerError, PlaceRejected, PlaceFails, NotClosing, book
<1>6. ASSUME PlaceUnknown(t) PROVE Fine
  BY <1>0, <1>6, StatusKeeps DEF PlaceUnknown, Looking, SavedIs
<1>7. ASSUME Mark(t) PROVE Fine
  <2> DEFINE o == me[t].order
  <2>1. o \in Sells /\ o # None
    BY <1>0, <1>7 DEF Mark, IInv, Numbers
  <2>2. /\ run' = [run EXCEPT !.status = "SELL_SENT", !.exit = o, !.asked = me[t].qty, !.sent = TRUE]
        /\ pos' = [pos EXCEPT !.sale = o] /\ saved' = pos'
    BY <1>7 DEF Mark, Save
  <2> HIDE DEF o
  <2> QED BY <1>0, <2>1, <2>2 DEF Written, Looking, SavedIs, Runs, Positions
<1> QED BY <1>2, <1>3, <1>4, <1>5, <1>6, <1>7 DEF Sell

\* What any step writes.
LEMMA WhatIsWritten ==
  ASSUME TInv, IInv, SavedIs, [Next]_vars
  PROVE  /\ Kept \/ Written \/ \E s \in Refreshed(FALSE) : Anew(s)
         /\ Looking /\ SavedIs'
<1>0. TypeOK /\ run \in Runs /\ pos \in Positions
  BY DEF TInv, TypeOK
<1>1. ASSUME UNCHANGED <<run, pos, saved>> PROVE Kept /\ Looking /\ SavedIs'
  BY <1>1 DEF Kept, Looking, SavedIs
<1>2. CASE Outside \/ LockExpires \/ UNCHANGED vars
  BY <1>1, <1>2 DEF Outside, Fill, Cancel, UserSells, LockExpires, vars, book
<1>3. ASSUME NEW t \in Threads, Read(t) PROVE Kept /\ Looking /\ SavedIs'
  BY <1>1, <1>3 DEF Read, ReadPending, ReadFilled, ReadUnknown, ReadStale, Reads, book
<1>4. ASSUME NEW t \in Threads, Reconcile(t)
      PROVE  (Kept \/ Written \/ \E s \in Refreshed(FALSE) : Anew(s)) /\ Looking /\ SavedIs'
  BY <1>4, ReconcileWrites DEF Reconcile
<1>5. ASSUME NEW t \in Threads, Sell(t) PROVE (Kept \/ Written) /\ Looking /\ SavedIs'
  BY <1>5, SellWrites
<1>6. ASSUME NEW t \in Threads, Clear(t) PROVE Kept /\ Looking /\ SavedIs'
  <2>1. CASE \E s \in Refreshed(TRUE) : KeepStale(t, s)
    BY <1>1, <2>1 DEF KeepStale, book
  <2>2. CASE \E s \in Refreshed(TRUE) : ClearStale(t, s)
    BY <1>0, <2>2 DEF ClearStale, Kept, Looking, Save, SavedIs, Positions
  <2> QED BY <1>6, <2>1, <2>2 DEF Clear
<1>7. ASSUME NEW b \in Balances, Sync(b) PROVE Kept /\ Looking /\ SavedIs'
  BY <1>0, <1>7 DEF Sync, Kept, Looking, Save, SavedIs, Positions
<1>8. CASE Crash
  BY <1>8 DEF Crash, Kept, Looking, SavedIs
<1> QED BY <1>2, <1>3, <1>4, <1>5, <1>6, <1>7, <1>8 DEF Next

\* How a thread comes to a step.
LEMMA WhoBegins ==
  ASSUME TInv, [Next]_vars, NEW t \in Threads
  PROVE  /\ pc'[t] = "pending" /\ pc[t] # "pending" => ReadPending(t)
         /\ pc'[t] = "unknown" /\ pc[t] # "unknown" => ReadUnknown(t)
         /\ pc'[t] = "filled" /\ pc[t] # "filled" => ReadFilled(t)
         /\ pc'[t] = "observe" /\ pc[t] # "observe" => StartSell(t)
         /\ pc'[t] = "review" /\ pc[t] # "review" =>
                StartSell(t) \/ \E s \in Refreshed(TRUE) : NothingSeen(s)
         /\ pc'[t] \in Attempt /\ pc[t] \notin Attempt => ~InFlight(run, pos) /\ pc[t] = "review"
<1> DEFINE Begins ==
         /\ pc'[t] = "pending" /\ pc[t] # "pending" => ReadPending(t)
         /\ pc'[t] = "unknown" /\ pc[t] # "unknown" => ReadUnknown(t)
         /\ pc'[t] = "filled" /\ pc[t] # "filled" => ReadFilled(t)
         /\ pc'[t] = "observe" /\ pc[t] # "observe" => StartSell(t)
         /\ pc'[t] = "review" /\ pc[t] # "review" =>
                StartSell(t) \/ \E s \in Refreshed(TRUE) : NothingSeen(s)
         /\ pc'[t] \in Attempt /\ pc[t] \notin Attempt => ~InFlight(run, pos) /\ pc[t] = "review"
<1>0. pc \in [Threads -> Steps]
  BY DEF TInv, TypeOK
<1>1. ASSUME pc'[t] = pc[t] \/ pc'[t] \in {"idle", "zero"} PROVE Begins
  BY <1>1 DEF Attempt
<1>2. ASSUME pc[t] \in Attempt, pc'[t] \in Attempt PROVE Begins
  BY <1>2 DEF Attempt
<1>3. ASSUME NEW u \in Threads, Done(u) PROVE Begins
  BY <1>0, <1>1, <1>3 DEF Done
<1>4. ASSUME NEW u \in Threads, NEW q, Goes(u, q)
      PROVE  pc'[t] = IF u = t THEN q ELSE pc[t]
  BY <1>0, <1>4 DEF Goes
<1>5. CASE Outside \/ LockExpires \/ (\E b \in Balances : Sync(b)) \/ Crash \/ UNCHANGED vars
            \/ (\E u \in Threads : Clear(u))
  <2>1. CASE \E u \in Threads : Clear(u)
    BY <1>3, <2>1 DEF Clear, ClearStale, KeepStale
  <2>2. CASE ~ \E u \in Threads : Clear(u)
    BY <1>1, <1>5, <2>2 DEF Outside, Fill, Cancel, UserSells, LockExpires, Sync, Crash, threads, vars
  <2> QED BY <2>1, <2>2
<1>9. ASSUME NEW u \in Threads, ReadStale(u) PROVE Begins
  <2>1. pc'[t] = IF u = t THEN "stale" ELSE pc[t]
    BY <1>4, <1>9 DEF ReadStale
  <2> QED BY <1>1, <2>1 DEF Attempt
<1>6. ASSUME NEW u \in Threads, Read(u), ~ReadStale(u) PROVE Begins
  <2>1. PICK q \in {"pending", "filled", "unknown"} : Reads(u, q)
    BY <1>6 DEF Read, ReadPending, ReadFilled, ReadUnknown
  <2>2. pc' = [pc EXCEPT ![u] = q]
    BY <2>1 DEF Reads
  <2>3. CASE u # t
    BY <1>0, <1>1, <2>2, <2>3
  <2>4. CASE u = t
    <3>1. pc'[t] = q
      BY <1>0, <2>2, <2>4
    <3>2. /\ ReadPending(t) => pc'[t] = "pending"
          /\ ReadFilled(t) => pc'[t] = "filled"
          /\ ReadUnknown(t) => pc'[t] = "unknown"
      BY <1>0 DEF ReadPending, ReadFilled, ReadUnknown, Reads
    <3> QED BY <1>6, <2>4, <3>1, <3>2 DEF Read, Attempt
  <2> QED BY <2>3, <2>4
<1>7. ASSUME NEW u \in Threads, Reconcile(u) PROVE Begins
  BY <1>3, <1>7 DEF Reconcile, Pending, Filled, Unknown
<1>8. ASSUME NEW u \in Threads, Sell(u) PROVE Begins
  <2>1. CASE StartSell(u)
    <3>1. PICK q \in Before : Goes(u, q)
      BY <2>1 DEF StartSell, Before
    <3>2. pc'[t] = IF u = t THEN q ELSE pc[t]
      BY <1>4, <3>1
    <3> QED BY <1>1, <2>1, <3>2 DEF Before, Attempt
  <2>2. ASSUME NEW s \in Refreshed(TRUE), Observe(u, s) PROVE Begins
    <3>1. CASE Looks(u, s)
      BY <1>3, <3>1 DEF Looks, Quarantine, TakeFills, Relink, GivesUp
    <3>2. CASE NothingSeen(s) /\ Goes(u, "review")
      <4>1. pc'[t] = IF u = t THEN "review" ELSE pc[t]
        BY <1>4, <3>2
      <4> QED BY <1>1, <3>2, <4>1 DEF Attempt
    <3> QED BY <2>2, <3>1, <3>2 DEF Observe
  <2>3. ASSUME NEW s \in Refreshed(TRUE), Rejected(u, s) \/ Zero(u, s) PROVE Begins
    BY <1>3, <2>3 DEF Rejected, Zero, Looks, Quarantine, TakeFills, Relink, GivesUp
  <2>4. CASE ReviewHolds(u) \/ ReviewSells(u)
    <3>1. CASE GivesUp(u)
      BY <1>3, <3>1 DEF GivesUp
    <3>2. CASE ~GivesUp(u)
      <4>1. ~InFlight(run, pos) /\ pc[u] = "review" /\ Goes(u, "precheck")
        BY <2>4, <3>2 DEF ReviewHolds, ReviewSells
      <4>2. pc'[t] = IF u = t THEN "precheck" ELSE pc[t]
        BY <1>4, <4>1
      <4> QED BY <1>1, <4>1, <4>2 DEF Attempt
    <3> QED BY <3>1, <3>2
  <2>5. CASE (\E b \in Balances : Precheck(u, b)) \/ PrecheckFails(u)
    <3>1. CASE GivesUp(u)
      BY <1>3, <3>1 DEF GivesUp
    <3>2. CASE ~GivesUp(u)
      <4>1. pc[u] = "precheck" /\ \E q \in {"place", "zero"} : Goes(u, q)
        BY <2>5, <3>2 DEF Precheck, PrecheckFails
      <4>2. PICK q \in {"place", "zero"} : Goes(u, q)
        BY <4>1
      <4>3. pc'[t] = IF u = t THEN q ELSE pc[t]
        BY <1>4, <4>2
      <4> QED BY <1>1, <1>2, <4>1, <4>3 DEF Attempt
    <3> QED BY <3>1, <3>2
  <2>6. CASE (\E o \in Sells : PlaceAccepted(u, o) \/ Found(u, o)) \/ ServerError(u) \/ PlaceRejected(u)
    <3>1. pc[u] \in Attempt /\ \E q \in {"truth", "mark", "reject"} : Goes(u, q)
      BY <2>6 DEF PlaceAccepted, Found, ServerError, PlaceRejected, Sending, Attempt
    <3>2. PICK q \in {"truth", "mark", "reject"} : Goes(u, q)
      BY <3>1
    <3>3. pc'[t] = IF u = t THEN q ELSE pc[t]
      BY <1>4, <3>2
    <3> QED BY <1>1, <1>2, <3>1, <3>3 DEF Attempt
  <2>7. CASE PlaceUnknown(u) \/ PlaceFails(u) \/ Mark(u)
    BY <1>3, <2>7 DEF PlaceUnknown, PlaceFails, Mark, GivesUp
  <2> QED BY <1>8, <2>1, <2>2, <2>3, <2>4, <2>5, <2>6, <2>7 DEF Sell
<1> QED BY <1>5, <1>6, <1>7, <1>8, <1>9 DEF Next

-----------------------------------------------------------------------------
(* An order that can be filled is not forgotten. *)

LiveMarked == {o \in marked : Live(o)}

\* The run has its number, or the position is marked to be looked at.
Remembered == LiveMarked # {} => run.exit # None \/ pos.watch

NoneInAttempt == \A t \in Threads : pc[t] \in Attempt => LiveMarked = {}

\* The loop reconciles an unknown run that had no number: the mark on the position stays.
NoNumber == LiveMarked # {} /\ pc["loop"] = "unknown" /\ me["loop"].run.exit = None =>
               pos.watch /\ \A u \in Threads \ {"loop"} : pc[u] # "observe"

Observer == \A u \in Threads \ {"loop"} : pc[u] = "observe" /\ LiveMarked # {} =>
               run.exit # None \/ run.status = "FILLED"

\* The run waits for order o, and the loop does nothing else: a run of no known fate has
\* been seen with fills.
Waits(o) ==
    /\ run.exit = o /\ run.asked > 0 /\ run.status # "FILLED"
    /\ run.status = "ORDER_UNKNOWN" => truth.order[o].filled > 0
    /\ pc["loop"] \in {"idle", "pending", "unknown"}
    /\ pc["loop"] # "idle" => me["loop"].run.exit = o /\ me["loop"].run.asked > 0
    /\ pc["loop"] = "unknown" => truth.order[o].filled > 0

\* A review takes minutes: the other thread has sent the order since it began.
Reviewer == \A u \in Threads : pc[u] = "review" =>
               \A o \in LiveMarked : run.exit # None /\ (u # "loop" => Waits(o))

LInv == Orders /\ Sellers /\ SavedIs /\ Again /\ Remembered /\ NoneInAttempt
        /\ NoNumber /\ Observer /\ Reviewer

LEMMA HeldByLive ==
  ASSUME TInv, Something, NEW o \in Sells, Live(o)
  PROVE  held > 0
<1>1. order[o].filled < order[o].qty /\ order[o] \in SellOrders
  BY DEF Something, TInv, TypeOK
<1>2. Left(o) > 0 /\ Left(o) \in Int
  <2>1. order[o].filled \in Int /\ order[o].qty \in Int
    BY <1>1, SizeAssumption DEF SellOrders
  <2> QED BY <1>1, <2>1 DEF Left
<1>3. Available \in Int /\ Available + Left(o) <= held /\ Available >= 0 /\ held \in Int
  BY AvailableType DEF TInv, TypeOK
<1> QED BY <1>2, <1>3

LEMMA LiveStays ==
  ASSUME TypeOK, Known, marked' = marked, \A o \in Sells : GoesOnAs(order[o], order'[o])
  PROVE  LiveMarked' \subseteq LiveMarked
<1> SUFFICES ASSUME NEW o \in marked, order'[o].stage = "live" PROVE order[o].stage = "live"
  BY DEF LiveMarked, Live
<1>1. o \in Sells /\ order[o].stage \in {"new", "live", "dead"} /\ order[o].stage # "new"
  BY DEF Known, Placed, TypeOK, SellOrders
<1> QED BY <1>1 DEF GoesOnAs

\* Where nothing was seen, nothing is open.
LEMMA NothingLive ==
  ASSUME TypeOK, NEW s \in Refreshed(TRUE), NothingSeen(s), NEW o \in Sells
  PROVE  ~Live(o)
<1>1. s.ok /\ s.order[o].stage # "live"
  BY DEF NothingSeen, Open, Of
<1>2. s.order = order
  BY <1>1 DEF Refreshed, Renewed, Failed, TypeOK, Snapshots
<1> QED BY <1>1, <1>2 DEF Live

LEMMA SeenOrders ==
  ASSUME TInv, Older, [Next]_vars, NEW o \in Sells
  PROVE  truth'.order[o].filled >= truth.order[o].filled /\ truth.order[o].filled \in Nat
<1>1. truth'.order \in {truth.order, order}
  <2>1. [truth EXCEPT !.ok = FALSE].order = truth.order
    BY DEF TInv, TypeOK, Snapshots
  <2> QED BY <2>1, WhatIsSeen, SnapshotType DEF TInv
<1>2. truth.order[o].filled <= order[o].filled
  BY DEF Older, GoesOnAs
<1>3. truth.order[o].filled \in Nat /\ order[o].filled \in Nat
  BY SizeAssumption DEF TInv, TypeOK, Snapshots, SellOrders
<1> QED BY <1>1, <1>2, <1>3

\* While the other thread looks at the sales of the day, a run that is no longer FILLED has a number.
LEMMA LeavesFilled ==
  ASSUME TInv, IInv, Again, [Next]_vars, run.status = "FILLED", run'.status # "FILLED", held > 0,
         NEW u \in Threads \ {"loop"}, pc[u] = "observe", \A t \in Threads : pc[t] \notin Attempt
  PROVE  run'.exit # None
<1>0. TypeOK /\ run \in Runs /\ held \in Int
  BY DEF TInv, TypeOK
<1>1. run' # run
  OBVIOUS
<1>2. ~(Outside \/ LockExpires \/ (\E b \in Balances : Sync(b)) \/ Crash \/ UNCHANGED vars)
  BY <1>1 DEF Outside, Fill, Cancel, UserSells, LockExpires, Sync, Crash, book, vars
<1>3. ASSUME NEW t \in Threads, Read(t) \/ Clear(t) PROVE FALSE
  BY <1>1, <1>3 DEF Read, ReadPending, ReadFilled, ReadUnknown, ReadStale, Reads, Clear, ClearStale,
                    KeepStale, book
<1>4. ASSUME NEW b, NEW s \in Refreshed(b), s.bal = 0 PROVE FALSE
  <2>1. Seen(s)
    BY RefreshedIsSeen
  <2> QED BY <1>0, <1>4, <2>1 DEF Seen
<1>5. ASSUME NEW t \in Threads, Reconcile(t) PROVE run'.exit # None
  <2>1. pc[t] \in {"pending", "filled", "unknown"}
    BY <1>5 DEF Reconcile, Pending, Filled, Unknown
  <2>2. t = "loop"
    BY <2>1, ThreadsAssumption
  <2>3. PICK s \in Refreshed(FALSE) : Filled(t, s)
    BY <1>5, <2>2 DEF Reconcile, Pending, Unknown, Again, IInv, Reconciled
  <2> DEFINE r == me[t].run
  <2>4. CASE s.ok /\ s.bal = 0
    BY <1>4, <2>4
  <2>5. CASE ~(s.ok /\ s.bal = 0)
    BY <1>1, <2>3, <2>5 DEF Filled, book
  <2> QED BY <2>4, <2>5
<1>6. ASSUME NEW t \in Threads, Sell(t) PROVE run'.exit # None
  <2>1. ASSUME NEW s \in Refreshed(TRUE), Observe(t, s) PROVE run'.exit # None
    <3>1. CASE Looks(t, s)
      BY <2>1, <3>1, LooksWrites DEF Observe, Kept
    <3>2. CASE run' = [run EXCEPT !.watch = FALSE]
      BY <1>0, <3>2 DEF Runs
    <3> QED BY <2>1, <3>1, <3>2 DEF Observe
  <2>2. ASSUME NEW s \in Refreshed(TRUE), Zero(t, s) PROVE FALSE
    <3>1. CASE s.bal = 0
      BY <1>4, <3>1
    <3>2. CASE s.bal # 0
      BY <1>1, <2>2, <3>2 DEF Zero, book
    <3> QED BY <3>1, <3>2
  <2>3. ~Mark(t) /\ ~PlaceUnknown(t) /\ \A s \in Refreshed(TRUE) : ~Rejected(t, s)
    BY DEF Mark, PlaceUnknown, Rejected, Attempt, Sending
  <2>4. ~(StartSell(t) \/ ReviewHolds(t) \/ ReviewSells(t) \/ (\E b \in Balances : Precheck(t, b))
             \/ PrecheckFails(t) \/ (\E o \in Sells : PlaceAccepted(t, o) \/ Found(t, o))
             \/ ServerError(t) \/ PlaceRejected(t) \/ PlaceFails(t))
    BY <1>1 DEF StartSell, ReviewHolds, ReviewSells, Precheck, PrecheckFails, PlaceAccepted,
                    Found, ServerError, PlaceRejected, PlaceFails, NotClosing, book
  <2> QED BY <1>6, <2>1, <2>2, <2>3, <2>4 DEF Sell
<1> QED BY <1>2, <1>3, <1>5, <1>6 DEF Next

\* A run that waits for an order that can be filled goes on waiting.
LEMMA GoesOnWaiting ==
  ASSUME TInv, IInv, Older, [Next]_vars, NEW u \in Threads \ {"loop"}, pc[u] = "review",
         pc'[u] = "review", NEW o \in Sells, Waits(o), Live(o), Live(o)', held > 0
  PROVE  Waits(o)'
<1>0. /\ TypeOK /\ run \in Runs /\ held \in Int /\ o # None /\ "loop" \in Threads /\ u # "loop"
      /\ pc \in [Threads -> Steps] /\ me \in [Threads -> Works]
      /\ me["loop"].run \in Runs
  BY SellsAssumption, ThreadsAssumption DEF TInv, TypeOK, Sells, Works
<1>1. truth'.order[o].filled >= truth.order[o].filled /\ truth.order[o].filled \in Nat
      /\ truth'.order[o].filled \in Int
  <2>1. truth'.order[o].filled \in Int
    <3>1. truth'.order \in {truth.order, order}
      <4>1. [truth EXCEPT !.ok = FALSE].order = truth.order
        BY DEF TInv, TypeOK, Snapshots
      <4> QED BY <4>1, WhatIsSeen, SnapshotType DEF TInv
    <3> QED BY <3>1, SizeAssumption DEF TInv, TypeOK, Snapshots, SellOrders
  <2> QED BY <2>1, SeenOrders
<1>2. truth.order[o].filled > 0 => truth'.order[o].filled > 0
  BY <1>1
<1>3. ASSUME run'.exit = o, run'.asked > 0, run'.status # "FILLED",
             run'.status = "ORDER_UNKNOWN" => truth'.order[o].filled > 0, pc'["loop"] = "idle"
      PROVE  Waits(o)'
  BY <1>3 DEF Waits
<1>4. CASE run' = run /\ pc'["loop"] = pc["loop"] /\ me'["loop"] = me["loop"]
  BY <1>2, <1>4 DEF Waits
<1>5. CASE Outside \/ LockExpires \/ (\E b \in Balances : Sync(b)) \/ UNCHANGED vars
  BY <1>4, <1>5 DEF Outside, Fill, Cancel, UserSells, LockExpires, Sync, vars, book, threads
<1>6. ~Crash
  BY DEF Crash
<1>7. ASSUME NEW t \in Threads, Read(t) \/ Reconcile(t) \/ Clear(t) \/ Sell(t), t # "loop" PROVE FALSE
  <2>1. t = u
    BY <1>7, ThreadsAssumption
  <2>2. Sell(u)
    BY <1>7, <2>1 DEF Read, ReadPending, ReadFilled, ReadUnknown, ReadStale, Reads, Reconcile,
                      Pending, Filled, Unknown, Clear, ClearStale, KeepStale
  <2>3. ASSUME Done(u) PROVE FALSE
    BY <1>0, <2>3 DEF Done
  <2>4. ReviewHolds(u) \/ ReviewSells(u)
    BY <2>2 DEF Sell, StartSell, Observe, Rejected, Zero, Precheck, PrecheckFails, PlaceAccepted,
                ServerError, Found, PlaceUnknown, PlaceRejected, PlaceFails, Mark, Sending
  <2> QED BY <1>0, <2>3, <2>4 DEF ReviewHolds, ReviewSells, GivesUp, Goes
<1>8. ~Clear("loop") /\ ~Sell("loop")
  BY DEF Waits, Clear, ClearStale, KeepStale, Sell, StartSell, Observe, Rejected, Zero, ReviewHolds,
         ReviewSells, Precheck, PrecheckFails, PlaceAccepted, ServerError, Found, PlaceUnknown,
         PlaceRejected, PlaceFails, Mark, Sending
<1>9. CASE Read("loop")
  <2>1. PICK what \in {"pending", "unknown"} :
            Reads("loop", what) /\ (what = "unknown" => run.status = "ORDER_UNKNOWN")
    BY <1>9 DEF Read, ReadPending, ReadFilled, ReadUnknown, ReadStale, Waits
  <2>2. pc'["loop"] = what /\ me'["loop"].run = run /\ run' = run
    BY <1>0, <2>1 DEF Reads, Works, book
  <2> QED BY <1>2, <2>1, <2>2 DEF Waits
<1> DEFINE r == me["loop"].run
<1>10. ASSUME Reconcile("loop") PROVE Waits(o)'
  <2>0. r.exit = o /\ r.asked > 0 /\ Asked(r) > 0 /\ Asked(r) \in Int
    <3>1. pc["loop"] # "idle"
      BY <1>10 DEF Reconcile, Pending, Filled, Unknown
    <3>2. r.exit = o /\ r.asked > 0
      BY <3>1 DEF Waits
    <3>3. Asked(r) = r.asked /\ r.asked \in Int
      BY <1>0, <3>2, SizeAssumption DEF Asked, Runs
    <3> QED BY <3>2, <3>3
  <2>1. PICK s \in Refreshed(FALSE) : \/ \E late \in BOOLEAN : Pending("loop", s, late)
                                       \/ Unknown("loop", s)
    BY <1>10 DEF Reconcile, Filled, Waits
  <2>2. /\ truth' = s /\ pc'["loop"] = "idle" /\ order' = order
        /\ s.bal # 0 /\ \A p \in Sells : s.order[p].filled \in Nat
    <3>1. Seen(s)
      BY RefreshedIsSeen
    <3>2. s.bal # 0
      BY <1>0, <3>1 DEF Seen
    <3>3. truth' = s /\ Done("loop") /\ order' = order
      BY <2>1 DEF Pending, Unknown, broker
    <3>4. pc'["loop"] = "idle"
      BY <1>0, <3>3 DEF Done
    <3> QED BY <3>2, <3>3, <3>4, SnapshotType DEF TInv
  <2>3. PartSold(r, s) = s.order[o].filled /\ Sold(s, r.exit) = s.order[o].filled /\ s.order[o].filled \in Nat
    BY <1>0, <2>0, <2>2, SoldIs DEF PartSold
  <2>4. ASSUME NEW st, st # "FILLED", Status(st), st = "ORDER_UNKNOWN" => s.order[o].filled > 0
        PROVE  Waits(o)'
    BY <1>0, <1>3, <2>2, <2>4, StatusKeeps DEF Waits
  <2>5. ASSUME Evidence(r, s) # {},
               Finalize(IF r.exit \in Evidence(r, s) THEN r.exit ELSE First(Evidence(r, s)))
        PROVE  Waits(o)'
    <3>1. Evidence(r, s) = WithFills(s, o)
      BY <2>0, <2>2, <2>5 DEF Evidence
    <3>2. o \in Evidence(r, s)
      BY <1>0, <2>5, <3>1 DEF WithFills, Of
    <3>3. Finalize(o)
      BY <2>0, <2>5, <3>2
    <3>4. run'.exit = o /\ run'.asked = run.asked /\ run'.status = "CLOSED"
      BY <1>0, <3>3 DEF Finalize, Waits, Runs
    <3> QED BY <1>3, <2>2, <3>4 DEF Waits
  <2>6. ASSUME NEW late \in BOOLEAN, Pending("loop", s, late) PROVE Waits(o)'
    <3>1. CASE UNCHANGED book
      BY <1>2, <1>3, <2>2, <3>1 DEF Waits, book
    <3>2. CASE PartSold(r, s) > 0 /\ Status(IF late THEN "ORDER_UNKNOWN" ELSE "SELL_PARTIAL_FILLED")
      BY <2>3, <2>4, <3>2
    <3>3. CASE Status(IF late /\ Open(s, r.exit) = {} THEN "ORDER_UNKNOWN" ELSE "SELL_ACKED")
      <4>1. ~(late /\ Open(s, r.exit) = {})
        <5> SUFFICES ASSUME late, Open(s, o) = {} PROVE FALSE
          BY <2>0
        <5>1. s.order[o].stage # "new" /\ s.order[o].stage # "live"
          BY <1>0, <2>0, <2>6 DEF Pending, MayBeLate, Open, Of
        <5>2. s.order \in {truth.order, order}
          BY SnapshotType DEF TInv
        <5>3. s.order[o].stage = "dead"
          BY <5>1, <5>2 DEF TInv, TypeOK, Snapshots, SellOrders
        <5> QED BY <5>2, <5>3 DEF Older, GoesOnAs, Live
      <4> QED BY <2>4, <3>3, <4>1
    <3> QED BY <2>5, <2>6, <3>1, <3>2, <3>3 DEF Pending
  <2>7. ASSUME Unknown("loop", s) PROVE Waits(o)'
    <3>1. s.order[o].filled > 0
      BY <1>2, <2>2, <2>7 DEF Waits, Unknown
    <3>2. PartSold(r, s) # 0
      BY <2>3, <3>1
    <3>3. CASE UNCHANGED <<book, lock>>
      BY <1>2, <1>3, <2>2, <3>3 DEF Waits, book
    <3>4. CASE Status("CLOSED") \/ Status("SELL_PARTIAL_FILLED")
      BY <2>4, <3>4
    <3> QED BY <2>5, <2>7, <3>2, <3>3, <3>4 DEF Unknown
  <2> QED BY <2>1, <2>6, <2>7
<1> QED BY <1>5, <1>6, <1>7, <1>8, <1>9, <1>10 DEF Next

LEMMA StepMarkLive ==
  ASSUME IInv, TInv, TInv', LInv, Orders', Sellers', SavedIs', NEW t \in Threads, Mark(t)
  PROVE  LInv'
<1> DEFINE o == me[t].order
<1>0. /\ pc[t] = "mark" /\ pc[t] \in Attempt /\ o \in Sells /\ o # None /\ t \in Threads
      /\ pc \in [Threads -> Steps] /\ me \in [Threads -> Works] /\ run \in Runs /\ "loop" \in Threads
      /\ me[t].qty > 0 /\ me[t].qty \in Int /\ held \in Int /\ truth.bal \in Int
  BY SellsAssumption, SizeAssumption, ThreadsAssumption
     DEF Mark, Attempt, AtWork, IInv, Numbers, Balance, Sells, TInv, TypeOK, Works, LInv, Sellers
<1>1. LiveMarked' \subseteq {o}
  <2>1. LiveMarked = {} /\ order' = order /\ marked' = marked \cup {o}
    BY <1>0 DEF LInv, NoneInAttempt, Mark, broker
  <2> QED BY <2>1 DEF LiveMarked, Live
<1>2. /\ run'.exit = o /\ run'.status = "SELL_SENT" /\ run'.asked = me[t].qty
      /\ pc'[t] = "idle" /\ truth' = truth
      /\ \A u \in Threads : u # t => pc'[u] = pc[u] /\ me'[u] = me[u]
  <2>1. run' = [run EXCEPT !.status = "SELL_SENT", !.exit = o, !.asked = me[t].qty, !.sent = TRUE]
    BY DEF Mark
  <2>2. run'.exit = o /\ run'.status = "SELL_SENT" /\ run'.asked = me[t].qty
    <3> HIDE DEF o
    <3> QED BY <1>0, <2>1 DEF Runs
  <2> QED BY <1>0, <2>2 DEF Mark, Done
<1>3. \A u \in Threads : pc'[u] \notin Attempt
  BY <1>0, <1>2 DEF IInv, Barred, Attempt
<1>4. LiveMarked' # {} => held > 0
  <2>1. order' = order
    BY DEF Mark, broker
  <2>2. LiveMarked' # {} => Live(o)
    BY <1>1, <2>1 DEF LiveMarked, Live
  <2>3. Something
    BY DEF LInv, Orders
  <2> QED BY <1>0, <2>2, <2>3, HeldByLive
<1>5. LiveMarked' # {} => pc'["loop"] # "unknown"
  <2> SUFFICES ASSUME LiveMarked' # {}, pc'["loop"] = "unknown" PROVE FALSE
    OBVIOUS
  <2>1. t # "loop" /\ pc["loop"] = "unknown"
    BY <1>0, <1>2
  <2>2. truth.bal <= 0
    BY <1>0, <2>1 DEF IInv, NobodySells, Unsure
  <2> QED BY <1>0, <1>4, <2>2 DEF IInv, Balance
<1>6. Remembered' /\ NoneInAttempt' /\ NoNumber' /\ Observer' /\ Again'
  BY <1>0, <1>2, <1>3, <1>5 DEF Remembered, NoneInAttempt, NoNumber, Observer, Again
<1>7. Reviewer'
  <2> SUFFICES ASSUME NEW u \in Threads, pc'[u] = "review", NEW p \in LiveMarked'
               PROVE  run'.exit # None /\ (u # "loop" => Waits(p)')
    BY DEF Reviewer
  <2>1. p = o /\ u # t
    BY <1>1, <1>2
  <2>2. u # "loop" => t = "loop"
    BY <2>1, ThreadsAssumption
  <2> QED BY <1>0, <1>2, <2>1, <2>2 DEF Waits
<1> QED BY <1>6, <1>7 DEF LInv

LEMMA StepLInv == IInv /\ TInv /\ TInv' /\ LInv /\ [Next]_vars => LInv'
<1> SUFFICES ASSUME IInv, TInv, TInv', LInv, [Next]_vars PROVE LInv'
  OBVIOUS
<1>0. /\ Orders /\ Sellers /\ SavedIs /\ Again /\ InOrder /\ Older /\ Something /\ Known
      /\ TypeOK /\ pc \in [Threads -> Steps] /\ me \in [Threads -> Works]
      /\ run \in Runs /\ pos \in Positions /\ "loop" \in Threads
  BY ThreadsAssumption DEF LInv, Orders, TInv, TypeOK, Works
<1>1. Orders' /\ Sellers'
  BY <1>0, StepOrders, StepSellers
<1>2. /\ Kept \/ Written \/ \E s \in Refreshed(FALSE) : Anew(s)
      /\ Looking /\ SavedIs'
  BY <1>0, WhatIsWritten
<1>3. CASE \E t \in Threads : Mark(t)
  BY <1>1, <1>2, <1>3, StepMarkLive
<1>4. CASE ~ \E t \in Threads : Mark(t)
  <2>1. marked' = marked
    BY <1>4, WhatIsMarked
  <2>2. LiveMarked' \subseteq LiveMarked
    BY <1>0, <2>1, OrdersGoOn, LiveStays
  <2>3. Again'
    <3>1. ASSUME pc'["loop"] \in {"pending", "unknown"}, pc["loop"] # pc'["loop"]
          PROVE  run' = run /\ run.status # "FILLED"
      <4>1. ReadPending("loop") \/ ReadUnknown("loop")
        BY <1>0, <3>1, WhoBegins
      <4> QED BY <4>1 DEF ReadPending, ReadUnknown, Reads, book, Selling
    <3>2. ASSUME NEW s, Anew(s) PROVE run'.exit = None /\ pc'["loop"] = "idle"
      BY <1>0, <3>2 DEF Anew, FilledAgain, Done, Runs
    <3>3. ASSUME Kept PROVE Again'
      BY <1>0, <3>1, <3>3 DEF Again, Kept
    <3> QED BY <1>2, <3>2, <3>3 DEF Written, Again
  <2>4. CASE LiveMarked' = {}
    BY <1>1, <1>2, <2>3, <2>4 DEF LInv, Remembered, NoneInAttempt, NoNumber, Observer, Reviewer
  <2>5. CASE LiveMarked' # {}
    <3>0. PICK l \in LiveMarked : l \in LiveMarked'
      BY <2>2, <2>5
    <3>1. l \in Sells /\ Live(l) /\ held > 0
      BY <1>0, <3>0, HeldByLive DEF LiveMarked, TypeOK
    <3>2. \A t \in Threads : pc[t] \notin Attempt
      BY <3>0 DEF LInv, NoneInAttempt
    <3>3. \A s \in Refreshed(TRUE) : ~NothingSeen(s)
      BY <1>0, <3>1, NothingLive
    <3>4. run.exit # None \/ pos.watch
      BY <3>0 DEF LInv, Remembered
    <3>5. ASSUME NEW s, Anew(s)
          PROVE  run'.exit = None /\ run'.status = "FILLED" /\ pos'.watch /\ pc'["loop"] = "idle"
      <4> DEFINE w == pos.watch \/ me["loop"].run.exit # None
      <4>1. pos' = [pos EXCEPT !.closing = FALSE, !.sale = None, !.watch = w]
        BY <3>5 DEF Anew, FilledAgain
      <4>2. w
        BY <3>0, <3>5 DEF LInv, NoNumber, Anew
      <4> HIDE DEF w
      <4>3. pos'.watch
        BY <1>0, <4>1, <4>2 DEF Positions
      <4> QED BY <1>0, <3>5, <4>3 DEF Anew, FilledAgain, Done, Runs
    <3>6. Remembered'
      <4>1. run.exit # None => run'.exit # None \/ pos'.watch
        BY <1>2, <3>5 DEF Kept, Written
      <4>2. pos.watch => run'.exit # None \/ pos'.watch
        BY <1>2, <3>3, <3>5 DEF Looking
      <4> QED BY <3>4, <4>1, <4>2 DEF Remembered
    <3>7. NoneInAttempt'
      <4> SUFFICES ASSUME NEW t \in Threads, pc'[t] \in Attempt PROVE FALSE
        BY DEF NoneInAttempt
      <4>1. ~InFlight(run, pos) /\ pc[t] = "review"
        BY <3>2, WhoBegins
      <4>2. run.exit # None
        BY <3>0, <4>1 DEF LInv, Reviewer
      <4> QED BY <4>1, <4>2 DEF InFlight
    <3>8. NoNumber'
      <4> SUFFICES ASSUME pc'["loop"] = "unknown", me'["loop"].run.exit = None
                   PROVE  pos'.watch /\ \A u \in Threads \ {"loop"} : pc'[u] # "observe"
        BY DEF NoNumber
      <4>1. CASE pc["loop"] = "unknown"
        <5>1. me'["loop"] = me["loop"]
          <6>1. CASE Crash
            BY <1>0, <6>1 DEF Crash
          <6>2. ASSUME NEW t \in Threads, Moved(t) PROVE me'["loop"] = me["loop"]
            BY <1>0, <4>1, <6>2 DEF Moved, AtWork, Before, Attempt
          <6> QED BY <1>0, <6>1, <6>2, WhoMoves
        <5>2. pos.watch /\ \A u \in Threads \ {"loop"} : pc[u] # "observe"
          BY <3>0, <4>1, <5>1 DEF LInv, NoNumber
        <5>3. ~ \E t \in Threads : pc[t] \in {"observe", "reject"}
          <6>1. pc["loop"] \notin {"observe", "reject"}
            BY <4>1
          <6>2. \A t \in Threads : pc[t] # "reject"
            BY <3>2 DEF Attempt
          <6> QED BY <5>2, <6>1, <6>2
        <5>4. pos'.watch
          BY <1>2, <3>3, <3>5, <5>2, <5>3 DEF Looking
        <5>5. ASSUME NEW u \in Threads \ {"loop"}, pc'[u] = "observe" PROVE FALSE
          <6>1. StartSell(u)
            BY <5>2, <5>5, WhoBegins
          <6> QED BY <1>0, <4>1, <6>1 DEF StartSell, IInv, Reconciled
        <5> QED BY <5>4, <5>5
      <4>2. CASE pc["loop"] # "unknown"
        <5>1. ReadUnknown("loop")
          BY <1>0, <4>2, WhoBegins
        <5>2. /\ run.status = "ORDER_UNKNOWN" /\ me'["loop"].run = run /\ pos' = pos
              /\ \A u \in Threads \ {"loop"} : pc'[u] = pc[u]
          BY <1>0, <5>1 DEF ReadUnknown, Reads, book, Works
        <5>3. run.exit = None
          BY <5>2
        <5> QED BY <3>0, <3>4, <5>2, <5>3 DEF LInv, Observer
      <4> QED BY <4>1, <4>2
    <3>9. Observer'
      <4> SUFFICES ASSUME NEW u \in Threads \ {"loop"}, pc'[u] = "observe"
                   PROVE  run'.exit # None \/ run'.status = "FILLED"
        BY DEF Observer
      <4>1. CASE pc[u] = "observe"
        <5>1. run.exit # None \/ run.status = "FILLED"
          BY <3>0, <4>1 DEF LInv, Observer
        <5>2. run.exit # None => run'.exit # None \/ run'.status = "FILLED"
          BY <1>2, <3>5 DEF Kept, Written
        <5>3. run.status = "FILLED" /\ run'.status # "FILLED" => run'.exit # None
          BY <1>0, <3>1, <3>2, <4>1, LeavesFilled
        <5> QED BY <5>1, <5>2, <5>3
      <4>2. CASE pc[u] # "observe"
        <5>1. StartSell(u)
          BY <4>2, WhoBegins
        <5> QED BY <5>1 DEF StartSell, book
      <4> QED BY <4>1, <4>2
    <3>10. Reviewer'
      <4> SUFFICES ASSUME NEW u \in Threads, pc'[u] = "review", NEW o \in LiveMarked'
                   PROVE  run'.exit # None /\ (u # "loop" => Waits(o)')
        BY DEF Reviewer
      <4>1. o \in LiveMarked /\ o \in Sells /\ Live(o) /\ Live(o)'
        BY <1>0, <2>2 DEF LiveMarked, TypeOK
      <4>2. CASE pc[u] = "review"
        <5>1. run.exit # None /\ (u # "loop" => Waits(o))
          BY <4>1, <4>2 DEF LInv, Reviewer
        <5>2. u # "loop" => Waits(o)'
          BY <1>0, <3>1, <4>1, <4>2, <5>1, GoesOnWaiting
        <5>3. run'.exit # None
          <6>1. CASE u # "loop"
            BY <4>1, <5>2, <6>1, SellsAssumption DEF Waits, Sells
          <6>2. CASE u = "loop"
            BY <1>2, <4>2, <5>1, <6>2 DEF Kept, Written, Anew
          <6> QED BY <6>1, <6>2
        <5> QED BY <5>2, <5>3
      <4>3. CASE pc[u] # "review"
        <5>1. StartSell(u)
          BY <3>3, <4>3, WhoBegins
        <5>2. ~InFlight(run, pos) /\ ~pos.watch
          <6>1. pos.watch => pc'[u] = "observe"
            BY <1>0, <5>1 DEF StartSell, Goes
          <6> QED BY <5>1, <6>1 DEF StartSell
        <5> QED BY <3>4, <5>2 DEF InFlight
      <4> QED BY <4>2, <4>3
    <3> QED BY <1>1, <1>2, <2>3, <3>6, <3>7, <3>8, <3>9, <3>10 DEF LInv
  <2> QED BY <2>4, <2>5
<1> QED BY <1>3, <1>4

LEMMA InitLInv == Init => LInv
<1> SUFFICES ASSUME Init PROVE LInv
  OBVIOUS
<1>1. \A o \in Sells : order[o] = NewOrder /\ truth.order[o] = NewOrder
  BY DEF Init
<1>2. Placed = {} /\ InOrder
  <2>1. Placed = {}
    BY <1>1 DEF Placed, NewOrder
  <2>2. Cardinality({}) = 0
    BY FS_EmptySet
  <2> QED BY <2>1, <2>2 DEF InOrder
<1>3. Older /\ Something
  BY <1>1 DEF Older, Something, GoesOnAs, NewOrder, Live
<1>4. marked = {} /\ \A t \in Threads : pc[t] = "idle" /\ me[t].order = None
  BY DEF Init, Nothing
<1>5. Orders
  BY <1>2, <1>3, <1>4 DEF Orders, Known
<1>6. LiveMarked = {}
  BY <1>4 DEF LiveMarked
<1>7. Sellers
  BY <1>4 DEF Sellers, AtWork, Before, Attempt
<1>8. SavedIs /\ Again
  BY <1>4, ThreadsAssumption DEF SavedIs, Again, Init, NewRun
<1> QED BY <1>5, <1>6, <1>7, <1>8
        DEF LInv, Remembered, NoneInAttempt, NoNumber, Observer, Reviewer

LEMMA LiveHolds == Spec => [](hasty \/ LInv)
<1>1. (hasty \/ IInv) /\ TInv /\ TInv' /\ (hasty \/ LInv) /\ [Next]_vars => (hasty \/ LInv)'
  BY StepLInv, HistoryStays
<1> QED BY InitLInv, HoldsUnhurried, TypesHold, <1>1, PTL DEF Spec

\* No order is sent while an earlier sale of the run can still be filled, whatever a restart, the
\* synchronisation, the server errors of the broker or the recovery of an unknown order has erased
\* of it, unless the mark of a sale is cleared while a thread is at it: a thread reaches place_order
\* only from a run in which nothing was in flight, and what makes it so has seen the earlier order
\* dead.
THEOREM OneSaleAtOnce == Spec => []NoSecondAttempt
<1>1. hasty \/ LInv => NoSecondAttempt
  BY DEF LInv, NoneInAttempt, NoSecondAttempt, LiveMarked, Attempt, Sending
<1> QED BY <1>1, LiveHolds, PTL

\* An order that mark_sell_order_sent recorded and that can be filled is never forgotten, unless
\* the mark of a sale is cleared while a thread is at it: the run keeps a number and is not offered
\* for sale again, or the next sale looks at the fills of the day first, whatever writes of the run
\* have crossed.
THEOREM NoSaleForgotten == Spec => []LiveSaleIsWatched
<1>1. hasty \/ LInv => LiveSaleIsWatched
  BY DEF LInv, Remembered, Again, LiveSaleIsWatched, LiveMarked
<1> QED BY <1>1, LiveHolds, PTL

-----------------------------------------------------------------------------
(* A run is closed when its shares are sold. *)

\* The condition of ClosedIsSold, while there are shares.
On == Numbered /\ ~crossed /\ ~astray /\ held > 0

\* Nothing was sold by an order that is gone, and no snapshot shows it open.
Idle(o) == order[o].stage = "dead" /\ order[o].filled = 0
Gone(o) == Idle(o) /\ truth.order[o].stage # "live"

\* What a thread has read, and the order in its hands.
AsRead == \A t \in Threads : /\ pc[t] = "pending" => me[t].run.status \in Selling
                             /\ pc[t] = "unknown" => me[t].run.status = "ORDER_UNKNOWN"

Handed == \A t \in Threads : me[t].order \notin marked

\* Every order is for the whole position, and at most one is filled: what it left is held.
OneFills ==
    /\ \A o \in Placed : order[o].qty = Size
    /\ \A o \in Sells : order[o].filled > 0 => held = Size - order[o].filled
    /\ \A o, p \in Sells : o # p => order[o].filled = 0 \/ order[p].filled = 0
    /\ (\A o \in Sells : order[o].filled = 0) => held = Size

Whole == /\ held = Size => pos.qty = Size
         /\ \A t \in Threads : pc[t] \in AtWork \cup {"zero"} => me[t].qty = Size

\* An order that is not gone has its number in the run, or in the hands of a thread.
Settled == \A o \in Placed : o = run.exit \/ (\E t \in Threads : me[t].order = o) \/ Gone(o)

StillOpen ==
    /\ run.status # "CLOSED" /\ closes = 0
    /\ run.exit # None => run.asked = Size /\ run.exit \in Placed
    /\ run.status \in Selling => run.exit # None
    /\ run.status = "ORDER_UNKNOWN" /\ run.exit # None =>
           Idle(run.exit) \/ truth.order[run.exit].filled > 0

\* Who is in an attempt has the only order that is not gone.
OnlyOwn == \A t \in Threads : pc[t] \in Attempt =>
               \A o \in Placed : o = me[t].order \/ Idle(o)

One == OneFills /\ Whole /\ Settled /\ StillOpen /\ OnlyOwn
ZInv == AsRead /\ (On => Handed /\ One)

Sound == IInv /\ TInv /\ LInv /\ AsRead /\ Handed /\ On /\ One

LEMMA HeldFalls ==
  ASSUME TInv, [Next]_vars
  PROVE  held \in 0 .. Size /\ held' \in Int /\ held' <= held
         /\ (held' = held \/ \E o \in Sells, n \in 1 .. Size : Fill(o, n))
<1>0. held \in 0 .. Size
  BY DEF TInv, TypeOK
<1>1. CASE \E o \in Sells, n \in 1 .. Size : Fill(o, n)
  <2>1. PICK o \in Sells, n \in 1 .. Size : Fill(o, n)
    BY <1>1
  <2>2. held' = held - n
    BY <2>1 DEF Fill
  <2> QED BY <1>0, <1>1, <2>2, SizeAssumption
<1>2. ASSUME ~ \E o \in Sells, n \in 1 .. Size : Fill(o, n) PROVE held' = held
  <2>1. CASE Outside \/ LockExpires \/ (\E b \in Balances : Sync(b)) \/ Crash \/ UNCHANGED vars
    BY <1>2, <2>1 DEF Outside, Cancel, UserSells, LockExpires, Sync, Crash, vars, broker
  <2>2. ASSUME NEW t \in Threads, Read(t) \/ Reconcile(t) \/ Clear(t) PROVE held' = held
    BY <2>2 DEF Read, ReadPending, ReadFilled, ReadUnknown, ReadStale, Reads, Reconcile, Pending, Filled,
                Unknown, Clear, ClearStale, KeepStale, broker
  <2>3. ASSUME NEW t \in Threads, Sell(t) PROVE held' = held
    BY <2>3 DEF Sell, StartSell, Observe, Rejected, Zero, ReviewHolds, ReviewSells, Precheck,
                PrecheckFails, PlaceAccepted, ServerError, Found, PlaceUnknown, PlaceRejected,
                PlaceFails, Mark, broker
  <2> QED BY <2>1, <2>2, <2>3 DEF Next
<1> QED BY <1>0, <1>1, <1>2, SizeAssumption

\* What has no number, has crossed or is astray, stays so.
LEMMA OnBack ==
  ASSUME IInv, TInv, LInv, [Next]_vars, TInv', On'
  PROVE  On
<1>0. /\ TypeOK /\ InOrder /\ Known /\ crossed \in BOOLEAN /\ me \in [Threads -> Works]
      /\ None \notin Sells /\ Placed \subseteq Sells
  BY SellsAssumption DEF TInv, TypeOK, LInv, Orders, Works, Sells, Placed
<1>1. ~crossed /\ ~astray /\ held > 0
  <2>1. held \in Int
    BY <1>0 DEF TypeOK
  <2>2. held > 0
    BY <2>1, HeldFalls DEF On
  <2> QED BY <2>2, HistoryStays DEF On
<1>2. Numbered
  <2> SUFFICES ASSUME NEW o \in Placed PROVE o \in marked \/ \E t \in Threads : me[t].order = o
    BY DEF Numbered
  <2>1. o \in Placed'
    BY <1>0, OrdersGoOn DEF LInv, Orders
  <2>2. CASE o \in marked'
    <3>1. ASSUME NEW t \in Threads, Mark(t) PROVE marked' = marked \cup {me[t].order}
      BY <3>1 DEF Mark
    <3> QED BY <2>2, <3>1, WhatIsMarked
  <2>3. ASSUME NEW t \in Threads, me'[t].order = o PROVE me[t].order = o
    <3>0. Nothing.order = None /\ o # None
      BY <1>0 DEF Nothing
    <3>1. CASE UNCHANGED <<pc, me>>
      BY <2>3, <3>1
    <3>2. CASE Crash
      BY <2>3, <3>0, <3>2 DEF Crash
    <3>3. ASSUME NEW u \in Threads, Moved(u) PROVE me[t].order = o
      <4>1. CASE u # t
        BY <2>3, <3>3, <4>1 DEF Moved
      <4>2. CASE u = t
        <5>1. ASSUME NEW p \in Sells, Takes(t, p), me'[t].order = p PROVE me[t].order = o
          <6>1. CASE Found(t, p)
            BY <2>3, <5>1, <6>1 DEF Found, On
          <6>2. CASE ~Found(t, p)
            <7>1. order[p].stage = "new"
              BY <1>0, <5>1, <6>2, NextIsNew DEF Takes
            <7> QED BY <2>3, <5>1, <7>1 DEF Placed
          <6> QED BY <6>1, <6>2
        <5> QED BY <2>3, <3>0, <3>3, <4>2, <5>1 DEF Moved
      <4> QED BY <4>1, <4>2
    <3> QED BY <1>0, <3>1, <3>2, <3>3, WhoMoves
  <2> QED BY <2>1, <2>2, <2>3 DEF On, Numbered
<1> QED BY <1>1, <1>2 DEF On

\* Two orders that can both be filled, or were, are one too many.
LEMMA TwoOpen ==
  ASSUME TInv, Something, OneFills, NEW o \in Sells, NEW p \in Sells, o # p,
         Live(o), order[p].filled > 0
  PROVE  FALSE
<1>1. order[o].filled = 0 /\ held = Size - order[p].filled /\ order[o].qty = Size
      /\ order[p].filled \in Nat
  BY SizeAssumption DEF OneFills, Live, Placed, TInv, TypeOK, SellOrders
<1>2. Left(o) = Size
  BY <1>1, SizeAssumption DEF Left
<1>3. Available \in Int /\ Available + Left(o) <= held /\ Available >= 0
  BY AvailableType DEF TInv
<1> QED BY <1>1, <1>2, <1>3, SizeAssumption

\* What is gone stays gone.
LEMMA GoneStays ==
  ASSUME TInv, LInv, [Next]_vars, TInv', NEW o \in Sells
  PROVE  (Idle(o) => Idle(o)') /\ (Gone(o) => Gone(o)')
         /\ (truth.order[o].filled > 0 => truth'.order[o].filled > 0)
<1>1. Idle(o) => order'[o] = order[o]
  <2>1. GoesOnAs(order[o], order'[o])
    BY OrdersGoOn DEF LInv, Orders
  <2> QED BY <2>1 DEF GoesOnAs, Idle
<1>2. truth'.order \in {truth.order, order}
  <2>1. [truth EXCEPT !.ok = FALSE].order = truth.order
    BY DEF TInv, TypeOK, Snapshots
  <2> QED BY <2>1, WhatIsSeen, SnapshotType DEF TInv
<1>3. truth.order[o].filled > 0 => truth'.order[o].filled > 0
  <2>1. truth.order[o].filled <= order[o].filled
    BY DEF LInv, Orders, Older, GoesOnAs
  <2>2. truth.order[o].filled \in Int /\ order[o].filled \in Int
    BY SizeAssumption DEF TInv, TypeOK, Snapshots, SellOrders
  <2> QED BY <1>2, <2>1, <2>2
<1> QED BY <1>1, <1>2, <1>3 DEF Idle, Gone

LEMMA FillOne ==
  ASSUME Sound, TInv', NEW o \in Sells, NEW n \in 1 .. Size, Fill(o, n), [Next]_vars
  PROVE  One'
<1> USE DEF Sound
<1>0. /\ TypeOK /\ NoneOversold /\ Something /\ Placed \subseteq Sells
      /\ UNCHANGED <<run, closes, pos, truth, pc, me>>
      /\ \A p \in Sells : order[p].filled \in Nat
  <2>1. TypeOK /\ NoneOversold /\ Something /\ Placed \subseteq Sells
    BY DEF TInv, LInv, Orders, Placed
  <2>2. \A p \in Sells : order[p].filled \in Nat
    BY <2>1, SizeAssumption DEF TypeOK, SellOrders
  <2> QED BY <2>1, <2>2 DEF Fill, book, threads
<1>1. /\ \A p \in Sells \ {o} : order'[p] = order[p]
      /\ order[o].stage = "live" /\ order'[o].stage \in {"live", "dead"}
      /\ order'[o].filled = order[o].filled + n
      /\ order'[o].qty = order[o].qty /\ held' = held - n /\ held \in 0 .. Size
  BY <1>0, FillFields
<1>2. Placed' = Placed /\ o \in Placed /\ ~Idle(o) /\ ~Gone(o)
  BY <1>1 DEF Placed, Idle, Gone
<1>3. \A p \in Sells \ {o} : order[p].filled = 0
  <2> SUFFICES ASSUME NEW p \in Sells \ {o}, order[p].filled > 0 PROVE FALSE
    BY <1>0
  <2> QED BY <1>0, <1>1, TwoOpen DEF One, Live
<1>4. held = Size - order[o].filled
  <2>1. CASE order[o].filled > 0
    BY <2>1 DEF One, OneFills
  <2>2. CASE order[o].filled = 0
    <3>1. held = Size
      BY <1>3, <2>2 DEF One, OneFills
    <3> QED BY <2>2, <3>1, SizeAssumption
  <2> QED BY <1>0, <2>1, <2>2
<1>5. order[o].filled \in Nat /\ n \in Nat /\ n > 0 /\ Size \in Nat /\ held' # Size
      /\ held' = Size - order'[o].filled /\ order'[o].filled > 0
  BY <1>0, <1>1, <1>4, SizeAssumption
<1>6. OneFills'
  <2>1. \A p \in Placed' : order'[p].qty = Size
    BY <1>0, <1>1, <1>2 DEF One, OneFills
  <2>2. \A p \in Sells : order'[p].filled > 0 => p = o
    BY <1>1, <1>3
  <2>3. \A p, q \in Sells : p # q => order'[p].filled = 0 \/ order'[q].filled = 0
    BY <1>1, <1>3
  <2> QED BY <1>5, <2>1, <2>2, <2>3 DEF OneFills
<1>7. Whole'
  BY <1>0, <1>5 DEF One, Whole
<1>8. Settled' /\ OnlyOwn'
  BY <1>0, <1>1, <1>2 DEF One, Settled, OnlyOwn, Idle, Gone
<1>9. StillOpen'
  BY <1>0, <1>1, <1>2 DEF One, StillOpen, Idle
<1> QED BY <1>6, <1>7, <1>8, <1>9 DEF One

LEMMA CancelOne ==
  ASSUME Sound, TInv', NEW o \in Sells, Cancel(o), [Next]_vars
  PROVE  One'
<1> USE DEF Sound
<1>0. /\ TypeOK /\ Placed \subseteq Sells /\ UNCHANGED <<held, run, closes, pos, truth, pc, me>>
  BY DEF TInv, Cancel, book, threads, Placed
<1>1. /\ \A p \in Sells \ {o} : order'[p] = order[p]
      /\ order[o].stage = "live" /\ order'[o].stage = "dead"
      /\ order'[o].qty = order[o].qty /\ order'[o].filled = order[o].filled
  BY <1>0, CancelFields
<1>2. Placed' = Placed /\ o \in Placed /\ ~Idle(o)
  BY <1>1 DEF Placed, Idle
<1>3. \A p \in Sells : order'[p].filled = order[p].filled /\ order'[p].qty = order[p].qty
  BY <1>1
<1>4. OneFills'
  <2>1. \A p \in Placed' : order'[p].qty = Size
    BY <1>0, <1>2, <1>3 DEF One, OneFills
  <2>2. \A p \in Sells : order'[p].filled > 0 => held' = Size - order'[p].filled
    BY <1>0, <1>3 DEF One, OneFills
  <2>3. \A p, q \in Sells : p # q => order'[p].filled = 0 \/ order'[q].filled = 0
    BY <1>3 DEF One, OneFills
  <2>4. (\A p \in Sells : order'[p].filled = 0) => held' = Size
    BY <1>0, <1>3 DEF One, OneFills
  <2> QED BY <2>1, <2>2, <2>3, <2>4 DEF OneFills
<1>5. \A p \in Sells : (Idle(p) => Idle(p)') /\ (Gone(p) => Gone(p)')
  BY GoneStays
<1>6. Whole'
  BY <1>0 DEF One, Whole
<1>7. Settled' /\ OnlyOwn'
  BY <1>0, <1>2, <1>5 DEF One, Settled, OnlyOwn
<1>8. StillOpen'
  BY <1>0, <1>2, <1>5 DEF One, StillOpen
<1> QED BY <1>4, <1>6, <1>7, <1>8 DEF One

\* An order that has no number is not On.
LEMMA Unnumbered ==
  ASSUME TypeOK, InOrder, Known, NEW o \in Sells, IsNext(o), order'[o].stage = "live", marked' = marked,
         \A t \in Threads : me'[t].order \in {me[t].order, None}
  PROVE  ~On'
<1>1. o \in Placed' /\ o \notin Placed
  BY NextIsNew DEF Placed
<1>2. o # None
  BY SellsAssumption DEF Sells
<1>3. \A t \in Threads : me'[t].order # o
  BY <1>1, <1>2 DEF Known
<1> QED BY <1>1, <1>3 DEF On, Numbered, Known

\* A thread that lets go of an order it has placed leaves it without a number.
LEMMA Dropped ==
  ASSUME Sound, [Next]_vars, On', NEW t \in Threads, marked' = marked, me'[t].order # me[t].order,
         \A u \in Threads \ {t} : me'[u].order = me[u].order
  PROVE  me[t].order = None
<1> USE DEF Sound
<1> DEFINE o == me[t].order
<1> SUFFICES ASSUME o # None PROVE FALSE
  OBVIOUS
<1>1. o \in Placed /\ o \notin marked /\ pc[t] \in Attempt
  BY DEF LInv, Orders, Known, Handed, Attempt
<1>2. o \in Placed'
  BY <1>1, OrdersGoOn DEF LInv, Orders
<1>3. PICK u \in Threads : me'[u].order = o
  BY <1>1, <1>2 DEF On, Numbered
<1>4. u # t /\ me[u].order = o
  BY <1>3
<1>5. pc[u] \in Attempt
  BY <1>4 DEF LInv, Orders, Known, Attempt
<1> QED BY <1>1, <1>4, <1>5 DEF IInv, Barred

LEMMA PlacedOne ==
  ASSUME Sound, TInv', NEW t \in Threads, NEW o \in Sells, [Next]_vars,
         pc[t] \in Sending, me[t].order = None, IsNext(o), Accepted(o, me[t].qty, FALSE),
         NEW step \in {"truth", "mark"}, Goes(t, step), me' = [me EXCEPT ![t].order = o],
         UNCHANGED <<held, book, truth>>
  PROVE  One'
<1> USE DEF Sound
<1> DEFINE q == me[t].qty
<1>0. /\ TypeOK /\ InOrder /\ Placed \subseteq Sells /\ UNCHANGED <<held, run, closes, pos, truth>>
      /\ IsNext(o) /\ Accepted(o, q, FALSE) /\ FALSE \in BOOLEAN
      /\ pc \in [Threads -> Steps] /\ me \in [Threads -> Works] /\ q \in 0 .. Size
      /\ pc[t] \in Attempt /\ None \notin Sells
  BY SellsAssumption DEF TInv, TypeOK, Sending, book, Placed, LInv, Orders, Works, Attempt, Sells
<1>1. q = Size
  BY <1>0 DEF One, Whole, AtWork, Attempt
<1>2. /\ \A p \in Sells \ {o} : order'[p] = order[p]
      /\ order'[o].stage = "live" /\ order'[o].qty = Size /\ order'[o].filled = 0
      /\ order[o].stage = "new" /\ order[o].filled = 0
  <2> HIDE DEF q
  <2>1. order[o].stage = "new"
    BY <1>0, NextIsNew
  <2>2. order[o].filled = 0
    BY <2>1 DEF LInv, Orders, Something
  <2> QED BY <1>0, <1>1, <2>1, <2>2, AcceptedFields
<1>3. Placed' = Placed \cup {o} /\ o \notin Placed
  BY <1>2 DEF Placed
<1>4. /\ pc'[t] = step /\ me'[t].order = o /\ me'[t].qty = me[t].qty
      /\ \A u \in Threads \ {t} : pc'[u] = pc[u] /\ me'[u] = me[u]
  <2>1. /\ me' = [me EXCEPT ![t] = [me[t] EXCEPT !.order = o]]
        /\ pc' = [pc EXCEPT ![t] = step]
    BY <1>0 DEF Goes
  <2> QED BY <1>0, <2>1 DEF Works
<1>5. OneFills'
  <2>1. \A p \in Placed' : order'[p].qty = Size
    BY <1>0, <1>2, <1>3 DEF One, OneFills
  <2>2. \A p \in Sells : order'[p].filled = order[p].filled
    BY <1>2
  <2>3. \A p \in Sells : order'[p].filled > 0 => held' = Size - order'[p].filled
    BY <1>0, <2>2 DEF One, OneFills
  <2>4. \A p, r \in Sells : p # r => order'[p].filled = 0 \/ order'[r].filled = 0
    BY <2>2 DEF One, OneFills
  <2>5. (\A p \in Sells : order'[p].filled = 0) => held' = Size
    BY <1>0, <2>2 DEF One, OneFills
  <2> QED BY <2>1, <2>3, <2>4, <2>5 DEF OneFills
<1>6. Whole'
  BY <1>0, <1>1, <1>4 DEF One, Whole, AtWork, Attempt
<1>7. \A p \in Placed : (Idle(p) => Idle(p)') /\ (Gone(p) => Gone(p)')
  BY <1>0, GoneStays
<1>9. Settled'
  BY <1>0, <1>3, <1>4, <1>7 DEF One, Settled
<1>10. OnlyOwn'
  <2>1. \A u \in Threads \ {t} : pc'[u] \notin Attempt
    BY <1>0, <1>4 DEF IInv, Barred
  <2> QED BY <1>0, <1>3, <1>4, <1>7, <2>1 DEF One, OnlyOwn
<1>11. StillOpen'
  BY <1>0, <1>3, <1>7 DEF One, StillOpen
<1> QED BY <1>5, <1>6, <1>9, <1>10, <1>11 DEF One

LEMMA MarkedOne ==
  ASSUME Sound, TInv', NEW t \in Threads, Mark(t), On', [Next]_vars
  PROVE  One'
<1> USE DEF Sound
<1> DEFINE o == me[t].order
<1>0. /\ pc[t] = "mark" /\ pc[t] \in Attempt /\ pc[t] \in AtWork /\ o \in Sells /\ o # None
      /\ pc \in [Threads -> Steps] /\ me \in [Threads -> Works] /\ run \in Runs /\ pos \in Positions
      /\ Placed \subseteq Sells /\ UNCHANGED <<held, order, truth, closes>> /\ crossed \in BOOLEAN
      /\ None \notin Sells
  BY SellsAssumption DEF Mark, Attempt, AtWork, IInv, Numbers, Sells, TInv, TypeOK, Works, Placed, broker
<1>1. me[t].qty = Size
  BY <1>0 DEF One, Whole
<1>2. /\ run'.exit = o /\ run'.status = "SELL_SENT" /\ run'.asked = Size
      /\ pc'[t] = "idle" /\ me'[t] = Nothing
      /\ \A u \in Threads : u # t => pc'[u] = pc[u] /\ me'[u] = me[u]
      /\ pos'.qty = pos.qty
  <2>1. run' = [run EXCEPT !.status = "SELL_SENT", !.exit = o, !.asked = me[t].qty, !.sent = TRUE]
        /\ pos' = [pos EXCEPT !.sale = o]
    BY DEF Mark
  <2>2. run'.exit = o /\ run'.status = "SELL_SENT" /\ run'.asked = me[t].qty /\ pos'.qty = pos.qty
    <3> HIDE DEF o
    <3> QED BY <1>0, <2>1 DEF Runs, Positions
  <2> QED BY <1>0, <1>1, <2>2 DEF Mark, Done
<1>3. \A u \in Threads : u # t => pc[u] \notin Attempt /\ me[u].order = None
  BY <1>0 DEF IInv, Barred, LInv, Orders, Known, Attempt
<1>4. run.exit = None
  <2>1. run.status = "FILLED"
    BY <1>0 DEF Mark, On
  <2> QED BY <2>1 DEF LInv, Again
<1>5. Placed' = Placed /\ o \in Placed
  BY <1>0 DEF Placed, LInv, Orders, Known
<1>6. \A p \in Sells : (Idle(p) => Idle(p)') /\ (Gone(p) => Gone(p)')
  BY GoneStays
<1>7. OneFills'
  BY <1>0, <1>5 DEF One, OneFills
<1>8. Whole'
  BY <1>0, <1>2 DEF One, Whole, AtWork, Before, Attempt
<1>9. Settled'
  <2> SUFFICES ASSUME NEW p \in Placed, p # o PROVE Gone(p)'
    BY <1>2, <1>5 DEF Settled
  <2>1. Gone(p)
    BY <1>0, <1>3, <1>4 DEF One, Settled
  <2> QED BY <1>0, <1>6, <2>1
<1>10. OnlyOwn'
  BY <1>0, <1>2, <1>3 DEF OnlyOwn, Attempt
<1>11. StillOpen'
  BY <1>0, <1>2, <1>5 DEF One, StillOpen
<1> QED BY <1>7, <1>8, <1>9, <1>10, <1>11 DEF One

LEMMA FrameOne ==
  ASSUME Sound, TInv', [Next]_vars, order' = order, held' = held,
         run'.exit = run.exit, run'.asked = run.asked, run'.status # "CLOSED", closes' = closes,
         run'.status \in Selling => run.status \in Selling \/ run.exit # None,
         run'.status = "ORDER_UNKNOWN" /\ run.exit # None =>
             run.status = "ORDER_UNKNOWN" \/ Idle(run.exit) \/ truth'.order[run.exit].filled > 0,
         held = Size => pos'.qty = Size,
         \A t \in Threads : pc'[t] \in AtWork \cup {"zero"} => me'[t].qty = Size,
         \A t \in Threads : me'[t].order = me[t].order,
         \A t \in Threads : pc'[t] \in Attempt => pc[t] \in Attempt \/ \A o \in Placed : Idle(o)
  PROVE  One'
<1> USE DEF Sound
<1>1. Placed' = Placed /\ Placed \subseteq Sells
  BY DEF Placed
<1>2. \A o \in Placed : (Idle(o) => Idle(o)') /\ (Gone(o) => Gone(o)')
                       /\ (truth.order[o].filled > 0 => truth'.order[o].filled > 0)
  BY <1>1, GoneStays
<1>3. OneFills'
  BY <1>1 DEF One, OneFills
<1>4. Whole'
  BY DEF Whole
<1>5. Settled' /\ OnlyOwn'
  BY <1>1, <1>2 DEF One, Settled, OnlyOwn
<1>6. StillOpen'
  <2>1. run.exit # None => run.exit \in Placed /\ run.asked = Size
    BY DEF One, StillOpen
  <2>2. run.status \in Selling => run.exit # None
    BY DEF One, StillOpen
  <2>3. run.status = "ORDER_UNKNOWN" /\ run.exit # None =>
            Idle(run.exit) \/ truth.order[run.exit].filled > 0
    BY DEF One, StillOpen
  <2>4. closes' = 0
    BY DEF One, StillOpen
  <2> QED BY <1>1, <1>2, <2>1, <2>2, <2>3, <2>4 DEF StillOpen
<1> QED BY <1>3, <1>4, <1>5, <1>6 DEF One

\* A thread that has nothing in its hands drops nothing.
LEMMA HandsDone ==
  ASSUME TypeOK, Known, NEW t \in Threads, pc[t] \notin {"truth", "mark"} \/ me[t].order = None, Done(t)
  PROVE  \A u \in Threads : me'[u].order = me[u].order
<1>1. me[t].order = None /\ Nothing.order = None
  BY DEF Known, Nothing
<1> QED BY <1>1 DEF Done, TypeOK

\* Where nothing is in flight, every order is gone and the position is whole.
LEMMA NoneOpen ==
  ASSUME Sound, NEW t \in Threads, ~InFlight(run, pos),
         pc[t] \in Before \/ (pc[t] = "idle" /\ run.status = "FILLED" /\ ~run.stuck)
  PROVE  (\A o \in Placed : Gone(o)) /\ held = Size /\ pos.qty = Size
<1> USE DEF Sound
<1>0. Placed \subseteq Sells /\ None \notin Sells /\ run.exit = None
  BY SellsAssumption DEF Placed, Sells, InFlight
<1>1. ASSUME NEW u \in Threads, me[u].order # None PROVE FALSE
  <2>1. pc[u] \in {"truth", "mark"} /\ pc[u] \in Attempt
    BY <1>1 DEF LInv, Orders, Known, Attempt
  <2>2. u # t
    BY <2>1 DEF Before
  <2>3. CASE pc[t] \in Before
    BY <2>1, <2>2, <2>3 DEF IInv, Barred, InFlight
  <2>4. CASE run.status = "FILLED" /\ ~run.stuck
    BY <2>1, <2>2, <2>4 DEF IInv, Barred
  <2> QED BY <2>3, <2>4
<1>2. \A o \in Placed : Gone(o)
  BY <1>0, <1>1 DEF One, Settled
<1>3. \A o \in Sells : order[o].filled = 0
  BY <1>2 DEF Gone, Idle, Placed, LInv, Orders, Something
<1> QED BY <1>2, <1>3 DEF One, OneFills, Whole

\* A thread at work sells the whole position, and begins when no order is open.
LEMMA ThreadsOne ==
  ASSUME Sound, [Next]_vars
  PROVE  /\ \A t \in Threads : pc'[t] \in AtWork \cup {"zero"} => me'[t].qty = Size
         /\ \A t \in Threads : pc'[t] \in Attempt => pc[t] \in Attempt \/ \A o \in Placed : Idle(o)
<1> USE DEF Sound
<1>0. TypeOK /\ \A t \in Threads : pc[t] \in AtWork \cup {"zero"} => me[t].qty = Size
  BY DEF TInv, One, Whole
<1>1. ASSUME NEW t \in Threads, pc'[t] \in AtWork \cup {"zero"} PROVE me'[t].qty = Size
  <2>1. CASE UNCHANGED <<pc, me>>
    BY <1>0, <1>1, <2>1
  <2>2. CASE Crash
    BY <1>1, <2>2 DEF Crash, AtWork, Before, Attempt
  <2>3. ASSUME NEW u \in Threads, Moved(u) PROVE me'[t].qty = Size
    <3>1. CASE u # t
      BY <1>0, <1>1, <2>3, <3>1 DEF Moved
    <3>2. CASE StartSell(t) /\ me'[t].qty = pos.qty
      <4>1. pc[t] = "idle" /\ run.status = "FILLED" /\ ~run.stuck /\ ~InFlight(run, pos)
        BY <3>2 DEF StartSell, Untrusted
      <4> QED BY <3>2, <4>1, NoneOpen
    <3>3. CASE u = t /\ ~StartSell(t)
      BY <1>0, <1>1, <2>3, <3>3 DEF Moved, AtWork, Before, Attempt, Sending
    <3>4. CASE u = t /\ StartSell(t) /\ me'[t].qty # pos.qty
      BY <1>0, <1>1, <2>3, <3>4 DEF StartSell, AtWork, Before, Attempt, TypeOK, Goes, Nothing
    <3> QED BY <3>1, <3>2, <3>3, <3>4
  <2> QED BY <1>0, <2>1, <2>2, <2>3, WhoMoves
<1>2. ASSUME NEW t \in Threads, pc'[t] \in Attempt, pc[t] \notin Attempt PROVE \A o \in Placed : Idle(o)
  <2>1. ~InFlight(run, pos) /\ pc[t] \in Before
    BY <1>2, WhoBegins DEF Before
  <2> QED BY <2>1, NoneOpen DEF Gone
<1> QED BY <1>1, <1>2

\* No snapshot shows an order that is gone filled, or open.
LEMMA GoneUnsold ==
  ASSUME Sound, NEW b, NEW s \in Refreshed(b), NEW o \in Sells, o \in Placed => Gone(o)
  PROVE  s.order[o].filled = 0 /\ s.order[o].stage # "live"
<1> USE DEF Sound
<1>1. s.order \in {order, truth.order} /\ s.order[o].filled \in Nat /\ TypeOK
  BY SnapshotType DEF TInv
<1>2. order[o].filled = 0 /\ order[o].stage # "live"
  BY DEF Placed, Gone, Idle, LInv, Orders, Something
<1>3. truth.order[o].stage # "live"
  BY <1>2 DEF Placed, Gone, LInv, Orders, Older, GoesOnAs
<1>4. truth.order[o].filled <= order[o].filled
  BY DEF LInv, Orders, Older, GoesOnAs
<1> QED BY <1>1, <1>2, <1>3, <1>4

\* What a snapshot shows filled is filled; what was seen filled stays so.
LEMMA FilledSeen ==
  ASSUME Sound, NEW b, NEW s \in Refreshed(b), NEW o \in Sells
  PROVE  /\ s.order[o].filled <= order[o].filled /\ order[o].filled \in Nat
         /\ s.order[o].filled \in Nat /\ truth.order[o].filled <= s.order[o].filled
         /\ s.order[o].stage = "dead" => order[o] = s.order[o]
         /\ s.order[o].stage \in {"new", "live", "dead"}
<1> USE DEF Sound
<1>1. s.order \in {order, truth.order} /\ s.order[o].filled \in Nat /\ s \in Snapshots
  BY SnapshotType DEF TInv
<1>2. order[o].filled \in Nat /\ truth.order[o].filled \in Nat
  BY SizeAssumption DEF TInv, TypeOK, Snapshots, SellOrders
<1>3. truth.order[o].filled <= order[o].filled /\ (truth.order[o].stage = "dead" => order[o] = truth.order[o])
  BY DEF LInv, Orders, Older, GoesOnAs
<1>4. s.order[o].stage \in {"new", "live", "dead"}
  BY <1>1 DEF Snapshots, SellOrders
<1> QED BY <1>1, <1>2, <1>3, <1>4

\* Fills that are counted are fills of an order, and what they left is held.
LEMMA SoldSeen ==
  ASSUME Sound, NEW b, NEW s \in Refreshed(b), NEW r \in Runs
  PROVE  /\ PartSold(r, s) > 0 => held # Size
         /\ Sold(s, r.exit) \in Nat
         /\ r.exit # None => Sold(s, r.exit) = s.order[r.exit].filled
<1> USE DEF Sound
<1>1. r.exit \in Sells \cup {None} /\ \A o \in Sells : s.order[o].filled \in Nat
  BY FilledSeen DEF Runs
<1>2. Sold(s, r.exit) \in Nat /\ (r.exit # None => Sold(s, r.exit) = s.order[r.exit].filled)
  BY <1>1, SoldIs
<1>3. ASSUME PartSold(r, s) > 0 PROVE held # Size
  <2>1. Sold(s, r.exit) # 0
    BY <1>3 DEF PartSold
  <2>2. WithFills(s, r.exit) # {}
    BY <2>1, NoneSold
  <2>3. PICK o \in Sells : s.order[o].filled > 0
    BY <1>1, <2>2 DEF WithFills, Of
  <2>4. order[o].filled > 0 /\ order[o].filled \in Nat
    BY <2>3, FilledSeen
  <2>5. held = Size - order[o].filled
    BY <2>4 DEF One, OneFills
  <2> QED BY <2>4, <2>5, SizeAssumption
<1> QED BY <1>2, <1>3

\* While shares are held, nothing proves the run sold.
LEMMA NoEvidence ==
  ASSUME Sound, NEW b, NEW s \in Refreshed(b), run.exit # None \/ \A o \in Placed : Gone(o)
  PROVE  Evidence(run, s) = {}
<1> USE DEF Sound
<1>0. /\ run \in Runs /\ run.asked \in 0 .. Size /\ run.exit \in Sells \cup {None} /\ None \notin Sells
      /\ held \in 0 .. Size /\ s.bal # 0
  <2>1. held \in 0 .. Size /\ held > 0
    BY DEF TInv, TypeOK, On
  <2>2. held <= s.bal /\ s.bal \in Int
    BY RefreshedIsSeen DEF Seen
  <2> QED BY <2>1, <2>2, SellsAssumption, SizeAssumption DEF TInv, TypeOK, Runs, Sells
<1>1. ~(Asked(run) > 0 /\ Sold(s, run.exit) >= Asked(run))
  <2>1. CASE run.exit # None
    <3>1. run.asked = Size /\ Asked(run) = Size
      BY <2>1, SizeAssumption DEF One, StillOpen, Asked
    <3>2. Sold(s, run.exit) = s.order[run.exit].filled
      BY <1>0, <2>1, SoldSeen
    <3>3. /\ s.order[run.exit].filled <= order[run.exit].filled /\ order[run.exit].filled \in Nat
          /\ s.order[run.exit].filled \in Nat
      BY <1>0, <2>1, FilledSeen
    <3>4. order[run.exit].filled > 0 => held = Size - order[run.exit].filled
      BY <1>0, <2>1 DEF One, OneFills
    <3>5. held > 0
      BY DEF On
    <3> QED BY <1>0, <3>1, <3>2, <3>3, <3>4, <3>5, SizeAssumption
  <2>2. CASE run.exit = None
    <3>1. \A o \in Sells : s.order[o].filled = 0
      BY <2>2, GoneUnsold
    <3>2. WithFills(s, run.exit) = {}
      BY <1>0, <3>1 DEF WithFills, Of
    <3>3. Sold(s, run.exit) = 0
      BY <3>2, NoneSold
    <3>4. Asked(run) \in Int
      BY <1>0, AskedType, SizeAssumption DEF TInv
    <3> QED BY <3>3, <3>4
  <2> QED BY <2>1, <2>2
<1> QED BY <1>0, <1>1 DEF Evidence

\* While the recovery of an unknown order is on its way, nobody has an order in hand.
LEMMA UnknownGone ==
  ASSUME Sound, pc["loop"] = "unknown"
  PROVE  /\ run.exit = None => \A o \in Placed : Gone(o)
         /\ \A u \in Threads : pc[u] \notin Attempt
<1> USE DEF Sound
<1>0. "loop" \in Threads /\ Placed \subseteq Sells /\ None \notin Sells
  BY ThreadsAssumption, SellsAssumption DEF Placed, Sells
<1>1. ~(truth.bal <= 0)
  <2>1. held > 0 /\ held \in Int /\ truth.bal \in Int /\ held <= truth.bal
    BY DEF On, IInv, Balance
  <2> QED BY <2>1
<1>2. \A u \in Threads : pc[u] \notin Attempt
  <2>1. Unsure
    BY <1>0 DEF Unsure
  <2> QED BY <1>0, <1>1, <2>1 DEF IInv, NobodySells, Attempt
<1>3. \A u \in Threads : me[u].order = None
  BY <1>2 DEF LInv, Orders, Known, Attempt
<1> QED BY <1>0, <1>2, <1>3 DEF One, Settled

\* At most one order is not gone.
LEMMA OthersIdle ==
  ASSUME Sound, NEW o \in Placed, ~Idle(o), NEW p \in Placed, p # o
  PROVE  Idle(p)
<1> USE DEF Sound
<1>1. ASSUME NEW t \in Threads, NEW q \in Placed, me[t].order = q
      PROVE  \A r \in Placed : r = q \/ Idle(r)
  <2>1. q # None
    BY SellsAssumption DEF Placed, Sells
  <2>2. pc[t] \in Attempt
    BY <1>1, <2>1 DEF LInv, Orders, Known, Attempt
  <2> QED BY <1>1, <2>2 DEF One, OnlyOwn
<1> QED BY <1>1 DEF One, Settled, Gone

\* The run takes another order for its own: the one that is not gone.
LEMMA TakesExit ==
  ASSUME Sound, TInv', [Next]_vars, order' = order, held' = held, truth'.order = order,
         NEW o \in Placed, ~Idle(o),
         run'.exit = o, run'.asked = Size, run'.status \in Selling, closes' = closes,
         held = Size => pos'.qty = Size,
         \A t \in Threads : me'[t].order = me[t].order
  PROVE  One'
<1> USE DEF Sound
<1>1. Placed' = Placed /\ Placed \subseteq Sells
  BY DEF Placed
<1>2. \A p \in Sells : Idle(p) => Idle(p)'
  BY GoneStays
<1>3. OneFills'
  BY <1>1 DEF One, OneFills
<1>4. Whole'
  BY ThreadsOne DEF Whole
<1>5. Settled'
  <2> SUFFICES ASSUME NEW p \in Placed, p # o PROVE Gone(p)'
    BY <1>1 DEF Settled
  <2>1. Idle(p)
    BY OthersIdle
  <2> QED BY <1>1, <1>2, <2>1 DEF Idle, Gone
<1>6. OnlyOwn'
  <2> SUFFICES ASSUME NEW t \in Threads, pc'[t] \in Attempt, NEW p \in Placed
               PROVE  p = me'[t].order \/ Idle(p)'
    BY <1>1 DEF OnlyOwn
  <2>1. pc[t] \in Attempt
    BY ThreadsOne
  <2>2. p = me[t].order \/ Idle(p)
    BY <2>1 DEF One, OnlyOwn
  <2> QED BY <1>1, <1>2, <2>2
<1>7. StillOpen'
  <2>1. run'.status # "CLOSED" /\ run'.status # "ORDER_UNKNOWN"
    BY DEF Selling
  <2>2. closes' = 0 /\ o # None
    BY <1>1, SellsAssumption DEF One, StillOpen, Sells
  <2> QED BY <1>1, <2>1, <2>2 DEF StillOpen
<1> QED BY <1>3, <1>4, <1>5, <1>6, <1>7 DEF One

\* What a reconciliation does, whoever reads.
LEMMA PendingOne ==
  ASSUME Sound, TInv', On', [Next]_vars, NEW t \in Threads, NEW s \in Refreshed(FALSE),
         NEW late \in BOOLEAN, Pending(t, s, late)
  PROVE  One'
<1> USE DEF Sound
<1> DEFINE r == me[t].run
<1>0. /\ pc[t] = "pending" /\ Done(t) /\ truth' = s /\ UNCHANGED <<held, order>>
      /\ TypeOK /\ IInv /\ r \in Runs /\ run \in Runs /\ None \notin Sells /\ Known /\ FALSE \in BOOLEAN
      /\ run.status # "CLOSED" /\ Size \in Nat /\ Size > 0
  BY SizeAssumption, SellsAssumption
  DEF Pending, broker, TInv, TypeOK, LInv, Orders, Sells, One, StillOpen
<1>1. r.status \in Selling
  BY <1>0 DEF AsRead
<1>2. run' = run \/ r = run
  BY DEF Pending, Crosses, On
<1>3. \A u \in Threads : me'[u].order = me[u].order
  BY <1>0, HandsDone
<1>4. r = run => /\ run.exit \in Placed /\ run.exit # None /\ run.exit \in Sells
                 /\ run.asked = Size /\ Asked(run) = Size /\ run.status \in Selling
                 /\ PartSold(run, s) = s.order[run.exit].filled
  <2> SUFFICES ASSUME r = run PROVE run.exit \in Placed /\ run.exit # None /\ run.exit \in Sells
                 /\ run.asked = Size /\ Asked(run) = Size /\ run.status \in Selling
                 /\ PartSold(run, s) = s.order[run.exit].filled
    OBVIOUS
  <2>1. run.status \in Selling /\ run.exit \in Placed /\ run.asked = Size /\ run.exit # None
    BY <1>1 DEF One, StillOpen
  <2>2. Asked(run) = Size
    BY <1>0, <2>1 DEF Asked
  <2>3. PartSold(run, s) = s.order[run.exit].filled
    BY <1>0, <2>1, <2>2, SoldSeen DEF PartSold
  <2> QED BY <2>1, <2>2, <2>3 DEF Placed
<1>5. ASSUME s.ok, Evidence(r, s) # {},
             Finalize(IF r.exit \in Evidence(r, s) THEN r.exit ELSE First(Evidence(r, s)))
      PROVE  FALSE
  <2>1. run'.status = "CLOSED"
    BY <1>0, <1>5, EvidenceNamed, FinalizeWrites
  <2>2. r = run
    BY <1>0, <1>2, <2>1
  <2> QED BY <1>4, <1>5, <2>2, NoEvidence
<1>6. ASSUME UNCHANGED book PROVE One'
  BY <1>0, <1>3, <1>6, FrameOne, ThreadsOne DEF book, One, StillOpen, Whole
<1>7. ASSUME PartSold(r, s) > 0, Part(r, s),
             Status(IF late THEN "ORDER_UNKNOWN" ELSE "SELL_PARTIAL_FILLED")
      PROVE  One'
  <2>1. held # Size
    BY <1>0, <1>7, SoldSeen
  <2>2. run'.exit = run.exit /\ run'.asked = run.asked /\ closes' = closes
        /\ run'.status \in {"ORDER_UNKNOWN", "SELL_PARTIAL_FILLED"}
    BY <1>0, <1>7, StatusKeeps DEF Part
  <2>3. run'.status = "ORDER_UNKNOWN" /\ run.exit # None =>
            run.status = "ORDER_UNKNOWN" \/ Idle(run.exit) \/ truth'.order[run.exit].filled > 0
    BY <1>0, <1>2, <1>4, <1>7
  <2>4. run'.status \in Selling => run.status \in Selling \/ run.exit # None
    BY <1>2, <1>4
  <2> QED BY <1>0, <1>3, <2>1, <2>2, <2>3, <2>4, FrameOne, ThreadsOne
<1>8. ASSUME PartSold(r, s) = 0, UNCHANGED <<closes, pos, saved>>,
             Status(IF late /\ Open(s, r.exit) = {} THEN "ORDER_UNKNOWN" ELSE "SELL_ACKED")
      PROVE  One'
  <2>1. run'.exit = run.exit /\ run'.asked = run.asked /\ run'.status # "CLOSED"
        /\ (run'.status = "ORDER_UNKNOWN" => late /\ Open(s, r.exit) = {})
    BY <1>0, <1>8, StatusKeeps
  <2>2. ASSUME r = run, run'.status = "ORDER_UNKNOWN" PROVE Idle(run.exit)
    <3>1. s.order[run.exit].stage # "live"
      BY <1>0, <1>4, <2>1, <2>2 DEF Open, Of
    <3>2. s.order[run.exit].stage # "new"
      BY <1>4, <2>1, <2>2 DEF Pending, MayBeLate
    <3>3. s.order[run.exit].filled = 0
      BY <1>4, <1>8, <2>2
    <3>4. order[run.exit] = s.order[run.exit] /\ s.order[run.exit].stage = "dead"
      BY <1>0, <1>4, <2>2, <3>1, <3>2, FilledSeen
    <3> QED BY <3>3, <3>4 DEF Idle
  <2>3. held = Size => pos'.qty = Size
    BY <1>8 DEF One, Whole
  <2> QED BY <1>0, <1>2, <1>3, <1>4, <1>8, <2>1, <2>2, <2>3, FrameOne, ThreadsOne
<1> QED BY <1>5, <1>6, <1>7, <1>8 DEF Pending

LEMMA FilledOne ==
  ASSUME Sound, TInv', On', [Next]_vars, NEW t \in Threads, NEW s \in Refreshed(FALSE), Filled(t, s)
  PROVE  One'
<1> USE DEF Sound
<1>1. /\ pc[t] = "filled" /\ Done(t) /\ truth' = s /\ UNCHANGED <<held, order>> /\ TypeOK /\ Known
  BY DEF Filled, broker, TInv, LInv, Orders
<1>2. s.bal # 0
  <2>1. held <= s.bal /\ s.bal \in Int /\ held \in Int /\ held > 0
    BY RefreshedIsSeen DEF Seen, On, IInv, Balance
  <2> QED BY <2>1
<1>3. UNCHANGED book
  BY <1>2 DEF Filled
<1>4. \A u \in Threads : me'[u].order = me[u].order
  BY <1>1, HandsDone
<1> QED BY <1>1, <1>3, <1>4, FrameOne, ThreadsOne DEF book, One, StillOpen, Whole

LEMMA UnknownOne ==
  ASSUME Sound, TInv', On', [Next]_vars, NEW t \in Threads, NEW s \in Refreshed(FALSE), Unknown(t, s)
  PROVE  One'
<1> USE DEF Sound
<1> DEFINE r == me[t].run
<1>0. /\ pc[t] = "unknown" /\ Done(t) /\ truth' = s /\ UNCHANGED <<held, order>> /\ closes = 0
      /\ TypeOK /\ IInv /\ r \in Runs /\ run \in Runs /\ None \notin Sells /\ Known
      /\ run.status # "CLOSED" /\ Size \in Nat /\ Size > 0 /\ Placed \subseteq Sells
      /\ run.exit \in Sells \cup {None}
  BY SizeAssumption, SellsAssumption
  DEF Unknown, broker, TInv, TypeOK, LInv, Orders, Sells, One, StillOpen, Placed, Runs
<1>1. t = "loop" /\ run.status # "FILLED" /\ r.status = "ORDER_UNKNOWN"
  BY <1>0 DEF AsRead, IInv, Reconciled
<1>2. run' = run \/ r = run
  BY DEF Unknown, Crosses, On
<1>3. \A u \in Threads : me'[u].order = me[u].order
  BY <1>0, HandsDone
<1>4. run.exit # None =>
          run.asked = Size /\ Asked(run) = Size /\ PartSold(run, s) = s.order[run.exit].filled
  <2> SUFFICES ASSUME run.exit # None
               PROVE  run.asked = Size /\ Asked(run) = Size /\ PartSold(run, s) = s.order[run.exit].filled
    OBVIOUS
  <2>1. run.asked = Size
    BY DEF One, StillOpen
  <2>2. Asked(run) = Size
    BY <1>0, <2>1 DEF Asked
  <2> QED BY <1>0, <2>1, <2>2, SoldSeen DEF PartSold
<1>5. run.exit = None =>
          /\ \A o \in Placed : Gone(o)
          /\ WithFills(s, None) = {} /\ Open(s, None) = {} /\ PartSold(run, s) = 0
  <2> SUFFICES ASSUME run.exit = None
               PROVE  /\ \A o \in Placed : Gone(o)
                      /\ WithFills(s, None) = {} /\ Open(s, None) = {} /\ PartSold(run, s) = 0
    OBVIOUS
  <2>1. \A o \in Placed : Gone(o)
    BY <1>0, <1>1, UnknownGone
  <2>2. \A o \in Sells : s.order[o].filled = 0 /\ s.order[o].stage # "live"
    BY <2>1, GoneUnsold
  <2>3. WithFills(s, None) = {} /\ Open(s, None) = {}
    BY <2>2 DEF WithFills, Open, Of
  <2> QED BY <2>1, <2>3, NoneSold DEF PartSold
<1>6. ASSUME Evidence(r, s) # {},
             Finalize(IF r.exit \in Evidence(r, s) THEN r.exit ELSE First(Evidence(r, s)))
      PROVE  FALSE
  <2>1. run'.status = "CLOSED"
    BY <1>0, <1>6, EvidenceNamed, FinalizeWrites
  <2>2. r = run
    BY <1>0, <1>2, <2>1
  <2> QED BY <1>5, <1>6, <2>2, NoEvidence
<1>7. ASSUME UNCHANGED book PROVE One'
  BY <1>0, <1>3, <1>7, FrameOne, ThreadsOne DEF book, One, StillOpen, Whole
<1>8. ASSUME PartSold(r, s) > 0, Part(r, s), Status("SELL_PARTIAL_FILLED") PROVE One'
  <2>1. held # Size
    BY <1>0, <1>8, SoldSeen
  <2>2. run'.exit = run.exit /\ run'.asked = run.asked /\ closes' = closes
        /\ run'.status = "SELL_PARTIAL_FILLED"
    BY <1>0, <1>8, StatusKeeps DEF Part
  <2>3. run'.status \in Selling => run.status \in Selling \/ run.exit # None
    BY <1>2, <1>5, <1>8
  <2> QED BY <1>0, <1>3, <2>1, <2>2, <2>3, FrameOne, ThreadsOne
<1>9. ASSUME Open(s, r.exit) # {}, Status("SELL_ACKED"), UNCHANGED <<closes, pos, saved>> PROVE One'
  <2>1. run'.exit = run.exit /\ run'.asked = run.asked /\ run'.status = "SELL_ACKED"
    BY <1>0, <1>9, StatusKeeps
  <2>2. run'.status \in Selling => run.status \in Selling \/ run.exit # None
    BY <1>2, <1>5, <1>9
  <2>3. held = Size => pos'.qty = Size
    BY <1>9 DEF One, Whole
  <2> QED BY <1>0, <1>3, <1>9, <2>1, <2>2, <2>3, FrameOne, ThreadsOne
<1>10. ASSUME PartSold(r, s) = 0, Open(s, r.exit) = {}, FilledAgain(r) PROVE One'
  <2>1. /\ run'.status = "FILLED" /\ run'.exit = None /\ closes' = closes /\ pos'.qty = pos.qty
    BY <1>0, <1>10 DEF FilledAgain, TypeOK, Runs, Positions
  <2>2. r = run
    BY <1>1, <1>2, <2>1
  <2>3. run.exit # None => Idle(run.exit) /\ s.order[run.exit].stage # "live"
    <3> SUFFICES ASSUME run.exit # None PROVE Idle(run.exit) /\ s.order[run.exit].stage # "live"
      OBVIOUS
    <3>1. s.order[run.exit].stage # "live"
      BY <1>0, <1>10, <2>2 DEF Open, Of
    <3>2. s.order[run.exit].filled = 0
      BY <1>4, <1>10, <2>2
    <3>3. ~(truth.order[run.exit].filled > 0)
      <4>1. truth.order[run.exit].filled <= s.order[run.exit].filled
        BY <1>0, FilledSeen
      <4>2. truth.order[run.exit].filled \in Int
        BY <1>0, SizeAssumption DEF TypeOK, Snapshots, SellOrders
      <4> QED BY <3>2, <4>1, <4>2
    <3>4. Idle(run.exit)
      BY <1>1, <2>2, <3>3 DEF One, StillOpen
    <3> QED BY <3>1, <3>4
  <2>4. Placed' = Placed
    BY <1>0 DEF Placed
  <2>5. \A o \in Sells : (Idle(o) => Idle(o)') /\ (Gone(o) => Gone(o)')
    BY GoneStays
  <2>6. OneFills'
    BY <1>0, <2>4 DEF One, OneFills
  <2>7. Whole'
    BY <1>0, <2>1, ThreadsOne DEF One, Whole
  <2>8. Settled'
    <3> SUFFICES ASSUME NEW o \in Placed, \A u \in Threads : me[u].order # o PROVE Gone(o)'
      BY <1>3, <2>4 DEF Settled
    <3>1. CASE o = run.exit
      BY <1>0, <2>3, <2>5, <3>1 DEF Idle, Gone
    <3>2. CASE o # run.exit
      BY <1>0, <2>5, <3>2 DEF One, Settled
    <3> QED BY <3>1, <3>2
  <2>9. OnlyOwn'
    <3>1. \A u \in Threads : pc'[u] \notin Attempt
      BY <1>0, <1>1, UnknownGone DEF Done, TypeOK, Attempt
    <3> QED BY <3>1 DEF OnlyOwn
  <2>10. StillOpen'
    BY <1>0, <2>1 DEF StillOpen, Selling
  <2> QED BY <2>6, <2>7, <2>8, <2>9, <2>10 DEF One
<1> QED BY <1>0, <1>6, <1>7, <1>8, <1>9, <1>10 DEF Unknown, book

LEMMA LooksOne ==
  ASSUME Sound, TInv', [Next]_vars, NEW t \in Threads, pc[t] \in {"observe", "reject"},
         NEW s \in Refreshed(TRUE), Looks(t, s) \/ Quarantine(t), truth' = s,
         UNCHANGED <<held, order>>
  PROVE  One'
<1> USE DEF Sound
<1>0. /\ TypeOK /\ Known /\ InOrder /\ None \notin Sells /\ Size \in Nat /\ Size > 0
      /\ run \in Runs /\ pos \in Positions /\ run.status # "CLOSED" /\ closes = 0
      /\ pc[t] \notin {"truth", "mark"}
      /\ Placed \subseteq Sells /\ held \in Int /\ held > 0
  BY SizeAssumption, SellsAssumption
  DEF TInv, TypeOK, LInv, Orders, Sells, One, StillOpen, Placed, On
<1>1. me[t].qty = Size
  BY DEF One, Whole, AtWork, Before, Attempt
<1>2. s.ok => s.order = order
  BY <1>0 DEF Refreshed, Renewed, Failed, TypeOK, Snapshots
<1>3. \A o \in Sells : order[o].filled \in Nat
  BY <1>0, SizeAssumption DEF TypeOK, SellOrders
<1>4. ASSUME Quarantine(t) PROVE One'
  <2>1. \A u \in Threads : me'[u].order = me[u].order
    BY <1>0, <1>4, HandsDone DEF Quarantine, GivesUp
  <2>2. /\ run'.exit = run.exit /\ run'.asked = run.asked /\ run'.status = run.status
        /\ pos'.qty = pos.qty /\ closes' = closes
    BY <1>0, <1>4 DEF Quarantine, Runs, Positions
  <2> QED BY <1>0, <2>1, <2>2, FrameOne, ThreadsOne DEF One, Whole
<1>5. ASSUME s.ok, WithFills(s, None) # {}, TakeFills(t, s) PROVE One'
  <2> DEFINE o == First(WithFills(s, None))
  <2>1. WithFills(s, None) = {p \in Sells : order[p].filled > 0}
    BY <1>2, <1>5 DEF WithFills, Of
  <2>2. PICK p \in Sells : order[p].filled > 0
    BY <1>5, <2>1
  <2>3. WithFills(s, None) = {p}
    BY <1>3, <2>1, <2>2 DEF One, OneFills
  <2>4. o \in Sells /\ o = p
    BY <1>5, <2>1, <2>3, FirstIsSale
  <2>5. Sold(s, None) = order[p].filled
    BY <1>2, <1>3, <1>5, <2>3, SoldIs
  <2>6. held = Size - order[p].filled
    BY <2>2 DEF One, OneFills
  <2>7. me[t].qty - Sold(s, None) = held /\ ~(held <= 0) /\ held # Size
    BY <1>0, <1>1, <1>3, <2>2, <2>5, <2>6
  <2>8. p \in Placed /\ ~Idle(p)
    BY <1>3, <2>2 DEF Placed, Idle, LInv, Orders, Something
  <2>9. run' = [run EXCEPT !.status = "SELL_PARTIAL_FILLED", !.exit = o,
                          !.asked = me[t].qty, !.sent = TRUE, !.stuck = TRUE]
        /\ closes' = closes /\ Done(t)
    BY <1>5, <2>7 DEF TakeFills, GivesUp
  <2>10. run'.exit = p /\ run'.asked = Size /\ run'.status \in Selling
    <3> HIDE DEF o
    <3> QED BY <1>0, <1>1, <2>4, <2>9 DEF Runs, Selling
  <2>11. \A u \in Threads : me'[u].order = me[u].order
    BY <1>0, <2>9, HandsDone
  <2> HIDE DEF o
  <2> QED BY <1>2, <1>5, <2>7, <2>8, <2>9, <2>10, <2>11, TakesExit
<1>6. ASSUME s.ok, WithFills(s, None) = {}, Open(s, None) # {}, Relink(t, s) PROVE One'
  <2> DEFINE o == First(Open(s, None))
  <2>1. Open(s, None) = {p \in Sells : order[p].stage = "live"}
    BY <1>2, <1>6 DEF Open, Of
  <2>2. o \in Open(s, None) /\ o \in Sells
    BY <1>6, <2>1, FirstIsSale
  <2>3. order[o].stage = "live"
    BY <2>1, <2>2
  <2>4. o \in Placed /\ ~Idle(o)
    BY <2>2, <2>3 DEF Placed, Idle
  <2>5. order[o].qty = Size
    BY <2>4 DEF One, OneFills
  <2>6. order[o].filled = 0
    <3>1. o \notin WithFills(s, None)
      BY <1>6
    <3>2. ~(order[o].filled > 0)
      BY <1>2, <1>6, <2>2, <3>1 DEF WithFills, Of
    <3> QED BY <1>3, <2>2, <3>2
  <2>7. s.order[o].qty - s.order[o].filled = Size
    BY <1>0, <1>2, <1>6, <2>5, <2>6
  <2>8. /\ run' = [run EXCEPT !.status = "SELL_ACKED", !.exit = o, !.sent = TRUE, !.stuck = FALSE,
                              !.asked = s.order[o].qty - s.order[o].filled]
        /\ pos' = [pos EXCEPT !.closing = FALSE, !.sale = o, !.stuck = FALSE, !.watch = FALSE]
        /\ closes' = closes /\ Done(t)
    BY <1>6 DEF Relink
  <2> HIDE DEF o
  <2>9. run'.exit = o /\ run'.asked = Size /\ run'.status \in Selling /\ pos'.qty = pos.qty
    BY <1>0, <2>7, <2>8 DEF Runs, Selling, Positions
  <2>10. \A u \in Threads : me'[u].order = me[u].order
    BY <1>0, <2>8, HandsDone
  <2>11. held = Size => pos'.qty = Size
    BY <2>9 DEF One, Whole
  <2> QED BY <1>2, <1>6, <2>4, <2>8, <2>9, <2>10, <2>11, TakesExit
<1> QED BY <1>4, <1>5, <1>6 DEF Looks

\* The steps of a sale that leave the broker alone.
LEMMA ReviewOne ==
  ASSUME Sound, TInv', On', [Next]_vars, NEW t \in Threads,
         \/ StartSell(t) \/ ReviewHolds(t) \/ ReviewSells(t)
         \/ (\E b \in Balances : Precheck(t, b)) \/ PrecheckFails(t)
         \/ PlaceRejected(t) \/ PlaceFails(t)
  PROVE  One'
<1> USE DEF Sound
<1>1. /\ TypeOK /\ Known /\ pos \in Positions /\ run.status # "CLOSED" /\ me \in [Threads -> Works]
      /\ UNCHANGED <<held, order, run, closes, truth, marked>>
  BY DEF TInv, TypeOK, Works, LInv, Orders, One, StillOpen, broker, book, NotClosing, history, StartSell,
         ReviewHolds, ReviewSells, Precheck, PrecheckFails, PlaceRejected, PlaceFails
<1>2. pos' = pos \/ (\E c \in BOOLEAN : pos' = [pos EXCEPT !.closing = c])
  BY DEF book, NotClosing, StartSell, ReviewHolds, ReviewSells, Precheck, PrecheckFails, PlaceRejected,
         PlaceFails
<1>3. pos'.qty = pos.qty
  BY <1>1, <1>2 DEF Positions
<1>4. Done(t) \/ me' = me \/ me' = [me EXCEPT ![t].qty = pos.qty] \/ me' = [me EXCEPT ![t].order = None]
  BY DEF GivesUp, StartSell, ReviewHolds, ReviewSells, Precheck, PrecheckFails, PlaceRejected,
         PlaceFails
<1>5. \A u \in Threads : me'[u].order = me[u].order
  <2>1. CASE me' = me \/ me' = [me EXCEPT ![t].qty = pos.qty]
    BY <1>1, <2>1 DEF TypeOK
  <2>2. CASE Done(t) \/ me' = [me EXCEPT ![t].order = None]
    <3>1. me'[t].order = None /\ \A u \in Threads \ {t} : me'[u].order = me[u].order
      BY <1>1, <2>2 DEF Done, Nothing, Works
    <3>2. me[t].order = None
      BY <1>1, <3>1, Dropped
    <3> QED BY <3>1, <3>2
  <2> QED BY <1>4, <2>1, <2>2
<1> QED BY <1>1, <1>3, <1>5, FrameOne, ThreadsOne DEF One, StillOpen, Whole

LEMMA ZeroOne ==
  ASSUME Sound, TInv', On', [Next]_vars, NEW t \in Threads, NEW s \in Refreshed(TRUE), Zero(t, s)
  PROVE  One'
<1> USE DEF Sound
<1>1. /\ TypeOK /\ Known /\ run.status # "CLOSED" /\ UNCHANGED <<held, order>> /\ Done(t)
      /\ pc[t] \notin {"truth", "mark"}
  BY DEF TInv, LInv, Orders, One, StillOpen, broker, Zero, GivesUp
<1>2. s.bal # 0
  <2>1. held <= s.bal /\ s.bal \in Int /\ held \in Int /\ held > 0
    BY RefreshedIsSeen DEF Seen, On, IInv, Balance
  <2> QED BY <2>1
<1>3. UNCHANGED book
  BY <1>2 DEF Zero
<1>4. \A u \in Threads : me'[u].order = me[u].order
  BY <1>1, HandsDone
<1> QED BY <1>1, <1>3, <1>4, FrameOne, ThreadsOne DEF book, One, StillOpen, Whole

\* The answer is lost: the order that was in the run is gone.
LEMMA LostOne ==
  ASSUME Sound, TInv', On', [Next]_vars, NEW t \in Threads, PlaceUnknown(t)
  PROVE  One'
<1> USE DEF Sound
<1>1. /\ TypeOK /\ Known /\ InOrder /\ UNCHANGED <<held, closes, pos, truth, marked>>
      /\ pc[t] \in Attempt /\ Done(t) /\ None \notin Sells
      /\ Placed \subseteq Sells /\ me \in [Threads -> Works]
  BY SellsAssumption
  DEF TInv, TypeOK, Works, LInv, Orders, PlaceUnknown, GivesUp, Sending, Attempt, history, Sells, Placed
<1>0. me[t].order = None
  <2>1. me'[t].order = None /\ \A u \in Threads \ {t} : me'[u].order = me[u].order
    BY <1>1 DEF Done, Nothing
  <2> QED BY <1>1, <2>1, Dropped
<1>2. \A u \in Threads : me'[u].order = me[u].order
  BY <1>0, <1>1, HandsDone
<1>3. order' = order
  <2> SUFFICES ASSUME NEW o \in Sells, IsNext(o), Accepted(o, me[t].qty, FALSE) PROVE FALSE
    BY DEF PlaceUnknown
  <2>1. order'[o].stage = "live"
    BY <1>1 DEF Accepted, TypeOK, NewOrder
  <2> QED BY <1>1, <1>2, <2>1, Unnumbered
<1>4. run'.status = "ORDER_UNKNOWN" /\ run'.exit = run.exit /\ run'.asked = run.asked
  BY <1>1, StatusKeeps DEF PlaceUnknown
<1>5. run.exit # None => Idle(run.exit)
  <2>1. run.exit # None => run.exit \in Placed
    BY DEF One, StillOpen
  <2> QED BY <1>0, <1>1, <2>1 DEF One, OnlyOwn
<1> QED BY <1>1, <1>2, <1>3, <1>4, <1>5, FrameOne, ThreadsOne DEF One, Whole, Selling

LEMMA SellOne ==
  ASSUME Sound, TInv', On', [Next]_vars, NEW t \in Threads, Sell(t)
  PROVE  One'
<1> USE DEF Sound
<1>1. ASSUME NEW s \in Refreshed(TRUE), Observe(t, s) PROVE One'
  <2>1. pc[t] = "observe" /\ truth' = s /\ UNCHANGED <<held, order>>
    BY <1>1 DEF Observe, broker
  <2>2. CASE Looks(t, s)
    BY <2>1, <2>2, LooksOne
  <2>3. CASE /\ pos' = [pos EXCEPT !.watch = FALSE] /\ run' = [run EXCEPT !.watch = FALSE]
             /\ UNCHANGED <<closes, me, lock>>
    <3>1. /\ run'.exit = run.exit /\ run'.asked = run.asked /\ run'.status = run.status
          /\ pos'.qty = pos.qty
      BY <2>3 DEF TInv, TypeOK, Runs, Positions
    <3> QED BY <2>1, <2>3, <3>1, FrameOne, ThreadsOne DEF One, StillOpen, Whole
  <2> QED BY <1>1, <2>2, <2>3 DEF Observe
<1>2. ASSUME NEW s \in Refreshed(TRUE), Rejected(t, s) PROVE One'
  BY <1>2, LooksOne DEF Rejected, broker
<1>3. ASSUME NEW s \in Refreshed(TRUE), Zero(t, s) PROVE One'
  BY <1>3, ZeroOne
<1>4. CASE \/ StartSell(t) \/ ReviewHolds(t) \/ ReviewSells(t)
           \/ (\E b \in Balances : Precheck(t, b)) \/ PrecheckFails(t)
           \/ PlaceRejected(t) \/ PlaceFails(t)
  BY <1>4, ReviewOne
<1>0. TypeOK /\ InOrder /\ Known /\ me \in [Threads -> Works] /\ run.status # "CLOSED"
  BY DEF TInv, TypeOK, Works, LInv, Orders, One, StillOpen
<1>5. ASSUME NEW o \in Sells, PlaceAccepted(t, o) PROVE One'
  <2>1. me[t].order = None
    <3> SUFFICES ASSUME me[t].order # None PROVE FALSE
      OBVIOUS
    <3>1. me[t].order \in Placed /\ o \notin Placed
      BY <1>0, <1>5, NextIsNew DEF PlaceAccepted, Known, Placed
    <3>2. me'[t].order = o /\ \A u \in Threads \ {t} : me'[u].order = me[u].order
      BY <1>0, <1>5 DEF PlaceAccepted, Works
    <3> QED BY <1>5, <3>1, <3>2, Dropped DEF PlaceAccepted, history
  <2> QED BY <1>5, <2>1, PlacedOne DEF PlaceAccepted
<1>8. CASE ServerError(t)
  <2>1. pc[t] \in Sending /\ me[t].order = None
    BY <1>0, <1>8 DEF ServerError, Sending, Known
  <2>2. CASE UNCHANGED <<order, me>>
    BY <1>0, <1>8, <2>2, FrameOne, ThreadsOne DEF ServerError, book, One, StillOpen, Whole
  <2>3. ASSUME NEW o \in Sells, IsNext(o), Accepted(o, me[t].qty, FALSE), me' = [me EXCEPT ![t].order = o]
        PROVE  One'
    BY <1>8, <2>1, <2>3, PlacedOne DEF ServerError
  <2> QED BY <1>8, <2>2, <2>3 DEF ServerError
<1>9. ASSUME NEW o \in Sells, Found(t, o) PROVE One'
  <2>1. me[t].order = o
    BY <1>9 DEF Found, On
  <2>2. \A u \in Threads : me'[u].order = me[u].order
    BY <1>0, <1>9, <2>1 DEF Found, Works
  <2> QED BY <1>0, <1>9, <2>2, FrameOne, ThreadsOne DEF Found, broker, book, One, StillOpen, Whole
<1>6. CASE PlaceUnknown(t)
  BY <1>6, LostOne
<1>7. CASE Mark(t)
  BY <1>7, MarkedOne
<1> QED BY <1>1, <1>2, <1>3, <1>4, <1>5, <1>6, <1>7, <1>8, <1>9 DEF Sell

\* What no thread does.
LEMMA OutsideOne ==
  ASSUME Sound, TInv', On', [Next]_vars,
         Outside \/ LockExpires \/ (\E b \in Balances : Sync(b)) \/ Crash \/ UNCHANGED vars
         \/ \E t \in Threads : Read(t) \/ Clear(t)
  PROVE  One'
<1> USE DEF Sound
<1>0. /\ TypeOK /\ Known /\ InOrder /\ None \notin Sells /\ pos \in Positions /\ Placed \subseteq Sells
      /\ me \in [Threads -> Works]
  BY SellsAssumption DEF TInv, TypeOK, LInv, Orders, Sells, Placed, Works
<1>1. CASE Outside
  <2>1. ASSUME NEW o \in Sells, NEW n \in 1 .. Size, UserSells(o, n) PROVE FALSE
    <3>1. order'[o].stage = "live"
      BY <1>0, <2>1 DEF UserSells, Accepted, TypeOK, NewOrder
    <3> QED BY <1>0, <2>1, <3>1, Unnumbered DEF UserSells, threads, history
  <2> QED BY <1>1, <2>1, FillOne, CancelOne DEF Outside
<1>2. CASE LockExpires \/ UNCHANGED vars
  BY <1>2, FrameOne, ThreadsOne
  DEF LockExpires, vars, broker, book, threads, history, One, StillOpen, Whole
<1>3. ASSUME NEW b \in Balances, Sync(b) PROVE One'
  <2>1. UNCHANGED <<held, order, run, closes, truth, me>>
    BY <1>3 DEF Sync, broker, threads
  <2>2. held > 0 /\ held <= b /\ b \in 0 .. Size /\ held \in 0 .. Size
    BY <1>0, <1>3 DEF On, IInv, Balance, Balances, TypeOK, Snapshots
  <2>3. pos' = [pos EXCEPT !.qty = b, !.missing = FALSE]
    <3>1. b > 0
      BY <2>2, SizeAssumption
    <3> QED BY <1>3, <3>1 DEF Sync
  <2>4. held = Size => pos'.qty = Size
    BY <1>0, <2>2, <2>3, SizeAssumption DEF Positions
  <2> QED BY <2>1, <2>4, FrameOne, ThreadsOne DEF One, StillOpen
<1>4. CASE Crash
  <2>1. /\ UNCHANGED <<held, order, run, closes, marked>> /\ pos' = saved
        /\ \A t \in Threads : me'[t].order = None
    BY <1>4 DEF Crash, broker, history, Nothing
  <2>2. \A t \in Threads : me[t].order = None
    <3> SUFFICES ASSUME NEW t \in Threads, me[t].order # None PROVE FALSE
      OBVIOUS
    <3>1. me[t].order \in Placed /\ me[t].order \notin marked
      BY DEF Known, LInv, Orders, Handed
    <3>2. me[t].order \in Placed'
      BY <2>1, <3>1 DEF Placed
    <3> QED BY <2>1, <3>1, <3>2 DEF On, Numbered
  <2>3. pos'.qty = pos.qty
    BY <2>1 DEF LInv, SavedIs
  <2> QED BY <2>1, <2>2, <2>3, FrameOne, ThreadsOne DEF One, StillOpen, Whole
<1>5. ASSUME NEW t \in Threads, Read(t) PROVE One'
  <2>1. UNCHANGED <<held, order, run, closes, pos, truth>> /\ (me' = me \/ me' = [me EXCEPT ![t].run = run])
    BY <1>5 DEF Read, ReadPending, ReadFilled, ReadUnknown, ReadStale, Reads, broker, book
  <2>2. \A u \in Threads : me'[u].order = me[u].order
    BY <1>0, <2>1 DEF Works
  <2> QED BY <2>1, <2>2, FrameOne, ThreadsOne DEF One, StillOpen, Whole
<1>6. ASSUME NEW t \in Threads, Clear(t) PROVE One'
  <2>1. UNCHANGED <<held, order, run, closes>> /\ pc[t] = "stale" /\ Done(t)
        /\ (pos' = pos \/ pos' = [pos EXCEPT !.closing = FALSE, !.sale = None])
    BY <1>6 DEF Clear, ClearStale, KeepStale, broker, book
  <2>2. pos'.qty = pos.qty
    BY <1>0, <2>1 DEF Positions
  <2>3. \A u \in Threads : me'[u].order = me[u].order
    BY <1>0, <2>1, HandsDone
  <2> QED BY <2>1, <2>2, <2>3, FrameOne, ThreadsOne DEF One, StillOpen, Whole
<1> QED BY <1>1, <1>2, <1>3, <1>4, <1>5, <1>6

LEMMA StepAsRead ==
  ASSUME TInv, AsRead, [Next]_vars
  PROVE  AsRead'
<1> SUFFICES ASSUME NEW t \in Threads
             PROVE  /\ pc'[t] = "pending" => me'[t].run.status \in Selling
                    /\ pc'[t] = "unknown" => me'[t].run.status = "ORDER_UNKNOWN"
  BY DEF AsRead
<1>0. TypeOK /\ me \in [Threads -> Works] /\ run \in Runs
  BY DEF TInv, TypeOK, Works
<1>1. ASSUME pc[t] = "pending" \/ pc[t] = "unknown", pc'[t] = pc[t] PROVE me'[t].run = me[t].run
  BY <1>0, <1>1, WhoMoves DEF Moved, Crash, AtWork, Before, Attempt, Sending
<1>2. CASE ReadPending(t)
  BY <1>0, <1>2 DEF ReadPending, Reads, TypeOK, Works
<1>3. CASE ReadUnknown(t)
  BY <1>0, <1>3 DEF ReadUnknown, Reads, TypeOK, Works
<1> QED BY <1>1, <1>2, <1>3, WhoBegins DEF AsRead

LEMMA StepHanded ==
  ASSUME IInv, TInv, TInv', Known, InOrder, Handed, ~astray', [Next]_vars
  PROVE  Handed'
<1> SUFFICES ASSUME NEW t \in Threads, me'[t].order # None PROVE me'[t].order \notin marked'
  <2>1. None \notin marked'
    BY SellsAssumption DEF TInv, TypeOK, Sells
  <2> QED BY <2>1 DEF Handed
<1>0. TypeOK /\ marked \subseteq Placed /\ Nothing.order = None /\ None \notin Sells
  BY SellsAssumption DEF TInv, Known, Nothing, Sells
<1>1. ASSUME NEW u \in Threads, Mark(u)
      PROVE  /\ marked' = marked \cup {me[u].order} /\ me[u].order \in Placed
             /\ pc[u] = "mark" /\ me'[u] = Nothing
  BY <1>0, <1>1 DEF Mark, IInv, Numbers, Known, Done, TypeOK
<1>2. ASSUME me'[t].order = me[t].order PROVE me'[t].order \notin marked'
  <2>1. ASSUME NEW u \in Threads, Mark(u) PROVE me[u].order # me[t].order
    <3>1. pc[t] \in Attempt /\ pc[u] \in Attempt
      BY <1>1, <1>2, <2>1 DEF Known, Attempt
    <3>2. u # t
      BY <1>0, <1>1, <2>1
    <3> QED BY <3>1, <3>2 DEF IInv, Barred
  <2> QED BY <1>1, <1>2, <2>1, WhatIsMarked DEF Handed
<1>3. ASSUME NEW o \in Sells, Takes(t, o), me'[t].order = o PROVE me'[t].order \notin marked'
  <2>1. CASE Found(t, o)
    BY <1>2, <1>3, <2>1 DEF Found
  <2>2. CASE ~Found(t, o)
    <3>1. o \notin Placed
      BY <1>0, <1>3, <2>2, NextIsNew DEF Takes, Placed
    <3> QED BY <1>0, <1>1, <1>3, <3>1, WhatIsMarked
  <2> QED BY <2>1, <2>2
<1>4. CASE UNCHANGED <<pc, me>>
  BY <1>2, <1>4
<1>5. CASE Crash
  BY <1>0, <1>5 DEF Crash
<1>6. ASSUME NEW u \in Threads, Moved(u) PROVE me'[t].order \notin marked'
  <2>1. CASE u # t
    BY <1>2, <1>6, <2>1 DEF Moved
  <2>2. CASE u = t
    BY <1>0, <1>2, <1>3, <1>6, <2>2 DEF Moved
  <2> QED BY <2>1, <2>2
<1> QED BY <1>0, <1>4, <1>5, <1>6, WhoMoves

LEMMA InitZInv == Init => ZInv
<1> SUFFICES ASSUME Init PROVE ZInv
  OBVIOUS
<1>1. /\ \A o \in Sells : order[o] = NewOrder /\ order[o].stage = "new" /\ order[o].filled = 0
      /\ pos.qty = Size /\ held = Size /\ marked = {}
      /\ run.status = "FILLED" /\ run.exit = None /\ closes = 0
      /\ \A t \in Threads : pc[t] = "idle" /\ me[t].order = None
  BY DEF Init, NewOrder, NewPosition, NewRun, Nothing
<1>2. Placed = {}
  BY <1>1 DEF Placed
<1>3. AsRead /\ Handed
  BY <1>1 DEF AsRead, Handed
<1>4. One
  BY <1>1, <1>2 DEF One, OneFills, Whole, Settled, StillOpen, OnlyOwn, AtWork, Before, Attempt, Selling
<1> QED BY <1>3, <1>4 DEF ZInv

LEMMA StepZInv == IInv /\ TInv /\ TInv' /\ LInv /\ ZInv /\ [Next]_vars => ZInv'
<1> SUFFICES ASSUME IInv, TInv, TInv', LInv, ZInv, [Next]_vars PROVE ZInv'
  OBVIOUS
<1>1. AsRead'
  BY StepAsRead DEF ZInv
<1>2. ASSUME On' PROVE Handed' /\ One'
  <2>1. On
    BY <1>2, OnBack
  <2>2. Sound
    BY <2>1 DEF Sound, ZInv
  <2>3. ASSUME Outside \/ LockExpires \/ (\E b \in Balances : Sync(b)) \/ Crash \/ UNCHANGED vars
               \/ \E t \in Threads : Read(t) \/ Clear(t)
        PROVE  One'
    BY <1>2, <2>2, <2>3, OutsideOne
  <2>4. ASSUME NEW t \in Threads, Reconcile(t) PROVE One'
    BY <1>2, <2>2, <2>4, PendingOne, FilledOne, UnknownOne DEF Reconcile
  <2>5. ASSUME NEW t \in Threads, Sell(t) PROVE One'
    BY <1>2, <2>2, <2>5, SellOne
  <2>6. Handed'
    BY <1>2, <2>2, StepHanded DEF Sound, LInv, Orders, On
  <2>7. One'
    BY <2>3, <2>4, <2>5 DEF Next
  <2> QED BY <2>6, <2>7
<1> QED BY <1>1, <1>2 DEF ZInv

LEMMA ClosingHolds == Spec => [](hasty \/ ZInv)
<1>1. (hasty \/ IInv) /\ TInv /\ TInv' /\ (hasty \/ LInv) /\ (hasty \/ ZInv) /\ [Next]_vars
      => (hasty \/ ZInv)'
  BY StepZInv, HistoryStays
<1> QED BY InitZInv, HoldsUnhurried, TypesHold, LiveHolds, <1>1, PTL DEF Spec

\* A run is closed when its shares are sold: fills of another order, partial fills and empty
\* answers never close a run that still has shares, through cancels, fills, server errors, crashes
\* and lapsed locks, as long as every order has its number, and its own, no two writes have
\* crossed and no mark of a sale was cleared while a thread was at it.
THEOREM ClosedIsAllSold == Spec => []ClosedIsSold
<1>1. TInv /\ (hasty \/ ZInv) => ClosedIsSold
  <2> SUFFICES ASSUME TInv, ZInv, run.status = "CLOSED", Numbered, ~crossed, ~astray PROVE held = 0
    BY DEF ClosedIsSold
  <2>1. held \in 0 .. Size
    BY DEF TInv, TypeOK
  <2>2. ~(held > 0)
    BY DEF ZInv, On, One, StillOpen
  <2> QED BY <2>1, <2>2, SizeAssumption
<1> QED BY <1>1, TypesHold, ClosingHolds, PTL

=============================================================================
