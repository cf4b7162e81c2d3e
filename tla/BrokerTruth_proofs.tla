-------------------------- MODULE BrokerTruth_proofs --------------------------
(***************************************************************************)
(* Proofs about the broker truth snapshot: for any markets, callers,       *)
(* processes, time limits and bounds.                                      *)
(***************************************************************************)
EXTENDS BrokerTruth, TLAPS

(***************************************************************************)
(* Types.                                                                  *)
(***************************************************************************)

\* A caller at one of the steps has a refresh under way.
LEMMA Active ==
  ASSUME TypeOK, NEW w \in Callers, call[w] # Idle \/ call[w].pc \in Steps
  PROVE  call[w] \in Calls /\ call[w] # Idle
  BY DEF TypeOK, Calls, Idle, Steps

LEMMA NeverType == Never \in Entries /\ EmptySnapshot \in Snapshots
  BY DEF Never, Entries, EmptySnapshot, Snapshots

LEMMA FailedType ==
  ASSUME NEW e \in Entries
  PROVE  /\ Failed(e) \in Entries
         /\ Failed(e).asof = e.asof /\ Failed(e).stamp = e.stamp /\ Failed(e).err
         /\ Failed(e).forced = e.forced
  BY DEF Failed, Entries

LEMMA CollectedType ==
  ASSUME NEW c \in Calls, now \in Nat
  PROVE  Collected(c) \in Entries
  BY DEF Collected, Calls, Entries

LEMMA MergedType ==
  ASSUME NEW s \in Snapshots, NEW t \in Snapshots
  PROVE  Merged(s, t) \in Snapshots
  BY DEF Merged, Snapshots

\* A step of one caller: it changes no other call.
Moves(w, c) == call' = [call EXCEPT ![w] = c]

LEMMA MovesType ==
  ASSUME TypeOK, NEW w \in Callers, NEW c \in Calls, Moves(w, c)
  PROVE  call' \in [Callers -> Calls \cup {Idle}]
  BY DEF TypeOK, Moves

\* What each step makes of the call.
LEMMA AskMoves ==
  ASSUME TypeOK, NEW w \in Callers, Ask(w)
  PROVE  \E c \in Calls : Moves(w, c) /\ c = [call[w] EXCEPT !.pc = "wait", !.since = now]
<1>1. call[w] \in Calls
  BY Active DEF Ask, Steps
<1> DEFINE c == [call[w] EXCEPT !.pc = "wait", !.since = now]
<1>2. c \in Calls
  BY <1>1 DEF Calls, Steps, TypeOK
<1>3. Moves(w, c)
  BY DEF Ask, Moves, TypeOK
<1> QED BY <1>2, <1>3

LEMMA AnswerMoves ==
  ASSUME TypeOK, NEW w \in Callers, Answer(w)
  PROVE  \E c \in Calls : Moves(w, c) /\ c = [call[w] EXCEPT !.pc = "answered", !.asof = now]
<1>1. call[w] \in Calls
  BY Active DEF Answer, Steps
<1> DEFINE c == [call[w] EXCEPT !.pc = "answered", !.asof = now]
<1>2. c \in Calls
  BY <1>1 DEF Calls, Steps, TypeOK
<1>3. Moves(w, c)
  BY DEF Answer, Moves, TypeOK
<1> QED BY <1>2, <1>3

LEMMA OrdersArriveMoves ==
  ASSUME TypeOK, NEW w \in Callers, OrdersArrive(w)
  PROVE  \E c \in Calls : /\ Moves(w, c)
                          /\ c = [call[w] EXCEPT !.pc = "merge", !.asof = 0, !.snap =
                                    [@ EXCEPT ![call[w].market] = Collected(call[w])]]
<1>1. call[w] \in Calls
  BY Active DEF OrdersArrive, Steps
<1> DEFINE c == [call[w] EXCEPT !.pc = "merge", !.asof = 0, !.snap =
                   [@ EXCEPT ![call[w].market] = Collected(call[w])]]
<1>2. Collected(call[w]) \in Entries
  BY <1>1, CollectedType DEF TypeOK
<1>3. [call[w].snap EXCEPT ![call[w].market] = Collected(call[w])] \in Snapshots
  BY <1>1, <1>2 DEF Calls, Snapshots
<1>4. c \in Calls
  BY <1>1, <1>3 DEF Calls, Steps
<1>5. Moves(w, c)
  BY DEF OrdersArrive, Moves, TypeOK
<1> QED BY <1>4, <1>5


LEMMA BalanceArrivesMoves ==
  ASSUME TypeOK, NEW w \in Callers, BalanceArrives(w)
  PROVE  \E c \in Calls : Moves(w, c) /\ c = [call[w] EXCEPT !.pc = "orders"]
<1>1. call[w] \in Calls
  BY Active DEF BalanceArrives, Steps
<1> DEFINE c == [call[w] EXCEPT !.pc = "orders"]
<1>2. c \in Calls
  BY <1>1 DEF Calls, Steps
<1>3. Moves(w, c)
  BY DEF BalanceArrives, Moves, TypeOK
<1> QED BY <1>2, <1>3

LEMMA BalanceFromCacheMoves ==
  ASSUME TypeOK, NEW w \in Callers, BalanceFromCache(w)
  PROVE  \E c \in Calls : Moves(w, c) /\ c = [call[w] EXCEPT !.pc = "orders", !.asof =
                                    cache[Home[w]][call[w].market].asof]
<1>1. call[w] \in Calls
  BY Active DEF BalanceFromCache, Steps
<1> DEFINE c == [call[w] EXCEPT !.pc = "orders", !.asof =
                                    cache[Home[w]][call[w].market].asof]
<1>4. cache[Home[w]][call[w].market] \in Cached
  BY <1>1, HomeAssumption DEF TypeOK, Calls
<1>2. c \in Calls
  BY <1>1, <1>4 DEF Calls, Steps, Cached
<1>3. Moves(w, c)
  BY DEF BalanceFromCache, Moves, TypeOK
<1> QED BY <1>2, <1>3

LEMMA CollectFailsMoves ==
  ASSUME TypeOK, NEW w \in Callers, CollectFails(w)
  PROVE  \E c \in Calls :
            /\ Moves(w, c)
            /\ c = [call[w] EXCEPT !.pc = "merge", !.asof = 0, !.failed = TRUE, !.snap =
                      [call[w].snap EXCEPT ![call[w].market] =
                         Failed(call[w].snap[call[w].market])]]
<1>1. call[w] \in Calls
  BY Active DEF CollectFails, Steps
<1> DEFINE e == call[w].snap[call[w].market]
           s == [call[w].snap EXCEPT ![call[w].market] = Failed(e)]
           c == [call[w] EXCEPT !.pc = "merge", !.asof = 0, !.failed = TRUE, !.snap = s]
<1>2. e \in Entries
  BY <1>1 DEF Calls, Snapshots
<1>3. Failed(e) \in Entries
  BY <1>2, FailedType
<1>4. s \in Snapshots
  BY <1>1, <1>3 DEF Calls, Snapshots
<1>5. c \in Calls
  BY <1>1, <1>4 DEF Calls, Steps
<1>6. Moves(w, c)
  BY DEF CollectFails, Moves, TypeOK
<1> QED BY <1>5, <1>6

LEMMA ReplaceFailsMoves ==
  ASSUME TypeOK, NEW w \in Callers, ReplaceFails(w)
  PROVE  \E c \in Calls : Moves(w, c) /\ c = [call[w] EXCEPT !.pc = "sidecar", !.alone = FALSE]
<1>1. call[w] \in Calls
  BY Active DEF ReplaceFails, Steps
<1> DEFINE c == [call[w] EXCEPT !.pc = "sidecar", !.alone = FALSE]
<1>2. c \in Calls
  BY <1>1 DEF Calls, Steps
<1>3. Moves(w, c)
  BY DEF ReplaceFails, Moves, TypeOK
<1> QED BY <1>2, <1>3

LEMMA WriteLastGoodMoves ==
  ASSUME TypeOK, NEW w \in Callers, WriteLastGood(w)
  PROVE  \E c \in Calls : Moves(w, c) /\ c = [call[w] EXCEPT !.pc = "done"]
<1>1. call[w] \in Calls
  BY Active DEF WriteLastGood, Steps
<1> DEFINE c == [call[w] EXCEPT !.pc = "done"]
<1>2. c \in Calls
  BY <1>1 DEF Calls, Steps
<1>3. Moves(w, c)
  BY DEF WriteLastGood, Moves, TypeOK
<1> QED BY <1>2, <1>3

LEMMA MergeMoves ==
  ASSUME TypeOK, NEW w \in Callers, Merge(w)
  PROVE  \E c \in Calls : /\ Moves(w, c)
                          /\ \/ c = [call[w] EXCEPT !.pc = "replace", !.snap = Merged(@, file)]
                             \/ c = [call[w] EXCEPT !.pc = "replace", !.raced = TRUE,
                                                    !.alone = FALSE]
<1>1. call[w] \in Calls
  BY Active DEF Merge, Steps
<1> DEFINE c == [call[w] EXCEPT !.pc = "replace", !.snap = Merged(@, file)]
           d == [call[w] EXCEPT !.pc = "replace", !.raced = TRUE, !.alone = FALSE]
<1>2. Merged(call[w].snap, file) \in Snapshots
  BY <1>1, MergedType DEF Calls, TypeOK
<1>3. c \in Calls /\ d \in Calls
  BY <1>1, <1>2 DEF Calls, Steps
<1>4. Moves(w, c) \/ Moves(w, d)
  BY DEF Merge, Moves, TypeOK
<1> QED BY <1>3, <1>4

\* Begin and Replace change other calls too, but only their history.
LEMMA BeginMoves ==
  ASSUME TypeOK, NEW w \in Callers, NEW m \in Markets, NEW force \in BOOLEAN,
         Begin(w, m, force)
  PROVE  /\ call' \in [Callers -> Calls \cup {Idle}]
         /\ \E snap \in Loads, a \in BOOLEAN :
              /\ a => snap = file /\ \A u \in Callers \ {w} : call[u] = Idle
              /\ call'[w] = [pc |-> "ask", market |-> m, force |-> force, snap |-> snap,
                             since |-> 0, asof |-> 0, failed |-> FALSE, raced |-> FALSE,
                             alone |-> a]
         /\ \A v \in Callers \ {w} :
              call'[v] = IF call[v] = Idle THEN Idle ELSE [call[v] EXCEPT !.alone = FALSE]
<1>1. PICK snap \in Loads :
        call' = [v \in Callers |->
                      IF v = w
                      THEN [pc |-> "ask", market |-> m, force |-> force, snap |-> snap,
                            since |-> 0, asof |-> 0, failed |-> FALSE, raced |-> FALSE,
                            alone |-> snap = file /\ \A u \in Callers \ {w} : call[u] = Idle]
                      ELSE IF call[v] = Idle THEN Idle ELSE [call[v] EXCEPT !.alone = FALSE]]
  BY DEF Begin
<1>2. snap \in Snapshots
  BY NeverType DEF Loads, TypeOK
<1>3. ASSUME NEW v \in Callers PROVE call'[v] \in Calls \cup {Idle}
  <2>1. CASE v = w
    <3>1. (snap = file /\ \A u \in Callers \ {w} : call[u] = Idle) \in BOOLEAN
      OBVIOUS
    <3> QED BY <1>1, <1>2, <2>1, <3>1 DEF Calls, Steps
  <2>2. CASE v # w /\ call[v] # Idle
    <3>1. call[v] \in Calls
      BY <2>2, Active
    <3> QED BY <1>1, <2>2, <3>1 DEF Calls
  <2> QED BY <1>1, <2>1, <2>2
<1> DEFINE alone == snap = file /\ \A u \in Callers \ {w} : call[u] = Idle
<1>4. alone \in BOOLEAN
  OBVIOUS
<1>5. alone => snap = file /\ \A u \in Callers \ {w} : call[u] = Idle
  OBVIOUS
<1>6. call'[w] = [pc |-> "ask", market |-> m, force |-> force, snap |-> snap,
                  since |-> 0, asof |-> 0, failed |-> FALSE, raced |-> FALSE,
                  alone |-> alone]
  BY <1>1
<1>7. call' \in [Callers -> Calls \cup {Idle}]
  BY <1>1, <1>3
<1>8. \A v \in Callers \ {w} :
        call'[v] = IF call[v] = Idle THEN Idle ELSE [call[v] EXCEPT !.alone = FALSE]
  BY <1>1
<1> HIDE DEF alone
<1> QED BY <1>4, <1>5, <1>6, <1>7, <1>8

LEMMA ReplaceMoves ==
  ASSUME TypeOK, NEW w \in Callers, Replace(w)
  PROVE  /\ call[w] \in Calls
         /\ call' \in [Callers -> Calls \cup {Idle}]
         /\ call'[w] = [call[w] EXCEPT !.pc = "sidecar"]
         /\ \A v \in Callers \ {w} :
              call'[v] = IF call[v].pc = "replace" THEN [call[v] EXCEPT !.raced = TRUE]
                         ELSE call[v]
<1>1. call[w] \in Calls
  BY Active DEF Replace, Steps
<1>2. /\ call'[w] = [call[w] EXCEPT !.pc = "sidecar"]
      /\ \A v \in Callers \ {w} :
              call'[v] = IF call[v].pc = "replace" THEN [call[v] EXCEPT !.raced = TRUE]
                         ELSE call[v]
  BY DEF Replace
<1>3. ASSUME NEW v \in Callers PROVE call'[v] \in Calls \cup {Idle}
  <2>1. CASE v = w
    BY <1>1, <1>2, <2>1 DEF Calls, Steps
  <2>2. CASE v # w /\ call[v].pc = "replace"
    <3>1. call[v] \in Calls
      BY <2>2, Active DEF Steps
    <3> QED BY <1>2, <2>2, <3>1 DEF Calls
  <2>3. CASE v # w /\ call[v].pc # "replace"
    BY <1>2, <2>3 DEF TypeOK
  <2> QED BY <2>1, <2>2, <2>3
<1> QED BY <1>1, <1>2, <1>3 DEF Replace

LEMMA InitType == Init => TypeOK
<1>1. NotCached \in Cached
  BY DEF NotCached, Cached
<1> QED BY <1>1, NeverType DEF Init, TypeOK

\* Every variable keeps its type: what load_snapshot, the merge and the two branches of
\* refresh_market make of an entry is an entry, whoever refreshes.
THEOREM TypeCorrect == Spec => []TypeOK
<1>1. Init => TypeOK
  BY InitType
<1>2. TypeOK /\ [Next]_vars => TypeOK'
  <2> SUFFICES ASSUME TypeOK, [Next]_vars PROVE TypeOK'
    OBVIOUS
  <2>1. CASE UNCHANGED vars
    BY <2>1 DEF vars, bounds, TypeOK
  <2>2. ASSUME NEW w \in Callers, NEW m \in Markets, NEW force \in BOOLEAN,
               Begin(w, m, force)
        PROVE  TypeOK'
    <3>1. faults' \in Nat
      BY <2>2 DEF Begin, Fault, NoFault, TypeOK
    <3>2. call' \in [Callers -> Calls \cup {Idle}]
      BY <2>2, BeginMoves
    <3>3. /\ refreshes' = refreshes + 1
          /\ UNCHANGED <<now, file, lastGood, cache, others>>
      BY <2>2 DEF Begin
    <3> QED BY <3>1, <3>2, <3>3 DEF TypeOK
  <2>3. ASSUME NEW w \in Callers, Ask(w) PROVE TypeOK'
    <3>1. call[w] \in Calls /\ NotCached \in Cached
      BY <2>3, Active DEF Ask, Steps, NotCached, Cached
    <3>2. cache' \in [Procs -> [Markets -> Cached]]
      BY <2>3, <3>1, HomeAssumption DEF Ask, TypeOK, Calls
    <3> QED BY <2>3, <3>2, AskMoves, MovesType DEF Ask, bounds, TypeOK
  <2>4. ASSUME NEW w \in Callers, Answer(w) PROVE TypeOK'
    BY <2>4, AnswerMoves, MovesType DEF Answer, bounds, TypeOK
  <2>5. ASSUME NEW w \in Callers, BalanceArrives(w) PROVE TypeOK'
    <3>1. call[w] \in Calls
      BY <2>5, Active DEF BalanceArrives, Steps
    <3>2. [asof |-> call[w].asof, ts |-> now] \in Cached
      BY <3>1 DEF Calls, Cached, TypeOK
    <3>3. cache' \in [Procs -> [Markets -> Cached]]
      BY <2>5, <3>1, <3>2, HomeAssumption DEF BalanceArrives, TypeOK, Calls
    <3> QED BY <2>5, <3>3, BalanceArrivesMoves, MovesType DEF BalanceArrives, bounds, TypeOK
  <2>6. ASSUME NEW w \in Callers, BalanceFromCache(w) PROVE TypeOK'
    BY <2>6, BalanceFromCacheMoves, MovesType DEF BalanceFromCache, bounds, TypeOK
  <2>7. ASSUME NEW w \in Callers, OrdersArrive(w) PROVE TypeOK'
    BY <2>7, OrdersArriveMoves, MovesType DEF OrdersArrive, bounds, TypeOK
  <2>8. ASSUME NEW w \in Callers, CollectFails(w) PROVE TypeOK'
    BY <2>8, CollectFailsMoves, MovesType DEF CollectFails, bounds, TypeOK
  <2>9. ASSUME NEW w \in Callers, Merge(w) PROVE TypeOK'
    <3>1. faults' \in Nat
      BY <2>9 DEF Merge, Fault, NoFault, TypeOK
    <3> QED BY <2>9, <3>1, MergeMoves, MovesType DEF Merge, TypeOK
  <2>10. ASSUME NEW w \in Callers, Replace(w) PROVE TypeOK'
    BY <2>10, ReplaceMoves DEF Replace, bounds, TypeOK, Calls
  <2>11. ASSUME NEW w \in Callers, ReplaceFails(w) PROVE TypeOK'
    <3>1. call' \in [Callers -> Calls \cup {Idle}]
      BY <2>11, ReplaceFailsMoves, MovesType
    <3>2. faults' = faults + 1 /\ UNCHANGED <<now, file, lastGood, cache, refreshes, others>>
      BY <2>11 DEF ReplaceFails, Fault
    <3> QED BY <3>1, <3>2 DEF TypeOK
  <2>12. ASSUME NEW w \in Callers, WriteLastGood(w) PROVE TypeOK'
    <3>1. call[w] \in Calls
      BY <2>12, Active DEF WriteLastGood, Steps
    <3>2. lastGood' \in Snapshots /\ faults' \in Nat
      BY <2>12, <3>1 DEF WriteLastGood, Fault, NoFault, TypeOK, Calls
    <3> QED BY <2>12, <3>2, WriteLastGoodMoves, MovesType DEF WriteLastGood, TypeOK
  <2>13. ASSUME NEW w \in Callers, Return(w) PROVE TypeOK'
    BY <2>13 DEF Return, bounds, TypeOK
  <2>14. ASSUME NEW p \in Users, NEW m \in Markets, OtherBalance(p, m) PROVE TypeOK'
    <3>1. NotCached \in Cached /\ \A a \in 1 .. now : [asof |-> a, ts |-> now] \in Cached
      BY DEF NotCached, Cached, TypeOK
    <3>2. cache' \in [Procs -> [Markets -> Cached]]
      BY <2>14, <3>1, HomeAssumption DEF OtherBalance, TypeOK
    <3> QED BY <2>14, <3>2 DEF OtherBalance, TypeOK
  <2>15. ASSUME NEW p \in Procs, Restart(p) PROVE TypeOK'
    <3>1. [m \in Markets |-> NotCached] \in [Markets -> Cached]
      BY DEF NotCached, Cached
    <3>2. cache' \in [Procs -> [Markets -> Cached]]
      BY <2>15, <3>1 DEF Restart, TypeOK
    <3>3. call' \in [Callers -> Calls \cup {Idle}]
      BY <2>15 DEF Restart, TypeOK
    <3> QED BY <2>15, <3>2, <3>3 DEF Restart, Fault, TypeOK
  <2>16. CASE Tick
    BY <2>16 DEF Tick, bounds, TypeOK
  <2> QED
    BY <2>1, <2>2, <2>3, <2>4, <2>5, <2>6, <2>7, <2>8, <2>9, <2>10, <2>11, <2>12, <2>13,
       <2>14, <2>15, <2>16 DEF Next, Step
<1> QED BY <1>1, <1>2, PTL DEF Spec

(***************************************************************************)
(* The inductive invariants.                                               *)
(***************************************************************************)

\* An entry is stamped by now, and not long after the broker's answer it holds.
EntryOK(e) == e.stamp <= now /\ e.stamp <= e.asof + Lag(e)
SnapOK(s) == \A m \in Markets : EntryOK(s[m])

\* A balance was cached by now, at most one slow call after the broker's answer.
CacheOK == \A p \in Procs, m \in Markets :
              cache[p][m].ts <= now /\ cache[p][m].ts <= cache[p][m].asof + Slow

\* What a refresh knows: it has not been asking the broker for longer than allowed; what a
\* forced one finds in the cache, dropped when it began to ask, came from a call that was under
\* way then; the balance in hand is as old as its source allows.
CallOK(w) == call[w] # Idle =>
    /\ SnapOK(call[w].snap)
    /\ Collecting(w) => call[w].since <= now /\ now <= call[w].since + Slow
    /\ call[w].pc \in {"wait", "answered"} /\ call[w].force =>
         LET c == cache[Home[w]][call[w].market] IN c.ts > 0 => call[w].since <= c.asof + Slow
    /\ call[w].pc = "answered" => call[w].since <= call[w].asof
    /\ call[w].pc = "orders" =>
         call[w].since <= call[w].asof + (IF call[w].force THEN Slow ELSE CacheTTL + Slow)

FreshInv ==
    /\ SnapOK(file) /\ SnapOK(lastGood)
    /\ CacheOK
    /\ \A w \in Callers : CallOK(w)

\* A refresh that has taken over what was newer, and did not race, holds nothing older than
\* the file.
NoOlder(s, t) == \A m \in Markets : t[m].stamp <= s[m].stamp
RaceInv == \A w \in Callers :
    call[w].pc = "replace" /\ ~call[w].raced => NoOlder(call[w].snap, file)

\* What a refresh makes of its market's entry.
Outcome(c) ==
    LET e == c.snap[c.market] IN
    IF c.failed THEN e.err
    ELSE ~e.err /\ e.stamp >= c.since /\ (c.force => c.since <= e.asof + Slow)

\* A refresh that is alone: no other is under way, and the file is what it loaded, until it is
\* what it wrote.
Intact(c, f) ==
    /\ c.pc \in {"ask", "wait", "answered", "orders"} => c.snap = f /\ ~c.failed
    /\ c.pc \in {"merge", "replace"} => NoOlder(c.snap, f)
    /\ c.pc \in {"merge", "replace", "sidecar", "done"} => Outcome(c)
    /\ c.pc \in {"sidecar", "done"} => f = c.snap
AloneInv == \A w \in Callers : call[w] # Idle /\ call[w].alone =>
    (\A u \in Callers \ {w} : call[u] = Idle) /\ Intact(call[w], file)

\* What a step may do to the caches.
CacheMoves == \A p \in Procs, m \in Markets :
    \/ cache'[p][m] = cache[p][m]
    \/ cache'[p][m].ts = 0
    \/ cache'[p][m].ts = now /\ now <= cache'[p][m].asof + Slow

LEMMA CacheKept ==
  ASSUME TypeOK, TypeOK', now' = now, CacheOK, CacheMoves
  PROVE  CacheOK'
<1>1. SUFFICES ASSUME NEW p \in Procs, NEW m \in Markets
               PROVE  cache'[p][m].ts <= now /\ cache'[p][m].ts <= cache'[p][m].asof + Slow
  BY DEF CacheOK
<1>2. cache[p][m].ts <= now /\ cache[p][m].ts <= cache[p][m].asof + Slow
  BY DEF CacheOK
<1>3. cache'[p][m] \in Cached /\ now \in Nat
  BY DEF TypeOK
<1> QED BY <1>2, <1>3, TimesAssumption DEF CacheMoves, Cached

\* A caller that stays where it is.
LEMMA CallKept ==
  ASSUME TypeOK, TypeOK', now' = now, CacheMoves,
         NEW v \in Callers, CallOK(v), call'[v] = call[v]
  PROVE  CallOK(v)'
<1>1. SUFFICES ASSUME call[v] # Idle PROVE CallOK(v)'
  BY DEF CallOK
<1>2. call[v] \in Calls
  BY <1>1, Active
<1>3. SnapOK(call[v].snap)'
  BY <1>1 DEF CallOK, SnapOK, EntryOK, Lag
<1>4. ASSUME call[v].pc \in {"wait", "answered"}, call[v].force,
             cache'[Home[v]][call[v].market].ts > 0
      PROVE  call[v].since <= cache'[Home[v]][call[v].market].asof + Slow
  <2> DEFINE c == cache[Home[v]][call[v].market]
             d == cache'[Home[v]][call[v].market]
  <2>1. Home[v] \in Procs /\ call[v].market \in Markets
    BY <1>2, HomeAssumption DEF Calls
  <2>2. d \in Cached /\ now \in Nat /\ call[v].since \in Nat
    BY <1>2, <2>1 DEF TypeOK, Calls
  <2>3. call[v].since <= now
    BY <1>1, <1>4 DEF CallOK, Collecting
  <2>4. c.ts > 0 => call[v].since <= c.asof + Slow
    BY <1>1, <1>4 DEF CallOK
  <2>5. d = c \/ d.ts = 0 \/ now <= d.asof + Slow
    BY <2>1 DEF CacheMoves
  <2>6. CASE d = c
    BY <1>4, <2>4, <2>6
  <2>7. CASE d.ts = 0
    BY <1>4, <2>7
  <2>8. CASE now <= d.asof + Slow
    BY <2>2, <2>3, <2>8, TimesAssumption DEF Cached
  <2> QED BY <2>5, <2>6, <2>7, <2>8
<1> QED BY <1>1, <1>3, <1>4 DEF CallOK, Collecting

\* A step of one caller keeps FreshInv if it does for its own call, the caches and the files.
LEMMA MoveKeeps ==
  ASSUME TypeOK, TypeOK', FreshInv, NEW w \in Callers, NEW c \in Calls, Moves(w, c),
         now' = now, CacheMoves, CallOK(w)', SnapOK(file)', SnapOK(lastGood)'
  PROVE  FreshInv'
<1>1. CacheOK'
  BY CacheKept DEF FreshInv
<1>2. ASSUME NEW v \in Callers PROVE CallOK(v)'
  <2>1. CASE v # w
    <3>1. call'[v] = call[v]
      BY <2>1 DEF Moves, TypeOK
    <3> QED BY <3>1, CallKept DEF FreshInv
  <2> QED BY <2>1
<1> QED BY <1>1, <1>2 DEF FreshInv

LEMMA FilesKept ==
  ASSUME now' = now, file' = file, lastGood' = lastGood, FreshInv
  PROVE  SnapOK(file)' /\ SnapOK(lastGood)'
  BY DEF FreshInv, SnapOK, EntryOK, Lag

LEMMA NeverOK == ASSUME TypeOK PROVE SnapOK(EmptySnapshot)
  BY TimesAssumption DEF SnapOK, EntryOK, EmptySnapshot, Never, Lag, TypeOK

\* The steps before the entry is made.
LEMMA AskFresh ==
  ASSUME TypeOK, TypeOK', FreshInv, NEW w \in Callers, Ask(w)
  PROVE  FreshInv'
<1>1. PICK c \in Calls : Moves(w, c) /\ c = [call[w] EXCEPT !.pc = "wait", !.since = now]
  BY AskMoves
<1>2. call[w] \in Calls /\ call[w] # Idle
  BY Active DEF Ask, Steps
<1>3. call'[w] = c
  BY <1>1 DEF Moves, TypeOK
<1>4. now' = now /\ now \in Nat /\ file' = file /\ lastGood' = lastGood
  BY DEF Ask, TypeOK
<1>5. CacheMoves
  <2>1. ASSUME NEW p \in Procs, NEW m \in Markets
        PROVE  cache'[p][m] = cache[p][m] \/ cache'[p][m] = NotCached
    BY <1>2, HomeAssumption DEF Ask, TypeOK, Calls
  <2> QED BY <2>1 DEF CacheMoves, NotCached
<1>6. SnapOK(c.snap)'
  BY <1>1, <1>2, <1>4 DEF FreshInv, CallOK, SnapOK, EntryOK, Lag, Calls
<1>7. c.force => cache'[Home[w]][c.market].ts = 0
  <2>1. Home[w] \in Procs /\ call[w].market \in Markets /\ c.market = call[w].market
        /\ c.force = call[w].force
    BY <1>1, <1>2, HomeAssumption DEF Calls
  <2> QED BY <2>1 DEF Ask, TypeOK, NotCached
<1>8. c.pc = "wait" /\ c.since = now
  BY <1>1, <1>2 DEF Calls
<1>9. CallOK(w)'
  BY <1>3, <1>4, <1>6, <1>7, <1>8, TimesAssumption DEF CallOK, Collecting
<1> QED BY <1>1, <1>4, <1>5, <1>9, FilesKept, MoveKeeps

LEMMA AnswerFresh ==
  ASSUME TypeOK, TypeOK', FreshInv, NEW w \in Callers, Answer(w)
  PROVE  FreshInv'
<1>1. PICK c \in Calls : Moves(w, c) /\ c = [call[w] EXCEPT !.pc = "answered", !.asof = now]
  BY AnswerMoves
<1>2. call[w] \in Calls /\ call[w] # Idle /\ call[w].pc = "wait"
  BY Active DEF Answer, Steps
<1>3. call'[w] = c
  BY <1>1 DEF Moves, TypeOK
<1>4. now' = now /\ now \in Nat /\ file' = file /\ lastGood' = lastGood /\ cache' = cache
  BY DEF Answer, TypeOK
<1>5. CacheMoves
  BY <1>4 DEF CacheMoves
<1>6. /\ c.pc = "answered" /\ c.asof = now /\ c.since = call[w].since /\ c.snap = call[w].snap
      /\ c.force = call[w].force /\ c.market = call[w].market
  BY <1>1, <1>2 DEF Calls
<1>7. CallOK(w)
  BY DEF FreshInv
<1>8. SnapOK(c.snap)'
  BY <1>2, <1>4, <1>6, <1>7 DEF CallOK, SnapOK, EntryOK, Lag
<1>9. CallOK(w)'
  BY <1>2, <1>3, <1>4, <1>6, <1>7, <1>8 DEF CallOK, Collecting
<1> QED BY <1>1, <1>4, <1>5, <1>9, FilesKept, MoveKeeps

LEMMA BalanceArrivesFresh ==
  ASSUME TypeOK, TypeOK', FreshInv, NEW w \in Callers, BalanceArrives(w)
  PROVE  FreshInv'
<1>1. PICK c \in Calls : Moves(w, c) /\ c = [call[w] EXCEPT !.pc = "orders"]
  BY BalanceArrivesMoves
<1>2. call[w] \in Calls /\ call[w] # Idle /\ call[w].pc = "answered"
  BY Active DEF BalanceArrives, Steps
<1>3. call'[w] = c
  BY <1>1 DEF Moves, TypeOK
<1>4. now' = now /\ now \in Nat /\ file' = file /\ lastGood' = lastGood
  BY DEF BalanceArrives, TypeOK
<1>5. CallOK(w) /\ call[w].since \in Nat /\ call[w].asof \in Nat
  BY <1>2 DEF FreshInv, Calls
<1>6. now <= call[w].asof + Slow
  BY <1>2, <1>4, <1>5, TimesAssumption DEF CallOK, Collecting
<1>7. CacheMoves
  <2>1. ASSUME NEW p \in Procs, NEW m \in Markets
        PROVE  cache'[p][m] = cache[p][m] \/ cache'[p][m] = [asof |-> call[w].asof, ts |-> now]
    BY <1>2, HomeAssumption DEF BalanceArrives, TypeOK, Calls
  <2> QED BY <1>6, <2>1 DEF CacheMoves
<1>8. /\ c.pc = "orders" /\ c.asof = call[w].asof /\ c.since = call[w].since
      /\ c.snap = call[w].snap /\ c.force = call[w].force
  BY <1>1, <1>2 DEF Calls
<1>9. SnapOK(c.snap)'
  BY <1>2, <1>4, <1>5, <1>8 DEF CallOK, SnapOK, EntryOK, Lag
<1>10. CallOK(w)'
  BY <1>2, <1>3, <1>4, <1>5, <1>8, <1>9, TimesAssumption DEF CallOK, Collecting
<1> QED BY <1>1, <1>4, <1>7, <1>10, FilesKept, MoveKeeps

LEMMA BalanceFromCacheFresh ==
  ASSUME TypeOK, TypeOK', FreshInv, NEW w \in Callers, BalanceFromCache(w)
  PROVE  FreshInv'
<1> DEFINE d == cache[Home[w]][call[w].market]
<1>1. PICK c \in Calls : Moves(w, c) /\ c = [call[w] EXCEPT !.pc = "orders", !.asof = d.asof]
  BY BalanceFromCacheMoves
<1>2. call[w] \in Calls /\ call[w] # Idle /\ call[w].pc \in {"wait", "answered"}
  BY Active DEF BalanceFromCache, Steps
<1>3. call'[w] = c
  BY <1>1 DEF Moves, TypeOK
<1>4. now' = now /\ now \in Nat /\ file' = file /\ lastGood' = lastGood /\ cache' = cache
  BY DEF BalanceFromCache, TypeOK
<1>5. CacheMoves
  BY <1>4 DEF CacheMoves
<1>6. /\ c.pc = "orders" /\ c.asof = d.asof /\ c.since = call[w].since
      /\ c.snap = call[w].snap /\ c.force = call[w].force /\ c.since \in Nat
      /\ c.force \in BOOLEAN
  BY <1>1, <1>2 DEF Calls
<1>7. CallOK(w)
  BY DEF FreshInv
<1>8. Home[w] \in Procs /\ call[w].market \in Markets /\ d \in Cached
  BY <1>2, HomeAssumption DEF Calls, TypeOK
<1>9. d.ts > 0 /\ now - d.ts <= CacheTTL /\ d.ts <= d.asof + Slow /\ d.ts \in Nat /\ d.asof \in Nat
  BY <1>8 DEF BalanceFromCache, InCache, FreshInv, CacheOK, Cached
<1>10. c.since <= c.asof + (IF c.force THEN Slow ELSE CacheTTL + Slow)
  <2>1. CASE c.force
    BY <1>2, <1>6, <1>7, <1>9, <2>1 DEF CallOK
  <2>2. CASE ~c.force
    <3>1. c.since <= now
      BY <1>2, <1>6, <1>7 DEF CallOK, Collecting
    <3> QED BY <1>4, <1>6, <1>9, <2>2, <3>1, TimesAssumption
  <2> QED BY <2>1, <2>2
<1>11. SnapOK(c.snap)'
  BY <1>2, <1>4, <1>6, <1>7 DEF CallOK, SnapOK, EntryOK, Lag
<1>12. CallOK(w)'
  BY <1>2, <1>3, <1>4, <1>6, <1>7, <1>10, <1>11 DEF CallOK, Collecting
<1> QED BY <1>1, <1>4, <1>5, <1>12, FilesKept, MoveKeeps

\* The steps from the entry on: all that matters is the snapshot in hand.
LEMMA LaterOK ==
  ASSUME NEW w \in Callers, call'[w].pc \in {"merge", "replace", "sidecar", "done"},
         SnapOK(call[w].snap)'
  PROVE  CallOK(w)'
  BY DEF CallOK, Collecting

LEMMA OrdersArriveFresh ==
  ASSUME TypeOK, TypeOK', FreshInv, NEW w \in Callers, OrdersArrive(w)
  PROVE  FreshInv'
<1> DEFINE s == [call[w].snap EXCEPT ![call[w].market] = Collected(call[w])]
<1>1. PICK c \in Calls : Moves(w, c) /\ c = [call[w] EXCEPT !.pc = "merge", !.asof = 0, !.snap = s]
  BY OrdersArriveMoves
<1>2. call[w] \in Calls /\ call[w] # Idle /\ call[w].pc = "orders"
  BY Active DEF OrdersArrive, Steps
<1>3. call'[w] = c /\ c.pc = "merge" /\ c.snap = s
  BY <1>1, <1>2 DEF Moves, TypeOK, Calls
<1>4. now' = now /\ now \in Nat /\ file' = file /\ lastGood' = lastGood /\ CacheMoves
  BY DEF OrdersArrive, TypeOK, CacheMoves
<1>5. CallOK(w)
  BY DEF FreshInv
<1>6. EntryOK(Collected(call[w]))
  <2>1. call[w].asof \in Nat /\ call[w].since \in Nat /\ call[w].force \in BOOLEAN
    BY <1>2 DEF Calls
  <2>2. now <= call[w].since + Slow
    BY <1>2, <1>5 DEF CallOK, Collecting
  <2>3. call[w].since <= call[w].asof + (IF call[w].force THEN Slow ELSE CacheTTL + Slow)
    BY <1>2, <1>5 DEF CallOK
  <2> QED
    BY <1>4, <2>1, <2>2, <2>3, TimesAssumption DEF Collected, EntryOK, Lag
<1>7. ASSUME NEW m \in Markets PROVE EntryOK(s[m])
  <2>1. call[w].snap \in Snapshots
    BY <1>2 DEF Calls
  <2>2. s[m] = IF m = call[w].market THEN Collected(call[w]) ELSE call[w].snap[m]
    BY <2>1 DEF Snapshots
  <2>3. EntryOK(call[w].snap[m])
    BY <1>2, <1>5 DEF CallOK, SnapOK
  <2> QED BY <1>6, <2>2, <2>3
<1>8. SnapOK(call[w].snap)'
  BY <1>3, <1>4, <1>7 DEF SnapOK, EntryOK, Lag
<1> QED BY <1>1, <1>3, <1>4, <1>8, LaterOK, FilesKept, MoveKeeps

LEMMA CollectFailsFresh ==
  ASSUME TypeOK, TypeOK', FreshInv, NEW w \in Callers, CollectFails(w)
  PROVE  FreshInv'
<1> DEFINE e == call[w].snap[call[w].market]
           s == [call[w].snap EXCEPT ![call[w].market] = Failed(e)]
<1>1. PICK c \in Calls :
        Moves(w, c) /\ c = [call[w] EXCEPT !.pc = "merge", !.asof = 0, !.failed = TRUE, !.snap = s]
  BY CollectFailsMoves
<1>2. call[w] \in Calls /\ call[w] # Idle
  BY Active DEF CollectFails, Steps
<1>3. call'[w] = c /\ c.pc = "merge" /\ c.snap = s
  BY <1>1, <1>2 DEF Moves, TypeOK, Calls
<1>4. now' = now /\ now \in Nat /\ file' = file /\ lastGood' = lastGood /\ CacheMoves
  BY DEF CollectFails, TypeOK, CacheMoves
<1>5. SnapOK(call[w].snap) /\ call[w].snap \in Snapshots /\ call[w].market \in Markets
  BY <1>2 DEF FreshInv, CallOK, Calls
<1>6. e \in Entries /\ EntryOK(e)
  BY <1>5 DEF Snapshots, SnapOK
<1>7. EntryOK(Failed(e))
  BY <1>6, FailedType DEF EntryOK, Lag
<1>8. ASSUME NEW m \in Markets PROVE EntryOK(s[m])
  <2>1. s[m] = IF m = call[w].market THEN Failed(e) ELSE call[w].snap[m]
    BY <1>5 DEF Snapshots
  <2> QED BY <1>5, <1>7, <2>1 DEF SnapOK
<1>9. SnapOK(call[w].snap)'
  BY <1>3, <1>4, <1>8 DEF SnapOK, EntryOK, Lag
<1> QED BY <1>1, <1>3, <1>4, <1>9, LaterOK, FilesKept, MoveKeeps

LEMMA MergeFresh ==
  ASSUME TypeOK, TypeOK', FreshInv, NEW w \in Callers, Merge(w)
  PROVE  FreshInv'
<1>1. PICK c \in Calls :
        /\ Moves(w, c)
        /\ \/ c = [call[w] EXCEPT !.pc = "replace", !.snap = Merged(@, file)]
           \/ c = [call[w] EXCEPT !.pc = "replace", !.raced = TRUE, !.alone = FALSE]
  BY MergeMoves
<1>2. call[w] \in Calls /\ call[w] # Idle
  BY Active DEF Merge, Steps
<1>3. /\ call'[w] = c /\ c.pc = "replace"
      /\ c.snap = Merged(call[w].snap, file) \/ c.snap = call[w].snap
  BY <1>1, <1>2 DEF Moves, TypeOK, Calls
<1>4. now' = now /\ now \in Nat /\ file' = file /\ lastGood' = lastGood /\ CacheMoves
  BY DEF Merge, TypeOK, CacheMoves
<1>5. SnapOK(call[w].snap) /\ SnapOK(file)
  BY <1>2 DEF FreshInv, CallOK
<1>6. SnapOK(Merged(call[w].snap, file))
  BY <1>5 DEF SnapOK, Merged
<1>7. SnapOK(call[w].snap)'
  BY <1>3, <1>4, <1>5, <1>6 DEF SnapOK, EntryOK, Lag
<1> QED BY <1>1, <1>3, <1>4, <1>7, LaterOK, FilesKept, MoveKeeps

LEMMA WriteFresh ==
  ASSUME TypeOK, TypeOK', FreshInv, NEW w \in Callers, ReplaceFails(w) \/ WriteLastGood(w)
  PROVE  FreshInv'
<1>1. PICK c \in Calls :
        /\ Moves(w, c)
        /\ \/ c = [call[w] EXCEPT !.pc = "sidecar", !.alone = FALSE]
           \/ c = [call[w] EXCEPT !.pc = "done"]
  BY ReplaceFailsMoves, WriteLastGoodMoves
<1>2. call[w] \in Calls /\ call[w] # Idle
  BY Active DEF ReplaceFails, WriteLastGood, Steps
<1>3. call'[w] = c /\ c.pc \in {"sidecar", "done"} /\ c.snap = call[w].snap
  BY <1>1, <1>2 DEF Moves, TypeOK, Calls
<1>4. now' = now /\ file' = file /\ lastGood' \in {lastGood, call[w].snap} /\ CacheMoves
  BY DEF ReplaceFails, WriteLastGood, CacheMoves
<1>5. SnapOK(call[w].snap) /\ SnapOK(file) /\ SnapOK(lastGood)
  BY <1>2 DEF FreshInv, CallOK
<1>6. SnapOK(call[w].snap)' /\ SnapOK(file)' /\ SnapOK(lastGood)'
  BY <1>3, <1>4, <1>5 DEF SnapOK, EntryOK, Lag
<1> QED BY <1>1, <1>3, <1>4, <1>6, LaterOK, MoveKeeps

\* The steps that change other calls, or end them.
LEMMA ReplaceFresh ==
  ASSUME TypeOK, TypeOK', FreshInv, NEW w \in Callers, Replace(w)
  PROVE  FreshInv'
<1>1. /\ call[w] \in Calls /\ call[w] # Idle
      /\ call'[w] = [call[w] EXCEPT !.pc = "sidecar"]
      /\ \A v \in Callers \ {w} :
           call'[v] = IF call[v].pc = "replace" THEN [call[v] EXCEPT !.raced = TRUE] ELSE call[v]
  BY ReplaceMoves, Active DEF Replace, Steps
<1>2. now' = now /\ lastGood' = lastGood /\ CacheMoves /\ file' = call[w].snap
  BY DEF Replace, CacheMoves
<1>3. SnapOK(file)' /\ SnapOK(lastGood)'
  BY <1>1, <1>2 DEF FreshInv, CallOK, SnapOK, EntryOK, Lag
<1>4. ASSUME NEW v \in Callers PROVE CallOK(v)'
  <2>1. CASE v = w
    <3>1. call'[w].pc = "sidecar" /\ call'[w].snap = call[w].snap
      BY <1>1 DEF Calls
    <3>2. SnapOK(call[w].snap)'
      BY <1>1, <1>2, <3>1 DEF FreshInv, CallOK, SnapOK, EntryOK, Lag
    <3> QED BY <2>1, <3>1, <3>2, LaterOK
  <2>2. CASE v # w /\ call[v].pc = "replace"
    <3>1. call[v] \in Calls /\ call[v] # Idle
      BY <2>2, Active DEF Steps
    <3>2. call'[v].pc = "replace" /\ call'[v].snap = call[v].snap
      BY <1>1, <2>2, <3>1 DEF Calls
    <3>3. SnapOK(call[v].snap)'
      BY <1>2, <3>1, <3>2 DEF FreshInv, CallOK, SnapOK, EntryOK, Lag
    <3> QED BY <3>2, <3>3, LaterOK
  <2>3. CASE v # w /\ call[v].pc # "replace"
    <3>1. call'[v] = call[v]
      BY <1>1, <2>3
    <3> QED BY <1>2, <3>1, CallKept DEF FreshInv
  <2> QED BY <2>1, <2>2, <2>3
<1> QED BY <1>2, <1>3, <1>4, CacheKept DEF FreshInv

LEMMA BeginFresh ==
  ASSUME TypeOK, TypeOK', FreshInv, NEW w \in Callers, NEW m \in Markets,
         NEW force \in BOOLEAN, Begin(w, m, force)
  PROVE  FreshInv'
<1>1. PICK snap \in Loads, a \in BOOLEAN :
        /\ a => snap = file /\ \A u \in Callers \ {w} : call[u] = Idle
        /\ call'[w] = [pc |-> "ask", market |-> m, force |-> force, snap |-> snap,
                       since |-> 0, asof |-> 0, failed |-> FALSE, raced |-> FALSE,
                       alone |-> a]
  BY BeginMoves
<1>2. now' = now /\ file' = file /\ lastGood' = lastGood /\ CacheMoves
  BY DEF Begin, CacheMoves
<1>3. ASSUME NEW v \in Callers PROVE CallOK(v)'
  <2>1. CASE v = w
    <3>1. call'[w].pc = "ask" /\ call'[w].snap = snap
      BY <1>1
    <3>2. SnapOK(snap)
      BY NeverOK DEF Loads, FreshInv
    <3>3. SnapOK(call[w].snap)'
      BY <1>2, <3>1, <3>2 DEF SnapOK, EntryOK, Lag
    <3> QED BY <2>1, <3>1, <3>3 DEF CallOK, Collecting
  <2>2. CASE v # w /\ call[v] = Idle
    <3>1. call'[v] = Idle
      BY <2>2, BeginMoves
    <3> QED BY <3>1 DEF CallOK
  <2>3. CASE v # w /\ call[v] # Idle
    <3>1. call[v] \in Calls /\ call'[v] = [call[v] EXCEPT !.alone = FALSE]
      BY <2>3, BeginMoves, Active
    <3>2. /\ call'[v].pc = call[v].pc /\ call'[v].snap = call[v].snap
          /\ call'[v].since = call[v].since /\ call'[v].asof = call[v].asof
          /\ call'[v].force = call[v].force /\ call'[v].market = call[v].market
      BY <3>1 DEF Calls
    <3>3. CallOK(v) /\ cache' = cache
      BY DEF FreshInv, Begin
    <3>4. SnapOK(call[v].snap)'
      BY <1>2, <2>3, <3>2, <3>3 DEF CallOK, SnapOK, EntryOK, Lag
    <3> QED BY <1>2, <2>3, <3>2, <3>3, <3>4 DEF CallOK, Collecting
  <2> QED BY <2>1, <2>2, <2>3
<1> QED BY <1>2, <1>3, FilesKept, CacheKept DEF FreshInv

LEMMA EndFresh ==
  ASSUME TypeOK, TypeOK', FreshInv, now' = now, file' = file, lastGood' = lastGood, CacheMoves,
         \A v \in Callers : call'[v] \in {Idle, call[v]}
  PROVE  FreshInv'
<1>1. ASSUME NEW v \in Callers PROVE CallOK(v)'
  <2>1. CASE call'[v] = Idle
    BY <2>1 DEF CallOK
  <2>2. CASE call'[v] = call[v]
    BY <2>2, CallKept DEF FreshInv
  <2> QED BY <2>1, <2>2
<1> QED BY <1>1, FilesKept, CacheKept DEF FreshInv

LEMMA TickFresh ==
  ASSUME TypeOK, TypeOK', FreshInv, Tick
  PROVE  FreshInv'
<1>1. /\ now' = now + 1 /\ now \in Nat
      /\ file' = file /\ lastGood' = lastGood /\ cache' = cache /\ call' = call
  BY DEF Tick, TypeOK
<1>2. ASSUME NEW s \in Snapshots, SnapOK(s)
      PROVE  \A m \in Markets : s[m].stamp <= now' /\ s[m].stamp <= s[m].asof + Lag(s[m])
  BY <1>1, <1>2 DEF SnapOK, EntryOK, Snapshots, Entries
<1>3. SnapOK(file)' /\ SnapOK(lastGood)'
  BY <1>1, <1>2 DEF FreshInv, TypeOK, SnapOK, EntryOK, Lag
<1>4. CacheOK'
  BY <1>1 DEF FreshInv, CacheOK, TypeOK, Cached
<1>5. ASSUME NEW v \in Callers, call[v] # Idle PROVE CallOK(v)'
  <2>1. call[v] \in Calls /\ CallOK(v)
    BY <1>5, Active DEF FreshInv
  <2>2. SnapOK(call[v].snap)'
    BY <1>1, <1>2, <1>5, <2>1 DEF CallOK, SnapOK, EntryOK, Lag, Calls
  <2>3. Collecting(v) => call[v].since <= now + 1 /\ now + 1 <= call[v].since + Slow
    <3>1. Collecting(v) => now - call[v].since < Slow /\ call[v].since <= now
      BY <1>5, <2>1 DEF Tick, CallOK
    <3> QED BY <1>1, <2>1, <3>1, TimesAssumption DEF Calls
  <2> QED BY <1>1, <1>5, <2>1, <2>2, <2>3 DEF CallOK, Collecting
<1> QED BY <1>1, <1>3, <1>4, <1>5 DEF FreshInv, CallOK

LEMMA InitFresh == Init => FreshInv
<1> SUFFICES ASSUME Init PROVE FreshInv
  OBVIOUS
<1>1. SnapOK(EmptySnapshot)
  BY InitType, NeverOK
<1> QED BY <1>1, TimesAssumption DEF Init, FreshInv, CacheOK, CallOK, NotCached

\* FreshInv is inductive.
LEMMA FreshInductive == TypeOK /\ TypeOK' /\ FreshInv /\ [Next]_vars => FreshInv'
<1> SUFFICES ASSUME TypeOK, TypeOK', FreshInv, [Next]_vars PROVE FreshInv'
  OBVIOUS
<1>1. CASE UNCHANGED vars
  BY <1>1, EndFresh DEF vars, CacheMoves
<1>2. ASSUME NEW w \in Callers, Return(w) PROVE FreshInv'
  BY <1>2, EndFresh DEF Return, CacheMoves, TypeOK
<1>3. ASSUME NEW p \in Users, NEW m \in Markets, OtherBalance(p, m) PROVE FreshInv'
  <2>1. CacheMoves
    <3>1. ASSUME NEW q \in Procs, NEW n \in Markets
          PROVE  \/ cache'[q][n] = cache[q][n]
                 \/ cache'[q][n] = NotCached
                 \/ \E a \in 1 .. now : now - a <= Slow /\ cache'[q][n] = [asof |-> a, ts |-> now]
      BY <1>3 DEF OtherBalance, TypeOK
    <3>2. ASSUME NEW a \in 1 .. now, NEW c, now - a <= Slow, c = [asof |-> a, ts |-> now]
          PROVE  c.ts = now /\ now <= c.asof + Slow
      BY <3>2, TimesAssumption DEF TypeOK
    <3>3. NotCached.ts = 0
      BY DEF NotCached
    <3> QED BY <3>1, <3>2, <3>3 DEF CacheMoves
  <2> QED BY <1>3, <2>1, EndFresh DEF OtherBalance
<1>4. ASSUME NEW p \in Procs, Restart(p) PROVE FreshInv'
  <2>1. CacheMoves
    <3>1. ASSUME NEW q \in Procs, NEW n \in Markets
          PROVE  cache'[q][n] = cache[q][n] \/ cache'[q][n] = NotCached
      BY <1>4 DEF Restart, TypeOK
    <3> QED BY <3>1 DEF CacheMoves, NotCached
  <2> QED BY <1>4, <2>1, EndFresh DEF Restart
<1> QED
  BY <1>1, <1>2, <1>3, <1>4, BeginFresh, AskFresh, AnswerFresh, BalanceArrivesFresh,
     BalanceFromCacheFresh, OrdersArriveFresh, CollectFailsFresh, MergeFresh, ReplaceFresh,
     WriteFresh, TickFresh DEF Next, Step

\* Whatever a reader finds usable, the broker said within the time to live and the lag of one
\* slow call that follows another (plus the cache's own time to live, unforced): for any
\* callers, processes and time limits, through failed and overtaken refreshes, failures of the
\* files, and restarts.
THEOREM FreshAlways == Spec => []FreshIsTrue
<1>1. Init => FreshInv
  BY InitFresh
<1>2. TypeOK /\ FreshInv => FreshIsTrue
  <2> SUFFICES ASSUME TypeOK, FreshInv, NEW m \in Markets, NEW e \in {file[m], lastGood[m]},
                      Usable(e)
               PROVE  now - e.asof <= TTL + Lag(e)
    BY DEF FreshIsTrue
  <2>1. e \in Entries /\ EntryOK(e) /\ now \in Nat
    BY DEF TypeOK, Snapshots, FreshInv, SnapOK
  <2>2. now - e.stamp <= TTL
    BY <2>1, TimesAssumption DEF Usable, Stale, Entries
  <2> QED BY <2>1, <2>2, TimesAssumption DEF EntryOK, Entries, Lag
<1> QED
  BY TypeCorrect, FreshInductive, <1>1, <1>2, PTL DEF Spec

(***************************************************************************)
(* What is newer is kept, unless writers race.                             *)
(***************************************************************************)
LEMMA MergedNoOlder ==
  ASSUME NEW s \in Snapshots, NEW t \in Snapshots
  PROVE  NoOlder(Merged(s, t), t)
<1>1. SUFFICES ASSUME NEW m \in Markets PROVE t[m].stamp <= Merged(s, t)[m].stamp
  BY DEF NoOlder
<1>2. s[m].stamp \in Nat /\ t[m].stamp \in Nat
  BY DEF Snapshots, Entries
<1> QED BY <1>2 DEF Merged

\* A caller that is not about to replace the file, and one that stays where it is.
LEMMA RaceKept ==
  ASSUME RaceInv, file' = file,
         \A v \in Callers : \/ call'[v].pc # "replace"
                            \/ /\ call'[v].pc = call[v].pc /\ call'[v].raced = call[v].raced
                               /\ call'[v].snap = call[v].snap
  PROVE  RaceInv'
  BY DEF RaceInv, NoOlder

LEMMA MoveRace ==
  ASSUME TypeOK, RaceInv, NEW w \in Callers, NEW c \in Calls, Moves(w, c), file' = file,
         c.pc # "replace"
  PROVE  RaceInv'
<1>1. ASSUME NEW v \in Callers PROVE call'[v].pc # "replace" \/ call'[v] = call[v]
  BY DEF Moves, TypeOK
<1> QED BY <1>1, RaceKept

LEMMA RaceInductive == TypeOK /\ RaceInv /\ [Next]_vars => RaceInv'
<1> SUFFICES ASSUME TypeOK, RaceInv, [Next]_vars PROVE RaceInv'
  OBVIOUS
<1>1. CASE UNCHANGED vars
  BY <1>1, RaceKept DEF vars
<1>2. ASSUME NEW w \in Callers, NEW m \in Markets, NEW force \in BOOLEAN, Begin(w, m, force)
      PROVE  RaceInv'
  <2>1. file' = file /\ call'[w].pc = "ask"
    BY <1>2, BeginMoves DEF Begin
  <2>2. ASSUME NEW v \in Callers \ {w}
        PROVE  \/ call'[v].pc # "replace"
               \/ /\ call'[v].pc = call[v].pc /\ call'[v].raced = call[v].raced
                  /\ call'[v].snap = call[v].snap
    <3>1. CASE call[v] = Idle
      BY <1>2, <3>1, BeginMoves DEF Idle
    <3>2. CASE call[v] # Idle
      <4>1. call[v] \in Calls /\ call'[v] = [call[v] EXCEPT !.alone = FALSE]
        BY <1>2, <3>2, BeginMoves, Active
      <4> QED BY <4>1 DEF Calls
    <3> QED BY <3>1, <3>2
  <2> QED BY <2>1, <2>2, RaceKept
<1>3. ASSUME NEW w \in Callers, Ask(w) PROVE RaceInv'
  <2>1. call[w] \in Calls
    BY <1>3, Active DEF Ask, Steps
  <2>2. PICK c \in Calls : Moves(w, c) /\ c = [call[w] EXCEPT !.pc = "wait", !.since = now]
    BY <1>3, AskMoves
  <2>3. c.pc # "replace"
    BY <2>1, <2>2 DEF Calls
  <2> QED BY <1>3, <2>2, <2>3, MoveRace DEF Ask
<1>4. ASSUME NEW w \in Callers, Answer(w) PROVE RaceInv'
  <2>1. call[w] \in Calls
    BY <1>4, Active DEF Answer, Steps
  <2>2. PICK c \in Calls : Moves(w, c) /\ c = [call[w] EXCEPT !.pc = "answered", !.asof = now]
    BY <1>4, AnswerMoves
  <2>3. c.pc # "replace"
    BY <2>1, <2>2 DEF Calls
  <2> QED BY <1>4, <2>2, <2>3, MoveRace DEF Answer
<1>5. ASSUME NEW w \in Callers, BalanceArrives(w) PROVE RaceInv'
  <2>1. call[w] \in Calls
    BY <1>5, Active DEF BalanceArrives, Steps
  <2>2. PICK c \in Calls : Moves(w, c) /\ c = [call[w] EXCEPT !.pc = "orders"]
    BY <1>5, BalanceArrivesMoves
  <2>3. c.pc # "replace"
    BY <2>1, <2>2 DEF Calls
  <2> QED BY <1>5, <2>2, <2>3, MoveRace DEF BalanceArrives
<1>6. ASSUME NEW w \in Callers, BalanceFromCache(w) PROVE RaceInv'
  <2>1. call[w] \in Calls
    BY <1>6, Active DEF BalanceFromCache, Steps
  <2>2. PICK c \in Calls : /\ Moves(w, c)
                           /\ c = [call[w] EXCEPT !.pc = "orders", !.asof =
                                     cache[Home[w]][call[w].market].asof]
    BY <1>6, BalanceFromCacheMoves
  <2>3. c.pc # "replace"
    BY <2>1, <2>2 DEF Calls
  <2> QED BY <1>6, <2>2, <2>3, MoveRace DEF BalanceFromCache
<1>7. ASSUME NEW w \in Callers, OrdersArrive(w) PROVE RaceInv'
  <2>1. ASSUME NEW v \in Callers PROVE call'[v].pc # "replace" \/ call'[v] = call[v]
    BY <1>7 DEF OrdersArrive, TypeOK
  <2> QED BY <1>7, <2>1, RaceKept DEF OrdersArrive
<1>8. ASSUME NEW w \in Callers, CollectFails(w) PROVE RaceInv'
  <2>1. ASSUME NEW v \in Callers PROVE call'[v].pc # "replace" \/ call'[v] = call[v]
    BY <1>8 DEF CollectFails, TypeOK
  <2> QED BY <1>8, <2>1, RaceKept DEF CollectFails
<1>9. ASSUME NEW w \in Callers, Merge(w) PROVE RaceInv'
  <2>1. call[w] \in Calls
    BY <1>9, Active DEF Merge, Steps
  <2>2. PICK c \in Calls :
          /\ Moves(w, c)
          /\ \/ c = [call[w] EXCEPT !.pc = "replace", !.snap = Merged(@, file)]
             \/ c = [call[w] EXCEPT !.pc = "replace", !.raced = TRUE, !.alone = FALSE]
    BY <1>9, MergeMoves
  <2>3. c.raced \/ c.snap = Merged(call[w].snap, file)
    BY <2>1, <2>2 DEF Calls
  <2>4. c.raced \/ NoOlder(c.snap, file)
    BY <2>1, <2>3, MergedNoOlder DEF Calls, TypeOK
  <2>5. file' = file /\ \A v \in Callers : call'[v] = IF v = w THEN c ELSE call[v]
    BY <1>9, <2>2 DEF Merge, Moves, TypeOK
  <2> QED BY <2>4, <2>5 DEF RaceInv, NoOlder
<1>10. ASSUME NEW w \in Callers, Replace(w) PROVE RaceInv'
  <2>1. ASSUME NEW v \in Callers PROVE call'[v].pc # "replace" \/ call'[v].raced
    <3>1. CASE v = w
      BY <1>10, <3>1, ReplaceMoves DEF Calls
    <3>2. CASE v # w /\ call[v].pc = "replace"
      <4>1. call[v] \in Calls
        BY <3>2, Active DEF Steps
      <4>2. call'[v] = [call[v] EXCEPT !.raced = TRUE]
        BY <1>10, <3>2, ReplaceMoves
      <4>3. call'[v].raced = TRUE
        BY <4>1, <4>2 DEF Calls
      <4> QED BY <4>3
    <3>3. CASE v # w /\ call[v].pc # "replace"
      BY <1>10, <3>3, ReplaceMoves
    <3> QED BY <3>1, <3>2, <3>3
  <2> QED BY <2>1 DEF RaceInv
<1>11. ASSUME NEW w \in Callers, ReplaceFails(w) \/ WriteLastGood(w) PROVE RaceInv'
  <2>1. ASSUME NEW v \in Callers PROVE call'[v].pc # "replace" \/ call'[v] = call[v]
    <3>1. CASE ReplaceFails(w)
      BY <3>1 DEF ReplaceFails, TypeOK
    <3>2. CASE WriteLastGood(w)
      BY <3>2 DEF WriteLastGood, TypeOK
    <3> QED BY <1>11, <3>1, <3>2
  <2> QED BY <1>11, <2>1, RaceKept DEF ReplaceFails, WriteLastGood
<1>12. ASSUME NEW w \in Callers, Return(w) PROVE RaceInv'
  <2>1. ASSUME NEW v \in Callers PROVE call'[v].pc # "replace" \/ call'[v] = call[v]
    BY <1>12 DEF Return, TypeOK, Idle
  <2> QED BY <1>12, <2>1, RaceKept DEF Return
<1>13. ASSUME NEW p \in Procs, Restart(p) PROVE RaceInv'
  <2>1. ASSUME NEW v \in Callers PROVE call'[v].pc # "replace" \/ call'[v] = call[v]
    BY <1>13 DEF Restart, TypeOK, Idle
  <2> QED BY <1>13, <2>1, RaceKept DEF Restart
<1>14. ASSUME NEW p \in Users, NEW m \in Markets, OtherBalance(p, m) PROVE RaceInv'
  BY <1>14, RaceKept DEF OtherBalance
<1>15. CASE Tick
  BY <1>15, RaceKept DEF Tick
<1> QED
  BY <1>1, <1>2, <1>3, <1>4, <1>5, <1>6, <1>7, <1>8, <1>9, <1>10, <1>11, <1>12, <1>13, <1>14,
     <1>15 DEF Next, Step

\* A market's entry in the file is replaced by an older one only by a writer that raced: for
\* any number of writers, in any processes.
THEOREM NewerIsKept == Spec => NewerKept
<1>1. Init => RaceInv
  BY DEF Init, RaceInv, Idle
<1> DEFINE Kept == \A m \in Markets : file'[m].stamp < file[m].stamp =>
              \E w \in Callers : call[w].pc = "replace" /\ call'[w].pc = "sidecar" /\ call[w].raced
<1>2. TypeOK /\ RaceInv /\ [Next]_vars => [Kept]_vars
  <2> SUFFICES ASSUME TypeOK, RaceInv, Next, NEW m \in Markets,
                      file'[m].stamp < file[m].stamp
               PROVE  \E w \in Callers : call[w].pc = "replace" /\ call'[w].pc = "sidecar"
                                         /\ call[w].raced
    OBVIOUS
  <2>1. file[m].stamp \in Nat
    BY DEF TypeOK, Snapshots, Entries
  <2>2. file' # file
    BY <2>1
  <2>3. PICK w \in Callers : Replace(w)
    BY <2>2 DEF Next, Step, Begin, Ask, Answer, BalanceArrives, BalanceFromCache, OrdersArrive,
                CollectFails, Merge, ReplaceFails, WriteLastGood, Return, OtherBalance, Restart,
                Tick
  <2>4. call[w] \in Calls /\ call'[w].pc = "sidecar" /\ call[w].pc = "replace"
    BY <2>3, ReplaceMoves DEF Calls, Replace
  <2>5. ~NoOlder(call[w].snap, file)
    <3>1. call[w].snap[m].stamp \in Nat
      BY <2>4 DEF Calls, Snapshots, Entries
    <3> QED BY <2>1, <2>3, <3>1 DEF Replace, NoOlder
  <2> QED BY <2>4, <2>5 DEF RaceInv, Calls
<1> QED
  BY TypeCorrect, RaceInductive, <1>1, <1>2, PTL DEF Spec, NewerKept

(***************************************************************************)
(* What the caller of a refresh that is alone finds.                       *)
(***************************************************************************)

\* A step of a caller: the other calls are not alone, so that only its own matters.
LEMMA MoveAlone ==
  ASSUME TypeOK, AloneInv, NEW w \in Callers, call[w] # Idle, NEW c \in Calls, Moves(w, c),
         c.alone => call[w].alone,
         c.alone /\ Intact(call[w], file) => Intact(c, file')
  PROVE  AloneInv'
<1>1. SUFFICES ASSUME NEW v \in Callers, call'[v] # Idle, call'[v].alone
               PROVE  /\ \A u \in Callers \ {v} : call'[u] = Idle
                      /\ Intact(call'[v], file')
  BY DEF AloneInv, Intact, Outcome, NoOlder
<1>2. \A u \in Callers : call'[u] = IF u = w THEN c ELSE call[u]
  BY DEF Moves, TypeOK
<1>3. v = w
  BY <1>1, <1>2 DEF AloneInv
<1>4. call[w].alone
  BY <1>1, <1>2, <1>3
<1>5. (\A u \in Callers \ {w} : call[u] = Idle) /\ Intact(call[w], file)
  BY <1>4 DEF AloneInv
<1> QED BY <1>1, <1>2, <1>3, <1>5

LEMMA CollectingAlone ==
  ASSUME TypeOK, AloneInv, NEW w \in Callers,
         Ask(w) \/ Answer(w) \/ BalanceArrives(w) \/ BalanceFromCache(w)
  PROVE  AloneInv'
<1>1. call[w] \in Calls /\ call[w] # Idle
  BY Active DEF Ask, Answer, BalanceArrives, BalanceFromCache, Steps
<1>2. PICK c \in Calls :
        /\ Moves(w, c)
        /\ \/ c = [call[w] EXCEPT !.pc = "wait", !.since = now]
           \/ c = [call[w] EXCEPT !.pc = "answered", !.asof = now]
           \/ c = [call[w] EXCEPT !.pc = "orders"]
           \/ c = [call[w] EXCEPT !.pc = "orders", !.asof = cache[Home[w]][call[w].market].asof]
  BY AskMoves, AnswerMoves, BalanceArrivesMoves, BalanceFromCacheMoves
<1>3. /\ c.pc \in {"wait", "answered", "orders"} /\ c.snap = call[w].snap
      /\ c.alone = call[w].alone /\ c.failed = call[w].failed
  BY <1>1, <1>2 DEF Calls
<1>4. file' = file /\ call[w].pc \in {"ask", "wait", "answered", "orders"}
  BY DEF Ask, Answer, BalanceArrives, BalanceFromCache
<1>5. Intact(call[w], file) => Intact(c, file')
  BY <1>3, <1>4 DEF Intact
<1> QED BY <1>1, <1>2, <1>3, <1>5, MoveAlone

LEMMA OrdersArriveAlone ==
  ASSUME TypeOK, FreshInv, AloneInv, NEW w \in Callers, OrdersArrive(w)
  PROVE  AloneInv'
<1> DEFINE k == call[w]
           e == Collected(k)
           s == [k.snap EXCEPT ![k.market] = e]
<1>1. k \in Calls /\ k # Idle /\ k.pc = "orders"
  BY Active DEF OrdersArrive, Steps
<1>2. PICK c \in Calls : Moves(w, c) /\ c = [k EXCEPT !.pc = "merge", !.asof = 0, !.snap = s]
  BY OrdersArriveMoves
<1>3. /\ c.pc = "merge" /\ c.snap = s /\ c.alone = k.alone /\ c.failed = k.failed
      /\ c.since = k.since /\ c.market = k.market /\ c.force = k.force
  BY <1>1, <1>2 DEF Calls
<1>4. file' = file
  BY DEF OrdersArrive
<1>5. \A m \in Markets : s[m] = IF m = k.market THEN e ELSE k.snap[m]
  BY <1>1 DEF Calls, Snapshots
<1>6. e.stamp = now /\ e.asof = k.asof /\ e.err = FALSE
  BY DEF Collected
<1>7. k.since <= now /\ (k.force => k.since <= k.asof + Slow)
  BY <1>1 DEF FreshInv, CallOK, Collecting
<1>8. ASSUME Intact(k, file) PROVE Intact(c, file')
  <2>1. k.snap = file /\ ~k.failed
    BY <1>1, <1>8 DEF Intact
  <2>2. ASSUME NEW m \in Markets PROVE file[m].stamp <= s[m].stamp
    <3>1. file[m].stamp <= now /\ file[m].stamp \in Nat
      BY DEF FreshInv, SnapOK, EntryOK, TypeOK, Snapshots, Entries
    <3> QED BY <1>5, <1>6, <2>1, <3>1
  <2>3. k.market \in Markets
    BY <1>1 DEF Calls
  <2>4. s[k.market] = e
    BY <1>5, <2>3
  <2>5. e.stamp >= k.since
    BY <1>1, <1>6, <1>7 DEF TypeOK, Calls
  <2>6. Outcome(c)
    BY <1>3, <1>6, <1>7, <2>1, <2>4, <2>5 DEF Outcome
  <2> QED BY <1>3, <1>4, <2>2, <2>6 DEF Intact, NoOlder
<1> QED BY <1>1, <1>2, <1>3, <1>8, MoveAlone

LEMMA CollectFailsAlone ==
  ASSUME TypeOK, AloneInv, NEW w \in Callers, CollectFails(w)
  PROVE  AloneInv'
<1> DEFINE k == call[w]
           e == k.snap[k.market]
           s == [k.snap EXCEPT ![k.market] = Failed(e)]
<1>1. k \in Calls /\ k # Idle /\ k.pc \in {"ask", "wait", "answered", "orders"}
  BY Active DEF CollectFails, Steps
<1>2. PICK c \in Calls :
        Moves(w, c) /\ c = [k EXCEPT !.pc = "merge", !.asof = 0, !.failed = TRUE, !.snap = s]
  BY CollectFailsMoves
<1>3. c.pc = "merge" /\ c.snap = s /\ c.alone = k.alone /\ c.failed = TRUE /\ c.market = k.market
  BY <1>1, <1>2 DEF Calls
<1>4. file' = file
  BY DEF CollectFails
<1>5. \A m \in Markets : s[m] = IF m = k.market THEN Failed(e) ELSE k.snap[m]
  BY <1>1 DEF Calls, Snapshots
<1>6. e \in Entries /\ k.market \in Markets
  BY <1>1 DEF Calls, Snapshots
<1>7. Failed(e).stamp = e.stamp /\ Failed(e).err
  BY <1>6, FailedType
<1>8. ASSUME Intact(k, file) PROVE Intact(c, file')
  <2>1. k.snap = file
    BY <1>1, <1>8 DEF Intact
  <2>2. ASSUME NEW m \in Markets PROVE file[m].stamp <= s[m].stamp
    <3>1. file[m].stamp \in Nat
      BY DEF TypeOK, Snapshots, Entries
    <3> QED BY <1>5, <1>7, <2>1, <3>1
  <2>3. Outcome(c)
    BY <1>3, <1>5, <1>6, <1>7 DEF Outcome
  <2> QED BY <1>3, <1>4, <2>2, <2>3 DEF Intact, NoOlder
<1> QED BY <1>1, <1>2, <1>3, <1>8, MoveAlone

LEMMA MergeAlone ==
  ASSUME TypeOK, AloneInv, NEW w \in Callers, Merge(w)
  PROVE  AloneInv'
<1> DEFINE k == call[w]
<1>1. k \in Calls /\ k # Idle /\ k.pc = "merge"
  BY Active DEF Merge, Steps
<1>2. PICK c \in Calls :
        /\ Moves(w, c)
        /\ \/ c = [k EXCEPT !.pc = "replace", !.snap = Merged(@, file)]
           \/ c = [k EXCEPT !.pc = "replace", !.raced = TRUE, !.alone = FALSE]
  BY MergeMoves
<1>3. c.alone => c = [k EXCEPT !.pc = "replace", !.snap = Merged(@, file)]
  BY <1>1, <1>2 DEF Calls
<1>4. c.alone => k.alone
  BY <1>1, <1>3 DEF Calls
<1>5. file' = file
  BY DEF Merge
<1>6. ASSUME c.alone, Intact(k, file) PROVE Intact(c, file')
  <2>1. NoOlder(k.snap, file) /\ Outcome(k)
    BY <1>1, <1>6 DEF Intact
  <2>2. k.snap \in Snapshots
    BY <1>1 DEF Calls
  <2>3. ASSUME NEW m \in Markets PROVE ~(file[m].stamp > k.snap[m].stamp)
    <3>1. file[m].stamp \in Nat /\ k.snap[m].stamp \in Nat
      BY <2>2 DEF TypeOK, Snapshots, Entries
    <3> QED BY <2>1, <3>1 DEF NoOlder
  <2>4. Merged(k.snap, file) = k.snap
    BY <2>2, <2>3 DEF Merged, Snapshots
  <2>5. /\ c.pc = "replace" /\ c.snap = k.snap /\ c.failed = k.failed /\ c.since = k.since
        /\ c.market = k.market /\ c.force = k.force
    BY <1>1, <1>3, <1>6, <2>4 DEF Calls
  <2> QED BY <1>5, <2>1, <2>5 DEF Intact, Outcome
<1> QED BY <1>1, <1>2, <1>4, <1>6, MoveAlone

LEMMA WriteAlone ==
  ASSUME TypeOK, AloneInv, NEW w \in Callers, ReplaceFails(w) \/ WriteLastGood(w)
  PROVE  AloneInv'
<1> DEFINE k == call[w]
<1>1. k \in Calls /\ k # Idle
  BY Active DEF ReplaceFails, WriteLastGood, Steps
<1>2. file' = file
  BY DEF ReplaceFails, WriteLastGood
<1>3. CASE ReplaceFails(w)
  <2>1. PICK c \in Calls : Moves(w, c) /\ c = [k EXCEPT !.pc = "sidecar", !.alone = FALSE]
    BY <1>3, ReplaceFailsMoves
  <2>2. c.alone = FALSE
    BY <1>1, <2>1 DEF Calls
  <2> QED BY <1>1, <2>1, <2>2, MoveAlone
<1>4. CASE WriteLastGood(w)
  <2>1. PICK c \in Calls : Moves(w, c) /\ c = [k EXCEPT !.pc = "done"]
    BY <1>4, WriteLastGoodMoves
  <2>2. /\ c.pc = "done" /\ c.alone = k.alone /\ c.snap = k.snap /\ c.failed = k.failed
        /\ c.since = k.since /\ c.market = k.market /\ c.force = k.force /\ k.pc = "sidecar"
    BY <1>1, <1>4, <2>1 DEF Calls, WriteLastGood
  <2>3. Intact(k, file) => Intact(c, file')
    BY <1>2, <2>2 DEF Intact, Outcome
  <2> QED BY <1>1, <2>1, <2>2, <2>3, MoveAlone
<1> QED BY <1>3, <1>4

LEMMA ReplaceAlone ==
  ASSUME TypeOK, AloneInv, NEW w \in Callers, Replace(w)
  PROVE  AloneInv'
<1> DEFINE k == call[w]
           d == call'[w]
<1>1. /\ k \in Calls /\ k # Idle /\ k.pc = "replace" /\ file' = k.snap
      /\ d = [k EXCEPT !.pc = "sidecar"]
  BY ReplaceMoves, Active DEF Replace, Steps
<1>2. /\ d.pc = "sidecar" /\ d.alone = k.alone /\ d.snap = k.snap /\ d.failed = k.failed
      /\ d.since = k.since /\ d.market = k.market /\ d.force = k.force
  BY <1>1 DEF Calls
<1>3. ASSUME NEW v \in Callers \ {w} PROVE call'[v] = Idle \/ call'[v].alone = FALSE
  <2>1. CASE call[v] = Idle
    BY <2>1, ReplaceMoves DEF Idle
  <2>2. CASE call[v] # Idle
    <3>1. call[v] \in Calls /\ call[v].alone = FALSE
      BY <1>1, <2>2, Active DEF AloneInv, Calls
    <3>2. call'[v] = IF call[v].pc = "replace" THEN [call[v] EXCEPT !.raced = TRUE] ELSE call[v]
      BY ReplaceMoves
    <3>3. CASE call[v].pc = "replace"
      <4>1. call'[v] = [call[v] EXCEPT !.raced = TRUE]
        BY <3>2, <3>3
      <4> QED BY <3>1, <4>1 DEF Calls
    <3>4. CASE call[v].pc # "replace"
      BY <3>1, <3>2, <3>4
    <3> QED BY <3>3, <3>4
  <2> QED BY <2>1, <2>2
<1>4. ASSUME k.alone
      PROVE  (\A u \in Callers \ {w} : call'[u] = Idle) /\ Intact(d, file')
  <2>1. (\A u \in Callers \ {w} : call[u] = Idle) /\ Intact(k, file)
    BY <1>1, <1>4 DEF AloneInv
  <2>2. \A u \in Callers \ {w} : call'[u] = Idle
    BY <2>1, ReplaceMoves DEF Idle
  <2>3. Intact(d, file')
    BY <1>1, <1>2, <2>1 DEF Intact, Outcome
  <2> QED BY <2>2, <2>3
<1>5. SUFFICES ASSUME NEW v \in Callers, call'[v] # Idle, call'[v].alone
               PROVE  /\ \A u \in Callers \ {v} : call'[u] = Idle
                      /\ Intact(call'[v], file')
  BY DEF AloneInv, Intact, Outcome, NoOlder
<1>6. v = w
  BY <1>3, <1>5
<1> QED BY <1>2, <1>4, <1>5, <1>6

LEMMA BeginAlone ==
  ASSUME TypeOK, AloneInv, NEW w \in Callers, NEW m \in Markets, NEW force \in BOOLEAN,
         Begin(w, m, force)
  PROVE  AloneInv'
<1>1. PICK snap \in Loads, a \in BOOLEAN :
        /\ a => snap = file /\ \A u \in Callers \ {w} : call[u] = Idle
        /\ call'[w] = [pc |-> "ask", market |-> m, force |-> force, snap |-> snap,
                       since |-> 0, asof |-> 0, failed |-> FALSE, raced |-> FALSE,
                       alone |-> a]
  BY BeginMoves
<1>2. SUFFICES ASSUME NEW v \in Callers, call'[v] # Idle, call'[v].alone
               PROVE  /\ \A u \in Callers \ {v} : call'[u] = Idle
                      /\ Intact(call'[v], file')
  BY DEF AloneInv, Intact, Outcome, NoOlder
<1>3. v = w
  <2>1. SUFFICES ASSUME v # w PROVE FALSE
    OBVIOUS
  <2>2. call[v] # Idle /\ call'[v] = [call[v] EXCEPT !.alone = FALSE]
    BY <1>2, <2>1, BeginMoves
  <2>3. call'[v].alone = FALSE
    BY <2>2, Active DEF Calls
  <2> QED BY <1>2, <2>3
<1>4. snap = file /\ \A u \in Callers \ {w} : call[u] = Idle
  BY <1>1, <1>2, <1>3
<1>5. \A u \in Callers \ {w} : call'[u] = Idle
  <2>1. ASSUME NEW u \in Callers \ {w} PROVE call'[u] = Idle
    <3>1. call[u] = Idle
      BY <1>4
    <3>2. call'[u] = IF call[u] = Idle THEN Idle ELSE [call[u] EXCEPT !.alone = FALSE]
      BY BeginMoves
    <3> QED BY <3>1, <3>2
  <2> QED BY <2>1
<1>6. file' = file
  BY DEF Begin
<1>7. Intact(call'[w], file')
  BY <1>1, <1>4, <1>6 DEF Intact
<1> QED BY <1>3, <1>5, <1>7

LEMMA EndAlone ==
  ASSUME AloneInv, file' = file, \A v \in Callers : call'[v] \in {Idle, call[v]}
  PROVE  AloneInv'
<1>1. SUFFICES ASSUME NEW v \in Callers, call'[v] # Idle, call'[v].alone
               PROVE  /\ \A u \in Callers \ {v} : call'[u] = Idle
                      /\ Intact(call'[v], file')
  BY DEF AloneInv, Intact, Outcome, NoOlder
<1>2. call'[v] = call[v]
  BY <1>1
<1>3. (\A u \in Callers \ {v} : call[u] = Idle) /\ Intact(call[v], file)
  BY <1>1, <1>2 DEF AloneInv
<1> QED BY <1>2, <1>3

LEMMA AloneInductive == TypeOK /\ FreshInv /\ AloneInv /\ [Next]_vars => AloneInv'
<1> SUFFICES ASSUME TypeOK, FreshInv, AloneInv, [Next]_vars PROVE AloneInv'
  OBVIOUS
<1>1. CASE UNCHANGED vars
  BY <1>1, EndAlone DEF vars
<1>2. ASSUME NEW w \in Callers, Return(w) PROVE AloneInv'
  BY <1>2, EndAlone DEF Return, TypeOK
<1>3. ASSUME NEW p \in Procs, Restart(p) PROVE AloneInv'
  BY <1>3, EndAlone DEF Restart
<1>4. ASSUME NEW p \in Users, NEW m \in Markets, OtherBalance(p, m) PROVE AloneInv'
  BY <1>4, EndAlone DEF OtherBalance
<1>5. CASE Tick
  BY <1>5, EndAlone DEF Tick
<1> QED
  BY <1>1, <1>2, <1>3, <1>4, <1>5, BeginAlone, CollectingAlone, OrdersArriveAlone,
     CollectFailsAlone, MergeAlone, ReplaceAlone, WriteAlone DEF Next, Step

\* A caller that refreshes alone, and could read and write the file, finds there what its
\* refresh came to: nothing usable after a failure, and after a success an entry stamped since
\* the call, of an answer not older than the call by more than one slow call.
THEOREM CallerFindsItsOwn == Spec => []CallIsNew
<1>1. Init => AloneInv
  BY DEF Init, AloneInv
<1>2. TypeOK /\ AloneInv => CallIsNew
  <2> SUFFICES ASSUME TypeOK, AloneInv, NEW w \in Callers, call[w].pc = "done", call[w].alone
               PROVE  LET e == file[call[w].market] IN
                      IF call[w].failed
                      THEN ~Usable(e)
                      ELSE /\ ~e.err
                           /\ e.stamp >= call[w].since
                           /\ call[w].force => call[w].since - e.asof <= Slow
    BY DEF CallIsNew
  <2>1. call[w] \in Calls /\ call[w] # Idle
    BY Active DEF Steps
  <2>2. file = call[w].snap /\ Outcome(call[w])
    BY <2>1 DEF AloneInv, Intact
  <2>3. file[call[w].market] \in Entries /\ call[w].since \in Nat
    BY <2>1, <2>2 DEF Calls, Snapshots
  <2> QED BY <2>2, <2>3, TimesAssumption DEF Outcome, Usable, Entries
<1>3. Init => FreshInv
  BY InitFresh
<1> QED
  BY TypeCorrect, FreshInductive, AloneInductive, <1>1, <1>2, <1>3, PTL DEF Spec

=============================================================================
