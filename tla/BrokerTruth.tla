----------------------------- MODULE BrokerTruth -----------------------------
(***************************************************************************)
(* The broker truth snapshot (runtime/broker_truth_snapshot.py): one file  *)
(* that holds what the broker said of each market, refreshed by threads of *)
(* the bot and by another process (tools/broker_truth_scheduler.py), and   *)
(* read by everything that decides about orders.                           *)
(*                                                                         *)
(* A refresh of one market loads the whole file, asks the broker for the   *)
(* balance and then for the orders of the day, takes over from the file    *)
(* what is newer there, and replaces the file.  No lock spans these steps. *)
(* A step is the code between two calls to the broker or the file system.  *)
(* After it returns, the caller reads the file again.                      *)
(*                                                                         *)
(* Time is in whole seconds, as the time stamps of the file are.  Of what  *)
(* the broker said, only its age is modelled: the time of the balance, the *)
(* older of the two answers.                                               *)
(***************************************************************************)
EXTENDS Integers

CONSTANTS
    Markets,        \* "KR", "US"
    Callers,        \* the threads that refresh
    Procs,          \* the processes, each with a balance cache
    Home,           \* the process of a caller
    Users,          \* the processes with other code that asks for balances (the bot)
    TTL,            \* seconds for which a market's entry is not stale
    CacheTTL,       \* KIS_CACHE_TTL_SEC
    Slow,           \* bound: seconds the calls of one refresh to the broker take, at most
    MaxTime,        \* bound: the last second
    MaxRefreshes,   \* bound: refreshes
    MaxOthers,      \* bound: balances other code asks for
    MaxFaults       \* bound: accesses to the files that fail, and restarts

ASSUME HomeAssumption == Home \in [Callers -> Procs] /\ Users \subseteq Procs
ASSUME TimesAssumption == TTL \in Nat /\ CacheTTL \in Nat /\ Slow \in Nat
ASSUME BoundsAssumption == MaxTime \in Nat /\ MaxRefreshes \in Nat /\ MaxOthers \in Nat
                           /\ MaxFaults \in Nat

VARIABLES
    now,            \* the clock
    file, lastGood, \* the snapshot and its sidecar: the entry of each market
    cache,          \* _BALANCE_CACHE of each process
    call,           \* what each caller is doing
    refreshes, others, faults   \* counters, for the bounds

bounds == <<refreshes, others, faults>>
vars == <<now, file, lastGood, cache, call, bounds>>

-----------------------------------------------------------------------------
\* The entry of a market: the time of the broker's answer it holds, last_success_at (0: never),
\* whether an error is noted, and whether its refresh was forced (history).
Entries == [asof : Nat, stamp : Nat, err : BOOLEAN, forced : BOOLEAN]
Never == [asof |-> 0, stamp |-> 0, err |-> FALSE, forced |-> TRUE]
Snapshots == [Markets -> Entries]
EmptySnapshot == [m \in Markets |-> Never]

\* A cached balance: the time of the broker's answer, and when it was put there (0: nothing).
Cached == [asof : Nat, ts : Nat]
NotCached == [asof |-> 0, ts |-> 0]

\* A refresh under way.  raced: another refresh has replaced the file since this one took over
\* what was newer there, or it could not read the file then.  alone: no other refresh
\* overlapped with this one, and none of its accesses to the file failed.  (Both history.)
\* asof is the time of the balance in hand, 0 without one.
Steps == {"ask", "wait", "answered", "orders", "merge", "replace", "sidecar", "done"}
Calls == [pc : Steps, market : Markets, force : BOOLEAN, snap : Snapshots, since : Nat,
          asof : Nat, failed : BOOLEAN, raced : BOOLEAN, alone : BOOLEAN]
Idle == [pc |-> "idle"]

Init ==
    /\ now = 1
    /\ file = EmptySnapshot
    /\ lastGood = EmptySnapshot
    /\ cache = [p \in Procs |-> [m \in Markets |-> NotCached]]
    /\ call = [w \in Callers |-> Idle]
    /\ refreshes = 0 /\ others = 0 /\ faults = 0

-----------------------------------------------------------------------------
Stale(e) == e.stamp = 0 \/ now - e.stamp > TTL

\* What every consumer asks of an entry before it relies on it.
Usable(e) == ~Stale(e) /\ ~e.err

\* Something of the environment fails.
Fault == faults < MaxFaults /\ faults' = faults + 1
NoFault == UNCHANGED faults

\* What load_snapshot may return: the file; the sidecar when the file cannot be read; nothing
\* when neither can be.
Loads == {file, lastGood, EmptySnapshot}

\* refresh_market.  Unforced, it goes on only if the entry is stale.
Begin(w, m, force) ==
    /\ call[w] = Idle
    /\ refreshes < MaxRefreshes
    /\ \E snap \in Loads :
        /\ force \/ Stale(snap[m])
        /\ IF snap = file THEN NoFault ELSE Fault
        /\ call' = [v \in Callers |->
                      IF v = w
                      THEN [pc |-> "ask", market |-> m, force |-> force, snap |-> snap,
                            since |-> 0, asof |-> 0, failed |-> FALSE, raced |-> FALSE,
                            alone |-> snap = file /\ \A u \in Callers \ {w} : call[u] = Idle]
                      ELSE IF call[v] = Idle THEN Idle ELSE [call[v] EXCEPT !.alone = FALSE]]
    /\ refreshes' = refreshes + 1
    /\ UNCHANGED <<now, file, lastGood, cache, others>>

\* get_balance: a forced refresh drops the cached balance, then the request goes out.
Ask(w) ==
    /\ call[w].pc = "ask"
    /\ call' = [call EXCEPT ![w].pc = "wait", ![w].since = now]
    /\ cache' = IF call[w].force THEN [cache EXCEPT ![Home[w]][call[w].market] = NotCached]
                                 ELSE cache
    /\ UNCHANGED <<now, file, lastGood, bounds>>

\* The broker draws up the balance.
Answer(w) ==
    /\ call[w].pc = "wait"
    /\ call' = [call EXCEPT ![w].pc = "answered", ![w].asof = now]
    /\ UNCHANGED <<now, file, lastGood, cache, bounds>>

BalanceArrives(w) ==
    /\ call[w].pc = "answered"
    /\ call' = [call EXCEPT ![w].pc = "orders"]
    /\ cache' = [cache EXCEPT ![Home[w]][call[w].market] = [asof |-> call[w].asof, ts |-> now]]
    /\ UNCHANGED <<now, file, lastGood, bounds>>

\* The request and its retries fail: a balance that is in the cache by now will do.
InCache(c) == c.ts > 0 /\ now - c.ts <= CacheTTL
BalanceFromCache(w) ==
    /\ call[w].pc \in {"wait", "answered"}
    /\ LET cached == cache[Home[w]][call[w].market] IN
        /\ InCache(cached)
        /\ call' = [call EXCEPT ![w].pc = "orders", ![w].asof = cached.asof]
    /\ UNCHANGED <<now, file, lastGood, cache, bounds>>

\* _collect_market returns: the entry is new.
Collected(c) == [asof |-> c.asof, stamp |-> now, err |-> FALSE, forced |-> c.force]
OrdersArrive(w) ==
    /\ call[w].pc = "orders"
    /\ call' = [call EXCEPT ![w].pc = "merge", ![w].asof = 0,
                            ![w].snap[call[w].market] = Collected(call[w])]
    /\ UNCHANGED <<now, file, lastGood, cache, bounds>>

\* A variant, for a check: the entry of a failed refresh is made from nothing.
FailedAnew(e) == [err |-> TRUE]

\* A variant, for a check: a failed refresh stamps the previous data as a success.
FailedAsRead(e) == [e EXCEPT !.stamp = now]

\* _collect_market raises (without a token, a balance or the orders): the previous entry, with
\* the error.
Failed(e) == [e EXCEPT !.err = TRUE]
CollectFails(w) ==
    /\ \/ /\ call[w].pc \in {"wait", "answered"}
          /\ ~InCache(cache[Home[w]][call[w].market])
       \/ call[w].pc \in {"ask", "orders"}
    /\ call' = [call EXCEPT ![w].pc = "merge", ![w].asof = 0, ![w].failed = TRUE,
                            ![w].snap[call[w].market] = Failed(@)]
    /\ UNCHANGED <<now, file, lastGood, cache, bounds>>

\* A variant, for a check: of two entries with the same stamp the file's is kept.
MergedOnTies(snap, existing) ==
    [m \in Markets |-> IF existing[m].stamp >= snap[m].stamp THEN existing[m] ELSE snap[m]]

\* A variant, for a check: the file is not looked at.
MergedNever(snap, existing) == snap

\* write_snapshot: of each market the file's entry is taken over if it is newer.
Merged(snap, existing) ==
    [m \in Markets |-> IF existing[m].stamp > snap[m].stamp THEN existing[m] ELSE snap[m]]
Merge(w) ==
    /\ call[w].pc = "merge"
    /\ \/ /\ call' = [call EXCEPT ![w].pc = "replace", ![w].snap = Merged(@, file)]
          /\ NoFault
       \/ /\ call' = [call EXCEPT ![w].pc = "replace", ![w].raced = TRUE, ![w].alone = FALSE]
          /\ Fault
    /\ UNCHANGED <<now, file, lastGood, cache, refreshes, others>>

\* os.replace, after however many attempts.
Replace(w) ==
    /\ call[w].pc = "replace"
    /\ file' = call[w].snap
    /\ call' = [v \in Callers |->
                  IF v = w THEN [call[w] EXCEPT !.pc = "sidecar"]
                  ELSE IF call[v].pc = "replace" THEN [call[v] EXCEPT !.raced = TRUE]
                  ELSE call[v]]
    /\ UNCHANGED <<now, lastGood, cache, bounds>>

ReplaceFails(w) ==
    /\ call[w].pc = "replace"
    /\ Fault
    /\ call' = [call EXCEPT ![w].pc = "sidecar", ![w].alone = FALSE]
    /\ UNCHANGED <<now, file, lastGood, cache, refreshes, others>>

\* _write_last_good_snapshot_text, of the same text; its failure is only logged.
WriteLastGood(w) ==
    /\ call[w].pc = "sidecar"
    /\ call' = [call EXCEPT ![w].pc = "done"]
    /\ \/ lastGood' = call[w].snap /\ NoFault
       \/ lastGood' = lastGood /\ Fault
    /\ UNCHANGED <<now, file, cache, refreshes, others>>

\* The caller reads the file and goes its way.
Return(w) ==
    /\ call[w].pc = "done"
    /\ call' = [call EXCEPT ![w] = Idle]
    /\ UNCHANGED <<now, file, lastGood, cache, bounds>>

-----------------------------------------------------------------------------
\* Code of the process that asks for the balance and does not refresh the snapshot: its
\* request drops the cached balance if forced, and its answer replaces it.
OtherBalance(p, m) ==
    /\ others < MaxOthers
    /\ others' = others + 1
    /\ \/ cache' = [cache EXCEPT ![p][m] = NotCached]
       \/ \E asof \in 1 .. now :
            /\ now - asof <= Slow
            /\ cache' = [cache EXCEPT ![p][m] = [asof |-> asof, ts |-> now]]
    /\ UNCHANGED <<now, file, lastGood, call, refreshes, faults>>

\* The process dies, and starts again with an empty cache.
Restart(p) ==
    /\ Fault
    /\ \E w \in Callers : Home[w] = p /\ call[w] # Idle
    /\ call' = [w \in Callers |-> IF Home[w] = p THEN Idle ELSE call[w]]
    /\ cache' = [cache EXCEPT ![p] = [m \in Markets |-> NotCached]]
    /\ UNCHANGED <<now, file, lastGood, refreshes, others>>

\* The calls to the broker have time-outs; the writing of the file may take any time.
Collecting(w) == call[w].pc \in {"wait", "answered", "orders"}
Tick ==
    /\ now < MaxTime
    /\ \A w \in Callers : Collecting(w) => now - call[w].since < Slow
    /\ now' = now + 1
    /\ UNCHANGED <<file, lastGood, cache, call, bounds>>

Step(w) == \/ Ask(w) \/ Answer(w) \/ BalanceArrives(w) \/ BalanceFromCache(w)
           \/ OrdersArrive(w) \/ CollectFails(w) \/ Merge(w)
           \/ Replace(w) \/ ReplaceFails(w) \/ WriteLastGood(w) \/ Return(w)

Next ==
    \/ \E w \in Callers : \/ \E m \in Markets, force \in BOOLEAN : Begin(w, m, force)
                          \/ Step(w)
    \/ \E p \in Users, m \in Markets : OtherBalance(p, m)
    \/ \E p \in Procs : Restart(p)
    \/ Tick

Spec == Init /\ [][Next]_vars

-----------------------------------------------------------------------------
TypeOK ==
    /\ now \in Nat
    /\ file \in Snapshots
    /\ lastGood \in Snapshots
    /\ cache \in [Procs -> [Markets -> Cached]]
    /\ call \in [Callers -> Calls \cup {Idle}]
    /\ refreshes \in Nat /\ others \in Nat /\ faults \in Nat

\* How much older than its stamp an entry may be: the answer may have come from the cache, put
\* there by a call that was slow, and the refresh that took it was slow itself.
Lag(e) == IF e.forced THEN 2 * Slow ELSE CacheTTL + 2 * Slow

\* Whatever a reader finds usable, in the file or, if it cannot read it, in the sidecar, the
\* broker said within the TTL and that lag: no failed or overtaken refresh, no cached balance,
\* no writer that lost a race makes old data look new (_is_market_stale, the except branch of
\* refresh_market, write_snapshot, get_balance).
FreshIsTrue ==
    \A m \in Markets : \A e \in {file[m], lastGood[m]} :
        Usable(e) => now - e.asof <= TTL + Lag(e)

\* What the caller of a refresh finds in the file when it reads it again (refresh_broker_truth
\* followed by market_snapshot), if no other refresh overlapped and the file could be written:
\* after a failed refresh nothing usable; after one that went well an entry without error,
\* stamped since the call, and, if it was forced, of a broker's answer that at most one slow
\* call had got before it.
CallIsNew ==
    \A w \in Callers : call[w].pc = "done" /\ call[w].alone =>
        LET e == file[call[w].market] IN
        IF call[w].failed
        THEN ~Usable(e)
        ELSE /\ ~e.err
             /\ e.stamp >= call[w].since
             /\ call[w].force => call[w].since - e.asof <= Slow

\* A market's entry in the file is replaced by an older one only by a writer that raced: one
\* that another writer overtook between its look at the file and its replacement of it, or
\* that could not read the file (write_snapshot).
NewerKept ==
    [][\A m \in Markets : file'[m].stamp < file[m].stamp =>
         \E w \in Callers : call[w].pc = "replace" /\ call'[w].pc = "sidecar" /\ call[w].raced]_vars

=============================================================================
