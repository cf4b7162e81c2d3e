----------------------------- MODULE ShareLedger -----------------------------
(***************************************************************************)
(* What the bookkeeping of the bot promises about the shares of a ticker:  *)
(* whatever brings the news of a fill (a query, a notice, the balance),    *)
(* the bot counts no more shares than the broker holds for it; but what    *)
(* the WebSocket thread tells, a restart, and the correction of several    *)
(* positions of the ticker one by one may make it count some twice, which  *)
(* a synchronisation puts right.  In the end the bot counts them all.      *)
(***************************************************************************)
EXTENDS Integers

VARIABLES
    held,       \* shares the broker holds
    counted,    \* shares the bot believes to hold
    doubt       \* shares may be counted twice: the WebSocket thread has told of shares, or of
                \* an order that has bought some; or the bot has restarted from files that are
                \* behind, or with several positions; or a synchronisation is correcting them

ledger == <<held, counted, doubt>>

Init == held = 0 /\ counted = 0 /\ doubt = FALSE

\* The broker buys.
Buy == /\ held' \in {h \in Nat : h > held}
       /\ UNCHANGED <<counted, doubt>>

\* The bot learns of shares.
Count == /\ counted' \in 0 .. held
         /\ UNCHANGED <<held, doubt>>

\* The WebSocket thread tells of shares, or of an order, that the trading loop may have
\* counted from the balance already; the bot restarts; each of several positions is given
\* the whole holding.
Disturb == /\ doubt'
          /\ counted' \in Nat
          /\ UNCHANGED held

\* As long as there is doubt anything may have been counted twice.
CountInDoubt == /\ doubt
                /\ counted' \in Nat
                /\ UNCHANGED <<held, doubt>>

\* A synchronisation that began after what brought the doubt, and after which no pending
\* order can tell of shares already counted.
Settle == /\ counted' \in 0 .. held
          /\ doubt' = FALSE
          /\ UNCHANGED held

Next == Buy \/ Count \/ Disturb \/ CountInDoubt \/ Settle

Spec == Init /\ [][Next]_ledger

\* In the end every share is counted, and once.
AllCounted == <>[](counted = held)

\* Each time the bot may count shares twice, it is put right.
DoubtEnds == []<>~doubt
=============================================================================
