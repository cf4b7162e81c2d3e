--------------------------- MODULE MCOrderUnknown ---------------------------
(* Instances of OrderUnknown for TLC: two markets with a ticker in each    *)
(* and one order, of the first ticker; the second ticker's unknown orders  *)
(* have no order number.                                                   *)
EXTENDS OrderUnknown, TLC

CONSTANTS KR, US, k, u, a

MCMarkets == {KR, US}
MCTickers == {k, u}
MCOrders == {a}
MCMarketOf == (k :> KR) @@ (u :> US)
MCTickerOf == a :> k
=============================================================================
