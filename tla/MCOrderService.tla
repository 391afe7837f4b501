----------------------------- MODULE MCOrderService -----------------------------
(***************************************************************************)
(* Small instances of the order service for TLC.                           *)
(***************************************************************************)
EXTENDS OrderLedger, TLC

CONSTANTS alice, bob, usd, btc, k1, k2

MCUsers  == {alice, bob}
MCAssets == {usd, btc}
MCKeys   == {k1, k2}

BtcUsd    == [base |-> btc, quote |-> usd]
Malformed == [base |-> NoAsset, quote |-> NoAsset]

Limit(user, key, side, qty) ==
  [wellFormed |-> TRUE, user |-> user, key |-> key, symbol |-> BtcUsd, side |-> side,
   type |-> "LIMIT", price |-> "number", qty |-> qty]

(* With Tick = 4 a quantity of 6 lies half way between two values the      *)
(* database can store.  alice can afford one of her two orders and bob uses *)
(* alice's key; the rest are refused, each at its own place.               *)
GoodRequests == {Limit(alice, k1, "BUY", 8), Limit(alice, k2, "BUY", 6),
                 Limit(bob, k1, "SELL", 4)}
BadRequests ==
  {Limit(alice, k2, "SELL", 4),
   Limit(bob, k2, "SELL", 0),
   [Limit(alice, k2, "BUY", 4) EXCEPT !.symbol = Malformed],
   [Limit(bob, k2, "SELL", 4) EXCEPT !.wellFormed = FALSE],
   [Limit(bob, k2, "SELL", 4) EXCEPT !.price = ""],
   [Limit(bob, k2, "SELL", 4) EXCEPT !.price = "", !.type = "MARKET"]}
MCRequests == GoodRequests \cup BadRequests

MCBalances ==
  [row \in Rows |-> CASE row = <<alice, usd>> -> 8
                      [] row = <<bob, btc>> -> 8
                      [] OTHER -> NoRow]

(* A claim the code does not keep: "only PENDING orders can be cancelled"  *)
(* (service.go:16), so an order is refunded at most once.                  *)
RefundedAtMostOnce ==
  \A c, d \in refunded : ask[c].order = ask[d].order => c = d
================================================================================
