------------------------------ MODULE MCOrderBook ------------------------------
(***************************************************************************)
(* Small instances of the order book, with enough orders for a heap three  *)
(* levels deep.                                                            *)
(***************************************************************************)
EXTENDS OrderBook

CONSTANTS eth, btc

MCSides      == {"BUY", "SELL", "HOLD"}
MCQuantities == {-1, 0, 1, 2}
================================================================================
