---------------------------- MODULE MCOrderPipeline ----------------------------
(***************************************************************************)
(* A small instance of the pipeline: the messages of MCMatchingEngine, for *)
(* two orders of which one may be written twice.                           *)
(***************************************************************************)
EXTENDS OrderPipeline

CONSTANTS eth, btc, o1, o2

Limit(side, symbol, price, qty) == [side |-> side, symbol |-> symbol, price |-> price, qty |-> qty]

MCInputs ==
  {Limit("SELL", eth, 1, 1), Limit("BUY", eth, 2, 2), Limit("SELL", btc, 2, 2),
   Limit("BUY", eth, 0, 1), Malformed}

MCOrders == {o1, o2}

MCPayloads ==
  [o \in MCOrders |->
    IF o = o1 THEN {Limit("SELL", eth, 1, 1), Limit("SELL", btc, 2, 2), Malformed}
    ELSE {Limit("BUY", eth, 2, 2), Limit("BUY", eth, 0, 1)}]
================================================================================
