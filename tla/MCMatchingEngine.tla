---------------------------- MODULE MCMatchingEngine ----------------------------
(***************************************************************************)
(* A small instance of the matching engine: orders of both sides that      *)
(* cross with a gap between their prices and use each other up or not, one *)
(* of another symbol, one that fails validation and a payload that does    *)
(* not parse.                                                              *)
(***************************************************************************)
EXTENDS MatchingEngine

CONSTANTS eth, btc

Limit(side, symbol, price, qty) == [side |-> side, symbol |-> symbol, price |-> price, qty |-> qty]

MCInputs ==
  {Limit("SELL", eth, 1, 1), Limit("BUY", eth, 2, 2), Limit("SELL", btc, 2, 2),
   Limit("BUY", eth, 0, 1), Malformed}
================================================================================
