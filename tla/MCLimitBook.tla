------------------------------ MODULE MCLimitBook ------------------------------
(***************************************************************************)
(* Small instances of the limit book: orders of both sides and of neither, *)
(* at two prices and quantities, and ones validateOrder refuses.           *)
(***************************************************************************)
EXTENDS LimitBook

CONSTANTS eth, btc

MCSides      == {"BUY", "SELL", "HOLD"}
MCQuantities == {-1, 0, 1, 2}
================================================================================
