----------------------------- MODULE MCMarketSocket -----------------------------
(***************************************************************************)
(* Small instances of the market socket.                                   *)
(***************************************************************************)
EXTENDS MarketSocket
================================================================================
