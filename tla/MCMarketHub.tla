------------------------------ MODULE MCMarketHub ------------------------------
(***************************************************************************)
(* A small instance of the market service: two connections of one symbol,  *)
(* and trades of that symbol and of one nobody asked for.                  *)
(***************************************************************************)
EXTENDS MarketHub

CONSTANTS c1, c2, eth, btc

MCClients == {c1, c2}

MCSymbolOf == [c \in MCClients |-> eth]
================================================================================
