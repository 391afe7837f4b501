------------------------------ MODULE MCUserService ------------------------------
(***************************************************************************)
(* Small instances of the user service.                                    *)
(***************************************************************************)
EXTENDS UserService, TLC

CONSTANTS register1, other1, credit1, take1, take2,
          ann, usd, btc, right, wrong, long

MCAssets == <<usd, btc>>

Ask(op, amount, password) ==
  [op |-> op, account |-> <<ann, usd>>, amount |-> amount, password |-> password, complete |-> TRUE]

(* A float64 of five significant bits: above 16, only multiples of 8.      *)
Nearest8(x) == IF x >= 0 THEN ((x + 4) \div 8) * 8 ELSE -(((4 - x) \div 8) * 8)

MCFloat64 == [x \in -46 .. 46 |-> IF x \in -16 .. 16 THEN x ELSE Nearest8(x)]

(* A registration and another of the same address, perhaps with a password *)
(* that is too long, or a login or a look at the balances; a deposit, and  *)
(* two calls that take: a deduction and an order, or two deductions.  With *)
(* a tick of 4, 28 and the 32 to deduct read as the same float64, 38 lies  *)
(* half way between two ticks, 1 rounds to nothing and 46 is more than the *)
(* column holds.                                                           *)
MCRequests ==
  register1 :> {Ask("register", 0, right)} @@
  other1 :> {Ask("register", 0, wrong), Ask("register", 0, long),
             Ask("login", 0, right), Ask("balance", 0, right)} @@
  credit1 :> {Ask("credit", x, right) : x \in {28, 38, 1, 46, 0, NaN}} @@
  take1 :> {Ask("deduct", 32, right), Ask("deduct", NaN, right)} @@
  take2 :> {Ask("order", 18, right), Ask("deduct", 12, right)}
================================================================================
