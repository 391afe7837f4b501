------------------------------- MODULE OrderLedger -------------------------------
(***************************************************************************)
(* The accounts behind the order service: what every balance must be,      *)
(* given the orders placed and the refunds committed so far.               *)
(***************************************************************************)
EXTENDS OrderService, Functions

OrdersOn(row)  == {p \in Placed : Row(p) = row}
RefundsTo(row) == {c \in refunded : CreditRow(c) = row}

(* What each order cost, and what each refund gave back.                   *)
Cost   == [p \in Placed |-> StoredQty(p)]
Refund == [c \in refunded |-> StoredQty(ask[c].order)]

SpentOn(row)    == SumFunctionOnSet(Cost, OrdersOn(row))
RefundedTo(row) == SumFunctionOnSet(Refund, RefundsTo(row))

Expected(row) ==
  (IF InitialBalances[row] = NoRow THEN 0 ELSE InitialBalances[row])
  - SpentOn(row) + RefundedTo(row)

(* Orders whose quantity lies half way between two values of NUMERIC(20,8).*)
HalfTickOrders(row) ==
  {p \in OrdersOn(row) : (2 * req[p].qty) % (2 * Tick) = Tick}

(* Every balance is its initial value, less the recorded quantities of the *)
(* orders placed, plus the refunds: no concurrent deduction or refund is   *)
(* lost.  Rounding may leave a user at most one tick too much for each     *)
(* order of a half tick, because the balance and the order are rounded     *)
(* separately (service.go:132-135), and never too little.                  *)
LedgerBalanced ==
  \A row \in Rows : balances[row] # NoRow =>
    balances[row] - Expected(row)
      \in 0 .. (Tick * Cardinality(HalfTickOrders(row)))
================================================================================
