----------------------------- MODULE MCOutboxRelay -----------------------------
(***************************************************************************)
(* Small instances of the outbox relay: alice places two orders, bob one.  *)
(***************************************************************************)
EXTENDS OutboxRelay, TLC

CONSTANTS alice, bob, a1, a2, b1

MCMessages == {a1, a2, b1}
MCKeys     == {alice, bob}
MCKeyOf    == a1 :> alice @@ a2 :> alice @@ b1 :> bob
================================================================================
