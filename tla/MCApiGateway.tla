------------------------------ MODULE MCApiGateway ------------------------------
(***************************************************************************)
(* A small instance of the gateway: clients that log in, place an order,   *)
(* place it again with the same key and ask for it, from one address whose *)
(* bucket holds fewer requests than they send.                             *)
(***************************************************************************)
EXTENDS ApiGateway

CONSTANTS ip1, ip2, k1, k2, r1, r2, r3

Anonymous(kind, ip) == [kind |-> kind, bearer |-> FALSE, ip |-> ip, key |-> k1, bindable |-> TRUE]
Bearer(kind, ip, key) == [Anonymous(kind, ip) EXCEPT !.bearer = TRUE, !.key = key]

MCRequests == {r1, r2, r3}

MCForms ==
  [r \in MCRequests |->
    CASE r = r1 -> {Bearer("place", ip1, k1)}
      [] r = r2 -> {Bearer("place", ip1, k1), Anonymous("public", ip1)}
      [] r = r3 -> {Bearer("get", ip2, k1), Anonymous("get", ip2),
                    [Bearer("place", ip2, k2) EXCEPT !.bindable = FALSE]}]
================================================================================
