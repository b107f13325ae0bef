---------------------------- MODULE MCCheckoutPool ----------------------------
(***************************************************************************)
(* Two hosts with two connections each: two requests and another user on    *)
(* the first, one request on the second, and two orders.                   *)
(***************************************************************************)
EXTENDS CheckoutPool

CONSTANTS r1, r2, r3, x1, h1, h2

MCHostOf == [u \in {r1, r2, r3, x1} |-> IF u = r3 THEN h2 ELSE h1]
=============================================================================
