------------------------ MODULE MCPaymentSettlement ------------------------
(***************************************************************************)
(* One order with two idempotency keys that want an intent of it, and two  *)
(* attempts that may hang on either.                                       *)
(***************************************************************************)
EXTENDS PaymentSettlement, TLC

CONSTANTS order

MCOrders == {order}
MCOrderOf == [i \in Intents |-> order]

Symmetry == Permutations(Intents) \cup Permutations(Attempts) \cup Permutations(Events)
=============================================================================
