------------------------- MODULE MCRefundSubmission -------------------------
(***************************************************************************)
(* Instances of RefundSubmission.  Refund numbers do not interact at the   *)
(* provider, so one refund carries the interesting interleavings.          *)
(***************************************************************************)
EXTENDS RefundSubmission, TLC

Symmetry == Permutations(Handlers)
=============================================================================
