------------------------ MODULE MCRefundReservation ------------------------
(***************************************************************************)
(* One order paid twice, with 3 units and with 2 (a double payment): two   *)
(* refunds of 2 that do not fit together and one of 1 that fits beside     *)
(* either of them.                                                         *)
(***************************************************************************)
EXTENDS RefundReservation, TLC

CONSTANTS r1, r2, r3, a1, a2

MCRefunds == {r1, r2, r3}
MCAmount == (r1 :> 2) @@ (r2 :> 2) @@ (r3 :> 1)
MCAttempts == {a1, a2}
MCPaid == (a1 :> 3) @@ (a2 :> 2)

\* The same order paid once.
MCOnlyAttempt == {a1}
MCOnlyPaid == (a1 :> 3)

Symmetry == Permutations(Requests) \cup Permutations({r1, r2})
=============================================================================
