---------------------------- MODULE RefundStatus ----------------------------
(***************************************************************************)
(* The statuses of a commerce_refund row and the rules that every writer   *)
(* of one consults.  "canceled" passes the CHECK constraint and belongs to *)
(* the machine, but no statement of the repository writes it.              *)
(***************************************************************************)

\* The states of the canonical refund machine (RefundStatus).
RefundStates == {"Requested", "Processing", "Succeeded", "Failed", "Closed"}

\* The values a row may hold.
RefundStatuses == {"submitted", "processing", "succeeded", "failed", "canceled"}

\* What a row that does not exist reads as.
NoRow == "absent"

\* RefundStatus::from_wire.
RefundFromWire ==
    [w \in RefundStatuses |->
        CASE w = "submitted"  -> "Requested"
          [] w = "processing" -> "Processing"
          [] w = "succeeded"  -> "Succeeded"
          [] w = "failed"     -> "Failed"
          [] w = "canceled"   -> "Closed"]

\* RefundTransition::validate: Failed is the one terminal state that may be left.
RefundEdges ==
    ({"Requested"} \X {"Processing", "Succeeded", "Failed", "Closed"})
        \cup ({"Processing"} \X {"Succeeded", "Failed", "Closed"})
        \cup ({"Failed"} \X {"Processing", "Succeeded", "Closed"})

\* A bug: a refund may be reopened from every terminal state.
RefundMayTransition_Reopens(from, to) ==
    from = to \/ <<RefundFromWire[from], RefundFromWire[to]>> \in RefundEdges
        \/ (from = "succeeded" /\ to \in {"processing", "failed"})

\* validate_refund_wire_transition, behind ensure_refund_status_transition.
RefundMayTransition(from, to) ==
    from = to \/ <<RefundFromWire[from], RefundFromWire[to]>> \in RefundEdges

\* The UPDATE guard of the two terminal marks.
IsOpen(status) == status \in {"submitted", "processing"}

\* The statuses whose amount sum_refunded_amount_in_tx counts.
Reserves(status) == status \in {"submitted", "processing", "succeeded"}

\* What map_provider_refund_status makes of a provider's raw status.
RefundTargets == {"processing", "succeeded", "failed"}
=============================================================================
