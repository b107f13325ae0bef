--------------------------- MODULE PaymentStatus ---------------------------
(***************************************************************************)
(* The status vocabulary of commerce_payment_intent and                    *)
(* commerce_payment_attempt rows and the rules that every writer of a      *)
(* status consults.  The stored values are the wire values that pass the   *)
(* CHECK constraint of the two tables; "created" and "closed" pass it but  *)
(* no statement of the repository writes them.                             *)
(***************************************************************************)

\* The states of the canonical payment machine (PaymentStatus).
MachineStates == {"Created", "Pending", "Succeeded", "Failed", "Closed"}

\* The wire values a row may hold.
WireStatuses ==
    {"created", "pending", "processing", "succeeded", "failed", "canceled", "closed"}

\* The wire values that some statement of the repository writes.
StoredStatuses == WireStatuses \ {"created", "closed"}

\* What a row that does not exist reads as.
Absent == "absent"

\* PaymentStatus::from_wire: several wire values share one machine state.
FromWire ==
    [w \in WireStatuses |->
        CASE w = "created"                   -> "Created"
          [] w \in {"pending", "processing"} -> "Pending"
          [] w = "succeeded"                 -> "Succeeded"
          [] w = "failed"                    -> "Failed"
          [] w \in {"canceled", "closed"}    -> "Closed"]

\* PaymentTransition::validate: the edges of the machine.
MachineEdges ==
    { <<"Created", "Pending">>, <<"Created", "Closed">>,
      <<"Pending", "Succeeded">>, <<"Pending", "Failed">>, <<"Pending", "Closed">> }

\* validate_payment_wire_transition, behind ensure_payment_status_transition.
MayTransition(from, to) ==
    \/ FromWire[from] = FromWire[to]
    \/ <<FromWire[from], FromWire[to]>> \in MachineEdges

\* The SQL guard status IN ('created', 'pending', 'processing').
IsActive(status) == status \in {"created", "pending", "processing"}

\* payment_attempt_is_terminal_success.
IsSuccess(status) == status = "succeeded"

\* A bug: a webhook may not revive a failed or closed payment.
WebhookMayTransition_NoRecovery(from, to) == MayTransition(from, to)

\* A bug: a webhook may take a payment anywhere.
WebhookMayTransition_Lax(from, to) == TRUE

\* webhook_transition_allowed: the machine's edges, and in addition a success
\* notification revives a payment that was recorded as failed or closed.
WebhookMayTransition(from, to) ==
    \/ from = to
    \/ /\ to = "succeeded"
       /\ from \in {"failed", "canceled", "closed"}
    \/ MayTransition(from, to)

(***************************************************************************)
(* What map_provider_payment_status makes of a notification's raw status.  *)
(* Which raw string of which provider maps to which target is data; what a *)
(* settlement can tell apart is one of the four targets, a status that is  *)
(* not in the provider's table, or no status at all.                       *)
(***************************************************************************)
Targets == {"succeeded", "failed", "canceled", "pending"}
NoTargets == {"unknown", "missing"}
NoticeStatuses == Targets \cup NoTargets
=============================================================================
