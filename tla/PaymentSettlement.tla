------------------------- MODULE PaymentSettlement -------------------------
(***************************************************************************)
(* The payment intent, payment attempt and webhook event rows of one       *)
(* tenant, and every transaction of the repository that writes a payment   *)
(* status: owner checkout, cancellation, manual confirmation, webhook      *)
(* ingestion and replay, the provider query of the back office, the close  *)
(* of an attempt during checkout, and the claim of the compensation        *)
(* worker.                                                                 *)
(*                                                                         *)
(* One action is one PostgreSQL transaction: each locks, or updates under  *)
(* a status guard, the rows it decides on.  What the code reads before     *)
(* such a transaction is a step of its own.  Time is not modelled: whether *)
(* an attempt has expired is left open, so a client may or may not be      *)
(* handed back the active attempt it already has (which changes nothing).  *)
(***************************************************************************)
EXTENDS Naturals, PaymentStatus

CONSTANTS
    Orders,      \* orders of the owning order service
    Intents,     \* payment intent ids, derived from (order, idempotency key)
    OrderOf,     \* the order an intent id is derived from
    Attempts,    \* payment attempt ids
    Events,      \* provider event ids
    MaxReplays,  \* WEBHOOK_STORED_REPLAY_MAX_RETRIES (5 in the code)
    None         \* SQL NULL

ASSUME OrderAssumption == OrderOf \in [Intents -> Orders]
ASSUME ReplayAssumption == MaxReplays \in Nat
ASSUME NoneAssumption ==
    None \notin Intents \cup Attempts \cup Events \cup {"confirmed", "queried"}
ASSUME EventAssumption == Events \cap {"confirmed", "queried"} = {}

VARIABLES
    payable,     \* the order is unpaid and unexpired (owned by the order service)
    intent,      \* commerce_payment_intent.status
    attempt,     \* commerce_payment_attempt.status
    intentOf,    \* commerce_payment_attempt.payment_intent_id
    paidAt,      \* commerce_payment_attempt.paid_at: the report that stamped it
    opening,     \* intents whose creation has read a payable order
    creation,    \* progress of the creation of an attempt under an existing intent
    notice,      \* what the provider says under each event id
    event,       \* commerce_payment_webhook_event.status, once stored
    replays      \* commerce_payment_webhook_event.retries

rows == <<intent, attempt, intentOf, paidAt>>
requests == <<opening, creation>>
webhooks == <<notice, event, replays>>
vars == <<payable, rows, requests, webhooks>>

\* What a capture can be owed to: a webhook event, a manual confirmation, a query.
Reports == Events \cup {"confirmed", "queried"}

Notices == [attempt : Attempts \cup {None}, status : NoticeStatuses, agrees : BOOLEAN]
SilentNotice == [attempt |-> None, status |-> "missing", agrees |-> TRUE]

\* The creation of an attempt reads the intent, then the order, then inserts.
NoCreation == [phase |-> "idle", intent |-> None]
Creations == [phase : {"idle", "intent read", "order read"}, intent : Intents \cup {None}]

Exists(status) == status # Absent
AttemptsOf(i) == {a \in Attempts : intentOf[a] = i}
ActiveAttemptsOf(i) == {a \in AttemptsOf(i) : IsActive(attempt[a])}

\* The unique index on (tenant_id, payment_intent_no): both inserts number the
\* intent after its order, so an order that has an intent accepts no other one.
IntentNumberFree(i) ==
    \A j \in Intents : OrderOf[j] = OrderOf[i] => ~Exists(intent[j])

Init ==
    /\ payable = [o \in Orders |-> TRUE]
    /\ intent = [i \in Intents |-> Absent]
    /\ attempt = [a \in Attempts |-> Absent]
    /\ intentOf = [a \in Attempts |-> None]
    /\ paidAt = [a \in Attempts |-> None]
    /\ opening = {}
    /\ creation = [a \in Attempts |-> NoCreation]
    /\ notice = [e \in Events |-> SilentNotice]
    /\ event = [e \in Events |-> "unsent"]
    /\ replays = [e \in Events |-> 0]

-----------------------------------------------------------------------------
(***************************************************************************)
(* The environment: the order service and the payment providers.           *)
(***************************************************************************)

\* The order is paid, cancelled or expires; it is never payable again.
OrderLeavesPayable(o) ==
    /\ payable[o]
    /\ payable' = [payable EXCEPT ![o] = FALSE]
    /\ UNCHANGED <<rows, requests, webhooks>>

\* A provider reports a status of a trade it knows of (or of one this system does
\* not hold) under a fresh event id.  The amount matters only to a success.
ProviderNotifies(e, n) ==
    /\ event[e] = "unsent"
    /\ n.attempt # None => Exists(attempt[n.attempt])
    /\ n.status # "succeeded" => n.agrees
    /\ notice' = [notice EXCEPT ![e] = n]
    /\ event' = [event EXCEPT ![e] = "sent"]
    /\ UNCHANGED <<payable, rows, requests, replays>>

-----------------------------------------------------------------------------
(***************************************************************************)
(* Creating intents and attempts.                                          *)
(***************************************************************************)

InsertAttempt(a, i) ==
    /\ ~Exists(attempt[a])
    /\ attempt' = [attempt EXCEPT ![a] = "pending"]
    /\ intentOf' = [intentOf EXCEPT ![a] = i]
    /\ UNCHANGED paidAt

\* pay_owner_order under the order's row lock, when no idempotent replay and no
\* reusable attempt answers the request (those two change nothing).
PayOwnerOrder(i, a) ==
    /\ payable[OrderOf[i]]
    /\ IntentNumberFree(i)
    /\ intent' = [intent EXCEPT ![i] = "pending"]
    /\ InsertAttempt(a, i)
    /\ UNCHANGED <<payable, requests, webhooks>>

\* create_owner_payment_intent reads the order without a lock ...
BeginCreateOwnerPaymentIntent(i) ==
    /\ payable[OrderOf[i]]
    /\ ~Exists(intent[i])
    /\ i \notin opening
    /\ opening' = opening \cup {i}
    /\ UNCHANGED <<payable, rows, creation, webhooks>>

\* ... and inserts; a number or id that is taken inserts nothing.
CreateOwnerPaymentIntent(i) ==
    /\ i \in opening
    /\ opening' = opening \ {i}
    /\ intent' = IF IntentNumberFree(i) THEN [intent EXCEPT ![i] = "pending"] ELSE intent
    /\ UNCHANGED <<payable, attempt, intentOf, paidAt, creation, webhooks>>

\* create_owner_payment_attempt: the intent is read before the transaction opens.
ReadAttemptableIntent(a, i) ==
    /\ creation[a] = NoCreation
    /\ ~Exists(attempt[a])
    /\ Exists(intent[i])
    /\ intent[i] \notin {"succeeded", "closed", "canceled"}
    /\ creation' = [creation EXCEPT ![a] = [phase |-> "intent read", intent |-> i]]
    /\ UNCHANGED <<payable, rows, opening, webhooks>>

\* The order is read inside the transaction, but not locked.
ReadPayableOrder(a) ==
    /\ creation[a].phase = "intent read"
    /\ payable[OrderOf[creation[a].intent]]
    /\ creation' = [creation EXCEPT ![a].phase = "order read"]
    /\ UNCHANGED <<payable, rows, opening, webhooks>>

\* The insert: the attempt is added whatever has become of its intent, and the
\* intent is set to pending only if it is still active.
CreateOwnerPaymentAttempt(a) ==
    /\ creation[a].phase = "order read"
    /\ InsertAttempt(a, creation[a].intent)
    /\ intent' = [intent EXCEPT ![creation[a].intent] = IF IsActive(@) THEN "pending" ELSE @]
    /\ creation' = [creation EXCEPT ![a] = NoCreation]
    /\ UNCHANGED <<payable, opening, webhooks>>

\* The request ends before its insert: an order that is not payable, a channel
\* that cannot be selected, a lost connection, an id that was taken meanwhile.
AbandonCreation(a) ==
    /\ creation[a] # NoCreation
    /\ creation' = [creation EXCEPT ![a] = NoCreation]
    /\ UNCHANGED <<payable, rows, opening, webhooks>>

-----------------------------------------------------------------------------
(***************************************************************************)
(* Closing payments.                                                       *)
(***************************************************************************)

CancelActive(statuses, cancelled) ==
    [x \in DOMAIN statuses |->
        IF x \in cancelled /\ IsActive(statuses[x]) THEN "canceled" ELSE statuses[x]]

\* cancel_owner_payment_intent: the intent row is locked.
CancelOwnerPaymentIntent(i) ==
    /\ Exists(intent[i])
    /\ IsActive(intent[i])
    /\ intent' = [intent EXCEPT ![i] = "canceled"]
    /\ attempt' = CancelActive(attempt, AttemptsOf(i))
    /\ UNCHANGED <<payable, intentOf, paidAt, requests, webhooks>>

\* cancel_order_payments: the order, its intents and its attempts are locked.
\* The conflict it may answer afterwards changes nothing.
CancelOrderPayments(o) ==
    LET cancelled == {i \in Intents : OrderOf[i] = o}
    IN  /\ intent' = CancelActive(intent, cancelled)
        /\ attempt' = CancelActive(attempt, UNION {AttemptsOf(i) : i \in cancelled})
        /\ UNCHANGED <<payable, intentOf, paidAt, requests, webhooks>>

\* close_payment_record given an attempt id: siblings under the intent stay open.
ClosePaymentAttempt(a) ==
    /\ IsActive(attempt[a])
    /\ attempt' = [attempt EXCEPT ![a] = "canceled"]
    /\ intent' = CancelActive(intent, {intentOf[a]})
    /\ UNCHANGED <<payable, intentOf, paidAt, requests, webhooks>>

\* close_payment_record given an intent id: its attempts stay open.
ClosePaymentIntent(i) ==
    /\ IsActive(intent[i])
    /\ intent' = [intent EXCEPT ![i] = "canceled"]
    /\ UNCHANGED <<payable, attempt, intentOf, paidAt, requests, webhooks>>

\* mark_attempt_canceled_postgres, after the provider closed the trade of an
\* attempt that was active when checkout listed it: a settled attempt is an
\* error, a canceled one is not, and the intent follows its last active attempt.
CloseAttempt(a) ==
    /\ IsActive(attempt[a]) \/ attempt[a] = "canceled"
    /\ attempt' = [attempt EXCEPT ![a] = "canceled"]
    /\ intent' = IF ActiveAttemptsOf(intentOf[a]) \subseteq {a}
                 THEN CancelActive(intent, {intentOf[a]})
                 ELSE intent
    /\ UNCHANGED <<payable, intentOf, paidAt, requests, webhooks>>

\* claim_due_payment_attempts_postgres.
ClaimDueAttempt(a) ==
    /\ attempt[a] = "pending"
    /\ attempt' = [attempt EXCEPT ![a] = "processing"]
    /\ UNCHANGED <<payable, intent, intentOf, paidAt, requests, webhooks>>

-----------------------------------------------------------------------------
(***************************************************************************)
(* Settlement.                                                             *)
(***************************************************************************)

\* A bug: the amount of a success notification is not compared.
Refused_Unchecked(status, agrees) == FALSE

\* The settlement integrity check.
Refused(status, agrees) == status = "succeeded" /\ ~agrees

IntentAccepts(a, status) == WebhookMayTransition(intent[intentOf[a]], status)
AttemptAccepts(a, status) == WebhookMayTransition(attempt[a], status)

\* A bug: every status that reaches an attempt stamps it.
Stamped_Always(stamp, status, by) == IF stamp = None THEN by ELSE stamp

\* COALESCE(paid_at, now) on success.
Stamped(stamp, status, by) ==
    IF status = "succeeded" /\ stamp = None THEN by ELSE stamp

\* apply_webhook_payment_status_postgres under the order, intent and attempt
\* locks: the intent is written before the attempt is asked.
ApplyPaymentStatus(a, status, agrees, by) ==
    LET toIntent == /\ status \in Targets
                    /\ ~Refused(status, agrees)
                    /\ IntentAccepts(a, status)
        toAttempt == toIntent /\ AttemptAccepts(a, status)
    IN  /\ intent' = IF toIntent THEN [intent EXCEPT ![intentOf[a]] = status] ELSE intent
        /\ attempt' = IF toAttempt THEN [attempt EXCEPT ![a] = status] ELSE attempt
        /\ paidAt' = IF toAttempt /\ attempt[a] # status
                     THEN [paidAt EXCEPT ![a] = Stamped(@, status, by)] ELSE paidAt
        /\ UNCHANGED intentOf

\* load_attempt_by_out_trade_no_postgres: an event keeps the one attempt its trade number named.
Matched(e) == notice[e].attempt # None

\* ingest_provider_webhook_postgres when no attempt carries the trade number: the
\* first delivery stores a failed event, a later one changes nothing.
IngestUnmatchedWebhook(e) ==
    /\ event[e] # "unsent"
    /\ ~Matched(e)
    /\ event' = [event EXCEPT ![e] = IF @ = "sent" THEN "failed" ELSE @]
    /\ UNCHANGED <<payable, rows, requests, notice, replays>>

\* ingest_provider_webhook_postgres for a matched notification, first delivery or
\* redelivery: the stored status is applied (again) and the event is closed.
IngestProviderWebhook(e) ==
    LET n == notice[e]
    IN  /\ event[e] # "unsent"
        /\ Matched(e)
        /\ ApplyPaymentStatus(n.attempt, n.status, n.agrees, e)
        /\ event' = [event EXCEPT ![e] =
                        IF Refused(n.status, n.agrees) THEN "failed" ELSE "processed"]
        /\ UNCHANGED <<payable, requests, notice, replays>>

\* A bug: the limit is compared one replay too late.
MayReplay_OneMore(e) == replays[e] <= MaxReplays

\* An event is replayed a limited number of times.
MayReplay(e) == replays[e] < MaxReplays

\* replay_stored_webhook_event_postgres: an operator re-applies a stored event.
\* Unmatched events, refused amounts and unmapped statuses are errors.
ReplayStoredWebhook(e) ==
    LET n == notice[e]
    IN  /\ event[e] \in {"processed", "failed"}
        /\ MayReplay(e)
        /\ Matched(e)
        /\ n.status # "unknown"
        /\ ~Refused(n.status, n.agrees)
        /\ ApplyPaymentStatus(n.attempt, n.status, n.agrees, e)
        /\ event' = [event EXCEPT ![e] = "processed"]
        /\ replays' = [replays EXCEPT ![e] = @ + 1]
        /\ UNCHANGED <<payable, requests, notice>>

\* check_attempt_status: the back office queries the provider for an attempt that
\* was active when it was read, and applies the answer in a transaction.
CheckAttemptStatus(a, status, agrees) ==
    /\ Exists(attempt[a])
    /\ status # "missing"
    /\ status # "succeeded" => agrees
    /\ ApplyPaymentStatus(a, status, agrees, "queried")
    /\ UNCHANGED <<payable, requests, webhooks>>

\* Intent and attempt of the one attempt that matches, settled or able to settle.
MayConfirm(a) ==
    LET i == intentOf[a]
    IN  /\ Exists(attempt[a])
        /\ IsSuccess(intent[i]) \/ (IsActive(intent[i]) /\ MayTransition(intent[i], "succeeded"))
        /\ IsActive(attempt[a]) /\ MayTransition(attempt[a], "succeeded")

\* confirm_owner_order_payment; any error rolls both updates back, and a settled attempt is
\* a replay that changes nothing.
ConfirmOwnerOrderPayment(a) ==
    /\ MayConfirm(a)
    /\ intent' = [intent EXCEPT ![intentOf[a]] = "succeeded"]
    /\ attempt' = [attempt EXCEPT ![a] = "succeeded"]
    /\ paidAt' = [paidAt EXCEPT ![a] = Stamped(@, "succeeded", "confirmed")]
    /\ UNCHANGED <<payable, intentOf, requests, webhooks>>

-----------------------------------------------------------------------------
Environment ==
    \/ \E o \in Orders : OrderLeavesPayable(o)
    \/ \E e \in Events, n \in Notices : ProviderNotifies(e, n)

Creating ==
    \/ \E i \in Intents, a \in Attempts : PayOwnerOrder(i, a)
    \/ \E i \in Intents : BeginCreateOwnerPaymentIntent(i)
    \/ \E i \in Intents : CreateOwnerPaymentIntent(i)
    \/ \E i \in Intents, a \in Attempts : ReadAttemptableIntent(a, i)
    \/ \E a \in Attempts : ReadPayableOrder(a)
    \/ \E a \in Attempts : CreateOwnerPaymentAttempt(a)
    \/ \E a \in Attempts : AbandonCreation(a)

Closing ==
    \/ \E i \in Intents : CancelOwnerPaymentIntent(i)
    \/ \E o \in Orders : CancelOrderPayments(o)
    \/ \E a \in Attempts : ClosePaymentAttempt(a)
    \/ \E i \in Intents : ClosePaymentIntent(i)
    \/ \E a \in Attempts : CloseAttempt(a)
    \/ \E a \in Attempts : ClaimDueAttempt(a)

Settling ==
    \/ \E e \in Events : IngestUnmatchedWebhook(e)
    \/ \E e \in Events : IngestProviderWebhook(e)
    \/ \E e \in Events : ReplayStoredWebhook(e)
    \/ \E a \in Attempts, s \in NoticeStatuses, ok \in BOOLEAN : CheckAttemptStatus(a, s, ok)
    \/ \E a \in Attempts : ConfirmOwnerOrderPayment(a)

Next == Environment \/ Creating \/ Closing \/ Settling

Spec == Init /\ [][Next]_vars

\* A provider redelivers a notification until it is acknowledged, and each delivery
\* is one transaction: the first ingestion of a sent notification is not put off
\* forever.  Nothing else is owed by anybody.
FirstIngestion(e) == event[e] = "sent" /\ IngestProviderWebhook(e)
Fairness == \A e \in Events : WF_vars(FirstIngestion(e))
FairSpec == Spec /\ Fairness

-----------------------------------------------------------------------------
(***************************************************************************)
(* Properties.                                                             *)
(***************************************************************************)

\* Rows, requests and events hold what their columns and handlers allow.
TypeOK ==
    /\ payable \in [Orders -> BOOLEAN]
    /\ intent \in [Intents -> StoredStatuses \cup {Absent}]
    /\ attempt \in [Attempts -> StoredStatuses \cup {Absent}]
    /\ intentOf \in [Attempts -> Intents \cup {None}]
    /\ paidAt \in [Attempts -> Reports \cup {None}]
    /\ opening \subseteq Intents
    /\ creation \in [Attempts -> Creations]
    /\ notice \in [Events -> Notices]
    /\ event \in [Events -> {"unsent", "sent", "processed", "failed"}]
    /\ replays \in [Events -> 0..MaxReplays]

\* An intent is recorded as paid exactly when one of its attempts is: neither the
\* early return of a webhook between its two updates, nor a cancellation or an
\* attempt created from a stale read, ever separates the two rows.
SettledTogether ==
    \A i \in Intents :
        IsSuccess(intent[i]) <=> \E a \in AttemptsOf(i) : IsSuccess(attempt[a])

\* An attempt carries a payment time exactly while it is settled, whichever of
\* the webhook, query, replay and confirmation paths settled it: the confirmation
\* replay relies on it (required_persisted_paid_at).
PaidAtMarksSuccess ==
    \A a \in Attempts : IsSuccess(attempt[a]) <=> paidAt[a] # None

\* Whatever settled an attempt through a webhook event (first delivery,
\* redelivery or operator replay) was a success notification that names this
\* attempt and its amount, and its event is closed as processed.
SettlementIsNotified ==
    \A a \in Attempts, e \in Events :
        paidAt[a] = e =>
            /\ notice[e].attempt = a
            /\ notice[e].status = "succeeded"
            /\ notice[e].agrees
            /\ event[e] = "processed"

\* The tables implement the ledger: an attempt is captured once, by one report,
\* never loses its capture or moves to another intent, and its intent is paid in
\* that very transaction and for good.
Ledger == INSTANCE CaptureLedger WITH
    owner <- intentOf, ledger <- paidAt, paid <- {i \in Intents : IsSuccess(intent[i])}
ImplementsCaptureLedger == Ledger!LedgerSpec

\* Captured money is never lost: once a provider has notified the success of an
\* attempt with the right amount, the attempt ends up settled, even if it was
\* canceled, closed or failed locally before the notification is ingested.
NotifiedSuccessSettles ==
    \A e \in Events, a \in Attempts :
        (event[e] = "sent" /\ notice[e] = [attempt |-> a, status |-> "succeeded", agrees |-> TRUE])
            ~> IsSuccess(attempt[a])
=============================================================================
