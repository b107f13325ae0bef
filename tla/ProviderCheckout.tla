--------------------------- MODULE ProviderCheckout ---------------------------
(***************************************************************************)
(* The checkout of one order at the payment service provider: how the      *)
(* requests that prepare a cashier, replace a payment method, cancel or    *)
(* close a payment find an attempt, take the advisory lock of the order,   *)
(* close the trades of the other attempts and create the trade of theirs,  *)
(* while provider notifications, the worker and the clock go on.           *)
(*                                                                         *)
(* A step is one statement, one transaction or one provider call of        *)
(* owner_order_checkout.rs and owner_order_provider_close.rs.  A request   *)
(* that ends, with or without an error, may be followed by another one of  *)
(* the same client.  Sandbox attempts, whose provider calls do nothing,    *)
(* are left out, and so is the connection gate in front of the lock.       *)
(***************************************************************************)
EXTENDS Naturals, Sequences, FiniteSets, FiniteSetsExt, PaymentStatus

CONSTANTS
    Requests,     \* clients, each with at most one request under way
    Keys,         \* idempotency keys of commands, and the attempts derived from them
    NativeKeyed,  \* attempts at a provider that cancels by its own id (Stripe, PayPal)
    None          \* no value

ASSUME NativeAssumption == NativeKeyed \subseteq Keys
ASSUME NoneAssumption == None \notin Requests \cup Keys

VARIABLES
    payable,      \* the order is unpaid, unexpired and not closed
    intent,       \* commerce_payment_intent.status of the order's one intent
    intentKey,    \* its idempotency key; None if it came from the intents endpoint
    attempt,      \* commerce_payment_attempt.status
    created,      \* the attempts in the order of created_at
    fresh,        \* attempts whose expires_at lies ahead
    trade,        \* the trade of an attempt at the provider
    unanswered,   \* attempts with a create call that may still reach the provider
    superseded,   \* attempts that a request canceled while it held the lock
    lock,         \* the holder of the advisory lock on the order
    req           \* the request each client has under way

rows == <<payable, intent, intentKey, attempt, created, fresh>>
provider == <<trade, unanswered>>
vars == <<rows, provider, superseded, lock, req>>

\* Why attempts are being closed, and where the request goes on afterwards.
After == [overdue |-> "renewing", others |-> "creating", order |-> "canceling"]
Reasons == DOMAIN After \cup {"one"}

LockedPhases == {"checking", "listing overdue", "renewing", "listing others",
                 "creating", "persisting", "listing all", "canceling"}
ClosingPhases == {"closing", "marking"}
Phases == {"idle", "refused", "inserting", "locking"} \cup LockedPhases \cup ClosingPhases

Idle == [phase |-> "idle", target |-> None, todo |-> {}, why |-> None]

Exists(k) == attempt[k] # Absent
Active(k) == IsActive(attempt[k])
ActiveAttempts == {k \in Keys : Active(k)}

\* ORDER BY created_at: the first and the last of some attempts.
Places(S) == {i \in 1 .. Len(created) : created[i] \in S}
Earliest(S) == created[Min(Places(S))]
Latest(S) == created[Max(Places(S))]
LatestAttempt == created[Len(created)]

\* The state a request finds: no intent yet, or one made by the intents endpoint.
Init ==
    /\ payable = TRUE
    /\ intent \in {Absent, "pending"}
    /\ intentKey = None
    /\ attempt = [k \in Keys |-> Absent]
    /\ created = <<>>
    /\ fresh = {}
    /\ trade = [k \in Keys |-> "absent"]
    /\ unanswered = {}
    /\ superseded = {}
    /\ lock = None
    /\ req = [q \in Requests |-> Idle]

-----------------------------------------------------------------------------
(***************************************************************************)
(* Finding or inserting the attempt of a request.                          *)
(***************************************************************************)

\* The request goes on to prepare the provider checkout of attempt k.
Enrich(q, k) == req' = [req EXCEPT ![q] = [Idle EXCEPT !.phase = "locking", !.target = k]]

InsertAttempt(k) ==
    /\ attempt' = [attempt EXCEPT ![k] = "pending"]
    /\ created' = Append(created, k)
    /\ fresh' = fresh \cup {k}

\* load_owner_payment_outcome_by_idempotency_in_tx: the latest attempt under the
\* intent that the same key created; other parameters than before are a conflict.
ReplayPayment(q, k) ==
    /\ req[q] = Idle
    /\ payable
    /\ intentKey = k
    /\ Enrich(q, LatestAttempt)
    /\ UNCHANGED <<rows, provider, superseded, lock>>

\* The active, unexpired attempt that carries a payment scene and metadata; whether
\* these equal the command's is left open.  Attempts of the attempts endpoint have none.
Reusable == intentKey # None /\ intentKey \in fresh /\ Active(intentKey)

\* load_reusable_owner_payment_in_tx, for a command with a new key.
ReusePayment(q, k) ==
    /\ req[q] = Idle
    /\ payable
    /\ intentKey # k /\ ~Exists(k)
    /\ Reusable
    /\ Enrich(q, intentKey)
    /\ UNCHANGED <<rows, provider, superseded, lock>>

\* pay_owner_order inserts an intent and its attempt ...
PayOwnerOrder(q, k) ==
    /\ req[q] = Idle
    /\ payable
    /\ ~Exists(k)
    /\ intent = Absent
    /\ intent' = "pending"
    /\ intentKey' = k
    /\ InsertAttempt(k)
    /\ Enrich(q, k)
    /\ UNCHANGED <<payable, provider, superseded, lock>>

\* ... unless the order has an intent already: both are numbered PAY-{order_sn},
\* and the unique index refuses the second.
PayOwnerOrderRefused(q, k) ==
    /\ req[q] = Idle
    /\ payable
    /\ intentKey # k /\ ~Exists(k)
    /\ intent # Absent
    /\ req' = [req EXCEPT ![q].phase = "refused"]
    /\ UNCHANGED <<rows, provider, superseded, lock>>

\* create_owner_payment_attempt, up to its transaction: an attempt under this key is
\* a replay, an unexpired active attempt of the intent is reused, and otherwise the
\* request goes on to insert one for the intent it has read as attemptable.
BeginCreateOwnerPaymentAttempt(q, k) ==
    /\ req[q] = Idle
    /\ intentKey # k
    /\ LET usable == ActiveAttempts \cap fresh
       IN  \/ Exists(k) /\ Enrich(q, k)
           \/ /\ ~Exists(k)
              /\ intent \notin {Absent, "succeeded", "closed", "canceled"}
              /\ IF usable # {}
                 THEN Enrich(q, Latest(usable))
                 ELSE req' = [req EXCEPT ![q] = [Idle EXCEPT !.phase = "inserting", !.target = k]]
    /\ UNCHANGED <<rows, provider, superseded, lock>>

\* A bug: the insert does not look for a row with its id.
InsertableKey_Always(k) == TRUE

\* ON CONFLICT (id) DO NOTHING.
InsertableKey(k) == ~Exists(k)

\* The transaction of create_owner_payment_attempt: the order is read again, the
\* intent is not, and an id that was inserted meanwhile is a replay.
CreateOwnerPaymentAttempt(q) ==
    LET k == req[q].target
    IN  /\ req[q].phase = "inserting"
        /\ payable
        /\ IF InsertableKey(k)
           THEN /\ InsertAttempt(k)
                /\ intent' = IF IsActive(intent) THEN "pending" ELSE intent
           ELSE UNCHANGED <<attempt, created, fresh, intent>>
        /\ Enrich(q, k)
        /\ UNCHANGED <<payable, intentKey, provider, superseded, lock>>

\* enrich_payment_record_checkout_postgres: a record that is still to be paid.
CheckoutEligible(k) == intent = "pending" /\ attempt[k] = "pending"

\* retrieve_payment_checkout: the record of an order shows its latest attempt, and
\* only a record that reads as pending is prepared again.
RetrievePaymentCheckout(q) ==
    /\ req[q] = Idle
    /\ created # <<>>
    /\ CheckoutEligible(LatestAttempt)
    /\ Enrich(q, LatestAttempt)
    /\ UNCHANGED <<rows, provider, superseded, lock>>

-----------------------------------------------------------------------------
(***************************************************************************)
(* The advisory lock.                                                      *)
(***************************************************************************)

\* A bug: the lock is not asked for.
LockFree_Unchecked == TRUE

\* pg_try_advisory_xact_lock, retried until a deadline.
LockFree == lock = None

AcquireCheckoutLock(q) ==
    /\ req[q].phase = "locking"
    /\ LockFree
    /\ lock' = q
    /\ req' = [req EXCEPT ![q].phase =
                 IF req[q].target = None THEN "listing all" ELSE "checking"]
    /\ UNCHANGED <<rows, provider, superseded>>

\* cancel_owner_order_payments_with_provider_postgres starts with the lock.
BeginCancelOrderPayments(q) ==
    /\ req[q] = Idle
    /\ req' = [req EXCEPT ![q].phase = "locking"]
    /\ UNCHANGED <<rows, provider, superseded, lock>>

\* The request is over; the transaction that held the lock ends with it.
Over(q) ==
    /\ req' = [req EXCEPT ![q] = Idle]
    /\ lock' = IF lock = q THEN None ELSE lock

\* A statement, a transaction or the process fails, or the lock is not to be had:
\* the request ends where it is.
RequestFails(q) ==
    /\ req[q] # Idle
    /\ Over(q)
    /\ UNCHANGED <<rows, provider, superseded>>

-----------------------------------------------------------------------------
(***************************************************************************)
(* The locked sequence: revalidate, close, create, record.                 *)
(***************************************************************************)

At(q, phase) == req[q].phase = phase

\* A loop over some attempts, in the order they were created.
CloseAll(q, attempts, why) ==
    req' = [req EXCEPT ![q] = [@ EXCEPT !.todo = attempts, !.why = why,
                                        !.phase = IF attempts = {} THEN After[why] ELSE "closing"]]
NextOf(q) == Earliest(req[q].todo)

\* load_active_attempt_owner_user_id_postgres: a superseded attempt is a conflict.
RevalidateAttempt(q) ==
    /\ At(q, "checking")
    /\ Active(req[q].target)
    /\ req' = [req EXCEPT ![q].phase = "listing overdue"]
    /\ UNCHANGED <<rows, provider, superseded, lock>>

\* close_expired_owner_order_provider_attempts: all active attempts of an order that
\* has expired or was closed, the target among them; a paid order has none.
ListOverdueAttempts(q) ==
    /\ At(q, "listing overdue")
    /\ \/ CloseAll(q, {}, "overdue")
       \/ ~payable /\ CloseAll(q, ActiveAttempts, "overdue")
    /\ UNCHANGED <<rows, provider, superseded, lock>>

\* A bug: the UPDATE of the expiry does not look at the status.
StillOpen_Unchecked(k) == k \in fresh

\* provider_checkout_expiration_postgres: the row is still active and unexpired.
StillOpen(k) == Active(k) /\ k \in fresh

\* The expiry is narrowed to the provider's limit; it stays ahead.
RenewExpiry(q) ==
    /\ At(q, "renewing")
    /\ StillOpen(req[q].target)
    /\ req' = [req EXCEPT ![q].phase = "listing others"]
    /\ UNCHANGED <<rows, provider, superseded, lock>>

\* A bug: attempts that have expired are not closed any more.
OthersOf_Unexpired(k) == (ActiveAttempts \cap fresh) \ {k}

\* close_owner_order_provider_attempts_postgres: the other active attempts.
OthersOf(k) == ActiveAttempts \ {k}

ListOtherAttempts(q) ==
    /\ At(q, "listing others")
    /\ CloseAll(q, OthersOf(req[q].target), "others")
    /\ UNCHANGED <<rows, provider, superseded, lock>>

\* The same function without an exclusion, before an order is canceled.
ListAllAttempts(q) ==
    /\ At(q, "listing all")
    /\ CloseAll(q, ActiveAttempts, "order")
    /\ UNCHANGED <<rows, provider, superseded, lock>>

\* What a cancel call finds.  Stripe and PayPal know a trade by their own id only; it
\* is stored in the JSONB column callback_payload, whose read as text yields "", so
\* that every cancel goes by the merchant's number, which names nothing there.
Addressed(k) == IF k \in NativeKeyed THEN "absent" ELSE trade[k]

\* cancel_provider_payment: an absent or closed trade is a success, a paid one an error.
CancelSucceeds(state) == state \in {"absent", "open", "closed"}

\* cancel_provider_payment of the next attempt.  A call that fails on
\* its way out or back (the answer is lost) ends the request.
CancelProviderTrade(q) ==
    LET k == NextOf(q)
        closed == IF Addressed(k) = "open" THEN [trade EXCEPT ![k] = "closed"] ELSE trade
    IN  /\ At(q, "closing")
        /\ \/ /\ CancelSucceeds(Addressed(k))
              /\ trade' = closed
              /\ req' = [req EXCEPT ![q].phase = "marking"]
              /\ UNCHANGED lock
           \/ /\ trade' = closed
              /\ Over(q)
        /\ UNCHANGED <<rows, unanswered, superseded>>

\* mark_attempt_canceled_postgres: a settled (or failed) attempt is an error; the
\* intent follows its last active attempt.
MarkAttemptCanceled(q) ==
    LET k == NextOf(q)
    IN  /\ At(q, "marking")
        /\ req[q].why # "one"
        /\ Active(k) \/ attempt[k] \in {"canceled", "closed"}
        /\ attempt' = [attempt EXCEPT ![k] = IF IsActive(@) THEN "canceled" ELSE @]
        /\ intent' = IF IsActive(intent) /\ \A j \in Keys \ {k} : ~Active(j)
                     THEN "canceled" ELSE intent
        /\ superseded' = superseded \cup {k}
        /\ CloseAll(q, req[q].todo \ {k}, req[q].why)
        /\ UNCHANGED <<payable, intentKey, created, fresh, provider, lock>>

\* enrich_pay_owner_order_outcome: the provider creates the trade of a merchant
\* number once.  The call is answered, after which no late one matters, or its answer
\* is lost, or it reaches the provider after the request has given up, or it is refused.
CreateTrade(q) ==
    LET k == req[q].target
        opened == IF trade[k] = "absent" THEN [trade EXCEPT ![k] = "open"] ELSE trade
    IN  /\ At(q, "creating")
        /\ \/ /\ trade' = opened
              /\ req' = [req EXCEPT ![q].phase = "persisting"]
              /\ unanswered' = unanswered \ {k}
              /\ UNCHANGED lock
           \/ /\ trade' \in {opened, trade}
              /\ unanswered' = unanswered \cup {k}
              /\ Over(q)
        /\ UNCHANGED <<rows, superseded>>

\* persist_attempt_enrichment_postgres, whatever the attempt's status is by now: it
\* writes to callback_payload alone, which nothing here reads back.  Then the lock is
\* released.
PersistEnrichment(q) ==
    /\ At(q, "persisting")
    /\ Over(q)
    /\ UNCHANGED <<rows, provider, superseded>>

\* cancel_order_payments: one transaction over the order's rows.
CancelOrderPayments(q) ==
    /\ At(q, "canceling")
    /\ intent' = IF IsActive(intent) THEN "canceled" ELSE intent
    /\ attempt' = [k \in Keys |-> IF Active(k) THEN "canceled" ELSE attempt[k]]
    /\ superseded' = superseded \cup {k \in Keys : Active(k)}
    /\ Over(q)
    /\ UNCHANGED <<payable, intentKey, created, fresh, provider>>

-----------------------------------------------------------------------------
(***************************************************************************)
(* Requests that close payments without the lock.                          *)
(***************************************************************************)

\* close_payment_record for an attempt cancels its trade first ...
BeginClosePaymentRecord(q, k) ==
    /\ req[q] = Idle
    /\ Exists(k)
    /\ req' = [req EXCEPT ![q] = [Idle EXCEPT !.phase = "closing", !.todo = {k}, !.why = "one"]]
    /\ UNCHANGED <<rows, provider, superseded, lock>>

\* ... and then cancels the attempt, if it is still active, and its intent.
ClosePaymentAttempt(q) ==
    LET k == NextOf(q)
    IN  /\ At(q, "marking")
        /\ req[q].why = "one"
        /\ Active(k)
        /\ attempt' = [attempt EXCEPT ![k] = "canceled"]
        /\ intent' = IF IsActive(intent) THEN "canceled" ELSE intent
        /\ Over(q)
        /\ UNCHANGED <<payable, intentKey, created, fresh, provider, superseded>>

\* close_payment_record for an intent: no provider call, its attempts stay as they are.
ClosePaymentIntent ==
    /\ IsActive(intent)
    /\ intent' = "canceled"
    /\ UNCHANGED <<payable, intentKey, attempt, created, fresh,
                   provider, superseded, lock, req>>

\* cancel_owner_payment_intent: no provider call either, its attempts follow.
CancelOwnerPaymentIntent ==
    /\ IsActive(intent)
    /\ intent' = "canceled"
    /\ attempt' = [k \in Keys |-> IF Active(k) THEN "canceled" ELSE attempt[k]]
    /\ UNCHANGED <<payable, intentKey, created, fresh,
                   provider, superseded, lock, req>>

-----------------------------------------------------------------------------
(***************************************************************************)
(* The environment.                                                        *)
(***************************************************************************)

\* A provider settles or closes a trade, or a late create call arrives.
TradeMoves(k) ==
    /\ \/ trade[k] = "open" /\ trade' = [trade EXCEPT ![k] = "paid"]
       \/ trade[k] = "open" /\ trade' = [trade EXCEPT ![k] = "closed"]
       \/ trade[k] = "absent" /\ k \in unanswered /\ trade' = [trade EXCEPT ![k] = "open"]
    /\ UNCHANGED <<rows, unanswered, superseded, lock, req>>

\* What notifications may say of a trade, early or late: a payment failed once the
\* trade exists, the trade is closed, the trade is paid.
Reported(k) ==
    (IF trade[k] = "absent" THEN {} ELSE {"failed"})
        \cup (IF trade[k] = "closed" THEN {"canceled"} ELSE {})
        \cup (IF trade[k] = "paid" THEN {"succeeded"} ELSE {})

\* apply_webhook_payment_status_postgres: the intent is asked first.
ApplyPaymentStatus(k, status) ==
    /\ status \in Reported(k)
    /\ WebhookMayTransition(intent, status)
    /\ intent' = status
    /\ attempt' = [attempt EXCEPT ![k] = IF WebhookMayTransition(@, status) THEN status ELSE @]
    /\ UNCHANGED <<payable, intentKey, created, fresh,
                   provider, superseded, lock, req>>

\* The checkout of an attempt, or the order itself, runs out.
TimePasses ==
    /\ \/ \E k \in fresh : fresh' = fresh \ {k} /\ UNCHANGED payable
       \/ payable /\ payable' = FALSE /\ UNCHANGED fresh
    /\ UNCHANGED <<intent, intentKey, attempt, created,
                   provider, superseded, lock, req>>

-----------------------------------------------------------------------------
Finding(q) ==
    \/ \E k \in Keys : ReplayPayment(q, k)
    \/ \E k \in Keys : ReusePayment(q, k)
    \/ \E k \in Keys : PayOwnerOrder(q, k)
    \/ \E k \in Keys : PayOwnerOrderRefused(q, k)
    \/ \E k \in Keys : BeginCreateOwnerPaymentAttempt(q, k)
    \/ CreateOwnerPaymentAttempt(q)
    \/ RetrievePaymentCheckout(q)
    \/ BeginCancelOrderPayments(q)
    \/ \E k \in Keys : BeginClosePaymentRecord(q, k)

CheckingOut(q) ==
    \/ AcquireCheckoutLock(q)
    \/ RevalidateAttempt(q)
    \/ ListOverdueAttempts(q)
    \/ RenewExpiry(q)
    \/ ListOtherAttempts(q)
    \/ ListAllAttempts(q)
    \/ CancelProviderTrade(q)
    \/ MarkAttemptCanceled(q)
    \/ CreateTrade(q)
    \/ PersistEnrichment(q)
    \/ CancelOrderPayments(q)
    \/ ClosePaymentAttempt(q)
    \/ RequestFails(q)

Environment ==
    \/ ClosePaymentIntent
    \/ CancelOwnerPaymentIntent
    \/ \E k \in Keys : TradeMoves(k)
    \/ \E k \in Keys : \E status \in Reported(k) : ApplyPaymentStatus(k, status)
    \/ TimePasses

Next == (\E q \in Requests : Finding(q) \/ CheckingOut(q)) \/ Environment

Spec == Init /\ [][Next]_vars

-----------------------------------------------------------------------------
(***************************************************************************)
(* Properties.                                                             *)
(***************************************************************************)

\* Rows, trades and requests hold what their columns and handlers allow, and
\* `created` lists every attempt once.
TypeOK ==
    /\ payable \in BOOLEAN
    /\ intent \in StoredStatuses \cup {Absent}
    /\ intentKey \in Keys \cup {None}
    /\ attempt \in [Keys -> StoredStatuses \cup {Absent}]
    /\ created \in Seq(Keys)
    /\ Len(created) = Cardinality({k \in Keys : Exists(k)})
    /\ fresh \subseteq Keys
    /\ trade \in [Keys -> {"absent", "open", "closed", "paid"}]
    /\ unanswered \subseteq Keys
    /\ superseded \subseteq Keys
    /\ lock \in Requests \cup {None}
    /\ req \in [Requests -> [phase : Phases, target : Keys \cup {None},
                             todo : SUBSET Keys, why : Reasons \cup {None}]]

\* At most one attempt of the order that is still active has a trade somebody can
\* pay or has paid: a second checkout closes the first before it opens its own,
\* whatever lock-free closes, late calls and notifications do in between.
OneLiveTrade ==
    \A j, k \in Keys :
        (/\ Active(j) /\ trade[j] \in {"open", "paid"}
         /\ Active(k) /\ trade[k] \in {"open", "paid"}) => j = k

\* A waiting attempt that another checkout has superseded is not charged: nobody
\* calls the provider to create the trade of an attempt canceled under the lock.
SupersededNeverCharged ==
    \A q \in Requests : At(q, "creating") => req[q].target \notin superseded

\* An attempt that was superseded has no trade left at a provider that cancels by the
\* merchant's number (Alipay, WeChat Pay), provided that no create call for it is still
\* on its way: whoever opened the trade, whoever closed the attempt, and in whichever
\* order their calls, the notifications and lock-free closes came.
SupersededIsClosed ==
    \A k \in superseded \ (unanswered \cup NativeKeyed) : trade[k] \in {"absent", "closed"}

\* The doc of the pay flow: an attempt is canceled locally only when no external
\* trade is left open.  The code does not keep this: a create call may be late, and at
\* a provider that cancels by its own id no cancel reaches the trade (section 5 of the
\* README).
ClosedMeansNoTrade == \A k \in superseded : trade[k] \in {"absent", "closed"}

\* The doc of the provider close: settlement wins.  A checkout whose last look at the
\* order's attempts comes after another one has settled opens no second trade.  The code
\* does not keep this: it looks at active attempts only (section 5 of the README).
SettlementStopsCheckout ==
    [][\A q \in Requests :
          (At(q, "listing others") /\ req'[q].phase \in {"closing", "creating"})
          => \A k \in Keys \ {req[q].target} : ~IsSuccess(attempt[k])]_vars
=============================================================================
