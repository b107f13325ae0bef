------------------------- MODULE RefundReservation -------------------------
(***************************************************************************)
(* The refunds of one paid order and the amounts they reserve.  A refund   *)
(* is created by several requests at a time (the buyer's and the           *)
(* operator's, and their idempotent repetitions); each looks for its own   *)
(* row first, locks the order row, sums the reserved amounts and inserts,  *)
(* as separate statements of a READ COMMITTED transaction.  The status of  *)
(* a refund, meanwhile, is changed by transactions that lock the refund    *)
(* row alone: the two marks, the webhook, the worker's claim.              *)
(***************************************************************************)
EXTENDS RefundStatus, Integers, FiniteSets, FiniteSetsExt

CONSTANTS
    Refunds,    \* idempotency keys of the order: each names one refund row
    Amount,     \* the amount each refund asks for
    Attempts,   \* succeeded payment attempts of the order
    Paid,       \* the amount each attempt was paid with
    Requests,   \* create_owner_refund calls under way
    None        \* no attempt, no request

ASSUME AmountAssumption == Amount \in [Refunds -> Nat]
ASSUME PaidAssumption == Paid \in [Attempts -> Nat]
ASSUME NoneAssumption == None \notin Attempts \cup Requests

VARIABLES
    status,     \* commerce_refund.status, NoRow before the insert
    attemptOf,  \* commerce_refund.payment_attempt_id
    orderLock,  \* the request whose transaction holds the order's row lock
    request,    \* where each create_owner_refund call is
    failedOnce  \* refunds that have ever been failed (history)

rows == <<status, attemptOf>>
vars == <<status, attemptOf, orderLock, request, failedOnce>>

NoRequest == [phase |-> "idle", refund |-> None, attempt |-> None]
CallsInFlight ==
    [phase : {"begun", "locked", "summed"}, refund : Refunds, attempt : Attempts]

Exists(r) == status[r] # NoRow

Init ==
    /\ status = [r \in Refunds |-> NoRow]
    /\ attemptOf = [r \in Refunds |-> None]
    /\ orderLock = None
    /\ request = [q \in Requests |-> NoRequest]
    /\ failedOnce = {}

-----------------------------------------------------------------------------
(***************************************************************************)
(* create_owner_refund.  The attempt is the one that the command names, or *)
(* the newest succeeded one.                                               *)
(***************************************************************************)

\* No row answers the idempotent replay, so a transaction begins.
BeginCreateOwnerRefund(q, r, a) ==
    /\ request[q] = NoRequest
    /\ ~Exists(r)
    /\ request' = [request EXCEPT ![q] = [phase |-> "begun", refund |-> r, attempt |-> a]]
    /\ UNCHANGED <<rows, orderLock, failedOnce>>

\* A bug: the order row is selected without FOR UPDATE.
OrderLockGranted_NoLock == TRUE

OrderLockGranted == orderLock = None

\* SELECT ... FOR UPDATE of the order row.
LockOrder(q) ==
    /\ request[q].phase = "begun"
    /\ OrderLockGranted
    /\ orderLock' = q
    /\ request' = [request EXCEPT ![q].phase = "locked"]
    /\ UNCHANGED <<rows, failedOnce>>

\* sum_refunded_amount_in_tx: every refund of the order counts, whatever
\* attempt it belongs to.
AlreadyRefunded == MapThenSumSet(LAMBDA r : Amount[r], {r \in Refunds : Reserves(status[r])})

\* validate_refund_bounds and the comparison with the remaining amount.
Fits(r, a) ==
    /\ 0 < Amount[r]
    /\ Amount[r] <= Paid[a]
    /\ Amount[r] <= Paid[a] - AlreadyRefunded

SumReservations(q) ==
    /\ request[q].phase = "locked"
    /\ Fits(request[q].refund, request[q].attempt)
    /\ request' = [request EXCEPT ![q].phase = "summed"]
    /\ UNCHANGED <<rows, orderLock, failedOnce>>

\* The insert and the commit; ON CONFLICT (id) DO NOTHING turns a row that another
\* request inserted meanwhile into an idempotent replay.
InsertRefund(q) ==
    LET r == request[q].refund
    IN  /\ request[q].phase = "summed"
        /\ IF Exists(r)
           THEN UNCHANGED rows
           ELSE /\ status' = [status EXCEPT ![r] = "submitted"]
                /\ attemptOf' = [attemptOf EXCEPT ![r] = request[q].attempt]
        /\ request' = [request EXCEPT ![q] = NoRequest]
        /\ orderLock' = None
        /\ UNCHANGED failedOnce

\* The call ends before its insert: a refused amount, an order that is no longer
\* refundable, a lost connection.  The rollback releases the order.
RollBack(q) ==
    /\ request[q] # NoRequest
    /\ request' = [request EXCEPT ![q] = NoRequest]
    /\ orderLock' = IF orderLock = q THEN None ELSE orderLock
    /\ UNCHANGED <<rows, failedOnce>>

-----------------------------------------------------------------------------
(***************************************************************************)
(* The transactions that change the status of a refund.                    *)
(***************************************************************************)

ChangeStatus(r, to) ==
    /\ status' = [status EXCEPT ![r] = to]
    /\ failedOnce' = IF to = "failed" THEN failedOnce \cup {r} ELSE failedOnce
    /\ UNCHANGED <<attemptOf, orderLock, request>>

\* mark_owner_refund_provider_submission_processing.
MarkProcessing(r) ==
    /\ status[r] \in {"submitted", "failed"}
    /\ RefundMayTransition(status[r], "processing")
    /\ ChangeStatus(r, "processing")

\* mark_owner_refund_provider_submission_terminal.
MarkTerminal(r, to) ==
    /\ Exists(r)
    /\ RefundMayTransition(status[r], to)
    /\ IsOpen(status[r])
    /\ ChangeStatus(r, to)

\* apply_webhook_refund_status_postgres; a transition that is not allowed is a
\* replay that changes nothing.
ApplyWebhookRefundStatus(r, to) ==
    /\ Exists(r)
    /\ status[r] # to
    /\ RefundMayTransition(status[r], to)
    /\ ChangeStatus(r, to)

\* claim_due_refunds_postgres: the batch flips in one statement.
ClaimDueRefunds(claimed) ==
    /\ claimed # {}
    /\ status' = [r \in Refunds |->
                     IF r \in claimed /\ status[r] = "submitted" THEN "processing" ELSE status[r]]
    /\ UNCHANGED <<attemptOf, orderLock, request, failedOnce>>

-----------------------------------------------------------------------------
Next ==
    \/ \E q \in Requests, r \in Refunds, a \in Attempts : BeginCreateOwnerRefund(q, r, a)
    \/ \E q \in Requests : LockOrder(q)
    \/ \E q \in Requests : SumReservations(q)
    \/ \E q \in Requests : InsertRefund(q)
    \/ \E q \in Requests : RollBack(q)
    \/ \E r \in Refunds : MarkProcessing(r)
    \/ \E r \in Refunds, to \in {"succeeded", "failed"} : MarkTerminal(r, to)
    \/ \E r \in Refunds, to \in RefundTargets : ApplyWebhookRefundStatus(r, to)
    \/ \E claimed \in SUBSET {r \in Refunds : IsOpen(status[r])} : ClaimDueRefunds(claimed)

Spec == Init /\ [][Next]_vars

-----------------------------------------------------------------------------
(***************************************************************************)
(* Properties.                                                             *)
(***************************************************************************)

\* Rows and calls hold what their columns and handlers allow; a refund row always
\* names its attempt, and the order lock is held by exactly the call between its
\* locking select and its commit.
TypeOK ==
    /\ status \in [Refunds -> RefundStatuses \cup {NoRow}]
    /\ attemptOf \in [Refunds -> Attempts \cup {None}]
    /\ orderLock \in Requests \cup {None}
    /\ request \in [Requests -> CallsInFlight \cup {NoRequest}]
    /\ failedOnce \subseteq Refunds
    /\ \A r \in Refunds : status[r] = NoRow <=> attemptOf[r] = None
    /\ \A q \in Requests : orderLock = q <=> request[q].phase \in {"locked", "summed"}

\* Concurrent requests never promise more than an attempt was paid: the refunds of
\* an attempt that were never given up as failed fit its paid amount together,
\* whatever happens to any of them between the sum and the insert.
SteadyOf(a) == {r \in Refunds : attemptOf[r] = a /\ r \notin failedOnce}
SteadyRefundsFit ==
    \A a \in Attempts : MapThenSumSet(LAMBDA r : Amount[r], SteadyOf(a)) <= Paid[a]

\* A refund recorded as paid out stays so, and its row never moves to another
\* attempt: no late mark, webhook or claim overwrites it.
SucceededIsFinal ==
    [][\A r \in Refunds :
          /\ status[r] = "succeeded" => status'[r] = "succeeded"
          /\ attemptOf[r] # None => attemptOf'[r] = attemptOf[r]]_vars

\* The refund-sum guard of the architecture notes: what is reserved on an order
\* never exceeds what its attempts were paid.
ReservationsFit ==
    AlreadyRefunded <= MapThenSumSet(LAMBDA a : Paid[a], Attempts)
=============================================================================
