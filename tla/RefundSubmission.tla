-------------------------- MODULE RefundSubmission --------------------------
(***************************************************************************)
(* The execution of refunds at the payment service provider.  A refund is  *)
(* carried by HTTP requests (the create of the app and of the back office  *)
(* with its idempotent repetitions, the retry of the back office), by the  *)
(* compensation worker, and by the provider's notifications; all three     *)
(* meet in the refund row, which each changes in transactions of its own   *)
(* around calls that take place outside any transaction.                   *)
(*                                                                         *)
(* Whether a new refund fits the paid amount is RefundReservation's        *)
(* matter.  A request makes up to three tries at the provider; here it may *)
(* make any number.  The age below which a row is left to its request is   *)
(* not modelled: a request may outlive it.                                 *)
(***************************************************************************)
EXTENDS RefundStatus, Integers, FiniteSets

CONSTANTS
    Refunds,      \* refund rows and, with the same number, provider refunds
    Handlers,     \* HTTP requests in flight at a time
    Workers,      \* compensation workers, one for each API process
    RetryKeys,    \* idempotency keys of back-office retries
    MaxRequests,  \* bound: requests begun
    Misrouted,    \* states that a notification with another refund's amount reports
    None          \* no refund, no key, no outcome

ASSUME BoundAssumption == MaxRequests \in Nat
ASSUME MisroutedAssumption == Misrouted \subseteq RefundTargets
ASSUME NoneAssumption == None \notin Refunds \cup RetryKeys \cup RefundTargets

VARIABLES
    status,    \* commerce_refund.status, NoRow before create_owner_refund
    audit,     \* commerce_refund_event rows of terminal transitions
    provider,  \* the refund at the provider, Unknown before it is accepted
    notices,   \* refund notifications the provider has sent
    request,   \* where each request is
    begun,     \* number of requests begun
    claimed,   \* the rest of each worker's batch
    answer     \* the provider's answer a worker is about to record

vars == <<status, audit, provider, notices, request, begun, claimed, answer>>
calls == <<request, begun>>
workers == <<claimed, answer>>

Unknown == "unknown"
ProviderStates == {Unknown} \cup RefundTargets

\* The create command's own idempotency key, shared by all its repetitions.
CreateKey == "create"
Keys == RetryKeys \cup {CreateKey}

\* The identity of an audit event: its id is derived from refund, type and key.
\* The key of a webhook's event is its transition.
Events == [refund : Refunds, type : {"succeeded", "failed"}, key : Keys]
            \cup [refund : Refunds, type : {"status_changed"}, key : RefundStatuses \X RefundTargets]

Notices == [refund : Refunds, state : RefundTargets, agrees : BOOLEAN]

\* integer: the amount is held as a digit string, as create_provider_refund
\* demands, not as the decimal that the back office reads a row with.
Idle == [phase |-> "idle", refund |-> None, key |-> None, integer |-> TRUE, outcome |-> None]
RequestsInFlight ==
    [phase : {"claim", "query", "create"}, refund : Refunds, key : Keys,
     integer : BOOLEAN, outcome : {None}]
        \cup [phase : {"record"}, refund : Refunds, key : Keys,
              integer : BOOLEAN, outcome : {"succeeded", "failed"}]

NoAnswer == [refund |-> None, says |-> None]
Answers == [refund : Refunds, says : RefundTargets \cup {"unmapped"}]
Claims == [refund : Refunds, seen : {"submitted", "processing"}]

Exists(r) == status[r] # NoRow

Init ==
    /\ status = [r \in Refunds |-> NoRow]
    /\ audit = {}
    /\ provider = [r \in Refunds |-> Unknown]
    /\ notices = {}
    /\ request = [h \in Handlers |-> Idle]
    /\ begun = 0
    /\ claimed = [w \in Workers |-> {}]
    /\ answer = [w \in Workers |-> NoAnswer]

-----------------------------------------------------------------------------
(***************************************************************************)
(* The provider.  A refund number is accepted once; a later create with    *)
(* the same number and idempotency key answers with the existing refund.   *)
(***************************************************************************)

Notifies(r, s) == notices' = notices \cup {[refund |-> r, state |-> s, agrees |-> TRUE]}

ProviderCreates(r, s) ==
    IF provider[r] = Unknown
    THEN /\ provider' = [provider EXCEPT ![r] = s]
         /\ Notifies(r, s)
    ELSE /\ s = provider[r]
         /\ UNCHANGED <<provider, notices>>

ProviderSettles(r, s) ==
    /\ provider[r] = "processing"
    /\ s \in {"succeeded", "failed"}
    /\ provider' = [provider EXCEPT ![r] = s]
    /\ Notifies(r, s)
    /\ UNCHANGED <<status, audit, calls, workers>>

\* A notification that carries this refund's number but another amount.
ProviderMisroutes(r, s) ==
    /\ notices' = notices \cup {[refund |-> r, state |-> s, agrees |-> FALSE]}
    /\ UNCHANGED <<status, audit, provider, calls, workers>>

-----------------------------------------------------------------------------
(***************************************************************************)
(* The transactions that change a refund row.                              *)
(***************************************************************************)

\* mark_owner_refund_provider_submission_processing.
MayMarkProcessing(r) == status[r] \in {"submitted", "failed"}

\* A bug: the terminal mark does not look at the row again.
MayMarkTerminal_Stale(r, to) == Exists(r)

\* mark_owner_refund_provider_submission_terminal.
MayMarkTerminal(r, to) ==
    Exists(r) /\ RefundMayTransition(status[r], to) /\ IsOpen(status[r])

\* A bug: the amount of a success notification is not compared.
Refuses_Unchecked(state, agrees) == FALSE

\* The amount check of apply_webhook_refund_status_postgres.
Refuses(state, agrees) == state \in {"succeeded", "processing"} /\ ~agrees

\* refund_status_transition: anything else is a replay that changes nothing.
WebhookMoves(r, state, agrees) ==
    /\ Exists(r)
    /\ ~Refuses(state, agrees)
    /\ status[r] # state
    /\ RefundMayTransition(status[r], state)

\* The event of a webhook transition, and which of them an audit of terminal
\* transitions keeps.
WebhookEvent(r, state) ==
    IF state = "processing" THEN {}
    ELSE {[refund |-> r, type |-> "status_changed", key |-> <<status[r], state>>]}

ApplyWebhookRefundStatus(r, state, agrees) ==
    IF WebhookMoves(r, state, agrees)
    THEN /\ status' = [status EXCEPT ![r] = state]
         /\ audit' = audit \cup WebhookEvent(r, state)
    ELSE UNCHANGED <<status, audit>>

\* ingest_provider_refund_webhook_postgres, first delivery or redelivery.
IngestProviderRefundWebhook(n) ==
    /\ n \in notices
    /\ ApplyWebhookRefundStatus(n.refund, n.state, n.agrees)
    /\ UNCHANGED <<provider, notices, calls, workers>>

-----------------------------------------------------------------------------
(***************************************************************************)
(* HTTP requests.                                                          *)
(***************************************************************************)

Goes(h, phase, r, k, integer, outcome) ==
    request' = [request EXCEPT ![h] =
        [phase |-> phase, refund |-> r, key |-> k, integer |-> integer, outcome |-> outcome]]

\* A bug: a fresh refund goes to the provider without being claimed.
Proceeds_Unclaimed(h, r, k, seen, integer) ==
    \/ seen = "failed" /\ Goes(h, "claim", r, k, TRUE, None)
    \/ seen \in {"submitted", "processing"} /\ Goes(h, "query", r, k, integer, None)

\* What a request does with a row it has read: a refund that is neither processing
\* nor final is claimed first.
Proceeds(h, r, k, seen, integer) ==
    \/ seen \in {"submitted", "failed"} /\ Goes(h, "claim", r, k, TRUE, None)
    \/ seen = "processing" /\ Goes(h, "query", r, k, integer, None)

\* create_owner_refund (app and back office), a new refund or a replay.
CreateOwnerRefund(h, r) ==
    /\ request[h] = Idle
    /\ begun < MaxRequests
    /\ begun' = begun + 1
    /\ IF Exists(r) THEN UNCHANGED status ELSE status' = [status EXCEPT ![r] = "submitted"]
    /\ Proceeds(h, r, CreateKey, status'[r], TRUE)
    /\ UNCHANGED <<audit, provider, notices, workers>>

\* retry_refund: a failed or processing refund, read without a lock.
RetryRefund(h, r, k) ==
    /\ request[h] = Idle
    /\ begun < MaxRequests
    /\ begun' = begun + 1
    /\ status[r] \in {"failed", "processing"}
    /\ Proceeds(h, r, k, status[r], FALSE)
    /\ UNCHANGED <<status, audit, provider, notices, workers>>

\* The claim before any provider call; a row that moved on is a conflict.
ClaimSubmission(h) ==
    LET r == request[h].refund
    IN  /\ request[h].phase = "claim"
        /\ IF MayMarkProcessing(r)
           THEN /\ status' = [status EXCEPT ![r] = "processing"]
                /\ Goes(h, "query", r, request[h].key, TRUE, None)
           ELSE /\ request' = [request EXCEPT ![h] = Idle]
                /\ UNCHANGED status
        /\ UNCHANGED <<audit, provider, notices, begun, workers>>

\* A bug: an answer that is not final is recorded as an outcome.
Outcome_Verbatim(state) == state

\* ProviderRefundSubmissionState: what is recorded of the provider's answer.
Outcome(state) == IF state = "processing" THEN None ELSE state

\* The provider's answer is recorded if it is final.
Answered(h, state) ==
    IF Outcome(state) = None
    THEN request' = [request EXCEPT ![h] = Idle]
    ELSE request' = [request EXCEPT ![h].phase = "record", ![h].outcome = Outcome(state)]

\* query_provider_refund: an unknown refund is created, which an amount that is
\* not a digit string turns into a validation error.
QueryProviderRefund(h) ==
    LET r == request[h].refund
    IN  /\ request[h].phase = "query"
        /\ IF provider[r] # Unknown
           THEN Answered(h, provider[r])
           ELSE IF request[h].integer
                THEN request' = [request EXCEPT ![h].phase = "create"]
                ELSE Answered(h, "failed")
        /\ UNCHANGED <<status, audit, provider, notices, begun, workers>>

\* create_provider_refund reaches the provider; its answer arrives, is lost (one
\* more try), or is malformed, which is a validation error.
CreateProviderRefund(h, s, reply) ==
    /\ request[h].phase = "create"
    /\ ProviderCreates(request[h].refund, s)
    /\ \/ reply = "arrives" /\ Answered(h, s)
       \/ reply = "lost" /\ request' = [request EXCEPT ![h].phase = "query"]
       \/ reply = "malformed" /\ Answered(h, "failed")
    /\ UNCHANGED <<status, audit, begun, workers>>

\* An error that is not worth another try, before the create reaches the provider:
\* the account is gone or suspended, a malformed answer to the query.
SubmissionRefused(h) ==
    /\ request[h].phase \in {"query", "create"}
    /\ Answered(h, "failed")
    /\ UNCHANGED <<status, audit, provider, notices, begun, workers>>

\* mark_succeeded and mark_failed.
RecordOutcome(h) ==
    LET q == request[h]
    IN  /\ q.phase = "record"
        /\ IF MayMarkTerminal(q.refund, q.outcome)
           THEN /\ status' = [status EXCEPT ![q.refund] = q.outcome]
                /\ audit' = audit \cup
                       {[refund |-> q.refund, type |-> q.outcome, key |-> q.key]}
           ELSE UNCHANGED <<status, audit>>
        /\ request' = [request EXCEPT ![h] = Idle]
        /\ UNCHANGED <<provider, notices, begun, workers>>

\* The last try failed, the connection is lost, or the process dies.
RequestEnds(h) ==
    /\ request[h] # Idle
    /\ request' = [request EXCEPT ![h] = Idle]
    /\ UNCHANGED <<status, audit, provider, notices, begun, workers>>

-----------------------------------------------------------------------------
(***************************************************************************)
(* The compensation worker.                                                *)
(***************************************************************************)

\* A bug: a claim scan that skips the rows an earlier sweep has flipped.
Claimable_FreshOnly(r) == status[r] = "submitted"

\* The status condition of claim_due_refunds_postgres.
Claimable(r) == IsOpen(status[r])

\* A batch of due refunds; those that were submitted flip to processing.
ClaimDueRefunds(w, due) ==
    /\ claimed[w] = {}
    /\ answer[w] = NoAnswer
    /\ due # {}
    /\ claimed' = [claimed EXCEPT ![w] = {[refund |-> r, seen |-> status[r]] : r \in due}]
    /\ status' = [r \in Refunds |->
                     IF r \in due /\ status[r] = "submitted" THEN "processing" ELSE status[r]]
    /\ UNCHANGED <<audit, provider, notices, calls, answer>>

Drops(w, c) == claimed' = [claimed EXCEPT ![w] = @ \ {c}]
Hears(w, c, says) == answer' = [answer EXCEPT ![w] = [refund |-> c.refund, says |-> says]]

\* submit_refund for a refund claimed as submitted: the provider's answer is kept,
\* carries a status that maps to nothing, or does not arrive.
SubmitRefund(w, c, s, reply) ==
    /\ c \in claimed[w]
    /\ answer[w] = NoAnswer
    /\ c.seen = "submitted"
    /\ ProviderCreates(c.refund, s)
    /\ \/ reply = "arrives" /\ Hears(w, c, s)
       \/ reply = "unmapped" /\ Hears(w, c, "unmapped")
       \/ reply \in {"lost", "malformed"} /\ UNCHANGED answer
    /\ Drops(w, c)
    /\ UNCHANGED <<status, audit, calls>>

\* query_refund for a refund claimed as processing: only news is kept.
QueryRefund(w, c) ==
    /\ c \in claimed[w]
    /\ answer[w] = NoAnswer
    /\ c.seen = "processing"
    /\ IF provider[c.refund] \in {Unknown, c.seen}
       THEN UNCHANGED answer
       ELSE Hears(w, c, provider[c.refund])
    /\ Drops(w, c)
    /\ UNCHANGED <<status, audit, provider, notices, calls>>

\* A call that fails before it reaches the provider: the pass goes on.
ProviderUnavailable(w, c) ==
    /\ c \in claimed[w]
    /\ answer[w] = NoAnswer
    /\ Drops(w, c)
    /\ UNCHANGED <<status, audit, provider, notices, calls, answer>>

\* apply_refund_operation_outcome and ingest_refund_status: through the webhook
\* ingestion or, for an unmapped status, the mark of the refund store.
RecordAnswer(w) ==
    LET r == answer[w].refund
    IN  /\ answer[w] # NoAnswer
        /\ IF answer[w].says = "unmapped"
           THEN /\ status' = IF MayMarkProcessing(r)
                             THEN [status EXCEPT ![r] = "processing"] ELSE status
                /\ UNCHANGED audit
           ELSE ApplyWebhookRefundStatus(r, answer[w].says, TRUE)
        /\ answer' = [answer EXCEPT ![w] = NoAnswer]
        /\ UNCHANGED <<provider, notices, calls, claimed>>

\* The process of a worker stops in the middle of a pass.
WorkerStops(w) ==
    /\ claimed[w] # {} \/ answer[w] # NoAnswer
    /\ claimed' = [claimed EXCEPT ![w] = {}]
    /\ answer' = [answer EXCEPT ![w] = NoAnswer]
    /\ UNCHANGED <<status, audit, provider, notices, calls>>

-----------------------------------------------------------------------------
ProviderStep ==
    \/ \E r \in Refunds, s \in {"succeeded", "failed"} : ProviderSettles(r, s)
    \/ \E r \in Refunds, s \in Misrouted : ProviderMisroutes(r, s)

RequestStep ==
    \/ \E h \in Handlers, r \in Refunds : CreateOwnerRefund(h, r)
    \/ \E h \in Handlers, r \in Refunds, k \in RetryKeys : RetryRefund(h, r, k)
    \/ \E h \in Handlers : ClaimSubmission(h)
    \/ \E h \in Handlers : QueryProviderRefund(h)
    \/ \E h \in Handlers, s \in RefundTargets, reply \in {"arrives", "lost", "malformed"} :
          CreateProviderRefund(h, s, reply)
    \/ \E h \in Handlers : SubmissionRefused(h)
    \/ \E h \in Handlers : RecordOutcome(h)
    \/ \E h \in Handlers : RequestEnds(h)

Claim(w) == \E due \in SUBSET {r \in Refunds : Claimable(r)} : ClaimDueRefunds(w, due)
WorkerCalls(w) ==
    \E c \in claimed[w] :
        \/ \E s \in RefundTargets, reply \in {"arrives", "unmapped", "lost", "malformed"} :
              SubmitRefund(w, c, s, reply)
        \/ QueryRefund(w, c)

WorkerStep ==
    \/ \E w \in Workers : Claim(w)
    \/ \E w \in Workers : WorkerCalls(w)
    \/ \E w \in Workers, c \in Claims : ProviderUnavailable(w, c)
    \/ \E w \in Workers : RecordAnswer(w)
    \/ \E w \in Workers : WorkerStops(w)

Next ==
    \/ ProviderStep
    \/ RequestStep
    \/ WorkerStep
    \/ \E n \in Notices : IngestProviderRefundWebhook(n)

Spec == Init /\ [][Next]_vars

\* A worker sweeps again and again, its calls go through now and then, and it is
\* not stopped every single time between a call and the record of its answer.
\* Nothing is assumed of requests, notifications or the provider.
Fairness ==
    \A w \in Workers :
        /\ WF_vars(Claim(w))
        /\ SF_vars(WorkerCalls(w))
        /\ SF_vars(RecordAnswer(w))
FairSpec == Spec /\ Fairness

-----------------------------------------------------------------------------
(***************************************************************************)
(* Properties.                                                             *)
(***************************************************************************)

\* Rows, events, calls and answers hold what their columns and handlers allow; in
\* particular only a final answer is ever recorded as an outcome.
TypeOK ==
    /\ status \in [Refunds -> RefundStatuses \cup {NoRow}]
    /\ audit \subseteq Events
    /\ provider \in [Refunds -> ProviderStates]
    /\ notices \subseteq Notices
    /\ request \in [Handlers -> RequestsInFlight \cup {Idle}]
    /\ begun \in 0..MaxRequests
    /\ claimed \in [Workers -> SUBSET Claims]
    /\ answer \in [Workers -> Answers \cup {NoAnswer}]

\* "A refund is claimed as processing before any PSP call": while its row still
\* says submitted no request and no worker has brought it to the provider.
ClaimedBeforeCalled ==
    \A r \in Refunds : provider[r] # Unknown => status[r] \notin {NoRow, "submitted"}

\* The audit trail of a paid-out refund shows its success exactly once, whoever
\* recorded it (request, worker or notification) and however often it was
\* repeated, and the trail of any other refund never shows one.
SuccessEvents(r) ==
    {e \in audit : e.refund = r /\
        (e.type = "succeeded" \/ (e.type = "status_changed" /\ e.key[2] = "succeeded"))}
SuccessAuditedOnce ==
    \A r \in Refunds :
        Cardinality(SuccessEvents(r)) = IF status[r] = "succeeded" THEN 1 ELSE 0

\* Requests, worker and notifications, in any order and with any losses, implement
\* the ledger: success is recorded only of a refund the provider has paid out, and
\* no late failure, retry or claim takes the record back.
Ledger == INSTANCE PayoutLedger WITH
    paidOut <- {r \in Refunds : provider[r] = "succeeded"},
    recorded <- {r \in Refunds : status[r] = "succeeded"}
ImplementsPayoutLedger == Ledger!LedgerSpec

\* A refund that the provider has settled does not stay open even if its request
\* died and every notification was lost: the worker finds it.  This is about providers
\* that the worker can ask, Stripe and WeChat Pay (ProviderCalls tells which).
SettledRefundIsClosed ==
    \A r \in Refunds :
        (provider[r] \in {"succeeded", "failed"} /\ IsOpen(status[r])) ~> ~IsOpen(status[r])

\* "Unknown, accepted, pending, and ambiguous network/provider outcomes remain
\* processing and continue reserving": a refund that the provider has accepted and
\* not refused holds its amount.  The code does not keep this: an unreadable answer is
\* recorded as failed (section 5 of the README).
AcceptedRefundsReserve ==
    \A r \in Refunds : provider[r] \in {"processing", "succeeded"} => Reserves(status[r])

\* "Refunds stuck in submitted are (re-)submitted to the PSP": the worker brings
\* every open refund to the provider.  The code does not keep this: a claimed refund
\* whose submission is lost is only asked about (section 5 of the README).
OpenRefundReachesProvider ==
    \A r \in Refunds : IsOpen(status[r]) ~> (provider[r] # Unknown \/ ~IsOpen(status[r]))
=============================================================================
