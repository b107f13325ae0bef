---------------------------- MODULE ProviderCalls ----------------------------
(***************************************************************************)
(* The calls of the service to one payment service provider about one      *)
(* payment attempt and its refunds, through the adapters of                *)
(* sdkwork-payment-providers: what is sent, what is sent again after a     *)
(* timeout or an unavailable answer, what the provider's answers and       *)
(* notifications are read as, and what the attempt and the refunds are     *)
(* then recorded as.                                                       *)
(*                                                                         *)
(* Three clients call at the same time: a checkout (create, cancel) and a  *)
(* refund handler (refund, query_refund), both through operations.rs and   *)
(* checkout.rs, and the compensation worker, which calls the adapters      *)
(* itself and fills its requests differently.  The trade and the refunds   *)
(* at the provider are external: they follow the status names that the     *)
(* adapters read.  A request may be executed although its answer is lost,  *)
(* and even after the client has given up.  Sandbox attempts, whose calls  *)
(* are answered without a provider, are left out, and so are amounts.      *)
(***************************************************************************)
EXTENDS Naturals, Sequences, FiniteSets, PaymentStatus

CONSTANTS
    Kinds,          \* provider codes; a behaviour is about one of them
    Refunds,        \* refund numbers of the attempt
    RetryAttempts,  \* RETRY_ATTEMPTS of http.rs
    MaxInFlight,    \* bound on the requests sent and not executed yet
    None            \* no value

ProviderCodes == {"stripe", "alipay", "wechat_pay", "paypal"}

ASSUME KindsAssumption == Kinds \subseteq ProviderCodes /\ Kinds # {}
ASSUME RetryAssumption == RetryAttempts \in Nat \ {0}
ASSUME BoundAssumption == MaxInFlight \in Nat \ {0}

VARIABLES
    kind,       \* the provider of the attempt
    trade,      \* the provider's status of the trade
    charged,    \* whether the payer has paid
    native,     \* whether the provider's own trade id was recorded
    made,       \* the refunds the provider holds, newest first
    wire,       \* requests that change something and were not executed yet
    call,       \* the call each client has under way
    attempt,    \* commerce_payment_attempt.status
    reconciled, \* the worker's webhook event about the attempt is processed
    presumed,   \* the attempt was closed because its trade was not found
    refunded    \* refunds recorded as succeeded

provider == <<trade, charged, made>>
local == <<native, attempt, presumed, reconciled, refunded>>
vars == <<kind, provider, wire, call, local>>

Clients == {"checkout", "handler", "worker"}
Ops == [checkout |-> {"create", "cancel"},
        handler  |-> {"query", "refund", "query_refund"},
        worker   |-> {"query", "refund", "query_refund"}]
Effects == {"create", "cancel", "refund"}

(***************************************************************************)
(* The provider's vocabulary, as the adapters and their tests use it.      *)
(***************************************************************************)
OpenedAs == [stripe |-> "requires_payment_method", alipay |-> "wait_buyer_pay",
             wechat_pay |-> "notpay", paypal |-> "created"]
ClosedAs == [stripe |-> "canceled", alipay |-> "trade_closed",
             wechat_pay |-> "closed", paypal |-> "voided"]
PaidAs == {"succeeded", "trade_success", "trade_finished", "success", "refund", "completed"}
Cancelable == {"requires_payment_method", "wait_buyer_pay", "notpay", "userpaying"}
PayerMoves ==
    { <<"requires_payment_method", "processing">>, <<"processing", "requires_payment_method">>,
      <<"processing", "succeeded">>, <<"wait_buyer_pay", "trade_success">>,
      <<"notpay", "userpaying">>, <<"userpaying", "notpay">>, <<"userpaying", "success">> }

RefundStarts == [stripe |-> {"pending", "succeeded"}, alipay |-> {"refund_success"},
                 wechat_pay |-> {"processing"}, paypal |-> {"pending"}]
RefundEnds == [stripe |-> {"succeeded", "failed"}, alipay |-> {"refund_success"},
               wechat_pay |-> {"success", "abnormal", "closed"}, paypal |-> {"completed"}]
RefundDone == {"succeeded", "refund_success", "success", "completed"}

(***************************************************************************)
(* What raw statuses are read as.                                          *)
(***************************************************************************)
\* map_provider_payment_status: "unknown" where the code has None.  A WeChat
\* trade in state REFUND is one of those.
PaymentTargets ==
    [stripe |-> [succeeded |-> "succeeded", canceled |-> "canceled",
                 requires_payment_method |-> "pending", processing |-> "pending"],
     alipay |-> [trade_success |-> "succeeded", trade_finished |-> "succeeded",
                 trade_closed |-> "canceled", wait_buyer_pay |-> "pending"],
     wechat_pay |-> [success |-> "succeeded", revoked |-> "canceled", closed |-> "canceled",
                     payerror |-> "canceled", notpay |-> "pending", userpaying |-> "pending"],
     paypal |-> [completed |-> "succeeded", voided |-> "canceled", declined |-> "failed",
                 created |-> "pending", approved |-> "pending"]]

\* map_provider_refund_status: what notifications and the worker read.
RefundTargets ==
    [stripe |-> [succeeded |-> "succeeded", pending |-> "processing", failed |-> "failed"],
     alipay |-> [refund_success |-> "succeeded", success |-> "succeeded"],
     wechat_pay |-> [success |-> "succeeded", processing |-> "processing",
                     abnormal |-> "failed", closed |-> "failed"],
     paypal |-> [completed |-> "succeeded", pending |-> "processing"]]

\* provider_refund_submission_state: what the handlers read; every other status
\* is still processing.
SubmissionStates ==
    [stripe |-> [succeeded |-> "succeeded", failed |-> "failed", canceled |-> "failed"],
     alipay |-> [success |-> "succeeded", refund_success |-> "succeeded",
                 trade_success |-> "succeeded", trade_finished |-> "succeeded",
                 trade_closed |-> "failed"],
     wechat_pay |-> [success |-> "succeeded", closed |-> "failed", abnormal |-> "failed"],
     paypal |-> [completed |-> "succeeded", refunded |-> "succeeded", voided |-> "failed"]]

\* No refund has no number, and no word of the tables is no status.
ASSUME NoneAssumption ==
    /\ None \notin Refunds
    /\ \A k \in Kinds : None \notin DOMAIN RefundTargets[k] \cup DOMAIN SubmissionStates[k]

Target(table, raw, default) ==
    IF raw \in DOMAIN table[kind] THEN table[kind][raw] ELSE default

\* A bug: a trade in an unexpected state counts as closed, whatever that state is.
MeansTradeIsAbsent_AnyState(code) ==
    code \in {"resource_missing", "unexpected_state_canceled", "acq.trade_not_exist",
              "acq.trade_status_error", "order_not_exist", "order_closed"}

\* cancel_error_means_trade_is_absent: the provider says that there is nothing
\* left to cancel.
MeansTradeIsAbsent(code) ==
    code \in {"resource_missing", "unexpected_state_canceled",
              "acq.trade_not_exist", "order_not_exist", "order_closed"}

\* A bug: a query that fails in any way has found no refund.
MeansRefundIsAbsent_AnyError(code) == code # "ok"

\* refund_query_error_means_not_found.
MeansRefundIsAbsent(code) ==
    code \in {"refund_not_found", "refund_not_exist", "acq.refund_not_exist", "acq.trade_not_exist"}

\* A bug: an answer without a status is read by its message.
RawStatus_AlwaysMessage(op, status) ==
    IF kind = "alipay" /\ status = None THEN "success" ELSE status

\* alipay_operation_outcome: the message of the answer stands in for a status,
\* except in the answer to a refund query.
RawStatus(op, status) ==
    IF kind = "alipay" /\ status = None /\ op # "query_refund" THEN "success" ELSE status

RefundState(c, op, status) ==
    IF c = "worker" THEN Target(RefundTargets, RawStatus(op, status), "unknown")
    ELSE Target(SubmissionStates, RawStatus(op, status), "processing")

AbsentCode == [stripe |-> "resource_missing", alipay |-> "acq.trade_not_exist",
               wechat_pay |-> "order_not_exist", paypal |-> "resource_not_found"]

\* What an answer, a code and a status, is read as.  Only "closed as absent"
\* rests on the provider not finding the trade.
Reading(c, op, code, status) ==
    CASE op \in {"refund", "query_refund"} /\ code = "ok"       -> RefundState(c, op, status)
      [] op = "query_refund" /\ MeansRefundIsAbsent(code)       -> "absent"
      [] op = "query" /\ code = "ok"                            -> Target(PaymentTargets, status, "unknown")
      [] op = "create" /\ code = "ok"                           -> "opened"
      [] op = "cancel" /\ code = "ok"                            -> "closed"
      [] op = "cancel" /\ MeansTradeIsAbsent(code)              ->
            IF code = AbsentCode[kind] THEN "closed as absent" ELSE "closed"
      [] OTHER                                                  -> "error"

(***************************************************************************)
(* Requests.                                                               *)
(***************************************************************************)
\* A bug: the worker numbers its requests on its own.
RecognisedBy_PerClient(c, op, no) == <<op, no, c>>

\* What a provider recognises a repeated request by: the merchant's numbers, as
\* out_request_no (Alipay) and out_refund_no (WeChat Pay), and as the header that
\* provider_operation_idempotency_key derives of them (Stripe), whoever asks.
RecognisedBy(c, op, no) == <<op, no>>

\* Optional request data: operations.rs sends both, the worker neither (the
\* total it sends is text, and create_refund of WeChat Pay asks for a number).
Supplies == [checkout |-> {}, handler |-> {"out_trade_no", "numeric total"}, worker |-> {}]
Needs(op) ==
    CASE kind = "alipay" /\ op = "query_refund" -> {"out_trade_no"}
      [] kind = "wechat_pay" /\ op = "refund"   -> {"numeric total"}
      [] OTHER                                  -> {}

\* provider_refund_reference, and metadata.payment_intent_id of a refund query:
\* the provider's own id, for which a handler has no substitute.  No handler has
\* one: the context that it loads reads the payload column, which is jsonb, as text.
NeedsNative(c, op) ==
    kind \in {"stripe", "paypal"} /\ c = "handler" /\ op \in {"refund", "query_refund"}

\* Whether the provider knows the id a request is addressed to.  The merchant's
\* number serves for Alipay and WeChat Pay; Stripe wants its own, which only
\* the queries about the attempt read from the payload with a jsonb operator, and for
\* which a cancel and the worker's refunds send the merchant's number.
Addressed(op) == kind = "stripe" /\ op # "create" => native /\ op = "query"

\* run_with_retries, retryable: reads, and writes that carry the key in a header.
Repeatable(op) ==
    \/ kind = "stripe"
    \/ kind = "wechat_pay" /\ op \notin Effects

Idle == [phase |-> "idle", op |-> None, no |-> None, known |-> FALSE, try |-> 1,
         reading |-> None]
Outcome(op, no, reading) ==
    [Idle EXCEPT !.phase = "answered", !.op = op, !.no = no, !.reading = reading]
Answered(c, reading) == [call EXCEPT ![c] = Outcome(call[c].op, call[c].no, reading)]

Request(c, op, no, known) ==
    [op |-> op, no |-> no, known |-> known, key |-> RecognisedBy(c, op, no)]
RequestOf(c) == Request(c, call[c].op, call[c].no, call[c].known)

\* A request to an id that the provider does not know has no effect there.
OnWire(q) ==
    IF q.op = "create" \/ (q.op \in Effects /\ q.known) THEN wire \cup {q} ELSE wire

Init ==
    /\ kind \in Kinds
    /\ trade = Absent
    /\ charged = FALSE
    /\ native = FALSE
    /\ made = <<>>
    /\ wire = {}
    /\ call = [c \in Clients |-> Idle]
    /\ attempt = "pending"
    /\ presumed = FALSE
    /\ reconciled = FALSE
    /\ refunded = {}

\* The rows that let a client begin: an open attempt is checked out, canceled
\* or queried, a succeeded one is refunded.
MayBegin(op) ==
    IF op \in {"create", "cancel", "query"} THEN IsActive(attempt) ELSE attempt = "succeeded"

\* Whether the adapter sends the request at all.  One that lacks what the
\* adapter asks for is refused; the PayPal adapter first asks for a token, at a
\* path without a host, which the HTTP client cannot send.
IsSent(c, op) ==
    /\ ~NeedsNative(c, op)
    /\ Needs(op) \subseteq Supplies[c]
    /\ kind # "paypal"

\* A handler also needs the total, which its context reads from a numeric column as
\* text; what becomes of the empty text is decided outside the repository.
MayEndUnsent(c, op) == c = "handler" /\ op \in {"refund", "query_refund"}

Begin(c, op, no) ==
    /\ call[c].phase = "idle"
    /\ op \in Ops[c]
    /\ (no = None) <=> (op \in {"create", "cancel", "query"})
    /\ MayBegin(op)
    /\ \/ /\ IsSent(c, op)
          /\ call' = [call EXCEPT ![c] = [Idle EXCEPT !.phase = "waiting", !.op = op, !.no = no,
                                                      !.known = Addressed(op)]]
          /\ wire' = OnWire(Request(c, op, no, Addressed(op)))
          /\ Cardinality(wire') <= MaxInFlight
       \/ /\ ~IsSent(c, op) \/ MayEndUnsent(c, op)
          /\ call' = [call EXCEPT ![c] = Outcome(op, no, "unsent")]
          /\ wire' = wire
    /\ UNCHANGED <<kind, provider, local>>

\* A bug: the last attempt is repeated too.
Fault_Endless(c) ==
    /\ call[c].phase = "waiting"
    /\ IF Repeatable(call[c].op)
       THEN /\ call' = [call EXCEPT ![c].try = @ + 1]
            /\ wire' = OnWire(RequestOf(c))
            /\ Cardinality(wire') <= MaxInFlight
       ELSE /\ call' = Answered(c, "error")
            /\ wire' = wire
    /\ UNCHANGED <<kind, provider, local>>

\* The answer is lost, late, 429 or 5xx: the request is repeated if that is safe
\* and an attempt is left, else the call ends in a transport error.
Fault(c) ==
    /\ call[c].phase = "waiting"
    /\ IF Repeatable(call[c].op) /\ call[c].try < RetryAttempts
       THEN /\ call' = [call EXCEPT ![c].try = @ + 1]
            /\ wire' = OnWire(RequestOf(c))
            /\ Cardinality(wire') <= MaxInFlight
       ELSE /\ call' = Answered(c, "error")
            /\ wire' = wire
    /\ UNCHANGED <<kind, provider, local>>

(***************************************************************************)
(* The provider.  External: it creates one trade for a merchant number,    *)
(* recognises a repeated refund, and moves the trade when refunds are      *)
(* made.  Of Stripe's only what the requests reach is told.                *)
(***************************************************************************)
Holds(q) == \E i \in DOMAIN made : made[i].key = q.key

TradeAfterRefund(refunds) ==
    CASE kind = "wechat_pay" -> "refund"
      [] kind = "alipay" /\ {refunds[i].no : i \in DOMAIN refunds} = Refunds -> "trade_closed"
      [] OTHER -> trade

Execute(q) ==
    /\ \/ /\ q.op = "create" /\ trade = Absent
          /\ trade' = OpenedAs[kind] /\ made' = made
       \/ /\ q.op = "cancel" /\ q.known /\ trade \in Cancelable
          /\ trade' = ClosedAs[kind] /\ made' = made
       \/ /\ q.op = "refund" /\ q.known /\ trade \in PaidAs \ {"trade_finished"} /\ ~Holds(q)
          /\ \E s \in RefundStarts[kind] :
                made' = <<[no |-> q.no, key |-> q.key, status |-> s]>> \o made
          /\ trade' = TradeAfterRefund(made')
       \/ /\ CASE q.op = "create" -> trade # Absent
               [] q.op = "cancel" -> ~q.known \/ trade \notin Cancelable
               [] q.op = "refund" -> TRUE
          /\ UNCHANGED <<trade, made>>
    /\ charged' = charged

Held(refunds, no) == { <<"ok", refunds[i].status>> : i \in {j \in DOMAIN refunds : refunds[j].no = no} }
OrElse(answers, others) == IF answers # {} THEN answers ELSE others

\* The answers of each provider: to a refund from the refunds after it was
\* executed, to the rest from what it was before.
StripeAnswers(q) == {IF q.known THEN <<"ok", trade>> ELSE <<"resource_missing", None>>}

\* A refund is answered without a status, and so, with success, may be a query
\* about a refund that is not held.
AlipayAnswers(q) ==
    CASE q.op = "refund" -> IF Held(made', q.no) # {} THEN {<<"ok", None>>} ELSE {<<"refused", None>>}
      [] q.op = "query_refund" ->
            OrElse(Held(made, q.no), {<<"ok", None>>, <<"acq.refund_not_exist", None>>})
      [] q.op = "query" /\ trade # Absent -> {<<"ok", trade>>}
      [] q.op = "cancel" /\ trade # Absent ->
            {<<IF trade \in Cancelable THEN "ok" ELSE "acq.trade_status_error", None>>}
      [] OTHER -> {<<"acq.trade_not_exist", None>>}

WeChatPayAnswers(q) ==
    CASE q.op = "refund" -> OrElse(Held(made', q.no), {<<"refused", None>>})
      [] q.op = "query_refund" -> OrElse(Held(made, q.no), {<<"refund_not_exist", None>>})
      [] q.op = "query" /\ trade # Absent -> {<<"ok", trade>>}
      [] q.op = "cancel" /\ trade # Absent ->
            CASE trade \in Cancelable -> {<<"ok", None>>}
              [] trade = "closed"     -> {<<"order_closed", None>>}
              [] OTHER                -> {<<"order_paid", None>>}
      [] OTHER -> {<<"order_not_exist", None>>}

\* A trade is opened with what the payer needs to pay: a client secret, a form,
\* a code or a prepay id.
CreateAnswers == {<<"ok", trade'>>}

Answers(q) ==
    CASE q.op = "create"                           -> CreateAnswers
      [] q.op # "create" /\ kind = "stripe"        -> StripeAnswers(q)
      [] q.op # "create" /\ kind = "alipay"        -> AlipayAnswers(q)
      [] q.op # "create" /\ kind = "wechat_pay"    -> WeChatPayAnswers(q)

\* The provider executes a request and its answer arrives; an answer that the
\* adapter cannot read, or whose signature it rejects (WeChat Pay), is an error
\* although the request was executed.
Serve(c) ==
    LET q == RequestOf(c)
    IN  /\ call[c].phase = "waiting"
        /\ IF q.op \in Effects
           THEN Execute(q) /\ wire' = wire \ {q}
           ELSE UNCHANGED <<provider, wire>>
        /\ \E r \in Answers(q) \cup {<<"unreadable", None>>} :
              call' = Answered(c, Reading(c, q.op, r[1], r[2]))
        /\ UNCHANGED <<kind, local>>

\* A request is executed although nobody will see the answer.
ServeUnheard(q) ==
    /\ q \in wire
    /\ wire' = wire \ {q}
    /\ Execute(q)
    /\ UNCHANGED <<kind, call, local>>

\* The payer, who needs what the checkout handed out, pays or hesitates.
Pay ==
    /\ native
    /\ \E m \in PayerMoves : m[1] = trade /\ trade' = m[2]
    /\ charged' = (charged \/ trade' \in PaidAs)
    /\ made' = made
    /\ UNCHANGED <<kind, wire, call, local>>

\* The provider closes an unpaid trade that has expired.
Expire ==
    /\ trade \in Cancelable
    /\ trade' = ClosedAs[kind]
    /\ UNCHANGED <<charged, made>>
    /\ UNCHANGED <<kind, wire, call, local>>

\* The provider finishes a refund.
FinishRefund(i) ==
    /\ i \in DOMAIN made
    /\ made[i].status \in RefundStarts[kind] \ RefundEnds[kind]
    /\ \E s \in RefundEnds[kind] : made' = [made EXCEPT ![i].status = s]
    /\ UNCHANGED <<trade, charged>>
    /\ UNCHANGED <<kind, wire, call, local>>

(***************************************************************************)
(* What the clients and the webhook endpoint make of it.                   *)
(***************************************************************************)
\* A settlement by webhook, or by the worker through the same path.
Settled(target) ==
    IF target \in {"succeeded", "failed", "canceled"} /\ WebhookMayTransition(attempt, target)
    THEN target ELSE attempt

ReceiveCreate(c) ==
    /\ call[c].op = "create"
    /\ native' = (native \/ call[c].reading = "opened")
    /\ UNCHANGED <<attempt, presumed, reconciled, refunded>>

\* cancel_provider_payment and mark_attempt_canceled.
ReceiveCancel(c) ==
    LET closes == IsActive(attempt) /\ call[c].reading \in {"closed", "closed as absent"}
    IN  /\ call[c].op = "cancel"
        /\ attempt' = IF closes THEN "canceled" ELSE attempt
        /\ presumed' = (presumed \/ (closes /\ call[c].reading = "closed as absent"))
        /\ UNCHANGED <<native, reconciled, refunded>>

\* check_attempt_status settles what the answer was read as; reconcile_attempt
\* hands that to the webhook path, which reads it once more, as if it were the
\* provider's own word, and counts the event as processed in any case.
ReceiveQuery(c) ==
    LET final == call[c].reading \in {"succeeded", "failed", "canceled"}
    IN  /\ call[c].op = "query"
        /\ attempt' = IF c = "worker" THEN Settled(Target(PaymentTargets, call[c].reading, "unknown"))
                      ELSE Settled(call[c].reading)
        /\ reconciled' = (reconciled \/ (c = "worker" /\ final))
        /\ UNCHANGED <<native, presumed, refunded>>

\* create_provider_refund, query_provider_refund and their worker counterparts.
ReceiveRefund(c) ==
    /\ call[c].op \in {"refund", "query_refund"}
    /\ refunded' = IF call[c].reading = "succeeded" THEN refunded \cup {call[c].no} ELSE refunded
    /\ UNCHANGED <<native, attempt, presumed, reconciled>>

Receive(c) ==
    /\ call[c].phase = "answered"
    /\ ReceiveCreate(c) \/ ReceiveCancel(c) \/ ReceiveQuery(c) \/ ReceiveRefund(c)
    /\ call' = [call EXCEPT ![c] = Idle]
    /\ UNCHANGED <<kind, provider, wire>>

\* The notifications sent so far: a payment and a close announce themselves, and
\* so does a refund that has come to an end.
PaidNotice == [stripe |-> "succeeded", alipay |-> "trade_success",
               wechat_pay |-> "success", paypal |-> "completed"]
Notices ==
    { [no |-> None, status |-> PaidNotice[kind]] : t \in {TRUE} \cap {charged} }
    \cup { [no |-> None, status |-> t] : t \in {trade} \cap {ClosedAs[kind]} }
    \cup { [no |-> made[i].no, status |-> made[i].status] :
             i \in {j \in DOMAIN made : made[j].status \in RefundEnds[kind]} }

\* A notification arrives: once, again, or long after it was sent.
Notify(n) ==
    /\ n \in Notices
    /\ IF n.no = None
       THEN /\ attempt' = Settled(Target(PaymentTargets, n.status, "unknown"))
            /\ refunded' = refunded
       ELSE /\ refunded' = IF Target(RefundTargets, n.status, "unknown") = "succeeded"
                           THEN refunded \cup {n.no} ELSE refunded
            /\ attempt' = attempt
    /\ UNCHANGED <<kind, provider, wire, call, native, presumed, reconciled>>

Next ==
    \/ \E c \in Clients :
        \/ \E op \in Ops[c], no \in Refunds \cup {None} : Begin(c, op, no)
        \/ Serve(c) \/ Fault(c) \/ Receive(c)
    \/ \E q \in wire : ServeUnheard(q)
    \/ Pay \/ Expire
    \/ \E i \in DOMAIN made : FinishRefund(i)
    \/ \E n \in Notices : Notify(n)

Spec == Init /\ [][Next]_vars

(***************************************************************************)
(* Properties.                                                             *)
(***************************************************************************)
TradeStatuses == {Absent} \cup PaidAs \cup {OpenedAs[k] : k \in Kinds} \cup {ClosedAs[k] : k \in Kinds}
                 \cup { m[1] : m \in PayerMoves }

\* Every variable stays within its vocabulary.
TypeOK ==
    /\ kind \in Kinds
    /\ trade \in TradeStatuses
    /\ {charged, native, presumed, reconciled} \subseteq BOOLEAN
    /\ \A i \in DOMAIN made : made[i].no \in Refunds
    /\ attempt \in {"pending", "succeeded", "canceled"}
    /\ refunded \subseteq Refunds
    /\ \A c \in Clients : call[c].try \in 1..RetryAttempts

\* However often a refund is submitted, by the handler, the worker, a repeated
\* attempt or a request that outlives its caller, the provider makes it once:
\* "a keyless retry would create a second refund" (worker, submit_refund).
OneRefundPerNumber == \A i, j \in DOMAIN made : made[i].no = made[j].no => i = j

\* An attempt that is recorded as succeeded was paid; one that is recorded as
\* canceled was not and cannot be any more, unless the close rests on the
\* provider not finding the trade.
SettledAttemptIsTrue ==
    /\ attempt = "succeeded" => charged
    /\ attempt = "canceled" /\ ~presumed => ~charged /\ trade = ClosedAs[kind]

\* The payout ledger, told from the provider's side: whatever is sent, repeated, lost
\* or read, a refund is paid out once, and recorded as succeeded only afterwards, and
\* neither is ever taken back.
PaidOut == { made[i].no : i \in {j \in DOMAIN made : made[j].status \in RefundDone} }
Ledger == INSTANCE PayoutLedger WITH paidOut <- PaidOut, recorded <- refunded
ImplementsPayoutLedger == Ledger!LedgerSpec

\* When a refund query is read as "no such refund", which lets the handler
\* submit again, the provider held none at the time it answered.
AbsentRefundIsAbsent ==
    [][\A c \in Clients :
            /\ call[c].phase = "waiting"
            /\ call'[c].phase = "answered"
            /\ call'[c].op = "query_refund"
            /\ call'[c].reading = "absent"
            => \A i \in DOMAIN made : made[i].no # call[c].no]_vars

\* Once the worker has processed a final answer, the attempt is settled: "terminal
\* outcomes are re-entered through the same audited webhook settlement path"
\* (module comment of the worker).  The code does not keep this for Alipay and WeChat Pay:
\* the status is mapped twice (section 5 of the README).
ReconciledIsSettled == reconciled => attempt # "pending"
=============================================================================
