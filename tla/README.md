# Formal models of the payment service

TLA+ modules, TLC configurations and TLAPS proofs about the Rust service under `src/crates`:
how payment intents and attempts are created, settled and closed, how refunds are reserved and
executed, how a checkout replaces one provider trade by another, which merchant and which secrets a
call uses, what the providers are asked and how their answers and amounts are read, and how the
background workers find what was lost. The modules are translated
from the source; `PROJECT.json` lists for every definition the lines it stands for.

Reading order: `PaymentStatus`, `CaptureLedger`, `PaymentSettlement`; then `RefundStatus`,
`RefundReservation`, `PayoutLedger`, `RefundSubmission`; then `ProviderCheckout` and
`CheckoutPool`; `MerchantRouting` and `ProviderCredentials`; then `ProviderCalls`, `MoneyPath` and
`CompensationWorker`. The `MC*` modules and `.cfg` files are the instances TLC checks, the `*_proofs` modules hold the theorems.

## 1. The system

The service keeps the payments of orders it does not own. All durable state is in PostgreSQL; the
API process also runs the compensation worker. Payment service providers (Stripe, PayPal, Alipay,
WeChat Pay, and a sandbox) are called over HTTP outside any transaction and call back with
notifications. Several API processes may run against one database.

| Part | State it keeps | Operations that change it | What makes it correct |
|---|---|---|---|
| Intents and attempts (`repository-sqlx`: `postgres_owner_order_payment.rs`, `postgres_payment_intent.rs`, `postgres_payment.rs`, `owner_order_provider_close.rs`) | `commerce_payment_intent.status`, `commerce_payment_attempt.status`, `payment_intent_id`, `paid_at` | pay an order, create intent, create attempt, cancel an intent, cancel an order's payments, close a record (by attempt or by intent), close during checkout, confirm by hand | an intent is paid exactly when one of its attempts is; a capture happens once and is never lost |
| Webhook ingestion and replay (`postgres_webhook_ingestion.rs`, `webhook_replay.rs`, `webhook_status.rs`) | `commerce_payment_webhook_event.status`, `.retries` | first delivery, redelivery, unmatched event, refused amount, operator replay | duplicates and disorder change nothing; only a success notice with the right amount settles |
| Owner checkout (`owner_order_checkout.rs`, `payment_attempt_context.rs`, the pay, intent and payment routers) | advisory lock of the order, `callback_payload`, `expires_at`, the provider's trades | find or insert the attempt, lock, revalidate, close overdue and other attempts, renew the expiry, create the trade, record its id | at most one trade of an order can be paid; a superseded attempt is not charged |
| Refund store (`postgres_refund.rs`, `postgres_refund_webhook_ingestion.rs`) | `commerce_refund`, `commerce_refund_event` | create under the order lock, claim, terminal marks, notification | reservations fit what was paid; success is final and audited once |
| Refund execution (`refund_router.rs` of app and back office, `providers/operations.rs`, `providers/error.rs`) | requests in flight | claim, query, create at the provider, classify the answer, record, retry | claimed before called; success recorded only of a payout that happened |
| Compensation worker (`compensation-worker`, `compensation_claim.rs`) | a batch in memory, the claim in the row | claim due attempts and refunds, query or submit, record | what the provider has settled does not stay open |
| Accounts and channels (`provider_account.rs`, `payment_channel.rs`, `payment_attempt_context.rs`, the admin router) | `commerce_payment_provider_account.status`, `commerce_payment_channel` (status, bound account), the snapshot in an attempt | activate, suspend, bind, delete; select a channel for an attempt; look the account of an attempt up | an attempt is served by accounts its channel was bound to and by no other merchant, and finds the first of them while its channel is not rebound |
| Checkout gate and pool (`owner_order_checkout.rs`) | semaphore permits of a process, pooled connections, lock transactions | queue, open the lock transaction, try the lock, work, commit | lock holders never exhaust the pool they work with; a lost session is noticed |
| Provider adapters (`providers/src/{stripe,alipay,wechat_pay,paypal,http,operations,checkout}.rs`) | none; requests on the wire | create, cancel, query, refund, query a refund, retry | a keyed request takes effect once; what is read from an answer is true at the provider |
| Money (`providers/money.rs`, `webhook_amount.rs`, `shared.rs`) | amounts of orders, attempts, refunds | store, charge, read a notice, refund | an amount arrives to the cent and foreign amounts settle nothing |
| Credentials (`provider_credential.rs`, `credentials.rs`, `dev_credentials.rs`, `registry.rs`, the service host) | `commerce_payment_provider_credential`, the account's metadata, the deployment's environment | rotate, fill at start, save, delete, test, load for a call | versions never collide; one host fills; a tested account is the one that is used |
| Notification domains | configuration rows | single statements | not modelled, section 7 |
| Assembly, gateway, service host, database host, routers' plumbing, SDKs, web applications | wiring | start and stop | not modelled |

How the parts interact. A client request runs a repository transaction, then provider calls, then
another transaction; nothing ties the three together except row statuses, deterministic ids and,
in checkout, the advisory lock. Notifications and the worker write the same rows in transactions of
their own. So every pair of adjacent transactions of a request is a place where somebody else acts,
and every provider call may be lost, answered late, or answered in a way that cannot be read.

The hard behaviours, and therefore the hazards of `PROJECT.json`: reads before a transaction that
are used inside it (creating an attempt, the back office's provider query, refund retry); two rows
that must move together written by two statements with an early return between them (webhook
settlement); a sum followed by an insert (refund reservation); notifications in any order and any
number; lost answers and processes that die between claim, call and record; a lock that some
writers do not take (closing a payment); configuration that changes under payments already made; a
pool whose users need two connections each; requests that are sent again, and providers each with a
vocabulary of its own; claims of limited size that several workers make of the same rows; hosts that
start together and rotate secrets that are being read.

## 2. Plan

1. `PaymentStatus`, `CaptureLedger`, `PaymentSettlement`: money in. *Written, checked, proved.*
2. `RefundStatus`, `RefundReservation`, `PayoutLedger`, `RefundSubmission`: money out.
   *Written, checked; the safety properties are proved.*
3. `ProviderCheckout`: rows, lock and trades of one order. *Written, checked, proved.*
4. `MerchantRouting`: which merchant an operation on an attempt is sent to while accounts and channels
   change. *Written, checked, proved.*
5. `CheckoutPool`: the permits of `acquire_checkout_connection_gate`, the connection pools and the
   locks of several orders, with lost sessions. *Written, checked; the safety properties are proved.*
6. `ProviderCalls`: the adapters of the four providers, the retry loop, and the readings of their
   callers. *Written, checked, proved.*
7. `CompensationWorker`: both passes with ages, limits, tenants and several workers. *Written,
   checked, with liveness; the safety properties are proved.*
8. `MoneyPath`: the amount of a payment and of its refund through every conversion. *Written, checked,
   proved.*
9. `ProviderCredentials`: rotation, the fill of starting hosts, loads and tests. *Written, checked,
   proved.*
10. Left: `SettlementLocks` (the row locks of settlement, closing, cancelling and confirming in statement
   order), route rules of channels, sub-merchants, test
   payments, and the lifecycle of the service host.

Abstract specifications: `CaptureLedger` and `PayoutLedger` exist; for checkout, a one-trade
specification (open, pay, close, never two) is to be stated and implemented by `ProviderCheckout`.

## 3. Modules and code

### PaymentStatus
The states of `domain/mod.rs`, `MayTransition` (every local writer asks it), and
`WebhookMayTransition` (`webhook_transition_allowed`: a success is accepted from every state, and
nothing else replaces a success). `Targets` is the range of `map_provider_payment_status`.

### PaymentSettlement
One action is one transaction. The transactions lock the rows they decide on (or update under a
status guard), so a transaction is atomic; a read before it is a separate action:
`BeginCreateOwnerPaymentIntent` reads the order, `ReadAttemptableIntent` and `ReadPayableOrder` the
intent and the order, and `AbandonCreation` is any error between. State:
`intent`, `attempt`, `intentOf`, `paidAt` are columns; `opening` and `creation` are requests in
flight; `notice` is what a provider says under an event id and `event`, `replays` the stored event;
`payable` is owned by the order service. `paidAt` holds *who* stamped the column (an event, a
confirmation, a query) where the code holds a time: the properties need the author and not the time.
`ApplyPaymentStatus` keeps the order of `apply_webhook_payment_status_postgres`: refuse a mismatched
amount, write the intent, then ask the attempt, whose refusal leaves the intent written.

### RefundStatus, RefundReservation
`create_owner_refund` in the steps of its READ COMMITTED transaction: look for the idempotent row,
lock the order, sum the reserving refunds, insert. The refund rows are not locked by the sum, so
marks, notifications and claims happen between the sum and the insert. Amounts are natural numbers
of minor units, and both the amount check of `validate_refund_bounds` and the comparison with what
remains are kept.

### PayoutLedger, RefundSubmission
Requests (create and its idempotent repetition, back-office retry), the worker and notifications
around one row. A request is a phase (`claim`, `query`, `create`, `record`) with the idempotency key
that names its audit event. Provider calls arrive, are lost on the way back, or come back
malformed; `RequestEnds` and `WorkerStops` are a crash or an exhausted retry at any step. `integer`
tells how the caller holds the amount: the back office reads the row's decimal text, which
`create_provider_refund` rejects as a validation error, whereas a claim returns minor units.
`Misrouted` bounds the notifications that carry this refund's number and another amount.

### ProviderCheckout
One order, its attempts, and clients that each have one request under way. A step is a statement, a
transaction or a provider call. Every request that works on trades walks through `locking`, then
`checking`, `listing overdue`, `renewing`, `listing others`, `creating`, `persisting`; the order
cancellation through `listing all` and `canceling`; a list of attempts is closed one by one in
`closing` (provider call) and `marking` (transaction), in the order of `created_at` (`todo` is what is left, `Earliest` the
next, `created` the attempts in the order of their inserts). `close_payment_record` runs the same two
steps without the lock. `trade` is the truth at the provider. The trade's own id is
stored in `callback_payload`, a JSONB column which `load_payment_attempt_provider_context_postgres` reads as text; that yields the
empty text, so a cancel at Stripe or PayPal (`NativeKeyed`) is always addressed to the merchant number, which names
nothing there (`Addressed`). `unanswered` and `superseded` are history: create calls whose
answer was never recorded, and attempts canceled under the lock. Whether the stored scene and payer
of an attempt match a command's is left open, and so is the choice of channel.

### MerchantRouting
The state is the status of each account, each channel with the account bound to it, and for each attempt its
channel and the account snapshotted at its insert. `UpsertProviderAccount` is one statement;
`upsert_channel` and `delete_provider_account` look first and write in a second statement, so they are
pairs of actions with a command in between. `Eligible` and `Routes` are `select_payment_channel`: an active
channel of the attempt's organization or the platform whose account, if it has one, is active and visible to
that organization; which eligible channel ranks first is left open. An operation of a client
loads the attempt (`LoadContext`: what the channel is bound to now, since the snapshot in `callback_payload` is read like the trade's
own id above and never found; only the worker's query of a payment reads it, with a JSON operator), may ask the
channel once more (`ReadChannelBinding`, checkout only), resolves a merchant and calls it (`CallProvider`). The
entry points differ in what they accept (`Acceptable`) and in what they do without an account (`Resolved`): the
back-office refund refuses, checkout, close and the app refund take the active account of the provider if the
attempt has no channel, everything else goes to the deployment's credentials. `traded` and `addressed` are history, and so is `bound`, the
accounts the attempt's channel was bound to since the attempt was inserted.
An account keeps its provider code here; the code's comparison of the account's provider with the attempt's
therefore always succeeds.

### CheckoutPool
Why a checkout (an element of `Checkouts`), which pins a connection with the transaction of its lock and takes a second one for
each statement, does not exhaust the pool. `Permits` is the semaphore of a host (`checkout_connection_gate`: half of the pool's
capacity, which must be at least two); a request goes `queued`, `connecting` (it has a permit and
waits for a connection), `trying` and `sleeping` (the poll for the lock), `locked`, `working` (a
statement), `finished`. `Others` stands for every user of one connection at a time. `LoseSession` ends the
database session of a holder: the lock is free, the holder goes on, and finds out when it commits.
`lost`, `overtaken` and `twofold` are history. What the locked work does is `ProviderCheckout`.

### ProviderCalls
One trade and its refunds at one of four providers, and three clients with a call each: the checkout, the
refund handler and the worker, whose requests to the adapters differ. A call goes `waiting` and
`answered`; `wire` holds the requests that change something and have not been executed, which may
outlive their callers. `Fault` is `run_with_retries`: only keyed requests and reads are sent again. `Answers` and
`Reading` are each provider's answers and what adapter and caller take them for, and `Receive` records
what follows: an attempt canceled or succeeded, a refund succeeded, absent or still open. Of Stripe's operations only the queries
of an attempt know the trade's own id (`native`, `Addressed`): a handler's refund is refused before it is sent, the worker's
refunds and all cancels name the merchant number, which Stripe does not find, so that a cancel counts as "closed as absent"
(`presumed`). A handler's refund and refund query may end unsent at any provider (`MayEndUnsent`), because the total of the payment
is read from a NUMERIC column as text. The provider itself is external and follows the status names the adapters know; it
recognises a repeated refund by its number (`RecognisedBy`) and answers it with the first result.

### CompensationWorker
The workers of several processes over attempts and refunds of several tenants. A pass lists the
tenants that have something due (`StartPass`), claims a batch for each (`ClaimSelect` is the
`SELECT ... FOR UPDATE SKIP LOCKED` of the oldest due rows, `ClaimMark` the update and the commit), and asks
or submits row by row. `age` abstracts the ages of the queries: a row is young, due, expired (attempts
only: the checkout is over) or forgotten. `Foreign` rows belong to an organization other than the default one, which the worker claims
for. `Crash` and `ClaimFails` lose a batch, not the rows' status.

### ProviderCredentials
Versions of the secrets of an account. A rotation is lock, insert of a new version and deactivation of
the old one per kind, commit; the fill of a starting host holds the bootstrap lock around count and rotation
and looks at every bootstrap account. `Load` reads the active rows without a lock. `CallsAs` is
`provider_registry_for_account`: an account without a part its provider needs falls back to the
deployment's own merchant, and `IsReady` is the readiness check of the back office.

### MoneyPath
One payment and one refund. A text amount is its whole part and its digits; `MinorToDecimal`, `SmallestUnits`,
`NormalizeStored` and the readings of each notice are the code's conversions on them. `Charge` tells the
provider; notices are the provider's own (`own`) or name any amount and currency, in the provider's
format; `Agrees` and `NotifiedRefund` are the comparisons that settle or advance. The writer's meaning
of an order (`meant`) is history.

### CaptureLedger, PayoutLedger
What a reader may assume of settlement and refunds without knowing tables: a capture is made once
by one report and pays its intent in the same step; a success is recorded once, after the payout.
`PayoutLedger` is implemented twice: by `RefundSubmission`, where the handlers interleave over the tables, and by
`ProviderCalls`, where requests and answers are lost, repeated and read in each provider's own words.

## 4. Runs

| Run | Instance | Shows |
|---|---|---|
| `settlement` | 1 order, 2 intents, 2 attempts, 2 events, 1 replay | type invariant, `SettledTogether`, `PaidAtMarksSuccess`, `SettlementIsNotified`, and that the tables implement `CaptureLedger` |
| `settlement_liveness` | 1 intent, 2 attempts, 1 event, fair ingestion | `NotifiedSuccessSettles`: a captured payment that was canceled, closed or failed locally is settled after all |
| `reservation` | 2 attempts paid 3 and 2, refunds of 2, 2 and 1, 2 requests | `SteadyRefundsFit`, `SucceededIsFinal` |
| `reservation_over` | 1 attempt paid 3 | violation of `ReservationsFit`, see section 5 |
| `submission` | 1 refund, 2 handlers, 1 fair worker, 1 retry key, 3 requests | type invariant, `ClaimedBeforeCalled`, `SuccessAuditedOnce`, implements `PayoutLedger`; `SettledRefundIsClosed` |
| `checkout` | 2 clients, 2 attempts, one at a provider that cancels by an id of its own | type invariant, `OneLiveTrade`, `SupersededNeverCharged`, `SupersededIsClosed` |
| `routing` | 3 accounts (own, platform's, foreign), 1 channel, 1 attempt, 1 client, 1 operator | `ServedByItsChannel`, `UnreboundStaysReachable` |
| `providers` | each of 4 providers, 2 refunds, 3 tries, 3 requests on the wire | type invariant, `OneRefundPerNumber`, `SettledAttemptIsTrue`, `AbsentRefundIsAbsent`, and that calls and notifications implement `PayoutLedger` |
| `compensation` | 2 workers, 2 tenants, 1 attempt, 2 refunds, batches of 1, 1 tenant a pass, 1 fault | type invariant, `FreshClaimsAreDisjoint`; `DecisionsAreRecorded` |
| `pool` | 2 hosts with 2 connections, 2 orders, 3 checkouts, 1 other user | `CheckoutsFit`, `OneOfTwoFails`; `CheckoutsEnd` |
| `credentials` | 1 account, 2 back-office requests, 2 hosts, 1 crash | type invariant, `RotationsSerialize`, `FilledOnce`, `LoadsAreWhole`, `PassedTestUsesAccount`, `FilledNeverDeployment` |
| `money` | 4 providers, 3 currencies, 11 amounts | `ChargeIsMeant`, `HonestNoticeSettles`, `ForeignNoticeRefused`, `RefundNoticeMatches` |

The type invariants of `RefundReservation`, `MerchantRouting`, `CheckoutPool` and `MoneyPath` are in no run
because they are proved (`TypeCorrect` and `PoolTypeCorrect` of the proof modules). `CheckoutPool` and `CompensationWorker`
share a proof module with another component each, which is why their specifications are called `PoolSpec` and `WorkerSpec`.

Why the bounds are enough for what they ask.

- Settlement needs two attempts under one intent (one settles, the other is canceled, failed or
  late), two intents of an order (the unique number) and two events of one trade (reordering,
  duplicates are free). A third of any kind meets only situations of two: the theorems of section 6
  remove the bounds altogether. `MaxReplays = 1` stands for the code's 5; the limit is reached.
- Refund reservation needs two refunds that do not fit together and one that fits beside either, so
  that the sum is wrong in both directions, and a second attempt because the sum is over the order
  while the bound is the attempt's.
- Refunds do not interact at the provider, so `submission` has one, with every overlap of two requests,
  a worker pass and notifications; `MaxRequests` bounds the number of requests begun and `Misrouted`
  the foreign notifications.
- Checkout needs two attempts to have one superseded and two clients to overlap; clients come back
  for ever, so a run has any number of requests in sequence. One attempt is at a provider that cancels by
  an id of its own (`NativeKeyed`), the other at one that cancels by the merchant number, so that either supersedes the other.

- Routing needs three accounts because there are three relations of an account to the attempt's organization, and
  one channel that can be rebound among them. Attempts share only configuration, and an operation reads
  configuration that any number of commands may have changed since it began, so one of each is enough;
  the theorems of section 6 hold for any number.

- Provider calls need two refunds, because one of them leaves the trade open for the other or closes it, and three requests on the wire
  (`MaxInFlight`), so that two tries of one call are overtaken by the call of another client. A call is tried three times, as in the code.
- The workers need two of everything that they divide: workers that claim the same row, tenants of which one waits
  (`TenantLimit = 1`), refunds of one tenant of which the older delays the younger (`RowLimit = 1`). All rows are old enough
  from the start (`Old`), and one refund has not reached the provider (`Sent`), so that one is submitted and the
  others queried. `MaxFaults` bounds crashes and failed claims together.
- The pool needs a capacity of two, where half of it is one permit and where lock and statement fill it, two checkouts of one
  order on different hosts to share a lock after a lost session, and a third to wait. A checkout has one
  statement, and its deadline passes with its second try. The theorems hold for any capacity.
- Credentials of different accounts share only the bootstrap lock, so one account is enough; two requests, two hosts and one
  crash overlap in every way. Each request does one operation. The environment sets nothing, one secret, or
  all a provider needs, and the same for the whole behaviour: a host that is started again with the deployment's variables
  set, which falls back for an account filled before, is outside of `FilledNeverDeployment`. The session of
  the bootstrap lock is not lost, as that of the checkout's lock is in `CheckoutPool`. Edits of provider code and status are left out.
- Amounts are at, below and above a unit, with and without zeros in their cents; the theorems hold for every natural number.

Symmetry is used only where no property is temporal beyond safety: over intents, attempts and
events; requests and the two equal refunds; the refunds of a provider; operators and hosts; the clients of a checkout. The liveness runs have no symmetry. The
`VIEW` of `checkout` hides whether an attempt that is no longer active has expired; no guard and no
property of the run reads that. The `VIEW` of `providers` hides `reconciled`, which only records that the worker has processed an
answer, and does not tell apart the readings of an answer that nothing is recorded of (an error, still pending, not found): what follows
is the same, and action properties are checked on every step before the view is applied. The `VIEW` of `money` hides the order's text once it is charged and the payment's notices once there is a refund: no
later step reads them, no property reads the text, and the answer of the properties about the notices can no longer change.

Deadlock is checked in the settlement, checkout and pool runs. The refund runs say `CHECK_DEADLOCK FALSE`
because their requests are bounded or one-time: when all refunds are final and all requests used,
the modelled part really has nothing left to do. So do the runs `providers`, `compensation`, `credentials` and `money`, whose payment, rows or requests come to an
end, and the routing run: a tenant that has deleted all its
accounts and has a channel bound to one of them can neither configure nor pay in this model.

Every passing property has a mutant in `PROJECT.json`: a plausible bug in a mapped definition
(a missing lock, a dropped status guard, an expired attempt overlooked, an amount not compared) that
makes TLC refute it.

### Fairness

- Settlement: weak fairness of the first ingestion of each sent notification. Providers redeliver
  until acknowledged, and a delivery is one transaction. Nothing is assumed of clients or operators.
- Refund execution: the worker claims whenever rows are due (its loop runs on a timer), which is weak
  fairness; its calls go through and its answers are recorded infinitely often if they are possible
  infinitely often (strong fairness), since a pass may be stopped or a call may fail any number of
  times but not always. Nothing is assumed of requests, notifications, or of the provider.
- Workers: weak fairness of the next step of each worker, since its loop runs on a timer, and strong fairness of
  the query of each row, since it may fail any number of times but not always. Time passes, and the provider decides some day
  (weak fairness); nothing is assumed of notifications and of submissions that are lost.
- Pool: strong fairness of queueing at the gate, because the semaphore is a fair queue; weak fairness of a request's next step and of the
  other users' return of connections, because statements come to an end and sleeps are bounded. No timeout and no lost session is owed
  to anybody, so `CheckoutsEnd` does not rest on them.

## 5. Where the code disagrees

One run has `expect: violation` and is a finding with the quoted line:

- `ReservationsFit`: a failed refund goes back to processing without a new sum. Refunds created while it
  was failed and the reopened one together exceed what was paid. `SteadyRefundsFit` says what does
  hold: refunds that never failed fit.

The following are stated as definitions at the end of their modules and are not kept by the code. Each is
reproduced by checking the definition, as an invariant or property of the named MC module, with the constants given.

- `RefundSubmission!AcceptedRefundsReserve` (the constants of `Submission.cfg`, `Spec`): a malformed answer to a create is a
  *validation* error, and the refund is marked failed and stops reserving although the provider has accepted it.
- `RefundSubmission!OpenRefundReachesProvider` (the same, `FairSpec`): the claim of a submitted refund commits `processing`
  before the submission; if that is lost, later passes only query, and the provider has nothing to report.
- `ProviderCheckout!SettlementStopsCheckout` (`Requests = {q1}`, no view, no symmetry): checkout lists *active* attempts; a
  settled one is not among them, so a replacement attempt inserted before the settlement goes on to open a second
  trade. TECH_ARCHITECTURE.md:110 says that a concurrent success "stops payment-method replacement before another PSP trade is created".
- `ProviderCheckout!ClosedMeansNoTrade` (the same): at Stripe and PayPal every cancel is addressed to the merchant number, although
  the create call was answered and its id stored, is answered "not found", and the attempt is canceled with its trade open.
  TECH_ARCHITECTURE.md:68 says that the id is merged into `callback_payload` "for later close/cancel", and of "not found" that
  "there is no external trade left open". At the other providers (`NativeKeyed = {}`) it takes a create call that arrives after the
  cancel. `SupersededIsClosed` says what remains.
- `MerchantRouting!SnapshotKeepsMerchant` (the constants of `Routing.cfg`): an operator begins to bind the channel to another account,
  and the attempt, inserted meanwhile with the first one, is checked out, closed or refunded at the other. PAYMENT_EXECUTOR_SPEC.md:71
  says that these "use the snapshotted account rather than the channel's current binding", and `shared.rs:608` tests that the
  snapshot is written. The context loads it from the JSONB column as text (`payment_attempt_context.rs:132`), which yields "".
- `ProviderCalls!ReconciledIsSettled` (`Refunds = {r1}`, no view): the worker maps a provider's answer to `succeeded` or
  `failed` and ingests that as the notification's status, which `postgres_webhook_ingestion.rs:468` maps again with the
  provider's vocabulary. Alipay and WeChat Pay have no such words, so the stored event is processed and the attempt
  stays open, against the module comment of the worker (`lib.rs:6`).
- `CompensationWorker!DecisionsAreRecorded` (`Workers = {w1}`, `AttemptRows = {}`, `RefundRows = {1, 2}`, `Foreign = {1}`,
  `Old = Sent = {1, 2}`, `MaxFaults = 0`): a row of an organization other than `'0'` makes its tenant due, is never claimed
  (`lib.rs:281` passes no organization), and so keeps the tenant ahead of others on a limited list for ever.

Observed and not stated. *Settlement and refunds.* The second failure of a reopened refund leaves no audit event (the
event id repeats); the acknowledgement `applied = false` may follow an update of the intent; the
record view rejects the status `processing` that the worker's claim writes; the claim's comment says
later sweeps skip a processing row while the query selects it again. The number of an intent is that of its order
and unique (`postgres_owner_order_payment.rs:411`), so a second intent of a payable order is refused for ever (phase
`refused` of `ProviderCheckout`), where TECH_ARCHITECTURE.md:104 promises a separate attempt for another scene or payer.
The route `reconcile_payment` of the app only reads.

*Columns read as text.* `string_cell` yields "" for a column whose type does not decode as text. Of the contexts in `payment_attempt_context.rs` this
concerns `callback_payload` (JSONB), hence the snapshot, the trade's own id and the metadata of the payment, and `amount`
(NUMERIC). Whether a refund or query of a handler gets any further with an empty amount is left open (`MayEndUnsent`); the tests of
the contexts run on a schema with text columns (`test_migrations/0001_payment_store_e2e.sql`). Other queries cast these columns or
decode them as JSON. Apart from cancels, a trade may be open for an attempt that is not active because `close_payment_record` takes no
lock: it may close an attempt between the checks of a checkout and its create call.

*Calls.* `SettledRefundIsClosed` needs a provider that the worker can ask about refunds, which is WeChat Pay. At Stripe the worker has no payment
id to ask with (`payment_attempt_context.rs:187`); its query of an Alipay
refund leaves out the merchant number of the trade that the adapter requires (`lib.rs:511`), its refunds at WeChat Pay give the total as
text where the adapter reads a number (`lib.rs:480`), so that refunds submitted by the worker end as failed calls, and PayPal's token is
asked for at a path without a host (`paypal.rs:133`). `ProviderCalls` has these as the fields a client `Supplies`.

*Accounts and channels.* `PAYMENT_EXECUTOR_SPEC.md:73` says that historical attempts remain bound
to the old account: this holds while the channel is not bound to another one (`UnreboundStaysReachable`), and an attempt made without a
channel is closed and refunded at whichever account is active then, or with the deployment's credentials. The same line says that activation rejects a second active
account: `upsert_provider_account` does not ask, and two of one scope make the lookup by provider fail. The worker
resolves active accounts only, so it does not reconcile what was paid at a merchant rotated out. `delete_channel` and
`upsert_route_rule` bind text to timestamp columns without a cast, which PostgreSQL refuses, so no channel is ever
deleted (the model has no such action). A foreign account can be bound to a channel; it then makes the channel
ineligible rather than an attempt unrefundable.

*Credentials.* The comment at `provider_credential.rs:145` says that a host that waited skips a filled account untouched; an
operator's rotation takes another lock and may come between the count and the fill, which then replaces the operator's
secrets. A rotation clears the verdict of the last test after its commit and a test stamps it at its end, so a verdict about
old secrets can stand beside new ones, where `docs/runbooks/production-firstboot.md:47` trusts it after a rotation. Saving an account writes the row and rotates in two
transactions, so a call between them pairs the new merchant with the old secret. The readiness check knows no
PayPal parts. The test of an account does not read the notification domains of the database.

*Notification domains.* The lookup binds `"0"` where the query allows for NULL, so that alternative never applies, and
an inactive default stays the default (`notify_domain.rs:72`).

*Money.* `money.rs:36` says that currencies without hundredths are rejected at the pay boundary: the intent route and test payments do not ask,
and PayPal is then told hundredths of a yen (`Hundredths` excludes these). An old order written as a whole number of
major units is read as smallest units; `CAST(amount AS BIGINT)` rounds. A whole number in an Alipay notice is a refund of
that many smallest units and a payment of that many units (`NotifiedRefund`, `MajorToMinor`). Refund notices of WeChat Pay nest the amount
and those of PayPal are not read; without an amount there is no comparison. A test payment inserts order and
breakdown in two statements, and a retry with the same key and another amount keeps the first.

An observation about the lock: `OneLiveTrade` rests on row statuses rather than on the lock. With the
lock removed TLC found no violation of it in several million states; what needs the lock is
`SupersededNeverCharged` and `SupersededIsClosed`.

## 6. Proofs

All theorems are for arbitrary sets of orders, intents, attempts, events, refunds, requests and workers
and any bounds. Assumptions are the named `ASSUME`s of the component modules: `None` is not an element
of the sets it is used beside and no word of a provider's vocabulary, organizations are given for exactly the accounts, channels and attempts, the functions given as constants have their types, and the
names of manual confirmation and query are not event ids.

`PaymentSettlement_proofs`
- `TypeCorrect`: `[](TypeOK /\ Linked)`. `TypeOK` is not inductive alone: that a status application
  writes a stored intent needs `Linked` (an attempt that exists points at an intent that exists, a
  notice names an existing attempt, a creation in flight holds an existing intent).
- `SettledTogetherAlways`, `PaidAtAlwaysMarksSuccess`: every transaction is one of three kinds
  (`RowStep`): it opens an attempt, it leaves every success as it is, or it captures one attempt
  together with its intent. The first two lemmas are about the status rules: a success is accepted from
  every stored status, and nothing is accepted over a success. Hence the early return between the two updates of
  `ApplyPaymentStatus` can only happen for a status that is not a success. The row invariant is
  `RowInv == TypeOK /\ Linked /\ SettledTogether /\ PaidAtMarksSuccess`.
- `SettlementAlwaysNotified`: adds that notices never change once sent and that a processed event of a
  success is never reopened.
- `LedgerImplemented`: `Spec => ImplementsCaptureLedger`, each kind of `RowStep` maps to a ledger step or
  to a stutter.

`RefundReservation_proofs`
- `TypeCorrect` (which ties the order lock to the phase of its holder) and `SucceededAlwaysFinal`.
- `SteadyRefundsAlwaysFit`, for any amounts, any number of refunds, attempts and requests. `IInv` adds to `TypeOK` that only
  finitely many rows are inserted (so that there is a sum), that a row that never failed reserves (`SteadyReserves`), and
  that between its sum and its insert a request keeps the room it found (`RoomKept`): only the holder of the order lock
  inserts, and whatever else happens to the rows meanwhile makes no row steady that was not. That the room was enough
  follows because the sum of the code is over all reserving rows of the order, of which the steady rows of the attempt
  are some. The lemmas about sums (a part has no greater sum, one more element adds its amount) are proved by induction
  on cardinality: the set of the cardinalities for which a lemma holds is all of `Nat`, as a least missing one is impossible.

`RefundSubmission_proofs`
- `TypeCorrect`.
- `AlwaysClaimedBeforeCalled`: from `ClaimsHeld`, that whatever a request, a batch or an answer is about
  is past its claim.
- `SuccessAlwaysAuditedOnce` and `PayoutLedgerImplemented`: from `PaidEvidence`, that a stored success, a
  notification with the right amount, a request about to record a success and a worker's answer of success
  each imply that the provider has paid out.

`MerchantRouting_proofs`
- `Invariance`: the inductive invariant `IInv` adds to `TypeOK` and `ServedByItsChannel` that commands name accounts
  (`CommandsNameAccounts`), that an absent attempt has no history (`AbsentUntouched`), that the account an attempt's channel is
  bound to now is one of its history, as is that of the snapshot, which is visible to the attempt's organization
  (`BindingInHistory`; without it a lookup could find any account), and that the account an operation under way holds is
  one of the history, and is there if the attempt was inserted with one (`OpsInHistory`).
- `ServedByChannel` and `StaysReachable` follow; the latter because the channel selection has asked for the
  organization of the snapshot's account, and resolving asks for nothing else that an operator could change but the status.

`Checkout_proofs`, of `CheckoutPool`
- `GateLeavesRoom`, `LostLockIsReported` and `PoolTypeCorrect`, for any capacity, hosts and requests. The inductive invariant
  `PoolInv` adds to `PoolTypeOK` that a host admits at most its permits, hence pins at most half of the pool, and that of
  the holders of one order's lock all but one have lost their sessions, so that whoever was overtaken has lost its session and
  its commit fails.

`Checkout_proofs`, of `ProviderCheckout`
- `OneTradeLives`, `SupersededIsNeverCharged`, `SupersededStaysClosed` and `TypeCorrect`, for any number of clients and
  attempts, at providers of either kind. `IInv` has three parts about the rows: `created` names what exists (`Rows`); at most one
  attempt is active and has a trade or a create call that nobody saw answered (`OneLive`, wider than `OneLiveTrade`,
  because such a call may still open a trade); what was superseded is
  inactive and, at a provider that cancels by the merchant number, has no trade (`Gone`). And it says what each request may rely on (`Sound`): what is live besides its target is what it has
  still to close, and nothing once it creates; the attempt it marks was closed; its target was not superseded
  since it looked under the lock. `Sound` is stated of a request's record, four sets of attempts and their order, so that a step of one request is
  carried over to the others by comparing these sets before and after. Requests under the lock are the same one;
  the others (`close_payment_record`, notifications, the worker, the clock) only take attempts out of the live ones.
- The attempt that is closed next is a member of what is left to close: `Earliest` is a minimum, whose existence is the lemma
  that a set of numbers that is not empty has a least member.

`MoneyPath_proofs`
- `DecimalRoundTrip`: a decimal written by `MinorToDecimal` reads back as the same smallest units, for every natural
  number; the lemmas below it are about division and remainder by 100.
- `MoneyInvariant`: `TypeOK`, and that order, attempt, trade, refund and payout carry one amount (`OrderRead`, `AttemptMeant`,
  `TradeCharges`, `Asked`), with the notices' properties. `ChargesWhatIsMeant`, `HonestNoticesSettle`,
  `ForeignNoticesRefused` and `RefundNoticesMatch` are its parts.

`WorkerCalls_proofs`, of `ProviderCalls`
- `OneRefundIsMade`, `SettledAttemptIsAlwaysTrue`, `AbsentRefundIsAlwaysAbsent`, `CallsImplementPayoutLedger` and `TypeCorrect`,
  for any of the providers, refund numbers, number of attempts and requests on the wire. `IInv` says of the refunds that each
  carries its number in its key and no two have one number (`RefundsAre`); of the trade that one that was paid is closed by its refunds only (`TradeIs`); of a
  request, on the wire or in the hands of a client, that it carries the key of its operation and number, and that a refund is
  about a settled attempt (`RequestIs`, which later steps cannot undo: a request that outlives its caller stays
  harmless); of a call that was answered that what it was told remains true until it is recorded (`CallIs`); and of
  what is recorded that it is true (`RecordIs`). The lemmas about `Answers` and `Reading` go through each provider's
  vocabulary; one of them is that reading a status twice, as the worker does, may lose it and never turns it into another.
- `AbsentRefundIsAlwaysAbsent` is an action property: of all steps only an answer from the provider can be read as "no such
  refund", and an unreadable answer or a lost one never is.
- `CallsImplementPayoutLedger`: the refunds the provider has finished are paid out (`PaidOut`), those recorded as succeeded are
  recorded. A step of the provider finishes at most one refund and undoes none; a step of a client or a notification
  records at most one, which was paid out because `RecordIs` holds after the step.

`WorkerCalls_proofs`, of `CompensationWorker`
- `FreshClaimsAlwaysDisjoint` and `WorkersTypeCorrect`, for any rows, tenants, workers and limits. The inductive invariant adds that
  only open transactions hold row locks and no row is locked twice (`LocksHeld`); that the rows of a batch are locked and as
  they were read while its transaction is open, and that none that was fresh still is once it has committed
  (`BatchesKnown`); and that no two batches share a row that was fresh for both (`FreshOnce`). Which of the due rows a claim
  takes plays no part in the argument.

`ProviderCredentials_proofs`
- `RotationsAlwaysSerialize`, `AlwaysFilledOnce` and `TypeCorrect`, for any accounts, requests, hosts, environments and crashes.
  The inductive invariant adds that a rotation holds its account's lock from its first read to its commit and a fill the
  bootstrap lock to its end (`Locking`); that the rows a rotation is about to commit are newer than all there are (`Staging`, from
  `NextIsNewer`: the next version exists, since the active row of a kind has the greatest); that a kind with rows has
  an active one (`SomeActive`); and that no host has filled an account that a host is filling (`Filling`, which
  needs `SomeActive`: a fill only looks for active rows).

- `LoadsAlwaysWhole`, `PassedTestAlwaysUsesAccount` and `FilledIsNeverDeployment`, from `LoadInv` beside `IInv`: a request has no
  secrets of its own before its commit (`NotYet`); an account that a host fills had no complete environment to fall back to
  (`FilledBare`); what has been read is rows of the account that is read (`SeenOwn`); and a verdict was passed on what had
  been loaded and is not read again (`Passed`). That a load sees all of a rotation or nothing rests on `RotationsSerialize`.

Checked by TLC only: the liveness properties (`NotifiedSuccessSettles`, `SettledRefundIsClosed`, `DecisionsAreRecorded`,
`CheckoutsEnd`), because liveness under fairness is out of the prover's reach. Every safety property of a passing run, invariant or
action property, is also proved, and so are the implementations of both ledgers.

## 7. Not modelled, and why

- Time: whether an attempt or an order has expired is a flag that the environment lowers, and the ages of the worker are four
  stages. The 15 minute limit, the deadline for the lock and the back-off between tries are "some time".
- Signatures, headers, HTTP, encryption of secrets, and the fields of a payload that no decision reads. The peeking at a
  notification, which finds its tenant and decides nothing. The decoding of columns, except for `callback_payload`
  in the contexts, whose reading as text is modelled by what it yields; of the NUMERIC `amount` beside it the models allow both outcomes.
  `record_rejected_provider_webhook_postgres` has no caller in the repository.
- Of accounts and channels: route rules, sub-merchants, changes of an account's merchant number or provider code
  (which the code permits at any time and which no snapshot protects against), lists. Payment methods and
  notification domains: single-statement configuration writes.
- The sandbox provider, which answers inside the request and keeps no trade; test payments of the back office but for
  their amount.
- The order in which row locks are taken, hence deadlocks that PostgreSQL breaks by aborting a transaction: planned, section 2.
  `mark_attempt_canceled_postgres` tests in a subquery that no attempt of the intent is left active, and two of
  them would not see each other; they run under the order's lock only, so this takes a lost session as well.
- The start of the service host but for its fill of credentials: connecting, migrations, the worker's task.
- Queries, lists and statistics: they change nothing.
- Web applications, SDKs, deployment files and generated code.
