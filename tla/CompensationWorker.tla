-------------------------- MODULE CompensationWorker --------------------------
(***************************************************************************)
(* The background workers that follow up on attempts and refunds whose     *)
(* provider callback was lost: one loop per API process, all sweeping the  *)
(* same tables.  A pass lists the tenants with something due, and for each *)
(* claims a batch of attempts, asks the provider about every one, and does *)
(* the same with refunds.                                                  *)
(*                                                                         *)
(* Rows are numbered in the order they were created.  Providers that the   *)
(* worker cannot ask (see ProviderCalls) are left out.                     *)
(***************************************************************************)
EXTENDS Naturals, Sequences, FiniteSets, Functions

CONSTANTS
    Workers,
    AttemptRows, RefundRows,  \* rows
    TenantOf,           \* row -> tenant, a number
    OrgOf,              \* row -> organization
    DefaultOrg,         \* organization '0'
    Old,                \* rows that are old enough from the start
    Sent,               \* rows that the provider has got from the original request
    TenantLimit,        \* tenant_limit
    RowLimit,           \* attempts_per_tenant, refunds_per_tenant
    MaxFaults          \* bound on worker crashes and failed claims

Rows == AttemptRows \cup RefundRows

ASSUME RowsAssumption == Rows \subseteq Nat /\ AttemptRows \cap RefundRows = {}
ASSUME TenantAssumption == TenantOf \in [Rows -> Nat]
ASSUME LimitAssumption == {TenantLimit, RowLimit} \subseteq Nat \ {0}
ASSUME FaultAssumption == MaxFaults \in Nat

VARIABLES
    status,     \* commerce_payment_attempt.status, commerce_refund.status
    age,        \* young, due, expired, or so long expired that it is not listed
    received,   \* the provider has the payment or the refund request
    decided,    \* what the provider has decided, for good
    worker,     \* what each worker is doing
    faults

workerVars == <<status, age, received, decided, worker, faults>>
rows == <<status, age, received, decided>>

Open(r) == status[r] \in {"pending", "submitted", "processing"}
Fresh == {"pending", "submitted"}

Resting == [phase |-> "idle", stage |-> "attempts", tenants |-> <<>>, due |-> {},
         batch |-> <<>>, locks |-> {}]

WorkerInit ==
    /\ status = [r \in Rows |-> IF r \in AttemptRows THEN "pending" ELSE "submitted"]
    /\ age = [r \in Rows |-> IF r \in Old THEN "due" ELSE "young"]
    /\ received = [r \in Rows |-> r \in Sent]
    /\ decided = {}
    /\ worker = [w \in Workers |-> Resting]
    /\ faults = 0

(***************************************************************************)
(* Time, the provider and its notifications.                               *)
(***************************************************************************)
NextAge(r) ==
    CASE age[r] = "young" -> {"due"}
      [] age[r] = "due" /\ r \in AttemptRows -> {"expired"}
      [] age[r] = "expired" -> {"forgotten"}
      [] OTHER -> {}

GrowOlder(r) ==
    /\ \E a \in NextAge(r) : age' = [age EXCEPT ![r] = a]
    /\ UNCHANGED <<status, received, decided, worker, faults>>

ProviderDecides(r) ==
    /\ received[r]
    /\ r \notin decided
    /\ decided' = decided \cup {r}
    /\ UNCHANGED <<status, age, received, worker, faults>>

Locked(r) == \E w \in Workers : r \in worker[w].locks

\* A settlement through the webhook path, which passes over rows that are final.
SettledRow(r) == [status EXCEPT ![r] = IF Open(r) /\ r \in decided THEN "settled" ELSE @]

\* A notification reports the decision.
Notification(r) ==
    /\ r \in decided
    /\ Open(r)
    /\ ~Locked(r)
    /\ status' = SettledRow(r)
    /\ UNCHANGED <<age, received, decided, worker, faults>>

(***************************************************************************)
(* A pass.                                                                 *)
(***************************************************************************)
\* list_due_compensation_tenants_postgres.  Expiry is compared with the time a
\* row has to be old, so an attempt counts for a while after it has expired,
\* and rows of every organization count.
Listed ==
    { TenantOf[r] : r \in { q \in Rows : Open(q) /\ age[q] \in {"due", "expired"} } }

\* A bug: one more than the limit.
Oldest_OneMore(S, n) ==
    { s \in UNION { [1 .. k -> S] : k \in 0 .. n + 1 } :
        /\ \A i, j \in DOMAIN s : i < j => s[i] < s[j]
        /\ \A x \in S \ Range(s) : Len(s) = n + 1 /\ \A i \in DOMAIN s : s[i] < x }

\* ORDER BY ... LIMIT n: the (one) sequence of the n smallest of S.
Oldest(S, n) ==
    { s \in UNION { [1 .. k -> S] : k \in 0 .. n } :
        /\ \A i, j \in DOMAIN s : i < j => s[i] < s[j]
        /\ \A x \in S \ Range(s) : Len(s) = n /\ \A i \in DOMAIN s : s[i] < x }

\* run_payment_compensation_pass: the tenants, and the rows that are due at the
\* time the claims of the pass are compared with.  The worker passes no
\* organization, which selects the default one.
DueOf(tenants) ==
    { r \in Rows : age[r] = "due" /\ TenantOf[r] \in Range(tenants) /\ OrgOf[r] = DefaultOrg }

StartPass(w) ==
    /\ worker[w].phase = "idle"
    /\ Listed # {}
    /\ \E tenants \in Oldest(Listed, TenantLimit) :
          worker' = [worker EXCEPT ![w] =
                        [Resting EXCEPT !.phase = "claim", !.tenants = tenants, !.due = DueOf(tenants)]]
    /\ UNCHANGED <<rows, faults>>

Stage(w) == IF worker[w].stage = "attempts" THEN AttemptRows ELSE RefundRows

\* A bug: rows that another worker is claiming are claimed too.
Claimable_Locked(w, r) ==
    /\ r \in Stage(w)
    /\ TenantOf[r] = Head(worker[w].tenants)
    /\ Open(r)
    /\ r \in worker[w].due

\* A bug: a row is claimed only while it is fresh.
Claimable_FreshOnly(w, r) ==
    /\ r \in Stage(w)
    /\ TenantOf[r] = Head(worker[w].tenants)
    /\ status[r] \in Fresh
    /\ r \in worker[w].due
    /\ ~Locked(r)

\* The condition of both claim queries, with SKIP LOCKED.
Claimable(w, r) ==
    /\ r \in Stage(w)
    /\ TenantOf[r] = Head(worker[w].tenants)
    /\ Open(r)
    /\ r \in worker[w].due
    /\ ~Locked(r)

\* SELECT ... ORDER BY created_at LIMIT n FOR UPDATE SKIP LOCKED.
ClaimSelect(w) ==
    /\ worker[w].phase = "claim"
    /\ \E first \in Oldest({ r \in Rows : Claimable(w, r) }, RowLimit) :
          worker' = [worker EXCEPT ![w].phase = "mark",
                                   ![w].batch = [i \in DOMAIN first |-> [row |-> first[i],
                                                                         status |-> status[first[i]]]],
                                   ![w].locks = Range(first)]
    /\ UNCHANGED <<rows, faults>>

\* The UPDATE of the fresh rows.
Marked(w) ==
    [r \in Rows |-> IF r \in worker[w].locks /\ status[r] \in Fresh THEN "processing" ELSE status[r]]

\* The UPDATE and the commit.
ClaimMark(w) ==
    /\ worker[w].phase = "mark"
    /\ status' = Marked(w)
    /\ worker' = [worker EXCEPT ![w].phase = "work", ![w].locks = {}]
    /\ UNCHANGED <<age, received, decided, faults>>

\* The claim fails: this stage of the tenant is given up.
ClaimFails(w) ==
    /\ worker[w].phase \in {"claim", "mark"}
    /\ faults < MaxFaults
    /\ faults' = faults + 1
    /\ worker' = [worker EXCEPT ![w].phase = "work", ![w].batch = <<>>, ![w].locks = {}]
    /\ UNCHANGED rows

\* What is left of the batch, the stages and the tenants after a row or a stage.
Continue(w) ==
    LET v == worker[w]
    IN  CASE v.batch # <<>> -> [v EXCEPT !.batch = Tail(@)]
          [] v.batch = <<>> /\ v.stage = "attempts" ->
                [v EXCEPT !.stage = "refunds", !.phase = "claim", !.due = @ \ AttemptRows]
          [] v.batch = <<>> /\ v.stage = "refunds" /\ Len(v.tenants) > 1 ->
                [v EXCEPT !.stage = "attempts", !.phase = "claim", !.tenants = Tail(@)]
          [] OTHER -> Resting

\* The stage is done.
EndStage(w) ==
    /\ worker[w].phase = "work"
    /\ worker[w].batch = <<>>
    /\ worker' = [worker EXCEPT ![w] = Continue(w)]
    /\ UNCHANGED <<rows, faults>>

Working(w, r, claimed) ==
    /\ worker[w].phase = "work"
    /\ worker[w].batch # <<>>
    /\ Head(worker[w].batch).row = r
    /\ claimed <=> Head(worker[w].batch).status = "submitted"
    /\ worker' = [worker EXCEPT ![w] = Continue(w)]
    /\ faults' = faults

\* reconcile_attempt, query_refund: the provider knows the row and answers.
Query(w, r) ==
    /\ Working(w, r, FALSE)
    /\ received[r]
    /\ ~Locked(r)
    /\ status' = SettledRow(r)
    /\ UNCHANGED <<age, received, decided>>

\* submit_refund: the refund is sent with the key of the first submission, and
\* the answer says what has become of it.  (An accepted refund is also marked as
\* processing, which it is already, or revived if it has failed meanwhile: see
\* RefundReservation.)
Submit(w, r) ==
    /\ Working(w, r, TRUE)
    /\ ~Locked(r)
    /\ received' = [received EXCEPT ![r] = TRUE]
    /\ status' = SettledRow(r)
    /\ UNCHANGED <<age, decided>>

\* The answer to a submission is lost.
SubmitUnheard(w, r) ==
    /\ Working(w, r, TRUE)
    /\ received' = [received EXCEPT ![r] = TRUE]
    /\ UNCHANGED <<status, age, decided>>

\* The account is not usable, the call fails, or nothing is known of the row.
WorkFails(w, r) ==
    /\ \E claimed \in BOOLEAN : Working(w, r, claimed)
    /\ UNCHANGED rows

\* The process of a worker ends and another one starts; locks of an open
\* transaction go with it.
Crash(w) ==
    /\ worker[w].phase # "idle"
    /\ faults < MaxFaults
    /\ faults' = faults + 1
    /\ worker' = [worker EXCEPT ![w] = Resting]
    /\ UNCHANGED rows

WorkerNext ==
    \/ \E r \in Rows : GrowOlder(r) \/ ProviderDecides(r) \/ Notification(r)
    \/ \E w \in Workers :
        \/ StartPass(w) \/ ClaimSelect(w) \/ ClaimMark(w) \/ ClaimFails(w) \/ EndStage(w) \/ Crash(w)
        \/ \E r \in Rows : Query(w, r) \/ WorkFails(w, r)
        \/ \E r \in RefundRows : Submit(w, r) \/ SubmitUnheard(w, r)

WorkerSpec == WorkerInit /\ [][WorkerNext]_workerVars

Step(w) ==
    \/ StartPass(w) \/ ClaimSelect(w) \/ ClaimMark(w) \/ EndStage(w)
    \/ \E r \in Rows : Query(w, r) \/ WorkFails(w, r)
    \/ \E r \in RefundRows : Submit(w, r)

\* A worker goes on with its pass, the queries of a row do not fail for ever, time
\* passes and providers decide.
Fairness ==
    /\ \A w \in Workers : WF_workerVars(Step(w))
    /\ \A r \in Rows :
        /\ WF_workerVars(age[r] \in {"young", "expired"} /\ GrowOlder(r))
        /\ WF_workerVars(ProviderDecides(r))
        /\ SF_workerVars(\E w \in Workers : Query(w, r))

FairWorkerSpec == WorkerSpec /\ Fairness

(***************************************************************************)
(* Properties.                                                             *)
(***************************************************************************)
WorkerTypeOK ==
    /\ status \in [Rows -> Fresh \cup {"processing", "settled"}]
    /\ age \in [Rows -> {"young", "due", "expired", "forgotten"}]
    /\ received \in [Rows -> BOOLEAN]
    /\ decided \subseteq Rows
    /\ \A w \in Workers : Len(worker[w].batch) <= RowLimit /\ Len(worker[w].tenants) <= TenantLimit
    /\ faults \in 0..MaxFaults

InBatch(w, r, s) == \E i \in DOMAIN worker[w].batch : worker[w].batch[i] = [row |-> r, status |-> s]

\* "Workers sweeping at the same moment receive disjoint batches and never both
\* flip the same fresh row" (claim module): a row that one worker took while it
\* was fresh is in no other batch as fresh, and is not fresh any more once the
\* worker turns to it.  So the workers together send a refund at most once.
FreshClaimsAreDisjoint ==
    \A w \in Workers, r \in Rows, s \in Fresh : InBatch(w, r, s) =>
        /\ \A v \in Workers \ {w} : ~InBatch(v, r, s)
        /\ worker[w].phase = "work" => status[r] \notin Fresh

\* A claimed refund that nobody has sent and nobody will send.
Lost(r) ==
    /\ r \in RefundRows
    /\ status[r] = "processing"
    /\ ~received[r]
    /\ \A w \in Workers : ~InBatch(w, r, "submitted")

Served == { r \in Rows : OrgOf[r] = DefaultOrg }

\* What the provider has decided about a row of the default organization is
\* recorded in the end, unless an attempt expires first or a claimed refund is
\* lost.  Oldest-first claims of limited size delay a row; they do not starve it,
\* as every row ahead of it is decided some day.
DecisionsAreRecorded ==
    \A r \in Served :
        r \in decided ~> \/ status[r] = "settled"
                        \/ age[r] \in {"expired", "forgotten"}
                        \/ \E q \in RefundRows : Lost(q)
=============================================================================
