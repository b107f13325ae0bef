---------------------- MODULE RefundSubmission_proofs ----------------------
(***************************************************************************)
(* Proofs about RefundSubmission for every set of refunds, requests,       *)
(* workers and retry keys and any number of requests.  A step either opens *)
(* rows (a new row, a claim) or moves one row to a status that a provider  *)
(* reported, with its audit event (RowStep); a success moves a row only on *)
(* evidence of the payout (PaidEvidence).                                  *)
(***************************************************************************)
EXTENDS RefundSubmission, FiniteSetTheorems, TLAPS

-----------------------------------------------------------------------------
(***************************************************************************)
(* Type correctness.                                                       *)
(***************************************************************************)

\* Initially there are no rows, no calls and no refunds at the provider.
LEMMA InitTyped == Init => TypeOK
  BY BoundAssumption DEF Init, TypeOK, ProviderStates, Unknown

\* A notification of the provider's new state is a notice.
LEMMA NotifiesTyped ==
    ASSUME TypeOK, NEW r \in Refunds, NEW s \in RefundTargets, Notifies(r, s)
    PROVE  notices' \subseteq Notices
  <1>1. [refund |-> r, state |-> s, agrees |-> TRUE] \in Notices
    BY Zenon DEF Notices
  <1> QED
    BY <1>1 DEF TypeOK, Notifies

\* A create at the provider keeps its refunds and notices typed.
LEMMA CreatesTyped ==
    ASSUME TypeOK, NEW r \in Refunds, NEW s \in RefundTargets, ProviderCreates(r, s)
    PROVE  provider' \in [Refunds -> ProviderStates] /\ notices' \subseteq Notices
  BY NotifiesTyped DEF TypeOK, ProviderCreates, ProviderStates

\* A notification keeps rows and events typed.
LEMMA WebhookTyped ==
    ASSUME TypeOK, NEW r \in Refunds, NEW s \in RefundTargets, NEW agrees \in BOOLEAN,
           ApplyWebhookRefundStatus(r, s, agrees)
    PROVE  status' \in [Refunds -> RefundStatuses \cup {NoRow}] /\ audit' \subseteq Events
  <1>1. CASE ~WebhookMoves(r, s, agrees)
    BY <1>1 DEF ApplyWebhookRefundStatus, TypeOK
  <1>2. CASE WebhookMoves(r, s, agrees)
    <2>1. status[r] \in RefundStatuses
      BY <1>2 DEF WebhookMoves, Exists, TypeOK
    <2>2. WebhookEvent(r, s) \subseteq Events
      BY <2>1 DEF WebhookEvent, Events
    <2>3. status' \in [Refunds -> RefundStatuses \cup {NoRow}]
      BY <1>2 DEF ApplyWebhookRefundStatus, TypeOK, RefundTargets, RefundStatuses
    <2> QED
      BY <1>2, <2>2, <2>3 DEF ApplyWebhookRefundStatus, TypeOK
  <1> QED BY <1>1, <1>2

\* What Proceeds makes of a row read is a request in flight.
LEMMA ProceedsTyped ==
    ASSUME TypeOK, NEW h \in Handlers, NEW r \in Refunds, NEW k \in Keys, NEW seen,
           NEW integer \in BOOLEAN, Proceeds(h, r, k, seen, integer) \/ UNCHANGED request
    PROVE  request' \in [Handlers -> RequestsInFlight \cup {Idle}]
  <1>1. /\ [phase |-> "claim", refund |-> r, key |-> k, integer |-> TRUE, outcome |-> None]
                \in RequestsInFlight
        /\ [phase |-> "query", refund |-> r, key |-> k, integer |-> integer, outcome |-> None]
                \in RequestsInFlight
    BY Zenon DEF RequestsInFlight
  <1> QED
    BY <1>1 DEF TypeOK, Proceeds, Goes

\* A request that hears a final answer records it, any other ends.
LEMMA AnsweredTyped ==
    ASSUME TypeOK, NEW h \in Handlers, request[h] \in RequestsInFlight,
           NEW s \in RefundTargets, Answered(h, s)
    PROVE  request' \in [Handlers -> RequestsInFlight \cup {Idle}]
  <1>1. CASE Outcome(s) = None
    BY <1>1 DEF Answered, TypeOK
  <1>2. CASE Outcome(s) # None
    <2>1. Outcome(s) \in {"succeeded", "failed"}
      BY <1>2 DEF Outcome, RefundTargets
    <2> QED
      BY <1>2, <2>1 DEF Answered, TypeOK, RequestsInFlight
  <1> QED BY <1>1, <1>2

\* A step of a worker leaves claims of its batch, or drops one.
LEMMA DropsTyped ==
    ASSUME TypeOK, NEW w \in Workers, NEW c, Drops(w, c)
    PROVE  claimed' \in [Workers -> SUBSET Claims]
  BY DEF TypeOK, Drops

\* What a worker hears about a refund of its batch is an answer.
LEMMA HearsTyped ==
    ASSUME TypeOK, NEW w \in Workers, NEW c \in Claims, NEW says \in RefundTargets \cup {"unmapped"},
           Hears(w, c, says) \/ UNCHANGED answer
    PROVE  answer' \in [Workers -> Answers \cup {NoAnswer}]
  BY DEF TypeOK, Hears, Claims, Answers

\* The provider's steps.
LEMMA ProviderTyped == TypeOK /\ ProviderStep => TypeOK'
  <1> SUFFICES ASSUME TypeOK, ProviderStep PROVE TypeOK'
    OBVIOUS
  <1>1. ASSUME NEW r \in Refunds, NEW s \in {"succeeded", "failed"}, ProviderSettles(r, s)
        PROVE  TypeOK'
    <2>1. s \in RefundTargets
      BY DEF RefundTargets
    <2>2. provider' \in [Refunds -> ProviderStates] /\ notices' \subseteq Notices
      BY <1>1, <2>1, NotifiesTyped DEF ProviderSettles, TypeOK, ProviderStates
    <2> QED
      BY <1>1, <2>2 DEF ProviderSettles, TypeOK, calls, workers
  <1>2. ASSUME NEW r \in Refunds, NEW s \in Misrouted, ProviderMisroutes(r, s) PROVE TypeOK'
    <2>1. [refund |-> r, state |-> s, agrees |-> FALSE] \in Notices
      <3>1. s \in RefundTargets
        BY MisroutedAssumption
      <3> QED
        BY <3>1, Zenon DEF Notices
    <2> QED
      BY <1>2, <2>1 DEF ProviderMisroutes, TypeOK, calls, workers
  <1> QED
    BY <1>1, <1>2 DEF ProviderStep

\* The steps of requests.
LEMMA RequestTyped == TypeOK /\ RequestStep => TypeOK'
  <1> SUFFICES ASSUME TypeOK, RequestStep PROVE TypeOK'
    OBVIOUS
  <1>0. ASSUME NEW h \in Handlers, request[h] # Idle
        PROVE  /\ request[h] \in RequestsInFlight
               /\ request[h].refund \in Refunds
               /\ request[h].key \in Keys
               /\ request[h].phase = "record" => request[h].outcome \in {"succeeded", "failed"}
    <2>1. request[h] \in RequestsInFlight
      BY <1>0 DEF TypeOK
    <2> QED
      BY <2>1 DEF RequestsInFlight
  <1>1. ASSUME NEW h \in Handlers, NEW r \in Refunds, CreateOwnerRefund(h, r) PROVE TypeOK'
    <2>1. CreateKey \in Keys /\ TRUE \in BOOLEAN
      BY DEF Keys
    <2>2. request' \in [Handlers -> RequestsInFlight \cup {Idle}]
      BY <1>1, <2>1, ProceedsTyped DEF CreateOwnerRefund
    <2>3. status' \in [Refunds -> RefundStatuses \cup {NoRow}]
      BY <1>1 DEF CreateOwnerRefund, TypeOK, RefundStatuses
    <2>4. begun' \in 0..MaxRequests
      BY <1>1, BoundAssumption DEF CreateOwnerRefund, TypeOK
    <2> QED
      BY <1>1, <2>2, <2>3, <2>4 DEF CreateOwnerRefund, TypeOK, workers
  <1>2. ASSUME NEW h \in Handlers, NEW r \in Refunds, NEW k \in RetryKeys, RetryRefund(h, r, k)
        PROVE  TypeOK'
    <2>1. k \in Keys /\ FALSE \in BOOLEAN
      BY DEF Keys
    <2>2. request' \in [Handlers -> RequestsInFlight \cup {Idle}]
      BY <1>2, <2>1, ProceedsTyped DEF RetryRefund
    <2>3. begun' \in 0..MaxRequests
      BY <1>2, BoundAssumption DEF RetryRefund, TypeOK
    <2> QED
      BY <1>2, <2>2, <2>3 DEF RetryRefund, TypeOK, workers
  <1>3. ASSUME NEW h \in Handlers, ClaimSubmission(h) PROVE TypeOK'
    <2> DEFINE r == request[h].refund
    <2>1. request[h] # Idle
      BY <1>3 DEF ClaimSubmission, Idle
    <2>2. r \in Refunds /\ request[h].key \in Keys
      BY <1>0, <2>1
    <2>3. request' \in [Handlers -> RequestsInFlight \cup {Idle}]
      <3>1. [phase |-> "query", refund |-> r, key |-> request[h].key,
             integer |-> TRUE, outcome |-> None] \in RequestsInFlight
        BY <2>2, Zenon DEF RequestsInFlight
      <3> QED
        BY <1>3, <3>1 DEF ClaimSubmission, Goes, TypeOK
    <2>4. status' \in [Refunds -> RefundStatuses \cup {NoRow}]
      BY <1>3 DEF ClaimSubmission, TypeOK, RefundStatuses
    <2> QED
      BY <1>3, <2>3, <2>4 DEF ClaimSubmission, TypeOK, workers
  <1>4. ASSUME NEW h \in Handlers, QueryProviderRefund(h) PROVE TypeOK'
    <2> DEFINE r == request[h].refund
    <2>1. request[h] # Idle
      BY <1>4 DEF QueryProviderRefund, Idle
    <2>2. request[h] \in RequestsInFlight /\ r \in Refunds
      BY <1>0, <2>1
    <2>3. request' \in [Handlers -> RequestsInFlight \cup {Idle}]
      <3>0. [request[h] EXCEPT !.phase = "create"] \in RequestsInFlight
        BY <1>4, <2>2 DEF QueryProviderRefund, RequestsInFlight
      <3>1. CASE provider[r] # Unknown
        <4>1. provider[r] \in RefundTargets
          BY <2>2, <3>1 DEF TypeOK, ProviderStates
        <4> QED
          BY <1>4, <2>2, <3>1, <4>1, AnsweredTyped DEF QueryProviderRefund
      <3>2. CASE provider[r] = Unknown /\ request[h].integer
        BY <1>4, <3>0, <3>2 DEF QueryProviderRefund, TypeOK
      <3>3. CASE provider[r] = Unknown /\ ~request[h].integer
        BY <1>4, <2>2, <3>3, AnsweredTyped DEF QueryProviderRefund, RefundTargets
      <3> QED BY <3>1, <3>2, <3>3
    <2> QED
      BY <1>4, <2>3 DEF QueryProviderRefund, TypeOK, workers
  <1>5. ASSUME NEW h \in Handlers, NEW s \in RefundTargets,
               NEW reply \in {"arrives", "lost", "malformed"}, CreateProviderRefund(h, s, reply)
        PROVE  TypeOK'
    <2>1. request[h] # Idle
      BY <1>5 DEF CreateProviderRefund, Idle
    <2>2. request[h] \in RequestsInFlight /\ request[h].refund \in Refunds
      BY <1>0, <2>1
    <2>3. request' \in [Handlers -> RequestsInFlight \cup {Idle}]
      <3>0. [request[h] EXCEPT !.phase = "query"] \in RequestsInFlight
        BY <1>5, <2>2 DEF CreateProviderRefund, RequestsInFlight
      <3>1. CASE Answered(h, s)
        BY <2>2, <3>1, AnsweredTyped
      <3>2. CASE Answered(h, "failed")
        BY <2>2, <3>2, AnsweredTyped DEF RefundTargets
      <3>3. CASE request' = [request EXCEPT ![h].phase = "query"]
        BY <3>0, <3>3 DEF TypeOK
      <3> QED
        BY <1>5, <3>1, <3>2, <3>3 DEF CreateProviderRefund
    <2>4. provider' \in [Refunds -> ProviderStates] /\ notices' \subseteq Notices
      BY <1>5, <2>2, CreatesTyped DEF CreateProviderRefund
    <2> QED
      BY <1>5, <2>3, <2>4 DEF CreateProviderRefund, TypeOK, workers
  <1>6. ASSUME NEW h \in Handlers, SubmissionRefused(h) PROVE TypeOK'
    <2>1. request[h] # Idle
      BY <1>6 DEF SubmissionRefused, Idle
    <2>2. request' \in [Handlers -> RequestsInFlight \cup {Idle}]
      BY <1>0, <1>6, <2>1, AnsweredTyped DEF SubmissionRefused, RefundTargets
    <2> QED
      BY <1>6, <2>2 DEF SubmissionRefused, TypeOK, workers
  <1>7. ASSUME NEW h \in Handlers, RecordOutcome(h) PROVE TypeOK'
    <2> DEFINE q == request[h]
    <2>1. q # Idle
      BY <1>7 DEF RecordOutcome, Idle
    <2>2. q.refund \in Refunds /\ q.key \in Keys
      BY <1>0, <2>1
    <2>3. request' \in [Handlers -> RequestsInFlight \cup {Idle}]
      BY <1>7 DEF RecordOutcome, TypeOK
    <2>4. CASE MayMarkTerminal(q.refund, q.outcome)
      <3>1. q.outcome \in {"succeeded", "failed"}
        BY <1>0, <1>7, <2>1 DEF RecordOutcome
      <3>2. [refund |-> q.refund, type |-> q.outcome, key |-> q.key] \in Events
        BY <2>2, <3>1 DEF Events
      <3>3. status' \in [Refunds -> RefundStatuses \cup {NoRow}]
        BY <1>7, <2>4, <3>1 DEF RecordOutcome, TypeOK, RefundStatuses
      <3> QED
        BY <1>7, <2>3, <2>4, <3>2, <3>3 DEF RecordOutcome, TypeOK, workers
    <2>5. CASE ~MayMarkTerminal(q.refund, q.outcome)
      BY <1>7, <2>3, <2>5 DEF RecordOutcome, TypeOK, workers
    <2> QED BY <2>4, <2>5
  <1>8. ASSUME NEW h \in Handlers, RequestEnds(h) PROVE TypeOK'
    BY <1>8 DEF RequestEnds, TypeOK, workers
  <1> QED
    BY <1>1, <1>2, <1>3, <1>4, <1>5, <1>6, <1>7, <1>8 DEF RequestStep

\* The steps of workers.
LEMMA WorkerTyped == TypeOK /\ WorkerStep => TypeOK'
  <1> SUFFICES ASSUME TypeOK, WorkerStep PROVE TypeOK'
    OBVIOUS
  <1>0. ASSUME NEW w \in Workers, NEW c \in claimed[w]
        PROVE  c \in Claims /\ c.refund \in Refunds
    BY DEF TypeOK, Claims
  <1>1. ASSUME NEW w \in Workers, Claim(w) PROVE TypeOK'
    <2>1. PICK due \in SUBSET {r \in Refunds : Claimable(r)} : ClaimDueRefunds(w, due)
      BY <1>1 DEF Claim
    <2>2. {[refund |-> r, seen |-> status[r]] : r \in due} \subseteq Claims
      BY DEF Claimable, IsOpen, Claims
    <2>3. status' \in [Refunds -> RefundStatuses \cup {NoRow}]
      BY <2>1 DEF ClaimDueRefunds, TypeOK, RefundStatuses
    <2>4. claimed' \in [Workers -> SUBSET Claims]
      BY <2>1, <2>2 DEF ClaimDueRefunds, TypeOK
    <2> QED
      BY <2>1, <2>3, <2>4 DEF ClaimDueRefunds, TypeOK, calls
  <1>2. ASSUME NEW w \in Workers, NEW c \in claimed[w], NEW s \in RefundTargets,
               NEW reply \in {"arrives", "unmapped", "lost", "malformed"},
               SubmitRefund(w, c, s, reply)
        PROVE  TypeOK'
    <2>1. provider' \in [Refunds -> ProviderStates] /\ notices' \subseteq Notices
      BY <1>0, <1>2, CreatesTyped DEF SubmitRefund
    <2>2. claimed' \in [Workers -> SUBSET Claims]
      BY <1>2, DropsTyped DEF SubmitRefund
    <2>3. answer' \in [Workers -> Answers \cup {NoAnswer}]
      BY <1>0, <1>2, HearsTyped DEF SubmitRefund
    <2> QED
      BY <1>2, <2>1, <2>2, <2>3 DEF SubmitRefund, TypeOK, calls
  <1>3. ASSUME NEW w \in Workers, NEW c \in claimed[w], QueryRefund(w, c) PROVE TypeOK'
    <2>1. claimed' \in [Workers -> SUBSET Claims]
      BY <1>3, DropsTyped DEF QueryRefund
    <2>2. answer' \in [Workers -> Answers \cup {NoAnswer}]
      <3>1. CASE provider[c.refund] \in {Unknown, c.seen}
        BY <1>3, <3>1 DEF QueryRefund, TypeOK
      <3>2. CASE provider[c.refund] \notin {Unknown, c.seen}
        <4>1. provider[c.refund] \in RefundTargets
          BY <1>0, <3>2 DEF TypeOK, ProviderStates
        <4> QED
          BY <1>0, <1>3, <3>2, <4>1, HearsTyped DEF QueryRefund
      <3> QED BY <3>1, <3>2
    <2> QED
      BY <1>3, <2>1, <2>2 DEF QueryRefund, TypeOK, calls
  <1>4. ASSUME NEW w \in Workers, NEW c \in Claims, ProviderUnavailable(w, c) PROVE TypeOK'
    <2>1. claimed' \in [Workers -> SUBSET Claims]
      BY <1>4, DropsTyped DEF ProviderUnavailable
    <2> QED
      BY <1>4, <2>1 DEF ProviderUnavailable, TypeOK, calls
  <1>5. ASSUME NEW w \in Workers, RecordAnswer(w) PROVE TypeOK'
    <2> DEFINE r == answer[w].refund
    <2>1. r \in Refunds /\ answer[w].says \in RefundTargets \cup {"unmapped"}
      BY <1>5 DEF RecordAnswer, TypeOK, Answers
    <2>2. status' \in [Refunds -> RefundStatuses \cup {NoRow}] /\ audit' \subseteq Events
      <3>1. CASE answer[w].says = "unmapped"
        BY <1>5, <3>1 DEF RecordAnswer, TypeOK, RefundStatuses
      <3>2. CASE answer[w].says # "unmapped"
        <4>1. TRUE \in BOOLEAN
          OBVIOUS
        <4> QED
          BY <1>5, <2>1, <3>2, <4>1, WebhookTyped DEF RecordAnswer
      <3> QED BY <3>1, <3>2
    <2>3. answer' \in [Workers -> Answers \cup {NoAnswer}]
      BY <1>5 DEF RecordAnswer, TypeOK
    <2> QED
      BY <1>5, <2>2, <2>3 DEF RecordAnswer, TypeOK, calls
  <1>6. ASSUME NEW w \in Workers, WorkerStops(w) PROVE TypeOK'
    BY <1>6 DEF WorkerStops, TypeOK, calls
  <1> QED
    BY <1>1, <1>2, <1>3, <1>4, <1>5, <1>6 DEF WorkerStep, WorkerCalls

\* Every step keeps the types.
LEMMA NextTyped == TypeOK /\ [Next]_vars => TypeOK'
  <1> SUFFICES ASSUME TypeOK, [Next]_vars PROVE TypeOK'
    OBVIOUS
  <1>1. ASSUME NEW n \in Notices, IngestProviderRefundWebhook(n) PROVE TypeOK'
    <2>1. n.refund \in Refunds /\ n.state \in RefundTargets /\ n.agrees \in BOOLEAN
      BY Zenon DEF Notices
    <2>2. status' \in [Refunds -> RefundStatuses \cup {NoRow}] /\ audit' \subseteq Events
      BY <1>1, <2>1, WebhookTyped DEF IngestProviderRefundWebhook
    <2> QED
      BY <1>1, <2>2 DEF IngestProviderRefundWebhook, TypeOK, calls, workers
  <1>2. CASE UNCHANGED vars
    BY <1>2 DEF vars, TypeOK, calls, workers
  <1> QED
    BY <1>1, <1>2, ProviderTyped, RequestTyped, WorkerTyped DEF Next

\* Rows, audit events, calls and answers are well typed; only final answers of the
\* provider are ever about to be recorded by a request.
THEOREM TypeCorrect == Spec => []TypeOK
  BY InitTyped, NextTyped, PTL DEF Spec

-----------------------------------------------------------------------------
(***************************************************************************)
(* What a step does to the rows.                                           *)
(***************************************************************************)

\* Rows appear, or are claimed as processing; nothing is audited.
Opens ==
    /\ audit' = audit
    /\ \A r \in Refunds :
          \/ status'[r] = status[r]
          \/ status[r] = NoRow /\ status'[r] = "submitted"
          \/ status[r] \in {"submitted", "failed"} /\ status'[r] = "processing"

\* Whether an event of the trail tells of a success.
TellsSuccess(e) ==
    e.type = "succeeded" \/ (e.type = "status_changed" /\ e.key[2] = "succeeded")

\* One existing row that is not final moves to a status the provider reported, with
\* the event of that transition.
Settles(r, to) ==
    /\ Exists(r)
    /\ status[r] # "succeeded"
    /\ status' = [status EXCEPT ![r] = to]
    /\ provider' = provider
    /\ to = "processing" => audit' = audit
    /\ to # "processing" =>
          \E e \in Events : /\ e.refund = r
                            /\ TellsSuccess(e) <=> to = "succeeded"
                            /\ audit' = audit \cup {e}

\* What the record of a success rests on: the provider's state, a notification with
\* the refund's amount, an answer to a request or to a worker.
PaidEvidence ==
    /\ \A r \in Refunds : status[r] = "succeeded" => provider[r] = "succeeded"
    /\ \A n \in notices : n.state = "succeeded" /\ n.agrees => provider[n.refund] = "succeeded"
    /\ \A h \in Handlers : request[h].outcome = "succeeded" =>
          provider[request[h].refund] = "succeeded"
    /\ \A w \in Workers : answer[w].says = "succeeded" =>
          provider[answer[w].refund] = "succeeded"

\* The kinds of step; a success is recorded of a refund that has been paid out.
RowStep ==
    \/ Opens
    \/ \E r \in Refunds, to \in RefundTargets :
          /\ Settles(r, to)
          /\ to = "succeeded" => provider[r] = "succeeded"

\* No edge of the machine leaves Succeeded.
LEMMA SucceededHasNoEdge ==
    ASSUME NEW to \in RefundTargets, RefundMayTransition("succeeded", to)
    PROVE  to = "succeeded"
  BY DEF RefundTargets, RefundMayTransition, RefundEdges, RefundFromWire, RefundStatuses

\* A notification that agrees or does not claim a success is a row step.
LEMMA WebhookIsRowStep ==
    ASSUME TypeOK, NEW r \in Refunds, NEW s \in RefundTargets, NEW agrees,
           s = "succeeded" /\ agrees => provider[r] = "succeeded",
           ApplyWebhookRefundStatus(r, s, agrees), provider' = provider
    PROVE  RowStep
  <1>1. CASE ~WebhookMoves(r, s, agrees)
    BY <1>1 DEF ApplyWebhookRefundStatus, RowStep, Opens
  <1>2. CASE WebhookMoves(r, s, agrees)
    <2>1. status[r] \in RefundStatuses /\ status[r] # "succeeded"
      BY <1>2, SucceededHasNoEdge DEF WebhookMoves, Exists, TypeOK
    <2>2. s = "succeeded" => provider[r] = "succeeded"
      BY <1>2 DEF WebhookMoves, Refuses
    <2> DEFINE e == [refund |-> r, type |-> "status_changed", key |-> <<status[r], s>>]
    <2>3. e \in Events /\ e.refund = r /\ (TellsSuccess(e) <=> s = "succeeded")
      BY <2>1 DEF Events, TellsSuccess
    <2>4. s # "processing" => audit' = audit \cup {e}
      BY <1>2 DEF ApplyWebhookRefundStatus, WebhookEvent
    <2>5. s = "processing" => audit' = audit
      BY <1>2 DEF ApplyWebhookRefundStatus, WebhookEvent
    <2>6. Settles(r, s)
      <3> HIDE DEF e
      <3> QED
        BY <1>2, <2>1, <2>3, <2>4, <2>5 DEF Settles, ApplyWebhookRefundStatus, WebhookMoves
    <2> QED
      BY <2>2, <2>6 DEF RowStep
  <1> QED BY <1>1, <1>2

\* Every step is a row step.
LEMMA NextIsRowStep == TypeOK /\ PaidEvidence /\ [Next]_vars => RowStep
  <1> SUFFICES ASSUME TypeOK, PaidEvidence, [Next]_vars PROVE RowStep
    OBVIOUS
  <1>1. CASE UNCHANGED vars
    BY <1>1 DEF vars, RowStep, Opens
  <1>2. CASE ProviderStep
    BY <1>2 DEF ProviderStep, ProviderSettles, ProviderMisroutes, RowStep, Opens
  <1>3. CASE RequestStep
    <2>1. ASSUME NEW h \in Handlers, NEW r \in Refunds, CreateOwnerRefund(h, r) PROVE Opens
      BY <2>1 DEF CreateOwnerRefund, Opens, TypeOK, Exists
    <2>2. ASSUME NEW h \in Handlers, NEW r \in Refunds, NEW k \in RetryKeys,
                 RetryRefund(h, r, k)
          PROVE  Opens
      BY <2>2 DEF RetryRefund, Opens
    <2>3. ASSUME NEW h \in Handlers, ClaimSubmission(h) PROVE Opens
      BY <2>3 DEF ClaimSubmission, MayMarkProcessing, Opens, TypeOK
    <2>4. ASSUME NEW h \in Handlers, NEW s, NEW reply,
                 \/ QueryProviderRefund(h)
                 \/ CreateProviderRefund(h, s, reply)
                 \/ SubmissionRefused(h)
                 \/ RequestEnds(h)
          PROVE  Opens
      BY <2>4 DEF QueryProviderRefund, CreateProviderRefund, SubmissionRefused, RequestEnds, Opens
    <2>5. ASSUME NEW h \in Handlers, RecordOutcome(h) PROVE RowStep
      <3> DEFINE q == request[h]
      <3>1. /\ q.refund \in Refunds /\ q.key \in Keys
            /\ q.outcome \in {"succeeded", "failed"}
        <4>1. q \in RequestsInFlight
          BY <2>5 DEF RecordOutcome, TypeOK, Idle
        <4> QED
          BY <2>5, <4>1 DEF RequestsInFlight, RecordOutcome
      <3>2. CASE ~MayMarkTerminal(q.refund, q.outcome)
        BY <2>5, <3>2 DEF RecordOutcome, RowStep, Opens
      <3>3. CASE MayMarkTerminal(q.refund, q.outcome)
        <4> DEFINE e == [refund |-> q.refund, type |-> q.outcome, key |-> q.key]
        <4>1. e \in Events /\ e.refund = q.refund
          BY <3>1 DEF Events
        <4>2. TellsSuccess(e) <=> q.outcome = "succeeded"
          BY <3>1 DEF TellsSuccess
        <4>3. audit' = audit \cup {e} /\ status' = [status EXCEPT ![q.refund] = q.outcome]
          BY <2>5, <3>3 DEF RecordOutcome
        <4>4. Settles(q.refund, q.outcome)
          <5> HIDE DEF e
          <5> QED
            BY <2>5, <3>1, <3>3, <4>1, <4>2, <4>3
               DEF Settles, RecordOutcome, MayMarkTerminal, IsOpen
        <4> QED
          BY <3>1, <4>4 DEF RowStep, PaidEvidence, RefundTargets
      <3> QED BY <3>2, <3>3
    <2> QED
      BY <1>3, <2>1, <2>2, <2>3, <2>4, <2>5 DEF RequestStep, RowStep
  <1>4. CASE WorkerStep
    <2>1. ASSUME NEW w \in Workers, Claim(w) PROVE Opens
      BY <2>1 DEF Claim, ClaimDueRefunds, Opens
    <2>2. ASSUME NEW w \in Workers, WorkerCalls(w) PROVE Opens
      BY <2>2 DEF WorkerCalls, SubmitRefund, QueryRefund, Opens
    <2>3. ASSUME NEW w \in Workers, NEW c \in Claims, ProviderUnavailable(w, c) PROVE Opens
      BY <2>3 DEF ProviderUnavailable, Opens
    <2>4. ASSUME NEW w \in Workers, WorkerStops(w) PROVE Opens
      BY <2>4 DEF WorkerStops, Opens
    <2>5. ASSUME NEW w \in Workers, RecordAnswer(w) PROVE RowStep
      <3> DEFINE r == answer[w].refund
      <3>1. r \in Refunds /\ answer[w].says \in RefundTargets \cup {"unmapped"}
        BY <2>5 DEF RecordAnswer, TypeOK, Answers
      <3>2. CASE answer[w].says = "unmapped"
        BY <2>5, <3>1, <3>2 DEF RecordAnswer, MayMarkProcessing, RowStep, Opens, TypeOK
      <3>3. CASE answer[w].says # "unmapped"
        BY <2>5, <3>1, <3>3, WebhookIsRowStep DEF RecordAnswer, PaidEvidence
      <3> QED BY <3>2, <3>3
    <2> QED
      BY <1>4, <2>1, <2>2, <2>3, <2>4, <2>5 DEF WorkerStep, RowStep
  <1>5. ASSUME NEW n \in Notices, IngestProviderRefundWebhook(n) PROVE RowStep
    <2>1. n.refund \in Refunds /\ n.state \in RefundTargets /\ n \in notices
      BY <1>5 DEF Notices, IngestProviderRefundWebhook
    <2>2. n.state = "succeeded" /\ n.agrees => provider[n.refund] = "succeeded"
      BY <2>1, Zenon DEF PaidEvidence
    <2>3. ApplyWebhookRefundStatus(n.refund, n.state, n.agrees) /\ provider' = provider
      BY <1>5 DEF IngestProviderRefundWebhook
    <2> QED
      BY <2>1, <2>2, <2>3, WebhookIsRowStep, Zenon
  <1> QED
    BY <1>1, <1>2, <1>3, <1>4, <1>5 DEF Next

-----------------------------------------------------------------------------
(***************************************************************************)
(* The evidence of a payout.                                               *)
(***************************************************************************)

\* What PaidEvidence says of notifications.
TrueNotices ==
    \A n \in notices : n.state = "succeeded" /\ n.agrees => provider[n.refund] = "succeeded"

\* A payout at the provider is for good.
PayoutsStay == \A r \in Refunds : provider[r] = "succeeded" => provider'[r] = "succeeded"

\* A notification of the provider's new state is true.
LEMMA NotifiesTrue ==
    ASSUME TypeOK, TrueNotices, PayoutsStay, NEW r \in Refunds, NEW s \in RefundTargets,
           provider'[r] = s, Notifies(r, s)
    PROVE  TrueNotices'
  <1>1. ASSUME NEW n \in notices', n.state = "succeeded", n.agrees
        PROVE  provider'[n.refund] = "succeeded"
    <2>1. CASE n \in notices
      <3>1. n.refund \in Refunds
        BY <2>1 DEF TypeOK, Notices
      <3>2. provider[n.refund] = "succeeded"
        BY <1>1, <2>1, Zenon DEF TrueNotices
      <3> QED
        BY <3>1, <3>2 DEF PayoutsStay
    <2>2. CASE n = [refund |-> r, state |-> s, agrees |-> TRUE]
      BY <1>1, <2>2
    <2> QED
      BY <1>1, <2>1, <2>2 DEF Notifies
  <1> QED
    BY <1>1, Zenon DEF TrueNotices

\* A create answers with the state the provider's refund then has.
LEMMA CreatesTrue ==
    ASSUME TypeOK, TrueNotices, NEW r \in Refunds, NEW s \in RefundTargets,
           ProviderCreates(r, s)
    PROVE  PayoutsStay /\ TrueNotices' /\ provider'[r] = s
  <1>1. CASE provider[r] # Unknown
    <2>1. UNCHANGED <<provider, notices>> /\ s = provider[r]
      BY <1>1 DEF ProviderCreates
    <2> QED
      BY <2>1 DEF PayoutsStay, TrueNotices
  <1>2. CASE provider[r] = Unknown
    <2>1. provider' = [provider EXCEPT ![r] = s] /\ Notifies(r, s)
      BY <1>2 DEF ProviderCreates
    <2>2. PayoutsStay /\ provider'[r] = s
      BY <1>2, <2>1 DEF PayoutsStay, TypeOK, Unknown
    <2> QED
      BY <2>1, <2>2, NotifiesTrue
  <1> QED BY <1>1, <1>2

\* What the provider has paid out stays paid out, and it notifies no other success.
LEMMA ProviderTrue == TypeOK /\ TrueNotices /\ [Next]_vars => PayoutsStay /\ TrueNotices'
  <1> SUFFICES ASSUME TypeOK, TrueNotices, [Next]_vars PROVE PayoutsStay /\ TrueNotices'
    OBVIOUS
  <1>1. CASE UNCHANGED <<provider, notices>>
    BY <1>1 DEF PayoutsStay, TrueNotices
  <1>2. ASSUME NEW r \in Refunds, NEW s \in {"succeeded", "failed"}, ProviderSettles(r, s)
        PROVE  PayoutsStay /\ TrueNotices'
    <2>1. PayoutsStay /\ provider'[r] = s /\ s \in RefundTargets
      BY <1>2 DEF ProviderSettles, PayoutsStay, TypeOK, RefundTargets
    <2> QED
      BY <1>2, <2>1, NotifiesTrue DEF ProviderSettles
  <1>3. ASSUME NEW r \in Refunds, NEW s \in Misrouted, ProviderMisroutes(r, s)
        PROVE  PayoutsStay /\ TrueNotices'
    <2>1. \A n \in notices' : n \in notices \/ ~n.agrees
      BY <1>3 DEF ProviderMisroutes
    <2>2. PayoutsStay /\ provider' = provider
      BY <1>3 DEF ProviderMisroutes, PayoutsStay
    <2>3. TrueNotices'
      BY <2>1, <2>2, Zenon DEF TrueNotices
    <2> QED BY <2>2, <2>3
  <1>4. ASSUME NEW h \in Handlers, NEW s \in RefundTargets, NEW reply,
               CreateProviderRefund(h, s, reply)
        PROVE  PayoutsStay /\ TrueNotices'
    <2>1. request[h].refund \in Refunds
      BY <1>4 DEF CreateProviderRefund, TypeOK, RequestsInFlight, Idle
    <2> QED
      BY <1>4, <2>1, CreatesTrue DEF CreateProviderRefund
  <1>5. ASSUME NEW w \in Workers, NEW c \in claimed[w], NEW s \in RefundTargets, NEW reply,
               SubmitRefund(w, c, s, reply)
        PROVE  PayoutsStay /\ TrueNotices'
    <2>1. c.refund \in Refunds
      BY DEF TypeOK, Claims
    <2> QED
      BY <1>5, <2>1, CreatesTrue DEF SubmitRefund
  <1>6. ASSUME NEW h \in Handlers, NEW r, NEW k,
               \/ CreateOwnerRefund(h, r)
               \/ RetryRefund(h, r, k)
               \/ ClaimSubmission(h)
               \/ QueryProviderRefund(h)
               \/ SubmissionRefused(h)
               \/ RecordOutcome(h)
               \/ RequestEnds(h)
        PROVE  UNCHANGED <<provider, notices>>
    BY <1>6 DEF CreateOwnerRefund, RetryRefund, ClaimSubmission, QueryProviderRefund,
                SubmissionRefused, RecordOutcome, RequestEnds
  <1>7. ASSUME NEW w \in Workers, NEW c,
               \/ Claim(w)
               \/ QueryRefund(w, c)
               \/ ProviderUnavailable(w, c)
               \/ RecordAnswer(w)
               \/ WorkerStops(w)
        PROVE  UNCHANGED <<provider, notices>>
    BY <1>7 DEF Claim, ClaimDueRefunds, QueryRefund, ProviderUnavailable, RecordAnswer, WorkerStops
  <1>8. ASSUME NEW n \in Notices, IngestProviderRefundWebhook(n)
        PROVE  UNCHANGED <<provider, notices>>
    BY <1>8 DEF IngestProviderRefundWebhook
  <1>9. UNCHANGED vars => UNCHANGED <<provider, notices>>
    BY DEF vars
  <1> QED
    BY <1>1, <1>2, <1>3, <1>4, <1>5, <1>6, <1>7, <1>8, <1>9
       DEF Next, ProviderStep, RequestStep, WorkerStep, WorkerCalls

\* An answer that is not a success leaves no success behind.
LEMMA AnsweredOutcome ==
    ASSUME TypeOK, NEW h \in Handlers, request[h] # Idle, NEW s \in RefundTargets, Answered(h, s)
    PROVE  /\ \A x \in Handlers \ {h} : request'[x] = request[x]
           /\ request'[h].outcome = "succeeded" =>
                 s = "succeeded" /\ request'[h].refund = request[h].refund
  <1>1. request[h] \in RequestsInFlight
    BY DEF TypeOK
  <1>2. CASE Outcome(s) = None
    BY <1>2, NoneAssumption DEF Answered, TypeOK, Idle, RefundTargets
  <1>3. CASE Outcome(s) # None
    BY <1>1, <1>3 DEF Answered, Outcome, TypeOK, RequestsInFlight
  <1> QED BY <1>2, <1>3

\* A request that is about to record a success has heard of it from the provider.
LEMMA RequestEvidence ==
    ASSUME TypeOK, TypeOK', PaidEvidence, PayoutsStay, [Next]_vars, NEW h \in Handlers,
           request'[h].outcome = "succeeded"
    PROVE  provider'[request'[h].refund] = "succeeded"
  <1>0. ASSUME request'[h] = request[h] PROVE provider'[request'[h].refund] = "succeeded"
    <2>1. request[h].refund \in Refunds
      BY <1>0, NoneAssumption DEF TypeOK, RequestsInFlight, Idle, RefundTargets
    <2> QED
      BY <1>0, <2>1 DEF PaidEvidence, PayoutsStay
  <1>1. ASSUME NEW g \in Handlers, NEW r \in Refunds, NEW k \in Keys, NEW seen, NEW integer,
               Proceeds(g, r, k, seen, integer)
        PROVE  g # h /\ request'[h] = request[h]
    BY <1>1, NoneAssumption DEF Proceeds, Goes, TypeOK, RefundTargets
  <1>2. ASSUME NEW g \in Handlers, ClaimSubmission(g) PROVE request'[h] = request[h]
    BY <1>2, NoneAssumption DEF ClaimSubmission, Goes, TypeOK, RefundTargets, Idle
  <1>3. ASSUME NEW g \in Handlers, QueryProviderRefund(g)
        PROVE  provider'[request'[h].refund] = "succeeded"
    <2> DEFINE r == request[g].refund
    <2>1. request[g] # Idle /\ request[g] \in RequestsInFlight /\ r \in Refunds
      BY <1>3 DEF QueryProviderRefund, Idle, TypeOK, RequestsInFlight
    <2>2. CASE provider[r] # Unknown
      <3>1. provider[r] \in RefundTargets /\ Answered(g, provider[r])
        BY <1>3, <2>1, <2>2 DEF QueryProviderRefund, TypeOK, ProviderStates
      <3> QED
        BY <1>0, <2>1, <3>1, AnsweredOutcome DEF PayoutsStay
    <2>3. CASE provider[r] = Unknown /\ request[g].integer
      <3>1. request' = [request EXCEPT ![g].phase = "create"]
        BY <1>3, <2>3 DEF QueryProviderRefund
      <3>2. request'[h].outcome = request[h].outcome /\ request'[h].refund = request[h].refund
        BY <2>1, <3>1 DEF TypeOK, RequestsInFlight
      <3>3. request[h].refund \in Refunds
        BY <3>2, NoneAssumption DEF TypeOK, RequestsInFlight, Idle, RefundTargets
      <3> QED
        BY <3>2, <3>3 DEF PaidEvidence, PayoutsStay
    <2>4. CASE provider[r] = Unknown /\ ~request[g].integer
      <3>1. Answered(g, "failed") /\ "failed" \in RefundTargets
        BY <1>3, <2>4 DEF QueryProviderRefund, RefundTargets
      <3> QED
        BY <1>0, <2>1, <3>1, AnsweredOutcome
    <2> QED BY <2>2, <2>3, <2>4
  <1>4. ASSUME NEW g \in Handlers, NEW s \in RefundTargets,
               NEW reply \in {"arrives", "lost", "malformed"}, CreateProviderRefund(g, s, reply)
        PROVE  provider'[request'[h].refund] = "succeeded"
    <2>1. request[g] # Idle /\ request[g] \in RequestsInFlight /\ request[g].refund \in Refunds
      BY <1>4 DEF CreateProviderRefund, Idle, TypeOK, RequestsInFlight
    <2>2. provider'[request[g].refund] = s
      BY <1>4, <2>1, CreatesTrue DEF CreateProviderRefund, PaidEvidence, TrueNotices
    <2>3. CASE Answered(g, s)
      BY <1>0, <2>1, <2>2, <2>3, AnsweredOutcome
    <2>4. CASE Answered(g, "failed")
      BY <1>0, <2>1, <2>4, AnsweredOutcome DEF RefundTargets
    <2>5. CASE request' = [request EXCEPT ![g].phase = "query"]
      <3>1. request'[h].outcome = request[h].outcome /\ request'[h].refund = request[h].refund
        BY <2>1, <2>5 DEF TypeOK, RequestsInFlight
      <3>2. request[h].refund \in Refunds
        BY <3>1, NoneAssumption DEF TypeOK, RequestsInFlight, Idle, RefundTargets
      <3> QED
        BY <3>1, <3>2 DEF PaidEvidence, PayoutsStay
    <2> QED
      BY <1>4, <2>3, <2>4, <2>5 DEF CreateProviderRefund
  <1>5. ASSUME NEW g \in Handlers, SubmissionRefused(g)
        PROVE  provider'[request'[h].refund] = "succeeded"
    <2>1. request[g] # Idle /\ Answered(g, "failed") /\ "failed" \in RefundTargets
      BY <1>5 DEF SubmissionRefused, Idle, RefundTargets
    <2> QED
      BY <1>0, <2>1, AnsweredOutcome
  <1>6. ASSUME NEW g \in Handlers, RecordOutcome(g) \/ RequestEnds(g)
        PROVE  request'[h] = request[h]
    BY <1>6, NoneAssumption DEF RecordOutcome, RequestEnds, TypeOK, Idle, RefundTargets
  <1>7. /\ \A g \in Handlers, r \in Refunds :
              CreateOwnerRefund(g, r) => request'[h] = request[h]
        /\ \A g \in Handlers, r \in Refunds, k \in RetryKeys :
              RetryRefund(g, r, k) => request'[h] = request[h]
    BY <1>1 DEF CreateOwnerRefund, RetryRefund, Keys
  <1>8. ProviderStep \/ WorkerStep \/ UNCHANGED vars => request' = request
    BY DEF ProviderStep, ProviderSettles, ProviderMisroutes, WorkerStep, WorkerCalls, Claim,
           ClaimDueRefunds, SubmitRefund, QueryRefund, ProviderUnavailable, RecordAnswer,
           WorkerStops, calls, vars
  <1>9. ASSUME NEW n \in Notices, IngestProviderRefundWebhook(n) PROVE request' = request
    BY <1>9 DEF IngestProviderRefundWebhook, calls
  <1> QED
    BY <1>0, <1>2, <1>3, <1>4, <1>5, <1>6, <1>7, <1>8, <1>9 DEF Next, RequestStep

\* A worker that is about to record a success has heard of it from the provider.
LEMMA AnswerEvidence ==
    ASSUME TypeOK, PaidEvidence, PayoutsStay, [Next]_vars, NEW w \in Workers,
           answer'[w].says = "succeeded"
    PROVE  provider'[answer'[w].refund] = "succeeded"
  <1>0. ASSUME answer'[w] = answer[w] PROVE provider'[answer'[w].refund] = "succeeded"
    <2>1. answer[w].refund \in Refunds
      BY <1>0, NoneAssumption DEF TypeOK, Answers, NoAnswer, RefundTargets
    <2> QED
      BY <1>0, <2>1 DEF PaidEvidence, PayoutsStay
  <1>1. ASSUME NEW v \in Workers, NEW c \in claimed[v], NEW s \in RefundTargets, NEW reply,
               SubmitRefund(v, c, s, reply)
        PROVE  provider'[answer'[w].refund] = "succeeded"
    <2>1. c.refund \in Refunds
      BY DEF TypeOK, Claims
    <2>2. provider'[c.refund] = s
      BY <1>1, <2>1, CreatesTrue DEF SubmitRefund, PaidEvidence, TrueNotices
    <2>3. CASE Hears(v, c, s) \/ Hears(v, c, "unmapped")
      BY <1>0, <2>2, <2>3 DEF Hears, TypeOK
    <2> QED
      BY <1>0, <1>1, <2>3 DEF SubmitRefund
  <1>2. ASSUME NEW v \in Workers, NEW c \in claimed[v], QueryRefund(v, c)
        PROVE  provider'[answer'[w].refund] = "succeeded"
    <2>1. c.refund \in Refunds
      BY DEF TypeOK, Claims
    <2>2. CASE Hears(v, c, provider[c.refund])
      BY <1>0, <1>2, <2>1, <2>2 DEF Hears, TypeOK, QueryRefund
    <2> QED
      BY <1>0, <1>2, <2>2 DEF QueryRefund
  <1>3. ASSUME NEW v \in Workers, RecordAnswer(v) \/ WorkerStops(v)
        PROVE  answer'[w] = answer[w]
    <2>1. answer' = [answer EXCEPT ![v] = NoAnswer]
      BY <1>3 DEF RecordAnswer, WorkerStops
    <2> QED
      BY <2>1, NoneAssumption DEF TypeOK, NoAnswer, RefundTargets
  <1>4. ASSUME NEW v \in Workers, NEW c, Claim(v) \/ ProviderUnavailable(v, c)
        PROVE  answer' = answer
    BY <1>4 DEF Claim, ClaimDueRefunds, ProviderUnavailable
  <1>5. ProviderStep \/ RequestStep \/ UNCHANGED vars => answer' = answer
    BY DEF ProviderStep, ProviderSettles, ProviderMisroutes, RequestStep, CreateOwnerRefund,
           RetryRefund, ClaimSubmission, QueryProviderRefund, CreateProviderRefund,
           SubmissionRefused, RecordOutcome, RequestEnds, workers, vars
  <1>6. ASSUME NEW n \in Notices, IngestProviderRefundWebhook(n) PROVE answer' = answer
    BY <1>6 DEF IngestProviderRefundWebhook, workers
  <1> QED
    BY <1>0, <1>1, <1>2, <1>3, <1>4, <1>5, <1>6 DEF Next, WorkerStep, WorkerCalls

\* No step records or is about to record a success without evidence.
LEMMA EvidenceKept == TypeOK /\ TypeOK' /\ PaidEvidence /\ [Next]_vars => PaidEvidence'
  <1> SUFFICES ASSUME TypeOK, TypeOK', PaidEvidence, [Next]_vars PROVE PaidEvidence'
    OBVIOUS
  <1>1. PayoutsStay /\ TrueNotices'
    BY ProviderTrue DEF PaidEvidence, TrueNotices
  <1>2. \A r \in Refunds : status'[r] = "succeeded" => provider'[r] = "succeeded"
    <2>1. RowStep
      BY NextIsRowStep
    <2>2. CASE Opens
      BY <1>1, <2>2 DEF Opens, PayoutsStay, PaidEvidence
    <2>3. ASSUME NEW r \in Refunds, NEW to \in RefundTargets, Settles(r, to),
                 to = "succeeded" => provider[r] = "succeeded"
          PROVE  \A x \in Refunds : status'[x] = "succeeded" => provider'[x] = "succeeded"
      BY <1>1, <2>3 DEF Settles, PayoutsStay, PaidEvidence, TypeOK
    <2> QED
      BY <2>1, <2>2, <2>3 DEF RowStep
  <1>3. \A h \in Handlers : request'[h].outcome = "succeeded" =>
            provider'[request'[h].refund] = "succeeded"
    BY <1>1, RequestEvidence
  <1>4. \A w \in Workers : answer'[w].says = "succeeded" =>
            provider'[answer'[w].refund] = "succeeded"
    BY <1>1, AnswerEvidence
  <1> QED
    BY <1>1, <1>2, <1>3, <1>4, Zenon DEF PaidEvidence, TrueNotices

\* Initially nothing claims a success.
LEMMA InitEvidence == Init => PaidEvidence
  BY NoneAssumption DEF Init, PaidEvidence, NoRow, Idle, NoAnswer, RefundTargets

-----------------------------------------------------------------------------
(***************************************************************************)
(* The claim before the call.                                              *)
(***************************************************************************)

\* The status of a row that has left submitted, which it never returns to.
BeyondClaim(s) == s \notin {NoRow, "submitted"}

\* Every refund that the provider may hear of, or that a request, a batch or an answer
\* is past the claim of, has left submitted.
ClaimsHeld ==
    /\ ClaimedBeforeCalled
    /\ \A h \in Handlers : request[h].phase \in {"query", "create", "record"} =>
          BeyondClaim(status[request[h].refund])
    /\ \A w \in Workers : \A c \in claimed[w] : BeyondClaim(status[c.refund])

\* No row goes back before its claim.
LEMMA RowsAdvance ==
    ASSUME TypeOK, RowStep
    PROVE  \A r \in Refunds : BeyondClaim(status[r]) => BeyondClaim(status'[r])
  <1>1. CASE Opens
    BY <1>1 DEF Opens, BeyondClaim, NoRow
  <1>2. ASSUME NEW r \in Refunds, NEW to \in RefundTargets, Settles(r, to)
        PROVE  \A x \in Refunds : BeyondClaim(status[x]) => BeyondClaim(status'[x])
    BY <1>2 DEF Settles, BeyondClaim, NoRow, RefundTargets, TypeOK
  <1> QED
    BY <1>1, <1>2 DEF RowStep

\* The provider hears of a refund only from a request or a worker past its claim.
LEMMA ProviderHearsClaimed ==
    ASSUME TypeOK, ClaimsHeld, [Next]_vars, NEW r \in Refunds,
           provider[r] = Unknown, provider'[r] # Unknown
    PROVE  BeyondClaim(status[r])
  <1>1. ASSUME NEW x \in Refunds, NEW s, ProviderCreates(x, s) PROVE x = r
    BY <1>1 DEF ProviderCreates, TypeOK
  <1>2. ASSUME NEW h \in Handlers, NEW s, NEW reply, CreateProviderRefund(h, s, reply)
        PROVE  BeyondClaim(status[r])
    <2>1. request[h].refund \in Refunds /\ request[h].phase = "create"
      BY <1>2 DEF CreateProviderRefund, TypeOK, RequestsInFlight, Idle
    <2> QED
      BY <1>1, <1>2, <2>1 DEF CreateProviderRefund, ClaimsHeld
  <1>3. ASSUME NEW w \in Workers, NEW c \in claimed[w], NEW s, NEW reply,
               SubmitRefund(w, c, s, reply)
        PROVE  BeyondClaim(status[r])
    <2>1. c.refund \in Refunds
      BY DEF TypeOK, Claims
    <2> QED
      BY <1>1, <1>3, <2>1 DEF SubmitRefund, ClaimsHeld
  <1>4. ASSUME NEW x \in Refunds, NEW s, ProviderSettles(x, s) PROVE FALSE
    BY <1>4 DEF ProviderSettles, TypeOK, Unknown
  <1>5. ASSUME NEW h \in Handlers, NEW x, NEW k,
               \/ CreateOwnerRefund(h, x)
               \/ RetryRefund(h, x, k)
               \/ ClaimSubmission(h)
               \/ QueryProviderRefund(h)
               \/ SubmissionRefused(h)
               \/ RecordOutcome(h)
               \/ RequestEnds(h)
        PROVE  FALSE
    BY <1>5 DEF CreateOwnerRefund, RetryRefund, ClaimSubmission, QueryProviderRefund,
                SubmissionRefused, RecordOutcome, RequestEnds
  <1>6. ASSUME NEW w \in Workers, NEW c,
               \/ Claim(w)
               \/ QueryRefund(w, c)
               \/ ProviderUnavailable(w, c)
               \/ RecordAnswer(w)
               \/ WorkerStops(w)
        PROVE  FALSE
    BY <1>6 DEF Claim, ClaimDueRefunds, QueryRefund, ProviderUnavailable, RecordAnswer, WorkerStops
  <1>7. ASSUME NEW n, NEW x, NEW s,
               IngestProviderRefundWebhook(n) \/ ProviderMisroutes(x, s) \/ UNCHANGED vars
        PROVE  FALSE
    BY <1>7 DEF IngestProviderRefundWebhook, ProviderMisroutes, vars
  <1> QED
    BY <1>2, <1>3, <1>4, <1>5, <1>6, <1>7
       DEF Next, ProviderStep, RequestStep, WorkerStep, WorkerCalls

\* An answer ends its request or leaves it with its refund, and touches no other.
LEMMA AnsweredKeepsRefund ==
    ASSUME TypeOK, NEW h \in Handlers, request[h] \in RequestsInFlight, NEW s, Answered(h, s),
           NEW x \in Handlers
    PROVE  \/ request'[x] = request[x]
           \/ x = h /\ request'[x] = Idle
           \/ x = h /\ request'[x].refund = request[x].refund
  <1>1. CASE Outcome(s) = None
    BY <1>1 DEF Answered, TypeOK
  <1>2. CASE Outcome(s) # None
    BY <1>2 DEF Answered, TypeOK, RequestsInFlight
  <1> QED BY <1>1, <1>2

\* A request passes its claim only with a row that has left submitted.
LEMMA RequestsClaim ==
    ASSUME TypeOK, TypeOK', ClaimsHeld, [Next]_vars,
           \A r \in Refunds : BeyondClaim(status[r]) => BeyondClaim(status'[r]),
           NEW h \in Handlers, request'[h].phase \in {"query", "create", "record"}
    PROVE  BeyondClaim(status'[request'[h].refund])
  <1>0. ASSUME request[h].phase \in {"query", "create", "record"},
               request'[h].refund = request[h].refund
        PROVE  BeyondClaim(status'[request'[h].refund])
    <2>1. request[h].refund \in Refunds
      BY <1>0 DEF TypeOK, RequestsInFlight, Idle
    <2>2. BeyondClaim(status[request[h].refund])
      BY <1>0 DEF ClaimsHeld
    <2> QED
      BY <1>0, <2>1, <2>2
  <1>1. ASSUME NEW g \in Handlers, NEW r \in Refunds, NEW k, NEW integer,
               NEW seen, seen = status[r] \/ seen = status'[r], status'[r] = seen,
               Proceeds(g, r, k, seen, integer)
        PROVE  BeyondClaim(status'[request'[h].refund])
    <2>1. CASE g # h
      BY <1>0, <1>1, <2>1 DEF Proceeds, Goes, TypeOK
    <2>2. CASE g = h
      BY <1>1, <2>2 DEF Proceeds, Goes, TypeOK, BeyondClaim, NoRow
    <2> QED BY <2>1, <2>2
  <1>2. ASSUME NEW g \in Handlers, ClaimSubmission(g) PROVE BeyondClaim(status'[request'[h].refund])
    <2>1. CASE g # h
      BY <1>0, <1>2, <2>1 DEF ClaimSubmission, Goes, TypeOK
    <2>2. CASE g = h
      <3>1. request[h].refund \in Refunds
        BY <1>2, <2>2 DEF ClaimSubmission, TypeOK, RequestsInFlight, Idle
      <3>2. MayMarkProcessing(request[h].refund)
        <4>1. CASE ~MayMarkProcessing(request[g].refund)
          <5>1. request' = [request EXCEPT ![g] = Idle]
            BY <1>2, <4>1 DEF ClaimSubmission
          <5> QED
            BY <2>2, <5>1 DEF TypeOK, Idle
        <4> QED BY <2>2, <4>1
      <3> QED
        BY <1>2, <2>2, <3>1, <3>2 DEF ClaimSubmission, Goes, TypeOK, BeyondClaim, NoRow
    <2> QED BY <2>1, <2>2
  <1>3. ASSUME NEW g \in Handlers, NEW s, NEW reply,
               \/ QueryProviderRefund(g)
               \/ CreateProviderRefund(g, s, reply)
               \/ SubmissionRefused(g)
        PROVE  BeyondClaim(status'[request'[h].refund])
    <2>1. request[g].phase \in {"query", "create"} /\ request[g] \in RequestsInFlight
      BY <1>3 DEF QueryProviderRefund, CreateProviderRefund, SubmissionRefused, TypeOK, Idle
    <2>2. \/ \E a : Answered(g, a)
          \/ request' = [request EXCEPT ![g].phase = "create"]
          \/ request' = [request EXCEPT ![g].phase = "query"]
      BY <1>3 DEF QueryProviderRefund, CreateProviderRefund, SubmissionRefused
    <2>3. /\ request[h].phase \in {"query", "create", "record"}
          /\ request'[h].refund = request[h].refund
      <3>1. ASSUME NEW a, Answered(g, a)
            PROVE  request'[h] = request[h] \/ (g = h /\ request'[h].refund = request[h].refund)
        BY <2>1, <3>1, AnsweredKeepsRefund DEF Idle
      <3>2. CASE request' = [request EXCEPT ![g].phase = "create"]
        BY <2>1, <3>2 DEF TypeOK, RequestsInFlight
      <3>3. CASE request' = [request EXCEPT ![g].phase = "query"]
        BY <2>1, <3>3 DEF TypeOK, RequestsInFlight
      <3> QED BY <2>1, <2>2, <3>1, <3>2, <3>3
    <2> QED
      BY <1>0, <2>3
  <1>4. ASSUME NEW g \in Handlers, RecordOutcome(g) \/ RequestEnds(g)
        PROVE  BeyondClaim(status'[request'[h].refund])
    <2>1. request' = [request EXCEPT ![g] = Idle]
      BY <1>4 DEF RecordOutcome, RequestEnds
    <2> QED
      BY <1>0, <2>1 DEF TypeOK, Idle
  <1>5. /\ \A g \in Handlers, r \in Refunds :
              CreateOwnerRefund(g, r) => BeyondClaim(status'[request'[h].refund])
        /\ \A g \in Handlers, r \in Refunds, k \in RetryKeys :
              RetryRefund(g, r, k) => BeyondClaim(status'[request'[h].refund])
    BY <1>1 DEF CreateOwnerRefund, RetryRefund
  <1>6. ProviderStep \/ WorkerStep \/ UNCHANGED vars => request' = request
    BY DEF ProviderStep, ProviderSettles, ProviderMisroutes, WorkerStep, WorkerCalls, Claim,
           ClaimDueRefunds, SubmitRefund, QueryRefund, ProviderUnavailable, RecordAnswer,
           WorkerStops, calls, vars
  <1>7. ASSUME NEW n \in Notices, IngestProviderRefundWebhook(n) PROVE request' = request
    BY <1>7 DEF IngestProviderRefundWebhook, calls
  <1> QED
    BY <1>0, <1>2, <1>3, <1>4, <1>5, <1>6, <1>7 DEF Next, RequestStep

\* A worker's batch holds only rows that have left submitted.
LEMMA BatchesClaim ==
    ASSUME TypeOK, ClaimsHeld, [Next]_vars,
           \A r \in Refunds : BeyondClaim(status[r]) => BeyondClaim(status'[r]),
           NEW w \in Workers, NEW c \in claimed'[w]
    PROVE  BeyondClaim(status'[c.refund])
  <1>0. ASSUME c \in claimed[w] PROVE BeyondClaim(status'[c.refund])
    <2>1. c.refund \in Refunds
      BY <1>0 DEF TypeOK, Claims
    <2> QED
      BY <1>0, <2>1 DEF ClaimsHeld
  <1>1. ASSUME NEW v \in Workers, Claim(v) PROVE BeyondClaim(status'[c.refund])
    <2>1. PICK due \in SUBSET {r \in Refunds : Claimable(r)} : ClaimDueRefunds(v, due)
      BY <1>1 DEF Claim
    <2>2. CASE v = w
      <3>1. c.refund \in due
        BY <2>1, <2>2 DEF ClaimDueRefunds, TypeOK
      <3>2. status'[c.refund] = "processing"
        BY <2>1, <3>1 DEF ClaimDueRefunds, Claimable, IsOpen
      <3> QED
        BY <3>2 DEF BeyondClaim, NoRow
    <2>3. CASE v # w
      BY <1>0, <2>1, <2>3 DEF ClaimDueRefunds, TypeOK
    <2> QED BY <2>2, <2>3
  <1>2. ASSUME NEW v \in Workers, NEW d, NEW s, NEW reply,
               \/ SubmitRefund(v, d, s, reply)
               \/ QueryRefund(v, d)
               \/ ProviderUnavailable(v, d)
               \/ RecordAnswer(v)
               \/ WorkerStops(v)
        PROVE  c \in claimed[w]
    <2>1. \/ Drops(v, d)
          \/ claimed' = claimed
          \/ claimed' = [claimed EXCEPT ![v] = {}]
      BY <1>2 DEF SubmitRefund, QueryRefund, ProviderUnavailable, RecordAnswer, WorkerStops
    <2> QED
      BY <2>1 DEF Drops, TypeOK
  <1>3. ProviderStep \/ RequestStep \/ UNCHANGED vars => claimed' = claimed
    BY DEF ProviderStep, ProviderSettles, ProviderMisroutes, RequestStep, CreateOwnerRefund,
           RetryRefund, ClaimSubmission, QueryProviderRefund, CreateProviderRefund,
           SubmissionRefused, RecordOutcome, RequestEnds, workers, vars
  <1>4. ASSUME NEW n \in Notices, IngestProviderRefundWebhook(n) PROVE claimed' = claimed
    BY <1>4 DEF IngestProviderRefundWebhook, workers
  <1> QED
    BY <1>0, <1>1, <1>2, <1>3, <1>4 DEF Next, WorkerStep, WorkerCalls

\* Every step keeps the claims.
LEMMA ClaimsKept ==
    TypeOK /\ TypeOK' /\ PaidEvidence /\ ClaimsHeld /\ [Next]_vars => ClaimsHeld'
  <1> SUFFICES ASSUME TypeOK, TypeOK', PaidEvidence, ClaimsHeld, [Next]_vars
               PROVE  ClaimsHeld'
    OBVIOUS
  <1>1. \A r \in Refunds : BeyondClaim(status[r]) => BeyondClaim(status'[r])
    BY NextIsRowStep, RowsAdvance
  <1>2. ClaimedBeforeCalled'
    <2>1. ASSUME NEW r \in Refunds, provider'[r] # Unknown PROVE BeyondClaim(status'[r])
      BY <1>1, <2>1, ProviderHearsClaimed DEF ClaimsHeld, ClaimedBeforeCalled, BeyondClaim
    <2> QED
      BY <2>1 DEF ClaimedBeforeCalled, BeyondClaim
  <1>3. \A h \in Handlers : request'[h].phase \in {"query", "create", "record"} =>
            BeyondClaim(status'[request'[h].refund])
    BY <1>1, RequestsClaim
  <1>4. \A w \in Workers : \A c \in claimed'[w] : BeyondClaim(status'[c.refund])
    BY <1>1, BatchesClaim
  <1> QED
    BY <1>2, <1>3, <1>4 DEF ClaimsHeld, BeyondClaim

-----------------------------------------------------------------------------
(***************************************************************************)
(* The theorems.                                                           *)
(***************************************************************************)

\* The inductive invariant.
Invariant == TypeOK /\ PaidEvidence /\ ClaimsHeld

LEMMA InvariantHolds == Spec => []Invariant
  <1>1. Init => Invariant
    <2>1. Init => ClaimsHeld
      BY DEF Init, ClaimsHeld, ClaimedBeforeCalled, BeyondClaim, Unknown, Idle
    <2> QED
      BY <2>1, InitTyped, InitEvidence DEF Invariant
  <1>2. Invariant /\ [Next]_vars => Invariant'
    BY NextTyped, EvidenceKept, ClaimsKept DEF Invariant
  <1> QED
    BY <1>1, <1>2, PTL DEF Spec

\* However requests, retries and workers overlap, no call brings a refund to the
\* provider while its row is absent or submitted: whoever calls has claimed the row
\* (mark_processing, claim_due_refunds) and nothing turns it back.
THEOREM AlwaysClaimedBeforeCalled == Spec => []ClaimedBeforeCalled
  <1>1. Invariant => ClaimedBeforeCalled
    BY DEF Invariant, ClaimsHeld
  <1> QED
    BY <1>1, InvariantHolds, PTL

\* The trail of a refund tells of one success or of none.
AuditShape ==
    \A r \in Refunds :
        /\ status[r] = "succeeded" => \E e \in audit : SuccessEvents(r) = {e}
        /\ status[r] # "succeeded" => SuccessEvents(r) = {}

\* A row step keeps it so.
LEMMA AuditKept ==
    ASSUME TypeOK, AuditShape, RowStep
    PROVE  AuditShape'
  <1>1. \A r \in Refunds : SuccessEvents(r) = {e \in audit : e.refund = r /\ TellsSuccess(e)}
    BY DEF SuccessEvents, TellsSuccess
  <1>2. \A r \in Refunds :
            SuccessEvents(r)' = {e \in audit' : e.refund = r /\ TellsSuccess(e)}
    BY DEF SuccessEvents, TellsSuccess
  <1>3. CASE Opens
    <2>1. \A r \in Refunds : SuccessEvents(r)' = SuccessEvents(r)
      BY <1>1, <1>2, <1>3 DEF Opens
    <2>2. \A r \in Refunds : status'[r] = "succeeded" <=> status[r] = "succeeded"
      BY <1>3 DEF Opens, NoRow
    <2> QED
      BY <1>3, <2>1, <2>2 DEF AuditShape, Opens
  <1>4. ASSUME NEW r \in Refunds, NEW to \in RefundTargets, Settles(r, to)
        PROVE  AuditShape'
    <2>1. /\ status[r] # "succeeded" /\ SuccessEvents(r) = {}
          /\ status'[r] = to
          /\ \A x \in Refunds \ {r} : status'[x] = status[x]
      BY <1>4 DEF Settles, AuditShape, TypeOK
    <2>2. CASE to = "processing"
      <3>1. \A x \in Refunds : SuccessEvents(x)' = SuccessEvents(x)
        BY <1>1, <1>2, <1>4, <2>2 DEF Settles
      <3> QED
        BY <1>4, <2>1, <2>2, <3>1 DEF AuditShape, Settles
    <2>3. CASE to # "processing"
      <3>1. PICK e \in Events : /\ e.refund = r
                                /\ TellsSuccess(e) <=> to = "succeeded"
                                /\ audit' = audit \cup {e}
        BY <1>4, <2>3 DEF Settles
      <3>2. ASSUME NEW x \in Refunds \ {r} PROVE SuccessEvents(x)' = SuccessEvents(x)
        <4>1. {f \in audit' : f.refund = x /\ TellsSuccess(f)}
                  = {f \in audit : f.refund = x /\ TellsSuccess(f)}
          BY <3>1
        <4> QED
          BY <1>1, <1>2, <4>1
      <3>3. SuccessEvents(r)' = IF to = "succeeded" THEN {e} ELSE {}
        BY <1>1, <1>2, <2>1, <3>1
      <3> QED
        BY <2>1, <3>1, <3>2, <3>3 DEF AuditShape
    <2> QED BY <2>2, <2>3
  <1> QED
    BY <1>3, <1>4 DEF RowStep

\* Whichever of requests, workers and notifications records the success of a refund,
\* and however often any of them is repeated, its trail shows the success once, and
\* the trail of a refund that has not succeeded shows none.
THEOREM SuccessAlwaysAuditedOnce == Spec => []SuccessAuditedOnce
  <1>1. Init => AuditShape
    BY DEF Init, AuditShape, SuccessEvents, NoRow
  <1>2. Invariant /\ AuditShape /\ [Next]_vars => AuditShape'
    BY NextIsRowStep, AuditKept DEF Invariant
  <1>3. AuditShape => SuccessAuditedOnce
    <2> SUFFICES ASSUME AuditShape, NEW r \in Refunds
                 PROVE  Cardinality(SuccessEvents(r)) =
                            IF status[r] = "succeeded" THEN 1 ELSE 0
      BY DEF SuccessAuditedOnce
    <2>1. CASE status[r] = "succeeded"
      <3>1. PICK e \in audit : SuccessEvents(r) = {e}
        BY <2>1 DEF AuditShape
      <3> QED
        BY <2>1, <3>1, FS_Singleton
    <2>2. CASE status[r] # "succeeded"
      BY <2>2, FS_EmptySet DEF AuditShape
    <2> QED BY <2>1, <2>2
  <1> QED
    BY <1>1, <1>2, <1>3, InvariantHolds, PTL DEF Spec

\* The provider moves one refund at a time, never from succeeded, and in a step of its
\* own or of a call, which change no row.
LEMMA ProviderMoves ==
    ASSUME TypeOK, [Next]_vars
    PROVE  \/ provider' = provider
           \/ \E r \in Refunds, s \in RefundTargets :
                 /\ status' = status
                 /\ provider[r] # "succeeded"
                 /\ provider' = [provider EXCEPT ![r] = s]
  <1> DEFINE Moves == \E r \in Refunds, s \in RefundTargets :
                 /\ status' = status
                 /\ provider[r] # "succeeded"
                 /\ provider' = [provider EXCEPT ![r] = s]
  <1>1. ASSUME NEW r \in Refunds, NEW s \in RefundTargets, ProviderCreates(r, s),
               status' = status
        PROVE  provider' = provider \/ Moves
    BY <1>1 DEF ProviderCreates, Unknown
  <1>2. ASSUME NEW r \in Refunds, NEW s \in {"succeeded", "failed"}, ProviderSettles(r, s)
        PROVE  Moves
    BY <1>2 DEF ProviderSettles, RefundTargets
  <1>3. ASSUME NEW h \in Handlers, NEW s \in RefundTargets, NEW reply,
               CreateProviderRefund(h, s, reply)
        PROVE  provider' = provider \/ Moves
    <2>1. request[h].refund \in Refunds
      BY <1>3 DEF CreateProviderRefund, TypeOK, RequestsInFlight, Idle
    <2> QED
      BY <1>1, <1>3, <2>1 DEF CreateProviderRefund
  <1>4. ASSUME NEW w \in Workers, NEW c \in claimed[w], NEW s \in RefundTargets, NEW reply,
               SubmitRefund(w, c, s, reply)
        PROVE  provider' = provider \/ Moves
    <2>1. c.refund \in Refunds
      BY DEF TypeOK, Claims
    <2> QED
      BY <1>1, <1>4, <2>1 DEF SubmitRefund
  <1>5. ASSUME NEW h \in Handlers, NEW r, NEW k,
               \/ CreateOwnerRefund(h, r)
               \/ RetryRefund(h, r, k)
               \/ ClaimSubmission(h)
               \/ QueryProviderRefund(h)
               \/ SubmissionRefused(h)
               \/ RecordOutcome(h)
               \/ RequestEnds(h)
        PROVE  provider' = provider
    BY <1>5 DEF CreateOwnerRefund, RetryRefund, ClaimSubmission, QueryProviderRefund,
                SubmissionRefused, RecordOutcome, RequestEnds
  <1>6. ASSUME NEW w \in Workers, NEW c,
               \/ Claim(w)
               \/ QueryRefund(w, c)
               \/ ProviderUnavailable(w, c)
               \/ RecordAnswer(w)
               \/ WorkerStops(w)
        PROVE  provider' = provider
    BY <1>6 DEF Claim, ClaimDueRefunds, QueryRefund, ProviderUnavailable, RecordAnswer, WorkerStops
  <1>7. ASSUME NEW n, NEW r, NEW s,
               IngestProviderRefundWebhook(n) \/ ProviderMisroutes(r, s) \/ UNCHANGED vars
        PROVE  provider' = provider
    BY <1>7 DEF IngestProviderRefundWebhook, ProviderMisroutes, vars
  <1> HIDE DEF Moves
  <1>8. provider' = provider \/ Moves
    BY <1>2, <1>3, <1>4, <1>5, <1>6, <1>7
       DEF Next, ProviderStep, RequestStep, WorkerStep, WorkerCalls
  <1> QED
    BY <1>8 DEF Moves

\* Requests, workers and notifications implement the payout ledger: a success is
\* recorded only after the provider has paid the refund out, one refund at a time, and
\* neither payout nor record is ever taken back.
THEOREM PayoutLedgerImplemented == Spec => ImplementsPayoutLedger
  <1> DEFINE paid == {r \in Refunds : provider[r] = "succeeded"}
             recs == {r \in Refunds : status[r] = "succeeded"}
  <1>1. Init => Ledger!LedgerInit
    BY DEF Init, Ledger!LedgerInit, Unknown, NoRow
  <1>2. ASSUME Invariant, [Next]_vars PROVE [Ledger!LedgerNext]_(Ledger!ledgerVars)
    <2>1. CASE provider' = provider
      <3>1. CASE Opens
        <4>1. recs' = recs /\ paid' = paid
          BY <2>1, <3>1 DEF Opens, NoRow
        <4> QED
          BY <4>1 DEF Ledger!ledgerVars
      <3>2. ASSUME NEW r \in Refunds, NEW to \in RefundTargets, Settles(r, to),
                   to = "succeeded" => provider[r] = "succeeded"
            PROVE  [Ledger!LedgerNext]_(Ledger!ledgerVars)
        <4>1. status[r] # "succeeded" /\ status' = [status EXCEPT ![r] = to]
          BY <3>2 DEF Settles
        <4>2. CASE to = "succeeded"
          <5>1. r \in paid \ recs /\ recs' = recs \cup {r} /\ paid' = paid
            BY <1>2, <2>1, <3>2, <4>1, <4>2 DEF Invariant, TypeOK
          <5> QED
            BY <5>1 DEF Ledger!LedgerNext, Ledger!Record
        <4>3. CASE to # "succeeded"
          <5>1. recs' = recs /\ paid' = paid
            BY <1>2, <2>1, <4>1, <4>3 DEF Invariant, TypeOK
          <5> QED
            BY <5>1 DEF Ledger!ledgerVars
        <4> QED BY <4>2, <4>3
      <3> QED
        BY <1>2, <3>1, <3>2, NextIsRowStep DEF Invariant, RowStep
    <2>2. ASSUME NEW r \in Refunds, NEW s \in RefundTargets, status' = status,
                 provider[r] # "succeeded", provider' = [provider EXCEPT ![r] = s]
          PROVE  [Ledger!LedgerNext]_(Ledger!ledgerVars)
      <3>1. recs' = recs
        BY <2>2
      <3>2. CASE s = "succeeded"
        <4>1. r \notin paid /\ paid' = paid \cup {r}
          BY <1>2, <2>2, <3>2 DEF Invariant, TypeOK
        <4> QED
          BY <3>1, <4>1 DEF Ledger!LedgerNext, Ledger!PayOut
      <3>3. CASE s # "succeeded"
        <4>1. paid' = paid
          BY <1>2, <2>2, <3>3 DEF Invariant, TypeOK
        <4> QED
          BY <3>1, <4>1 DEF Ledger!ledgerVars
      <3> QED BY <3>2, <3>3
    <2> QED
      BY <1>2, <2>1, <2>2, ProviderMoves DEF Invariant
  <1> QED
    BY <1>1, <1>2, InvariantHolds, PTL DEF Spec, ImplementsPayoutLedger, Ledger!LedgerSpec

=============================================================================
