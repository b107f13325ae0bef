--------------------- MODULE PaymentSettlement_proofs ---------------------
(***************************************************************************)
(* Proofs about PaymentSettlement for every set of orders, intents,        *)
(* attempts and events.  Every transaction does one of three things to the *)
(* rows (RowStep): the insert of a fresh intent or attempt, a change (or   *)
(* none) that no success takes part in, or the capture of one attempt      *)
(* together with its intent.  The row invariants and the refinement of the *)
(* ledger then follow from the three kinds alone.                          *)
(***************************************************************************)
EXTENDS PaymentSettlement, TLAPS

-----------------------------------------------------------------------------
(***************************************************************************)
(* The status rules.                                                       *)
(***************************************************************************)

\* A webhook may always record a success over a stored status, and may record
\* nothing else over a success (webhook_transition_allowed).
LEMMA SuccessDominates ==
    ASSUME NEW from \in StoredStatuses, NEW to \in Targets
    PROVE  /\ WebhookMayTransition(from, "succeeded")
           /\ WebhookMayTransition("succeeded", to) => to = "succeeded"
  BY DEF StoredStatuses, WireStatuses, Targets, WebhookMayTransition, MayTransition,
         FromWire, MachineEdges

\* A closed payment was active, so it was not a success, and neither is it after.
LEMMA CancelIsUnpaid ==
    ASSUME NEW S, NEW statuses \in [S -> StoredStatuses \cup {Absent}], NEW cancelled
    PROVE  /\ CancelActive(statuses, cancelled) \in [S -> StoredStatuses \cup {Absent}]
           /\ \A x \in S :
                 /\ IsSuccess(CancelActive(statuses, cancelled)[x]) <=> IsSuccess(statuses[x])
                 /\ Exists(CancelActive(statuses, cancelled)[x]) <=> Exists(statuses[x])
  BY DEF CancelActive, IsActive, IsSuccess, Exists, Absent, StoredStatuses, WireStatuses

-----------------------------------------------------------------------------
(***************************************************************************)
(* Type correctness, with the references between rows that it needs.       *)
(***************************************************************************)

\* An attempt exists when it points at an intent, which exists too; a creation
\* under way holds an intent that exists; a sent notification names no attempt
\* that does not exist.
Linked ==
    /\ \A a \in Attempts : Exists(attempt[a]) <=> intentOf[a] # None
    /\ \A a \in Attempts : intentOf[a] # None => Exists(intent[intentOf[a]])
    /\ \A a \in Attempts : creation[a].phase # "idle" =>
          creation[a].intent \in Intents /\ Exists(intent[creation[a].intent])
    /\ \A e \in Events : event[e] # "unsent" /\ notice[e].attempt # None =>
          Exists(attempt[notice[e].attempt])

LEMMA InitTyped == Init => TypeOK /\ Linked
  BY ReplayAssumption DEF Init, TypeOK, Linked, Exists, Absent, NoCreation, Creations,
     SilentNotice, Notices, NoticeStatuses, NoTargets

\* The rows that status application leaves behind are well typed and linked.
LEMMA ApplyTyped ==
    ASSUME TypeOK, Linked, NEW a \in Attempts, Exists(attempt[a]),
           NEW status \in NoticeStatuses, NEW agrees \in BOOLEAN, NEW by \in Reports,
           ApplyPaymentStatus(a, status, agrees, by)
    PROVE  /\ intent' \in [Intents -> StoredStatuses \cup {Absent}]
           /\ attempt' \in [Attempts -> StoredStatuses \cup {Absent}]
           /\ paidAt' \in [Attempts -> Reports \cup {None}]
           /\ intentOf' = intentOf
           /\ \A i \in Intents : Exists(intent[i]) => Exists(intent[i]')
           /\ \A x \in Attempts : Exists(attempt[x]) <=> Exists(attempt[x]')
  <1>1. intentOf[a] \in Intents
    BY DEF TypeOK, Linked
  <1>2. \A s \in Targets : s \in StoredStatuses /\ s # Absent
    BY DEF Targets, StoredStatuses, WireStatuses, Absent
  <1>3. paidAt' \in [Attempts -> Reports \cup {None}]
    BY DEF ApplyPaymentStatus, TypeOK, Stamped
  <1> QED
    BY <1>1, <1>2, <1>3 DEF ApplyPaymentStatus, TypeOK, Exists

\* Rows that only gain intents leave no dangling reference behind ...
LEMMA FrameLinked ==
    ASSUME TypeOK, Linked, UNCHANGED <<intentOf, creation, notice>>,
           \A i \in Intents : Exists(intent[i]) => Exists(intent'[i]),
           \A a \in Attempts : Exists(attempt[a]) <=> Exists(attempt'[a]),
           \A e \in Events : event'[e] # "unsent" => event[e] # "unsent"
    PROVE  Linked'
  <1>1. \A a \in Attempts : intentOf[a] \in Intents \cup {None}
    BY DEF TypeOK
  <1>2. \A e \in Events : notice[e].attempt \in Attempts \cup {None}
    BY DEF TypeOK, Notices
  <1> QED
    BY <1>1, <1>2 DEF Linked

\* ... and neither does the insert of an attempt under an intent that exists.
LEMMA InsertLinked ==
    ASSUME TypeOK, Linked, UNCHANGED <<notice, event>>,
           NEW a \in Attempts, NEW i \in Intents, InsertAttempt(a, i),
           creation' \in {creation, [creation EXCEPT ![a] = NoCreation]},
           \A j \in Intents : Exists(intent[j]) => Exists(intent'[j]),
           Exists(intent'[i])
    PROVE  Linked'
  <1>1. \A x \in Attempts : Exists(attempt'[x]) <=> x = a \/ Exists(attempt[x])
    BY DEF InsertAttempt, TypeOK, Exists, Absent
  <1>2. \A x \in Attempts : intentOf'[x] = IF x = a THEN i ELSE intentOf[x]
    BY DEF InsertAttempt, TypeOK
  <1>3. \A x \in Attempts : creation'[x].phase # "idle" => creation'[x] = creation[x]
    BY DEF TypeOK, NoCreation
  <1>4. i # None
    BY NoneAssumption
  <1>5. \A x \in Attempts : Exists(attempt'[x]) <=> intentOf'[x] # None
    BY <1>1, <1>2, <1>4 DEF Linked
  <1>6. \A x \in Attempts : intentOf'[x] # None => Exists(intent'[intentOf'[x]])
    BY <1>2 DEF Linked, TypeOK
  <1>7. \A x \in Attempts : creation'[x].phase # "idle" =>
           creation'[x].intent \in Intents /\ Exists(intent'[creation'[x].intent])
    BY <1>3 DEF Linked
  <1>8. \A e \in Events : event'[e] # "unsent" /\ notice'[e].attempt # None =>
           Exists(attempt'[notice'[e].attempt])
    BY <1>1 DEF Linked, TypeOK, Notices
  <1> QED
    BY <1>5, <1>6, <1>7, <1>8 DEF Linked

\* No transaction leaves a dangling reference or an ill-typed row.
LEMMA StepTyped == TypeOK /\ Linked /\ [Next]_vars => TypeOK' /\ Linked'
  <1> SUFFICES ASSUME TypeOK, Linked, [Next]_vars
               PROVE  TypeOK' /\ Linked'
    OBVIOUS
  <1> USE DEF vars, rows, requests, webhooks
  <1>1. ASSUME NEW o \in Orders, OrderLeavesPayable(o)
        PROVE  TypeOK' /\ Linked'
    BY <1>1 DEF OrderLeavesPayable, TypeOK, Linked, Exists
  <1>2. ASSUME NEW e \in Events, NEW n \in Notices, ProviderNotifies(e, n)
        PROVE  TypeOK' /\ Linked'
    <2>1. TypeOK'
      BY <1>2 DEF ProviderNotifies, TypeOK
    <2>2. \A x \in Events : event'[x] # "unsent" /\ notice'[x].attempt # None =>
             Exists(attempt[notice'[x].attempt])
      BY <1>2 DEF ProviderNotifies, TypeOK, Linked
    <2> QED
      BY <1>2, <2>1, <2>2 DEF ProviderNotifies, Linked, Exists
  <1>3. ASSUME NEW i \in Intents, NEW a \in Attempts, PayOwnerOrder(i, a)
        PROVE  TypeOK' /\ Linked'
    <2>2. TypeOK'
      BY <1>3 DEF PayOwnerOrder, InsertAttempt, TypeOK, StoredStatuses, WireStatuses
    <2>3. Exists(intent'[i]) /\ \A j \in Intents : Exists(intent[j]) => Exists(intent'[j])
      BY <1>3 DEF PayOwnerOrder, TypeOK, Exists, Absent
    <2> QED
      BY <1>3, <2>2, <2>3, InsertLinked DEF PayOwnerOrder
  <1>4. ASSUME NEW i \in Intents, BeginCreateOwnerPaymentIntent(i)
        PROVE  TypeOK' /\ Linked'
    BY <1>4 DEF BeginCreateOwnerPaymentIntent, TypeOK, Linked, Exists
  <1>5. ASSUME NEW i \in Intents, CreateOwnerPaymentIntent(i)
        PROVE  TypeOK' /\ Linked'
    <2>1. intent' \in [Intents -> StoredStatuses \cup {Absent}]
      BY <1>5 DEF CreateOwnerPaymentIntent, TypeOK, StoredStatuses, WireStatuses
    <2>2. \A j \in Intents : Exists(intent[j]) => Exists(intent'[j])
      BY <1>5 DEF CreateOwnerPaymentIntent, TypeOK, Exists, Absent
    <2> QED
      BY <1>5, <2>1, <2>2 DEF CreateOwnerPaymentIntent, TypeOK, Linked
  <1>6. ASSUME NEW a \in Attempts, NEW i \in Intents, ReadAttemptableIntent(a, i)
        PROVE  TypeOK' /\ Linked'
    BY <1>6 DEF ReadAttemptableIntent, TypeOK, Linked, Exists, Creations
  <1>7. ASSUME NEW a \in Attempts, ReadPayableOrder(a)
        PROVE  TypeOK' /\ Linked'
    BY <1>7 DEF ReadPayableOrder, TypeOK, Linked, Exists, Creations
  <1>8. ASSUME NEW a \in Attempts, CreateOwnerPaymentAttempt(a)
        PROVE  TypeOK' /\ Linked'
    <2> DEFINE i == creation[a].intent
    <2>1. i \in Intents /\ Exists(intent[i]) /\ ~Exists(attempt[a])
      BY <1>8 DEF CreateOwnerPaymentAttempt, InsertAttempt, Linked
    <2>2. \A j \in Intents : Exists(intent[j]) => Exists(intent'[j])
      BY <1>8, <2>1 DEF CreateOwnerPaymentAttempt, TypeOK, Exists, Absent
    <2>3. TypeOK'
      BY <1>8, <2>1 DEF CreateOwnerPaymentAttempt, InsertAttempt, TypeOK, StoredStatuses,
         WireStatuses, NoCreation, Creations
    <2> QED
      BY <1>8, <2>1, <2>2, <2>3, InsertLinked DEF CreateOwnerPaymentAttempt
  <1>9. ASSUME NEW a \in Attempts, AbandonCreation(a)
        PROVE  TypeOK' /\ Linked'
    BY <1>9 DEF AbandonCreation, TypeOK, Linked, Exists, Creations, NoCreation
  <1>10. ASSUME NEW i \in Intents, CancelOwnerPaymentIntent(i)
         PROVE  TypeOK' /\ Linked'
    <2>1. /\ attempt' \in [Attempts -> StoredStatuses \cup {Absent}]
          /\ \A a \in Attempts : Exists(attempt[a]) <=> Exists(attempt'[a])
      BY <1>10, CancelIsUnpaid DEF CancelOwnerPaymentIntent, TypeOK
    <2>2. /\ intent' \in [Intents -> StoredStatuses \cup {Absent}]
          /\ \A j \in Intents : Exists(intent[j]) => Exists(intent'[j])
      BY <1>10 DEF CancelOwnerPaymentIntent, TypeOK, Exists, Absent, StoredStatuses, WireStatuses
    <2> QED
      BY <1>10, <2>1, <2>2, FrameLinked DEF CancelOwnerPaymentIntent, TypeOK
  <1>11. ASSUME NEW o \in Orders, CancelOrderPayments(o)
         PROVE  TypeOK' /\ Linked'
    <2>1. /\ attempt' \in [Attempts -> StoredStatuses \cup {Absent}]
          /\ \A a \in Attempts : Exists(attempt[a]) <=> Exists(attempt'[a])
      BY <1>11, CancelIsUnpaid DEF CancelOrderPayments, TypeOK
    <2>2. /\ intent' \in [Intents -> StoredStatuses \cup {Absent}]
          /\ \A j \in Intents : Exists(intent[j]) => Exists(intent'[j])
      BY <1>11, CancelIsUnpaid DEF CancelOrderPayments, TypeOK
    <2> QED
      BY <1>11, <2>1, <2>2, FrameLinked DEF CancelOrderPayments, TypeOK
  <1>12. ASSUME NEW a \in Attempts, ClosePaymentAttempt(a)
         PROVE  TypeOK' /\ Linked'
    <2>1. /\ attempt' \in [Attempts -> StoredStatuses \cup {Absent}]
          /\ \A x \in Attempts : Exists(attempt[x]) <=> Exists(attempt'[x])
      BY <1>12 DEF ClosePaymentAttempt, TypeOK, IsActive, Exists, Absent, StoredStatuses,
         WireStatuses
    <2>2. /\ intent' \in [Intents -> StoredStatuses \cup {Absent}]
          /\ \A j \in Intents : Exists(intent[j]) => Exists(intent'[j])
      BY <1>12, CancelIsUnpaid DEF ClosePaymentAttempt, TypeOK
    <2> QED
      BY <1>12, <2>1, <2>2, FrameLinked DEF ClosePaymentAttempt, TypeOK
  <1>13. ASSUME NEW i \in Intents, ClosePaymentIntent(i)
         PROVE  TypeOK' /\ Linked'
    <2>1. /\ intent' \in [Intents -> StoredStatuses \cup {Absent}]
          /\ \A j \in Intents : Exists(intent[j]) => Exists(intent'[j])
      BY <1>13 DEF ClosePaymentIntent, TypeOK, Exists, Absent, StoredStatuses, WireStatuses
    <2> QED
      BY <1>13, <2>1, FrameLinked DEF ClosePaymentIntent, TypeOK
  <1>14. ASSUME NEW a \in Attempts, CloseAttempt(a)
         PROVE  TypeOK' /\ Linked'
    <2>1. /\ attempt' \in [Attempts -> StoredStatuses \cup {Absent}]
          /\ \A x \in Attempts : Exists(attempt[x]) <=> Exists(attempt'[x])
      BY <1>14 DEF CloseAttempt, TypeOK, IsActive, Exists, Absent, StoredStatuses, WireStatuses
    <2>2. /\ intent' \in [Intents -> StoredStatuses \cup {Absent}]
          /\ \A j \in Intents : Exists(intent[j]) => Exists(intent'[j])
      BY <1>14, CancelIsUnpaid DEF CloseAttempt, TypeOK
    <2> QED
      BY <1>14, <2>1, <2>2, FrameLinked DEF CloseAttempt, TypeOK
  <1>15. ASSUME NEW a \in Attempts, ClaimDueAttempt(a)
         PROVE  TypeOK' /\ Linked'
    <2>1. /\ attempt' \in [Attempts -> StoredStatuses \cup {Absent}]
          /\ \A x \in Attempts : Exists(attempt[x]) <=> Exists(attempt'[x])
      BY <1>15 DEF ClaimDueAttempt, TypeOK, Exists, Absent, StoredStatuses, WireStatuses
    <2> QED
      BY <1>15, <2>1, FrameLinked DEF ClaimDueAttempt, TypeOK
  <1>16. ASSUME NEW e \in Events, IngestUnmatchedWebhook(e)
         PROVE  TypeOK' /\ Linked'
    <2>1. TypeOK' /\ \A x \in Events : event'[x] # "unsent" => event[x] # "unsent"
      BY <1>16 DEF IngestUnmatchedWebhook, Matched, TypeOK
    <2> QED
      BY <1>16, <2>1, FrameLinked DEF IngestUnmatchedWebhook, Matched
  <1>17. ASSUME NEW e \in Events, IngestProviderWebhook(e)
         PROVE  TypeOK' /\ Linked'
    <2>1. /\ notice[e].attempt \in Attempts /\ Exists(attempt[notice[e].attempt])
          /\ notice[e].status \in NoticeStatuses /\ notice[e].agrees \in BOOLEAN
          /\ e \in Reports
      BY <1>17 DEF IngestProviderWebhook, Matched, TypeOK, Linked, Notices, Reports
    <2>2. ApplyPaymentStatus(notice[e].attempt, notice[e].status, notice[e].agrees, e)
      BY <1>17 DEF IngestProviderWebhook, Matched
    <2>3. TypeOK' /\ \A x \in Events : event'[x] # "unsent" => event[x] # "unsent"
      BY <1>17, <2>1, <2>2, ApplyTyped DEF IngestProviderWebhook, Matched, TypeOK
    <2> QED
      BY <1>17, <2>1, <2>2, <2>3, ApplyTyped, FrameLinked DEF IngestProviderWebhook, Matched
  <1>18. ASSUME NEW e \in Events, ReplayStoredWebhook(e)
         PROVE  TypeOK' /\ Linked'
    <2>1. /\ notice[e].attempt \in Attempts /\ Exists(attempt[notice[e].attempt])
          /\ notice[e].status \in NoticeStatuses /\ notice[e].agrees \in BOOLEAN
          /\ e \in Reports
      BY <1>18 DEF ReplayStoredWebhook, Matched, TypeOK, Linked, Notices, Reports
    <2>2. ApplyPaymentStatus(notice[e].attempt, notice[e].status, notice[e].agrees, e)
      BY <1>18 DEF ReplayStoredWebhook, Matched
    <2>3. replays' \in [Events -> 0..MaxReplays]
      BY <1>18, ReplayAssumption DEF ReplayStoredWebhook, Matched, MayReplay, TypeOK
    <2>4. TypeOK' /\ \A x \in Events : event'[x] # "unsent" => event[x] # "unsent"
      BY <1>18, <2>1, <2>2, <2>3, ApplyTyped DEF ReplayStoredWebhook, Matched, TypeOK
    <2> QED
      BY <1>18, <2>1, <2>2, <2>4, ApplyTyped, FrameLinked DEF ReplayStoredWebhook, Matched
  <1>19. ASSUME NEW a \in Attempts, NEW s \in NoticeStatuses, NEW ok \in BOOLEAN,
                CheckAttemptStatus(a, s, ok)
         PROVE  TypeOK' /\ Linked'
    <2>1. "queried" \in Reports
      BY DEF Reports
    <2>2. Exists(attempt[a]) /\ ApplyPaymentStatus(a, s, ok, "queried")
      BY <1>19 DEF CheckAttemptStatus
    <2>3. TypeOK'
      BY <1>19, <2>1, <2>2, ApplyTyped DEF CheckAttemptStatus, TypeOK
    <2> QED
      BY <1>19, <2>1, <2>2, <2>3, ApplyTyped, FrameLinked DEF CheckAttemptStatus
  <1>20. ASSUME NEW a \in Attempts, ConfirmOwnerOrderPayment(a)
         PROVE  TypeOK' /\ Linked'
    <2>1. intentOf[a] \in Intents
      BY <1>20 DEF ConfirmOwnerOrderPayment, MayConfirm, TypeOK, Linked
    <2>2. /\ attempt' \in [Attempts -> StoredStatuses \cup {Absent}]
          /\ \A x \in Attempts : Exists(attempt[x]) <=> Exists(attempt'[x])
      BY <1>20 DEF ConfirmOwnerOrderPayment, MayConfirm, TypeOK, Exists, Absent, StoredStatuses, WireStatuses
    <2>3. /\ intent' \in [Intents -> StoredStatuses \cup {Absent}]
          /\ \A j \in Intents : Exists(intent[j]) => Exists(intent'[j])
      BY <1>20, <2>1 DEF ConfirmOwnerOrderPayment, MayConfirm, TypeOK, Exists, Absent, StoredStatuses,
         WireStatuses
    <2>4. paidAt' \in [Attempts -> Reports \cup {None}]
      BY <1>20 DEF ConfirmOwnerOrderPayment, MayConfirm, TypeOK, Stamped, Reports
    <2> QED
      BY <1>20, <2>2, <2>3, <2>4, FrameLinked DEF ConfirmOwnerOrderPayment, MayConfirm, TypeOK
  <1>21. CASE UNCHANGED vars
    BY <1>21 DEF TypeOK, Linked, Exists
  <1> QED
    BY <1>1, <1>2, <1>3, <1>4, <1>5, <1>6, <1>7, <1>8, <1>9, <1>10, <1>11, <1>12, <1>13,
       <1>14, <1>15, <1>16, <1>17, <1>18, <1>19, <1>20, <1>21
    DEF Next, Environment, Creating, Closing, Settling

\* Rows, requests and webhook events keep their types, and no reference between
\* them dangles, whatever the transactions and their order.
THEOREM TypeCorrect == Spec => [](TypeOK /\ Linked)
  BY InitTyped, StepTyped, PTL DEF Spec

-----------------------------------------------------------------------------
(***************************************************************************)
(* What a transaction may do to the money.                                 *)
(***************************************************************************)

\* No payment becomes or ceases to be paid.
UnpaidStep ==
    /\ UNCHANGED paidAt
    /\ \A i \in Intents : IsSuccess(intent'[i]) <=> IsSuccess(intent[i])
    /\ \A a \in Attempts : IsSuccess(attempt'[a]) <=> IsSuccess(attempt[a])

Opens(a, i) ==
    /\ intentOf[a] = None
    /\ intentOf' = [intentOf EXCEPT ![a] = i]

\* One attempt and its intent are paid together, because of report r.
Captures(a, r) ==
    /\ intentOf[a] \in Intents
    /\ paidAt[a] = None
    /\ paidAt' = [paidAt EXCEPT ![a] = r]
    /\ \A i \in Intents : IsSuccess(intent'[i]) <=> IsSuccess(intent[i]) \/ i = intentOf[a]
    /\ \A x \in Attempts : IsSuccess(attempt'[x]) <=> IsSuccess(attempt[x]) \/ x = a
    /\ UNCHANGED intentOf

RowStep ==
    \/ UnpaidStep /\ UNCHANGED intentOf
    \/ \E a \in Attempts, i \in Intents : UnpaidStep /\ Opens(a, i)
    \/ \E a \in Attempts, r \in Reports : Captures(a, r)

\* Status application captures the attempt it is about, and only when the status
\* is a success that was not refused; otherwise no payment is paid or unpaid.
LEMMA ApplyKind ==
    ASSUME TypeOK, Linked, SettledTogether, PaidAtMarksSuccess,
           NEW a \in Attempts, Exists(attempt[a]),
           NEW status \in NoticeStatuses, NEW agrees \in BOOLEAN, NEW by \in Reports,
           ApplyPaymentStatus(a, status, agrees, by)
    PROVE  \/ UnpaidStep /\ UNCHANGED intentOf
           \/ Captures(a, by) /\ status = "succeeded" /\ agrees
  <1> DEFINE i == intentOf[a]
  <1>1. i \in Intents /\ Exists(intent[i])
    BY DEF TypeOK, Linked
  <1>2. intent[i] \in StoredStatuses /\ attempt[a] \in StoredStatuses
    BY <1>1 DEF TypeOK, Exists
  <1>3. IsSuccess(attempt[a]) => IsSuccess(intent[i])
    BY <1>1 DEF SettledTogether, AttemptsOf
  <1>4. CASE status = "succeeded" /\ agrees
    <2>1. /\ intent' = [intent EXCEPT ![i] = status] /\ UNCHANGED intentOf
          /\ attempt' = [attempt EXCEPT ![a] = status]
          /\ paidAt' = IF attempt[a] # status
                       THEN [paidAt EXCEPT ![a] = Stamped(@, status, by)] ELSE paidAt
      BY <1>2, <1>4, SuccessDominates
      DEF ApplyPaymentStatus, Refused, IntentAccepts, AttemptAccepts, Targets
    <2>2. CASE IsSuccess(attempt[a])
      <3>1. UNCHANGED <<attempt, intent, paidAt, intentOf>>
        BY <1>1, <1>3, <1>4, <2>1, <2>2 DEF IsSuccess, TypeOK
      <3> QED
        BY <3>1 DEF UnpaidStep
    <2>3. CASE ~IsSuccess(attempt[a])
      <3>1. paidAt[a] = None
        BY <2>3 DEF PaidAtMarksSuccess
      <3>2. paidAt' = [paidAt EXCEPT ![a] = by]
        BY <1>4, <2>1, <2>3, <3>1 DEF Stamped, TypeOK, IsSuccess
      <3> QED
        BY <1>1, <1>4, <2>1, <3>1, <3>2 DEF Captures, IsSuccess, TypeOK
    <2> QED
      BY <2>2, <2>3
  <1>5. CASE ~(status = "succeeded" /\ agrees)
    <2>1. CASE UNCHANGED rows
      BY <2>1 DEF rows, UnpaidStep
    <2>2. CASE ~UNCHANGED rows
      <3>1. status \in Targets /\ status # "succeeded" /\ IntentAccepts(a, status)
        BY <1>5, <2>2 DEF ApplyPaymentStatus, Refused, rows
      <3>2. ~IsSuccess(intent[i]) /\ ~IsSuccess(attempt[a])
        BY <1>2, <1>3, <3>1, SuccessDominates DEF IntentAccepts, IsSuccess
      <3>3. UNCHANGED paidAt
        BY <3>1 DEF ApplyPaymentStatus, Stamped, TypeOK
      <3> QED
        BY <1>1, <3>1, <3>2, <3>3 DEF ApplyPaymentStatus, UnpaidStep, IsSuccess, TypeOK
    <2> QED
      BY <2>1, <2>2
  <1> QED
    BY <1>4, <1>5

\* Manual confirmation captures the attempt it selects, as "confirmed".
LEMMA ConfirmKind ==
    ASSUME TypeOK, Linked, SettledTogether, PaidAtMarksSuccess,
           NEW a \in Attempts, ConfirmOwnerOrderPayment(a)
    PROVE  Captures(a, "confirmed")
  <1>1. intentOf[a] \in Intents
    BY DEF ConfirmOwnerOrderPayment, MayConfirm, TypeOK, Linked
  <1>2. paidAt[a] = None
    BY DEF ConfirmOwnerOrderPayment, MayConfirm, PaidAtMarksSuccess, IsActive, IsSuccess
  <1>3. paidAt' = [paidAt EXCEPT ![a] = "confirmed"]
    BY <1>2 DEF ConfirmOwnerOrderPayment, MayConfirm, Stamped, TypeOK
  <1> QED
    BY <1>1, <1>2, <1>3 DEF ConfirmOwnerOrderPayment, MayConfirm, Captures, IsSuccess, TypeOK

\* An insert of an attempt pays nothing, provided its intent's row pays nothing.
LEMMA InsertUnpaid ==
    ASSUME TypeOK, Linked, NEW a \in Attempts, NEW i \in Intents, InsertAttempt(a, i),
           \A j \in Intents : IsSuccess(intent'[j]) <=> IsSuccess(intent[j])
    PROVE  UnpaidStep /\ Opens(a, i)
  BY DEF InsertAttempt, UnpaidStep, Opens, TypeOK, Linked, Exists, Absent, IsSuccess

\* Every transaction does one of the three things.
LEMMA StepKinds ==
    TypeOK /\ Linked /\ SettledTogether /\ PaidAtMarksSuccess /\ [Next]_vars => RowStep
  <1> SUFFICES ASSUME TypeOK, Linked, SettledTogether, PaidAtMarksSuccess, [Next]_vars
               PROVE  RowStep
    OBVIOUS
  <1>1. ASSUME UNCHANGED rows
        PROVE  RowStep
    BY <1>1 DEF rows, RowStep, UnpaidStep
  <1>2. CASE Environment
    BY <1>1, <1>2 DEF Environment, OrderLeavesPayable, ProviderNotifies
  <1>3. ASSUME NEW i \in Intents, NEW a \in Attempts, PayOwnerOrder(i, a)
        PROVE  RowStep
    <2>1. \A j \in Intents : IsSuccess(intent'[j]) <=> IsSuccess(intent[j])
      <3>1. ~Exists(intent[i])
        BY <1>3, OrderAssumption DEF PayOwnerOrder, IntentNumberFree
      <3> QED
        BY <1>3, <3>1 DEF PayOwnerOrder, TypeOK, IsSuccess, Exists, Absent
    <2> QED
      BY <1>3, <2>1, InsertUnpaid DEF PayOwnerOrder, RowStep
  <1>4. ASSUME NEW i \in Intents, CreateOwnerPaymentIntent(i)
        PROVE  RowStep
    <2>1. IntentNumberFree(i) => ~Exists(intent[i])
      BY OrderAssumption DEF IntentNumberFree
    <2>2. UnpaidStep
      BY <1>4, <2>1 DEF CreateOwnerPaymentIntent, UnpaidStep, TypeOK, IsSuccess, Exists, Absent
    <2> QED
      BY <1>4, <2>2 DEF CreateOwnerPaymentIntent, RowStep
  <1>5. ASSUME NEW a \in Attempts, CreateOwnerPaymentAttempt(a)
        PROVE  RowStep
    <2>1. creation[a].intent \in Intents
      BY <1>5 DEF CreateOwnerPaymentAttempt, Linked
    <2>2. \A j \in Intents : IsSuccess(intent'[j]) <=> IsSuccess(intent[j])
      BY <1>5, <2>1 DEF CreateOwnerPaymentAttempt, TypeOK, IsSuccess, IsActive
    <2> QED
      BY <1>5, <2>1, <2>2, InsertUnpaid DEF CreateOwnerPaymentAttempt, RowStep
  <1>6. ASSUME Creating
        PROVE  RowStep
    BY <1>1, <1>3, <1>4, <1>5, <1>6
    DEF Creating, BeginCreateOwnerPaymentIntent, ReadAttemptableIntent, ReadPayableOrder,
        AbandonCreation
  <1>7. ASSUME NEW i \in Intents, CancelOwnerPaymentIntent(i)
        PROVE  RowStep
    <2>1. \A a \in Attempts : IsSuccess(attempt'[a]) <=> IsSuccess(attempt[a])
      BY <1>7, CancelIsUnpaid DEF CancelOwnerPaymentIntent, TypeOK
    <2> QED
      BY <1>7, <2>1 DEF CancelOwnerPaymentIntent, RowStep, UnpaidStep, TypeOK, IsSuccess, IsActive
  <1>8. ASSUME NEW o \in Orders, CancelOrderPayments(o)
        PROVE  RowStep
    <2>1. \A a \in Attempts : IsSuccess(attempt'[a]) <=> IsSuccess(attempt[a])
      BY <1>8, CancelIsUnpaid DEF CancelOrderPayments, TypeOK
    <2>2. \A i \in Intents : IsSuccess(intent'[i]) <=> IsSuccess(intent[i])
      BY <1>8, CancelIsUnpaid DEF CancelOrderPayments, TypeOK
    <2> QED
      BY <1>8, <2>1, <2>2 DEF CancelOrderPayments, RowStep, UnpaidStep
  <1>9. ASSUME NEW a \in Attempts, ClosePaymentAttempt(a)
        PROVE  RowStep
    <2>1. \A i \in Intents : IsSuccess(intent'[i]) <=> IsSuccess(intent[i])
      BY <1>9, CancelIsUnpaid DEF ClosePaymentAttempt, TypeOK
    <2> QED
      BY <1>9, <2>1 DEF ClosePaymentAttempt, RowStep, UnpaidStep, TypeOK, IsSuccess, IsActive
  <1>10. ASSUME NEW i \in Intents, ClosePaymentIntent(i)
         PROVE  RowStep
    BY <1>10 DEF ClosePaymentIntent, RowStep, UnpaidStep, TypeOK, IsSuccess, IsActive
  <1>11. ASSUME NEW a \in Attempts, CloseAttempt(a)
         PROVE  RowStep
    <2>1. \A i \in Intents : IsSuccess(intent'[i]) <=> IsSuccess(intent[i])
      BY <1>11, CancelIsUnpaid DEF CloseAttempt, TypeOK
    <2> QED
      BY <1>11, <2>1 DEF CloseAttempt, RowStep, UnpaidStep, TypeOK, IsSuccess, IsActive
  <1>12. ASSUME NEW a \in Attempts, ClaimDueAttempt(a)
         PROVE  RowStep
    BY <1>12 DEF ClaimDueAttempt, RowStep, UnpaidStep, TypeOK, IsSuccess
  <1>13. ASSUME Closing
         PROVE  RowStep
    BY <1>7, <1>8, <1>9, <1>10, <1>11, <1>12, <1>13 DEF Closing
  <1>14. ASSUME NEW e \in Events, IngestProviderWebhook(e) \/ ReplayStoredWebhook(e)
         PROVE  RowStep
    <2>1. /\ notice[e].attempt \in Attempts /\ Exists(attempt[notice[e].attempt])
          /\ notice[e].status \in NoticeStatuses /\ notice[e].agrees \in BOOLEAN
          /\ e \in Reports
      BY <1>14 DEF IngestProviderWebhook, Matched, ReplayStoredWebhook, Matched, TypeOK, Linked, Notices, Reports
    <2>2. ApplyPaymentStatus(notice[e].attempt, notice[e].status, notice[e].agrees, e)
      BY <1>14 DEF IngestProviderWebhook, Matched, ReplayStoredWebhook, Matched
    <2> QED
      BY <2>1, <2>2, ApplyKind DEF RowStep
  <1>15. ASSUME NEW a \in Attempts, NEW s \in NoticeStatuses, NEW ok \in BOOLEAN,
                CheckAttemptStatus(a, s, ok)
         PROVE  RowStep
    <2>1. "queried" \in Reports
      BY DEF Reports
    <2> QED
      BY <1>15, <2>1, ApplyKind DEF CheckAttemptStatus, RowStep
  <1>16. ASSUME NEW a \in Attempts, ConfirmOwnerOrderPayment(a)
         PROVE  RowStep
    BY <1>16, ConfirmKind DEF Reports, RowStep
  <1>17. ASSUME Settling
         PROVE  RowStep
    BY <1>1, <1>14, <1>15, <1>16, <1>17 DEF Settling, IngestUnmatchedWebhook, Matched
  <1> QED
    BY <1>1, <1>2, <1>6, <1>13, <1>17 DEF Next, vars

-----------------------------------------------------------------------------
(***************************************************************************)
(* The row invariants.                                                     *)
(***************************************************************************)

RowInv == TypeOK /\ Linked /\ SettledTogether /\ PaidAtMarksSuccess

LEMMA InitRowInv == Init => RowInv
  <1> SUFFICES ASSUME Init
               PROVE  RowInv
    OBVIOUS
  <1>1. SettledTogether /\ PaidAtMarksSuccess
    BY DEF Init, SettledTogether, PaidAtMarksSuccess, AttemptsOf, IsSuccess, Absent
  <1> QED
    BY <1>1, InitTyped DEF RowInv

\* Each kind of step keeps intents and attempts settled together, and dated.
LEMMA KindKeepsSettled ==
    ASSUME TypeOK, Linked, TypeOK', Linked', SettledTogether, PaidAtMarksSuccess, RowStep
    PROVE  SettledTogether' /\ PaidAtMarksSuccess'
  <1>1. CASE UnpaidStep /\ UNCHANGED intentOf
    BY <1>1 DEF UnpaidStep, SettledTogether, PaidAtMarksSuccess, AttemptsOf
  <1>2. ASSUME NEW a \in Attempts, NEW i \in Intents, UnpaidStep, Opens(a, i)
        PROVE  SettledTogether' /\ PaidAtMarksSuccess'
    <2>1. ~IsSuccess(attempt[a])
      BY <1>2 DEF Opens, Linked, Exists, IsSuccess, Absent
    <2>2. \A x \in Attempts, j \in Intents :
             IsSuccess(attempt[x]) => (intentOf'[x] = j <=> intentOf[x] = j)
      BY <1>2, <2>1 DEF Opens, TypeOK
    <2> QED
      BY <1>2, <2>2 DEF UnpaidStep, SettledTogether, PaidAtMarksSuccess, AttemptsOf
  <1>3. ASSUME NEW a \in Attempts, NEW r \in Reports, Captures(a, r)
        PROVE  SettledTogether' /\ PaidAtMarksSuccess'
    <2>1. r # None
      BY NoneAssumption DEF Reports
    <2>2. PaidAtMarksSuccess'
      BY <1>3, <2>1 DEF Captures, PaidAtMarksSuccess, TypeOK
    <2>3. SettledTogether'
      BY <1>3 DEF Captures, SettledTogether, AttemptsOf
    <2> QED
      BY <2>2, <2>3
  <1> QED
    BY <1>1, <1>2, <1>3 DEF RowStep

LEMMA StepRowInv == RowInv /\ [Next]_vars => RowInv'
  BY StepTyped, StepKinds, KindKeepsSettled DEF RowInv

LEMMA RowInvariant == Spec => []RowInv
  BY InitRowInv, StepRowInv, PTL DEF Spec

\* An intent counts as paid exactly when one of its attempts does, in every
\* interleaving of checkout, closing, webhooks, replays and confirmations.
THEOREM SettledTogetherAlways == Spec => []SettledTogether
  BY RowInvariant, PTL DEF RowInv

\* A payment time stands on settled attempts and on no others.
THEOREM PaidAtAlwaysMarksSuccess == Spec => []PaidAtMarksSuccess
  BY RowInvariant, PTL DEF RowInv

-----------------------------------------------------------------------------
(***************************************************************************)
(* A capture that is owed to a webhook event is owed to a success notice.  *)
(***************************************************************************)

\* Applying event e settles at most its own attempt, and only on a success notice.
LEMMA ApplyNotified ==
    ASSUME RowInv, SettlementIsNotified, NEW e \in Events, event[e] # "unsent",
           notice[e].attempt # None,
           ApplyPaymentStatus(notice[e].attempt, notice[e].status, notice[e].agrees, e),
           UNCHANGED notice,
           event' = [event EXCEPT ![e] =
                        IF Refused(notice[e].status, notice[e].agrees) THEN "failed" ELSE "processed"]
    PROVE  SettlementIsNotified'
  <1> DEFINE n == notice[e]
  <1> USE DEF RowInv
  <1>1. /\ n.attempt \in Attempts /\ Exists(attempt[n.attempt])
        /\ n.status \in NoticeStatuses /\ n.agrees \in BOOLEAN /\ e \in Reports
    BY DEF TypeOK, Linked, Notices, Reports
  <1>2. \A x \in Events : event[x] = "processed" /\ notice[x].status = "succeeded"
                             /\ notice[x].agrees => event'[x] = "processed"
    BY DEF TypeOK, Refused
  <1>3. CASE UnpaidStep /\ UNCHANGED intentOf
    BY <1>2, <1>3 DEF UnpaidStep, SettlementIsNotified
  <1>4. CASE Captures(n.attempt, e) /\ n.status = "succeeded" /\ n.agrees
    <2>1. event'[e] = "processed"
      BY <1>4 DEF Refused, TypeOK
    <2>2. \A a \in Attempts : paidAt'[a] = IF a = n.attempt THEN e ELSE paidAt[a]
      BY <1>4 DEF Captures, TypeOK
    <2>3. SUFFICES ASSUME NEW a \in Attempts, NEW x \in Events, paidAt'[a] = x
                   PROVE  /\ notice[x].attempt = a /\ notice[x].status = "succeeded"
                          /\ notice[x].agrees /\ event'[x] = "processed"
      BY DEF SettlementIsNotified
    <2>4. CASE a = n.attempt
      BY <1>4, <2>1, <2>2, <2>3, <2>4
    <2>5. CASE a # n.attempt
      BY <1>2, <2>2, <2>3, <2>5 DEF SettlementIsNotified
    <2> QED
      BY <2>4, <2>5
  <1> QED
    BY <1>1, <1>3, <1>4, ApplyKind

LEMMA StepNotified ==
    RowInv /\ SettlementIsNotified /\ [Next]_vars => SettlementIsNotified'
  <1> SUFFICES ASSUME RowInv, SettlementIsNotified, [Next]_vars
               PROVE  SettlementIsNotified'
    OBVIOUS
  <1>1. ASSUME UNCHANGED <<paidAt, notice, event>>
        PROVE  SettlementIsNotified'
    BY <1>1 DEF SettlementIsNotified
  <1>2. CASE Creating \/ Closing
    BY <1>1, <1>2
    DEF Creating, PayOwnerOrder, BeginCreateOwnerPaymentIntent, CreateOwnerPaymentIntent,
        ReadAttemptableIntent, ReadPayableOrder, CreateOwnerPaymentAttempt, AbandonCreation,
        InsertAttempt, Closing, CancelOwnerPaymentIntent, CancelOrderPayments,
        ClosePaymentAttempt, ClosePaymentIntent, CloseAttempt, ClaimDueAttempt,
        rows, webhooks
  <1>3. ASSUME NEW o \in Orders, OrderLeavesPayable(o)
        PROVE  SettlementIsNotified'
    BY <1>1, <1>3 DEF OrderLeavesPayable, rows, webhooks
  <1>4. ASSUME NEW e \in Events, NEW n \in Notices, ProviderNotifies(e, n)
        PROVE  SettlementIsNotified'
    BY <1>4 DEF ProviderNotifies, SettlementIsNotified, RowInv, TypeOK, rows
  <1>5. ASSUME NEW e \in Events, IngestUnmatchedWebhook(e)
        PROVE  SettlementIsNotified'
    <2>1. \A x \in Events : event[x] = "processed" => event'[x] = "processed"
      BY <1>5 DEF IngestUnmatchedWebhook, Matched, RowInv, TypeOK
    <2> QED
      BY <1>5, <2>1 DEF IngestUnmatchedWebhook, Matched, SettlementIsNotified, rows
  <1>6. ASSUME NEW e \in Events, IngestProviderWebhook(e)
        PROVE  SettlementIsNotified'
    BY <1>6, ApplyNotified DEF IngestProviderWebhook, Matched
  <1>7. ASSUME NEW e \in Events, ReplayStoredWebhook(e)
        PROVE  SettlementIsNotified'
    BY <1>7, ApplyNotified DEF ReplayStoredWebhook, Matched
  <1>8. ASSUME NEW a \in Attempts, NEW r \in {"confirmed", "queried"}, Captures(a, r),
               UNCHANGED webhooks
        PROVE  SettlementIsNotified'
    <2>1. \A x \in Attempts, e \in Events : paidAt'[x] = e => paidAt[x] = e
      BY <1>8, EventAssumption DEF Captures, RowInv, TypeOK
    <2> QED
      BY <1>8, <2>1 DEF SettlementIsNotified, webhooks
  <1>9. ASSUME NEW a \in Attempts, NEW s \in NoticeStatuses, NEW ok \in BOOLEAN,
               CheckAttemptStatus(a, s, ok)
        PROVE  SettlementIsNotified'
    <2>1. \/ UnpaidStep /\ UNCHANGED intentOf
          \/ Captures(a, "queried")
      BY <1>9, ApplyKind DEF CheckAttemptStatus, RowInv, Reports
    <2> QED
      BY <1>1, <1>8, <1>9, <2>1 DEF UnpaidStep, CheckAttemptStatus, webhooks
  <1>10. ASSUME NEW a \in Attempts, ConfirmOwnerOrderPayment(a)
         PROVE  SettlementIsNotified'
    BY <1>8, <1>10, ConfirmKind DEF ConfirmOwnerOrderPayment, MayConfirm, RowInv
  <1>11. CASE UNCHANGED vars
    BY <1>1, <1>11 DEF vars, rows, webhooks
  <1> QED
    BY <1>2, <1>3, <1>4, <1>5, <1>6, <1>7, <1>9, <1>10, <1>11 DEF Next, Environment, Settling

\* Whatever a webhook, its redelivery or its replay settled had been notified as
\* paid, for that attempt and that amount, and its event stays processed.
THEOREM SettlementAlwaysNotified == Spec => []SettlementIsNotified
  <1>1. Init => SettlementIsNotified
    BY NoneAssumption DEF Init, SettlementIsNotified
  <1> QED
    BY <1>1, RowInvariant, StepNotified, PTL DEF Spec

-----------------------------------------------------------------------------
(***************************************************************************)
(* The tables implement the ledger.                                        *)
(***************************************************************************)

LEMMA InitLedger == Init => Ledger!LedgerInit
  BY DEF Init, Ledger!LedgerInit, IsSuccess, Absent

LEMMA StepLedger == RowInv /\ [Next]_vars => [Ledger!LedgerNext]_(Ledger!ledgerVars)
  <1> SUFFICES ASSUME RowInv, [Next]_vars
               PROVE  [Ledger!LedgerNext]_(Ledger!ledgerVars)
    OBVIOUS
  <1> DEFINE paid == {i \in Intents : IsSuccess(intent[i])}
  <1>1. CASE UnpaidStep /\ UNCHANGED intentOf
    BY <1>1 DEF UnpaidStep, Ledger!ledgerVars
  <1>2. ASSUME NEW a \in Attempts, NEW i \in Intents, UnpaidStep, Opens(a, i)
        PROVE  Ledger!LedgerNext
    <2>1. Ledger!Open(a, i)
      BY <1>2 DEF UnpaidStep, Opens, Ledger!Open
    <2> QED
      BY <2>1 DEF Ledger!LedgerNext
  <1>3. ASSUME NEW a \in Attempts, NEW r \in Reports, Captures(a, r)
        PROVE  Ledger!LedgerNext
    <2>1. paid' = paid \cup {intentOf[a]}
      BY <1>3 DEF Captures
    <2>2. Ledger!Capture(a, r)
      BY <1>3, <2>1 DEF Captures, Ledger!Capture
    <2> QED
      BY <2>2 DEF Ledger!LedgerNext
  <1> QED
    BY <1>1, <1>2, <1>3, StepKinds DEF RowInv, RowStep

\* Every behaviour of the payment tables is a behaviour of the capture ledger:
\* one capture per attempt, never revoked, and the intent paid in the same step.
THEOREM LedgerImplemented == Spec => ImplementsCaptureLedger
  BY InitLedger, StepLedger, RowInvariant, PTL DEF Spec, ImplementsCaptureLedger, Ledger!LedgerSpec
=============================================================================
