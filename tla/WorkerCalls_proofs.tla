--------------------------- MODULE WorkerCalls_proofs ---------------------------
(***************************************************************************)
(* Proofs about ProviderCalls, for any providers, any refunds and any      *)
(* number of attempts: a refund is made once, and what is recorded is true *)
(* at the provider.  Then proofs about CompensationWorker, which makes     *)
(* many of these calls, for any rows, tenants, workers, limits and faults: *)
(* a fresh row is in one batch only.  The two specifications share no      *)
(* variable and no definition.                                             *)
(***************************************************************************)
EXTENDS ProviderCalls, CompensationWorker, TLAPS

(***************************************************************************)
(* The calls: what the invariant says of each part of the state.           *)
(***************************************************************************)
AllOps == {"create", "cancel", "refund", "query", "query_refund"}
RefundOps == {"refund", "query_refund"}
Readings == {"unsent", "error", "opened", "closed", "closed as absent", "absent",
             "succeeded", "failed", "canceled", "pending", "processing", "unknown"}
Calls == [phase : {"idle", "waiting", "answered"}, op : AllOps \cup {None}, no : Refunds \cup {None},
          known : BOOLEAN, try : 1 .. RetryAttempts, reading : Readings \cup {None}]
Requests == [op : AllOps, no : Refunds \cup {None}, known : BOOLEAN, key : AllOps \X (Refunds \cup {None})]
Made(k) == [no : Refunds, key : {"refund"} \X Refunds, status : RefundStarts[k] \cup RefundEnds[k]]

\* The numbers of the refunds that were made, and of those that have succeeded.
Numbers(refunds) == {refunds[i].no : i \in DOMAIN refunds}
Done(refunds) == {refunds[i].no : i \in {j \in DOMAIN refunds : refunds[j].status \in RefundDone}}

\* The refunds: one for each number, which is also in the key, and all of a payment that is settled.
RefundsAre(k, refunds, state) ==
    /\ refunds \in Seq(Made(k))
    /\ \A i \in DOMAIN refunds : refunds[i].key = <<"refund", refunds[i].no>>
    /\ \A i, j \in DOMAIN refunds : refunds[i].no = refunds[j].no => i = j
    /\ refunds # <<>> => state = "succeeded"

\* The trade: a paid one was charged, and one that was charged is closed by its refunds only.
TradeIs(k, t, paid, state) ==
    /\ k \in Kinds /\ t \in TradeStatuses /\ paid \in BOOLEAN
    /\ t \in PaidAs => paid
    /\ paid => t \in PaidAs \/ (t = ClosedAs[k] /\ state = "succeeded")

\* A request, on its way or in the hands of a client.
RequestIs(q, k, state) ==
    /\ q \in Requests /\ q.key = <<q.op, q.no>> /\ k # "paypal"
    /\ k # "stripe" => q.known
    /\ k = "stripe" /\ q.known => q.op \in {"create", "query"}
    /\ q.op \in RefundOps => q.no \in Refunds /\ state = "succeeded"

\* A call: what it has been told is true and remains true.
CallIs(x, k, t, paid, refunds, state) ==
    /\ x \in Calls
    /\ x.phase # "idle" => x.op \in AllOps /\ (x.op \in RefundOps => x.no \in Refunds)
    /\ x.phase = "waiting" => RequestIs([op |-> x.op, no |-> x.no, known |-> x.known, key |-> <<x.op, x.no>>], k, state)
    /\ x.phase = "answered" => x.reading \in Readings
    /\ x.phase = "answered" /\ x.op = "query" =>
          /\ x.reading = "succeeded" => paid
          /\ x.reading = "canceled" => t = ClosedAs[k]
          /\ x.reading \notin {"failed", "closed"}
    /\ x.phase = "answered" /\ x.op = "cancel" /\ x.reading = "closed" => t = ClosedAs[k]
    /\ x.phase = "answered" /\ x.op \in RefundOps /\ x.reading = "succeeded" => x.no \in Done(refunds)

\* What is recorded.
RecordIs(k, t, paid, refunds, state, unfound, done) ==
    /\ state \in {"pending", "succeeded", "canceled"}
    /\ state = "succeeded" => paid
    /\ state = "canceled" /\ ~unfound => ~paid /\ t = ClosedAs[k]
    /\ done \subseteq Done(refunds)

IInv ==
    /\ {native, presumed, reconciled} \subseteq BOOLEAN
    /\ RefundsAre(kind, made, attempt)
    /\ TradeIs(kind, trade, charged, attempt)
    /\ \A q \in wire : RequestIs(q, kind, attempt)
    /\ call \in [Clients -> Calls]
    /\ \A c \in Clients : CallIs(call[c], kind, trade, charged, made, attempt)
    /\ RecordIs(kind, trade, charged, made, attempt, presumed, refunded)

-----------------------------------------------------------------------------
(***************************************************************************)
(* What the tables say.                                                    *)
(***************************************************************************)

LEMMA KindsAre == Kinds \subseteq {"stripe", "alipay", "wechat_pay", "paypal"}
  BY KindsAssumption DEF ProviderCodes

LEMMA TradeNames ==
    ASSUME NEW k \in Kinds
    PROVE  /\ TradeStatuses \subseteq
                {"absent", "succeeded", "trade_success", "trade_finished", "success", "refund", "completed",
                 "requires_payment_method", "wait_buyer_pay", "notpay", "created", "canceled", "trade_closed", "closed",
                 "voided", "processing", "userpaying"}
           /\ OpenedAs[k] \in TradeStatuses \ PaidAs /\ ClosedAs[k] \in TradeStatuses \ PaidAs
           /\ ClosedAs[k] \notin Cancelable \cup {Absent} /\ OpenedAs[k] # ClosedAs[k]
           /\ PaidAs \subseteq TradeStatuses
           /\ \A m \in PayerMoves : m[1] \in TradeStatuses \ PaidAs /\ m[2] \in TradeStatuses /\ ClosedAs[k] \notin {m[1], m[2]}
  <1>1. \A j \in Kinds : OpenedAs[j] \in {"requires_payment_method", "wait_buyer_pay", "notpay", "created"}
                         /\ ClosedAs[j] \in {"canceled", "trade_closed", "closed", "voided"}
    BY KindsAre DEF OpenedAs, ClosedAs
  <1>2. {m[1] : m \in PayerMoves} = {"requires_payment_method", "processing", "wait_buyer_pay", "notpay", "userpaying"}
    BY DEF PayerMoves
  <1>3. \A m \in PayerMoves : m[1] \in {"requires_payment_method", "processing", "wait_buyer_pay", "notpay", "userpaying"}
                 /\ m[2] \in {"processing", "requires_payment_method", "succeeded", "trade_success", "userpaying", "notpay", "success"}
    BY DEF PayerMoves
  <1>4. PaidAs \subseteq TradeStatuses /\ OpenedAs[k] \in TradeStatuses /\ ClosedAs[k] \in TradeStatuses
        /\ {m[1] : m \in PayerMoves} \subseteq TradeStatuses
    BY DEF TradeStatuses
  <1>5. TradeStatuses \subseteq
                {"absent", "succeeded", "trade_success", "trade_finished", "success", "refund", "completed",
                 "requires_payment_method", "wait_buyer_pay", "notpay", "created", "canceled", "trade_closed", "closed",
                 "voided", "processing", "userpaying"}
    BY <1>1, <1>2 DEF TradeStatuses, PaidAs, Absent
  <1>6. \A m \in PayerMoves : m[1] \in TradeStatuses \ PaidAs /\ m[2] \in TradeStatuses /\ ClosedAs[k] \notin {m[1], m[2]}
    BY <1>1, <1>2, <1>3, <1>4 DEF PaidAs
  <1>7. OpenedAs[k] \notin PaidAs /\ ClosedAs[k] \notin PaidAs \cup Cancelable \cup {Absent} /\ OpenedAs[k] # ClosedAs[k]
    BY <1>1 DEF PaidAs, Cancelable, Absent
  <1> QED
    BY <1>4, <1>5, <1>6, <1>7

\* A provider's own word about a trade.
LEMMA PaymentReading ==
    ASSUME kind \in Kinds, kind # "paypal", NEW raw \in TradeStatuses
    PROVE  /\ Target(PaymentTargets, raw, "unknown") \in {"succeeded", "canceled", "pending", "unknown"}
           /\ Target(PaymentTargets, raw, "unknown") = "succeeded" => raw \in PaidAs
           /\ Target(PaymentTargets, raw, "unknown") = "canceled" => raw = ClosedAs[kind]
  <1>1. raw \notin {"revoked", "payerror"}
    BY TradeNames
  <1>2. CASE kind = "stripe"
    BY <1>2 DEF Target, PaymentTargets, PaidAs, ClosedAs
  <1>3. CASE kind = "alipay"
    BY <1>3 DEF Target, PaymentTargets, PaidAs, ClosedAs
  <1>4. CASE kind = "wechat_pay"
    BY <1>1, <1>4 DEF Target, PaymentTargets, PaidAs, ClosedAs
  <1> QED
    BY <1>2, <1>3, <1>4, KindsAre

\* A reading that is read again, as if it were the provider's word.
LEMMA ReadingTwice ==
    ASSUME kind \in Kinds, NEW reading \in Readings, reading # "failed"
    PROVE  /\ Target(PaymentTargets, reading, "unknown") # "failed"
           /\ Target(PaymentTargets, reading, "unknown") = "succeeded" => reading = "succeeded"
           /\ Target(PaymentTargets, reading, "unknown") = "canceled" => reading \in {"canceled", "closed"}
  <1>1. reading \notin {"declined", "completed", "trade_success", "trade_finished", "success", "trade_closed",
                        "voided", "revoked", "payerror"}
    BY DEF Readings
  <1>2. CASE kind = "stripe"
    BY <1>2 DEF Target, PaymentTargets
  <1>3. CASE kind = "alipay"
    BY <1>1, <1>3 DEF Target, PaymentTargets
  <1>4. CASE kind = "wechat_pay"
    BY <1>1, <1>4 DEF Target, PaymentTargets
  <1>5. CASE kind = "paypal"
    BY <1>1, <1>5 DEF Target, PaymentTargets
  <1> QED
    BY <1>2, <1>3, <1>4, <1>5, KindsAre

\* What is read as a refund's success is one.
LEMMA RefundReading ==
    ASSUME kind \in Kinds, NEW raw \in RefundStarts[kind] \cup RefundEnds[kind]
    PROVE  /\ Target(RefundTargets, raw, "unknown") \in {"succeeded", "processing", "failed", "unknown"}
           /\ Target(SubmissionStates, raw, "processing") \in {"succeeded", "processing", "failed"}
           /\ Target(RefundTargets, raw, "unknown") = "succeeded" => raw \in RefundDone
           /\ Target(SubmissionStates, raw, "processing") = "succeeded" => raw \in RefundDone
  <1>1. CASE kind = "stripe"
    BY <1>1 DEF Target, RefundTargets, SubmissionStates, RefundDone, RefundStarts, RefundEnds
  <1>2. CASE kind = "alipay"
    BY <1>2 DEF Target, RefundTargets, SubmissionStates, RefundDone, RefundStarts, RefundEnds
  <1>3. CASE kind = "wechat_pay"
    BY <1>3 DEF Target, RefundTargets, SubmissionStates, RefundDone, RefundStarts, RefundEnds
  <1>4. CASE kind = "paypal"
    BY <1>4 DEF Target, RefundTargets, SubmissionStates, RefundDone, RefundStarts, RefundEnds
  <1> QED
    BY <1>1, <1>2, <1>3, <1>4, KindsAre

\* The status of an answer that has none.
LEMMA NoStatus ==
    ASSUME kind \in Kinds
    PROVE  /\ Target(RefundTargets, None, "unknown") = "unknown"
           /\ Target(SubmissionStates, None, "processing") = "processing"
           /\ kind = "alipay" => /\ Target(RefundTargets, "success", "unknown") = "succeeded"
                                 /\ Target(SubmissionStates, "success", "processing") = "succeeded"
  <1>1. None \notin DOMAIN RefundTargets[kind] /\ None \notin DOMAIN SubmissionStates[kind]
    BY NoneAssumption
  <1>2. kind = "alipay" => /\ Target(RefundTargets, "success", "unknown") = "succeeded"
                           /\ Target(SubmissionStates, "success", "processing") = "succeeded"
    BY DEF Target, RefundTargets, SubmissionStates
  <1> QED
    BY <1>1, <1>2 DEF Target

\* A settlement leaves the attempt, or takes it where the target says; never out of success.
LEMMA Settling ==
    ASSUME attempt \in {"pending", "succeeded", "canceled"}, NEW target, target # "failed"
    PROVE  \/ Settled(target) = attempt
           \/ /\ Settled(target) = target /\ target \in {"succeeded", "canceled"}
              /\ target = "canceled" => attempt # "succeeded"
  <1>1. ~WebhookMayTransition("succeeded", "canceled")
    BY DEF WebhookMayTransition, MayTransition, FromWire, MachineEdges, WireStatuses
  <1> QED
    BY <1>1 DEF Settled

-----------------------------------------------------------------------------
(***************************************************************************)
(* The provider.                                                           *)
(***************************************************************************)

\* Every refund of a longer list was there, or is the new one.
LEMMA Prepended ==
    ASSUME NEW T, NEW s \in Seq(T), NEW x \in T
    PROVE  /\ <<x>> \o s \in Seq(T) /\ DOMAIN (<<x>> \o s) = 1 .. Len(s) + 1 /\ DOMAIN s = 1 .. Len(s) /\ Len(s) \in Nat
           /\ (<<x>> \o s)[1] = x /\ \A i \in 1 .. Len(s) : (<<x>> \o s)[i + 1] = s[i]
           /\ \A i \in 1 .. Len(s) + 1 : i # 1 => i - 1 \in 1 .. Len(s) /\ (<<x>> \o s)[i] = s[i - 1]
  <1> DEFINE d == <<x>> \o s
  <1>1. <<x>> \in Seq(T) /\ Len(<<x>>) = 1 /\ <<x>>[1] = x
    OBVIOUS
  <1>2. d \in Seq(T) /\ Len(d) = Len(s) + 1 /\ Len(s) \in Nat
    BY <1>1
  <1>3. \A i \in 1 .. Len(d) : d[i] = IF i <= 1 THEN <<x>>[i] ELSE s[i - 1]
    BY <1>1, <1>2
  <1>4. DOMAIN d = 1 .. Len(d) /\ DOMAIN s = 1 .. Len(s)
    BY <1>2
  <1>5. d[1] = x
    BY <1>1, <1>2, <1>3
  <1>6. \A i \in 1 .. Len(s) : d[i + 1] = s[i]
    BY <1>2, <1>3
  <1> HIDE DEF d
  <1>7. ASSUME NEW i \in 1 .. Len(s) + 1, i # 1
        PROVE  i - 1 \in 1 .. Len(s) /\ d[i] = s[i - 1]
    <2>1. i - 1 \in 1 .. Len(s) /\ (i - 1) + 1 = i
      BY <1>2, <1>7
    <2> QED
      BY <1>6, <2>1
  <1>8. d \in Seq(T) /\ DOMAIN d = 1 .. Len(s) + 1 /\ DOMAIN s = 1 .. Len(s) /\ Len(s) \in Nat
    BY <1>2, <1>4
  <1>9. \A i \in 1 .. Len(s) + 1 : i # 1 => i - 1 \in 1 .. Len(s) /\ d[i] = s[i - 1]
    BY <1>7
  <1> QED
    BY <1>5, <1>6, <1>8, <1>9 DEF d

\* A refund with a new number is one more.
LEMMA OneMore ==
    ASSUME NEW k, NEW refunds, NEW state, RefundsAre(k, refunds, state), state = "succeeded",
           NEW x \in Made(k), x.key = <<"refund", x.no>>, x.no \notin Numbers(refunds)
    PROVE  /\ RefundsAre(k, <<x>> \o refunds, state)
           /\ Done(refunds) \subseteq Done(<<x>> \o refunds)
           /\ Done(<<x>> \o refunds) \subseteq Done(refunds) \cup {x.no}
           /\ Numbers(<<x>> \o refunds) = Numbers(refunds) \cup {x.no}
  <1> DEFINE d == <<x>> \o refunds
             n == Len(refunds)
  <1>1. /\ d \in Seq(Made(k)) /\ DOMAIN d = 1 .. n + 1 /\ DOMAIN refunds = 1 .. n /\ n \in Nat
        /\ d[1] = x /\ \A i \in 1 .. n : d[i + 1] = refunds[i]
        /\ \A i \in 1 .. n + 1 : i # 1 => i - 1 \in 1 .. n /\ d[i] = refunds[i - 1]
    BY Prepended DEF RefundsAre
  <1> HIDE DEF d, n
  <1>2. ASSUME NEW i \in DOMAIN d
        PROVE  d[i].key = <<"refund", d[i].no>>
    <2>1. CASE i = 1
      BY <1>1, <2>1
    <2>2. CASE i # 1
      <3>1. i - 1 \in DOMAIN refunds /\ d[i] = refunds[i - 1]
        BY <1>1, <2>2
      <3> QED
        BY <3>1 DEF RefundsAre
    <2> QED
      BY <2>1, <2>2
  <1>3. ASSUME NEW i \in DOMAIN d, NEW j \in DOMAIN d, d[i].no = d[j].no
        PROVE  i = j
    <2>1. CASE i = 1 /\ j # 1
      <3>1. j - 1 \in DOMAIN refunds /\ d[j] = refunds[j - 1]
        BY <1>1, <2>1
      <3> QED
        BY <1>1, <1>3, <2>1, <3>1 DEF Numbers
    <2>2. CASE i # 1 /\ j = 1
      <3>1. i - 1 \in DOMAIN refunds /\ d[i] = refunds[i - 1]
        BY <1>1, <2>2
      <3> QED
        BY <1>1, <1>3, <2>2, <3>1 DEF Numbers
    <2>3. CASE i # 1 /\ j # 1
      <3>1. /\ i - 1 \in DOMAIN refunds /\ d[i] = refunds[i - 1]
            /\ j - 1 \in DOMAIN refunds /\ d[j] = refunds[j - 1]
        BY <1>1, <2>3
      <3>2. i - 1 = j - 1
        BY <1>3, <3>1 DEF RefundsAre
      <3> QED
        BY <1>1, <3>2
    <2> QED
      BY <2>1, <2>2, <2>3
  <1>4. Done(refunds) \subseteq Done(d)
    <2> SUFFICES ASSUME NEW i \in DOMAIN refunds, refunds[i].status \in RefundDone PROVE refunds[i].no \in Done(d)
      BY DEF Done
    <2>1. i + 1 \in DOMAIN d /\ d[i + 1] = refunds[i]
      BY <1>1
    <2> QED
      BY <2>1 DEF Done
  <1>5. Done(d) \subseteq Done(refunds) \cup {x.no}
    <2> SUFFICES ASSUME NEW i \in DOMAIN d, d[i].status \in RefundDone, i # 1 PROVE d[i].no \in Done(refunds)
      BY <1>1 DEF Done
    <2>1. i - 1 \in DOMAIN refunds /\ d[i] = refunds[i - 1]
      BY <1>1
    <2> QED
      BY <2>1 DEF Done
  <1>6. Numbers(d) = Numbers(refunds) \cup {x.no}
    <2>1. \A i \in DOMAIN refunds : refunds[i].no \in Numbers(d)
      <3> TAKE i \in DOMAIN refunds
      <3>1. i + 1 \in DOMAIN d /\ d[i + 1] = refunds[i]
        BY <1>1
      <3> QED
        BY <3>1 DEF Numbers
    <2>2. x.no \in Numbers(d)
      <3>1. 1 \in DOMAIN d
        BY <1>1
      <3> QED
        BY <1>1, <3>1 DEF Numbers
    <2>3. \A i \in DOMAIN d : d[i].no \in Numbers(refunds) \cup {x.no}
      BY <1>1 DEF Numbers
    <2> QED
      BY <2>1, <2>2, <2>3 DEF Numbers
  <1>7. RefundsAre(k, d, state)
    BY <1>1, <1>2, <1>3 DEF RefundsAre
  <1> QED
    BY <1>4, <1>5, <1>6, <1>7 DEF d

\* A refund that moves keeps its number, and its success.
LEMMA OneMoves ==
    ASSUME NEW k, NEW refunds, NEW state, RefundsAre(k, refunds, state), NEW i \in DOMAIN refunds,
           NEW s \in RefundEnds[k], refunds[i].status \notin RefundDone
    PROVE  /\ RefundsAre(k, [refunds EXCEPT ![i].status = s], state)
           /\ Done(refunds) \subseteq Done([refunds EXCEPT ![i].status = s])
           /\ Done([refunds EXCEPT ![i].status = s]) \subseteq Done(refunds) \cup {refunds[i].no}
  <1> DEFINE y == [refunds[i] EXCEPT !.status = s]
             d == [refunds EXCEPT ![i].status = s]
  <1>1. refunds \in Seq(Made(k)) /\ refunds[i] \in Made(k)
    BY DEF RefundsAre
  <1>2. y \in Made(k) /\ y.no = refunds[i].no /\ y.key = refunds[i].key
    BY <1>1 DEF Made
  <1>3. d = [refunds EXCEPT ![i] = y]
    OBVIOUS
  <1> HIDE DEF y, d
  <1>4. d \in Seq(Made(k)) /\ DOMAIN d = DOMAIN refunds /\ \A j \in DOMAIN refunds : d[j] = IF j = i THEN y ELSE refunds[j]
    BY <1>1, <1>2, <1>3
  <1>5. RefundsAre(k, d, state)
    <2>1. \A j \in DOMAIN d : d[j].no = refunds[j].no /\ d[j].key = refunds[j].key
      BY <1>2, <1>4
    <2>2. d # <<>> => refunds # <<>>
      BY <1>1, <1>4
    <2> QED
      BY <1>4, <2>1, <2>2 DEF RefundsAre
  <1>6. Done(refunds) \subseteq Done(d)
    BY <1>4 DEF Done
  <1>7. Done(d) \subseteq Done(refunds) \cup {refunds[i].no}
    <2> SUFFICES ASSUME NEW j \in DOMAIN d, d[j].status \in RefundDone, j # i PROVE d[j].no \in Done(refunds)
      BY <1>2, <1>4 DEF Done
    <2> QED
      BY <1>4 DEF Done
  <1> QED
    BY <1>5, <1>6, <1>7 DEF d

-----------------------------------------------------------------------------
(***************************************************************************)
(* What stays true while the provider goes on.                             *)
(***************************************************************************)

LEMMA CallStays ==
    ASSUME NEW x, NEW k, NEW t, NEW paid, NEW refunds, NEW state, CallIs(x, k, t, paid, refunds, state),
           NEW t2, NEW paid2, NEW refunds2, NEW state2,
           paid => paid2, t = ClosedAs[k] => t2 = t, Done(refunds) \subseteq Done(refunds2),
           state = "succeeded" => state2 = "succeeded"
    PROVE  CallIs(x, k, t2, paid2, refunds2, state2)
  <1> DEFINE q == [op |-> x.op, no |-> x.no, known |-> x.known, key |-> <<x.op, x.no>>]
  <1>1. RequestIs(q, k, state) => RequestIs(q, k, state2)
    BY DEF RequestIs
  <1> QED
    BY <1>1 DEF CallIs

\* A step of the provider: what is closed stays closed, and is not paid any more; one refund at a
\* time succeeds.
ProviderMoved ==
    /\ UNCHANGED <<kind, local>>
    /\ charged => charged'
    /\ trade = ClosedAs[kind] => trade' = trade /\ charged' = charged
    /\ Done(made) \subseteq Done(made') /\ \A r, s \in Done(made') \ Done(made) : r = s
    /\ RefundsAre(kind, made', attempt)
    /\ TradeIs(kind, trade', charged', attempt)

LEMMA LocalsStay ==
    ASSUME UNCHANGED local
    PROVE  UNCHANGED <<native, attempt, presumed, reconciled, refunded>>
  BY DEF local

\* A step of the provider and of one client.
LEMMA Moves ==
    ASSUME IInv, ProviderMoved, \A q \in wire' : q \in wire \/ RequestIs(q, kind, attempt),
           NEW c \in Clients, NEW x, call' = [call EXCEPT ![c] = x],
           CallIs(x, kind, trade', charged', made', attempt)
    PROVE  IInv'
  <1>1. kind' = kind /\ UNCHANGED <<native, attempt, presumed, reconciled, refunded>>
    BY LocalsStay DEF ProviderMoved
  <1>2. {native', presumed', reconciled'} \subseteq BOOLEAN
    BY <1>1 DEF IInv
  <1>3. RefundsAre(kind', made', attempt') /\ TradeIs(kind', trade', charged', attempt')
    BY <1>1 DEF ProviderMoved
  <1>4. \A q \in wire' : RequestIs(q, kind', attempt')
    BY <1>1 DEF IInv
  <1>5. call' \in [Clients -> Calls]
    BY DEF IInv, CallIs
  <1>6. ASSUME NEW d \in Clients PROVE CallIs(call'[d], kind', trade', charged', made', attempt')
    <2>1. CASE d = c
      BY <1>1, <2>1 DEF IInv
    <2>2. CASE d # c
      <3>1. call'[d] = call[d] /\ CallIs(call[d], kind, trade, charged, made, attempt)
        BY <2>2 DEF IInv
      <3>2. CallIs(call[d], kind, trade', charged', made', attempt)
        BY <3>1, CallStays DEF ProviderMoved
      <3> QED
        BY <1>1, <3>1, <3>2
    <2> QED
      BY <2>1, <2>2
  <1>7. RecordIs(kind', trade', charged', made', attempt', presumed', refunded')
    <2>1. RecordIs(kind, trade, charged, made, attempt, presumed, refunded)
      BY DEF IInv
    <2> QED
      BY <1>1, <2>1 DEF RecordIs, ProviderMoved
  <1> QED
    BY <1>2, <1>3, <1>4, <1>5, <1>6, <1>7 DEF IInv

\* A step of the provider alone.
LEMMA MovesAlone ==
    ASSUME IInv, ProviderMoved, wire' \subseteq wire, call' = call
    PROVE  IInv'
  <1>1. "worker" \in Clients
    BY DEF Clients
  <1>2. call' = [call EXCEPT !["worker"] = call["worker"]]
    BY DEF IInv
  <1>3. CallIs(call["worker"], kind, trade', charged', made', attempt)
    BY <1>1, CallStays DEF IInv, ProviderMoved
  <1> QED
    BY <1>1, <1>2, <1>3, Moves

LEMMA Executes ==
    ASSUME IInv, NEW q, RequestIs(q, kind, attempt), Execute(q), UNCHANGED <<kind, local>>
    PROVE  /\ ProviderMoved
           /\ q.op = "cancel" /\ q.known /\ trade \in Cancelable => trade' = ClosedAs[kind]
           /\ q.op # "refund" => made' = made
  <1>1. RefundsAre(kind, made, attempt) /\ TradeIs(kind, trade, charged, attempt) /\ charged' = charged
    BY DEF IInv, Execute
  <1>2. kind \in Kinds /\ kind \in {"stripe", "alipay", "wechat_pay", "paypal"} /\ UNCHANGED <<kind, local>>
    BY <1>1, KindsAre DEF TradeIs
  <1>3. /\ OpenedAs[kind] \in TradeStatuses \ PaidAs /\ ClosedAs[kind] \in TradeStatuses \ PaidAs
        /\ ClosedAs[kind] \notin Cancelable \cup {Absent}
        /\ PaidAs \subseteq TradeStatuses
    BY <1>2, TradeNames
  <1>4. Absent \notin Cancelable \cup PaidAs /\ Cancelable \cap PaidAs = {}
    BY DEF Absent, Cancelable, PaidAs
  <1>5. CASE UNCHANGED <<trade, made>> /\ ~(q.op = "cancel" /\ q.known /\ trade \in Cancelable)
    BY <1>1, <1>2, <1>5 DEF ProviderMoved
  <1>6. CASE q.op = "create" /\ trade = Absent /\ trade' = OpenedAs[kind] /\ made' = made
    BY <1>1, <1>2, <1>3, <1>4, <1>6 DEF ProviderMoved, TradeIs
  <1>7. CASE q.op = "cancel" /\ q.known /\ trade \in Cancelable /\ trade' = ClosedAs[kind] /\ made' = made
    BY <1>1, <1>2, <1>3, <1>4, <1>7 DEF ProviderMoved, TradeIs
  <1>8. CASE /\ q.op = "refund" /\ q.known /\ trade \in PaidAs \ {"trade_finished"} /\ ~Holds(q)
             /\ \E s \in RefundStarts[kind] : made' = <<[no |-> q.no, key |-> q.key, status |-> s]>> \o made
             /\ trade' = TradeAfterRefund(made')
    <2>1. q.no \in Refunds /\ attempt = "succeeded" /\ q.key = <<"refund", q.no>> /\ charged = TRUE
      BY <1>1, <1>8 DEF RequestIs, RefundOps, TradeIs
    <2>2. q.no \notin Numbers(made)
      BY <1>1, <1>8, <2>1 DEF Holds, Numbers, RefundsAre
    <2>3. PICK s \in RefundStarts[kind] : made' = <<[no |-> q.no, key |-> q.key, status |-> s]>> \o made
      BY <1>8
    <2> DEFINE x == [no |-> q.no, key |-> q.key, status |-> s]
    <2>4. x \in Made(kind) /\ x.key = <<"refund", x.no>> /\ x.no = q.no
      BY <2>1 DEF Made
    <2> HIDE DEF x
    <2>5. /\ RefundsAre(kind, made', attempt)
          /\ Done(made) \subseteq Done(made') /\ Done(made') \subseteq Done(made) \cup {q.no}
      <3>1. made' = <<x>> \o made
        BY <2>3 DEF x
      <3> QED
        BY <1>1, <2>1, <2>2, <2>4, <3>1, OneMore
    <2>6. trade' \in PaidAs \/ trade' = ClosedAs[kind]
      <3>1. kind = "wechat_pay" => trade' = "refund"
        BY <1>8 DEF TradeAfterRefund
      <3>2. kind = "alipay" => trade' \in {trade, "trade_closed"}
        BY <1>8 DEF TradeAfterRefund
      <3>3. kind \notin {"wechat_pay", "alipay"} => trade' = trade
        BY <1>8 DEF TradeAfterRefund
      <3> QED
        BY <1>2, <1>8, <3>1, <3>2, <3>3 DEF PaidAs, ClosedAs
    <2>7. TradeIs(kind, trade', charged', attempt)
      BY <1>1, <1>2, <1>3, <2>1, <2>6 DEF TradeIs
    <2> QED
      BY <1>1, <1>2, <1>3, <1>8, <2>5, <2>7 DEF ProviderMoved
  <1> QED
    BY <1>5, <1>6, <1>7, <1>8 DEF Execute, RequestIs

LEMMA UnheardStep == ASSUME IInv, NEW q \in wire, ServeUnheard(q) PROVE IInv'
  <1>1. Execute(q) /\ UNCHANGED <<kind, call, local>> /\ wire' = wire \ {q}
    BY DEF ServeUnheard
  <1>2. RequestIs(q, kind, attempt)
    BY DEF IInv
  <1>3. ProviderMoved
    BY <1>1, <1>2, Executes
  <1> QED
    BY <1>1, <1>3, MovesAlone

LEMMA PayStep == ASSUME IInv, Pay PROVE IInv'
  <1>1. PICK m \in PayerMoves : m[1] = trade /\ trade' = m[2]
    BY DEF Pay
  <1>2. charged' = (charged \/ trade' \in PaidAs) /\ made' = made /\ UNCHANGED <<kind, wire, call, local>>
    BY DEF Pay
  <1>3. RefundsAre(kind, made, attempt) /\ TradeIs(kind, trade, charged, attempt)
    BY DEF IInv
  <1>4. m[1] \in TradeStatuses \ PaidAs /\ m[2] \in TradeStatuses /\ ClosedAs[kind] \notin {m[1], m[2]}
    BY <1>3, TradeNames DEF TradeIs
  <1>5. ProviderMoved
    BY <1>1, <1>2, <1>3, <1>4 DEF ProviderMoved, TradeIs
  <1> QED
    BY <1>2, <1>5, MovesAlone

LEMMA ExpireStep == ASSUME IInv, Expire PROVE IInv'
  <1>1. trade \in Cancelable /\ trade' = ClosedAs[kind] /\ UNCHANGED <<charged, made, kind, wire, call, local>>
    BY DEF Expire
  <1>2. RefundsAre(kind, made, attempt) /\ TradeIs(kind, trade, charged, attempt)
    BY DEF IInv
  <1>3. ClosedAs[kind] \in TradeStatuses \ PaidAs /\ ClosedAs[kind] \notin Cancelable
    BY <1>2, TradeNames DEF TradeIs
  <1>4. Cancelable \cap PaidAs = {}
    BY DEF Cancelable, PaidAs
  <1>5. ProviderMoved
    BY <1>1, <1>2, <1>3, <1>4 DEF ProviderMoved, TradeIs
  <1> QED
    BY <1>1, <1>5, MovesAlone

\* A refund that is not at its end yet has not succeeded.
LEMMA UnfinishedRefund ==
    ASSUME NEW k \in Kinds, NEW s \in RefundStarts[k] \ RefundEnds[k]
    PROVE  s \notin RefundDone
  <1>1. CASE k = "stripe"
    BY <1>1 DEF RefundStarts, RefundEnds, RefundDone
  <1>2. CASE k = "alipay"
    BY <1>2 DEF RefundStarts, RefundEnds, RefundDone
  <1>3. CASE k = "wechat_pay"
    BY <1>3 DEF RefundStarts, RefundEnds, RefundDone
  <1>4. CASE k = "paypal"
    BY <1>4 DEF RefundStarts, RefundEnds, RefundDone
  <1> QED
    BY <1>1, <1>2, <1>3, <1>4, KindsAre

LEMMA FinishMoves ==
    ASSUME IInv, NEW i \in DOMAIN made, FinishRefund(i)
    PROVE  ProviderMoved /\ UNCHANGED <<wire, call>>
  <1>1. RefundsAre(kind, made, attempt) /\ TradeIs(kind, trade, charged, attempt)
    BY DEF IInv
  <1>2. made[i].status \notin RefundDone
    BY <1>1, UnfinishedRefund DEF FinishRefund, TradeIs
  <1>3. PICK s \in RefundEnds[kind] : made' = [made EXCEPT ![i].status = s]
    BY DEF FinishRefund
  <1>4. UNCHANGED <<trade, charged, kind, wire, call, local>>
    BY DEF FinishRefund
  <1>5. /\ RefundsAre(kind, made', attempt)
        /\ Done(made) \subseteq Done(made') /\ Done(made') \subseteq Done(made) \cup {made[i].no}
    BY <1>1, <1>2, <1>3, OneMoves
  <1> QED
    BY <1>1, <1>4, <1>5 DEF ProviderMoved

LEMMA FinishStep == ASSUME IInv, NEW i \in DOMAIN made, FinishRefund(i) PROVE IInv'
  <1>1. ProviderMoved /\ UNCHANGED <<wire, call>>
    BY FinishMoves
  <1> QED
    BY <1>1, MovesAlone

-----------------------------------------------------------------------------
(***************************************************************************)
(* What the clients send.                                                  *)
(***************************************************************************)

LEMMA ProviderWaits == ASSUME IInv, UNCHANGED <<kind, provider, local>> PROVE ProviderMoved
  <1>1. UNCHANGED <<trade, charged, made>>
    BY DEF provider
  <1> QED
    BY <1>1 DEF ProviderMoved, IInv

LEMMA IdleIsCall == Idle \in Calls /\ Idle.phase = "idle"
  <1>1. 1 \in 1 .. RetryAttempts
    BY RetryAssumption
  <1> QED
    BY <1>1 DEF Idle, Calls

\* An answered call.
LEMMA OutcomeFields ==
    ASSUME NEW op \in AllOps, NEW no \in Refunds \cup {None}, NEW reading \in Readings
    PROVE  /\ Outcome(op, no, reading) \in Calls /\ Outcome(op, no, reading).phase = "answered"
           /\ Outcome(op, no, reading).op = op /\ Outcome(op, no, reading).no = no
           /\ Outcome(op, no, reading).reading = reading
  BY IdleIsCall DEF Outcome, Calls

\* One that has failed, in whatever way, says nothing.
LEMMA OutcomeSaysNothing ==
    ASSUME NEW op \in AllOps, NEW no \in Refunds \cup {None}, op \in RefundOps => no \in Refunds,
           NEW reading \in {"unsent", "error"}, NEW k, NEW t, NEW paid, NEW refunds, NEW state
    PROVE  CallIs(Outcome(op, no, reading), k, t, paid, refunds, state)
  <1> DEFINE x == Outcome(op, no, reading)
  <1>0. reading \in Readings
    BY DEF Readings
  <1>1. /\ x \in Calls /\ x.phase = "answered" /\ x.op = op /\ x.no = no /\ x.reading = reading
    BY <1>0, OutcomeFields
  <1> HIDE DEF x
  <1>2. CallIs(x, k, t, paid, refunds, state)
    BY <1>0, <1>1 DEF CallIs
  <1> QED
    BY <1>2 DEF x

LEMMA BeginStep ==
    ASSUME IInv, NEW c \in Clients, NEW op \in Ops[c], NEW no \in Refunds \cup {None}, Begin(c, op, no)
    PROVE  IInv'
  <1>1. op \in AllOps
    BY DEF Clients, Ops, AllOps
  <1>2. op \in RefundOps => no \in Refunds /\ attempt = "succeeded"
    BY DEF Begin, MayBegin, RefundOps
  <1>3. ProviderMoved /\ native \in BOOLEAN
    BY ProviderWaits DEF Begin, IInv
  <1>4. CASE /\ IsSent(c, op)
             /\ call' = [call EXCEPT ![c] = [Idle EXCEPT !.phase = "waiting", !.op = op, !.no = no, !.known = Addressed(op)]]
             /\ wire' = OnWire(Request(c, op, no, Addressed(op)))
    <2> DEFINE q == Request(c, op, no, Addressed(op))
               x == [Idle EXCEPT !.phase = "waiting", !.op = op, !.no = no, !.known = Addressed(op)]
    <2>1. /\ Addressed(op) \in BOOLEAN /\ (kind # "stripe" => Addressed(op)) /\ kind # "paypal"
          /\ kind = "stripe" /\ Addressed(op) => op \in {"create", "query"}
      BY <1>3, <1>4 DEF Addressed, IsSent
    <2>2. q = [op |-> op, no |-> no, known |-> Addressed(op), key |-> <<op, no>>]
      BY DEF Request, RecognisedBy
    <2>3. q \in Requests /\ q.key = <<q.op, q.no>> /\ q.op = op /\ q.no = no /\ q.known = Addressed(op)
      BY <1>1, <2>1, <2>2 DEF Requests
    <2>4. RequestIs(q, kind, attempt)
      <3> HIDE DEF q
      <3> QED
        BY <1>2, <2>1, <2>3 DEF RequestIs
    <2>5. /\ x \in Calls /\ x.phase = "waiting" /\ x.op = op /\ x.no = no /\ x.known = Addressed(op)
      BY <1>1, <2>1, IdleIsCall DEF Calls
    <2> HIDE DEF q, x
    <2>6. CallIs(x, kind, trade', charged', made', attempt)
      BY <1>1, <1>2, <2>2, <2>4, <2>5 DEF CallIs
    <2>7. \A r \in wire' : r \in wire \/ r = q
      BY <1>4 DEF OnWire, q
    <2> QED
      BY <1>3, <1>4, <2>4, <2>6, <2>7, Moves DEF x
  <1>5. CASE call' = [call EXCEPT ![c] = Outcome(op, no, "unsent")] /\ wire' = wire
    <2>1. CallIs(Outcome(op, no, "unsent"), kind, trade', charged', made', attempt)
      BY <1>1, <1>2, OutcomeSaysNothing
    <2> QED
      BY <1>3, <1>5, <2>1, Moves
  <1> QED
    BY <1>4, <1>5 DEF Begin

\* The request of a call that waits.
LEMMA RequestOfCall ==
    ASSUME IInv, NEW c \in Clients, call[c].phase = "waiting"
    PROVE  /\ RequestIs(RequestOf(c), kind, attempt)
           /\ RequestOf(c).op = call[c].op /\ RequestOf(c).no = call[c].no /\ RequestOf(c).known = call[c].known
           /\ call[c] \in Calls /\ call[c].op \in AllOps /\ call[c].no \in Refunds \cup {None}
           /\ call[c].op \in RefundOps => call[c].no \in Refunds
  BY DEF IInv, CallIs, RequestOf, Request, RecognisedBy, Calls

LEMMA FaultStep == ASSUME IInv, NEW c \in Clients, Fault(c) PROVE IInv'
  <1>1. call[c].phase = "waiting" /\ ProviderMoved
    BY ProviderWaits DEF Fault
  <1>2. /\ RequestIs(RequestOf(c), kind, attempt)
        /\ call[c] \in Calls /\ call[c].op \in AllOps /\ call[c].no \in Refunds \cup {None}
        /\ call[c].op \in RefundOps => call[c].no \in Refunds
    BY <1>1, RequestOfCall
  <1>3. CASE /\ call[c].try < RetryAttempts /\ call' = [call EXCEPT ![c].try = @ + 1] /\ wire' = OnWire(RequestOf(c))
    <2> DEFINE x == [call[c] EXCEPT !.try = @ + 1]
    <2>1. call' = [call EXCEPT ![c] = x]
      BY <1>3
    <2>2. call[c].try + 1 \in 1 .. RetryAttempts
      BY <1>2, <1>3, RetryAssumption DEF Calls
    <2>3. /\ x \in Calls /\ x.phase = "waiting" /\ x.op = call[c].op /\ x.no = call[c].no /\ x.known = call[c].known
      BY <1>1, <1>2, <2>2 DEF Calls
    <2>4. CallIs(call[c], kind, trade', charged', made', attempt)
      BY <1>1, CallStays DEF IInv, ProviderMoved
    <2> HIDE DEF x
    <2>5. CallIs(x, kind, trade', charged', made', attempt)
      BY <1>1, <1>2, <2>3, <2>4 DEF CallIs
    <2>6. \A r \in wire' : r \in wire \/ r = RequestOf(c)
      BY <1>3 DEF OnWire
    <2> QED
      BY <1>1, <1>2, <2>1, <2>5, <2>6, Moves
  <1>4. CASE call' = Answered(c, "error") /\ wire' = wire
    <2>1. call' = [call EXCEPT ![c] = Outcome(call[c].op, call[c].no, "error")]
      BY <1>4 DEF Answered
    <2>2. CallIs(Outcome(call[c].op, call[c].no, "error"), kind, trade', charged', made', attempt)
      BY <1>2, OutcomeSaysNothing
    <2> QED
      BY <1>1, <1>4, <2>1, <2>2, Moves
  <1> QED
    BY <1>3, <1>4 DEF Fault

-----------------------------------------------------------------------------
(***************************************************************************)
(* What the clients are told.                                              *)
(***************************************************************************)

LEMMA ReadingOf ==
    ASSUME NEW c, NEW code, NEW state
    PROVE  /\ Reading(c, "create", code, state) \in {"opened", "error"}
           /\ Reading(c, "cancel", code, state) \in {"closed", "closed as absent", "error"}
           /\ Reading(c, "cancel", code, state) = "closed" =>
                 code = "ok" \/ (MeansTradeIsAbsent(code) /\ code # AbsentCode[kind])
  BY DEF Reading

\* A payment that is asked for is answered with its status.
LEMMA QueryAnswered ==
    ASSUME IInv, NEW q, RequestIs(q, kind, attempt), q.op = "query", NEW r, r \in Answers(q), r[1] = "ok"
    PROVE  r[2] = trade
  <1>1. CASE kind = "stripe"
    <2>1. r \in StripeAnswers(q)
      BY <1>1 DEF Answers
    <2>2. r \in {<<"resource_missing", None>>, <<"ok", trade>>}
      BY <2>1 DEF StripeAnswers, RequestIs, Requests
    <2> QED
      BY <2>2
  <1>2. CASE kind = "alipay"
    <2>1. r \in AlipayAnswers(q)
      BY <1>2 DEF Answers
    <2>2. r \in {<<"acq.trade_not_exist", None>>, <<"ok", trade>>}
      BY <2>1 DEF AlipayAnswers
    <2> QED
      BY <2>2
  <1>3. CASE kind = "wechat_pay"
    <2>1. r \in WeChatPayAnswers(q)
      BY <1>3 DEF Answers
    <2>2. r \in {<<"order_not_exist", None>>, <<"ok", trade>>}
      BY <2>1 DEF WeChatPayAnswers
    <2> QED
      BY <2>2
  <1> QED
    BY <1>1, <1>2, <1>3, KindsAre DEF RequestIs, IInv, TradeIs

\* A cancellation that is answered with success, or with anything but an unknown trade that means
\* one, finds the trade open or closed.
LEMMA CancelAnswered ==
    ASSUME IInv, NEW q, RequestIs(q, kind, attempt), q.op = "cancel", NEW r, r \in Answers(q),
           r[1] = "ok" \/ (MeansTradeIsAbsent(r[1]) /\ r[1] # AbsentCode[kind])
    PROVE  q.known /\ trade \in Cancelable \cup {ClosedAs[kind]}
  <1>1. CASE kind = "stripe"
    <2>1. r \in StripeAnswers(q)
      BY <1>1 DEF Answers
    <2>2. r = <<"resource_missing", None>>
      BY <1>1, <2>1 DEF StripeAnswers, RequestIs
    <2> QED
      BY <1>1, <2>2 DEF AbsentCode
  <1>2. CASE kind = "alipay"
    <2>1. r \in AlipayAnswers(q)
      BY <1>2 DEF Answers
    <2>2. CASE trade = Absent
      <3>1. r = <<"acq.trade_not_exist", None>>
        BY <2>1, <2>2 DEF AlipayAnswers
      <3> QED
        BY <1>2, <3>1 DEF AbsentCode
    <2>3. CASE trade # Absent /\ trade \notin Cancelable
      <3>1. r = <<"acq.trade_status_error", None>>
        BY <2>1, <2>3 DEF AlipayAnswers
      <3> QED
        BY <3>1 DEF MeansTradeIsAbsent
    <2> QED
      BY <1>2, <2>2, <2>3 DEF RequestIs
  <1>3. CASE kind = "wechat_pay"
    <2>1. r \in WeChatPayAnswers(q)
      BY <1>3 DEF Answers
    <2>2. CASE trade = Absent
      <3>1. r = <<"order_not_exist", None>>
        BY <2>1, <2>2 DEF WeChatPayAnswers
      <3> QED
        BY <1>3, <3>1 DEF AbsentCode
    <2>3. CASE trade # Absent /\ trade \notin Cancelable \cup {"closed"}
      <3>1. r = <<"order_paid", None>>
        BY <2>1, <2>3 DEF WeChatPayAnswers
      <3> QED
        BY <3>1 DEF MeansTradeIsAbsent
    <2> QED
      BY <1>3, <2>2, <2>3 DEF RequestIs, ClosedAs
  <1> QED
    BY <1>1, <1>2, <1>3, KindsAre DEF RequestIs, IInv, TradeIs

\* The refunds held under a number.
LEMMA HeldOnes ==
    ASSUME NEW refunds, NEW no
    PROVE  /\ \A r \in Held(refunds, no) : r[1] = "ok" /\ \E i \in DOMAIN refunds : refunds[i].no = no /\ r[2] = refunds[i].status
           /\ Held(refunds, no) # {} <=> no \in Numbers(refunds)
  <1> DEFINE Of == {j \in DOMAIN refunds : refunds[j].no = no}
  <1>1. Held(refunds, no) = { <<"ok", refunds[i].status>> : i \in Of }
    BY DEF Held
  <1>2. \A r \in Held(refunds, no) : r[1] = "ok" /\ \E i \in Of : r[2] = refunds[i].status
    BY <1>1
  <1>3. Of # {} <=> no \in Numbers(refunds)
    BY DEF Numbers
  <1>4. Held(refunds, no) # {} <=> Of # {}
    BY <1>1
  <1> QED
    BY <1>2, <1>3, <1>4

\* A refund is answered with its status; without one it was made all the same, unless it was asked for.
LEMMA RefundAnswered ==
    ASSUME IInv, NEW q, RequestIs(q, kind, attempt), q.op \in RefundOps, NEW r, r \in Answers(q),
           q.op = "query_refund" => made' = made
    PROVE  /\ r[1] = "ok" => \/ \E i \in DOMAIN made' : made'[i].no = q.no /\ r[2] = made'[i].status
                             \/ kind = "alipay" /\ r[2] = None /\ (q.op = "refund" => q.no \in Numbers(made'))
           /\ q.op = "query_refund" /\ r[1] # "ok" /\ MeansRefundIsAbsent(r[1]) => q.no \notin Numbers(made)
  <1>1. RefundsAre(kind, made, attempt)
    BY DEF IInv
  <1>2. CASE kind = "stripe"
    <2>1. r \in StripeAnswers(q)
      BY <1>2 DEF Answers, RefundOps
    <2>2. r = <<"resource_missing", None>>
      BY <1>2, <2>1 DEF StripeAnswers, RequestIs, RefundOps
    <2> QED
      BY <2>2 DEF MeansRefundIsAbsent
  <1>3. CASE kind = "alipay"
    <2>1. r \in AlipayAnswers(q)
      BY <1>3 DEF Answers, RefundOps
    <2>2. CASE q.op = "refund"
      <3>1. r \in IF Held(made', q.no) # {} THEN {<<"ok", None>>} ELSE {<<"refused", None>>}
        BY <2>1, <2>2 DEF AlipayAnswers
      <3> QED
        BY <1>3, <2>2, <3>1, HeldOnes
    <2>3. CASE q.op = "query_refund"
      <3>1. r \in OrElse(Held(made, q.no), {<<"ok", None>>, <<"acq.refund_not_exist", None>>})
        BY <2>1, <2>3 DEF AlipayAnswers
      <3>2. CASE Held(made, q.no) # {}
        <4>1. r \in Held(made, q.no)
          BY <3>1, <3>2 DEF OrElse
        <4> QED
          BY <2>3, <4>1, HeldOnes
      <3>3. CASE Held(made, q.no) = {}
        <4>1. r \in {<<"ok", None>>, <<"acq.refund_not_exist", None>>}
          BY <3>1, <3>3 DEF OrElse
        <4>2. q.no \notin Numbers(made)
          BY <3>3, HeldOnes
        <4> QED
          BY <1>3, <2>3, <4>1, <4>2
      <3> QED
        BY <3>2, <3>3
    <2> QED
      BY <2>2, <2>3 DEF RefundOps
  <1>4. CASE kind = "wechat_pay"
    <2>1. r \in WeChatPayAnswers(q)
      BY <1>4 DEF Answers, RefundOps
    <2>2. CASE q.op = "refund"
      <3>1. r \in OrElse(Held(made', q.no), {<<"refused", None>>})
        BY <2>1, <2>2 DEF WeChatPayAnswers
      <3>2. r \in Held(made', q.no) \/ r = <<"refused", None>>
        BY <3>1 DEF OrElse
      <3> QED
        BY <2>2, <3>2, HeldOnes
    <2>3. CASE q.op = "query_refund"
      <3>1. r \in OrElse(Held(made, q.no), {<<"refund_not_exist", None>>})
        BY <2>1, <2>3 DEF WeChatPayAnswers
      <3>2. CASE Held(made, q.no) # {}
        <4>1. r \in Held(made, q.no)
          BY <3>1, <3>2 DEF OrElse
        <4> QED
          BY <2>3, <4>1, HeldOnes
      <3>3. CASE Held(made, q.no) = {}
        <4>1. r = <<"refund_not_exist", None>>
          BY <3>1, <3>3 DEF OrElse
        <4>2. q.no \notin Numbers(made)
          BY <3>3, HeldOnes
        <4> QED
          BY <4>1, <4>2
      <3> QED
        BY <3>2, <3>3
    <2> QED
      BY <2>2, <2>3 DEF RefundOps
  <1> QED
    BY <1>2, <1>3, <1>4, KindsAre DEF RequestIs, IInv, TradeIs

\* A refund that is read as succeeded is one that has.
LEMMA RefundToldTruly ==
    ASSUME kind \in Kinds, NEW c, NEW op \in RefundOps, NEW no, NEW state, NEW refunds,
           RefundsAre(kind, refunds, "succeeded"),
           \/ \E i \in DOMAIN refunds : refunds[i].no = no /\ state = refunds[i].status
           \/ kind = "alipay" /\ state = None /\ (op = "refund" => no \in Numbers(refunds))
    PROVE  /\ RefundState(c, op, state) \in {"succeeded", "processing", "failed", "unknown"}
           /\ RefundState(c, op, state) = "succeeded" => no \in Done(refunds)
  <1>1. \A i \in DOMAIN refunds : refunds[i] \in Made(kind)
    BY DEF RefundsAre
  <1>2. CASE \E i \in DOMAIN refunds : refunds[i].no = no /\ state = refunds[i].status
    <2>1. PICK i \in DOMAIN refunds : refunds[i].no = no /\ state = refunds[i].status
      BY <1>2
    <2>2. state \in RefundStarts[kind] \cup RefundEnds[kind]
      BY <1>1, <2>1 DEF Made
    <2>3. kind = "alipay" => state # None
      BY <2>2, NoneAssumption DEF RefundStarts, RefundEnds, RefundTargets
    <2>4. RawStatus(op, state) = state
      BY <2>3 DEF RawStatus
    <2>5. state \in RefundDone => no \in Done(refunds)
      BY <2>1 DEF Done
    <2> QED
      BY <2>2, <2>4, <2>5, RefundReading DEF RefundState
  <1>3. CASE kind = "alipay" /\ state = None /\ op = "refund" /\ no \in Numbers(refunds)
    <2>1. RawStatus(op, state) = "success"
      BY <1>3 DEF RawStatus
    <2>2. PICK i \in DOMAIN refunds : refunds[i].no = no
      BY <1>3 DEF Numbers
    <2>3. refunds[i].status \in RefundDone
      BY <1>1, <1>3 DEF Made, RefundStarts, RefundEnds, RefundDone
    <2>4. no \in Done(refunds)
      BY <2>2, <2>3 DEF Done
    <2> QED
      BY <1>3, <2>1, <2>4, NoStatus DEF RefundState
  <1>4. CASE state = None /\ op = "query_refund"
    <2>1. RawStatus(op, state) = None
      BY <1>4 DEF RawStatus
    <2> QED
      BY <2>1, NoStatus DEF RefundState
  <1> QED
    BY <1>2, <1>3, <1>4 DEF RefundOps

\* An answer and what it is read as.
LEMMA ServeMoves ==
    ASSUME IInv, NEW c \in Clients, Serve(c)
    PROVE  /\ ProviderMoved /\ RequestIs(RequestOf(c), kind, attempt) /\ wire' \subseteq wire
           /\ RequestOf(c).op \notin {"create", "cancel", "refund"} => UNCHANGED <<trade, made>>
           /\ RequestOf(c).op = "cancel" /\ RequestOf(c).known /\ trade \in Cancelable => trade' = ClosedAs[kind]
           /\ \E r \in Answers(RequestOf(c)) \cup {<<"unreadable", None>>} :
                  call' = [call EXCEPT ![c] = Outcome(call[c].op, call[c].no, Reading(c, call[c].op, r[1], r[2]))]
  <1>1. call[c].phase = "waiting" /\ UNCHANGED <<kind, local>>
    BY DEF Serve
  <1>2. RequestIs(RequestOf(c), kind, attempt) /\ RequestOf(c).op = call[c].op
    BY <1>1, RequestOfCall
  <1>3. \E r \in Answers(RequestOf(c)) \cup {<<"unreadable", None>>} :
            call' = [call EXCEPT ![c] = Outcome(call[c].op, call[c].no, Reading(c, call[c].op, r[1], r[2]))]
    BY <1>2 DEF Serve, Answered
  <1>4. CASE RequestOf(c).op \in Effects
    <2>1. Execute(RequestOf(c)) /\ wire' = wire \ {RequestOf(c)}
      BY <1>4 DEF Serve
    <2> QED
      BY <1>1, <1>2, <1>3, <1>4, <2>1, Executes DEF Effects
  <1>5. CASE RequestOf(c).op \notin Effects
    <2>1. UNCHANGED <<provider, wire>>
      BY <1>5 DEF Serve
    <2>2. UNCHANGED <<trade, made>>
      BY <2>1 DEF provider
    <2> QED
      BY <1>1, <1>2, <1>3, <1>5, <2>1, <2>2, ProviderWaits DEF Effects
  <1> QED
    BY <1>4, <1>5

\* What a refund handler or the worker reads of its refund.
LEMMA RefundServed ==
    ASSUME IInv, NEW c \in Clients, Serve(c), call[c].op \in RefundOps
    PROVE  \E reading \in {"succeeded", "processing", "failed", "unknown", "absent", "error"} :
               /\ call' = [call EXCEPT ![c] = Outcome(call[c].op, call[c].no, reading)]
               /\ reading = "succeeded" => call[c].no \in Done(made')
               /\ call[c].op = "query_refund" /\ reading = "absent" => call[c].no \notin Numbers(made)
  <1> DEFINE q == RequestOf(c)
             op == call[c].op
             no == call[c].no
  <1>1. call[c].phase = "waiting"
    BY DEF Serve
  <1>2. /\ ProviderMoved /\ RequestIs(q, kind, attempt)
        /\ q.op = "query_refund" => made' = made
    BY ServeMoves
  <1>3. q.op = op /\ q.no = no /\ op \in RefundOps
    BY <1>1, RequestOfCall
  <1>4. PICK r \in Answers(q) \cup {<<"unreadable", None>>} :
            call' = [call EXCEPT ![c] = Outcome(op, no, Reading(c, op, r[1], r[2]))]
    BY ServeMoves
  <1>5. r \notin Answers(q) => r[1] # "ok" /\ ~MeansRefundIsAbsent(r[1])
    BY <1>4 DEF MeansRefundIsAbsent
  <1>6. kind \in Kinds /\ RefundsAre(kind, made', "succeeded")
    BY <1>2, <1>3 DEF IInv, TradeIs, RequestIs, ProviderMoved
  <1> DEFINE reading == Reading(c, op, r[1], r[2])
  <1> HIDE DEF q
  <1>7. /\ r[1] = "ok" => reading = RefundState(c, op, r[2])
        /\ r[1] # "ok" => reading \in {"absent", "error"}
        /\ r[1] # "ok" /\ op = "query_refund" /\ reading = "absent" => MeansRefundIsAbsent(r[1])
    BY DEF Reading, MeansRefundIsAbsent, RefundOps
  <1>8. r[1] = "ok" => \/ \E i \in DOMAIN made' : made'[i].no = no /\ r[2] = made'[i].status
                       \/ kind = "alipay" /\ r[2] = None /\ (op = "refund" => no \in Numbers(made'))
    BY <1>2, <1>3, <1>4, <1>5, RefundAnswered
  <1>9. op = "query_refund" /\ r[1] # "ok" /\ MeansRefundIsAbsent(r[1]) => no \notin Numbers(made)
    BY <1>2, <1>3, <1>4, <1>5, RefundAnswered
  <1> HIDE DEF reading, op, no
  <1>10. CASE r[1] = "ok"
    <2>1. /\ reading \in {"succeeded", "processing", "failed", "unknown"}
          /\ reading = "succeeded" => no \in Done(made')
      <3>1. /\ RefundState(c, op, r[2]) \in {"succeeded", "processing", "failed", "unknown"}
            /\ RefundState(c, op, r[2]) = "succeeded" => no \in Done(made')
        BY <1>3, <1>6, <1>8, <1>10, RefundToldTruly
      <3> QED
        BY <1>7, <1>10, <3>1
    <2> QED
      BY <1>4, <2>1 DEF reading, op, no
  <1>11. CASE r[1] # "ok"
    <2>1. reading \in {"absent", "error"} /\ (op = "query_refund" /\ reading = "absent" => no \notin Numbers(made))
      BY <1>7, <1>9, <1>11
    <2> QED
      BY <1>4, <2>1 DEF reading, op, no
  <1> QED
    BY <1>10, <1>11

LEMMA ServeStep == ASSUME IInv, NEW c \in Clients, Serve(c) PROVE IInv'
  <1> DEFINE q == RequestOf(c)
             op == call[c].op
             no == call[c].no
  <1>1. call[c].phase = "waiting"
    BY DEF Serve
  <1>2. /\ ProviderMoved /\ RequestIs(q, kind, attempt) /\ wire' \subseteq wire
        /\ q.op \notin {"create", "cancel", "refund"} => UNCHANGED <<trade, made>>
        /\ q.op = "cancel" /\ q.known /\ trade \in Cancelable => trade' = ClosedAs[kind]
    BY ServeMoves
  <1>3. q.op = op /\ q.no = no /\ op \in AllOps /\ no \in Refunds \cup {None} /\ (op \in RefundOps => no \in Refunds)
    BY <1>1, RequestOfCall
  <1>4. PICK r \in Answers(q) \cup {<<"unreadable", None>>} :
            call' = [call EXCEPT ![c] = Outcome(op, no, Reading(c, op, r[1], r[2]))]
    BY ServeMoves
  <1>5. r \notin Answers(q) => r[1] \notin {"ok", "resource_missing", "refund_not_found"}
                               /\ ~MeansTradeIsAbsent(r[1]) /\ ~MeansRefundIsAbsent(r[1])
    BY <1>4 DEF MeansTradeIsAbsent, MeansRefundIsAbsent
  <1>6. /\ kind \in Kinds /\ kind # "paypal" /\ trade \in TradeStatuses /\ (trade \in PaidAs => charged)
        /\ RefundsAre(kind, made', attempt)
    BY <1>2 DEF IInv, TradeIs, RequestIs, ProviderMoved
  <1> DEFINE reading == Reading(c, op, r[1], r[2])
             x == Outcome(op, no, reading)
  <1> HIDE DEF q
  <1>7. CASE op = "query"
    <2>1. reading = IF r[1] = "ok" THEN Target(PaymentTargets, r[2], "unknown") ELSE "error"
      <3>1. Reading(c, "query", r[1], r[2]) = IF r[1] = "ok" THEN Target(PaymentTargets, r[2], "unknown") ELSE "error"
        BY DEF Reading, MeansRefundIsAbsent
      <3> QED
        BY <1>7, <3>1
    <2>2. r[1] = "ok" => r[2] = trade
      BY <1>2, <1>3, <1>4, <1>5, <1>7, QueryAnswered
    <2>3. /\ reading \in {"succeeded", "canceled", "pending", "unknown", "error"}
          /\ reading = "succeeded" => trade \in PaidAs
          /\ reading = "canceled" => trade = ClosedAs[kind]
      BY <1>6, <2>1, <2>2, PaymentReading
    <2> HIDE DEF reading
    <2>4. reading \in Readings /\ reading \notin {"failed", "closed"}
      BY <2>3 DEF Readings
    <2>5. x \in Calls /\ x.phase = "answered" /\ x.op = op /\ x.no = no /\ x.reading = reading
      BY <1>3, <2>4, OutcomeFields
    <2> HIDE DEF x
    <2>6. CallIs(x, kind, trade', charged', made', attempt)
      BY <1>2, <1>3, <1>6, <1>7, <2>3, <2>4, <2>5 DEF CallIs, ProviderMoved, RefundOps
    <2> QED
      BY <1>2, <1>4, <2>6, Moves DEF x, reading
  <1>8. CASE op = "create"
    <2>1. reading \in {"opened", "error"}
      BY <1>8, ReadingOf
    <2> HIDE DEF reading
    <2>2. reading \in Readings
      BY <2>1 DEF Readings
    <2>3. x \in Calls /\ x.phase = "answered" /\ x.op = op /\ x.no = no /\ x.reading = reading
      BY <1>3, <2>2, OutcomeFields
    <2> HIDE DEF x
    <2>4. CallIs(x, kind, trade', charged', made', attempt)
      BY <1>3, <1>8, <2>2, <2>3 DEF CallIs, RefundOps
    <2> QED
      BY <1>2, <1>4, <2>4, Moves DEF x, reading
  <1>9. CASE op = "cancel"
    <2>1. /\ reading \in {"closed", "closed as absent", "error"}
          /\ reading = "closed" => r[1] = "ok" \/ (MeansTradeIsAbsent(r[1]) /\ r[1] # AbsentCode[kind])
      BY <1>9, ReadingOf
    <2>2. reading = "closed" => q.known /\ trade \in Cancelable \cup {ClosedAs[kind]}
      BY <1>2, <1>3, <1>4, <1>5, <1>9, <2>1, CancelAnswered
    <2>3. reading = "closed" => trade' = ClosedAs[kind]
      BY <1>2, <1>3, <1>9, <2>2 DEF ProviderMoved
    <2> HIDE DEF reading
    <2>4. reading \in Readings
      BY <2>1 DEF Readings
    <2>5. x \in Calls /\ x.phase = "answered" /\ x.op = op /\ x.no = no /\ x.reading = reading
      BY <1>3, <2>4, OutcomeFields
    <2> HIDE DEF x
    <2>6. CallIs(x, kind, trade', charged', made', attempt)
      BY <1>3, <1>9, <2>3, <2>4, <2>5 DEF CallIs, RefundOps
    <2> QED
      BY <1>2, <1>4, <2>6, Moves DEF x, reading
  <1>10. CASE op \in RefundOps
    <2>1. PICK told \in {"succeeded", "processing", "failed", "unknown", "absent", "error"} :
              /\ call' = [call EXCEPT ![c] = Outcome(op, no, told)]
              /\ told = "succeeded" => no \in Done(made')
      BY <1>10, RefundServed
    <2> DEFINE y == Outcome(op, no, told)
    <2>2. told \in Readings
      BY DEF Readings
    <2>3. y \in Calls /\ y.phase = "answered" /\ y.op = op /\ y.no = no /\ y.reading = told
      BY <1>3, <2>2, OutcomeFields
    <2> HIDE DEF y
    <2>4. CallIs(y, kind, trade', charged', made', attempt)
      BY <1>3, <1>10, <2>1, <2>2, <2>3 DEF CallIs, RefundOps
    <2> QED
      BY <1>2, <2>1, <2>4, Moves DEF y
  <1> QED
    BY <1>3, <1>7, <1>8, <1>9, <1>10 DEF AllOps, RefundOps

-----------------------------------------------------------------------------
(***************************************************************************)
(* What is recorded.                                                       *)
(***************************************************************************)

\* A step that records something, about the same trade.
LEMMA Records ==
    ASSUME IInv, UNCHANGED <<kind, provider, wire>>, attempt = "succeeded" => attempt' = "succeeded",
           {native', presumed', reconciled'} \subseteq BOOLEAN,
           call' = call \/ \E c \in Clients : call' = [call EXCEPT ![c] = Idle],
           RecordIs(kind, trade, charged, made, attempt', presumed', refunded')
    PROVE  IInv'
  <1>1. UNCHANGED <<kind, trade, charged, made, wire>>
    BY DEF provider
  <1>2. RefundsAre(kind, made, attempt') /\ TradeIs(kind, trade, charged, attempt')
    BY DEF IInv, RefundsAre, TradeIs
  <1>3. \A q \in wire : RequestIs(q, kind, attempt')
    BY DEF IInv, RequestIs
  <1>4. \A c \in Clients : CallIs(call[c], kind, trade, charged, made, attempt')
    BY CallStays DEF IInv
  <1>5. CallIs(Idle, kind, trade, charged, made, attempt')
    BY IdleIsCall DEF CallIs
  <1>6. call' \in [Clients -> Calls] /\ \A c \in Clients : call'[c] = call[c] \/ call'[c] = Idle
    BY IdleIsCall DEF IInv
  <1>7. \A c \in Clients : CallIs(call'[c], kind, trade, charged, made, attempt')
    BY <1>4, <1>5, <1>6
  <1> QED
    BY <1>1, <1>2, <1>3, <1>6, <1>7 DEF IInv

\* A settlement whose target is true.
LEMMA SettledTruly ==
    ASSUME IInv, NEW target, target # "failed", target = "succeeded" => charged, target = "canceled" => trade = ClosedAs[kind]
    PROVE  /\ RecordIs(kind, trade, charged, made, Settled(target), presumed, refunded)
           /\ attempt = "succeeded" => Settled(target) = "succeeded"
  <1>1. RecordIs(kind, trade, charged, made, attempt, presumed, refunded) /\ TradeIs(kind, trade, charged, attempt)
    BY DEF IInv
  <1>2. ClosedAs[kind] \notin PaidAs
    BY <1>1, TradeNames DEF TradeIs
  <1>3. \/ Settled(target) = attempt
        \/ /\ Settled(target) = target /\ target \in {"succeeded", "canceled"}
           /\ target = "canceled" => attempt # "succeeded"
    BY <1>1, Settling DEF RecordIs
  <1> QED
    BY <1>1, <1>2, <1>3 DEF RecordIs, TradeIs

LEMMA ReceiveStep == ASSUME IInv, NEW c \in Clients, Receive(c) PROVE IInv'
  <1>1. call[c].phase = "answered" /\ call' = [call EXCEPT ![c] = Idle] /\ UNCHANGED <<kind, provider, wire>>
    BY DEF Receive
  <1>2. /\ RecordIs(kind, trade, charged, made, attempt, presumed, refunded) /\ TradeIs(kind, trade, charged, attempt)
        /\ CallIs(call[c], kind, trade, charged, made, attempt) /\ {native, presumed, reconciled} \subseteq BOOLEAN
    BY DEF IInv
  <1>3. kind \in Kinds /\ ClosedAs[kind] \notin PaidAs \cup Cancelable
    BY <1>2, TradeNames DEF TradeIs
  <1>4. CASE ReceiveCreate(c)
    <2>1. native' \in BOOLEAN /\ UNCHANGED <<attempt, presumed, reconciled, refunded>>
      BY <1>2, <1>4 DEF ReceiveCreate
    <2> QED
      BY <1>1, <1>2, <2>1, Records
  <1>5. CASE ReceiveCancel(c)
    <2> DEFINE closes == IsActive(attempt) /\ call[c].reading \in {"closed", "closed as absent"}
    <2>1. /\ call[c].op = "cancel" /\ attempt' = IF closes THEN "canceled" ELSE attempt
          /\ presumed' = (presumed \/ (closes /\ call[c].reading = "closed as absent"))
          /\ UNCHANGED <<native, reconciled, refunded>>
      BY <1>5 DEF ReceiveCancel
    <2>2. closes => attempt = "pending"
      BY <1>2 DEF IsActive, RecordIs
    <2>3. call[c].reading = "closed" => trade = ClosedAs[kind]
      BY <1>1, <1>2, <2>1 DEF CallIs
    <2>4. closes /\ trade = ClosedAs[kind] => ~charged
      BY <1>2, <1>3, <2>2 DEF TradeIs
    <2>5. presumed' \in BOOLEAN /\ (attempt = "succeeded" => attempt' = "succeeded")
      BY <1>2, <2>1, <2>2
    <2>6. RecordIs(kind, trade, charged, made, attempt', presumed', refunded')
      BY <1>2, <2>1, <2>2, <2>3, <2>4 DEF RecordIs
    <2> QED
      BY <1>1, <1>2, <2>1, <2>5, <2>6, Records
  <1>6. CASE ReceiveQuery(c)
    <2> DEFINE target == IF c = "worker" THEN Target(PaymentTargets, call[c].reading, "unknown") ELSE call[c].reading
    <2>1. /\ call[c].op = "query" /\ attempt' = Settled(target)
          /\ reconciled' \in BOOLEAN /\ UNCHANGED <<native, presumed, refunded>>
      BY <1>2, <1>6 DEF ReceiveQuery
    <2>2. /\ call[c].reading \in Readings /\ call[c].reading \notin {"failed", "closed"}
          /\ call[c].reading = "succeeded" => charged
          /\ call[c].reading = "canceled" => trade = ClosedAs[kind]
      BY <1>1, <1>2, <2>1 DEF CallIs
    <2>3. target # "failed" /\ (target = "succeeded" => charged) /\ (target = "canceled" => trade = ClosedAs[kind])
      <3>1. /\ Target(PaymentTargets, call[c].reading, "unknown") # "failed"
            /\ Target(PaymentTargets, call[c].reading, "unknown") = "succeeded" => call[c].reading = "succeeded"
            /\ Target(PaymentTargets, call[c].reading, "unknown") = "canceled" => call[c].reading = "canceled"
        BY <1>3, <2>2, ReadingTwice
      <3>2. CASE c = "worker"
        BY <2>2, <3>1, <3>2
      <3>3. CASE c # "worker"
        BY <2>2, <3>3
      <3> QED
        BY <3>2, <3>3
    <2> HIDE DEF target
    <2>4. /\ RecordIs(kind, trade, charged, made, attempt', presumed', refunded')
          /\ attempt = "succeeded" => attempt' = "succeeded"
      BY <2>1, <2>3, SettledTruly
    <2> QED
      BY <1>1, <1>2, <2>1, <2>4, Records
  <1>7. CASE ReceiveRefund(c)
    <2>1. /\ call[c].op \in RefundOps /\ UNCHANGED <<native, attempt, presumed, reconciled>>
          /\ refunded' = IF call[c].reading = "succeeded" THEN refunded \cup {call[c].no} ELSE refunded
      BY <1>7 DEF ReceiveRefund, RefundOps
    <2>2. refunded' \subseteq Done(made)
      BY <1>1, <1>2, <2>1 DEF CallIs, RecordIs
    <2>3. RecordIs(kind, trade, charged, made, attempt', presumed', refunded')
      BY <1>2, <2>1, <2>2 DEF RecordIs
    <2> QED
      BY <1>1, <1>2, <2>1, <2>3, Records
  <1> QED
    BY <1>4, <1>5, <1>6, <1>7 DEF Receive

LEMMA NotifyStep == ASSUME IInv, NEW n \in Notices, Notify(n) PROVE IInv'
  <1>1. UNCHANGED <<kind, provider, wire, call, native, presumed, reconciled>>
    BY DEF Notify
  <1>2. /\ RecordIs(kind, trade, charged, made, attempt, presumed, refunded) /\ TradeIs(kind, trade, charged, attempt)
        /\ RefundsAre(kind, made, attempt) /\ {native, presumed, reconciled} \subseteq BOOLEAN
    BY DEF IInv
  <1>3. kind \in Kinds /\ \A i \in DOMAIN made : made[i] \in Made(kind) /\ made[i].no # None
    <2>1. kind \in Kinds /\ \A i \in DOMAIN made : made[i] \in Made(kind)
      BY <1>2 DEF TradeIs, RefundsAre
    <2> QED
      BY <2>1, NoneAssumption DEF Made
  <1>4. CASE n.no = None
    <2> DEFINE target == Target(PaymentTargets, n.status, "unknown")
    <2>1. attempt' = Settled(target) /\ refunded' = refunded
      BY <1>4 DEF Notify
    <2>2. \/ charged /\ n.status = PaidNotice[kind]
          \/ trade = ClosedAs[kind] /\ n.status = ClosedAs[kind]
      BY <1>2, <1>3, <1>4 DEF Notices, TradeIs
    <2>3. Target(PaymentTargets, PaidNotice[kind], "unknown") = "succeeded"
      <3>1. CASE kind = "stripe"
        BY <3>1 DEF Target, PaymentTargets, PaidNotice
      <3>2. CASE kind = "alipay"
        BY <3>2 DEF Target, PaymentTargets, PaidNotice
      <3>3. CASE kind = "wechat_pay"
        BY <3>3 DEF Target, PaymentTargets, PaidNotice
      <3>4. CASE kind = "paypal"
        BY <3>4 DEF Target, PaymentTargets, PaidNotice
      <3> QED
        BY <1>3, <3>1, <3>2, <3>3, <3>4, KindsAre
    <2>4. Target(PaymentTargets, ClosedAs[kind], "unknown") = "canceled"
      <3>1. CASE kind = "stripe"
        BY <3>1 DEF Target, PaymentTargets, ClosedAs
      <3>2. CASE kind = "alipay"
        BY <3>2 DEF Target, PaymentTargets, ClosedAs
      <3>3. CASE kind = "wechat_pay"
        BY <3>3 DEF Target, PaymentTargets, ClosedAs
      <3>4. CASE kind = "paypal"
        BY <3>4 DEF Target, PaymentTargets, ClosedAs
      <3> QED
        BY <1>3, <3>1, <3>2, <3>3, <3>4, KindsAre
    <2>5. target # "failed" /\ (target = "succeeded" => charged) /\ (target = "canceled" => trade = ClosedAs[kind])
      BY <2>2, <2>3, <2>4
    <2> HIDE DEF target
    <2>6. /\ RecordIs(kind, trade, charged, made, attempt', presumed', refunded')
          /\ attempt = "succeeded" => attempt' = "succeeded"
      BY <1>1, <2>1, <2>5, SettledTruly
    <2> QED
      BY <1>1, <1>2, <2>6, Records
  <1>5. CASE n.no # None
    <2>1. attempt' = attempt
          /\ refunded' = IF Target(RefundTargets, n.status, "unknown") = "succeeded" THEN refunded \cup {n.no} ELSE refunded
      BY <1>5 DEF Notify
    <2>2. PICK i \in DOMAIN made : n.no = made[i].no /\ n.status = made[i].status
      BY <1>5 DEF Notices
    <2>3. n.status \in RefundStarts[kind] \cup RefundEnds[kind]
      BY <1>3, <2>2 DEF Made
    <2>4. Target(RefundTargets, n.status, "unknown") = "succeeded" => n.status \in RefundDone
      BY <1>3, <2>3, RefundReading
    <2>5. refunded' \subseteq Done(made)
      BY <1>2, <2>1, <2>2, <2>4 DEF Done, RecordIs
    <2>6. RecordIs(kind, trade, charged, made, attempt', presumed', refunded')
      BY <1>1, <1>2, <2>1, <2>5 DEF RecordIs
    <2> QED
      BY <1>1, <1>2, <2>1, <2>6, Records
  <1> QED
    BY <1>4, <1>5

-----------------------------------------------------------------------------
(***************************************************************************)
(* The invariant, and what follows from it.                                *)
(***************************************************************************)

LEMMA Initially == Init => IInv
  <1> SUFFICES ASSUME Init PROVE IInv
    OBVIOUS
  <1>1. RefundsAre(kind, made, attempt)
    BY DEF Init, RefundsAre
  <1>2. TradeIs(kind, trade, charged, attempt)
    BY DEF Init, TradeIs, TradeStatuses, PaidAs, Absent
  <1>3. call \in [Clients -> Calls] /\ \A c \in Clients : CallIs(call[c], kind, trade, charged, made, attempt)
    BY IdleIsCall DEF Init, CallIs
  <1>4. RecordIs(kind, trade, charged, made, attempt, presumed, refunded)
    BY DEF Init, RecordIs
  <1> QED
    BY <1>1, <1>2, <1>3, <1>4 DEF Init, IInv

LEMMA Inductive == IInv /\ [Next]_vars => IInv'
  <1> SUFFICES ASSUME IInv, [Next]_vars PROVE IInv'
    OBVIOUS
  <1>1. CASE UNCHANGED vars
    <2>1. UNCHANGED <<kind, provider, wire, call, local>>
      BY <1>1 DEF vars
    <2>2. ProviderMoved
      BY <2>1, ProviderWaits
    <2> QED
      BY <2>1, <2>2, MovesAlone
  <1> QED
    BY <1>1, BeginStep, ServeStep, FaultStep, ReceiveStep, UnheardStep, PayStep, ExpireStep, FinishStep, NotifyStep DEF Next

LEMMA Invariance == Spec => []IInv
  BY Initially, Inductive, PTL DEF Spec

(* Every variable stays within its vocabulary, for any providers, refunds and numbers of attempts. *)
THEOREM TypeCorrect == Spec => []TypeOK
  <1>1. IInv => TypeOK
    <2> SUFFICES ASSUME IInv PROVE TypeOK
      OBVIOUS
    <2>1. kind \in Kinds /\ trade \in TradeStatuses /\ {charged, native, presumed, reconciled} \subseteq BOOLEAN
      BY DEF IInv, TradeIs
    <2>2. \A i \in DOMAIN made : made[i].no \in Refunds
      <3>1. \A i \in DOMAIN made : made[i] \in Made(kind)
        BY DEF IInv, RefundsAre
      <3> QED
        BY <3>1 DEF Made
    <2>3. attempt \in {"pending", "succeeded", "canceled"} /\ refunded \subseteq Refunds
      BY <2>2 DEF IInv, RecordIs, Done
    <2>4. \A c \in Clients : call[c].try \in 1 .. RetryAttempts
      BY DEF IInv, Calls
    <2> QED
      BY <2>1, <2>2, <2>3, <2>4 DEF TypeOK
  <1> QED
    BY <1>1, Invariance, PTL

(* However often a refund is submitted, by handlers, the worker or requests that outlive their
   caller, and however many pages the provider's list has, it is made once. *)
THEOREM OneRefundIsMade == Spec => []OneRefundPerNumber
  <1>1. IInv => OneRefundPerNumber
    BY DEF IInv, RefundsAre, OneRefundPerNumber
  <1> QED
    BY <1>1, Invariance, PTL

(* What an attempt is settled as is true at the provider, and remains so; a close that rests on
   the provider not finding the trade is excepted. *)
THEOREM SettledAttemptIsAlwaysTrue == Spec => []SettledAttemptIsTrue
  <1>1. IInv => SettledAttemptIsTrue
    BY DEF IInv, RecordIs, SettledAttemptIsTrue
  <1> QED
    BY <1>1, Invariance, PTL

\* The refunds that have succeeded are numbers of refunds.
LEMMA DoneAreRefunds ==
    ASSUME NEW k, NEW refunds, NEW state, RefundsAre(k, refunds, state)
    PROVE  Done(refunds) \subseteq Refunds
  <1>1. \A i \in DOMAIN refunds : refunds[i] \in Made(k)
    BY DEF RefundsAre
  <1> QED
    BY <1>1 DEF Done, Made

\* A step pays one refund out, or records one that has been paid out.
LEMMA PaysOrRecords ==
    ASSUME IInv, [Next]_vars
    PROVE  \/ refunded' = refunded /\ Done(made) \subseteq Done(made') /\ \A r, s \in Done(made') \ Done(made) : r = s
           \/ made' = made /\ refunded \subseteq refunded' /\ \A r, s \in refunded' \ refunded : r = s
  <1>1. CASE ProviderMoved
    BY <1>1, LocalsStay DEF ProviderMoved
  <1>2. CASE UNCHANGED <<kind, provider, local>>
    BY <1>2, <1>1, ProviderWaits
  <1>3. ASSUME NEW c \in Clients, Receive(c)
        PROVE  made' = made /\ refunded \subseteq refunded' /\ \A r, s \in refunded' \ refunded : r = s
    BY <1>3 DEF Receive, ReceiveCreate, ReceiveCancel, ReceiveQuery, ReceiveRefund, provider
  <1>4. ASSUME NEW n \in Notices, Notify(n)
        PROVE  made' = made /\ refunded \subseteq refunded' /\ \A r, s \in refunded' \ refunded : r = s
    BY <1>4 DEF Notify, provider
  <1>5. ASSUME NEW c \in Clients, Serve(c) PROVE ProviderMoved
    BY <1>5, ServeMoves
  <1>6. ASSUME NEW q \in wire, ServeUnheard(q) PROVE ProviderMoved
    BY <1>6, Executes DEF ServeUnheard, IInv
  <1>7. ASSUME Pay \/ Expire PROVE refunded' = refunded /\ made' = made
    BY <1>7 DEF Pay, Expire, local
  <1>8. ASSUME NEW i \in DOMAIN made, FinishRefund(i) PROVE ProviderMoved
    BY <1>8, FinishMoves
  <1>9. CASE UNCHANGED vars
    BY <1>2, <1>9 DEF vars
  <1>10. ASSUME NEW c \in Clients, NEW op, NEW no, Begin(c, op, no) \/ Fault(c)
         PROVE  UNCHANGED <<kind, provider, local>>
    BY <1>10 DEF Begin, Fault
  <1> QED
    BY <1>1, <1>2, <1>3, <1>4, <1>5, <1>6, <1>7, <1>8, <1>9, <1>10 DEF Next

(* The calls implement the payout ledger: whatever is sent, repeated, lost or read, the provider pays
   a refund out once, and it is recorded as succeeded only afterwards and for good. *)
THEOREM CallsImplementPayoutLedger == Spec => ImplementsPayoutLedger
  <1>1. PaidOut = Done(made)
    BY DEF PaidOut, Done
  <1>2. Init => Ledger!LedgerInit
    BY DEF Init, Ledger!LedgerInit, PaidOut
  <1>3. ASSUME IInv, IInv'
        PROVE  Done(made') \subseteq Refunds /\ refunded' \subseteq Done(made')
    <2>1. RefundsAre(kind', made', attempt')
      BY <1>3 DEF IInv
    <2>2. refunded' \subseteq Done(made')
      BY <1>3 DEF IInv, RecordIs
    <2> QED
      BY <2>1, <2>2, DoneAreRefunds
  <1>4. ASSUME IInv, IInv', [Next]_vars PROVE [Ledger!LedgerNext]_(Ledger!ledgerVars)
    <2>1. CASE UNCHANGED <<PaidOut, refunded>>
      BY <2>1 DEF Ledger!ledgerVars
    <2>2. PaidOut' = Done(made')
      BY DEF PaidOut, Done
    <2>3. CASE refunded' = refunded /\ Done(made) \subseteq Done(made') /\ \A r, s \in Done(made') \ Done(made) : r = s
      <3>1. ASSUME NEW r \in Done(made') \ Done(made)
            PROVE  r \in Refunds /\ r \notin PaidOut /\ PaidOut' = PaidOut \cup {r}
        BY <1>1, <1>3, <1>4, <2>2, <2>3, <3>1
      <3>2. CASE Done(made') \ Done(made) # {}
        BY <2>3, <3>1, <3>2 DEF Ledger!LedgerNext, Ledger!PayOut
      <3>3. CASE Done(made') \ Done(made) = {}
        BY <1>1, <2>1, <2>2, <2>3, <3>3
      <3> QED
        BY <3>2, <3>3
    <2>4. CASE made' = made /\ refunded \subseteq refunded' /\ \A r, s \in refunded' \ refunded : r = s
      <3>1. PaidOut' = PaidOut
        BY <2>4 DEF PaidOut
      <3>2. ASSUME NEW r \in refunded' \ refunded
            PROVE  r \in Refunds /\ r \in PaidOut \ refunded /\ refunded' = refunded \cup {r}
        <4>1. refunded' \subseteq Done(made) /\ Done(made) \subseteq Refunds
          BY <1>3, <1>4, <2>4
        <4> QED
          BY <1>1, <2>4, <3>2, <4>1
      <3>3. CASE refunded' \ refunded # {}
        BY <3>1, <3>2, <3>3 DEF Ledger!LedgerNext, Ledger!Record
      <3>4. CASE refunded' \ refunded = {}
        BY <2>1, <2>4, <3>1, <3>4
      <3> QED
        BY <3>3, <3>4
    <2> QED
      BY <1>4, <2>3, <2>4, PaysOrRecords
  <1> QED
    BY <1>2, <1>4, Invariance, PTL DEF Spec, ImplementsPayoutLedger, Ledger!LedgerSpec

(* A refund query is read as "no such refund", after which the handler may submit the refund again,
   only if the provider held no refund of that number when it answered: an answer from the first
   page of a longer list, an unreadable answer and a transport error are never read so. *)
THEOREM AbsentRefundIsAlwaysAbsent == Spec => AbsentRefundIsAbsent
  <1> DEFINE Absence(c) == /\ call[c].phase = "waiting"
                           /\ call'[c].phase = "answered"
                           /\ call'[c].op = "query_refund"
                           /\ call'[c].reading = "absent"
                           => \A i \in DOMAIN made : made[i].no # call[c].no
  <1>1. ASSUME IInv, [Next]_vars, NEW c \in Clients PROVE Absence(c)
    <2> SUFFICES ASSUME call[c].phase = "waiting", call'[c].phase = "answered",
                        call'[c].op = "query_refund", call'[c].reading = "absent"
                 PROVE  \A i \in DOMAIN made : made[i].no # call[c].no
      OBVIOUS
    <2>1. call[c] \in Calls /\ call \in [Clients -> Calls]
      BY <1>1 DEF IInv
    <2>2. CASE Serve(c)
      <3>1. call[c].op = "query_refund"
        <4>1. PICK r \in Answers(RequestOf(c)) \cup {<<"unreadable", None>>} :
                  call' = [call EXCEPT ![c] = Outcome(call[c].op, call[c].no, Reading(c, call[c].op, r[1], r[2]))]
          BY <1>1, <2>2, ServeMoves
        <4> QED
          BY <2>1, <4>1 DEF Outcome, Idle
      <3>2. PICK reading \in {"succeeded", "processing", "failed", "unknown", "absent", "error"} :
                /\ call' = [call EXCEPT ![c] = Outcome(call[c].op, call[c].no, reading)]
                /\ call[c].op = "query_refund" /\ reading = "absent" => call[c].no \notin Numbers(made)
        BY <1>1, <2>2, <3>1, RefundServed DEF RefundOps
      <3>3. reading = "absent"
        BY <2>1, <3>2 DEF Outcome, Idle
      <3> QED
        BY <3>1, <3>2, <3>3 DEF Numbers
    <2>3. CASE Fault(c)
      <3>1. CASE call' = [call EXCEPT ![c].try = @ + 1]
        BY <2>1, <3>1 DEF Calls
      <3>2. CASE call' = Answered(c, "error")
        BY <2>1, <3>2 DEF Answered, Outcome, Idle
      <3> QED
        BY <2>3, <3>1, <3>2 DEF Fault
    <2>4. CASE ~Serve(c) /\ ~Fault(c)
      <3>1. call'[c] = call[c]
        <4>1. CASE UNCHANGED call
          BY <4>1
        <4>2. CASE \E d \in Clients : \E op, no : Begin(d, op, no)
          BY <2>1, <4>2 DEF Begin
        <4>3. CASE \E d \in Clients \ {c} : Serve(d)
          BY <2>1, <4>3 DEF Serve, Answered
        <4>4. CASE \E d \in Clients \ {c} : Fault(d)
          BY <2>1, <4>4 DEF Fault, Answered
        <4>5. CASE \E d \in Clients : Receive(d)
          BY <2>1, <4>5 DEF Receive
        <4>6. CASE (\E q \in wire : ServeUnheard(q)) \/ Pay \/ Expire \/ (\E i \in DOMAIN made : FinishRefund(i))
                   \/ \E n \in Notices : Notify(n)
          BY <4>6 DEF ServeUnheard, Pay, Expire, FinishRefund, Notify
        <4> QED
          BY <1>1, <2>4, <4>1, <4>2, <4>3, <4>4, <4>5, <4>6 DEF Next, vars
      <3> QED
        BY <3>1
    <2> QED
      BY <2>2, <2>3, <2>4
  <1>2. IInv /\ [Next]_vars => [\A c \in Clients : Absence(c)]_vars
    BY <1>1
  <1> QED
    BY <1>2, Invariance, PTL DEF Spec, AbsentRefundIsAbsent

-----------------------------------------------------------------------------
(***************************************************************************)
(* The worker: batches, locks and fresh rows.                              *)
(***************************************************************************)

Statuses == Fresh \cup {"processing", "settled"}
Items == [row : Rows, status : Statuses]
WorkerStates ==
    [phase : {"idle", "claim", "mark", "work"}, stage : {"attempts", "refunds"},
     tenants : Seq(Nat), due : SUBSET Rows, batch : Seq(Items), locks : SUBSET Rows]

Typed == WorkerTypeOK /\ worker \in [Workers -> WorkerStates]

\* Only an open transaction locks rows, and a row is locked once.
LocksHeld ==
    /\ \A w \in Workers : worker[w].phase # "mark" => worker[w].locks = {}
    /\ \A v, w \in Workers : v # w => worker[v].locks \cap worker[w].locks = {}

\* A batch exists from the claim on; while its transaction is open the rows are as they
\* were read, afterwards none of those that were fresh still is.
BatchesKnown ==
    \A w \in Workers :
        /\ worker[w].phase \in {"idle", "claim"} => worker[w].batch = <<>>
        /\ \A i \in DOMAIN worker[w].batch :
             LET item == worker[w].batch[i]
             IN  /\ worker[w].phase = "mark" => item.row \in worker[w].locks /\ item.status = status[item.row]
                 /\ worker[w].phase = "work" /\ item.status \in Fresh => status[item.row] \notin Fresh

\* Two batches do not share a row that was fresh for both.
FreshOnce ==
    \A v, w \in Workers : v # w =>
        \A i \in DOMAIN worker[v].batch, j \in DOMAIN worker[w].batch :
            worker[v].batch[i] = worker[w].batch[j] => worker[v].batch[i].status \notin Fresh

WorkerInv == Typed /\ LocksHeld /\ BatchesKnown /\ FreshOnce

-----------------------------------------------------------------------------
\* A sequence of the oldest is one of members, within the limit.
LEMMA OldestAreMembers ==
    ASSUME NEW S, NEW n \in Nat, NEW s \in Oldest(S, n)
    PROVE  s \in Seq(S) /\ Len(s) <= n /\ Range(s) \subseteq S
  <1>1. PICK k \in 0 .. n : s \in [1 .. k -> S]
    BY DEF Oldest
  <1>2. s \in Seq(S) /\ Len(s) = k
    BY <1>1
  <1> QED
    BY <1>1, <1>2 DEF Range

\* A batch is of rows and their statuses.
LEMMA BatchOfItems ==
    ASSUME Typed, NEW w \in Workers
    PROVE  \A i \in DOMAIN worker[w].batch :
             worker[w].batch[i].row \in Rows /\ worker[w].batch[i].status \in Statuses
  <1>1. worker[w].batch \in Seq(Items)
    BY DEF Typed, WorkerStates
  <1>2. \A i \in DOMAIN worker[w].batch : worker[w].batch[i] \in Items
    BY <1>1
  <1> QED
    BY <1>2 DEF Items

\* The invariant says what FreshClaimsAreDisjoint says.
LEMMA FreshIsKnown == WorkerInv => FreshClaimsAreDisjoint
  <1> SUFFICES ASSUME WorkerInv, NEW w \in Workers, NEW r \in Rows, NEW s \in Fresh, InBatch(w, r, s)
               PROVE  /\ \A v \in Workers \ {w} : ~InBatch(v, r, s)
                      /\ worker[w].phase = "work" => status[r] \notin Fresh
    BY DEF FreshClaimsAreDisjoint
  <1>1. PICK i \in DOMAIN worker[w].batch : worker[w].batch[i] = [row |-> r, status |-> s]
    BY DEF InBatch
  <1>2. worker[w].phase = "work" => status[r] \notin Fresh
    BY <1>1 DEF WorkerInv, BatchesKnown
  <1>3. ASSUME NEW v \in Workers \ {w}, InBatch(v, r, s)
        PROVE  FALSE
    <2>1. PICK j \in DOMAIN worker[v].batch : worker[v].batch[j] = [row |-> r, status |-> s]
      BY <1>3 DEF InBatch
    <2> QED
      BY <1>1, <2>1 DEF WorkerInv, FreshOnce
  <1> QED
    BY <1>2, <1>3

\* Going on to the next row, stage or tenant keeps a worker's state well formed.
LEMMA ContinueKeeps ==
    ASSUME NEW w \in Workers, WorkerInv, worker[w].phase = "work"
    PROVE  /\ Continue(w) \in WorkerStates
           /\ Len(Continue(w).batch) <= RowLimit /\ Len(Continue(w).tenants) <= TenantLimit
           /\ Continue(w).phase \in {"idle", "claim", "work"} /\ Continue(w).locks = {}
           /\ Continue(w).phase # "work" => Continue(w).batch = <<>>
           /\ \A i \in DOMAIN Continue(w).batch :
                \E j \in DOMAIN worker[w].batch : Continue(w).batch[i] = worker[w].batch[j]
  <1> DEFINE v == worker[w]
  <1>1. /\ v \in WorkerStates /\ v.locks = {}
        /\ Len(v.batch) <= RowLimit /\ Len(v.tenants) <= TenantLimit
    BY DEF WorkerInv, Typed, WorkerTypeOK, LocksHeld
  <1>2. CASE v.batch # <<>>
    <2>1. Continue(w) = [v EXCEPT !.batch = Tail(@)]
      BY <1>2 DEF Continue
    <2>2. /\ v.batch \in Seq(Items) /\ Tail(v.batch) \in Seq(Items)
          /\ Len(Tail(v.batch)) = Len(v.batch) - 1
          /\ \A i \in DOMAIN Tail(v.batch) : i + 1 \in DOMAIN v.batch /\ Tail(v.batch)[i] = v.batch[i + 1]
      BY <1>1, <1>2 DEF WorkerStates
    <2>3. /\ Continue(w) \in WorkerStates /\ Continue(w).batch = Tail(v.batch)
          /\ Continue(w).phase = "work" /\ Continue(w).tenants = v.tenants /\ Continue(w).locks = {}
      BY <1>1, <2>1, <2>2 DEF WorkerStates
    <2>4. Len(Continue(w).batch) <= RowLimit
      BY <1>1, <2>2, <2>3, LimitAssumption
    <2> QED
      BY <1>1, <2>2, <2>3, <2>4
  <1>3. CASE v.batch = <<>> /\ v.stage = "attempts"
    <2>1. Continue(w) = [v EXCEPT !.stage = "refunds", !.phase = "claim", !.due = @ \ AttemptRows]
      BY <1>3 DEF Continue
    <2> QED
      BY <1>1, <1>3, <2>1 DEF WorkerStates
  <1>4. CASE v.batch = <<>> /\ v.stage = "refunds" /\ Len(v.tenants) > 1
    <2>1. Continue(w) = [v EXCEPT !.stage = "attempts", !.phase = "claim", !.tenants = Tail(@)]
      BY <1>4 DEF Continue
    <2>2. v.tenants \in Seq(Nat) /\ Tail(v.tenants) \in Seq(Nat) /\ Len(Tail(v.tenants)) = Len(v.tenants) - 1
      BY <1>1, <1>4 DEF WorkerStates
    <2>3. /\ Continue(w) \in WorkerStates /\ Continue(w).batch = <<>> /\ Continue(w).phase = "claim"
          /\ Continue(w).tenants = Tail(v.tenants) /\ Continue(w).locks = {}
      BY <1>1, <1>4, <2>1, <2>2 DEF WorkerStates
    <2> QED
      BY <1>1, <1>4, <2>2, <2>3, LimitAssumption
  <1>5. CASE v.batch = <<>> /\ v.stage = "refunds" /\ ~(Len(v.tenants) > 1)
    <2>1. Continue(w) = Resting
      BY <1>5 DEF Continue
    <2> QED
      BY <2>1, LimitAssumption DEF Resting, WorkerStates
  <1> QED
    BY <1>1, <1>2, <1>3, <1>4, <1>5 DEF WorkerStates

\* A step of a worker in its batch, which settles an unlocked row or none.
LEMMA WorkKeeps ==
    ASSUME NEW w \in Workers, WorkerInv, worker[w].phase = "work",
           worker' = [worker EXCEPT ![w] = Continue(w)],
           status' = status \/ (\E r \in Rows : ~Locked(r) /\ status' = SettledRow(r)),
           age' = age, received' \in [Rows -> BOOLEAN], decided' = decided, faults' = faults
    PROVE  WorkerInv'
  <1>1. /\ worker'[w] = Continue(w)
        /\ \A v \in Workers \ {w} : worker'[v] = worker[v]
    BY DEF WorkerInv, Typed
  <1>2. Typed'
    <2>1. status' \in [Rows -> Statuses]
      BY DEF WorkerInv, Typed, WorkerTypeOK, SettledRow, Statuses
    <2>2. worker' \in [Workers -> WorkerStates]
      BY <1>1, ContinueKeeps DEF WorkerInv, Typed
    <2>3. \A v \in Workers : Len(worker'[v].batch) <= RowLimit /\ Len(worker'[v].tenants) <= TenantLimit
      BY <1>1, ContinueKeeps DEF WorkerInv, Typed, WorkerTypeOK
    <2> QED
      BY <2>1, <2>2, <2>3 DEF WorkerInv, Typed, WorkerTypeOK, Statuses
  <1>3. LocksHeld'
    BY <1>1, ContinueKeeps DEF WorkerInv, LocksHeld
  <1>4. \A q \in Rows : status'[q] \in Fresh => status[q] \in Fresh
    BY DEF WorkerInv, Typed, WorkerTypeOK, SettledRow, Fresh
  <1>5. \A q \in Rows : Locked(q) => status'[q] = status[q]
    BY DEF WorkerInv, Typed, WorkerTypeOK, SettledRow
  <1>6. BatchesKnown'
    <2> SUFFICES ASSUME NEW v \in Workers
                 PROVE  /\ worker'[v].phase \in {"idle", "claim"} => worker'[v].batch = <<>>
                        /\ \A i \in DOMAIN worker'[v].batch :
                             LET item == worker'[v].batch[i]
                             IN  /\ worker'[v].phase = "mark" =>
                                       item.row \in worker'[v].locks /\ item.status = status'[item.row]
                                 /\ worker'[v].phase = "work" /\ item.status \in Fresh =>
                                       status'[item.row] \notin Fresh
      BY DEF BatchesKnown
    <2>1. CASE v = w
      <3>1. \A j \in DOMAIN worker[w].batch :
               /\ worker[w].batch[j].row \in Rows
               /\ worker[w].batch[j].status \in Fresh => status[worker[w].batch[j].row] \notin Fresh
        BY BatchOfItems DEF WorkerInv, BatchesKnown
      <3> QED
        BY <2>1, <3>1, <1>1, <1>4, ContinueKeeps
    <2>2. CASE v # w
      <3>1. worker'[v] = worker[v]
        BY <2>2, <1>1
      <3>2. \A j \in DOMAIN worker[v].batch : worker[v].batch[j].row \in Rows
        BY BatchOfItems DEF WorkerInv
      <3>3. \A j \in DOMAIN worker[v].batch :
               worker[v].phase = "mark" => Locked(worker[v].batch[j].row)
        BY DEF WorkerInv, BatchesKnown, Locked
      <3> QED
        BY <3>1, <3>2, <3>3, <1>4, <1>5 DEF WorkerInv, BatchesKnown
    <2> QED
      BY <2>1, <2>2
  <1>7. FreshOnce'
    BY <1>1, ContinueKeeps DEF WorkerInv, FreshOnce
  <1> QED
    BY <1>2, <1>3, <1>6, <1>7 DEF WorkerInv

\* A step that leaves the workers alone, and rows that are locked too.
LEMMA RowsKeep ==
    ASSUME WorkerInv, worker' = worker, faults' = faults, received' = received,
           age' \in [Rows -> {"young", "due", "expired", "forgotten"}], decided' \subseteq Rows,
           status' = status \/ (\E r \in Rows : ~Locked(r) /\ status' = SettledRow(r))
    PROVE  WorkerInv'
  <1>1. Typed' /\ LocksHeld'
    BY DEF WorkerInv, Typed, WorkerTypeOK, LocksHeld, SettledRow
  <1>2. /\ \A q \in Rows : status'[q] \in Fresh => status[q] \in Fresh
        /\ \A q \in Rows : Locked(q) => status'[q] = status[q]
    BY DEF WorkerInv, Typed, WorkerTypeOK, SettledRow, Fresh
  <1>3. \A w \in Workers : \A i \in DOMAIN worker[w].batch : worker[w].batch[i].row \in Rows
    BY BatchOfItems DEF WorkerInv
  <1>4. \A w \in Workers : \A i \in DOMAIN worker[w].batch :
            worker[w].phase = "mark" => Locked(worker[w].batch[i].row)
    BY DEF WorkerInv, BatchesKnown, Locked
  <1>5. BatchesKnown'
    BY <1>2, <1>3, <1>4 DEF WorkerInv, BatchesKnown
  <1>6. FreshOnce'
    BY DEF WorkerInv, FreshOnce
  <1> QED
    BY <1>1, <1>5, <1>6 DEF WorkerInv

\* A pass begins, a claim fails or a process ends: the worker's batch and locks are gone.
LEMMA DropKeeps ==
    ASSUME WorkerInv, NEW w \in Workers, NEW v \in WorkerStates,
           worker' \in [Workers -> WorkerStates], worker'[w] = v,
           \A u \in Workers \ {w} : worker'[u] = worker[u], v.batch = <<>>, v.locks = {}, v.phase # "mark",
           Len(v.tenants) <= TenantLimit, UNCHANGED rows, faults' \in 0 .. MaxFaults
    PROVE  WorkerInv'
  <1>1. \A u \in Workers : Len(worker'[u].batch) <= RowLimit /\ Len(worker'[u].tenants) <= TenantLimit
    BY LimitAssumption DEF WorkerInv, Typed, WorkerTypeOK
  <1>2. Typed'
    BY <1>1 DEF WorkerInv, Typed, WorkerTypeOK, rows
  <1>3. LocksHeld'
    BY DEF WorkerInv, LocksHeld
  <1>4. BatchesKnown'
    BY DEF WorkerInv, BatchesKnown, rows
  <1>5. FreshOnce'
    BY DEF WorkerInv, FreshOnce
  <1> QED
    BY <1>2, <1>3, <1>4, <1>5 DEF WorkerInv

\* A claim reads and locks rows that nobody has locked.
LEMMA SelectKeeps ==
    ASSUME WorkerInv, NEW w \in Workers, ClaimSelect(w)
    PROVE  WorkerInv'
  <1> DEFINE open == { r \in Rows : Claimable(w, r) }
  <1>1. PICK first \in Oldest(open, RowLimit) :
          worker' = [worker EXCEPT ![w].phase = "mark",
                                   ![w].batch = [i \in DOMAIN first |-> [row |-> first[i],
                                                                         status |-> status[first[i]]]],
                                   ![w].locks = Range(first)]
    BY DEF ClaimSelect
  <1> DEFINE batch == [i \in DOMAIN first |-> [row |-> first[i], status |-> status[first[i]]]]
  <1>2. first \in Seq(open) /\ Len(first) <= RowLimit /\ Range(first) \subseteq open
    BY OldestAreMembers, LimitAssumption
  <1>3. worker[w] \in WorkerStates /\ worker[w].phase = "claim" /\ UNCHANGED <<rows, faults>>
    BY DEF WorkerInv, Typed, ClaimSelect
  <1>4. /\ worker'[w] = [worker[w] EXCEPT !.phase = "mark", !.batch = batch, !.locks = Range(first)]
        /\ \A u \in Workers \ {w} : worker'[u] = worker[u]
    BY <1>1 DEF WorkerInv, Typed
  <1>5. batch \in Seq(Items) /\ Len(batch) = Len(first)
    <2>1. \A i \in DOMAIN first : first[i] \in Rows /\ status[first[i]] \in Statuses
      BY <1>2 DEF WorkerInv, Typed, WorkerTypeOK, Statuses
    <2>2. DOMAIN first = 1 .. Len(first) /\ Len(first) \in Nat
      BY <1>2
    <2>3. \A i \in DOMAIN first : batch[i] \in Items
      BY <2>1 DEF Items
    <2> QED
      BY <2>2, <2>3
  <1>6. worker'[w] \in WorkerStates /\ worker'[w].phase = "mark" /\ worker'[w].batch = batch
        /\ worker'[w].locks = Range(first) /\ worker'[w].tenants = worker[w].tenants
    BY <1>2, <1>3, <1>4, <1>5 DEF WorkerStates
  <1>7. Typed'
    <2>1. worker' \in [Workers -> WorkerStates]
      BY <1>1, <1>4, <1>6 DEF WorkerInv, Typed
    <2>2. \A u \in Workers : Len(worker'[u].batch) <= RowLimit /\ Len(worker'[u].tenants) <= TenantLimit
      BY <1>2, <1>4, <1>5, <1>6 DEF WorkerInv, Typed, WorkerTypeOK
    <2> QED
      BY <1>3, <2>1, <2>2 DEF WorkerInv, Typed, WorkerTypeOK, rows
  <1>8. LocksHeld'
    <2>1. \A u \in Workers : worker[u].locks \cap Range(first) = {}
      BY <1>2 DEF Claimable, Locked
    <2>2. \A u \in Workers : worker'[u].phase # "mark" => worker'[u].locks = {}
      BY <1>4, <1>6 DEF WorkerInv, LocksHeld
    <2>3. ASSUME NEW u \in Workers, NEW v \in Workers, u # v
          PROVE  worker'[u].locks \cap worker'[v].locks = {}
      <3>1. CASE u = w
        BY <2>1, <2>3, <3>1, <1>4, <1>6
      <3>2. CASE v = w
        BY <2>1, <2>3, <3>2, <1>4, <1>6
      <3>3. CASE u # w /\ v # w
        BY <2>3, <3>3, <1>4 DEF WorkerInv, LocksHeld
      <3> QED
        BY <3>1, <3>2, <3>3
    <2> QED
      BY <2>2, <2>3 DEF LocksHeld
  <1>9. BatchesKnown'
    <2>1. \A i \in DOMAIN batch : batch[i].row \in Range(first) /\ batch[i].status = status[batch[i].row]
      BY DEF Range
    <2>2. status' = status
      BY <1>3 DEF rows
    <2> HIDE DEF batch
    <2> SUFFICES ASSUME NEW v \in Workers
                 PROVE  /\ worker'[v].phase \in {"idle", "claim"} => worker'[v].batch = <<>>
                        /\ \A i \in DOMAIN worker'[v].batch :
                             LET item == worker'[v].batch[i]
                             IN  /\ worker'[v].phase = "mark" =>
                                       item.row \in worker'[v].locks /\ item.status = status'[item.row]
                                 /\ worker'[v].phase = "work" /\ item.status \in Fresh =>
                                       status'[item.row] \notin Fresh
      BY DEF BatchesKnown
    <2>3. CASE v = w
      BY <1>6, <2>1, <2>2, <2>3
    <2>4. CASE v # w
      BY <1>4, <2>2, <2>4 DEF WorkerInv, BatchesKnown
    <2> QED
      BY <2>3, <2>4
  <1>10. FreshOnce'
    <2>1. \A i \in DOMAIN batch : batch[i].status = status[batch[i].row] /\ batch[i].row \in open
      BY <1>2 DEF Range
    <2>2. ASSUME NEW v \in Workers \ {w}, NEW i \in DOMAIN worker[v].batch, NEW j \in DOMAIN batch,
                 worker[v].batch[i] = batch[j]
          PROVE  batch[j].status \notin Fresh
      <3>1. worker[v].phase = "mark" => batch[j].row \in worker[v].locks
        BY <2>2 DEF WorkerInv, BatchesKnown
      <3>2. worker[v].phase # "mark"
        BY <3>1, <2>1 DEF Claimable, Locked
      <3>3. worker[v].phase = "work"
        BY <3>2 DEF WorkerInv, Typed, WorkerStates, BatchesKnown
      <3> QED
        BY <3>3, <2>1, <2>2 DEF WorkerInv, BatchesKnown
    <2> HIDE DEF batch
    <2> SUFFICES ASSUME NEW u \in Workers, NEW v \in Workers, u # v,
                        NEW i \in DOMAIN worker'[u].batch, NEW j \in DOMAIN worker'[v].batch,
                        worker'[u].batch[i] = worker'[v].batch[j]
                 PROVE  worker'[u].batch[i].status \notin Fresh
      BY DEF FreshOnce
    <2>3. CASE u = w
      BY <2>3, <2>2, <1>4, <1>6
    <2>4. CASE v = w
      BY <2>4, <2>2, <1>4, <1>6
    <2>5. CASE u # w /\ v # w
      BY <2>5, <1>4 DEF WorkerInv, FreshOnce
    <2> QED
      BY <2>3, <2>4, <2>5
  <1> QED
    BY <1>7, <1>8, <1>9, <1>10 DEF WorkerInv

\* The update of a claim leaves none of its rows fresh.
LEMMA MarkKeeps ==
    ASSUME WorkerInv, NEW w \in Workers, ClaimMark(w)
    PROVE  WorkerInv'
  <1>1. /\ worker[w] \in WorkerStates /\ worker[w].phase = "mark"
        /\ status' = Marked(w) /\ UNCHANGED <<age, received, decided, faults>>
    BY DEF WorkerInv, Typed, ClaimMark
  <1>2. /\ worker'[w] = [worker[w] EXCEPT !.phase = "work", !.locks = {}]
        /\ \A u \in Workers \ {w} : worker'[u] = worker[u]
    BY DEF WorkerInv, Typed, ClaimMark
  <1>3. worker'[w] \in WorkerStates /\ worker'[w].phase = "work" /\ worker'[w].locks = {}
        /\ worker'[w].batch = worker[w].batch /\ worker'[w].tenants = worker[w].tenants
    BY <1>1, <1>2 DEF WorkerStates
  <1>4. Typed'
    <2>1. status' \in [Rows -> Statuses]
      BY <1>1 DEF WorkerInv, Typed, WorkerTypeOK, Marked, Statuses
    <2>2. worker' \in [Workers -> WorkerStates]
      BY <1>2, <1>3 DEF WorkerInv, Typed, ClaimMark
    <2>3. \A u \in Workers : Len(worker'[u].batch) <= RowLimit /\ Len(worker'[u].tenants) <= TenantLimit
      BY <1>2, <1>3 DEF WorkerInv, Typed, WorkerTypeOK
    <2> QED
      BY <1>1, <2>1, <2>2, <2>3 DEF WorkerInv, Typed, WorkerTypeOK, Statuses
  <1>5. LocksHeld'
    BY <1>2, <1>3 DEF WorkerInv, LocksHeld
  <1>6. /\ \A q \in worker[w].locks : status'[q] \notin Fresh
        /\ \A q \in Rows : status'[q] \in Fresh => status[q] \in Fresh
        /\ \A q \in Rows \ worker[w].locks : status'[q] = status[q]
    BY <1>1 DEF Marked, Fresh, WorkerStates
  <1>7. BatchesKnown'
    <2> SUFFICES ASSUME NEW v \in Workers
                 PROVE  /\ worker'[v].phase \in {"idle", "claim"} => worker'[v].batch = <<>>
                        /\ \A i \in DOMAIN worker'[v].batch :
                             LET item == worker'[v].batch[i]
                             IN  /\ worker'[v].phase = "mark" =>
                                       item.row \in worker'[v].locks /\ item.status = status'[item.row]
                                 /\ worker'[v].phase = "work" /\ item.status \in Fresh =>
                                       status'[item.row] \notin Fresh
      BY DEF BatchesKnown
    <2>1. CASE v = w
      <3>1. \A j \in DOMAIN worker[w].batch : worker[w].batch[j].row \in worker[w].locks
        BY <1>1 DEF WorkerInv, BatchesKnown
      <3> QED
        BY <2>1, <3>1, <1>3, <1>6
    <2>2. CASE v # w
      <3>1. worker'[v] = worker[v] /\ worker[v].locks \cap worker[w].locks = {}
        BY <2>2, <1>2 DEF WorkerInv, LocksHeld
      <3>2. \A j \in DOMAIN worker[v].batch : worker[v].batch[j].row \in Rows
        BY BatchOfItems DEF WorkerInv
      <3> QED
        BY <3>1, <3>2, <1>6 DEF WorkerInv, BatchesKnown
    <2> QED
      BY <2>1, <2>2
  <1>8. FreshOnce'
    <2>1. \A v \in Workers : worker'[v].batch = worker[v].batch
      BY <1>2, <1>3
    <2> QED
      BY <2>1 DEF WorkerInv, FreshOnce
  <1> QED
    BY <1>4, <1>5, <1>7, <1>8 DEF WorkerInv

\* A pass begins with the tenants it has listed.
LEMMA StartKeeps ==
    ASSUME WorkerInv, NEW w \in Workers, StartPass(w)
    PROVE  WorkerInv'
  <1>1. PICK tenants \in Oldest(Listed, TenantLimit) :
          worker' = [worker EXCEPT ![w] =
                        [Resting EXCEPT !.phase = "claim", !.tenants = tenants, !.due = DueOf(tenants)]]
    BY DEF StartPass
  <1> DEFINE v == [Resting EXCEPT !.phase = "claim", !.tenants = tenants, !.due = DueOf(tenants)]
  <1>2. Listed \subseteq Nat
    BY TenantAssumption DEF Listed
  <1>3. tenants \in Seq(Nat) /\ Len(tenants) <= TenantLimit
    <2>1. TenantLimit \in Nat
      BY LimitAssumption
    <2>2. tenants \in Seq(Listed) /\ Len(tenants) <= TenantLimit
      BY <2>1, OldestAreMembers
    <2>3. \A i \in 1 .. Len(tenants) : tenants[i] \in Listed
      BY <2>2
    <2>4. \A i \in 1 .. Len(tenants) : tenants[i] \in Nat
      BY <2>3, <1>2
    <2>5. Len(tenants) \in Nat /\ tenants \in [1 .. Len(tenants) -> Nat]
      BY <2>2, <2>4
    <2>6. tenants \in Seq(Nat)
      BY <2>5
    <2> QED
      BY <2>2, <2>6
  <1>4. v \in WorkerStates
    <2>1. Resting \in WorkerStates
      BY DEF Resting, WorkerStates
    <2>2. DueOf(tenants) \subseteq Rows
      BY DEF DueOf
    <2> QED
      BY <1>3, <2>1, <2>2 DEF WorkerStates
  <1>5. v.batch = <<>> /\ v.locks = {} /\ v.phase # "mark" /\ v.tenants = tenants
    BY DEF Resting
  <1>6. UNCHANGED rows /\ faults' \in 0 .. MaxFaults
    BY DEF StartPass, WorkerInv, Typed, WorkerTypeOK
  <1>7. worker' = [worker EXCEPT ![w] = v]
    BY <1>1
  <1> HIDE DEF v
  <1>8. worker' \in [Workers -> WorkerStates] /\ worker'[w] = v /\ \A u \in Workers \ {w} : worker'[u] = worker[u]
    BY <1>4, <1>7 DEF WorkerInv, Typed
  <1> QED
    BY <1>3, <1>4, <1>5, <1>6, <1>8, DropKeeps

\* The invariant holds initially ...
LEMMA WorkersBegin == WorkerInit => WorkerInv
  <1> SUFFICES ASSUME WorkerInit PROVE WorkerInv
    OBVIOUS
  <1>1. Resting \in WorkerStates
    BY DEF Resting, WorkerStates
  <1>2. \A w \in Workers : worker[w] = Resting
    BY DEF WorkerInit
  <1>3. Typed
    BY <1>1, LimitAssumption, FaultAssumption DEF WorkerInit, Typed, WorkerTypeOK, Resting, Fresh
  <1>4. LocksHeld /\ BatchesKnown /\ FreshOnce
    BY <1>2 DEF LocksHeld, BatchesKnown, FreshOnce, Resting
  <1> QED
    BY <1>3, <1>4 DEF WorkerInv

\* ... and every step keeps it.
LEMMA WorkersGoOn == WorkerInv /\ [WorkerNext]_workerVars => WorkerInv'
  <1> SUFFICES ASSUME WorkerInv, [WorkerNext]_workerVars PROVE WorkerInv'
    OBVIOUS
  <1>1. CASE UNCHANGED workerVars
    BY <1>1 DEF workerVars, WorkerInv, Typed, WorkerTypeOK, LocksHeld, BatchesKnown, FreshOnce, InBatch
  <1>2. ASSUME NEW r \in Rows, GrowOlder(r)
        PROVE  WorkerInv'
    <2>1. age' \in [Rows -> {"young", "due", "expired", "forgotten"}]
      BY <1>2 DEF GrowOlder, NextAge, WorkerInv, Typed, WorkerTypeOK
    <2> QED
      BY <1>2, <2>1, RowsKeep DEF GrowOlder, WorkerInv, Typed, WorkerTypeOK
  <1>3. ASSUME NEW r \in Rows, ProviderDecides(r)
        PROVE  WorkerInv'
    BY <1>3, RowsKeep DEF ProviderDecides, WorkerInv, Typed, WorkerTypeOK
  <1>4. ASSUME NEW r \in Rows, Notification(r)
        PROVE  WorkerInv'
    BY <1>4, RowsKeep DEF Notification, WorkerInv, Typed, WorkerTypeOK
  <1>5. ASSUME NEW w \in Workers, ClaimFails(w)
        PROVE  WorkerInv'
    <2> DEFINE v == [worker[w] EXCEPT !.phase = "work", !.batch = <<>>, !.locks = {}]
    <2>1. worker[w] \in WorkerStates /\ Len(worker[w].tenants) <= TenantLimit
      BY DEF WorkerInv, Typed, WorkerTypeOK
    <2>2. v \in WorkerStates /\ v.batch = <<>> /\ v.locks = {} /\ v.phase = "work" /\ v.tenants = worker[w].tenants
      <3>1. <<>> \in Seq(Items)
        OBVIOUS
      <3> QED
        BY <2>1, <3>1 DEF WorkerStates
    <2>3. UNCHANGED rows /\ faults' \in 0 .. MaxFaults
      BY <1>5, FaultAssumption DEF ClaimFails, WorkerInv, Typed, WorkerTypeOK
    <2>4. worker'[w] = v /\ \A u \in Workers \ {w} : worker'[u] = worker[u]
      BY <1>5 DEF ClaimFails, WorkerInv, Typed
    <2>5. worker' \in [Workers -> WorkerStates]
      BY <1>5, <2>2, <2>4 DEF ClaimFails, WorkerInv, Typed
    <2> HIDE DEF v
    <2> QED
      BY <2>1, <2>2, <2>3, <2>4, <2>5, DropKeeps
  <1>6. ASSUME NEW w \in Workers, Crash(w)
        PROVE  WorkerInv'
    <2>1. /\ Resting \in WorkerStates /\ Resting.batch = <<>> /\ Resting.locks = {} /\ Resting.phase # "mark"
          /\ Len(Resting.tenants) <= TenantLimit
      BY LimitAssumption DEF Resting, WorkerStates
    <2>2. UNCHANGED rows /\ faults' \in 0 .. MaxFaults
      BY <1>6, FaultAssumption DEF Crash, WorkerInv, Typed, WorkerTypeOK
    <2>3. /\ worker' \in [Workers -> WorkerStates] /\ worker'[w] = Resting
          /\ \A u \in Workers \ {w} : worker'[u] = worker[u]
      BY <1>6, <2>1 DEF Crash, WorkerInv, Typed
    <2> QED
      BY <2>1, <2>2, <2>3, DropKeeps
  <1>7. ASSUME NEW w \in Workers, EndStage(w)
        PROVE  WorkerInv'
    <2>1. UNCHANGED rows /\ worker[w].phase = "work" /\ worker' = [worker EXCEPT ![w] = Continue(w)] /\ faults' = faults
      BY <1>7 DEF EndStage
    <2> QED
      BY <2>1, WorkKeeps DEF rows, WorkerInv, Typed, WorkerTypeOK
  <1>8. ASSUME NEW w \in Workers, NEW r \in Rows, Query(w, r)
        PROVE  WorkerInv'
    BY <1>8, WorkKeeps DEF Query, Working, WorkerInv, Typed, WorkerTypeOK
  <1>9. ASSUME NEW w \in Workers, NEW r \in Rows, WorkFails(w, r)
        PROVE  WorkerInv'
    BY <1>9, WorkKeeps DEF WorkFails, Working, rows, WorkerInv, Typed, WorkerTypeOK
  <1>10. ASSUME NEW w \in Workers, NEW r \in RefundRows, Submit(w, r) \/ SubmitUnheard(w, r)
         PROVE  WorkerInv'
    <2>1. r \in Rows
      BY DEF Rows
    <2> QED
      BY <1>10, <2>1, WorkKeeps DEF Submit, SubmitUnheard, Working, WorkerInv, Typed, WorkerTypeOK
  <1> QED
    BY <1>1, <1>2, <1>3, <1>4, <1>5, <1>6, <1>7, <1>8, <1>9, <1>10, StartKeeps, SelectKeeps, MarkKeeps
    DEF WorkerNext

\* The rows, the ages and the workers' batches keep their types, for any rows and limits
\* (compensation_claim.rs: the claims never exceed their limit).
THEOREM WorkersTypeCorrect == WorkerSpec => []WorkerTypeOK
  <1>1. WorkerInv => WorkerTypeOK
    BY DEF WorkerInv, Typed
  <1> QED
    BY <1>1, WorkersBegin, WorkersGoOn, PTL DEF WorkerSpec

\* Of any number of workers one alone gets a row while it is fresh, and the row is not fresh
\* any more when that worker turns to it (compensation_claim.rs:20).
THEOREM FreshClaimsAlwaysDisjoint == WorkerSpec => []FreshClaimsAreDisjoint
  <1> QED
    BY FreshIsKnown, WorkersBegin, WorkersGoOn, PTL DEF WorkerSpec
=============================================================================
