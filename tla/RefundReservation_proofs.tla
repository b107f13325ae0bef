---------------------- MODULE RefundReservation_proofs ----------------------
(***************************************************************************)
(* Proofs about RefundReservation for every set of refunds, amounts,       *)
(* attempts and concurrent requests: the order lock excludes (part of      *)
(* TypeOK), rows that have succeeded are final, and the refunds of an      *)
(* attempt that were never given up fit what it was paid.  The last needs  *)
(* facts about sums over finite sets, proved here by induction on their    *)
(* cardinality.                                                            *)
(***************************************************************************)
EXTENDS RefundReservation, FiniteSetTheorems, WellFoundedInduction, TLAPS

-----------------------------------------------------------------------------
(***************************************************************************)
(* The status rules.                                                       *)
(***************************************************************************)

\* No edge leaves Succeeded, and a row only ever moves to a status of a row.
LEMMA SucceededHasNoEdge ==
    ASSUME NEW to \in RefundTargets, RefundMayTransition("succeeded", to)
    PROVE  to = "succeeded"
  BY DEF RefundTargets, RefundMayTransition, RefundEdges, RefundFromWire, RefundStatuses

\* A change of status to a provider's target keeps every row typed.
LEMMA ChangeTyped ==
    ASSUME TypeOK, NEW r \in Refunds, Exists(r), NEW to \in RefundTargets, ChangeStatus(r, to)
    PROVE  TypeOK'
  <1>1. /\ status' \in [Refunds -> RefundStatuses \cup {NoRow}]
        /\ \A x \in Refunds : status'[x] = NoRow <=> status[x] = NoRow
    BY DEF TypeOK, ChangeStatus, RefundTargets, RefundStatuses, Exists, NoRow
  <1>2. failedOnce' \subseteq Refunds
    BY DEF TypeOK, ChangeStatus
  <1> QED
    BY <1>1, <1>2 DEF TypeOK, ChangeStatus

-----------------------------------------------------------------------------
(***************************************************************************)
(* Type correctness.                                                       *)
(***************************************************************************)

\* Initially there is neither a row nor a call.
LEMMA InitTyped == Init => TypeOK
  BY NoneAssumption DEF Init, TypeOK, NoRequest, NoRow

\* Each transaction and each statement of a request keeps the types, the references
\* and the exclusion of the order lock.
LEMMA NextTyped == TypeOK /\ [Next]_vars => TypeOK'
  <1> SUFFICES ASSUME TypeOK, [Next]_vars PROVE TypeOK'
    OBVIOUS
  <1>1. ASSUME NEW q \in Requests, NEW r \in Refunds, NEW a \in Attempts,
               BeginCreateOwnerRefund(q, r, a)
        PROVE  TypeOK'
    <2>1. request' \in [Requests -> CallsInFlight \cup {NoRequest}]
      BY <1>1 DEF BeginCreateOwnerRefund, TypeOK, CallsInFlight
    <2>2. \A p \in Requests : orderLock' = p <=> request'[p].phase \in {"locked", "summed"}
      BY <1>1 DEF BeginCreateOwnerRefund, TypeOK, NoRequest
    <2> QED
      BY <1>1, <2>1, <2>2 DEF BeginCreateOwnerRefund, rows, TypeOK
  <1>2. ASSUME NEW q \in Requests, LockOrder(q) PROVE TypeOK'
    <2>1. request[q] \in CallsInFlight
      BY <1>2 DEF LockOrder, TypeOK, NoRequest
    <2>2. request' \in [Requests -> CallsInFlight \cup {NoRequest}]
      BY <1>2, <2>1 DEF LockOrder, TypeOK, CallsInFlight
    <2>3. \A p \in Requests : orderLock' = p <=> request'[p].phase \in {"locked", "summed"}
      BY <1>2, <2>1, NoneAssumption DEF LockOrder, OrderLockGranted, TypeOK, CallsInFlight
    <2> QED
      BY <1>2, <2>2, <2>3 DEF LockOrder, rows, TypeOK
  <1>3. ASSUME NEW q \in Requests, SumReservations(q) PROVE TypeOK'
    <2>1. request[q] \in CallsInFlight
      BY <1>3 DEF SumReservations, TypeOK, NoRequest
    <2>2. request' \in [Requests -> CallsInFlight \cup {NoRequest}]
      BY <1>3, <2>1 DEF SumReservations, TypeOK, CallsInFlight
    <2>3. \A p \in Requests : orderLock' = p <=> request'[p].phase \in {"locked", "summed"}
      BY <1>3, <2>1 DEF SumReservations, TypeOK, CallsInFlight
    <2> QED
      BY <1>3, <2>2, <2>3 DEF SumReservations, rows, TypeOK
  <1>4. ASSUME NEW q \in Requests, InsertRefund(q) PROVE TypeOK'
    <2> DEFINE r == request[q].refund
    <2>1. request[q] \in CallsInFlight
      BY <1>4 DEF InsertRefund, TypeOK, NoRequest
    <2>2. r \in Refunds /\ request[q].attempt \in Attempts
      BY <2>1 DEF CallsInFlight
    <2>3. /\ status' \in [Refunds -> RefundStatuses \cup {NoRow}]
          /\ attemptOf' \in [Refunds -> Attempts \cup {None}]
          /\ \A x \in Refunds : status'[x] = NoRow <=> attemptOf'[x] = None
      <3>1. CASE Exists(r)
        BY <1>4, <3>1 DEF InsertRefund, TypeOK, rows
      <3>2. CASE ~Exists(r)
        BY <1>4, <3>2, <2>2, NoneAssumption DEF InsertRefund, TypeOK, RefundStatuses, NoRow
      <3> QED BY <3>1, <3>2
    <2>4. request' \in [Requests -> CallsInFlight \cup {NoRequest}]
      BY <1>4 DEF InsertRefund, TypeOK
    <2>5. \A p \in Requests : orderLock' = p <=> request'[p].phase \in {"locked", "summed"}
      BY <1>4, NoneAssumption DEF InsertRefund, TypeOK, NoRequest
    <2> QED
      BY <1>4, <2>3, <2>4, <2>5 DEF InsertRefund, TypeOK
  <1>5. ASSUME NEW q \in Requests, RollBack(q) PROVE TypeOK'
    <2>1. request' \in [Requests -> CallsInFlight \cup {NoRequest}]
      BY <1>5 DEF RollBack, TypeOK
    <2>2. \A p \in Requests : orderLock' = p <=> request'[p].phase \in {"locked", "summed"}
      BY <1>5, NoneAssumption DEF RollBack, TypeOK, NoRequest
    <2> QED
      BY <1>5, <2>1, <2>2 DEF RollBack, rows, TypeOK
  <1>6. ASSUME NEW r \in Refunds, MarkProcessing(r) PROVE TypeOK'
    BY <1>6, ChangeTyped DEF MarkProcessing, Exists, NoRow, RefundTargets
  <1>7. ASSUME NEW r \in Refunds, NEW to \in {"succeeded", "failed"}, MarkTerminal(r, to)
        PROVE  TypeOK'
    BY <1>7, ChangeTyped DEF MarkTerminal, RefundTargets
  <1>8. ASSUME NEW r \in Refunds, NEW to \in RefundTargets, ApplyWebhookRefundStatus(r, to)
        PROVE  TypeOK'
    BY <1>8, ChangeTyped DEF ApplyWebhookRefundStatus
  <1>9. ASSUME NEW claimed \in SUBSET {r \in Refunds : IsOpen(status[r])},
               ClaimDueRefunds(claimed)
        PROVE  TypeOK'
    BY <1>9 DEF ClaimDueRefunds, TypeOK, RefundStatuses, NoRow
  <1>10. CASE UNCHANGED vars
    BY <1>10 DEF vars, TypeOK
  <1> QED
    BY <1>1, <1>2, <1>3, <1>4, <1>5, <1>6, <1>7, <1>8, <1>9, <1>10 DEF Next

\* Rows and calls are well typed, a row names its attempt as long as it exists, and
\* of all create_owner_refund calls at most one is between its locking select of the
\* order and its commit.
THEOREM TypeCorrect == Spec => []TypeOK
  BY InitTyped, NextTyped, PTL DEF Spec

-----------------------------------------------------------------------------
(***************************************************************************)
(* Finality.                                                               *)
(***************************************************************************)

\* The action that SucceededIsFinal allows.
Finality ==
    \A r \in Refunds :
        /\ status[r] = "succeeded" => status'[r] = "succeeded"
        /\ attemptOf[r] # None => attemptOf'[r] = attemptOf[r]

\* A change of status that the rules allow leaves a succeeded row alone.
LEMMA ChangeFinal ==
    ASSUME TypeOK, NEW r \in Refunds, NEW to \in RefundTargets,
           RefundMayTransition(status[r], to), ChangeStatus(r, to)
    PROVE  Finality
  BY SucceededHasNoEdge DEF TypeOK, ChangeStatus, Finality

\* A refund that has succeeded stays succeeded and with its attempt: no late mark,
\* no notification and no claim of the worker overwrites the row, and no idempotent
\* repetition of its creation inserts it again.
THEOREM SucceededAlwaysFinal == Spec => SucceededIsFinal
  <1>1. ASSUME TypeOK, [Next]_vars PROVE [Finality]_vars
    <2>1. ASSUME NEW q \in Requests, NEW r \in Refunds, NEW a \in Attempts,
                 BeginCreateOwnerRefund(q, r, a)
          PROVE  Finality
      BY <2>1 DEF BeginCreateOwnerRefund, rows, Finality
    <2>2. ASSUME NEW q \in Requests, LockOrder(q) \/ SumReservations(q) \/ RollBack(q)
          PROVE  Finality
      BY <2>2 DEF LockOrder, SumReservations, RollBack, rows, Finality
    <2>3. ASSUME NEW q \in Requests, InsertRefund(q) PROVE Finality
      <3>1. CASE Exists(request[q].refund)
        BY <2>3, <3>1 DEF InsertRefund, rows, Finality
      <3>2. CASE ~Exists(request[q].refund)
        BY <1>1, <2>3, <3>2 DEF InsertRefund, Finality, TypeOK, Exists, NoRow
      <3> QED BY <3>1, <3>2
    <2>4. ASSUME NEW r \in Refunds, MarkProcessing(r) PROVE Finality
      BY <1>1, <2>4, ChangeFinal DEF MarkProcessing, RefundTargets
    <2>5. ASSUME NEW r \in Refunds, NEW to \in {"succeeded", "failed"}, MarkTerminal(r, to)
          PROVE  Finality
      BY <1>1, <2>5, ChangeFinal DEF MarkTerminal, RefundTargets
    <2>6. ASSUME NEW r \in Refunds, NEW to \in RefundTargets, ApplyWebhookRefundStatus(r, to)
          PROVE  Finality
      BY <1>1, <2>6, ChangeFinal DEF ApplyWebhookRefundStatus
    <2>7. ASSUME NEW claimed \in SUBSET {r \in Refunds : IsOpen(status[r])},
                 ClaimDueRefunds(claimed)
          PROVE  Finality
      BY <2>7 DEF ClaimDueRefunds, Finality
    <2> QED
      BY <1>1, <2>1, <2>2, <2>3, <2>4, <2>5, <2>6, <2>7 DEF Next
  <1>2. [Finality]_vars => [\A r \in Refunds :
            /\ status[r] = "succeeded" => status'[r] = "succeeded"
            /\ attemptOf[r] # None => attemptOf'[r] = attemptOf[r]]_vars
    BY DEF Finality
  <1> QED
    BY <1>1, <1>2, TypeCorrect, PTL DEF Spec, SucceededIsFinal

-----------------------------------------------------------------------------
(***************************************************************************)
(* Sums over finite sets of refunds.  The induction principle is stated    *)
(* with a set rather than with a predicate.                                *)
(***************************************************************************)

\* A set of naturals that holds 0 and with every number its successor holds them all.
LEMMA Induction ==
    ASSUME NEW T \in SUBSET Nat, 0 \in T, \A n \in T : n + 1 \in T
    PROVE  T = Nat
  <1> SUFFICES ASSUME Nat \ T # {} PROVE FALSE
    OBVIOUS
  <1> DEFINE Less == {p \in Nat \X Nat : p[1] < p[2]}
  <1>1. IsWellFoundedOn(Less, Nat)
    BY NatLessThanWellFounded DEF OpToRel
  <1>2. PICK x \in Nat \ T : \A y \in Nat \ T : ~(<<y, x>> \in Less)
    <2> HIDE DEF Less
    <2> QED BY <1>1, WFMin
  <1>3. x # 0 /\ x - 1 \in Nat /\ <<x - 1, x>> \in Less
    OBVIOUS
  <1>4. x - 1 \in T
    BY <1>2, <1>3
  <1> QED
    BY <1>3, <1>4

\* A finite set of n + 1 members has n without one of them.
LEMMA OneLess ==
    ASSUME NEW S, IsFiniteSet(S), NEW x \in S, NEW n \in Nat, Cardinality(S) = n + 1
    PROVE  Cardinality(S \ {x}) = n
  <1>1. Cardinality(S \ {x}) = Cardinality(S) - 1
    BY FS_RemoveElement
  <1> QED
    BY <1>1

\* The total of a set of refunds, and the member that the fold takes first.
Some(s) == CHOOSE x \in s : TRUE
Total(S) == MapThenSumSet(LAMBDA r : Amount[r], S)

\* The equation of the sums of the subsets of S.
Sums(g, S) == g = [s \in SUBSET S |-> IF s = {} THEN 0 ELSE Amount[Some(s)] + g[s \ {Some(s)}]]

\* The total of S is read off a solution of that equation, if there is one.
LEMMA TotalDef ==
    ASSUME NEW S, \E g : Sums(g, S)
    PROVE  \E g : Sums(g, S) /\ Total(S) = g[S]
  <1> DEFINE it == CHOOSE g : Sums(g, S)
  <1>1. Sums(it, S)
    BY Zenon
  <1>2. Total(S) = it[S]
    BY Zenon DEF Total, MapThenSumSet, MapThenFoldSet, Sums, Some
  <1> QED
    BY <1>1, <1>2

\* ... of a finite set, have a solution: longer and longer approximations, by cardinality.
LEMMA SumsExist ==
    ASSUME NEW S \in SUBSET Refunds, IsFiniteSet(S)
    PROVE  \E g \in [SUBSET S -> Nat] : Sums(g, S)
  <1> DEFINE Upto(n) == {s \in SUBSET S : Cardinality(s) <= n}
             Solves(g, n) == \A s \in Upto(n) :
                                g[s] = IF s = {} THEN 0 ELSE Amount[Some(s)] + g[s \ {Some(s)}]
             T == {n \in Nat : \E g \in [Upto(n) -> Nat] : Solves(g, n)}
  <1>1. \A s \in SUBSET S : IsFiniteSet(s) /\ Cardinality(s) \in Nat
    BY FS_Subset, FS_CardinalityType
  <1>2. ASSUME NEW s \in SUBSET S, s # {}
        PROVE  /\ Some(s) \in s /\ Amount[Some(s)] \in Nat
               /\ s \ {Some(s)} \in SUBSET S /\ Cardinality(s \ {Some(s)}) = Cardinality(s) - 1
    <2>1. Some(s) \in s
      BY <1>2 DEF Some
    <2> QED
      BY <2>1, <1>1, FS_RemoveElement, AmountAssumption
  <1>3. 0 \in T
    <2>1. Upto(0) = {{}}
      BY <1>1, FS_EmptySet
    <2>2. [s \in Upto(0) |-> 0] \in [Upto(0) -> Nat] /\ Solves([s \in Upto(0) |-> 0], 0)
      BY <2>1
    <2> QED
      BY <2>2
  <1>4. ASSUME NEW n \in T PROVE n + 1 \in T
    <2>1. PICK g \in [Upto(n) -> Nat] : Solves(g, n)
      OBVIOUS
    <2> DEFINE h == [s \in Upto(n + 1) |-> IF s = {} THEN 0 ELSE Amount[Some(s)] + g[s \ {Some(s)}]]
    <2>0. n \in Nat
      OBVIOUS
    <2>2. ASSUME NEW s \in Upto(n + 1), s # {} PROVE s \ {Some(s)} \in Upto(n)
      <3>1. /\ s \in SUBSET S /\ Cardinality(s) \in Nat /\ Cardinality(s) <= n + 1
            /\ s \ {Some(s)} \in SUBSET S /\ Cardinality(s \ {Some(s)}) = Cardinality(s) - 1
        BY <1>1, <1>2, <2>2
      <3>2. Cardinality(s) - 1 <= n
        BY <2>0, <3>1
      <3> QED
        BY <3>1, <3>2
    <2>3. h \in [Upto(n + 1) -> Nat]
      BY <1>2, <2>2
    <2>4. \A s \in Upto(n) : s \in Upto(n + 1) /\ h[s] = g[s]
      BY <1>1, <2>1
    <2>5. Solves(h, n + 1)
      <3> SUFFICES ASSUME NEW s \in Upto(n + 1)
                   PROVE  h[s] = IF s = {} THEN 0 ELSE Amount[Some(s)] + h[s \ {Some(s)}]
        OBVIOUS
      <3>1. CASE s = {}
        BY <3>1
      <3>2. CASE s # {}
        BY <3>2, <2>2, <2>4
      <3> QED
        BY <3>1, <3>2
    <2> HIDE DEF h
    <2> HIDE DEF Upto, Solves
    <2> QED
      BY <2>0, <2>3, <2>5
  <1>5. T = Nat
    BY <1>3, <1>4, Induction
  <1> DEFINE m == Cardinality(S)
  <1>6. m \in T /\ Upto(m) = SUBSET S
    BY <1>1, <1>5, FS_Subset, FS_CardinalityType
  <1>7. PICK g \in [SUBSET S -> Nat] : Solves(g, m)
    BY <1>6
  <1>8. Sums(g, S)
    BY <1>6, <1>7 DEF Sums
  <1> QED
    BY <1>8

\* The solutions for a set and for a subset agree.
LEMMA SumsAgree ==
    ASSUME NEW S \in SUBSET Refunds, IsFiniteSet(S), NEW U \in SUBSET S, NEW g, NEW h, Sums(g, S), Sums(h, U)
    PROVE  g[U] = h[U]
  <1> DEFINE T == {n \in Nat : \A s \in SUBSET U : Cardinality(s) = n => g[s] = h[s]}
  <1>1. \A s \in SUBSET U : IsFiniteSet(s) /\ Cardinality(s) \in Nat
    BY FS_Subset, FS_CardinalityType
  <1>2. 0 \in T
    BY <1>1, FS_EmptySet DEF Sums
  <1>3. ASSUME NEW n \in T PROVE n + 1 \in T
    <2>1. n \in Nat
      OBVIOUS
    <2>2. ASSUME NEW s \in SUBSET U, Cardinality(s) = n + 1 PROVE g[s] = h[s]
      <3>1. s # {}
        BY <2>1, <2>2, FS_EmptySet
      <3>2. Some(s) \in s
        BY <3>1 DEF Some
      <3>3. Cardinality(s \ {Some(s)}) = n
        BY <1>1, <2>1, <2>2, <3>2, OneLess
      <3>4. g[s \ {Some(s)}] = h[s \ {Some(s)}]
        BY <3>3
      <3> QED
        BY <3>1, <3>4 DEF Sums
    <2> QED
      BY <2>1, <2>2
  <1>4. T = Nat
    BY <1>2, <1>3, Induction
  <1> QED
    BY <1>1, <1>4

\* A sum is the summand of some element and the sum of the others.
LEMMA TotalSome ==
    ASSUME NEW S \in SUBSET Refunds, IsFiniteSet(S)
    PROVE  /\ Total(S) \in Nat
           /\ S = {} => Total(S) = 0
           /\ S # {} => Some(S) \in S /\ Total(S) = Amount[Some(S)] + Total(S \ {Some(S)})
  <1>1. ASSUME NEW U \in SUBSET S
        PROVE  IsFiniteSet(U) /\ \E g \in [SUBSET U -> Nat] : Sums(g, U) /\ Total(U) = g[U]
    <2>1. U \in SUBSET Refunds /\ IsFiniteSet(U)
      BY FS_Subset
    <2>2. PICK f \in [SUBSET U -> Nat] : Sums(f, U)
      BY <2>1, SumsExist
    <2>3. PICK g : Sums(g, U) /\ Total(U) = g[U]
      BY <2>2, TotalDef
    <2>4. f[U] = g[U]
      BY <2>1, <2>2, <2>3, SumsAgree
    <2> QED
      BY <2>1, <2>2, <2>3, <2>4
  <1>2. PICK g \in [SUBSET S -> Nat] : Sums(g, S) /\ Total(S) = g[S]
    BY <1>1
  <1>3. Total(S) \in Nat
    BY <1>2
  <1>4. S = {} => Total(S) = 0
    BY <1>2 DEF Sums
  <1>5. ASSUME S # {}
        PROVE  Some(S) \in S /\ Total(S) = Amount[Some(S)] + Total(S \ {Some(S)})
    <2> DEFINE U == S \ {Some(S)}
    <2>1. Some(S) \in S
      BY <1>5 DEF Some
    <2>2. g[S] = Amount[Some(S)] + g[U]
      BY <1>2, <1>5 DEF Sums
    <2>3. U \in SUBSET S
      OBVIOUS
    <2> HIDE DEF U
    <2>4. PICK h \in [SUBSET U -> Nat] : Sums(h, U) /\ Total(U) = h[U]
      BY <1>1, <2>3
    <2>5. g[U] = h[U]
      BY <1>2, <2>3, <2>4, SumsAgree
    <2> QED
      BY <1>2, <2>1, <2>2, <2>4, <2>5 DEF U
  <1> QED
    BY <1>3, <1>4, <1>5

\* ... and it does not matter which element.
LEMMA TotalOf ==
    ASSUME NEW S \in SUBSET Refunds, IsFiniteSet(S), NEW x \in S
    PROVE  Total(S) = Amount[x] + Total(S \ {x})
  <1> DEFINE Holds(R) == \A y \in R : Total(R) = Amount[y] + Total(R \ {y})
             T == {n \in Nat : \A R \in SUBSET S : Cardinality(R) = n => Holds(R)}
  <1>1. \A R \in SUBSET S : R \in SUBSET Refunds /\ IsFiniteSet(R) /\ Cardinality(R) \in Nat
    BY FS_Subset, FS_CardinalityType
  <1>2. 0 \in T
    BY <1>1, FS_EmptySet
  <1>3. ASSUME NEW n \in T PROVE n + 1 \in T
    <2>1. n \in Nat
      OBVIOUS
    <2>2. ASSUME NEW R \in SUBSET S, Cardinality(R) = n + 1, NEW y \in R
          PROVE  Total(R) = Amount[y] + Total(R \ {y})
      <3> DEFINE z == Some(R)
      <3>1. z \in R /\ Total(R) = Amount[z] + Total(R \ {z})
        BY <1>1, TotalSome
      <3> HIDE DEF z
      <3>2. CASE y = z
        BY <3>1, <3>2
      <3>3. CASE y # z
        <4>1. Cardinality(R \ {y}) = n /\ Cardinality(R \ {z}) = n
          BY <1>1, <2>1, <2>2, <3>1, OneLess
        <4>2. Holds(R \ {y}) /\ Holds(R \ {z})
          BY <4>1
        <4>3. Total(R \ {y}) = Amount[z] + Total((R \ {y}) \ {z})
          BY <3>1, <3>3, <4>2
        <4>4. Total(R \ {z}) = Amount[y] + Total((R \ {z}) \ {y})
          BY <3>3, <4>2
        <4>5. (R \ {y}) \ {z} = (R \ {z}) \ {y}
          OBVIOUS
        <4>6. /\ Total((R \ {y}) \ {z}) \in Nat
              /\ Amount[y] \in Nat /\ Amount[z] \in Nat
          <5>1. (R \ {y}) \ {z} \in SUBSET S
            OBVIOUS
          <5> QED
            BY <1>1, <3>1, <5>1, TotalSome, AmountAssumption
        <4> DEFINE rest == Total((R \ {y}) \ {z})
        <4>7. Total(R) = Amount[z] + (Amount[y] + rest) /\ Total(R \ {y}) = Amount[z] + rest
          BY <3>1, <4>3, <4>4, <4>5
        <4>8. rest \in Nat
          BY <4>6
        <4> HIDE DEF rest
        <4> QED
          BY <4>6, <4>7, <4>8
      <3> QED
        BY <3>2, <3>3
    <2> QED
      BY <2>1, <2>2
  <1>4. T = Nat
    BY <1>2, <1>3, Induction
  <1> QED
    BY <1>1, <1>4

\* A part of a set sums up to no more than the set.
LEMMA TotalOfPart ==
    ASSUME NEW S \in SUBSET Refunds, IsFiniteSet(S), NEW U \in SUBSET S
    PROVE  Total(U) <= Total(S)
  <1> DEFINE T == {n \in Nat : \A R \in SUBSET S : Cardinality(R) = n => \A V \in SUBSET R : Total(V) <= Total(R)}
  <1>1. \A R \in SUBSET S : /\ R \in SUBSET Refunds /\ IsFiniteSet(R) /\ Cardinality(R) \in Nat
                            /\ Total(R) \in Nat
    BY FS_Subset, FS_CardinalityType, TotalSome
  <1>2. 0 \in T
    BY <1>1, FS_EmptySet
  <1>3. ASSUME NEW n \in T PROVE n + 1 \in T
    <2>1. n \in Nat
      OBVIOUS
    <2>2. ASSUME NEW R \in SUBSET S, Cardinality(R) = n + 1, NEW V \in SUBSET R
          PROVE  Total(V) <= Total(R)
      <3>1. CASE V = R
        BY <3>1, <1>1
      <3>2. CASE V # R
        <4>1. PICK x \in R : x \notin V
          BY <3>2
        <4>2. Cardinality(R \ {x}) = n
          BY <1>1, <2>1, <2>2, <4>1, OneLess
        <4>3. Total(V) <= Total(R \ {x})
          BY <4>1, <4>2
        <4>4. Total(R) = Amount[x] + Total(R \ {x})
          BY <1>1, TotalOf
        <4>5. Total(V) \in Nat /\ Total(R \ {x}) \in Nat /\ Amount[x] \in Nat
          BY <1>1, AmountAssumption
        <4> QED
          BY <4>3, <4>4, <4>5
      <3> QED
        BY <3>1, <3>2
    <2> QED
      BY <2>1, <2>2
  <1>4. T = Nat
    BY <1>2, <1>3, Induction
  <1> QED
    BY <1>1, <1>4

-----------------------------------------------------------------------------
(***************************************************************************)
(* The reserved amounts.                                                   *)
(***************************************************************************)

Inserted == {r \in Refunds : Exists(r)}

\* A row that was never failed has reserved its amount since its insert.
SteadyReserves ==
    /\ failedOnce \subseteq Inserted
    /\ \A r \in Inserted \ failedOnce : Reserves(status[r])

\* Between the sum and the insert nobody takes the room that was found.
RoomKept ==
    \A q \in Requests, r \in Refunds, a \in Attempts :
        request[q] = [phase |-> "summed", refund |-> r, attempt |-> a] /\ ~Exists(r)
            => Total(SteadyOf(a)) + Amount[r] <= Paid[a]

IInv == TypeOK /\ IsFiniteSet(Inserted) /\ SteadyReserves /\ RoomKept /\ SteadyRefundsFit

\* The steady refunds of an attempt are finitely many rows that count.
LEMMA SteadyCounts ==
    ASSUME IInv, NEW a \in Attempts
    PROVE  /\ SteadyOf(a) \in SUBSET Inserted /\ SteadyOf(a) \in SUBSET Refunds /\ IsFiniteSet(SteadyOf(a))
           /\ SteadyOf(a) \subseteq {r \in Refunds : Reserves(status[r])}
           /\ {r \in Refunds : Reserves(status[r])} \in SUBSET Inserted
           /\ Total(SteadyOf(a)) \in Nat /\ Paid[a] \in Nat
  <1>1. SteadyOf(a) \in SUBSET Inserted /\ SteadyOf(a) \in SUBSET Refunds
    BY NoneAssumption DEF SteadyOf, Inserted, Exists, IInv, TypeOK
  <1>2. IsFiniteSet(SteadyOf(a))
    BY <1>1, FS_Subset DEF IInv
  <1>3. SteadyOf(a) \subseteq {r \in Refunds : Reserves(status[r])}
    BY <1>1 DEF IInv, SteadyReserves, SteadyOf
  <1>4. {r \in Refunds : Reserves(status[r])} \in SUBSET Inserted
    BY DEF Reserves, Inserted, Exists, NoRow
  <1> QED
    BY <1>1, <1>2, <1>3, <1>4, TotalSome, PaidAssumption

\* A step that inserts nothing and sums nothing.
LEMMA NoInsert ==
    ASSUME IInv, TypeOK', Inserted' = Inserted, SteadyReserves',
           \A a \in Attempts : SteadyOf(a)' \subseteq SteadyOf(a),
           \A q \in Requests : request'[q].phase = "summed" => request'[q] = request[q]
    PROVE  IInv'
  <1>1. \A a \in Attempts : /\ Total(SteadyOf(a)') \in Nat /\ Total(SteadyOf(a)) \in Nat
                            /\ Total(SteadyOf(a)') <= Total(SteadyOf(a))
    <2> TAKE a \in Attempts
    <2>1. SteadyOf(a)' \in SUBSET SteadyOf(a) /\ SteadyOf(a)' \in SUBSET Refunds /\ IsFiniteSet(SteadyOf(a)')
      BY SteadyCounts, FS_Subset
    <2> QED
      BY <2>1, SteadyCounts, TotalSome, TotalOfPart
  <1>2. \A a \in Attempts : Total(SteadyOf(a))' = Total(SteadyOf(a)')
    BY Zenon DEF Total, MapThenSumSet, MapThenFoldSet
  <1>3. \A a \in Attempts : Paid[a] \in Nat /\ Total(SteadyOf(a)) <= Paid[a]
    BY PaidAssumption DEF IInv, SteadyRefundsFit, Total
  <1>4. SteadyRefundsFit'
    <2>1. \A a \in Attempts : Total(SteadyOf(a))' <= Paid[a]
      BY <1>1, <1>2, <1>3
    <2> QED
      BY <2>1 DEF SteadyRefundsFit, Total
  <1>5. RoomKept'
    <2> SUFFICES ASSUME NEW q \in Requests, NEW r \in Refunds, NEW a \in Attempts, ~Exists(r)',
                        request'[q] = [phase |-> "summed", refund |-> r, attempt |-> a]
                 PROVE  Total(SteadyOf(a))' + Amount[r] <= Paid[a]
      BY DEF RoomKept
    <2>1. request[q] = [phase |-> "summed", refund |-> r, attempt |-> a]
      OBVIOUS
    <2>2. ~Exists(r)
      <3>1. r \in Inserted' <=> r \in Inserted
        OBVIOUS
      <3> QED
        BY <3>1 DEF Inserted
    <2>3. Total(SteadyOf(a)) + Amount[r] <= Paid[a]
      BY <2>1, <2>2 DEF IInv, RoomKept
    <2> QED
      BY <2>3, <1>1, <1>2, AmountAssumption, PaidAssumption
  <1> QED
    BY <1>4, <1>5 DEF IInv

\* A status change that the rules allow: nobody is inserted, and only a failure
\* takes a refund out of those that are steady.
LEMMA ChangeKeepsFit ==
    ASSUME IInv, NEW r \in Refunds, Exists(r), NEW to \in RefundTargets, ChangeStatus(r, to)
    PROVE  IInv'
  <1>1. TypeOK'
    BY ChangeTyped DEF IInv
  <1>2. Inserted' = Inserted
    BY DEF IInv, TypeOK, ChangeStatus, Inserted, Exists, RefundTargets, NoRow
  <1>3. SteadyReserves'
    BY <1>2 DEF IInv, TypeOK, SteadyReserves, ChangeStatus, Inserted, Exists, Reserves, RefundTargets
  <1>4. \A a \in Attempts : SteadyOf(a)' \subseteq SteadyOf(a)
    BY DEF ChangeStatus, SteadyOf
  <1> QED
    BY <1>1, <1>2, <1>3, <1>4, NoInsert DEF ChangeStatus

\* The sum of the reservations counts every steady refund, so what it accepts fits.
LEMMA SumReservationsKeepsFit == ASSUME IInv, NEW p \in Requests, SumReservations(p) PROVE IInv'
  <1>1. TypeOK' /\ UNCHANGED <<status, attemptOf, orderLock, failedOnce>>
    BY NextTyped DEF SumReservations, rows, IInv, Next
  <1>2. Inserted' = Inserted /\ SteadyReserves'
    BY <1>1 DEF Inserted, Exists, IInv, SteadyReserves
  <1>3. \A a \in Attempts : Total(SteadyOf(a))' = Total(SteadyOf(a))
    <2> TAKE a \in Attempts
    <2>1. SteadyOf(a)' = SteadyOf(a)
      BY <1>1 DEF SteadyOf
    <2>2. Total(SteadyOf(a))' = Total(SteadyOf(a)')
      BY Zenon DEF Total, MapThenSumSet, MapThenFoldSet
    <2> QED
      BY <2>1, <2>2
  <1>4. SteadyRefundsFit'
    <2>1. \A a \in Attempts : Total(SteadyOf(a))' <= Paid[a]
      BY <1>3 DEF IInv, SteadyRefundsFit, Total
    <2> QED
      BY <2>1 DEF SteadyRefundsFit, Total
  <1>5. RoomKept'
    <2> SUFFICES ASSUME NEW q \in Requests, NEW r \in Refunds, NEW a \in Attempts, ~Exists(r)',
                        request'[q] = [phase |-> "summed", refund |-> r, attempt |-> a]
                 PROVE  Total(SteadyOf(a))' + Amount[r] <= Paid[a]
      BY DEF RoomKept
    <2>1. ~Exists(r)
      BY <1>1 DEF Exists
    <2>2. CASE q = p
      <3> DEFINE counted == {x \in Refunds : Reserves(status[x])}
      <3>1. request[p].refund = r /\ request[p].attempt = a
        BY <2>2 DEF SumReservations, IInv, TypeOK, CallsInFlight, NoRequest
      <3>2. Amount[r] <= Paid[a] - Total(counted)
        BY <3>1 DEF SumReservations, Fits, AlreadyRefunded, Total
      <3>3. counted \in SUBSET Refunds /\ IsFiniteSet(counted) /\ SteadyOf(a) \in SUBSET counted
        BY SteadyCounts, FS_Subset DEF IInv
      <3>4. Total(SteadyOf(a)) <= Total(counted) /\ Total(counted) \in Nat /\ Total(SteadyOf(a)) \in Nat
        BY <3>3, SteadyCounts, TotalOfPart, TotalSome
      <3> HIDE DEF counted
      <3> QED
        BY <3>2, <3>4, <1>3, AmountAssumption, PaidAssumption
    <2>3. CASE q # p
      BY <2>1, <2>3, <1>3 DEF SumReservations, IInv, TypeOK, RoomKept
    <2> QED
      BY <2>2, <2>3
  <1> QED
    BY <1>1, <1>2, <1>4, <1>5 DEF IInv

\* The insert uses the room its own sum found: nobody else holds the lock.
LEMMA InsertRefundKeepsFit == ASSUME IInv, NEW p \in Requests, InsertRefund(p) PROVE IInv'
  <1> DEFINE r == request[p].refund
             b == request[p].attempt
  <1>1. TypeOK'
    BY NextTyped DEF IInv, Next
  <1>2. \A q \in Requests : request'[q].phase # "summed"
    <2>1. \A q \in Requests : q # p => request'[q] = request[q] /\ request[q].phase # "summed"
      BY DEF InsertRefund, IInv, TypeOK
    <2>2. request'[p] = NoRequest
      BY DEF InsertRefund, IInv, TypeOK
    <2> QED
      BY <2>1, <2>2 DEF NoRequest
  <1>3. r \in Refunds /\ b \in Attempts /\ request[p] = [phase |-> "summed", refund |-> r, attempt |-> b]
    <2>1. request[p] \in CallsInFlight /\ request[p].phase = "summed"
      BY DEF InsertRefund, IInv, TypeOK, NoRequest
    <2> QED
      BY <2>1 DEF CallsInFlight
  <1>4. CASE Exists(r)
    <2>1. UNCHANGED <<status, attemptOf, failedOnce>>
      BY <1>4 DEF InsertRefund, rows
    <2>2. Inserted' = Inserted /\ SteadyReserves'
      BY <2>1 DEF Inserted, Exists, IInv, SteadyReserves
    <2>3. \A a \in Attempts : SteadyOf(a)' \subseteq SteadyOf(a)
      BY <2>1 DEF SteadyOf
    <2> QED
      BY <1>1, <1>2, <2>2, <2>3, NoInsert
  <1>5. CASE ~Exists(r)
    <2>1. /\ status' = [status EXCEPT ![r] = "submitted"] /\ attemptOf' = [attemptOf EXCEPT ![r] = b]
          /\ UNCHANGED failedOnce
      BY <1>5 DEF InsertRefund
    <2> HIDE DEF r, b
    <2>2. r \notin failedOnce
      BY <1>5, <1>3 DEF IInv, SteadyReserves, Inserted
    <2>3. Inserted' = Inserted \cup {r}
      BY <1>3, <2>1 DEF IInv, TypeOK, Inserted, Exists, NoRow
    <2>4. IsFiniteSet(Inserted')
      BY <2>3, FS_AddElement DEF IInv
    <2>5. SteadyReserves'
      BY <1>3, <2>1, <2>3 DEF IInv, TypeOK, SteadyReserves, Reserves
    <2>6. RoomKept'
      BY <1>2 DEF RoomKept
    <2>7. \A a \in Attempts : SteadyOf(a)' = IF a = b THEN SteadyOf(a) \cup {r} ELSE SteadyOf(a)
      BY <1>3, <1>5, <2>1, <2>2, NoneAssumption DEF IInv, TypeOK, SteadyOf, Exists
    <2>8. ASSUME NEW a \in Attempts PROVE Total(SteadyOf(a)') <= Paid[a]
      <3>1. CASE a = b
        <4>1. SteadyOf(a)' = SteadyOf(a) \cup {r}
          BY <3>1, <2>7
        <4>2. r \notin SteadyOf(a)
          BY <1>5, SteadyCounts DEF IInv, Inserted
        <4>3. SteadyOf(a) \in SUBSET Refunds /\ IsFiniteSet(SteadyOf(a)) /\ Total(SteadyOf(a)) \in Nat
          BY SteadyCounts, TotalSome
        <4>4. SteadyOf(a)' \in SUBSET Refunds /\ IsFiniteSet(SteadyOf(a)')
          BY <1>3, <4>1, <4>3, FS_AddElement
        <4>5. Total(SteadyOf(a)') = Amount[r] + Total(SteadyOf(a))
          <5>1. Total(SteadyOf(a)') = Amount[r] + Total(SteadyOf(a)' \ {r})
            BY <4>1, <4>4, TotalOf
          <5>2. SteadyOf(a)' \ {r} = SteadyOf(a)
            BY <4>1, <4>2
          <5> QED
            BY Zenon, <5>1, <5>2
        <4>6. Total(SteadyOf(a)) + Amount[r] <= Paid[a]
          BY <1>3, <1>5, <3>1 DEF IInv, RoomKept
        <4> QED
          <5>1. Amount[r] \in Nat /\ Paid[a] \in Nat
            BY <1>3, AmountAssumption, PaidAssumption
          <5> QED
            BY <5>1, <4>3, <4>5, <4>6
      <3>2. CASE a # b
        BY <3>2, <2>7 DEF IInv, SteadyRefundsFit, Total
      <3> QED
        BY <3>1, <3>2
    <2>9. SteadyRefundsFit'
      <3>1. \A a \in Attempts : Total(SteadyOf(a))' = Total(SteadyOf(a)')
        BY Zenon DEF Total, MapThenSumSet, MapThenFoldSet
      <3>2. \A a \in Attempts : Total(SteadyOf(a))' <= Paid[a]
        BY <2>8, <3>1
      <3> QED
        BY <3>2 DEF SteadyRefundsFit, Total
    <2> QED
      BY <1>1, <2>4, <2>5, <2>6, <2>9 DEF IInv
  <1> QED
    BY <1>4, <1>5

\* Every step keeps the invariant; only the sum and the insert do more than keep the sums.
LEMMA Inductive == IInv /\ [Next]_vars => IInv'
  <1> SUFFICES ASSUME IInv, [Next]_vars PROVE IInv'
    OBVIOUS
  <1>1. TypeOK'
    BY NextTyped DEF IInv
  <1>2. ASSUME UNCHANGED <<status, attemptOf, failedOnce>>,
               \A q \in Requests : request'[q].phase = "summed" => request'[q] = request[q]
        PROVE  IInv'
    <2>1. Inserted' = Inserted /\ SteadyReserves' /\ \A a \in Attempts : SteadyOf(a)' \subseteq SteadyOf(a)
      BY <1>2 DEF Inserted, Exists, IInv, SteadyReserves, SteadyOf
    <2> QED
      BY <1>1, <1>2, <2>1, NoInsert
  <1>3. ASSUME NEW q \in Requests, NEW r \in Refunds, NEW a \in Attempts, BeginCreateOwnerRefund(q, r, a)
        PROVE  IInv'
    BY <1>2, <1>3 DEF BeginCreateOwnerRefund, rows, IInv, TypeOK
  <1>4. ASSUME NEW q \in Requests, LockOrder(q) PROVE IInv'
    <2>1. \A p \in Requests : request'[p].phase = "summed" => request'[p] = request[p]
      BY <1>4 DEF LockOrder, IInv, TypeOK, CallsInFlight, NoRequest
    <2> QED
      BY <1>2, <1>4, <2>1 DEF LockOrder, rows
  <1>5. ASSUME NEW q \in Requests, SumReservations(q) PROVE IInv'
    BY <1>5, SumReservationsKeepsFit
  <1>6. ASSUME NEW q \in Requests, InsertRefund(q) PROVE IInv'
    BY <1>6, InsertRefundKeepsFit
  <1>7. ASSUME NEW q \in Requests, RollBack(q) PROVE IInv'
    BY <1>2, <1>7 DEF RollBack, rows, IInv, TypeOK, NoRequest
  <1>8. ASSUME NEW r \in Refunds, MarkProcessing(r) PROVE IInv'
    BY <1>8, ChangeKeepsFit DEF MarkProcessing, Exists, NoRow, RefundTargets
  <1>9. ASSUME NEW r \in Refunds, NEW to \in {"succeeded", "failed"}, MarkTerminal(r, to) PROVE IInv'
    BY <1>9, ChangeKeepsFit DEF MarkTerminal, RefundTargets
  <1>10. ASSUME NEW r \in Refunds, NEW to \in RefundTargets, ApplyWebhookRefundStatus(r, to) PROVE IInv'
    BY <1>10, ChangeKeepsFit DEF ApplyWebhookRefundStatus
  <1>11. ASSUME NEW claimed \in SUBSET {r \in Refunds : IsOpen(status[r])}, ClaimDueRefunds(claimed)
         PROVE  IInv'
    <2>1. Inserted' = Inserted
      BY <1>11 DEF ClaimDueRefunds, Inserted, Exists, NoRow
    <2>2. SteadyReserves'
      BY <1>11, <2>1 DEF ClaimDueRefunds, IInv, SteadyReserves, Inserted, Reserves
    <2>3. \A a \in Attempts : SteadyOf(a)' \subseteq SteadyOf(a)
      BY <1>11 DEF ClaimDueRefunds, SteadyOf
    <2> QED
      BY <1>1, <1>11, <2>1, <2>2, <2>3, NoInsert DEF ClaimDueRefunds
  <1>12. CASE UNCHANGED vars
    BY <1>2, <1>12 DEF vars
  <1> QED
    BY <1>3, <1>4, <1>5, <1>6, <1>7, <1>8, <1>9, <1>10, <1>11, <1>12 DEF Next

\* Without a row every sum is empty.
LEMMA Initially == Init => IInv
  <1> SUFFICES ASSUME Init PROVE IInv
    OBVIOUS
  <1>1. TypeOK /\ Inserted = {} /\ IsFiniteSet(Inserted) /\ SteadyReserves
    BY InitTyped, FS_EmptySet DEF Init, Inserted, Exists, SteadyReserves
  <1>2. RoomKept
    BY DEF Init, RoomKept, NoRequest
  <1>3. \A a \in Attempts : SteadyOf(a) = {}
    BY NoneAssumption DEF Init, SteadyOf
  <1>4. Total({}) = 0
    BY TotalSome, FS_EmptySet
  <1>5. SteadyRefundsFit
    BY <1>3, <1>4, PaidAssumption DEF SteadyRefundsFit, Total
  <1> QED
    BY <1>1, <1>2, <1>5 DEF IInv

\* However many requests create refunds of an order at a time, and whatever happens to any of them
\* between the sum and the insert, the refunds of an attempt that were never given up as failed fit
\* together what the attempt was paid.
THEOREM SteadyRefundsAlwaysFit == Spec => []SteadyRefundsFit
  <1>1. IInv => SteadyRefundsFit
    BY DEF IInv
  <1> QED
    BY <1>1, Initially, Inductive, PTL DEF Spec
=============================================================================
