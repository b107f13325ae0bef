--------------------------- MODULE Checkout_proofs ---------------------------
(***************************************************************************)
(* What the checkout of an order promises, for any number of requests,     *)
(* attempts, hosts and connections.  First the gate and the advisory lock  *)
(* as the database keeps it (CheckoutPool): they leave room for the work   *)
(* of every lock holder, and of two checkouts that hold one lock at most   *)
(* one succeeds.  Then the sequence under the lock (ProviderCheckout): one *)
(* live trade at a time, and a superseded attempt stays closed where a     *)
(* cancel reaches its trade.                                               *)
(***************************************************************************)
EXTENDS ProviderCheckout, CheckoutPool, FiniteSetTheorems, WellFoundedInduction, TLAPS

-----------------------------------------------------------------------------
(***************************************************************************)
(* The gate and the lock (CheckoutPool).                                   *)
(***************************************************************************)

\* The gate admits no more checkouts than it has permits.
GateHolds == \A h \in Hosts : Cardinality(Admitted(h)) <= Permits

\* Of two checkouts that hold the lock of one order, one has lost its session.
OneHolder ==
    \A r, q \in Checkouts :
        /\ r # q /\ stage[r] \in Holding /\ stage[q] \in Holding
        /\ order[r] = order[q]
        => r \in lost \/ q \in lost

\* Who is overtaken has lost its session: else the other could not have held the lock.
OvertakenIsLost == overtaken \subseteq lost

PoolInv == PoolTypeOK /\ GateHolds /\ OneHolder /\ OvertakenIsLost /\ OneOfTwoFails

LEMMA PermitsAreHalf == Permits \in Nat /\ 2 * Permits <= MaxConnections
BY ConnectionsAssumption DEF Permits

LEMMA RequestSetsAreFinite ==
    \A h : IsFiniteSet(Admitted(h)) /\ IsFiniteSet(Pinned(h))
<1> SUFFICES ASSUME NEW h PROVE IsFiniteSet(Admitted(h)) /\ IsFiniteSet(Pinned(h))
    OBVIOUS
<1>1. Admitted(h) \subseteq Checkouts /\ Pinned(h) \subseteq Checkouts
    BY DEF Admitted, Pinned
<1> QED BY <1>1, CheckoutsAssumption, FS_Subset

\* A step after which no more requests have a permit keeps the gate.
LEMMA FewerKeepGate ==
    ASSUME GateHolds, \A h \in Hosts : Admitted(h)' \subseteq Admitted(h)
    PROVE  GateHolds'
<1> SUFFICES ASSUME NEW h \in Hosts PROVE Cardinality(Admitted(h)') <= Permits
    BY DEF GateHolds, Permits
<1>1. IsFiniteSet(Admitted(h)) /\ Admitted(h)' \subseteq Admitted(h)
    BY RequestSetsAreFinite
<1>2. Cardinality(Admitted(h)') <= Cardinality(Admitted(h))
    BY <1>1, FS_Subset
<1>3. Cardinality(Admitted(h)) \in Nat /\ Cardinality(Admitted(h)') \in Nat
    BY <1>1, FS_Subset, FS_CardinalityType
<1>4. Cardinality(Admitted(h)) <= Permits
    BY DEF GateHolds
<1> QED BY <1>2, <1>3, <1>4, PermitsAreHalf

\* A request that changes its stage without entering the gate lets nobody else in.
LEMMA StageKeepsGate ==
    ASSUME PoolTypeOK, GateHolds, NEW r \in Checkouts, NEW s,
           Becomes(r, s), s \in {"idle", "queued"} \/ stage[r] \notin {"idle", "queued"}
    PROVE  GateHolds'
<1>1. \A h \in Hosts : Admitted(h)' \subseteq Admitted(h)
    BY DEF Admitted, Becomes, PoolTypeOK
<1> QED BY <1>1, FewerKeepGate

LEMMA SameStageKeepsGate ==
    ASSUME GateHolds, UNCHANGED stage
    PROVE  GateHolds'
<1>1. \A h \in Hosts : Admitted(h)' \subseteq Admitted(h)
    BY DEF Admitted
<1> QED BY <1>1, FewerKeepGate

LEMMA EnterKeepsGate ==
    ASSUME PoolTypeOK, GateHolds, NEW r \in Checkouts, EnterGate(r)
    PROVE  GateHolds'
<1> SUFFICES ASSUME NEW h \in Hosts PROVE Cardinality(Admitted(h)') <= Permits
    BY DEF GateHolds, Permits
<1>1. IsFiniteSet(Admitted(h)) /\ Cardinality(Admitted(h)) \in Nat
    BY RequestSetsAreFinite, FS_CardinalityType
<1>2. CASE h = HostOf[r]
    <2>1. Admitted(h)' = Admitted(h) \cup {r} /\ r \notin Admitted(h)
        BY <1>2 DEF EnterGate, Becomes, Admitted, PoolTypeOK
    <2>2. Cardinality(Admitted(h) \cup {r}) = Cardinality(Admitted(h)) + 1
        BY <1>1, <2>1, FS_AddElement
    <2>3. Cardinality(Admitted(h)) < Permits
        BY <1>2 DEF EnterGate
    <2> QED BY <1>1, <2>1, <2>2, <2>3, PermitsAreHalf
<1>3. CASE h # HostOf[r]
    <2>1. Admitted(h)' = Admitted(h)
        BY <1>3 DEF EnterGate, Becomes, Admitted, PoolTypeOK
    <2> QED BY <2>1 DEF GateHolds
<1> QED BY <1>2, <1>3

LEMMA InitPool == PoolInit => PoolInv
<1> SUFFICES ASSUME PoolInit PROVE PoolInv
    OBVIOUS
<1>1. PoolTypeOK
    BY DEF PoolInit, PoolTypeOK, Stages
<1>2. GateHolds
    <2> SUFFICES ASSUME NEW h \in Hosts PROVE Cardinality(Admitted(h)) <= Permits
        BY DEF GateHolds
    <2>1. Admitted(h) = {}
        BY DEF PoolInit, Admitted
    <2> QED BY <2>1, FS_EmptySet, PermitsAreHalf
<1>3. OneHolder /\ OvertakenIsLost /\ OneOfTwoFails
    BY DEF PoolInit, OneHolder, OvertakenIsLost, OneOfTwoFails, Holding
<1> QED BY <1>1, <1>2, <1>3 DEF PoolInv

-----------------------------------------------------------------------------
\* The types and the locks, action by action.

\* What OneHolder, OvertakenIsLost and OneOfTwoFails say, step by step.
Locks == OneHolder /\ OvertakenIsLost /\ OneOfTwoFails

LEMMA ArriveKeepsLocks ==
    ASSUME PoolTypeOK, Locks, NEW r \in Checkouts, NEW o \in Orders, Arrive(r, o)
    PROVE  PoolTypeOK' /\ Locks'
BY CheckoutsAssumption DEF PoolTypeOK, Locks, OneHolder, OvertakenIsLost, OneOfTwoFails, Arrive,
   Becomes, locks, Holding, Stages

LEMMA QueueKeepsLocks ==
    ASSUME PoolTypeOK, Locks, NEW r \in Checkouts, Queue(r)
    PROVE  PoolTypeOK' /\ Locks'
<1>1. CASE EnterGate(r)
    BY <1>1 DEF PoolTypeOK, Locks, OneHolder, OvertakenIsLost, OneOfTwoFails, EnterGate,
       Becomes, locks, Holding, Stages
<1>2. CASE BeginLockTransaction(r)
    BY <1>2 DEF PoolTypeOK, Locks, OneHolder, OvertakenIsLost, OneOfTwoFails,
       BeginLockTransaction, Becomes, locks, Holding, Stages
<1>3. CASE BeginWork(r)
    BY <1>3 DEF PoolTypeOK, Locks, OneHolder, OvertakenIsLost, OneOfTwoFails, BeginWork,
       Becomes, locks, Holding, Stages
<1> QED BY <1>1, <1>2, <1>3 DEF Queue

LEMMA AcquireLockKeepsLocks ==
    ASSUME PoolTypeOK, Locks, NEW r \in Checkouts, AcquireLock(r)
    PROVE  PoolTypeOK' /\ Locks'
BY DEF PoolTypeOK, Locks, OneHolder, OvertakenIsLost, OneOfTwoFails, AcquireLock, Unheld,
   Becomes, locks, Holding, Stages

\* Who releases a lock he has not lost has overtaken only holders that have lost theirs.
LEMMA ReleaseKeepsLocks ==
    ASSUME PoolTypeOK, Locks, NEW r \in Checkouts, Release(r)
    PROVE  PoolTypeOK' /\ Locks'
<1>1. PoolTypeOK'
    BY DEF PoolTypeOK, Release, End, Together, Becomes, Holding, Stages
<1>2. OneHolder'
    BY DEF PoolTypeOK, Locks, OneHolder, Release, End, Becomes, Holding
<1>3. OvertakenIsLost'
    <2>1. CASE Succeeds(r)
        <3>1. Together(r) \ {r} \subseteq lost
            BY <2>1 DEF PoolTypeOK, Locks, OneHolder, Succeeds, Together, Release, Holding
        <3> QED BY <2>1, <3>1 DEF Locks, OvertakenIsLost, Release, End
    <2>2. CASE ~Succeeds(r)
        BY <2>2 DEF Locks, OvertakenIsLost, Release, End
    <2> QED BY <2>1, <2>2
<1>4. OneOfTwoFails'
    BY DEF Locks, OneOfTwoFails, OvertakenIsLost, Release, Succeeds
<1> QED BY <1>1, <1>2, <1>3, <1>4 DEF Locks

LEMMA ProceedKeepsLocks ==
    ASSUME PoolTypeOK, Locks, NEW r \in Checkouts, Proceed(r)
    PROVE  PoolTypeOK' /\ Locks'
<1>1. CASE LockIsTaken(r)
    BY <1>1 DEF PoolTypeOK, Locks, OneHolder, OvertakenIsLost, OneOfTwoFails, LockIsTaken,
       Becomes, Holding, Stages
<1>2. CASE Retry(r)
    BY <1>2 DEF PoolTypeOK, Locks, OneHolder, OvertakenIsLost, OneOfTwoFails, Retry,
       Becomes, locks, Holding, Stages
<1>3. CASE GiveUp(r)
    BY <1>3 DEF PoolTypeOK, Locks, OneHolder, OvertakenIsLost, OneOfTwoFails, GiveUp, End,
       Becomes, Holding, Stages
<1>4. CASE EndWork(r)
    BY <1>4 DEF PoolTypeOK, Locks, OneHolder, OvertakenIsLost, OneOfTwoFails, EndWork,
       Becomes, locks, Holding, Stages
<1> QED BY <1>1, <1>2, <1>3, <1>4, AcquireLockKeepsLocks, ReleaseKeepsLocks DEF Proceed

LEMMA FailKeepsLocks ==
    ASSUME PoolTypeOK, Locks, NEW r \in Checkouts, Fail(r)
    PROVE  PoolTypeOK' /\ Locks'
BY DEF PoolTypeOK, Locks, OneHolder, OvertakenIsLost, OneOfTwoFails, Fail, End, Becomes,
   Holding, Stages

LEMMA LoseSessionKeepsLocks ==
    ASSUME PoolTypeOK, Locks, NEW r \in Checkouts, LoseSession(r)
    PROVE  PoolTypeOK' /\ Locks'
BY DEF PoolTypeOK, Locks, OneHolder, OvertakenIsLost, OneOfTwoFails, LoseSession, Holding

LEMMA OthersKeepLocks ==
    ASSUME PoolTypeOK, Locks, NEW x \in Others, TakeConnection(x) \/ GiveConnection(x)
    PROVE  PoolTypeOK' /\ Locks'
BY DEF PoolTypeOK, Locks, OneHolder, OvertakenIsLost, OneOfTwoFails, TakeConnection,
   GiveConnection, locks, Holding

-----------------------------------------------------------------------------
LEMMA NextPool == PoolInv /\ [PoolNext]_poolVars => PoolInv'
<1> SUFFICES ASSUME PoolInv, [PoolNext]_poolVars PROVE PoolInv'
    OBVIOUS
<1> USE DEF PoolInv
<1>1. PoolTypeOK /\ Locks
    BY DEF Locks
<1>2. ASSUME NEW r \in Checkouts, NEW o \in Orders, Arrive(r, o) PROVE PoolInv'
    <2>1. GateHolds'
        BY <1>2, StageKeepsGate DEF Arrive
    <2> QED BY <1>1, <1>2, <2>1, ArriveKeepsLocks DEF Locks
<1>3. ASSUME NEW r \in Checkouts, Queue(r) PROVE PoolInv'
    <2>1. GateHolds'
        <3>1. CASE EnterGate(r)
            BY <3>1, EnterKeepsGate
        <3>2. CASE BeginLockTransaction(r) \/ BeginWork(r)
            <4>1. \E s : Becomes(r, s) /\ stage[r] \notin {"idle", "queued"}
                BY <3>2 DEF BeginLockTransaction, BeginWork
            <4> QED BY <4>1, StageKeepsGate
        <3> QED BY <1>3, <3>1, <3>2 DEF Queue
    <2> QED BY <1>1, <1>3, <2>1, QueueKeepsLocks DEF Locks
<1>4. ASSUME NEW r \in Checkouts, Proceed(r) PROVE PoolInv'
    <2>1. \E s : Becomes(r, s) /\ stage[r] \notin {"idle", "queued"}
        BY <1>4 DEF Proceed, AcquireLock, LockIsTaken, Retry, GiveUp, EndWork, Release, End
    <2>2. GateHolds'
        BY <2>1, StageKeepsGate
    <2> QED BY <1>1, <1>4, <2>2, ProceedKeepsLocks DEF Locks
<1>5. ASSUME NEW r \in Checkouts, Fail(r) PROVE PoolInv'
    <2>1. GateHolds'
        BY <1>5, StageKeepsGate DEF Fail, End
    <2> QED BY <1>1, <1>5, <2>1, FailKeepsLocks DEF Locks
<1>6. ASSUME NEW r \in Checkouts, LoseSession(r) PROVE PoolInv'
    <2>1. GateHolds'
        BY <1>6, SameStageKeepsGate DEF LoseSession
    <2> QED BY <1>1, <1>6, <2>1, LoseSessionKeepsLocks DEF Locks
<1>7. ASSUME NEW x \in Others, TakeConnection(x) \/ GiveConnection(x) PROVE PoolInv'
    <2>1. GateHolds'
        BY <1>7, SameStageKeepsGate DEF TakeConnection, GiveConnection
    <2> QED BY <1>1, <1>7, <2>1, OthersKeepLocks DEF Locks
<1>8. CASE UNCHANGED poolVars
    <2>1. GateHolds'
        BY <1>8, SameStageKeepsGate DEF poolVars
    <2> QED BY <1>1, <1>8, <2>1 DEF poolVars, locks, PoolTypeOK, Locks, OneHolder, OvertakenIsLost, OneOfTwoFails
<1> QED BY <1>2, <1>3, <1>4, <1>5, <1>6, <1>7, <1>8 DEF PoolNext

\* The gate holds, and what it holds for.
THEOREM PoolInvariant == PoolSpec => []PoolInv
<1>1. PoolInit => PoolInv
    BY InitPool
<1>2. PoolInv /\ [PoolNext]_poolVars => PoolInv'
    BY NextPool
<1> QED BY <1>1, <1>2, PTL DEF PoolSpec

(* The state of the requests, the locks and the pool is always well formed
   (owner_order_checkout.rs: the gate, the lock and its release). *)
THEOREM PoolTypeCorrect == PoolSpec => []PoolTypeOK
<1>1. PoolInv => PoolTypeOK
    BY DEF PoolInv
<1> QED BY <1>1, PoolInvariant, PTL

(* However many connections, hosts and requests there are, the lock transactions of a
   host's checkouts leave each of them a connection for its work
   (checkout_connection_gate: half of max_connections). *)
THEOREM GateLeavesRoom == PoolSpec => []CheckoutsFit
<1>1. PoolInv => CheckoutsFit
    <2> SUFFICES ASSUME PoolInv, NEW h \in Hosts PROVE 2 * Cardinality(Pinned(h)) <= MaxConnections
        BY DEF CheckoutsFit
    <2>1. Pinned(h) \subseteq Admitted(h)
        BY DEF Pinned, Admitted, Pinning, Holding
    <2>2. Cardinality(Pinned(h)) <= Cardinality(Admitted(h))
        BY <2>1, RequestSetsAreFinite, FS_Subset
    <2>3. Cardinality(Pinned(h)) \in Nat /\ Cardinality(Admitted(h)) \in Nat
        BY RequestSetsAreFinite, FS_CardinalityType
    <2>4. Cardinality(Admitted(h)) <= Permits
        BY DEF PoolInv, GateHolds
    <2> QED BY <2>2, <2>3, <2>4, PermitsAreHalf, ConnectionsAssumption
<1> QED BY <1>1, PoolInvariant, PTL

(* If the session of a lock holder is lost and another checkout of the order takes the
   lock, at most one of the two is answered with success: the commit that releases the
   lock reports the loss (enrich_owner_order_payment_postgres). *)
THEOREM LostLockIsReported == PoolSpec => []OneOfTwoFails
<1>1. PoolInv => OneOfTwoFails
    BY DEF PoolInv
<1> QED BY <1>1, PoolInvariant, PTL

-----------------------------------------------------------------------------
(***************************************************************************)
(* The sequence under the lock (ProviderCheckout): the first and the last  *)
(* of some attempts.                                                       *)
(***************************************************************************)

\* A set of naturals that is not empty has a least member.
LEMMA LeastExists ==
    ASSUME NEW P \in SUBSET Nat, P # {}
    PROVE  \E x \in P : \A y \in P : x <= y
  <1> DEFINE Less == {p \in Nat \X Nat : p[1] < p[2]}
  <1>1. IsWellFoundedOn(Less, Nat)
    BY NatLessThanWellFounded DEF OpToRel
  <1>2. PICK x \in P : \A y \in P : ~(<<y, x>> \in Less)
    <2> HIDE DEF Less
    <2> QED BY <1>1, WFMin
  <1>3. \A y \in P : ~(y < x)
    BY <1>2
  <1> QED
    BY <1>3

\* Hence the least and the greatest member are members.
LEMMA MinIsMember == ASSUME NEW P \in SUBSET Nat, P # {} PROVE Min(P) \in P
  BY LeastExists DEF Min

LEMMA MaxIsMember ==
    ASSUME NEW n \in Nat, NEW P \in SUBSET (1 .. n), P # {}
    PROVE  Max(P) \in P
  <1> DEFINE Q == {n - i : i \in P}
  <1>1. Q \in SUBSET Nat /\ Q # {}
    <2>1. \A i \in P : n - i \in Nat
      <3> SUFFICES ASSUME NEW i \in P PROVE n - i \in Nat
        OBVIOUS
      <3>1. i \in 1 .. n
        OBVIOUS
      <3> QED
        BY <3>1
    <2> QED
      BY <2>1
  <1>2. PICK m \in Q : \A y \in Q : m <= y
    BY <1>1, LeastExists
  <1>3. n - m \in P /\ \A y \in P : n - m >= y
    BY <1>2
  <1> QED
    BY <1>3 DEF Max

\* The first of some members of a sequence.
First(c, S) == c[Min({i \in 1 .. Len(c) : c[i] \in S})]

LEMMA FirstIsMember ==
    ASSUME NEW c, Len(c) \in Nat, NEW S, \E i \in 1 .. Len(c) : c[i] \in S
    PROVE  First(c, S) \in S
  <1> DEFINE P == {i \in 1 .. Len(c) : c[i] \in S}
  <1>1. P \in SUBSET Nat /\ P # {}
    OBVIOUS
  <1>2. Min(P) \in P
    BY <1>1, MinIsMember
  <1> QED
    BY <1>2 DEF First

\* It stays the first when another member is appended.
LEMMA FirstStays ==
    ASSUME NEW T, NEW c \in Seq(T), NEW k \in T, NEW S, k \notin S, \E i \in 1 .. Len(c) : c[i] \in S
    PROVE  First(Append(c, k), S) = First(c, S)
  <1> DEFINE P == {i \in 1 .. Len(c) : c[i] \in S}
             d == Append(c, k)
  <1>1. Len(d) = Len(c) + 1 /\ d[Len(c) + 1] = k /\ \A i \in 1 .. Len(c) : d[i] = c[i]
    OBVIOUS
  <1>2. {i \in 1 .. Len(d) : d[i] \in S} = P
    BY <1>1
  <1>3. P \in SUBSET Nat /\ P # {}
    OBVIOUS
  <1>4. Min(P) \in P
    BY <1>3, MinIsMember
  <1> QED
    BY <1>1, <1>2, <1>4 DEF First

-----------------------------------------------------------------------------
(***************************************************************************)
(* The invariant.  What is said of one request is said of its record and   *)
(* of sets of attempts, so that a step is looked at through these sets.    *)
(***************************************************************************)

RequestRecords == [phase : Phases, target : Keys \cup {None}, todo : SUBSET Keys, why : Reasons \cup {None}]

\* The attempts that exist.
Inserted == {k \in Keys : Exists(k)}

\* The attempts that are active and have a trade, or may get one without another call.
Exposed(k) == trade[k] \in {"open", "paid"} \/ (trade[k] = "absent" /\ k \in unanswered)
Live == {k \in Keys : Active(k) /\ Exposed(k)}

\* The attempts without a trade, as far as a cancel can reach it and no call is late.
Shut == {k \in Keys : trade[k] \in {"absent", "closed"} \/ k \in unanswered \cup NativeKeyed}

\* `created` names the attempts that exist, and nothing is known of the others.
Rows ==
    /\ IsFiniteSet(Inserted)
    /\ Inserted = {created[i] : i \in 1 .. Len(created)}
    /\ fresh \subseteq Inserted /\ superseded \subseteq Inserted /\ unanswered \subseteq Inserted
    /\ \A k \in Keys \ Inserted : trade[k] = "absent"
    /\ intentKey \in Inserted \cup {None}

OneLive == \A j, k \in Live : j = k

\* What was canceled under the lock is not active any more, and has no trade.
Gone == superseded \cap ActiveAttempts = {} /\ superseded \subseteq Shut

\* The request x works under the lock.
Locked(x) == x.phase \in LockedPhases \/ (x.phase \in ClosingPhases /\ x.why # "one")

\* It cancels the whole order, or prepares its target.
ForOrder(x) == x.phase \in {"listing all", "canceling"} \/ (x.phase \in ClosingPhases /\ x.why = "order")
ForTarget(x) ==
    \/ x.phase \in LockedPhases \ {"listing all", "canceling"}
    \/ x.phase \in ClosingPhases /\ x.why \in {"overdue", "others"}

\* It has seen its target open after it took the lock.
Passing(x) ==
    \/ x.phase \in {"listing others", "creating", "persisting"}
    \/ x.phase \in ClosingPhases /\ x.why = "others"

\* What a request may rely on: its target exists; the live attempts but its target are those it still
\* closes, and are none once it has closed them; the one it marks is shut; its target is not gone.
Sound(x, inserted, live, shut, gone, c) ==
    /\ x.phase = "inserting" => x.target \in Keys
    /\ x.phase = "locking" => x.target \in inserted \cup {None}
    /\ Locked(x) => \/ x.target = None /\ ForOrder(x)
                    \/ x.target \in inserted /\ ForTarget(x)
    /\ x.phase \in ClosingPhases => x.todo # {} /\ x.todo \subseteq inserted /\ x.why \in Reasons
    /\ x.phase \in {"creating", "persisting", "canceling"} => live \subseteq {x.target}
    /\ x.phase \in ClosingPhases /\ x.why \in {"others", "order"} => live \subseteq x.todo \cup {x.target}
    /\ x.phase = "marking" /\ x.why # "one" => First(c, x.todo) \in shut
    /\ Passing(x) => x.target \notin gone /\ (x.phase \in ClosingPhases => x.target \notin x.todo)

SoundNow(x) == Sound(x, Inserted, Live, Shut, superseded, created)

IInv ==
    /\ TypeOK /\ Rows /\ OneLive /\ Gone
    /\ \A q \in Requests : SoundNow(req[q]) /\ (Locked(req[q]) => lock = q)

-----------------------------------------------------------------------------
(***************************************************************************)
(* What a step of one request leaves of the others.                        *)
(***************************************************************************)

\* The types that do not change with a request.
Types ==
    /\ payable \in BOOLEAN
    /\ intent \in StoredStatuses \cup {Absent}
    /\ intentKey \in Keys \cup {None}
    /\ attempt \in [Keys -> StoredStatuses \cup {Absent}]
    /\ created \in Seq(Keys)
    /\ Len(created) = Cardinality(Inserted)
    /\ fresh \subseteq Keys
    /\ trade \in [Keys -> {"absent", "open", "closed", "paid"}]
    /\ unanswered \subseteq Keys
    /\ superseded \subseteq Keys

LEMMA TypesSplit ==
    TypeOK <=> Types /\ lock \in Requests \cup {None} /\ req \in [Requests -> RequestRecords]
  BY DEF TypeOK, Types, Inserted, RequestRecords

LEMMA TypesSplitNext ==
    TypeOK' <=> Types' /\ lock' \in Requests \cup {None} /\ req' \in [Requests -> RequestRecords]
  BY DEF TypeOK, Types, Inserted, RequestRecords

LEMMA Earliests ==
    ASSUME IInv
    PROVE  /\ \A S : Earliest(S) = First(created, S)
           /\ \A S \in SUBSET Inserted : S # {} => First(created, S) \in S /\ \E i \in 1 .. Len(created) : created[i] \in S
  <1>1. \A S : Earliest(S) = First(created, S)
    BY DEF Earliest, Places, First
  <1>2. Len(created) \in Nat
    BY DEF IInv, TypeOK
  <1>3. ASSUME NEW S \in SUBSET Inserted, S # {}
        PROVE  \E i \in 1 .. Len(created) : created[i] \in S
    BY <1>3 DEF IInv, Rows
  <1> QED
    BY <1>1, <1>2, <1>3, FirstIsMember

\* A step that brings no attempt to life and takes none back.
Calm ==
    /\ Inserted \subseteq Inserted' /\ Live' \subseteq Live
    /\ ActiveAttempts' \cap Inserted \subseteq ActiveAttempts
    /\ Shut \cap Inserted \subseteq Shut' /\ superseded' = superseded
    /\ \A S \in SUBSET Inserted : S # {} => First(created', S) = First(created, S)

LEMMA StaysSound ==
    ASSUME NEW inserted, NEW live, NEW shut, NEW gone, NEW c,
           NEW inserted2, NEW live2, NEW shut2, NEW gone2, NEW c2,
           NEW x, Sound(x, inserted, live, shut, gone, c), inserted \subseteq inserted2,
           \/ ~Locked(x)
           \/ /\ live2 \subseteq live /\ shut \cap inserted \subseteq shut2 /\ gone2 = gone
              /\ \A S \in SUBSET inserted : S # {} => First(c2, S) = First(c, S) /\ First(c, S) \in S
    PROVE  Sound(x, inserted2, live2, shut2, gone2, c2)
  <1>1. CASE ~Locked(x)
    BY <1>1 DEF Sound, Locked, Passing, LockedPhases, ClosingPhases
  <1>2. CASE Locked(x)
    <2>1. x.phase = "marking" /\ x.why # "one" => First(c2, x.todo) \in shut2
      BY <1>2 DEF Sound, ClosingPhases
    <2> QED
      BY <1>2, <2>1 DEF Sound
  <1> QED
    BY <1>1, <1>2

\* A step of one request.
LEMMA OneStep ==
    ASSUME IInv, NEW q \in Requests, NEW x \in RequestRecords, req' = [req EXCEPT ![q] = x],
           lock' \in Requests \cup {None}, Types', Rows', OneLive', Gone',
           Inserted \subseteq Inserted', Calm \/ lock = q,
           Sound(x, Inserted', Live', Shut', superseded', created'), Locked(x) => lock' = q,
           \A p \in Requests : p # q /\ lock = p => lock' = p
    PROVE  IInv'
  <1>1. TypeOK'
    <2>1. req \in [Requests -> RequestRecords]
      BY TypesSplit DEF IInv
    <2> QED
      BY <2>1, TypesSplitNext
  <1>2. ASSUME NEW p \in Requests
        PROVE  Sound(req'[p], Inserted', Live', Shut', superseded', created') /\ (Locked(req'[p]) => lock' = p)
    <2>0. req \in [Requests -> RequestRecords]
      BY TypesSplit DEF IInv
    <2>1. CASE p = q
      BY <2>0, <2>1
    <2>2. CASE p # q
      <3>1. req'[p] = req[p]
        BY <2>2
      <3>2. Sound(req[p], Inserted, Live, Shut, superseded, created) /\ (Locked(req[p]) => lock = p)
        BY DEF IInv, SoundNow
      <3>3. Sound(req[p], Inserted', Live', Shut', superseded', created')
        <4>1. CASE lock = q
          BY <4>1, <2>2, <3>2, StaysSound
        <4>2. CASE Calm
          <5>1. \A S \in SUBSET Inserted : S # {} => First(created, S) \in S
            BY Earliests
          <5> HIDE DEF Inserted, Live, Shut
          <5> QED
            BY <4>2, <3>2, <5>1, StaysSound DEF Calm
        <4> QED
          BY <4>1, <4>2
      <3> QED
        BY <2>2, <3>1, <3>2, <3>3
    <2> QED
      BY <2>1, <2>2
  <1> QED
    BY <1>1, <1>2 DEF IInv, SoundNow

\* A step of nobody: a notification, the provider, the clock.
LEMMA NobodysStep ==
    ASSUME IInv, UNCHANGED <<req, lock>>, Types', Rows', Calm
    PROVE  IInv'
  <1>1. TypeOK'
    BY TypesSplit, TypesSplitNext DEF IInv
  <1>2. ASSUME NEW p \in Requests
        PROVE  Sound(req[p], Inserted', Live', Shut', superseded', created') /\ (Locked(req[p]) => lock = p)
    <2>1. Sound(req[p], Inserted, Live, Shut, superseded, created) /\ (Locked(req[p]) => lock = p)
      BY DEF IInv, SoundNow
    <2>2. \A S \in SUBSET Inserted : S # {} => First(created, S) \in S
      BY Earliests
    <2> HIDE DEF Inserted, Live, Shut
    <2> QED
      BY <2>1, <2>2, StaysSound DEF Calm
  <1>3. OneLive' /\ Gone'
    <2>1. OneLive'
      BY DEF Calm, IInv, OneLive
    <2>2. Gone'
      <3>1. superseded \subseteq Inserted /\ superseded \cap ActiveAttempts = {} /\ superseded \subseteq Shut
        BY DEF IInv, Rows, Gone
      <3> HIDE DEF Inserted, Shut
      <3> QED
        BY <3>1 DEF Calm, Gone
    <2> QED
      BY <2>1, <2>2
  <1> QED
    BY <1>1, <1>2, <1>3 DEF IInv, SoundNow

\* A step of a request that changes its own record and the lock.
LEMMA QuietStep ==
    ASSUME IInv, UNCHANGED <<rows, provider, superseded>>,
           NEW q \in Requests, NEW x \in RequestRecords, req' = [req EXCEPT ![q] = x],
           lock' \in Requests \cup {None},
           SoundNow(x), Locked(x) => lock' = q,
           \A p \in Requests : p # q /\ lock = p => lock' = p
    PROVE  IInv'
  <1>1. UNCHANGED <<payable, intent, intentKey, attempt, created, fresh, trade, unanswered, superseded>>
    BY DEF rows, provider
  <1>2. Inserted' = Inserted /\ Live' = Live /\ Shut' = Shut /\ ActiveAttempts' = ActiveAttempts
    BY <1>1 DEF Inserted, Exists, Live, Exposed, Active, Shut, ActiveAttempts
  <1>3. Types' /\ Rows' /\ OneLive' /\ Gone'
    <2>1. Types /\ Rows /\ OneLive /\ Gone
      BY TypesSplit DEF IInv
    <2> HIDE DEF Inserted, Live, Shut, ActiveAttempts
    <2> QED
      BY <2>1, <1>1, <1>2 DEF Types, Rows, OneLive, Gone
  <1>4. Calm
    BY <1>1, <1>2 DEF Calm
  <1> QED
    BY <1>1, <1>2, <1>3, <1>4, OneStep DEF SoundNow

-----------------------------------------------------------------------------
(***************************************************************************)
(* Finding an attempt.                                                     *)
(***************************************************************************)

LEMMA IdleIsSound == Idle \in RequestRecords /\ SoundNow(Idle) /\ ~Locked(Idle) /\ Idle.phase = "idle"
  BY DEF Idle, RequestRecords, Phases, SoundNow, Sound, Locked, Passing, LockedPhases, ClosingPhases

\* A request that goes on to the lock with an attempt that exists.
ToLock(k) == [Idle EXCEPT !.phase = "locking", !.target = k]

LEMMA ToLockIsSound ==
    ASSUME NEW inserted, inserted \subseteq Keys, NEW k \in inserted \cup {None},
           NEW live, NEW shut, NEW gone, NEW c
    PROVE  ToLock(k) \in RequestRecords /\ Sound(ToLock(k), inserted, live, shut, gone, c) /\ ~Locked(ToLock(k))
  BY DEF ToLock, Idle, RequestRecords, Phases, Sound, Locked, Passing, LockedPhases, ClosingPhases

\* An idle request has no lock.
LEMMA Enriching ==
    ASSUME IInv, UNCHANGED <<rows, provider, superseded, lock>>, NEW q \in Requests, req[q] = Idle,
           NEW k \in Inserted, Enrich(q, k)
    PROVE  IInv'
  <1>1. Inserted \subseteq Keys
    BY DEF Inserted
  <1>2. req' = [req EXCEPT ![q] = ToLock(k)]
    BY DEF Enrich, ToLock
  <1>3. ToLock(k) \in RequestRecords /\ SoundNow(ToLock(k)) /\ ~Locked(ToLock(k))
    BY <1>1, ToLockIsSound DEF SoundNow
  <1>4. lock \in Requests \cup {None}
    BY DEF IInv, TypeOK
  <1> QED
    BY <1>2, <1>3, <1>4, IdleIsSound, QuietStep

\* Some members of `created`.
LEMMA Latests ==
    ASSUME IInv
    PROVE  /\ \A S \in SUBSET Inserted : S # {} => Latest(S) \in S
           /\ Inserted # {} => LatestAttempt \in Inserted
           /\ created # <<>> => Inserted # {}
  <1>1. Len(created) \in Nat /\ created \in Seq(Keys) /\ Inserted = {created[i] : i \in 1 .. Len(created)}
    BY DEF IInv, TypeOK, Rows
  <1>2. ASSUME NEW S \in SUBSET Inserted, S # {}
        PROVE  Latest(S) \in S
    <2>1. Places(S) \in SUBSET (1 .. Len(created)) /\ Places(S) # {}
      <3> HIDE DEF Inserted
      <3> QED
        BY <1>1, <1>2 DEF Places
    <2>2. Max(Places(S)) \in Places(S)
      BY <1>1, <2>1, MaxIsMember
    <2> QED
      BY <2>2 DEF Latest, Places
  <1>3. Inserted # {} => LatestAttempt \in Inserted
    <2> HIDE DEF Inserted
    <2> QED
      BY <1>1 DEF LatestAttempt
  <1>4. created # <<>> => Inserted # {}
    <2> HIDE DEF Inserted
    <2> QED
      BY <1>1
  <1> QED
    BY <1>2, <1>3, <1>4

LEMMA ReplayPaymentStep == ASSUME IInv, NEW q \in Requests, NEW k \in Keys, ReplayPayment(q, k) PROVE IInv'
  <1>1. LatestAttempt \in Inserted
    BY Latests, NoneAssumption DEF ReplayPayment, IInv, Rows
  <1> QED
    BY <1>1, Enriching DEF ReplayPayment

LEMMA ReusePaymentStep == ASSUME IInv, NEW q \in Requests, NEW k \in Keys, ReusePayment(q, k) PROVE IInv'
  <1>1. intentKey \in Inserted
    BY DEF ReusePayment, Reusable, IInv, Rows
  <1> QED
    BY <1>1, Enriching DEF ReusePayment

LEMMA RetrieveStep == ASSUME IInv, NEW q \in Requests, RetrievePaymentCheckout(q) PROVE IInv'
  <1>1. LatestAttempt \in Inserted
    BY Latests DEF RetrievePaymentCheckout
  <1> QED
    BY <1>1, Enriching DEF RetrievePaymentCheckout

\* A request that neither knows an attempt nor holds the lock.
LEMMA Outside ==
    ASSUME IInv, UNCHANGED <<rows, provider, superseded, lock>>, NEW q \in Requests, req[q] = Idle,
           NEW x \in RequestRecords, req' = [req EXCEPT ![q] = x], SoundNow(x), ~Locked(x)
    PROVE  IInv'
  <1>1. lock \in Requests \cup {None}
    BY DEF IInv, TypeOK
  <1> QED
    BY <1>1, IdleIsSound, QuietStep

LEMMA RefusedStep == ASSUME IInv, NEW q \in Requests, NEW k \in Keys, PayOwnerOrderRefused(q, k) PROVE IInv'
  <1> DEFINE x == [Idle EXCEPT !.phase = "refused"]
  <1>1. req' = [req EXCEPT ![q] = x] /\ req[q] = Idle /\ UNCHANGED <<rows, provider, superseded, lock>>
    BY DEF PayOwnerOrderRefused
  <1>2. x \in RequestRecords /\ SoundNow(x) /\ ~Locked(x)
    BY DEF Idle, RequestRecords, Phases, SoundNow, Sound, Locked, Passing, LockedPhases, ClosingPhases
  <1> HIDE DEF x
  <1> QED
    BY <1>1, <1>2, Outside

LEMMA BeginAttemptStep ==
    ASSUME IInv, NEW q \in Requests, NEW k \in Keys, BeginCreateOwnerPaymentAttempt(q, k)
    PROVE  IInv'
  <1> DEFINE usable == ActiveAttempts \cap fresh
             x == [Idle EXCEPT !.phase = "inserting", !.target = k]
  <1>1. req[q] = Idle /\ UNCHANGED <<rows, provider, superseded, lock>>
    BY DEF BeginCreateOwnerPaymentAttempt
  <1>2. CASE Exists(k) /\ Enrich(q, k)
    BY <1>1, <1>2, Enriching DEF Inserted
  <1>3. CASE usable # {} /\ Enrich(q, Latest(usable))
    <2>1. usable \in SUBSET Inserted
      BY DEF IInv, Rows
    <2>2. Latest(usable) \in Inserted
      BY <1>3, <2>1, Latests
    <2> QED
      BY <1>1, <1>3, <2>2, Enriching
  <1>4. CASE req' = [req EXCEPT ![q] = x]
    <2>1. x \in RequestRecords /\ SoundNow(x) /\ ~Locked(x)
      BY DEF Idle, RequestRecords, Phases, SoundNow, Sound, Locked, Passing, LockedPhases, ClosingPhases
    <2> HIDE DEF x
    <2> QED
      BY <1>1, <1>4, <2>1, Outside
  <1> QED
    BY <1>2, <1>3, <1>4 DEF BeginCreateOwnerPaymentAttempt

LEMMA BeginCancelStep == ASSUME IInv, NEW q \in Requests, BeginCancelOrderPayments(q) PROVE IInv'
  <1> DEFINE x == [Idle EXCEPT !.phase = "locking"]
  <1>1. req' = [req EXCEPT ![q] = x] /\ req[q] = Idle /\ UNCHANGED <<rows, provider, superseded, lock>>
    BY DEF BeginCancelOrderPayments
  <1>2. x \in RequestRecords /\ SoundNow(x) /\ ~Locked(x)
    BY DEF Idle, RequestRecords, Phases, SoundNow, Sound, Locked, Passing, LockedPhases, ClosingPhases
  <1> HIDE DEF x
  <1> QED
    BY <1>1, <1>2, Outside

LEMMA BeginCloseStep == ASSUME IInv, NEW q \in Requests, NEW k \in Keys, BeginClosePaymentRecord(q, k) PROVE IInv'
  <1> DEFINE x == [Idle EXCEPT !.phase = "closing", !.todo = {k}, !.why = "one"]
  <1>1. req' = [req EXCEPT ![q] = x] /\ req[q] = Idle /\ UNCHANGED <<rows, provider, superseded, lock>>
        /\ k \in Inserted
    BY DEF BeginClosePaymentRecord, Inserted
  <1>2. x \in RequestRecords /\ SoundNow(x) /\ ~Locked(x)
    <2>1. x.phase = "closing" /\ x.todo = {k} /\ x.why = "one"
      BY DEF Idle
    <2>2. x \in RequestRecords
      BY DEF Idle, RequestRecords, Phases, ClosingPhases, Reasons
    <2> HIDE DEF x
    <2> QED
      BY <1>1, <2>1, <2>2 DEF RequestRecords, Phases, SoundNow, Sound, Locked, Passing, LockedPhases, ClosingPhases, Reasons
  <1> HIDE DEF x
  <1> QED
    BY <1>1, <1>2, Outside

-----------------------------------------------------------------------------
(***************************************************************************)
(* Under the lock.                                                         *)
(***************************************************************************)

LEMMA Holder ==
    ASSUME IInv, NEW q \in Requests
    PROVE  /\ req[q] \in RequestRecords /\ SoundNow(req[q])
           /\ Locked(req[q]) => lock = q
           /\ lock \in Requests \cup {None} /\ None \notin Requests
           /\ req \in [Requests -> RequestRecords]
  BY TypesSplit, NoneAssumption DEF IInv

\* A step of the holder of the lock that goes on.
LEMMA GoesOn ==
    ASSUME IInv, UNCHANGED <<rows, provider, superseded, lock>>, NEW q \in Requests, Locked(req[q]),
           req[q].phase # "persisting",
           NEW x \in RequestRecords, req' = [req EXCEPT ![q] = x], SoundNow(x)
    PROVE  IInv'
  BY Holder, QuietStep

\* The record of a request that turns to some attempts.
Turned(x, attempts, why) ==
    [x EXCEPT !.todo = attempts, !.why = why, !.phase = IF attempts = {} THEN After[why] ELSE "closing"]

LEMMA TurnedFields ==
    ASSUME NEW x \in RequestRecords, NEW S \in SUBSET Keys, NEW why \in {"overdue", "others", "order"}
    PROVE  /\ Turned(x, S, why) \in RequestRecords
           /\ Turned(x, S, why).todo = S /\ Turned(x, S, why).why = why
           /\ Turned(x, S, why).target = x.target
           /\ S # {} => Turned(x, S, why).phase = "closing"
           /\ S = {} /\ why = "overdue" => Turned(x, S, why).phase = "renewing"
           /\ S = {} /\ why = "others" => Turned(x, S, why).phase = "creating"
           /\ S = {} /\ why = "order" => Turned(x, S, why).phase = "canceling"
  <1> DEFINE phase == IF S = {} THEN After[why] ELSE "closing"
  <1>1. /\ S = {} /\ why = "overdue" => phase = "renewing"
        /\ S = {} /\ why = "others" => phase = "creating"
        /\ S = {} /\ why = "order" => phase = "canceling"
        /\ S # {} => phase = "closing"
    BY DEF After
  <1>2. phase \in Phases /\ why \in Reasons
    BY <1>1 DEF Phases, LockedPhases, ClosingPhases, Reasons, After
  <1> HIDE DEF phase
  <1>3. Turned(x, S, why) = [x EXCEPT !.todo = S, !.why = why, !.phase = phase]
    BY DEF Turned, phase
  <1> QED
    BY <1>1, <1>2, <1>3 DEF RequestRecords

\* It is sound, if the attempts exist and are all that are live.
LEMMA TurnedIsSound ==
    ASSUME NEW inserted, NEW live, NEW shut, NEW gone, NEW c,
           NEW x \in RequestRecords, NEW S \in SUBSET Keys, S \subseteq inserted,
           NEW why \in {"overdue", "others", "order"},
           why = "order" => x.target = None, why # "order" => x.target \in inserted,
           why # "overdue" => live \subseteq S \cup {x.target},
           why = "others" => x.target \notin gone /\ x.target \notin S
    PROVE  Sound(Turned(x, S, why), inserted, live, shut, gone, c)
  <1> DEFINE y == Turned(x, S, why)
  <1>1. /\ y \in RequestRecords
        /\ y.todo = S /\ y.why = why
        /\ y.target = x.target
        /\ S # {} => y.phase = "closing"
        /\ S = {} /\ why = "overdue" => y.phase = "renewing"
        /\ S = {} /\ why = "others" => y.phase = "creating"
        /\ S = {} /\ why = "order" => y.phase = "canceling"
    BY TurnedFields
  <1> HIDE DEF y
  <1>2. Sound(y, inserted, live, shut, gone, c)
    <2>1. why \in Reasons
      BY DEF Reasons, After
    <2>2. CASE S # {}
      BY <1>1, <2>1, <2>2 DEF Sound, Locked, ForOrder, ForTarget, Passing, LockedPhases, ClosingPhases
    <2>3. CASE S = {}
      BY <1>1, <2>1, <2>3 DEF Sound, Locked, ForOrder, ForTarget, Passing, LockedPhases, ClosingPhases
    <2> QED
      BY <2>2, <2>3
  <1> QED
    BY <1>2 DEF y

LEMMA CloseAllStep ==
    ASSUME IInv, UNCHANGED <<rows, provider, superseded, lock>>, NEW q \in Requests, Locked(req[q]),
           req[q].phase # "persisting",
           NEW S \in SUBSET Inserted, NEW why \in {"overdue", "others", "order"}, CloseAll(q, S, why),
           why = "order" => req[q].target = None, why # "order" => req[q].target \in Inserted,
           why # "overdue" => Live \subseteq S \cup {req[q].target},
           why = "others" => req[q].target \notin superseded /\ req[q].target \notin S
    PROVE  IInv'
  <1> DEFINE y == Turned(req[q], S, why)
  <1>1. req' = [req EXCEPT ![q] = y]
    BY DEF CloseAll, Turned
  <1>2. S \in SUBSET Keys
    BY DEF Inserted
  <1>3. y \in RequestRecords /\ SoundNow(y)
    BY <1>2, Holder, TurnedFields, TurnedIsSound DEF SoundNow
  <1> HIDE DEF y
  <1> QED
    BY <1>1, <1>3, GoesOn

LEMMA AcquireStep == ASSUME IInv, NEW q \in Requests, AcquireCheckoutLock(q) PROVE IInv'
  <1> DEFINE x == [req[q] EXCEPT !.phase = IF req[q].target = None THEN "listing all" ELSE "checking"]
  <1>1. /\ req' = [req EXCEPT ![q] = x] /\ req[q].phase = "locking" /\ lock = None /\ lock' = q
        /\ UNCHANGED <<rows, provider, superseded>>
    BY DEF AcquireCheckoutLock, LockFree
  <1>2. x \in RequestRecords
    BY Holder DEF RequestRecords, Phases, LockedPhases
  <1>3. x.target = req[q].target /\ x.phase = IF req[q].target = None THEN "listing all" ELSE "checking"
    BY Holder DEF RequestRecords
  <1>4. req[q].target \in Inserted \cup {None}
    BY <1>1, Holder DEF SoundNow, Sound
  <1> HIDE DEF x
  <1>5. SoundNow(x) /\ Locked(x)
    BY <1>3, <1>4 DEF SoundNow, Sound, Locked, ForOrder, ForTarget, Passing, LockedPhases, ClosingPhases
  <1> QED
    BY <1>1, <1>2, <1>5, Holder, QuietStep

LEMMA RevalidateStep == ASSUME IInv, NEW q \in Requests, RevalidateAttempt(q) PROVE IInv'
  <1> DEFINE x == [req[q] EXCEPT !.phase = "listing overdue"]
  <1>1. /\ req' = [req EXCEPT ![q] = x] /\ req[q].phase = "checking"
        /\ UNCHANGED <<rows, provider, superseded, lock>>
    BY DEF RevalidateAttempt, At
  <1>2. x \in RequestRecords /\ x.target = req[q].target /\ x.phase = "listing overdue"
    BY Holder DEF RequestRecords, Phases, LockedPhases
  <1>3. Locked(req[q]) /\ req[q].target \in Inserted
    BY <1>1, Holder DEF SoundNow, Sound, Locked, ForOrder, LockedPhases, ClosingPhases
  <1> HIDE DEF x
  <1>4. SoundNow(x)
    BY <1>2, <1>3 DEF SoundNow, Sound, Locked, ForOrder, ForTarget, Passing, LockedPhases, ClosingPhases
  <1> QED
    BY <1>1, <1>2, <1>3, <1>4, GoesOn

LEMMA RenewStep == ASSUME IInv, NEW q \in Requests, RenewExpiry(q) PROVE IInv'
  <1> DEFINE x == [req[q] EXCEPT !.phase = "listing others"]
  <1>1. /\ req' = [req EXCEPT ![q] = x] /\ req[q].phase = "renewing" /\ Active(req[q].target)
        /\ UNCHANGED <<rows, provider, superseded, lock>>
    BY DEF RenewExpiry, At, StillOpen
  <1>2. x \in RequestRecords /\ x.target = req[q].target /\ x.phase = "listing others"
    BY Holder DEF RequestRecords, Phases, LockedPhases
  <1>3. Locked(req[q]) /\ req[q].target \in Inserted
    BY <1>1, Holder DEF SoundNow, Sound, Locked, ForOrder, LockedPhases, ClosingPhases
  <1>4. req[q].target \notin superseded
    BY <1>1, <1>3 DEF IInv, Gone, ActiveAttempts, Inserted
  <1> HIDE DEF x
  <1>5. SoundNow(x)
    BY <1>2, <1>3, <1>4 DEF SoundNow, Sound, Locked, ForOrder, ForTarget, Passing, LockedPhases, ClosingPhases
  <1> QED
    BY <1>1, <1>2, <1>3, <1>5, GoesOn

\* Active attempts exist.
LEMMA ActiveExists == ActiveAttempts \subseteq Inserted
  BY DEF ActiveAttempts, Inserted, Active, Exists, IsActive, Absent

LEMMA ListOverdueStep == ASSUME IInv, NEW q \in Requests, ListOverdueAttempts(q) PROVE IInv'
  <1>1. PICK S \in SUBSET Inserted : CloseAll(q, S, "overdue")
    BY ActiveExists DEF ListOverdueAttempts
  <1>2. req[q].phase = "listing overdue" /\ UNCHANGED <<rows, provider, superseded, lock>>
    BY DEF ListOverdueAttempts, At
  <1>3. Locked(req[q]) /\ req[q].target \in Inserted
    BY <1>2, Holder DEF SoundNow, Sound, Locked, ForOrder, LockedPhases, ClosingPhases
  <1> QED
    BY <1>1, <1>2, <1>3, CloseAllStep

LEMMA ListOthersStep == ASSUME IInv, NEW q \in Requests, ListOtherAttempts(q) PROVE IInv'
  <1>1. /\ req[q].phase = "listing others" /\ UNCHANGED <<rows, provider, superseded, lock>>
        /\ CloseAll(q, ActiveAttempts \ {req[q].target}, "others")
    BY DEF ListOtherAttempts, At, OthersOf
  <1>2. Locked(req[q]) /\ req[q].target \in Inserted /\ req[q].target \notin superseded
    BY <1>1, Holder DEF SoundNow, Sound, Locked, ForOrder, Passing, LockedPhases, ClosingPhases
  <1>3. Live \subseteq ActiveAttempts
    BY DEF Live, ActiveAttempts
  <1> QED
    BY <1>1, <1>2, <1>3, ActiveExists, CloseAllStep

LEMMA ListAllStep == ASSUME IInv, NEW q \in Requests, ListAllAttempts(q) PROVE IInv'
  <1>1. /\ req[q].phase = "listing all" /\ UNCHANGED <<rows, provider, superseded, lock>>
        /\ CloseAll(q, ActiveAttempts, "order")
    BY DEF ListAllAttempts, At
  <1>2. Locked(req[q]) /\ req[q].target = None
    BY <1>1, Holder DEF SoundNow, Sound, Locked, ForTarget, LockedPhases, ClosingPhases
  <1>3. Live \subseteq ActiveAttempts
    BY DEF Live, ActiveAttempts
  <1> QED
    BY <1>1, <1>2, <1>3, ActiveExists, CloseAllStep

-----------------------------------------------------------------------------
(***************************************************************************)
(* The end of a request, and the calls it makes.                           *)
(***************************************************************************)

\* A request that ends lets the lock go.
LEMMA Ends ==
    ASSUME IInv, NEW q \in Requests, Over(q), Types', Rows', OneLive', Gone',
           Inserted \subseteq Inserted', Calm \/ lock = q
    PROVE  IInv'
  <1>1. Idle \in RequestRecords /\ ~Locked(Idle)
    BY IdleIsSound
  <1>2. Sound(Idle, Inserted', Live', Shut', superseded', created')
    BY DEF Idle, Sound, Locked, Passing, LockedPhases, ClosingPhases
  <1>3. req' = [req EXCEPT ![q] = Idle] /\ lock' = IF lock = q THEN None ELSE lock
    BY DEF Over
  <1>4. lock' \in Requests \cup {None} /\ \A p \in Requests : p # q /\ lock = p => lock' = p
    BY <1>3, Holder
  <1> HIDE DEF Inserted, Live, Shut, Calm, Types, Rows, OneLive, Gone, IInv
  <1> QED
    BY <1>1, <1>2, <1>3, <1>4, OneStep

\* What does not change with the rows.
LEMMA SameRows ==
    ASSUME IInv, UNCHANGED <<rows, superseded>>
    PROVE  /\ UNCHANGED <<payable, intent, intentKey, attempt, created, fresh, superseded>>
           /\ Inserted' = Inserted /\ ActiveAttempts' = ActiveAttempts
           /\ unanswered' \subseteq Inserted /\ trade' \in [Keys -> {"absent", "open", "closed", "paid"}] => Types'
           /\ unanswered' \subseteq Inserted /\ (\A k \in Keys \ Inserted : trade'[k] = "absent") => Rows'
           /\ Live' \subseteq Live /\ Shut \subseteq Shut' => Calm
           /\ superseded \subseteq Shut' => Gone'
  <1>1. UNCHANGED <<payable, intent, intentKey, attempt, created, fresh, superseded>>
    BY DEF rows
  <1>2. Inserted' = Inserted /\ ActiveAttempts' = ActiveAttempts /\ Inserted \subseteq Keys
    BY <1>1 DEF Inserted, Exists, Active, ActiveAttempts
  <1>3. Types /\ Rows /\ Gone
    BY TypesSplit DEF IInv
  <1> HIDE DEF Inserted, Live, Shut, ActiveAttempts
  <1>4. ASSUME unanswered' \subseteq Inserted, trade' \in [Keys -> {"absent", "open", "closed", "paid"}]
        PROVE  Types'
    BY <1>1, <1>2, <1>3, <1>4 DEF Types
  <1>5. ASSUME unanswered' \subseteq Inserted, \A k \in Keys \ Inserted : trade'[k] = "absent"
        PROVE  Rows'
    BY <1>1, <1>2, <1>3, <1>5 DEF Rows
  <1>6. Live' \subseteq Live /\ Shut \subseteq Shut' => Calm
    BY <1>1, <1>2 DEF Calm
  <1>7. superseded \subseteq Shut' => Gone'
    BY <1>1, <1>2, <1>3 DEF Gone
  <1> QED
    BY <1>1, <1>2, <1>4, <1>5, <1>6, <1>7

LEMMA RequestFailsStep == ASSUME IInv, NEW q \in Requests, RequestFails(q) PROVE IInv'
  <1>1. UNCHANGED <<rows, provider, superseded>>
    BY DEF RequestFails
  <1>2. req' = [req EXCEPT ![q] = Idle] /\ lock' = IF lock = q THEN None ELSE lock
    BY DEF RequestFails, Over
  <1> QED
    BY <1>1, <1>2, IdleIsSound, Holder, QuietStep

\* The attempt a loop has reached is one of those it goes through.
LEMMA NextIsOneOfThem ==
    ASSUME IInv, NEW q \in Requests, req[q].phase \in ClosingPhases
    PROVE  /\ NextOf(q) = First(created, req[q].todo) /\ NextOf(q) \in req[q].todo
           /\ req[q].todo \subseteq Inserted /\ req[q].why \in Reasons
           /\ NextOf(q) \in Inserted /\ NextOf(q) \in Keys /\ Inserted \subseteq Keys
  <1>1. req[q].todo # {} /\ req[q].todo \subseteq Inserted /\ req[q].why \in Reasons
    BY Holder DEF SoundNow, Sound
  <1>2. Inserted \subseteq Keys
    BY DEF Inserted
  <1> HIDE DEF Inserted
  <1> QED
    BY <1>1, <1>2, Earliests DEF NextOf

\* A cancel call closes an open trade, or changes nothing.
LEMMA Canceled ==
    ASSUME IInv, NEW q \in Requests, CancelProviderTrade(q)
    PROVE  /\ Types' /\ Rows' /\ OneLive' /\ Gone' /\ Inserted' = Inserted /\ Calm
           /\ \A j \in Keys : trade'[j] # "absent" => trade[j] # "absent"
           /\ trade'[NextOf(q)] # trade[NextOf(q)] => trade'[NextOf(q)] = "closed"
           /\ Addressed(NextOf(q)) = "open" => trade'[NextOf(q)] = "closed"
  <1> DEFINE k == NextOf(q)
  <1>1. k \in Inserted /\ k \in Keys
    BY NextIsOneOfThem DEF CancelProviderTrade, At, ClosingPhases
  <1>2. UNCHANGED <<rows, unanswered, superseded>>
        /\ trade' = IF Addressed(k) = "open" THEN [trade EXCEPT ![k] = "closed"] ELSE trade
    BY DEF CancelProviderTrade
  <1>3. trade \in [Keys -> {"absent", "open", "closed", "paid"}] /\ unanswered \subseteq Inserted
        /\ (\A j \in Keys \ Inserted : trade[j] = "absent") /\ superseded \subseteq Shut /\ OneLive
    BY DEF IInv, Rows, Gone, TypeOK
  <1>4. Addressed(k) = "open" => trade[k] = "open"
    BY DEF Addressed
  <1> HIDE DEF k
  <1>5. \A j \in Keys : trade'[j] = trade[j] \/ (j = k /\ trade[j] = "open" /\ trade'[j] = "closed")
    BY <1>1, <1>2, <1>3, <1>4
  <1>6. trade' \in [Keys -> {"absent", "open", "closed", "paid"}]
    BY <1>1, <1>2, <1>3
  <1>7. attempt' = attempt /\ unanswered' = unanswered
    BY <1>2, SameRows
  <1>8. Live' \subseteq Live /\ Shut \subseteq Shut'
    BY <1>5, <1>7 DEF Live, Shut, Active, Exposed
  <1>9. \A j \in Keys \ Inserted : trade'[j] = "absent"
    <2> HIDE DEF Inserted
    <2> QED
      BY <1>1, <1>3, <1>5
  <1>10. OneLive'
    BY <1>3, <1>8 DEF OneLive
  <1>11. Addressed(k) = "open" => trade'[k] = "closed"
    BY <1>1, <1>2, <1>3
  <1>12. (\A j \in Keys : trade'[j] # "absent" => trade[j] # "absent") /\ (trade'[k] # trade[k] => trade'[k] = "closed")
    BY <1>1, <1>5
  <1>13. Types' /\ Rows' /\ Gone' /\ Inserted' = Inserted /\ Calm
    <2> HIDE DEF Inserted, Live, Shut
    <2> QED
      BY <1>2, <1>3, <1>6, <1>7, <1>8, <1>9, SameRows
  <1> QED
    BY <1>10, <1>11, <1>12, <1>13 DEF k

LEMMA CancelTradeStep == ASSUME IInv, NEW q \in Requests, CancelProviderTrade(q) PROVE IInv'
  <1> DEFINE k == NextOf(q)
             x == [req[q] EXCEPT !.phase = "marking"]
  <1>1. req[q].phase = "closing" /\ UNCHANGED <<rows, unanswered, superseded>>
    BY DEF CancelProviderTrade, At
  <1>2. Types' /\ Rows' /\ OneLive' /\ Gone' /\ Inserted' = Inserted /\ Calm
    BY Canceled
  <1>3. CASE Over(q)
    <2> HIDE DEF Inserted, Calm, Types, Rows, OneLive, Gone
    <2> QED
      BY <1>2, <1>3, Ends
  <1>4. CASE CancelSucceeds(Addressed(k)) /\ req' = [req EXCEPT ![q] = x] /\ lock' = lock
    <2>1. /\ k = First(created, req[q].todo) /\ k \in Keys
          /\ req[q].todo # {} /\ req[q].todo \subseteq Inserted /\ req[q].why \in Reasons
      BY <1>1, NextIsOneOfThem DEF ClosingPhases
    <2>2. k \in Shut'
      <3>1. trade \in [Keys -> {"absent", "open", "closed", "paid"}]
        BY DEF IInv, TypeOK
      <3>2. trade'[k] # trade[k] => trade'[k] = "closed"
        BY Canceled
      <3>3. Addressed(k) = "open" => trade'[k] = "closed"
        BY Canceled
      <3> HIDE DEF k
      <3>4. k \notin NativeKeyed => trade'[k] \in {"absent", "closed"}
        BY <1>4, <2>1, <3>1, <3>2, <3>3 DEF Addressed, CancelSucceeds
      <3> QED
        BY <2>1, <3>4 DEF Shut
    <2>3. x \in RequestRecords /\ x.phase = "marking" /\ x.target = req[q].target /\ x.todo = req[q].todo /\ x.why = req[q].why
      BY Holder DEF RequestRecords, Phases, ClosingPhases
    <2>4. created' = created /\ superseded' = superseded
      BY <1>1, SameRows
    <2>5. Sound(req[q], Inserted, Live, Shut, superseded, created)
      BY Holder DEF SoundNow
    <2>6. Live' \subseteq Live
      BY <1>2 DEF Calm
    <2>7. Locked(x) => lock = q
      BY <1>1, <2>3, Holder DEF Locked, ClosingPhases, LockedPhases
    <2> HIDE DEF x, k, Live, Shut, Inserted
    <2>8. Sound(x, Inserted', Live', Shut', superseded', created')
      BY <1>1, <1>2, <2>1, <2>2, <2>3, <2>4, <2>5, <2>6
         DEF Sound, Locked, ForOrder, ForTarget, Passing, LockedPhases, ClosingPhases
    <2>9. lock' \in Requests \cup {None} /\ \A p \in Requests : p # q /\ lock = p => lock' = p
      BY <1>4, Holder
    <2> HIDE DEF Calm, Types, Rows, OneLive, Gone, IInv
    <2> QED
      BY <1>2, <1>4, <2>3, <2>7, <2>8, <2>9, OneStep
  <1> QED
    BY <1>3, <1>4 DEF CancelProviderTrade

-----------------------------------------------------------------------------
(***************************************************************************)
(* Attempts that end.                                                      *)
(***************************************************************************)

\* A step that ends some attempts and leaves their trades alone.
Ending ==
    /\ UNCHANGED <<payable, intentKey, created, fresh, provider>>
    /\ intent' \in StoredStatuses \cup {Absent}
    /\ attempt' \in [Keys -> StoredStatuses \cup {Absent}]
    /\ \A j \in Keys : \/ attempt'[j] = attempt[j]
                       \/ Exists(j) /\ attempt'[j] \in {"succeeded", "failed", "canceled"}

LEMMA Ended ==
    ASSUME IInv, Ending
    PROVE  /\ Inserted' = Inserted /\ ActiveAttempts' \subseteq ActiveAttempts
           /\ Live' = Live \cap ActiveAttempts' /\ Shut' = Shut /\ OneLive'
           /\ superseded' \subseteq Inserted => Types' /\ Rows'
           /\ superseded' = superseded => Gone' /\ Calm
  <1>1. UNCHANGED <<payable, intentKey, created, fresh, trade, unanswered>>
    BY DEF Ending, provider
  <1>2. Inserted' = Inserted /\ ActiveAttempts' \subseteq ActiveAttempts
    BY DEF Ending, Inserted, Exists, ActiveAttempts, Active, IsActive, Absent
  <1>3. Live' = Live \cap ActiveAttempts' /\ Shut' = Shut
    <2>1. Shut' = Shut
      BY <1>1 DEF Shut
    <2>2. \A k \in Keys : Exposed(k)' <=> Exposed(k)
      BY <1>1 DEF Exposed
    <2>3. \A k \in Keys : k \in Live' <=> k \in ActiveAttempts' /\ Exposed(k)
      BY <2>2 DEF Live, ActiveAttempts
    <2>4. \A k \in Keys : k \in Live <=> k \in ActiveAttempts /\ Exposed(k)
      BY DEF Live, ActiveAttempts
    <2>5. Live \subseteq Keys /\ Live' \subseteq Keys
      BY DEF Live
    <2> HIDE DEF Live, ActiveAttempts, Exposed
    <2> QED
      BY <1>2, <2>1, <2>3, <2>4, <2>5
  <1>4. Types /\ Rows /\ Gone /\ OneLive
    BY TypesSplit DEF IInv
  <1>5. Inserted \subseteq Keys
    BY DEF Inserted
  <1>6. intent' \in StoredStatuses \cup {Absent} /\ attempt' \in [Keys -> StoredStatuses \cup {Absent}]
    BY DEF Ending
  <1> HIDE DEF Inserted, Live, Shut, ActiveAttempts
  <1>7. superseded' \subseteq Inserted => Types' /\ Rows'
    <2> SUFFICES ASSUME superseded' \subseteq Inserted PROVE Types' /\ Rows'
      OBVIOUS
    <2>1. Types'
      BY <1>1, <1>2, <1>4, <1>5, <1>6 DEF Types
    <2>2. Rows'
      BY <1>1, <1>2, <1>4 DEF Rows
    <2> QED
      BY <2>1, <2>2
  <1>8. superseded' = superseded => Gone' /\ Calm
    BY <1>1, <1>2, <1>3, <1>4 DEF Gone, Calm
  <1>9. OneLive'
    BY <1>3, <1>4 DEF OneLive
  <1> QED
    BY <1>2, <1>3, <1>7, <1>8, <1>9

LEMMA MarkStep == ASSUME IInv, NEW q \in Requests, MarkAttemptCanceled(q) PROVE IInv'
  <1> DEFINE k == NextOf(q)
             S == req[q].todo \ {k}
             why == req[q].why
             y == Turned(req[q], S, why)
  <1>1. req[q].phase = "marking" /\ req[q].why # "one"
    BY DEF MarkAttemptCanceled, At
  <1>2. /\ k = First(created, req[q].todo) /\ k \in req[q].todo /\ req[q].todo \subseteq Inserted
        /\ k \in Inserted /\ k \in Keys /\ why \in {"overdue", "others", "order"} /\ Inserted \subseteq Keys
    <2>1. req[q].phase \in ClosingPhases
      BY <1>1 DEF ClosingPhases
    <2>2. why \in {"overdue", "others", "order"}
      BY <1>1, <2>1, NextIsOneOfThem DEF Reasons, After
    <2> QED
      BY <2>1, <2>2, NextIsOneOfThem
  <1>3. Locked(req[q]) /\ lock = q /\ Sound(req[q], Inserted, Live, Shut, superseded, created) /\ req[q] \in RequestRecords
    BY <1>1, Holder DEF Locked, ClosingPhases, SoundNow
  <1>4. /\ attempt' = [attempt EXCEPT ![k] = IF IsActive(@) THEN "canceled" ELSE @]
        /\ intent' = IF IsActive(intent) /\ \A j \in Keys \ {k} : ~Active(j) THEN "canceled" ELSE intent
        /\ superseded' = superseded \cup {k} /\ req' = [req EXCEPT ![q] = y]
        /\ UNCHANGED <<payable, intentKey, created, fresh, provider, lock>>
    BY DEF MarkAttemptCanceled, CloseAll, Turned
  <1>5. intent \in StoredStatuses \cup {Absent} /\ attempt \in [Keys -> StoredStatuses \cup {Absent}]
    BY DEF IInv, TypeOK
  <1>6. "canceled" \in StoredStatuses
    BY DEF StoredStatuses, WireStatuses
  <1>7. Ending
    <2>1. attempt' \in [Keys -> StoredStatuses \cup {Absent}] /\ intent' \in StoredStatuses \cup {Absent}
      BY <1>2, <1>4, <1>5, <1>6
    <2>2. \A j \in Keys : attempt'[j] = attempt[j] \/ (Exists(j) /\ attempt'[j] = "canceled")
      BY <1>2, <1>4, <1>5 DEF Inserted
    <2> QED
      BY <1>4, <2>1, <2>2 DEF Ending
  <1>8. k \notin ActiveAttempts'
    BY <1>2, <1>4, <1>5 DEF ActiveAttempts, Active, IsActive
  <1>9. superseded \subseteq Inserted /\ superseded \cap ActiveAttempts = {} /\ superseded \subseteq Shut
    BY DEF IInv, Rows, Gone
  <1>10. k \in Shut
    BY <1>1, <1>2, <1>3 DEF Sound
  <1> HIDE DEF k, Ending
  <1>11. /\ Inserted' = Inserted /\ ActiveAttempts' \subseteq ActiveAttempts
         /\ Live' = Live \cap ActiveAttempts' /\ Shut' = Shut /\ OneLive'
         /\ superseded' \subseteq Inserted => Types' /\ Rows'
    BY <1>7, Ended
  <1> HIDE DEF Inserted, Live, Shut, ActiveAttempts
  <1>12. Types' /\ Rows' /\ Gone'
    BY <1>2, <1>4, <1>8, <1>9, <1>10, <1>11 DEF Gone
  <1>13. S \in SUBSET Keys /\ S \subseteq Inserted'
    BY <1>2, <1>11
  <1>14. /\ why = "order" => req[q].target = None
         /\ why # "order" => req[q].target \in Inserted'
         /\ why # "overdue" => Live' \subseteq S \cup {req[q].target}
         /\ why = "others" => req[q].target \notin superseded' /\ req[q].target \notin S
    BY <1>1, <1>2, <1>3, <1>4, <1>8, <1>11
       DEF Sound, ForOrder, ForTarget, Passing, LockedPhases, ClosingPhases
  <1> HIDE DEF S
  <1>15. y \in RequestRecords
    BY <1>2, <1>3, <1>13, TurnedFields
  <1>16. Sound(y, Inserted', Live', Shut', superseded', created')
    <2> HIDE DEF why
    <2> QED
      BY <1>2, <1>3, <1>13, <1>14, TurnedIsSound
  <1>17. lock' = q /\ lock' \in Requests \cup {None}
    BY <1>3, <1>4
  <1> HIDE DEF y, why, Types, Rows, OneLive, Gone, IInv, Calm
  <1> QED
    BY <1>3, <1>4, <1>11, <1>12, <1>15, <1>16, <1>17, OneStep

LEMMA CancelOrderStep == ASSUME IInv, NEW q \in Requests, CancelOrderPayments(q) PROVE IInv'
  <1>1. req[q].phase = "canceling" /\ lock = q
    BY Holder DEF CancelOrderPayments, At, Locked, LockedPhases
  <1>2. /\ attempt' = [j \in Keys |-> IF Active(j) THEN "canceled" ELSE attempt[j]]
        /\ intent' = IF IsActive(intent) THEN "canceled" ELSE intent
        /\ superseded' = superseded \cup ActiveAttempts /\ Over(q)
        /\ UNCHANGED <<payable, intentKey, created, fresh, provider>>
    BY DEF CancelOrderPayments, ActiveAttempts
  <1>3. intent \in StoredStatuses \cup {Absent} /\ attempt \in [Keys -> StoredStatuses \cup {Absent}]
        /\ trade \in [Keys -> {"absent", "open", "closed", "paid"}]
    BY DEF IInv, TypeOK
  <1>4. "canceled" \in StoredStatuses
    BY DEF StoredStatuses, WireStatuses
  <1>5. Ending /\ ActiveAttempts' = {}
    <2>1. attempt' \in [Keys -> StoredStatuses \cup {Absent}] /\ intent' \in StoredStatuses \cup {Absent}
      BY <1>2, <1>3, <1>4
    <2>2. \A j \in Keys : attempt'[j] = attempt[j] \/ (Exists(j) /\ attempt'[j] = "canceled")
      BY <1>2 DEF Exists, Active, IsActive, Absent
    <2>3. ActiveAttempts' = {}
      BY <1>2 DEF ActiveAttempts, Active, IsActive
    <2> QED
      BY <1>2, <2>1, <2>2, <2>3 DEF Ending
  <1>6. Live = {}
    <2>1. Live \subseteq {req[q].target} /\ req[q].target = None
      BY <1>1, Holder DEF SoundNow, Sound, Locked, ForTarget, LockedPhases, ClosingPhases
    <2>2. Live \subseteq Keys
      BY DEF Live
    <2> QED
      BY <2>1, <2>2, NoneAssumption
  <1>7. ActiveAttempts \subseteq Shut
    BY <1>3, <1>6 DEF ActiveAttempts, Live, Exposed, Shut
  <1>8. superseded \subseteq Inserted /\ superseded \subseteq Shut
    BY DEF IInv, Rows, Gone
  <1> HIDE DEF Ending
  <1>9. Inserted' = Inserted /\ Shut' = Shut /\ OneLive' /\ (superseded' \subseteq Inserted => Types' /\ Rows')
    BY <1>5, Ended
  <1>10. ActiveAttempts \subseteq Inserted
    BY ActiveExists
  <1> HIDE DEF Inserted, Live, Shut, ActiveAttempts
  <1>11. Types' /\ Rows' /\ Gone'
    BY <1>2, <1>5, <1>7, <1>8, <1>9, <1>10 DEF Gone
  <1> HIDE DEF Types, Rows, OneLive, Gone, IInv, Calm
  <1> QED
    BY <1>1, <1>2, <1>9, <1>11, Ends

LEMMA CloseAttemptStep == ASSUME IInv, NEW q \in Requests, ClosePaymentAttempt(q) PROVE IInv'
  <1> DEFINE k == NextOf(q)
  <1>1. /\ req[q].phase = "marking" /\ Active(k) /\ attempt' = [attempt EXCEPT ![k] = "canceled"]
        /\ intent' = IF IsActive(intent) THEN "canceled" ELSE intent
        /\ Over(q) /\ UNCHANGED <<payable, intentKey, created, fresh, provider, superseded>>
    BY DEF ClosePaymentAttempt, At
  <1>2. intent \in StoredStatuses \cup {Absent} /\ attempt \in [Keys -> StoredStatuses \cup {Absent}]
    BY DEF IInv, TypeOK
  <1>3. "canceled" \in StoredStatuses
    BY DEF StoredStatuses, WireStatuses
  <1>4. Ending
    <2>1. attempt' \in [Keys -> StoredStatuses \cup {Absent}] /\ intent' \in StoredStatuses \cup {Absent}
      BY <1>1, <1>2, <1>3
    <2>2. \A j \in Keys : attempt'[j] = attempt[j] \/ (Exists(j) /\ attempt'[j] = "canceled")
      BY <1>1, <1>2 DEF Exists, Active, IsActive, Absent
    <2> QED
      BY <1>1, <2>1, <2>2 DEF Ending
  <1>5. superseded' \subseteq Inserted
    BY <1>1 DEF IInv, Rows
  <1> HIDE DEF Ending
  <1>6. Inserted' = Inserted /\ OneLive' /\ Types' /\ Rows' /\ Gone' /\ Calm
    BY <1>1, <1>4, <1>5, Ended
  <1> HIDE DEF Inserted, Types, Rows, OneLive, Gone, IInv, Calm
  <1> QED
    BY <1>1, <1>6, Ends

LEMMA CreateStep == ASSUME IInv, NEW q \in Requests, CreateTrade(q) PROVE IInv'
  <1> DEFINE k == req[q].target
             opened == IF trade[k] = "absent" THEN [trade EXCEPT ![k] = "open"] ELSE trade
             x == [req[q] EXCEPT !.phase = "persisting"]
  <1>1. req[q].phase = "creating" /\ UNCHANGED <<rows, superseded>>
    BY DEF CreateTrade, At
  <1>2. lock = q /\ Locked(req[q]) /\ k \in Inserted /\ Live \subseteq {k} /\ k \notin superseded /\ Inserted \subseteq Keys
    BY <1>1, Holder DEF SoundNow, Sound, Locked, ForOrder, Passing, LockedPhases, ClosingPhases, Inserted
  <1>3. /\ trade \in [Keys -> {"absent", "open", "closed", "paid"}] /\ unanswered \subseteq Inserted
        /\ \A j \in Keys \ Inserted : trade[j] = "absent"
        /\ superseded \subseteq Shut /\ superseded \subseteq Inserted
    BY DEF IInv, TypeOK, Rows, Gone
  <1>4. trade' \in {opened, trade} /\ unanswered' \in {unanswered \ {k}, unanswered \cup {k}}
    BY DEF CreateTrade
  <1>5. UNCHANGED attempt
    BY <1>1, SameRows
  <1> HIDE DEF k
  <1>6. \A j \in Keys : j # k => trade'[j] = trade[j]
    BY <1>2, <1>3, <1>4
  <1> HIDE DEF Inserted
  <1>7. trade' \in [Keys -> {"absent", "open", "closed", "paid"}] /\ (\A j \in Keys \ Inserted : trade'[j] = "absent")
        /\ unanswered' \subseteq Inserted
    <2>1. trade' \in [Keys -> {"absent", "open", "closed", "paid"}]
      BY <1>2, <1>3, <1>4
    <2>2. \A j \in Keys \ Inserted : trade'[j] = "absent"
      BY <1>2, <1>3, <1>6
    <2> QED
      BY <1>2, <1>3, <1>4, <2>1, <2>2
  <1>8. Live' \subseteq {k}
    <2> SUFFICES ASSUME NEW j \in Keys, j # k, Active(j)', Exposed(j)' PROVE j \in Live
      BY <1>2 DEF Live
    <2> QED
      BY <1>4, <1>5, <1>6 DEF Live, Active, Exposed
  <1>9. superseded \subseteq Shut'
    <2> SUFFICES ASSUME NEW j \in superseded PROVE j \in Shut'
      OBVIOUS
    <2>1. j \in Shut /\ j # k /\ j \in Keys
      BY <1>2, <1>3
    <2> QED
      BY <1>4, <1>6, <2>1 DEF Shut
  <1>10. OneLive'
    BY <1>8 DEF OneLive
  <1>11. Inserted' = Inserted /\ Types' /\ Rows' /\ Gone'
    <2> HIDE DEF Shut, opened
    <2> QED
      BY <1>1, <1>7, <1>9, SameRows
  <1>12. CASE Over(q)
    <2> HIDE DEF Live, Shut, Types, Rows, OneLive, Gone, IInv, Calm
    <2> QED
      BY <1>2, <1>10, <1>11, <1>12, Ends
  <1>13. CASE req' = [req EXCEPT ![q] = x] /\ lock' = lock
    <2>1. x \in RequestRecords /\ x.phase = "persisting" /\ x.target = k
      BY Holder DEF RequestRecords, Phases, LockedPhases, k
    <2> HIDE DEF x
    <2>2. superseded' = superseded
      BY <1>1
    <2> HIDE DEF Live, Shut, Types, Rows, OneLive, Gone, IInv, Calm
    <2>3. Sound(x, Inserted', Live', Shut', superseded', created')
      BY <1>2, <1>8, <1>11, <2>1, <2>2 DEF Sound, Locked, ForTarget, Passing, LockedPhases, ClosingPhases
    <2>4. lock' = q /\ lock' \in Requests \cup {None}
      BY <1>2, <1>13
    <2> QED
      BY <1>2, <1>10, <1>11, <1>13, <2>1, <2>3, <2>4, OneStep
  <1> QED
    BY <1>12, <1>13 DEF CreateTrade, k

LEMMA PersistStep == ASSUME IInv, NEW q \in Requests, PersistEnrichment(q) PROVE IInv'
  <1>1. UNCHANGED <<rows, provider, superseded>>
    BY DEF PersistEnrichment
  <1>2. req' = [req EXCEPT ![q] = Idle] /\ lock' = IF lock = q THEN None ELSE lock
    BY DEF PersistEnrichment, Over
  <1> QED
    BY <1>1, <1>2, IdleIsSound, Holder, QuietStep

-----------------------------------------------------------------------------
(***************************************************************************)
(* Attempts that begin.                                                    *)
(***************************************************************************)

\* A new attempt has no trade, is nobody's, and comes last.
LEMMA InsertStep ==
    ASSUME IInv, NEW q \in Requests, NEW k \in Keys, ~Exists(k), InsertAttempt(k), Enrich(q, k),
           intent' \in StoredStatuses \cup {Absent}, intentKey' \in {intentKey, k},
           ~Locked(req[q]), UNCHANGED <<payable, provider, superseded, lock>>
    PROVE  IInv'
  <1>1. /\ attempt' = [attempt EXCEPT ![k] = "pending"] /\ created' = Append(created, k) /\ fresh' = fresh \cup {k}
        /\ UNCHANGED <<payable, trade, unanswered, superseded, lock>>
    BY DEF InsertAttempt, provider
  <1>2. Types /\ Rows /\ OneLive /\ Gone
    BY TypesSplit DEF IInv
  <1>3. attempt \in [Keys -> StoredStatuses \cup {Absent}] /\ created \in Seq(Keys) /\ Len(created) = Cardinality(Inserted)
    BY <1>2 DEF Types
  <1>4. "pending" \in StoredStatuses
    BY DEF StoredStatuses, WireStatuses
  <1>5. Inserted' = Inserted \cup {k} /\ k \notin Inserted /\ Inserted \subseteq Keys
    BY <1>1, <1>3 DEF Inserted, Exists, Absent
  <1>6. ActiveAttempts' = ActiveAttempts \cup {k} /\ Shut' = Shut
    BY <1>1, <1>3 DEF ActiveAttempts, Active, IsActive, Shut
  <1>7. trade[k] = "absent" /\ k \notin unanswered /\ k \notin superseded
    BY <1>2, <1>5 DEF Rows
  <1>8. Live' = Live
    <2>1. \A j \in Keys : Exposed(j)' <=> Exposed(j)
      BY <1>1 DEF Exposed
    <2>2. \A j \in Keys : j # k => (Active(j)' <=> Active(j))
      BY <1>1, <1>3 DEF Active
    <2>3. ~Exposed(k)
      BY <1>7 DEF Exposed
    <2> HIDE DEF Exposed, Active
    <2> QED
      BY <2>1, <2>2, <2>3 DEF Live
  <1>9. \A S \in SUBSET Inserted : S # {} => First(created', S) = First(created, S)
    <2> SUFFICES ASSUME NEW S \in SUBSET Inserted, S # {} PROVE First(created', S) = First(created, S)
      OBVIOUS
    <2>1. \E i \in 1 .. Len(created) : created[i] \in S
      BY Earliests
    <2> QED
      BY <1>1, <1>3, <1>5, <2>1, FirstStays
  <1>10. Types'
    <2>1. attempt' \in [Keys -> StoredStatuses \cup {Absent}] /\ created' \in Seq(Keys)
      BY <1>1, <1>3, <1>4
    <2>2. Len(created') = Cardinality(Inserted')
      <3>1. IsFiniteSet(Inserted)
        BY <1>2 DEF Rows
      <3>2. Cardinality(Inserted \cup {k}) = Cardinality(Inserted) + 1
        BY <1>5, <3>1, FS_AddElement
      <3> HIDE DEF Inserted
      <3> QED
        BY <1>1, <1>3, <1>5, <3>2
    <2>3. intentKey' \in Keys \cup {None} /\ fresh' \subseteq Keys
      BY <1>1, <1>2 DEF Types
    <2> HIDE DEF Inserted
    <2> QED
      BY <1>1, <1>2, <2>1, <2>2, <2>3 DEF Types
  <1>11. Rows'
    <2> HIDE DEF Inserted
    <2>1. IsFiniteSet(Inserted')
      BY <1>2, <1>5, FS_AddElement DEF Rows
    <2>2. Inserted' = {created'[i] : i \in 1 .. Len(created')}
      <3>1. Len(created') = Len(created) + 1 /\ created'[Len(created) + 1] = k /\ \A i \in 1 .. Len(created) : created'[i] = created[i]
        BY <1>1, <1>3
      <3>2. Len(created) \in Nat
        BY <1>3
      <3>3. 1 .. Len(created') = (1 .. Len(created)) \cup {Len(created) + 1}
        BY <3>1, <3>2
      <3>4. Inserted = {created[i] : i \in 1 .. Len(created)}
        BY <1>2 DEF Rows
      <3>5. {created'[i] : i \in 1 .. Len(created')} = {created[i] : i \in 1 .. Len(created)} \cup {k}
        BY <3>1, <3>3
      <3> QED
        BY <1>5, <3>4, <3>5
    <2> QED
      BY <1>1, <1>2, <1>5, <2>1, <2>2 DEF Rows
  <1>12. OneLive' /\ Gone' /\ Calm
    <2> HIDE DEF Inserted, Live, Shut, ActiveAttempts
    <2>1. OneLive'
      BY <1>2, <1>8 DEF OneLive
    <2>2. Gone'
      BY <1>1, <1>2, <1>6, <1>7 DEF Gone
    <2>3. Calm
      BY <1>1, <1>5, <1>6, <1>8, <1>9 DEF Calm
    <2> QED
      BY <2>1, <2>2, <2>3
  <1>13. req' = [req EXCEPT ![q] = ToLock(k)] /\ ToLock(k) \in RequestRecords /\ ~Locked(ToLock(k))
         /\ Sound(ToLock(k), Inserted', Live', Shut', superseded', created')
    <2>1. Inserted' \subseteq Keys /\ k \in Inserted' \cup {None}
      BY <1>5
    <2> HIDE DEF Inserted, Live, Shut
    <2> QED
      BY <2>1, ToLockIsSound DEF Enrich, ToLock
  <1>14. lock' \in Requests \cup {None} /\ lock' = lock
    BY <1>1, Holder
  <1> HIDE DEF Live, Shut, Inserted, Types, Rows, OneLive, Gone, IInv, Calm
  <1> QED
    BY <1>5, <1>10, <1>11, <1>12, <1>13, <1>14, OneStep

LEMMA PayStep == ASSUME IInv, NEW q \in Requests, NEW k \in Keys, PayOwnerOrder(q, k) PROVE IInv'
  <1>1. intent' \in StoredStatuses \cup {Absent}
    BY DEF PayOwnerOrder, StoredStatuses, WireStatuses
  <1>2. ~Locked(req[q])
    BY IdleIsSound DEF PayOwnerOrder
  <1> QED
    BY <1>1, <1>2, InsertStep DEF PayOwnerOrder

LEMMA CreateAttemptStep == ASSUME IInv, NEW q \in Requests, CreateOwnerPaymentAttempt(q) PROVE IInv'
  <1> DEFINE k == req[q].target
  <1>1. req[q].phase = "inserting" /\ Enrich(q, k) /\ UNCHANGED <<payable, intentKey, provider, superseded, lock>>
    BY DEF CreateOwnerPaymentAttempt
  <1>2. k \in Keys /\ ~Locked(req[q])
    BY <1>1, Holder DEF SoundNow, Sound, Locked, LockedPhases, ClosingPhases
  <1>3. CASE InsertAttempt(k) /\ ~Exists(k) /\ intent' = IF IsActive(intent) THEN "pending" ELSE intent
    <2>1. intent' \in StoredStatuses \cup {Absent}
      BY <1>3 DEF IInv, TypeOK, StoredStatuses, WireStatuses
    <2> QED
      BY <1>1, <1>2, <1>3, <2>1, InsertStep
  <1>4. CASE Exists(k) /\ UNCHANGED <<attempt, created, fresh, intent>>
    <2>1. UNCHANGED <<rows, provider, superseded, lock>> /\ k \in Inserted
      BY <1>1, <1>2, <1>4 DEF rows, Inserted
    <2>2. req' = [req EXCEPT ![q] = ToLock(k)]
      BY <1>1 DEF Enrich, ToLock
    <2>3. ToLock(k) \in RequestRecords /\ SoundNow(ToLock(k)) /\ ~Locked(ToLock(k))
      <3>1. Inserted \subseteq Keys
        BY DEF Inserted
      <3> QED
        BY <2>1, <3>1, ToLockIsSound DEF SoundNow
    <2>4. lock' = lock /\ lock \in Requests \cup {None}
      BY <2>1, Holder
    <2> QED
      BY <1>1, <2>1, <2>2, <2>3, <2>4, QuietStep
  <1> QED
    BY <1>3, <1>4 DEF CreateOwnerPaymentAttempt, InsertableKey

-----------------------------------------------------------------------------
(***************************************************************************)
(* Closes without the lock, notifications, the provider and the clock.     *)
(***************************************************************************)

LEMMA EndingStep == ASSUME IInv, Ending, UNCHANGED <<superseded, lock, req>> PROVE IInv'
  <1>1. superseded' \subseteq Inserted
    BY DEF IInv, Rows
  <1>2. Types' /\ Rows' /\ Calm
    BY <1>1, Ended
  <1> HIDE DEF Inserted, Types, Rows, OneLive, Gone, IInv, Calm
  <1> QED
    BY <1>2, NobodysStep

LEMMA CloseIntentStep == ASSUME IInv, ClosePaymentIntent PROVE IInv'
  BY EndingStep DEF ClosePaymentIntent, Ending, IInv, TypeOK, provider, StoredStatuses, WireStatuses

LEMMA CancelIntentStep == ASSUME IInv, CancelOwnerPaymentIntent PROVE IInv'
  <1>1. /\ attempt' = [j \in Keys |-> IF Active(j) THEN "canceled" ELSE attempt[j]] /\ intent' = "canceled"
        /\ UNCHANGED <<payable, intentKey, created, fresh, provider, superseded, lock, req>>
    BY DEF CancelOwnerPaymentIntent
  <1>2. attempt \in [Keys -> StoredStatuses \cup {Absent}] /\ "canceled" \in StoredStatuses
    BY DEF IInv, TypeOK, StoredStatuses, WireStatuses
  <1>3. \A j \in Keys : attempt'[j] = attempt[j] \/ (Exists(j) /\ attempt'[j] = "canceled")
    BY <1>1 DEF Exists, Active, IsActive, Absent
  <1>4. attempt' \in [Keys -> StoredStatuses \cup {Absent}]
    BY <1>1, <1>2
  <1> QED
    BY <1>1, <1>2, <1>3, <1>4, EndingStep DEF Ending

LEMMA ApplyStep ==
    ASSUME IInv, NEW k \in Keys, NEW status \in Reported(k), ApplyPaymentStatus(k, status)
    PROVE  IInv'
  <1>1. status \in {"failed", "canceled", "succeeded"} /\ trade[k] # "absent"
    BY DEF Reported
  <1>2. Exists(k)
    BY <1>1 DEF IInv, Rows, Inserted
  <1>3. /\ intent' = status
        /\ attempt' = [attempt EXCEPT ![k] = IF WebhookMayTransition(@, status) THEN status ELSE @]
        /\ UNCHANGED <<payable, intentKey, created, fresh, provider, superseded, lock, req>>
    BY DEF ApplyPaymentStatus
  <1>4. attempt \in [Keys -> StoredStatuses \cup {Absent}] /\ status \in StoredStatuses
    BY <1>1 DEF IInv, TypeOK, StoredStatuses, WireStatuses
  <1>5. attempt' \in [Keys -> StoredStatuses \cup {Absent}]
    BY <1>3, <1>4
  <1>6. \A j \in Keys : attempt'[j] = attempt[j] \/ (Exists(j) /\ attempt'[j] = status)
    BY <1>2, <1>3, <1>4
  <1> QED
    BY <1>1, <1>3, <1>4, <1>5, <1>6, EndingStep DEF Ending

LEMMA TradeMovesStep == ASSUME IInv, NEW k \in Keys, TradeMoves(k) PROVE IInv'
  <1>1. UNCHANGED <<rows, unanswered, superseded, lock, req>> /\ trade' = [trade EXCEPT ![k] = trade'[k]]
    BY DEF TradeMoves, IInv, TypeOK
  <1>2. \/ trade[k] = "open" /\ trade'[k] \in {"paid", "closed"}
        \/ trade[k] = "absent" /\ k \in unanswered /\ trade'[k] = "open"
    BY DEF TradeMoves, IInv, TypeOK
  <1>3. /\ trade \in [Keys -> {"absent", "open", "closed", "paid"}] /\ unanswered \subseteq Inserted
        /\ \A j \in Keys \ Inserted : trade[j] = "absent"
        /\ superseded \subseteq Shut /\ superseded \subseteq Inserted
    BY DEF IInv, TypeOK, Rows, Gone
  <1>4. trade' \in [Keys -> {"absent", "open", "closed", "paid"}] /\ \A j \in Keys \ Inserted : trade'[j] = "absent"
    BY <1>1, <1>2, <1>3
  <1>5. attempt' = attempt /\ unanswered' = unanswered
    BY <1>1, SameRows
  <1>6. Live' \subseteq Live /\ Shut \subseteq Shut'
    BY <1>1, <1>2, <1>3, <1>5 DEF Live, Shut, Active, Exposed
  <1>7. Types' /\ Rows' /\ Calm
    <2> HIDE DEF Inserted, Live, Shut
    <2> QED
      BY <1>1, <1>3, <1>4, <1>5, <1>6, SameRows
  <1> HIDE DEF Inserted, Types, Rows, OneLive, Gone, IInv, Calm
  <1> QED
    BY <1>1, <1>7, NobodysStep

LEMMA TimeStep == ASSUME IInv, TimePasses PROVE IInv'
  <1>1. /\ UNCHANGED <<intent, intentKey, attempt, created, trade, unanswered, superseded, lock, req>>
        /\ payable' \in BOOLEAN /\ fresh' \subseteq fresh
    BY DEF TimePasses, IInv, TypeOK, provider
  <1>2. Inserted' = Inserted /\ ActiveAttempts' = ActiveAttempts /\ Live' = Live /\ Shut' = Shut
    BY <1>1 DEF Inserted, Exists, ActiveAttempts, Active, Live, Exposed, Shut
  <1>3. Types /\ Rows
    BY TypesSplit DEF IInv
  <1> HIDE DEF Inserted, Live, Shut, ActiveAttempts
  <1>4. Types'
    BY <1>1, <1>2, <1>3 DEF Types
  <1>5. Rows'
    BY <1>1, <1>2, <1>3 DEF Rows
  <1>6. Calm
    BY <1>1, <1>2 DEF Calm
  <1> HIDE DEF Types, Rows, OneLive, Gone, IInv, Calm
  <1> QED
    BY <1>1, <1>4, <1>5, <1>6, NobodysStep

LEMMA StutterStep == ASSUME IInv, UNCHANGED vars PROVE IInv'
  <1>1. UNCHANGED <<rows, provider, superseded, lock, req>>
    BY DEF vars
  <1>2. Ending
    BY <1>1 DEF Ending, rows, IInv, TypeOK
  <1> QED
    BY <1>1, <1>2, EndingStep

-----------------------------------------------------------------------------
(***************************************************************************)
(* The invariant, and what follows from it.                                *)
(***************************************************************************)

LEMMA Initially == Init => IInv
  <1> SUFFICES ASSUME Init PROVE IInv
    OBVIOUS
  <1>1. Inserted = {} /\ Live = {} /\ superseded = {}
    BY DEF Init, Inserted, Exists, Live, Active, IsActive, Absent
  <1>2. TypeOK
    <2>2. Idle \in RequestRecords
      BY IdleIsSound
    <2>3. Len(<<>>) = 0 /\ <<>> \in Seq(Keys) /\ Cardinality({}) = 0
      BY FS_EmptySet
    <2>4. "pending" \in StoredStatuses
      BY DEF StoredStatuses, WireStatuses
    <2>5. req \in [Requests -> RequestRecords]
      BY <2>2 DEF Init
    <2>6. Types
      <3> HIDE DEF Inserted
      <3> QED
        BY <1>1, <2>3, <2>4 DEF Init, Types
    <2>7. lock \in Requests \cup {None}
      BY DEF Init
    <2> QED
      BY <2>5, <2>6, <2>7, TypesSplit
  <1>3. Rows /\ OneLive /\ Gone
    <2>1. Rows
      <3> HIDE DEF Inserted
      <3> QED
        BY <1>1, FS_EmptySet DEF Init, Rows
    <2>2. OneLive /\ Gone
      BY <1>1 DEF OneLive, Gone
    <2> QED
      BY <2>1, <2>2
  <1>4. \A q \in Requests : SoundNow(req[q]) /\ ~Locked(req[q])
    BY IdleIsSound DEF Init
  <1> QED
    BY <1>2, <1>3, <1>4 DEF IInv

LEMMA Inductive == IInv /\ [Next]_vars => IInv'
  <1> SUFFICES ASSUME IInv, [Next]_vars PROVE IInv'
    OBVIOUS
  <1>1. ASSUME NEW q \in Requests, Finding(q) PROVE IInv'
    BY <1>1, ReplayPaymentStep, ReusePaymentStep, PayStep, RefusedStep, BeginAttemptStep, CreateAttemptStep,
       RetrieveStep, BeginCancelStep, BeginCloseStep DEF Finding
  <1>2. ASSUME NEW q \in Requests, CheckingOut(q) PROVE IInv'
    BY <1>2, AcquireStep, RevalidateStep, ListOverdueStep, RenewStep, ListOthersStep, ListAllStep, CancelTradeStep,
       MarkStep, CreateStep, PersistStep, CancelOrderStep, CloseAttemptStep, RequestFailsStep DEF CheckingOut
  <1>3. ASSUME Environment PROVE IInv'
    BY <1>3, CloseIntentStep, CancelIntentStep, TradeMovesStep, ApplyStep, TimeStep DEF Environment
  <1> QED
    BY <1>1, <1>2, <1>3, StutterStep DEF Next

LEMMA Invariance == Spec => []IInv
  BY Initially, Inductive, PTL DEF Spec

(* Rows, trades, requests and the lock always hold what their columns and handlers allow,
   however many clients and attempts there are. *)
THEOREM TypeCorrect == Spec => []TypeOK
  <1>1. IInv => TypeOK
    BY DEF IInv
  <1> QED
    BY <1>1, Invariance, PTL

(* At most one active attempt of an order has a trade that can be paid or was paid, whatever
   requests, late calls, notifications and the clock do between the steps of a checkout. *)
THEOREM OneTradeLives == Spec => []OneLiveTrade
  <1>1. IInv => OneLiveTrade
    BY DEF IInv, OneLive, OneLiveTrade, Live, Exposed
  <1> QED
    BY <1>1, Invariance, PTL

(* No request creates the trade of an attempt that another one canceled under the lock:
   revalidation under the lock is enough, because only the holder supersedes. *)
THEOREM SupersededIsNeverCharged == Spec => []SupersededNeverCharged
  <1>1. IInv => SupersededNeverCharged
    BY DEF IInv, SoundNow, Sound, Passing, SupersededNeverCharged, At
  <1> QED
    BY <1>1, Invariance, PTL

(* At a provider that cancels by the merchant's number, the trade of a superseded attempt is
   absent or closed, for good, as long as no create call for it is still on its way. *)
THEOREM SupersededStaysClosed == Spec => []SupersededIsClosed
  <1>1. IInv => SupersededIsClosed
    BY DEF IInv, Gone, Shut, SupersededIsClosed
  <1> QED
    BY <1>1, Invariance, PTL
=============================================================================
