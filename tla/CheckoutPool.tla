----------------------------- MODULE CheckoutPool -----------------------------
(***************************************************************************)
(* The connections a checkout needs.  Every host has a pool of connections  *)
(* to the one database.  A checkout pins a connection with the transaction  *)
(* that holds the order's advisory lock, and its locked work takes a second *)
(* one from the same pool for each statement: if lock transactions filled   *)
(* the pool, each of them would wait for ever.  A semaphore per host, the   *)
(* gate, admits half as many checkouts as the pool has connections.         *)
(*                                                                         *)
(* What the locked work does to the payments is ProviderCheckout.  Its      *)
(* statements are alike here and so are the tries for the lock: a checkout  *)
(* has one statement, and its deadline passes with its second try.         *)
(***************************************************************************)
EXTENDS Naturals, FiniteSets

CONSTANTS
    Checkouts,        \* checkouts and order cancellations
    Others,          \* users of one connection at a time: all other requests
    Hosts,           \* processes, each with a pool and a gate
    HostOf,          \* the host of each request and other user
    Orders,          \* orders, each with an advisory lock
    MaxConnections,  \* capacity of each pool
    NoOrder             \* no order

ASSUME ConnectionsAssumption == MaxConnections \in Nat \ {0, 1}
ASSUME HostAssumption == HostOf \in [Checkouts \cup Others -> Hosts]
ASSUME CheckoutsAssumption == IsFiniteSet(Checkouts) /\ NoOrder \notin Orders

VARIABLES
    stage,       \* how far each request has got
    order,       \* the order of each request
    tried,       \* requests that found the lock taken
    lost,        \* lock holders whose database session has ended
    overtaken,   \* lock holders whose order another lock holder has served meanwhile
    twofold,     \* requests that were overtaken and answered with success
    busy         \* other users that hold a connection

locks == <<tried, lost, overtaken, twofold>>
poolVars == <<stage, order, locks, busy>>

Stages == {"idle", "queued", "connecting", "trying", "sleeping", "locked", "working", "finished"}
Holding == {"locked", "working", "finished"}   \* the transaction holds the lock
Pinning == {"trying"} \cup Holding             \* the lock transaction is open

PoolInit ==
    /\ stage = [r \in Checkouts |-> "idle"]
    /\ order = [r \in Checkouts |-> NoOrder]
    /\ tried = {} /\ lost = {} /\ overtaken = {} /\ twofold = {}
    /\ busy = {}

-----------------------------------------------------------------------------
\* Checkouts of host h that have a permit, an open lock transaction, a statement under way.
Admitted(h) == {r \in Checkouts : HostOf[r] = h /\ stage[r] \notin {"idle", "queued"}}
Pinned(h) == {r \in Checkouts : HostOf[r] = h /\ stage[r] \in Pinning}
Working(h) == {r \in Checkouts : HostOf[r] = h /\ stage[r] = "working"}
Serving(h) == {x \in busy : HostOf[x] = h}

\* A bug: as many checkouts as there are connections.
Permits_Whole == MaxConnections

\* checkout_connection_gate
Permits == MaxConnections \div 2

\* The pool has a connection left.
Available(h) ==
    Cardinality(Pinned(h)) + Cardinality(Working(h)) + Cardinality(Serving(h)) < MaxConnections

\* pg_try_advisory_xact_lock: the lock goes with the session that took it.
Unheld(o) == \A q \in Checkouts : order[q] = o /\ stage[q] \in Holding => q \in lost

Becomes(r, s) == stage' = [stage EXCEPT ![r] = s]

\* The request ends: its transactions, its lock and its permit go back.
End(r) ==
    /\ Becomes(r, "idle")
    /\ order' = [order EXCEPT ![r] = NoOrder]
    /\ tried' = tried \ {r} /\ lost' = lost \ {r}
    /\ UNCHANGED busy

-----------------------------------------------------------------------------
\* A request arrives and queues at the gate.
Arrive(r, o) ==
    /\ stage[r] = "idle"
    /\ Becomes(r, "queued")
    /\ order' = [order EXCEPT ![r] = o]
    /\ UNCHANGED <<locks, busy>>

\* acquire_checkout_connection_gate
EnterGate(r) ==
    /\ stage[r] = "queued"
    /\ Cardinality(Admitted(HostOf[r])) < Permits
    /\ Becomes(r, "connecting")
    /\ UNCHANGED <<order, locks, busy>>

\* acquire_postgres_checkout_lock: pool.begin.
BeginLockTransaction(r) ==
    /\ stage[r] = "connecting"
    /\ Available(HostOf[r])
    /\ Becomes(r, "trying")
    /\ UNCHANGED <<order, locks, busy>>

\* The lock is free: the transaction keeps it, and its connection.
AcquireLock(r) ==
    /\ stage[r] = "trying"
    /\ Unheld(order[r])
    /\ Becomes(r, "locked")
    /\ UNCHANGED <<order, locks, busy>>

\* The lock is taken: the connection goes back, and the request sleeps ...
LockIsTaken(r) ==
    /\ stage[r] = "trying" /\ r \notin tried
    /\ ~Unheld(order[r])
    /\ Becomes(r, "sleeping")
    /\ tried' = tried \cup {r}
    /\ UNCHANGED <<order, lost, overtaken, twofold, busy>>

Retry(r) ==
    /\ stage[r] = "sleeping"
    /\ Becomes(r, "connecting")
    /\ UNCHANGED <<order, locks, busy>>

\* ... or, past its deadline, gives up.
GiveUp(r) ==
    /\ stage[r] = "trying" /\ r \in tried
    /\ ~Unheld(order[r])
    /\ End(r)
    /\ UNCHANGED <<overtaken, twofold>>

\* A statement of the locked work: on a connection of its own.
BeginWork(r) ==
    /\ stage[r] = "locked"
    /\ Available(HostOf[r])
    /\ Becomes(r, "working")
    /\ UNCHANGED <<order, locks, busy>>

EndWork(r) ==
    /\ stage[r] = "working"
    /\ Becomes(r, "finished")
    /\ UNCHANGED <<order, locks, busy>>

\* A bug: the result of the commit is not looked at.
Succeeds_Anyway(r) == TRUE

\* The commit of a lost session fails, and the request with it.
Succeeds(r) == r \notin lost

Together(r) == {q \in Checkouts : order[q] = order[r] /\ stage[q] \in Holding}

\* release_postgres_checkout_lock, and the answer.
Release(r) ==
    /\ stage[r] = "finished"
    /\ End(r)
    /\ IF Succeeds(r)
       THEN /\ overtaken' = (overtaken \cup Together(r)) \ {r}
            /\ twofold' = twofold \cup ({r} \cap overtaken)
       ELSE overtaken' = overtaken \ {r} /\ UNCHANGED twofold

\* The gate's or the pool's wait runs out, a statement fails, or the request is
\* abandoned: the answer is an error.
Fail(r) ==
    /\ stage[r] # "idle"
    /\ End(r)
    /\ overtaken' = overtaken \ {r}
    /\ UNCHANGED twofold

\* The database ends the session of a lock transaction; the request does not notice.
LoseSession(r) ==
    /\ stage[r] \in Holding /\ r \notin lost
    /\ lost' = lost \cup {r}
    /\ UNCHANGED <<stage, order, tried, overtaken, twofold, busy>>

\* Any other user takes a connection, and gives it back.
TakeConnection(x) ==
    /\ x \notin busy /\ Available(HostOf[x])
    /\ busy' = busy \cup {x}
    /\ UNCHANGED <<stage, order, locks>>

GiveConnection(x) ==
    /\ x \in busy
    /\ busy' = busy \ {x}
    /\ UNCHANGED <<stage, order, locks>>

\* What a request waits for in a queue, and what it does next by itself.
Queue(r) == EnterGate(r) \/ BeginLockTransaction(r) \/ BeginWork(r)
Proceed(r) ==
    AcquireLock(r) \/ LockIsTaken(r) \/ Retry(r) \/ GiveUp(r) \/ EndWork(r) \/ Release(r)

PoolNext ==
    \/ \E r \in Checkouts :
          \/ \E o \in Orders : Arrive(r, o)
          \/ Queue(r) \/ Proceed(r) \/ Fail(r) \/ LoseSession(r)
    \/ \E x \in Others : TakeConnection(x) \/ GiveConnection(x)

PoolSpec == PoolInit /\ [][PoolNext]_poolVars

\* The semaphore and the pool serve their waiters in turn; statements and sleeps
\* come to an end.  No failure is owed to anybody.
Fairness ==
    /\ \A r \in Checkouts : SF_poolVars(Queue(r)) /\ WF_poolVars(Proceed(r))
    /\ \A x \in Others : WF_poolVars(GiveConnection(x))

FairPoolSpec == PoolSpec /\ Fairness

-----------------------------------------------------------------------------
(* Every variable has its type; what is known of a lock holder ends with it. *)
PoolTypeOK ==
    /\ stage \in [Checkouts -> Stages]
    /\ order \in [Checkouts -> Orders \cup {NoOrder}]
    /\ tried \subseteq {r \in Checkouts : stage[r] # "idle"}
    /\ lost \subseteq {r \in Checkouts : stage[r] \in Holding}
    /\ overtaken \subseteq {r \in Checkouts : stage[r] \in Holding}
    /\ twofold \subseteq Checkouts
    /\ \A r \in Checkouts : order[r] = NoOrder <=> stage[r] = "idle"
    /\ busy \subseteq Others

(* The lock transactions of a host leave a connection for the work of each of them: all
   checkouts together fit into the pool, as the comment of the gate promises. *)
CheckoutsFit == \A h \in Hosts : 2 * Cardinality(Pinned(h)) <= MaxConnections

(* Two checkouts of one order that held its lock together, because the session of one was
   lost, are never both answered with success. *)
OneOfTwoFails == twofold = {}

(* A checkout at the gate is answered, even if no wait ever times out: locks, statements
   and other users never leave a full pool in which everyone waits for a connection. *)
CheckoutsEnd == \A r \in Checkouts : stage[r] = "queued" ~> stage[r] = "idle"
=============================================================================
