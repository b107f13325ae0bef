---------------------- MODULE ProviderCredentials_proofs ----------------------
(***************************************************************************)
(* Proofs about ProviderCredentials, for any accounts, requests, hosts,     *)
(* environments and crashes: rotations serialize, one host fills an         *)
(* account, and what tests and calls load without the lock is whole and     *)
(* used for the account it was loaded for.                                  *)
(***************************************************************************)
EXTENDS ProviderCredentials, TLAPS

Doings == {"nothing", "rotate", "save", "delete", "test", "passed test", "failed test", "call", "fill"}
Loads == [row : AccountRow \cup {None}, rows : SUBSET Row]
LoadOK(load) == load = Unread \/ (load.row \in AccountRow /\ load.rows \subseteq Row)

Typed ==
    /\ TypeOK
    /\ lock \in [Accounts -> Writers \cup {None}] /\ bootLock \in Hosts \cup {None}
    /\ staged \in [Writers -> SUBSET Row] /\ seen \in [Writers -> Loads]
    /\ \A p \in Writers : stage[p] = "read" => seen[p].row \in AccountRow
    /\ \A h \in Hosts : doing[h] = "fill"

\* A rotation holds the lock of its account from its first read to its commit, a fill the
\* bootstrap lock to its end.
Locking ==
    /\ \A p \in Writers :
          /\ stage[p] \in {"lock", "locked", "written", "committed", "read", "loaded"} => on[p] \in Accounts
          /\ stage[p] \in {"locked", "written"} => lock[on[p]] = p
    /\ \A h \in Hosts :
          stage[h] \in {"fill", "lock", "locked", "written", "committed"} => bootLock = h

\* What a rotation is about to commit is newer than all there is.
Newer(r) == \A s \in secrets : s.account = r.account /\ s.kind = r.kind => s.version < r.version
Staging ==
    \A p \in Writers :
        /\ stage[p] # "written" => staged[p] = {}
        /\ \A r \in staged[p] : r.account = on[p] /\ r.by = p /\ r.active /\ Newer(r)
        /\ \A r, t \in staged[p] : r.kind = t.kind => r = t

\* A kind that has a row has an active one.
SomeActive ==
    \A r \in secrets : \E t \in secrets : t.account = r.account /\ t.kind = r.kind /\ t.active

\* While a host fills an account, no host has filled it.
Filling ==
    \A h \in Hosts : stage[h] \in {"lock", "locked", "written"} =>
        \A r \in secrets : r.account = on[h] => r.by \notin Hosts

IInv == Typed /\ Locking /\ Staging /\ RotationsSerialize /\ SomeActive /\ Filling /\ FilledOnce

-----------------------------------------------------------------------------
\* The next version of a kind exists and is greater than every version there is.
LEMMA NextIsNewer ==
    ASSUME IInv, NEW a \in Accounts, NEW k \in Kinds
    PROVE  /\ NextVersion(a, k) \in Nat \ {0}
           /\ \A s \in secrets : s.account = a /\ s.kind = k => s.version < NextVersion(a, k)
  <1> DEFINE mine == {s \in secrets : s.account = a /\ s.kind = k}
             versions == {0} \cup {r.version : r \in mine}
  <1>1. /\ \A s \in secrets : s.version \in Nat \ {0}
        /\ versions \subseteq Nat
    <2>1. secrets \subseteq Row
      BY DEF IInv, Typed, TypeOK
    <2>2. \A r \in Row : r.version \in Nat \ {0}
      BY DEF Row
    <2> QED
      BY <2>1, <2>2
  <1>2. \E x \in versions : \A y \in versions : x >= y
    <2>1. CASE mine = {}
      BY <2>1
    <2>2. CASE mine # {}
      <3>1. PICK t \in mine : t.active
        BY <2>2 DEF IInv, SomeActive
      <3>2. \A s \in mine : s.version <= t.version
        BY <3>1 DEF IInv, RotationsSerialize
      <3> QED
        BY <1>1, <3>1, <3>2
    <2> QED
      BY <2>1, <2>2
  <1>3. Max(versions) \in versions /\ \A y \in versions : Max(versions) >= y
    BY <1>2 DEF Max
  <1>4. NextVersion(a, k) = 1 + Max(versions)
    BY DEF NextVersion
  <1> HIDE DEF versions
  <1>5. Max(versions) \in Nat
    BY <1>1, <1>3
  <1>6. \A s \in mine : s.version \in versions
    BY DEF versions
  <1> QED
    BY <1>1, <1>3, <1>4, <1>5, <1>6

\* What the commit of new rows makes of the old ones.
Superseded(rows, r) == [r EXCEPT !.active = r.active /\ ~\E n \in rows : n.account = r.account /\ n.kind = r.kind]

LEMMA SupersededIsRow ==
    ASSUME NEW rows, NEW r \in Row
    PROVE  /\ Superseded(rows, r) \in Row
           /\ Superseded(rows, r).account = r.account /\ Superseded(rows, r).kind = r.kind
           /\ Superseded(rows, r).version = r.version /\ Superseded(rows, r).by = r.by
           /\ Superseded(rows, r).active <=>
                 r.active /\ ~\E n \in rows : n.account = r.account /\ n.kind = r.kind
  BY DEF Superseded, Row

\* The commit of a rotation leaves versions without collision, the last of each kind active.
LEMMA CommitSerializes ==
    ASSUME IInv, NEW p \in Writers, stage[p] = "written", secrets' = Install(staged[p], secrets)
    PROVE  secrets' \subseteq Row /\ RotationsSerialize' /\ SomeActive'
  <1> DEFINE rows == staged[p]
             Old(r) == Superseded(rows, r)
  <1>1. secrets' = {Old(r) : r \in secrets} \cup rows
    BY DEF Install, Superseded
  <1>2. secrets \subseteq Row /\ rows \subseteq Row
    BY DEF IInv, Typed, TypeOK
  <1>3. \A r \in secrets : /\ Old(r) \in Row
                           /\ Old(r).account = r.account /\ Old(r).kind = r.kind
                           /\ Old(r).version = r.version /\ Old(r).by = r.by
                           /\ Old(r).active <=>
                                 r.active /\ ~\E n \in rows : n.account = r.account /\ n.kind = r.kind
    BY <1>2, SupersededIsRow
  <1>4. /\ \A n \in rows : n.account = on[p] /\ n.active
        /\ \A n \in rows, r \in secrets : n.account = r.account /\ n.kind = r.kind => r.version < n.version
        /\ \A n, m \in rows : n.kind = m.kind => n = m
    BY DEF IInv, Staging, Newer
  <1>5. \A r \in Row : r.version \in Nat /\ r.active \in BOOLEAN
    BY DEF Row
  <1> HIDE DEF Old, rows
  <1>6. secrets' \subseteq Row
    BY <1>1, <1>2, <1>3
  <1>7. RotationsSerialize'
    <2> SUFFICES ASSUME NEW x \in secrets', NEW y \in secrets', x.account = y.account, x.kind = y.kind
                 PROVE  /\ x.version = y.version => x = y
                        /\ x.active <=> \A t \in secrets' : t.account = x.account /\ t.kind = x.kind
                                                            => t.version <= x.version
      BY DEF RotationsSerialize
    <2>1. CASE x \in rows
      <3>1. x.version = y.version => x = y
        <4>1. CASE y \in rows
          BY <2>1, <4>1, <1>4
        <4>2. ASSUME NEW s \in secrets, y = Old(s)
              PROVE  y.version # x.version
          BY <2>1, <4>2, <1>2, <1>3, <1>4, <1>5
        <4> QED
          BY <4>1, <4>2, <1>1
      <3>2. ASSUME NEW t \in secrets', t.account = x.account, t.kind = x.kind
            PROVE  t.version <= x.version
        <4>1. CASE t \in rows
          BY <2>1, <3>2, <4>1, <1>2, <1>4, <1>5
        <4>2. ASSUME NEW s \in secrets, t = Old(s)
              PROVE  t.version <= x.version
          BY <2>1, <3>2, <4>2, <1>2, <1>3, <1>4, <1>5
        <4> QED
          BY <4>1, <4>2, <1>1
      <3> QED
        BY <2>1, <3>1, <3>2, <1>4
    <2>2. ASSUME NEW r \in secrets, x = Old(r), NEW n \in rows, n.account = r.account, n.kind = r.kind
          PROVE  /\ x.version = y.version => x = y
                 /\ ~x.active /\ ~(\A t \in secrets' : t.account = x.account /\ t.kind = x.kind
                                                       => t.version <= x.version)
      <3>1. ~x.active
        BY <2>2, <1>3
      <3>2. n \in secrets' /\ x.version < n.version /\ n.account = x.account /\ n.kind = x.kind
        BY <2>2, <1>1, <1>3, <1>4
      <3>3. x.version = y.version => x = y
        <4>1. y \in rows => y.version = n.version
          BY <2>2, <1>3, <1>4
        <4>2. ASSUME NEW s \in secrets, y = Old(s), x.version = y.version
              PROVE  x = y
          <5>1. r = s
            BY <2>2, <4>2, <1>3 DEF IInv, RotationsSerialize
          <5> QED
            BY <2>2, <4>2, <5>1
        <4> QED
          BY <4>1, <4>2, <3>2, <1>1, <1>2, <1>5, <2>2, <1>3
      <3> QED
        BY <3>1, <3>2, <3>3, <2>2, <1>2, <1>3, <1>5
    <2>3. ASSUME NEW r \in secrets, x = Old(r), ~\E n \in rows : n.account = r.account /\ n.kind = r.kind
          PROVE  /\ x.version = y.version => x = y
                 /\ x.active <=> \A t \in secrets' : t.account = x.account /\ t.kind = x.kind
                                                     => t.version <= x.version
      <3>1. \A t \in secrets' : t.account = x.account /\ t.kind = x.kind => \E s \in secrets : t = Old(s)
        BY <2>3, <1>1, <1>3
      <3>2. x.version = y.version => x = y
        <4>1. PICK s \in secrets : y = Old(s)
          BY <3>1
        <4>2. x.version = y.version => r = s
          BY <2>3, <4>1, <1>3 DEF IInv, RotationsSerialize
        <4> QED
          BY <2>3, <4>1, <4>2
      <3>3. x.active <=> r.active
        BY <2>3, <1>3
      <3>4. r.active <=> \A s \in secrets : s.account = r.account /\ s.kind = r.kind => s.version <= r.version
        BY DEF IInv, RotationsSerialize
      <3>5. \A s \in secrets : Old(s) \in secrets'
        BY <1>1
      <3> QED
        BY <2>3, <3>1, <3>2, <3>3, <3>4, <3>5, <1>3
    <2> QED
      BY <2>1, <2>2, <2>3, <1>1
  <1>8. SomeActive'
    <2> SUFFICES ASSUME NEW x \in secrets'
                 PROVE  \E t \in secrets' : t.account = x.account /\ t.kind = x.kind /\ t.active
      BY DEF SomeActive
    <2>1. CASE x \in rows
      BY <2>1, <1>1, <1>4
    <2>2. ASSUME NEW r \in secrets, x = Old(r)
          PROVE  \E t \in secrets' : t.account = x.account /\ t.kind = x.kind /\ t.active
      <3>1. CASE \E n \in rows : n.account = r.account /\ n.kind = r.kind
        BY <2>2, <3>1, <1>1, <1>3, <1>4
      <3>2. CASE ~\E n \in rows : n.account = r.account /\ n.kind = r.kind
        <4>1. PICK t \in secrets : t.account = r.account /\ t.kind = r.kind /\ t.active
          BY DEF IInv, SomeActive
        <4>2. Old(t) \in secrets' /\ Old(t).active
          BY <3>2, <4>1, <1>1, <1>3
        <4> QED
          BY <2>2, <4>1, <4>2, <1>3
      <3> QED
        BY <3>1, <3>2
    <2> QED
      BY <2>1, <2>2, <1>1
  <1> QED
    BY <1>6, <1>7, <1>8
-----------------------------------------------------------------------------
\* What is known of the holder of an account's lock.
LEMMA HolderKnown ==
    ASSUME IInv, NEW a \in Accounts, lock[a] # None
    PROVE  lock[a] \in Writers /\ on[lock[a]] = a /\ stage[lock[a]] \in {"locked", "written"}
  <1>1. lock \in [Accounts -> Writers \cup {None}]
    BY DEF IInv, Typed
  <1>2. on[lock[a]] = a /\ stage[lock[a]] \in {"locked", "written"}
    BY DEF IInv, Typed, TypeOK
  <1> QED
    BY <1>1, <1>2

LEMMA Initially == ASSUME Init PROVE IInv
  <1>1. lock \in [Accounts -> Writers \cup {None}] /\ bootLock \in Hosts \cup {None}
    BY DEF Init, Writers
  <1>2. staged \in [Writers -> SUBSET Row] /\ seen \in [Writers -> Loads]
    BY DEF Init, Loads, Unread
  <1>3. account \in [Accounts -> AccountRow]
    <2> DEFINE refs == [k \in Kinds |-> IF k = "primary" THEN "database" ELSE "none"]
               fresh == [provider : Providers, refs : {refs}, metadata : {Metadata}, tested : {"none"}, deleted : {FALSE}]
    <2>1. refs \in [Kinds -> {"none", "environment", "database"}]
      OBVIOUS
    <2>2. account \in [Accounts -> fresh]
      BY DEF Init
    <2> HIDE DEF refs
    <2>3. fresh \subseteq AccountRow
      BY <2>1 DEF AccountRow
    <2> QED
      BY <2>2, <2>3
  <1>4. environment \subseteq Parts
    BY EnvironmentsAssumption DEF Init
  <1>5. TypeOK
    BY <1>3, <1>4, NoneAssumption, CrashesAssumption DEF Init, TypeOK, Stages
  <1>6. Locking /\ Staging /\ Filling
    BY DEF Init, Locking, Staging, Filling, Writers
  <1>7. RotationsSerialize /\ SomeActive /\ FilledOnce
    BY DEF Init, RotationsSerialize, SomeActive, FilledOnce
  <1>8. \A p \in Writers : stage[p] # "read" /\ (p \in Hosts => doing[p] = "fill")
    BY DEF Init
  <1> QED
    BY <1>1, <1>2, <1>5, <1>6, <1>7, <1>8 DEF IInv, Typed, Writers

\* What is said of the committed rows stays true while they do.
LEMMA SecretsKept ==
    ASSUME IInv, UNCHANGED secrets
    PROVE  RotationsSerialize' /\ SomeActive' /\ FilledOnce'
  BY DEF IInv, RotationsSerialize, SomeActive, FilledOnce

\* A step outside the locks: it starts a request, reads, or stamps the account's row.
LEMMA OutsideStep ==
    ASSUME IInv, NEW p \in Writers, NEW s \in Stages \ {"locked", "written"}, NEW b \in Accounts \cup {None},
           stage[p] \notin {"locked", "written"},
           Goes(p, s), on' = [on EXCEPT ![p] = b],
           UNCHANGED <<environment, secrets, lock, bootLock, staged, crashes>>,
           s \in {"lock", "committed", "read", "loaded"} => b \in Accounts,
           p \in Hosts => (s \in {"fill", "lock", "committed"} <=> bootLock = p),
           p \in Hosts /\ s = "lock" => \A r \in secrets : r.account = b => r.by \notin Hosts,
           account' \in [Accounts -> AccountRow],
           doing' \in [Writers -> Doings], \A h \in Hosts : doing'[h] = "fill",
           kinds' \in [Writers -> SUBSET Kinds], todo' \in [Hosts -> SUBSET Accounts],
           NEW load \in Loads, seen' = [seen EXCEPT ![p] = load], LoadOK(load),
           s = "read" => load.row \in AccountRow
    PROVE  IInv'
  <1>1. /\ stage' = [stage EXCEPT ![p] = s]
        /\ stage \in [Writers -> Stages] /\ on \in [Writers -> Accounts \cup {None}]
        /\ Hosts \subseteq Writers
    BY DEF Goes, IInv, Typed, TypeOK, Writers
  <1>2. staged[p] = {}
    BY DEF IInv, Staging
  <1>3. TypeOK'
    <2>5. \A q \in Writers : LoadOK(seen'[q])
      <3>1. seen \in [Writers -> Loads] /\ \A q \in Writers : LoadOK(seen[q])
        BY DEF IInv, Typed, TypeOK, LoadOK
      <3> QED
        BY <3>1
    <2>1. ASSUME NEW a \in Accounts, lock'[a] # None
          PROVE  on'[lock'[a]] = a /\ stage'[lock'[a]] \in {"locked", "written"}
      <3>1. lock[a] \in Writers /\ on[lock[a]] = a /\ stage[lock[a]] \in {"locked", "written"}
        BY <2>1, HolderKnown
      <3>2. lock[a] # p /\ lock'[a] = lock[a]
        BY <3>1
      <3> QED
        BY <1>1, <3>1, <3>2
    <2>2. bootLock' # None => stage'[bootLock'] \in {"fill", "lock", "locked", "written", "committed"}
      <3>1. bootLock \in Hosts \cup {None}
            /\ (bootLock # None => stage[bootLock] \in {"fill", "lock", "locked", "written", "committed"})
        BY DEF IInv, Typed, TypeOK
      <3>2. CASE bootLock = p
        BY <1>1, <3>1, <3>2, NoneAssumption DEF Writers
      <3>3. CASE bootLock # p
        BY <1>1, <3>1, <3>3
      <3> QED
        BY <3>2, <3>3
    <2>3. \A q \in Writers : staged'[q] \subseteq {r \in Row : r.by = q /\ r.account = on'[q]}
      <3>1. \A q \in Writers : staged[q] \subseteq {r \in Row : r.by = q /\ r.account = on[q]}
        BY DEF IInv, Typed, TypeOK
      <3>2. \A q \in Writers : q # p => on'[q] = on[q]
        BY <1>1
      <3>3. \A q \in Writers : staged'[q] = staged[q]
        OBVIOUS
      <3> QED
        BY <1>2, <3>1, <3>2, <3>3
    <2>4. stage' \in [Writers -> Stages] /\ on' \in [Writers -> Accounts \cup {None}]
      BY <1>1
    <2> QED
      BY <2>1, <2>2, <2>3, <2>4, <2>5 DEF IInv, Typed, TypeOK, Doings, LoadOK
  <1>4. Typed'
    <2>1. seen' \in [Writers -> Loads]
      BY DEF IInv, Typed
    <2>2. \A q \in Writers : stage'[q] = "read" => seen'[q].row \in AccountRow
      BY <1>1 DEF IInv, Typed
    <2> QED
      BY <1>3, <2>1, <2>2 DEF IInv, Typed
  <1>5. Locking'
    BY <1>1 DEF IInv, Locking
  <1>6. Staging'
    <2>1. \A q \in Writers : staged'[q] = staged[q] /\ (q # p => stage'[q] = stage[q] /\ on'[q] = on[q])
      BY <1>1
    <2>2. \A r : Newer(r)' <=> Newer(r)
      BY DEF Newer
    <2> QED
      BY <1>2, <2>1, <2>2 DEF IInv, Staging
  <1>7. Filling'
    BY <1>1 DEF IInv, Filling
  <1> QED
    BY <1>4, <1>5, <1>6, <1>7, SecretsKept DEF IInv

-----------------------------------------------------------------------------
(* Requests and fills, where they hold no lock of an account *)

LEMMA TypesKnown ==
    ASSUME IInv
    PROVE  /\ account \in [Accounts -> AccountRow] /\ secrets \subseteq Row
           /\ doing \in [Writers -> Doings] /\ stage \in [Writers -> Stages]
           /\ on \in [Writers -> Accounts \cup {None}] /\ kinds \in [Writers -> SUBSET Kinds]
           /\ seen \in [Writers -> Loads] /\ todo \in [Hosts -> SUBSET Accounts]
           /\ \A q \in Writers : LoadOK(seen[q])
           /\ \A h \in Hosts : doing[h] = "fill"
           /\ Operators \subseteq Writers /\ Hosts \subseteq Writers /\ Operators \cap Hosts = {}
  <1>1. Operators \subseteq Writers /\ Hosts \subseteq Writers /\ Operators \cap Hosts = {}
    BY NoneAssumption DEF Writers
  <1>2. \A q \in Writers : LoadOK(seen[q])
    BY DEF IInv, Typed, TypeOK, LoadOK
  <1> QED
    BY <1>1, <1>2 DEF IInv, Typed, TypeOK, Doings

LEMMA SameLoad ==
    ASSUME IInv, NEW p \in Writers, UNCHANGED seen
    PROVE  seen[p] \in Loads /\ LoadOK(seen[p]) /\ seen' = [seen EXCEPT ![p] = seen[p]]
  BY TypesKnown

\* A change of an account's row leaves it a row.
LEMMA AccountChanged ==
    ASSUME IInv, NEW a, NEW row \in AccountRow, account' = [account EXCEPT ![a] = row]
    PROVE  account' \in [Accounts -> AccountRow]
  BY TypesKnown

LEMMA VerdictChanged ==
    ASSUME IInv, NEW a \in Accounts, NEW verdict \in {"none", "success", "failure"},
           account' = [account EXCEPT ![a].tested = IF account[a].deleted THEN @ ELSE verdict]
    PROVE  account' \in [Accounts -> AccountRow]
  <1>1. account[a] \in AccountRow
    BY TypesKnown
  <1> DEFINE new == IF account[a].deleted THEN account[a].tested ELSE verdict
  <1>2. new \in {"none", "success", "failure"}
    BY <1>1 DEF AccountRow
  <1>3. account' = [account EXCEPT ![a] = [account[a] EXCEPT !.tested = new]]
    BY TypesKnown
  <1> HIDE DEF new
  <1>4. [account[a] EXCEPT !.tested = new] \in AccountRow
    BY <1>1, <1>2 DEF AccountRow
  <1> QED
    BY <1>3, <1>4, AccountChanged

\* A request begins.
LEMMA BeginStep ==
    ASSUME IInv, NEW p \in Operators, NEW a \in Accounts, NEW s \in {"lock", "read", "loaded", "done"},
           NEW request \in Doings, Begin(p, request, a, s),
           UNCHANGED <<environment, secrets, lock, bootLock, staged, todo, crashes>>,
           account' \in [Accounts -> AccountRow], kinds' \in [Writers -> SUBSET Kinds],
           NEW load \in Loads, seen' = [seen EXCEPT ![p] = load], LoadOK(load),
           s = "read" => load.row \in AccountRow
    PROVE  IInv'
  <1>1. p \in Writers /\ p \notin Hosts
    BY TypesKnown
  <1>2. stage[p] \notin {"locked", "written"} /\ Goes(p, s) /\ on' = [on EXCEPT ![p] = a]
    BY DEF Begin
  <1>3. /\ doing' \in [Writers -> Doings] /\ todo' \in [Hosts -> SUBSET Accounts]
        /\ \A h \in Hosts : doing'[h] = "fill"
    BY TypesKnown DEF Begin
  <1>4. s \in Stages \ {"locked", "written"}
    BY DEF Stages
  <1> QED
    BY <1>1, <1>2, <1>3, <1>4, OutsideStep

LEMMA StartRotationStep == ASSUME IInv, NEW p \in Operators, StartRotation(p) PROVE IInv'
  <1>1. PICK a \in Accounts, write \in Writes : Begin(p, "rotate", a, "lock") /\ kinds' = [kinds EXCEPT ![p] = write]
    BY DEF StartRotation
  <1>2. UNCHANGED <<environment, account, secrets, lock, bootLock, staged, seen, todo, crashes>>
    BY DEF StartRotation, table, locks
  <1>3. kinds' \in [Writers -> SUBSET Kinds]
    BY <1>1, TypesKnown, WritesAssumption
  <1>4. account' \in [Accounts -> AccountRow] /\ p \in Writers
    BY <1>2, TypesKnown
  <1>5. seen[p] \in Loads /\ LoadOK(seen[p]) /\ seen' = [seen EXCEPT ![p] = seen[p]]
    BY <1>2, <1>4, SameLoad
  <1> QED
    BY <1>1, <1>2, <1>3, <1>4, <1>5, BeginStep DEF Doings

LEMMA SaveAccountStep == ASSUME IInv, NEW p \in Operators, SaveAccount(p) PROVE IInv'
  <1>1. PICK a \in Accounts, write \in Writes \cup {{}}, named \in Named, data \in {{"metadata"}, Metadata} :
            /\ ~account[a].deleted
            /\ Begin(p, "save", a, IF write = {} THEN "done" ELSE "lock")
            /\ kinds' = [kinds EXCEPT ![p] = write]
            /\ account' = [account EXCEPT
                  ![a].refs = EditedRefs(@, write, named),
                  ![a].metadata = data]
    BY Zenon DEF SaveAccount
  <1>2. UNCHANGED <<environment, secrets, lock, bootLock, staged, seen, todo, crashes>>
    BY DEF SaveAccount, locks
  <1>3. kinds' \in [Writers -> SUBSET Kinds]
    BY <1>1, TypesKnown, WritesAssumption
  <1>4. /\ p \in Writers /\ seen[p] \in Loads /\ LoadOK(seen[p]) /\ seen' = [seen EXCEPT ![p] = seen[p]]
    BY <1>2, TypesKnown, SameLoad
  <1>5. account' \in [Accounts -> AccountRow]
    <2>1. account[a] \in AccountRow
      BY TypesKnown
    <2>2. EditedRefs(account[a].refs, write, named) \in [Kinds -> {"none", "environment", "database"}]
      BY <2>1 DEF EditedRefs, AccountRow
    <2>3. [account[a] EXCEPT !.refs = EditedRefs(account[a].refs, write, named), !.metadata = data] \in AccountRow
      BY <2>1, <2>2 DEF AccountRow, Metadata
    <2>4. account' = [account EXCEPT ![a] =
              [account[a] EXCEPT !.refs = EditedRefs(account[a].refs, write, named), !.metadata = data]]
      BY <1>1, TypesKnown
    <2> QED
      BY <2>3, <2>4, AccountChanged
  <1> QED
    BY <1>1, <1>2, <1>3, <1>4, <1>5, BeginStep DEF Doings

LEMMA DeleteAccountStep == ASSUME IInv, NEW p \in Operators, DeleteAccount(p) PROVE IInv'
  <1>1. PICK a \in Accounts : Begin(p, "delete", a, "done") /\ account' = [account EXCEPT ![a].deleted = TRUE]
    BY DEF DeleteAccount
  <1>2. UNCHANGED <<environment, secrets, lock, bootLock, kinds, staged, seen, todo, crashes>>
    BY DEF DeleteAccount, locks
  <1>3. /\ p \in Writers /\ seen[p] \in Loads /\ LoadOK(seen[p]) /\ seen' = [seen EXCEPT ![p] = seen[p]]
        /\ kinds' \in [Writers -> SUBSET Kinds]
    BY <1>2, TypesKnown, SameLoad
  <1>4. account' \in [Accounts -> AccountRow]
    <2>1. [account[a] EXCEPT !.deleted = TRUE] \in AccountRow
      <3>1. account[a] \in AccountRow
        BY TypesKnown
      <3> QED
        BY <3>1 DEF AccountRow
    <2>2. account' = [account EXCEPT ![a] = [account[a] EXCEPT !.deleted = TRUE]]
      BY <1>1
    <2> QED
      BY <2>1, <2>2, AccountChanged
  <1> QED
    BY <1>1, <1>2, <1>3, <1>4, BeginStep DEF Doings

LEMMA ReadAccountStep == ASSUME IInv, NEW p \in Operators, ReadAccount(p) PROVE IInv'
  <1>1. PICK a \in Accounts, request \in {"test", "call"} :
            /\ Begin(p, request, a, IF UsesDatabaseCredentials(account[a]) THEN "read" ELSE "loaded")
            /\ seen' = [seen EXCEPT ![p] = [row |-> account[a], rows |-> {}]]
    BY DEF ReadAccount
  <1>2. UNCHANGED <<environment, account, secrets, lock, bootLock, kinds, staged, todo, crashes>>
    BY DEF ReadAccount, table, locks
  <1>3. account' \in [Accounts -> AccountRow] /\ kinds' \in [Writers -> SUBSET Kinds]
    BY <1>2, TypesKnown
  <1>4. /\ [row |-> account[a], rows |-> {}] \in Loads /\ LoadOK([row |-> account[a], rows |-> {}])
        /\ [row |-> account[a], rows |-> {}].row \in AccountRow
    BY TypesKnown DEF Loads, LoadOK
  <1> QED
    BY <1>1, <1>2, <1>3, <1>4, BeginStep DEF Doings

\* A step that goes on with the same account.
LEMMA SameAccount == ASSUME IInv, NEW p \in Writers, UNCHANGED on PROVE on' = [on EXCEPT ![p] = on[p]]
  BY TypesKnown

LEMMA ClearVerdictStep == ASSUME IInv, NEW p \in Operators, ClearVerdict(p) PROVE IInv'
  <1>1. /\ stage[p] = "committed" /\ Goes(p, "done")
        /\ account' = [account EXCEPT ![on[p]].tested = IF account[on[p]].deleted THEN @ ELSE "none"]
        /\ UNCHANGED <<environment, secrets, lock, bootLock, doing, on, kinds, staged, seen, todo, crashes>>
    BY DEF ClearVerdict, locks, local
  <1>2. on[p] \in Accounts
    BY <1>1, TypesKnown DEF IInv, Locking
  <1>3. account' \in [Accounts -> AccountRow]
    BY <1>1, <1>2, VerdictChanged
  <1> QED
    BY <1>1, <1>2, <1>3, TypesKnown, SameAccount, SameLoad, OutsideStep DEF Stages

LEMMA ReadSecretsStep == ASSUME IInv, NEW p \in Operators, ReadSecrets(p) PROVE IInv'
  <1>1. /\ stage[p] = "read" /\ Goes(p, "loaded") /\ seen' = [seen EXCEPT ![p].rows = Active(on[p])]
        /\ UNCHANGED <<environment, account, secrets, lock, bootLock, doing, on, kinds, staged, todo, crashes>>
    BY DEF ReadSecrets, table, locks
  <1>2. on[p] \in Accounts
    BY <1>1, TypesKnown DEF IInv, Locking
  <1> DEFINE load == [seen[p] EXCEPT !.rows = Active(on[p])]
  <1>3. load \in Loads /\ LoadOK(load)
    <2>1. seen[p] \in Loads /\ seen[p].row \in AccountRow /\ Active(on[p]) \in SUBSET Row
      BY <1>1, TypesKnown DEF Active, IInv, Typed
    <2> QED
      BY <2>1 DEF Loads, LoadOK
  <1>4. seen' = [seen EXCEPT ![p] = load]
    BY <1>1
  <1> HIDE DEF load
  <1>5. /\ p \in Writers /\ p \notin Hosts /\ on' = [on EXCEPT ![p] = on[p]]
        /\ account' \in [Accounts -> AccountRow] /\ doing' \in [Writers -> Doings]
        /\ kinds' \in [Writers -> SUBSET Kinds] /\ todo' \in [Hosts -> SUBSET Accounts]
        /\ \A h \in Hosts : doing'[h] = "fill"
    BY <1>1, TypesKnown
  <1>6. "loaded" \in Stages \ {"locked", "written"}
    BY DEF Stages
  <1>7. stage[p] \notin {"locked", "written"} /\ Goes(p, "loaded")
        /\ UNCHANGED <<environment, secrets, lock, bootLock, staged, crashes>>
    BY <1>1
  <1> QED
    BY <1>2, <1>3, <1>4, <1>5, <1>6, <1>7, OutsideStep

LEMMA StampVerdictStep == ASSUME IInv, NEW p \in Operators, StampVerdict(p) PROVE IInv'
  <1>1. PICK verdict \in {"failure", "success"} :
          /\ account' = [account EXCEPT ![on[p]].tested = IF account[on[p]].deleted THEN @ ELSE verdict]
          /\ doing' = [doing EXCEPT ![p] = IF verdict = "success" THEN "passed test" ELSE "failed test"]
    BY DEF StampVerdict
  <1>2. /\ stage[p] = "loaded" /\ Goes(p, "done")
        /\ UNCHANGED <<environment, secrets, lock, bootLock, on, kinds, staged, seen, todo, crashes>>
    BY DEF StampVerdict, locks
  <1>3. on[p] \in Accounts
    BY <1>2, TypesKnown DEF IInv, Locking
  <1>4. account' \in [Accounts -> AccountRow]
    BY <1>1, <1>3, VerdictChanged
  <1>5. doing' \in [Writers -> Doings]
    BY <1>1, TypesKnown DEF Doings
  <1>6. /\ p \in Writers /\ p \notin Hosts /\ on' = [on EXCEPT ![p] = on[p]]
        /\ \A h \in Hosts : doing'[h] = "fill"
        /\ kinds' \in [Writers -> SUBSET Kinds] /\ todo' \in [Hosts -> SUBSET Accounts]
    BY <1>1, <1>2, TypesKnown
  <1>7. seen[p] \in Loads /\ LoadOK(seen[p]) /\ seen' = [seen EXCEPT ![p] = seen[p]]
    BY <1>2, <1>6, SameLoad
  <1>8. "done" \in Stages \ {"locked", "written"}
    BY DEF Stages
  <1>9. stage[p] \notin {"locked", "written"} /\ Goes(p, "done")
        /\ UNCHANGED <<environment, secrets, lock, bootLock, staged, crashes>>
    BY <1>2
  <1> QED
    BY <1>3, <1>4, <1>5, <1>6, <1>7, <1>8, <1>9, OutsideStep

LEMMA SkipAccountStep == ASSUME IInv, NEW h \in Hosts, SkipAccount(h) PROVE IInv'
  <1>1. PICK a \in todo[h] : todo' = [todo EXCEPT ![h] = @ \ {a}]
    BY DEF SkipAccount
  <1>2. /\ stage[h] = "fill"
        /\ UNCHANGED <<environment, account, secrets, lock, bootLock, doing, on, kinds, staged, seen, stage, crashes>>
    BY DEF SkipAccount, table, locks
  <1>3. todo' \in [Hosts -> SUBSET Accounts]
    BY <1>1, TypesKnown
  <1>4. Goes(h, "fill") /\ bootLock = h
    BY <1>2, TypesKnown DEF Goes, IInv, Locking
  <1> QED
    BY <1>2, <1>3, <1>4, TypesKnown, SameAccount, SameLoad, OutsideStep DEF Stages

LEMMA FillAccountStep == ASSUME IInv, NEW h \in Hosts, FillAccount(h) PROVE IInv'
  <1>1. PICK a \in todo[h] : /\ NeedsFill(a)
                              /\ todo' = [todo EXCEPT ![h] = @ \ {a}]
                              /\ on' = [on EXCEPT ![h] = a]
                              /\ kinds' = [kinds EXCEPT ![h] = Generated[account[a].provider]]
    BY DEF FillAccount
  <1>2. /\ stage[h] = "fill" /\ Goes(h, "lock")
        /\ UNCHANGED <<environment, account, secrets, lock, bootLock, doing, staged, seen, crashes>>
    BY DEF FillAccount, table, locks
  <1>3. a \in Accounts /\ todo' \in [Hosts -> SUBSET Accounts]
    BY <1>1, TypesKnown
  <1>4. kinds' \in [Writers -> SUBSET Kinds]
    <2>1. account[a].provider \in Providers
      BY <1>3, TypesKnown DEF AccountRow
    <2>2. Generated[account[a].provider] \in SUBSET Kinds
      BY <2>1 DEF Generated, Providers, Kinds
    <2> QED
      BY <1>1, <2>2, TypesKnown
  <1>5. bootLock = h
    BY <1>2 DEF IInv, Locking
  <1>6. \A r \in secrets : r.account # a
    BY <1>1 DEF NeedsFill, Active, IInv, SomeActive
  <1>7. /\ h \in Writers /\ account' \in [Accounts -> AccountRow] /\ doing' \in [Writers -> Doings]
        /\ \A i \in Hosts : doing'[i] = "fill"
        /\ seen[h] \in Loads /\ LoadOK(seen[h]) /\ seen' = [seen EXCEPT ![h] = seen[h]]
    BY <1>2, TypesKnown, SameLoad
  <1>8. "lock" \in Stages \ {"locked", "written"}
    BY DEF Stages
  <1>9. stage[h] \notin {"locked", "written"} /\ Goes(h, "lock") /\ on' = [on EXCEPT ![h] = a]
        /\ UNCHANGED <<environment, secrets, lock, bootLock, staged, crashes>>
    BY <1>1, <1>2
  <1> QED
    BY <1>3, <1>4, <1>5, <1>6, <1>7, <1>8, <1>9, OutsideStep

LEMMA MarkTestedStep == ASSUME IInv, NEW h \in Hosts, MarkTested(h) PROVE IInv'
  <1>1. /\ stage[h] = "committed" /\ Goes(h, "fill") /\ account' = [account EXCEPT ![on[h]].tested = "success"]
        /\ UNCHANGED <<environment, secrets, lock, bootLock, doing, on, kinds, staged, seen, todo, crashes>>
    BY DEF MarkTested, locks, local
  <1>2. on[h] \in Accounts /\ bootLock = h
    BY <1>1, TypesKnown DEF IInv, Locking
  <1>3. account' \in [Accounts -> AccountRow]
    BY <1>1, <1>2, TypesKnown DEF AccountRow
  <1> QED
    BY <1>1, <1>2, <1>3, TypesKnown, SameAccount, SameLoad, OutsideStep DEF Stages

-----------------------------------------------------------------------------
(* The steps that take and give back a lock *)

Held(l, o, st) == \A a \in Accounts : l[a] # None => o[l[a]] = a /\ st[l[a]] \in {"locked", "written"}
BootHeld(b, st) == b # None => st[b] \in {"fill", "lock", "locked", "written", "committed"}
OwnRows(sg, o) == \A q \in Writers : sg[q] \subseteq {r \in Row : r.by = q /\ r.account = o[q]}

LEMMA LocksKnown ==
    ASSUME IInv
    PROVE  /\ Held(lock, on, stage) /\ BootHeld(bootLock, stage) /\ OwnRows(staged, on)
           /\ lock \in [Accounts -> Writers \cup {None}] /\ bootLock \in Hosts \cup {None}
           /\ staged \in [Writers -> SUBSET Row] /\ crashes \in 0 .. MaxCrashes
           /\ None \notin Writers /\ None \notin Hosts
  <1>1. None \notin Writers /\ None \notin Hosts
    BY NoneAssumption DEF Writers
  <1>2. Held(lock, on, stage)
    BY DEF IInv, Typed, TypeOK, Held
  <1>3. BootHeld(bootLock, stage) /\ OwnRows(staged, on)
    BY DEF IInv, Typed, TypeOK, BootHeld, OwnRows
  <1> QED
    BY <1>1, <1>2, <1>3 DEF IInv, Typed, TypeOK

LEMMA TypedStep ==
    ASSUME IInv, UNCHANGED <<environment, doing, seen>>, secrets' \subseteq Row, crashes' \in 0 .. MaxCrashes,
           account' \in [Accounts -> AccountRow],
           stage' \in [Writers -> Stages], on' \in [Writers -> Accounts \cup {None}],
           kinds' \in [Writers -> SUBSET Kinds], todo' \in [Hosts -> SUBSET Accounts],
           staged' \in [Writers -> SUBSET Row], OwnRows(staged', on'),
           lock' \in [Accounts -> Writers \cup {None}], Held(lock', on', stage'),
           bootLock' \in Hosts \cup {None}, BootHeld(bootLock', stage'),
           \A q \in Writers : stage'[q] = "read" => stage[q] = "read"
    PROVE  Typed'
  <1>1. environment \subseteq Parts
    BY DEF IInv, Typed, TypeOK
  <1>2. doing' \in [Writers -> Doings] /\ \A q \in Writers : LoadOK(seen'[q])
    BY TypesKnown
  <1>3. TypeOK'
    BY <1>1, <1>2 DEF TypeOK, Doings, LoadOK, OwnRows, Held, BootHeld
  <1>4. seen' \in [Writers -> Loads]
    BY TypesKnown
  <1>5. \A q \in Writers : stage'[q] = "read" => seen'[q].row \in AccountRow
    BY DEF IInv, Typed
  <1> QED
    BY <1>3, <1>4, <1>5, TypesKnown DEF Typed

LEMMA LockBootstrapStep == ASSUME IInv, NEW h \in Hosts, LockBootstrap(h) PROVE IInv'
  <1>1. /\ stage[h] = "boot" /\ bootLock = None /\ bootLock' = h
        /\ todo' = [todo EXCEPT ![h] = {a \in Accounts : ~account[a].deleted}]
        /\ stage' = [stage EXCEPT ![h] = "fill"]
        /\ UNCHANGED <<environment, account, secrets, lock, doing, on, kinds, staged, seen, crashes>>
    BY DEF LockBootstrap, BootFree, Goes, table
  <1>2. h \in Writers /\ stage' \in [Writers -> Stages]
    BY <1>1, TypesKnown DEF Stages
  <1>3. todo' \in [Hosts -> SUBSET Accounts]
    BY <1>1, TypesKnown
  <1>4. \A q \in Writers : q # h => stage'[q] = stage[q]
    BY <1>1, TypesKnown
  <1>5. stage'[h] = "fill"
    BY <1>1, <1>2, TypesKnown
  <1>6. Held(lock', on', stage')
    BY <1>1, <1>4, LocksKnown DEF Held
  <1>7. BootHeld(bootLock', stage')
    BY <1>1, <1>5 DEF BootHeld
  <1>8. Typed'
    BY <1>1, <1>2, <1>3, <1>4, <1>5, <1>6, <1>7, TypedStep, TypesKnown, LocksKnown
  <1>9. Locking'
    BY <1>1, <1>2, <1>4, <1>5, LocksKnown, TypesKnown DEF IInv, Locking
  <1>10. Staging'
    <2>1. \A r : Newer(r)' <=> Newer(r)
      BY <1>1 DEF Newer
    <2> QED
      BY <1>1, <1>4, <1>5, <2>1 DEF IInv, Staging
  <1>11. Filling'
    BY <1>1, <1>4, <1>5, TypesKnown DEF IInv, Filling
  <1> QED
    BY <1>1, <1>8, <1>9, <1>10, <1>11, SecretsKept DEF IInv

LEMMA EndFillStep == ASSUME IInv, NEW h \in Hosts, EndFill(h) PROVE IInv'
  <1>1. /\ stage[h] = "fill" /\ bootLock' = IF bootLock = h THEN None ELSE bootLock
        /\ stage' = [stage EXCEPT ![h] = "done"]
        /\ UNCHANGED <<environment, account, secrets, lock, doing, on, kinds, staged, seen, todo, crashes>>
    BY DEF EndFill, Goes, table, local
  <1>2. h \in Writers /\ stage' \in [Writers -> Stages]
    BY <1>1, TypesKnown DEF Stages
  <1>3. bootLock = h /\ bootLock' = None
    BY <1>1 DEF IInv, Locking
  <1>4. \A q \in Writers : q # h => stage'[q] = stage[q]
    BY <1>1, TypesKnown
  <1>5. stage'[h] = "done"
    BY <1>1, <1>2, TypesKnown
  <1>6. Held(lock', on', stage')
    BY <1>1, <1>4, LocksKnown DEF Held
  <1>7. BootHeld(bootLock', stage')
    BY <1>3 DEF BootHeld
  <1>8. Typed'
    BY <1>1, <1>2, <1>3, <1>4, <1>5, <1>6, <1>7, TypedStep, TypesKnown, LocksKnown
  <1>9. Locking'
    BY <1>1, <1>2, <1>3, <1>4, <1>5, TypesKnown DEF IInv, Locking
  <1>10. Staging'
    <2>1. \A r : Newer(r)' <=> Newer(r)
      BY <1>1 DEF Newer
    <2> QED
      BY <1>1, <1>4, <1>5, <2>1 DEF IInv, Staging
  <1>11. Filling'
    BY <1>1, <1>4, <1>5, TypesKnown DEF IInv, Filling
  <1> QED
    BY <1>1, <1>8, <1>9, <1>10, <1>11, SecretsKept DEF IInv

LEMMA LockAccountStep == ASSUME IInv, NEW p \in Writers, LockAccount(p) PROVE IInv'
  <1>1. /\ stage[p] = "lock" /\ lock[on[p]] = None /\ lock' = [lock EXCEPT ![on[p]] = p]
        /\ stage' = [stage EXCEPT ![p] = "locked"]
        /\ UNCHANGED <<environment, account, secrets, bootLock, doing, on, kinds, staged, seen, todo, crashes>>
    BY DEF LockAccount, LockFree, Goes, table, local
  <1>2. on[p] \in Accounts /\ stage' \in [Writers -> Stages]
    BY <1>1, TypesKnown DEF Stages, IInv, Locking
  <1>3. \A q \in Writers : q # p => stage'[q] = stage[q]
    BY <1>1, TypesKnown
  <1>4. stage'[p] = "locked"
    BY <1>1, TypesKnown
  <1>5. /\ lock' \in [Accounts -> Writers \cup {None}] /\ lock'[on[p]] = p
        /\ \A a \in Accounts : a # on[p] => lock'[a] = lock[a]
    BY <1>1, <1>2, LocksKnown
  <1>6. Held(lock', on', stage')
    <2> SUFFICES ASSUME NEW a \in Accounts, lock'[a] # None
                 PROVE  on[lock'[a]] = a /\ stage'[lock'[a]] \in {"locked", "written"}
      BY <1>1 DEF Held
    <2>1. CASE a = on[p]
      BY <2>1, <1>4, <1>5
    <2>2. CASE a # on[p]
      BY <2>2, <1>1, <1>3, <1>5, LocksKnown DEF Held
    <2> QED
      BY <2>1, <2>2
  <1>7. BootHeld(bootLock', stage')
    BY <1>1, <1>3, <1>4, LocksKnown, TypesKnown DEF BootHeld
  <1>8. Typed'
    BY <1>1, <1>2, <1>3, <1>4, <1>5, <1>6, <1>7, TypedStep, TypesKnown, LocksKnown
  <1>9. Locking'
    <2>1. \A q \in Writers : stage'[q] \in {"locked", "written"} => lock'[on'[q]] = q
      BY <1>1, <1>2, <1>3, <1>4, <1>5, LocksKnown DEF IInv, Locking
    <2> QED
      BY <1>1, <1>2, <1>3, <1>4, <2>1, TypesKnown DEF IInv, Locking
  <1>10. Staging'
    <2>1. \A r : Newer(r)' <=> Newer(r)
      BY <1>1 DEF Newer
    <2> QED
      BY <1>1, <1>3, <1>4, <2>1 DEF IInv, Staging
  <1>11. Filling'
    BY <1>1, <1>3, <1>4, TypesKnown DEF IInv, Filling
  <1> QED
    BY <1>1, <1>8, <1>9, <1>10, <1>11, SecretsKept DEF IInv

LEMMA AccountIsGoneStep == ASSUME IInv, NEW p \in Writers, AccountIsGone(p) PROVE IInv'
  <1>1. /\ stage[p] = "locked" /\ lock' = [lock EXCEPT ![on[p]] = None]
        /\ bootLock' = IF bootLock = p THEN None ELSE bootLock
        /\ kinds' = [kinds EXCEPT ![p] = {}]
        /\ stage' = [stage EXCEPT ![p] = "failed"]
        /\ UNCHANGED <<environment, account, secrets, doing, on, staged, seen, todo, crashes>>
    BY DEF AccountIsGone, Goes, table
  <1>2. /\ on[p] \in Accounts /\ lock[on[p]] = p /\ stage' \in [Writers -> Stages]
        /\ kinds' \in [Writers -> SUBSET Kinds]
    BY <1>1, TypesKnown DEF Stages, IInv, Locking
  <1>3. \A q \in Writers : q # p => stage'[q] = stage[q]
    BY <1>1, TypesKnown
  <1>4. stage'[p] = "failed"
    BY <1>1, TypesKnown
  <1>5. /\ lock' \in [Accounts -> Writers \cup {None}] /\ lock'[on[p]] = None
        /\ \A a \in Accounts : a # on[p] => lock'[a] = lock[a]
    BY <1>1, <1>2, LocksKnown
  <1>6. Held(lock', on', stage')
    BY <1>1, <1>2, <1>3, <1>5, LocksKnown DEF Held
  <1>7. bootLock' \in Hosts \cup {None} /\ BootHeld(bootLock', stage')
    BY <1>1, <1>3, LocksKnown, TypesKnown DEF BootHeld
  <1>8. Typed'
    BY <1>1, <1>2, <1>3, <1>4, <1>5, <1>6, <1>7, TypedStep, TypesKnown, LocksKnown
  <1>9. Locking'
    <2>1. \A q \in Writers : stage'[q] \in {"locked", "written"} => lock'[on'[q]] = q
      <3> SUFFICES ASSUME NEW q \in Writers, stage'[q] \in {"locked", "written"}
                   PROVE  lock'[on[q]] = q
        BY <1>1
      <3>1. q # p /\ stage[q] \in {"locked", "written"}
        BY <1>3, <1>4
      <3>2. on[q] \in Accounts /\ lock[on[q]] = q
        BY <3>1 DEF IInv, Locking
      <3> QED
        BY <3>1, <3>2, <1>2, <1>5
    <2>2. \A h \in Hosts : stage'[h] \in {"fill", "lock", "locked", "written", "committed"} => bootLock' = h
      BY <1>1, <1>3, <1>4, TypesKnown DEF IInv, Locking
    <2> QED
      BY <1>1, <1>3, <1>4, <2>1, <2>2 DEF IInv, Locking
  <1>10. Staging'
    <2>1. \A r : Newer(r)' <=> Newer(r)
      BY <1>1 DEF Newer
    <2> QED
      BY <1>1, <1>3, <1>4, <2>1 DEF IInv, Staging
  <1>11. Filling'
    BY <1>1, <1>3, <1>4, TypesKnown DEF IInv, Filling
  <1> QED
    BY <1>1, <1>8, <1>9, <1>10, <1>11, SecretsKept DEF IInv

LEMMA WriteSecretsStep == ASSUME IInv, NEW p \in Writers, WriteSecrets(p) PROVE IInv'
  <1> DEFINE Written(k) == [account |-> on[p], kind |-> k, version |-> NextVersion(on[p], k), by |-> p, active |-> TRUE]
             rows == {Written(k) : k \in kinds[p]}
  <1>1. /\ stage[p] = "locked" /\ staged' = [staged EXCEPT ![p] = rows]
        /\ kinds' = [kinds EXCEPT ![p] = {}]
        /\ stage' = [stage EXCEPT ![p] = "written"]
        /\ UNCHANGED <<environment, account, secrets, lock, bootLock, doing, on, seen, todo, crashes>>
    BY DEF WriteSecrets, Goes, table, locks
  <1>2. /\ on[p] \in Accounts /\ stage' \in [Writers -> Stages]
        /\ kinds' \in [Writers -> SUBSET Kinds] /\ kinds[p] \subseteq Kinds
    BY <1>1, TypesKnown DEF Stages, IInv, Locking
  <1>3. \A k \in kinds[p] : /\ NextVersion(on[p], k) \in Nat \ {0}
                            /\ \A s \in secrets : s.account = on[p] /\ s.kind = k => s.version < NextVersion(on[p], k)
    BY <1>2, NextIsNewer
  <1>4. \A k \in kinds[p] : Written(k) \in Row
    BY <1>2, <1>3 DEF Row
  <1>5. \A r \in rows : /\ r \in Row /\ r.account = on[p] /\ r.by = p /\ r.active
                        /\ r.kind \in kinds[p] /\ r = Written(r.kind)
    BY <1>4
  <1>6. \A r \in rows : Newer(r)
    <2> SUFFICES ASSUME NEW r \in rows PROVE Newer(r)
      OBVIOUS
    <2>1. r.account = on[p] /\ r.kind \in kinds[p] /\ r.version = NextVersion(on[p], r.kind)
      BY <1>5
    <2> QED
      BY <2>1, <1>3 DEF Newer
  <1>7. \A r \in rows, t \in rows : r.kind = t.kind => r = t
    BY <1>5
  <1> HIDE DEF Written, rows
  <1>8. \A q \in Writers : q # p => stage'[q] = stage[q] /\ staged'[q] = staged[q]
    BY <1>1, TypesKnown, LocksKnown
  <1>9. stage'[p] = "written" /\ staged'[p] = rows
    BY <1>1, TypesKnown, LocksKnown
  <1>10. staged' \in [Writers -> SUBSET Row] /\ OwnRows(staged', on')
    BY <1>1, <1>5, <1>8, <1>9, LocksKnown DEF OwnRows
  <1>11. Held(lock', on', stage')
    BY <1>1, <1>8, <1>9, LocksKnown DEF Held
  <1>12. BootHeld(bootLock', stage')
    BY <1>1, <1>8, <1>9, LocksKnown, TypesKnown DEF BootHeld
  <1>13. Typed'
    BY <1>1, <1>2, <1>8, <1>9, <1>10, <1>11, <1>12, TypedStep, TypesKnown, LocksKnown
  <1>14. Locking'
    BY <1>1, <1>2, <1>8, <1>9, TypesKnown DEF IInv, Locking
  <1>15. Staging'
    <2>1. \A r : Newer(r)' <=> Newer(r)
      BY <1>1 DEF Newer
    <2> QED
      BY <1>1, <1>5, <1>6, <1>7, <1>8, <1>9, <2>1 DEF IInv, Staging
  <1>16. Filling'
    BY <1>1, <1>8, <1>9, TypesKnown DEF IInv, Filling
  <1> QED
    BY <1>1, <1>13, <1>14, <1>15, <1>16, SecretsKept DEF IInv

LEMMA CrashStep == ASSUME IInv, NEW p \in Writers, Crash(p) PROVE IInv'
  <1>1. /\ crashes < MaxCrashes /\ crashes' = crashes + 1
        /\ lock' = [a \in Accounts |-> IF lock[a] = p THEN None ELSE lock[a]]
        /\ bootLock' = IF bootLock = p THEN None ELSE bootLock
        /\ staged' = [staged EXCEPT ![p] = {}]
        /\ kinds' = [kinds EXCEPT ![p] = {}]
        /\ stage' = [stage EXCEPT ![p] = IF p \in Hosts THEN "boot" ELSE "failed"]
        /\ UNCHANGED <<environment, account, secrets, doing, on, seen, todo>>
    BY DEF Crash, Goes, table
  <1>2. /\ stage' \in [Writers -> Stages] /\ kinds' \in [Writers -> SUBSET Kinds]
        /\ lock' \in [Accounts -> Writers \cup {None}] /\ staged' \in [Writers -> SUBSET Row]
    BY <1>1, TypesKnown, LocksKnown DEF Stages
  <1>3. \A q \in Writers : q # p => stage'[q] = stage[q] /\ staged'[q] = staged[q]
    BY <1>1, TypesKnown, LocksKnown
  <1>4. stage'[p] \in {"boot", "failed"} /\ staged'[p] = {}
    BY <1>1, TypesKnown, LocksKnown
  <1>5. crashes' \in 0 .. MaxCrashes
    BY <1>1, LocksKnown, CrashesAssumption
  <1>6. OwnRows(staged', on')
    BY <1>1, <1>3, <1>4, LocksKnown DEF OwnRows
  <1>7. Held(lock', on', stage')
    <2> SUFFICES ASSUME NEW a \in Accounts, lock'[a] # None
                 PROVE  on[lock'[a]] = a /\ stage'[lock'[a]] \in {"locked", "written"}
      BY <1>1 DEF Held
    <2>1. lock'[a] = lock[a] /\ lock[a] # p /\ lock[a] \in Writers
      BY <1>1, LocksKnown
    <2> QED
      BY <2>1, <1>3, LocksKnown DEF Held
  <1>8. bootLock' \in Hosts \cup {None} /\ BootHeld(bootLock', stage')
    BY <1>1, <1>3, LocksKnown, TypesKnown DEF BootHeld
  <1>9. Typed'
    BY <1>1, <1>2, <1>3, <1>4, <1>5, <1>6, <1>7, <1>8, TypedStep, TypesKnown
  <1>10. Locking'
    <2>1. \A q \in Writers : stage'[q] \in {"locked", "written"} => lock'[on'[q]] = q
      <3> SUFFICES ASSUME NEW q \in Writers, stage'[q] \in {"locked", "written"}
                   PROVE  lock'[on[q]] = q
        BY <1>1
      <3>1. q # p /\ stage[q] \in {"locked", "written"}
        BY <1>3, <1>4
      <3>2. on[q] \in Accounts /\ lock[on[q]] = q
        BY <3>1 DEF IInv, Locking
      <3> QED
        BY <3>1, <3>2, <1>1
    <2>2. \A h \in Hosts : stage'[h] \in {"fill", "lock", "locked", "written", "committed"} => bootLock' = h
      BY <1>1, <1>3, <1>4, TypesKnown DEF IInv, Locking
    <2> QED
      BY <1>1, <1>3, <1>4, <2>1, <2>2 DEF IInv, Locking
  <1>11. Staging'
    <2>1. \A r : Newer(r)' <=> Newer(r)
      BY <1>1 DEF Newer
    <2> QED
      BY <1>1, <1>3, <1>4, <2>1 DEF IInv, Staging
  <1>12. Filling'
    BY <1>1, <1>3, <1>4, TypesKnown DEF IInv, Filling
  <1> QED
    BY <1>1, <1>9, <1>10, <1>11, <1>12, SecretsKept DEF IInv

LEMMA CommitRotationStep == ASSUME IInv, NEW p \in Writers, CommitRotation(p) PROVE IInv'
  <1> DEFINE rows == staged[p]
             marked == [k \in Kinds |-> IF \E r \in rows : r.kind = k THEN "database" ELSE account[on[p]].refs[k]]
  <1>1. /\ stage[p] = "written" /\ secrets' = Install(rows, secrets)
        /\ account' = [account EXCEPT ![on[p]].refs =
                 [k \in Kinds |-> IF \E r \in rows : r.kind = k THEN "database" ELSE @[k]]]
        /\ staged' = [staged EXCEPT ![p] = {}]
        /\ lock' = [lock EXCEPT ![on[p]] = None]
        /\ stage' = [stage EXCEPT ![p] = IF doing[p] = "save" THEN "done" ELSE "committed"]
        /\ UNCHANGED <<environment, bootLock, doing, on, kinds, seen, todo, crashes>>
    <2>1. rows \ rows = {}
      OBVIOUS
    <2> QED
      BY <2>1 DEF CommitRotation, Commits, Goes
  <1>2. /\ on[p] \in Accounts /\ lock[on[p]] = p /\ stage' \in [Writers -> Stages]
        /\ staged' \in [Writers -> SUBSET Row]
    BY <1>1, TypesKnown, LocksKnown DEF Stages, IInv, Locking
  <1>3. account' \in [Accounts -> AccountRow]
    <2>1. account[on[p]] \in AccountRow
      BY <1>2, TypesKnown
    <2>2. marked \in [Kinds -> {"none", "environment", "database"}]
      BY <2>1 DEF AccountRow
    <2>3. account' = [account EXCEPT ![on[p]] = [account[on[p]] EXCEPT !.refs = marked]]
      BY <1>1
    <2> HIDE DEF marked
    <2>4. [account[on[p]] EXCEPT !.refs = marked] \in AccountRow
      BY <2>1, <2>2 DEF AccountRow
    <2> QED
      BY <2>3, <2>4, AccountChanged
  <1> HIDE DEF marked
  <1>4. secrets' \subseteq Row /\ RotationsSerialize' /\ SomeActive'
    BY <1>1, CommitSerializes
  <1>5. \A q \in Writers : q # p => stage'[q] = stage[q] /\ staged'[q] = staged[q]
    BY <1>1, TypesKnown, LocksKnown
  <1>6. stage'[p] \in {"done", "committed"} /\ staged'[p] = {}
    BY <1>1, TypesKnown, LocksKnown
  <1>7. /\ lock' \in [Accounts -> Writers \cup {None}] /\ lock'[on[p]] = None
        /\ \A a \in Accounts : a # on[p] => lock'[a] = lock[a]
    BY <1>1, <1>2, LocksKnown
  <1>8. Held(lock', on', stage')
    BY <1>1, <1>2, <1>5, <1>7, LocksKnown DEF Held
  <1>9. BootHeld(bootLock', stage')
    <2> SUFFICES ASSUME bootLock # None
                 PROVE  stage'[bootLock] \in {"fill", "lock", "locked", "written", "committed"}
      BY <1>1 DEF BootHeld
    <2>1. CASE bootLock = p
      \* bootLock = p is a host, whose request is a fill
      BY <2>1, <1>1, LocksKnown, TypesKnown
    <2>2. CASE bootLock # p
      BY <2>2, <1>5, LocksKnown, TypesKnown DEF BootHeld
    <2> QED
      BY <2>1, <2>2
  <1>10. Typed'
    BY <1>1, <1>2, <1>3, <1>4, <1>5, <1>6, <1>7, <1>8, <1>9, TypedStep, TypesKnown, LocksKnown DEF OwnRows
  <1>11. \A q \in Writers : q # p /\ stage[q] \in {"locked", "written"} => on[q] # on[p]
    BY <1>2 DEF IInv, Locking
  <1>12. Locking'
    BY <1>1, <1>2, <1>5, <1>6, <1>7, <1>11, TypesKnown DEF IInv, Locking
  <1>13. \A n \in rows : n.account = on[p] /\ n.by = p
    BY DEF IInv, Staging
  <1>14. \A s \in secrets' : \/ s \in rows
                            \/ \E r \in secrets : /\ s.account = r.account /\ s.kind = r.kind
                                                  /\ s.version = r.version /\ s.by = r.by
    <2>1. secrets' = {Superseded(rows, r) : r \in secrets} \cup rows
      BY <1>1 DEF Install, Superseded
    <2>2. secrets \subseteq Row
      BY TypesKnown
    <2> QED
      BY <2>1, <2>2, SupersededIsRow
  <1>15. Staging'
    <2> SUFFICES ASSUME NEW q \in Writers
                 PROVE  /\ stage'[q] # "written" => staged'[q] = {}
                        /\ \A r \in staged'[q] : r.account = on[q] /\ r.by = q /\ r.active /\ Newer(r)'
                        /\ \A r, t \in staged'[q] : r.kind = t.kind => r = t
      BY <1>1 DEF Staging
    <2>1. CASE q = p \/ stage[q] # "written"
      BY <2>1, <1>5, <1>6 DEF IInv, Staging
    <2>2. CASE q # p /\ stage[q] = "written"
      <3>1. on[q] # on[p]
        BY <2>2, <1>11
      <3>2. \A r \in staged[q] : r.account = on[q] /\ r.by = q /\ r.active /\ Newer(r)
        BY DEF IInv, Staging
      <3>3. \A r \in staged[q] : Newer(r)'
        BY <3>1, <3>2, <1>13, <1>14 DEF Newer
      <3> QED
        BY <2>2, <3>2, <3>3, <1>5 DEF IInv, Staging
    <2> QED
      BY <2>1, <2>2
  <1>16. ASSUME NEW h \in Hosts, p \in Hosts, h # p
         PROVE  stage[h] \notin {"lock", "locked", "written"}
    BY <1>1, <1>16 DEF IInv, Locking
  <1>17. Filling'
    <2> SUFFICES ASSUME NEW h \in Hosts, stage'[h] \in {"lock", "locked", "written"},
                        NEW s \in secrets', s.account = on[h]
                 PROVE  s.by \notin Hosts
      BY <1>1 DEF Filling
    <2>1. h # p /\ stage[h] = stage'[h] /\ p \notin Hosts
      BY <1>5, <1>6, <1>16, TypesKnown
    <2>2. \A r \in secrets : r.account = on[h] => r.by \notin Hosts
      BY <2>1 DEF IInv, Filling
    <2> QED
      BY <2>1, <2>2, <1>13, <1>14
  <1>18. FilledOnce'
    <2> SUFFICES ASSUME NEW s \in secrets', NEW t \in secrets', s.account = t.account,
                        s.by \in Hosts, t.by \in Hosts
                 PROVE  s.by = t.by
      BY DEF FilledOnce
    <2>1. CASE p \in Hosts
      <3>1. \A r \in secrets : r.account = on[p] => r.by \notin Hosts
        BY <2>1, <1>1 DEF IInv, Filling
      <3> QED
        BY <3>1, <1>13, <1>14 DEF IInv, FilledOnce
    <2>2. CASE p \notin Hosts
      BY <2>2, <1>13, <1>14 DEF IInv, FilledOnce
    <2> QED
      BY <2>1, <2>2
  <1> QED
    BY <1>4, <1>10, <1>12, <1>15, <1>17, <1>18 DEF IInv

-----------------------------------------------------------------------------
LEMMA Inductive == ASSUME IInv, [Next]_vars PROVE IInv'
  <1>1. CASE UNCHANGED vars
    <2>1. UNCHANGED <<environment, account, secrets, lock, bootLock, doing, stage, on, kinds, staged, seen,
                      todo, crashes>>
      BY <1>1 DEF vars, table, locks, local
    <2>2. Typed'
      BY <2>1, TypedStep, TypesKnown, LocksKnown
    <2>3. Locking'
      BY <2>1 DEF IInv, Locking
    <2>4. Staging'
      BY <2>1 DEF IInv, Staging, Newer
    <2>5. Filling'
      BY <2>1 DEF IInv, Filling
    <2> QED
      BY <2>1, <2>2, <2>3, <2>4, <2>5, SecretsKept DEF IInv
  <1>2. ASSUME NEW p \in Operators, StartRotation(p) \/ SaveAccount(p) \/ DeleteAccount(p) \/ ReadAccount(p)
        PROVE  IInv'
    BY <1>2, StartRotationStep, SaveAccountStep, DeleteAccountStep, ReadAccountStep
  <1>3. ASSUME NEW p \in Operators, RequestStep(p) PROVE IInv'
    BY <1>3, ClearVerdictStep, ReadSecretsStep, StampVerdictStep DEF RequestStep
  <1>4. ASSUME NEW h \in Hosts, HostStep(h) PROVE IInv'
    BY <1>4, LockBootstrapStep, SkipAccountStep, FillAccountStep, MarkTestedStep, EndFillStep DEF HostStep
  <1>5. ASSUME NEW p \in Writers, RotationStep(p) \/ Crash(p) PROVE IInv'
    BY <1>5, LockAccountStep, AccountIsGoneStep, WriteSecretsStep, CommitRotationStep, CrashStep DEF RotationStep
  <1> QED
    BY <1>1, <1>2, <1>3, <1>4, <1>5 DEF Next

LEMMA Invariance == Spec => []IInv
  <1>1. Init => IInv
    BY Initially
  <1>2. IInv /\ [Next]_vars => IInv'
    BY Inductive
  <1> QED
    BY <1>1, <1>2, PTL DEF Spec

\* The state is well formed, every lock held by a rotation or a fill that has taken it.
THEOREM TypeCorrect == Spec => []TypeOK
  <1>1. IInv => TypeOK
    BY DEF IInv, Typed
  <1> QED
    BY <1>1, Invariance, PTL

\* However many requests and hosts rotate an account's secrets, crash and start again, the versions
\* of a kind never collide and exactly the last is active (provider_credential.rs:67).
THEOREM RotationsAlwaysSerialize == Spec => []RotationsSerialize
  <1>1. IInv => RotationsSerialize
    BY DEF IInv
  <1> QED
    BY <1>1, Invariance, PTL

\* However many hosts start together, crash and start again, the generated secrets of an account are
\* those of one of them (provider_credential.rs:134).
THEOREM AlwaysFilledOnce == Spec => []FilledOnce
  <1>1. IInv => FilledOnce
    BY DEF IInv
  <1> QED
    BY <1>1, Invariance, PTL

-----------------------------------------------------------------------------
(***************************************************************************)
(* What a test or a call has loaded.                                       *)
(***************************************************************************)

\* A request writes secrets once: before its commit there are none of its own.
NotYet ==
    \A p \in Operators :
        stage[p] \in {"idle", "lock", "locked", "written"} => \A r \in secrets : r.by # p

\* An account that a host fills or has filled had no complete environment; the environment and the
\* provider of an account do not change.
Bare(a) == ~HasEnvironmentCredentials(account[a].provider)
FilledBare ==
    /\ \A r \in secrets : r.by \in Hosts => Bare(r.account)
    /\ \A h \in Hosts : stage[h] \in {"lock", "locked", "written"} => Bare(on[h])

\* What has been read: rows of the account that is read, from rotations that had been committed.
SeenOwn ==
    /\ \A p \in Operators :
          /\ stage[p] = "idle" => seen[p] = Unread
          /\ seen[p] # Unread \/ stage[p] = "read"
                => on[p] \in Accounts /\ seen[p].row.provider = account[on[p]].provider
          /\ \A r \in seen[p].rows : r.account = on[p]
    /\ \A p \in Writers : \A r \in seen[p].rows :
          \E s \in secrets : s.account = r.account /\ s.by = r.by

\* The verdict of a test was passed on what it had loaded, and that is not read again.
Passed == \A p \in Operators : doing[p] = "passed test" => stage[p] = "done"

LoadInv == NotYet /\ FilledBare /\ SeenOwn /\ Passed /\ PassedTestUsesAccount /\ LoadsAreWhole

\* The provider of an account does not change, nor does the environment.
SameProviders == environment' = environment /\ \A a \in Accounts : account'[a].provider = account[a].provider
Rotating == {"lock", "locked", "written"}

\* What a step that commits no secrets leaves of the loads of the others, and of its own as long as
\* it loads nothing.
LEMMA QuietStep ==
    ASSUME IInv, LoadInv, NEW p \in Writers, UNCHANGED <<secrets, seen>>, SameProviders,
           \A q \in Writers : q # p => stage'[q] = stage[q] /\ on'[q] = on[q] /\ doing'[q] = doing[q],
           stage[p] # "done", stage'[p] \notin {"idle", "read"}, doing'[p] = doing[p] \/ doing'[p] # "passed test",
           p \in Operators /\ stage'[p] \in Rotating => stage[p] \in Rotating \cup {"idle"},
           p \in Operators => on'[p] = on[p] \/ stage[p] = "idle",
           p \in Hosts /\ stage'[p] \in Rotating => on'[p] \in Accounts /\ Bare(on'[p])
    PROVE  LoadInv'
  <1>1. /\ Operators \subseteq Writers /\ Hosts \subseteq Writers /\ Operators \cap Hosts = {}
        /\ secrets \subseteq Row
    BY TypesKnown
  <1>2. NotYet'
    BY <1>1 DEF LoadInv, NotYet, Rotating
  <1>3. \A a \in Accounts : Bare(a)' <=> Bare(a)
    BY DEF SameProviders, Bare, HasEnvironmentCredentials
  <1>4. FilledBare'
    <2>1. \A r \in secrets : r.account \in Accounts
      BY <1>1 DEF Row
    <2>2. \A h \in Hosts : stage'[h] \in Rotating => on'[h] \in Accounts /\ Bare(on'[h])
      BY <1>1 DEF LoadInv, FilledBare, Rotating, IInv, Locking
    <2> QED
      BY <1>3, <2>1, <2>2 DEF LoadInv, FilledBare, Rotating, Bare
  <1>5. SeenOwn'
    <2>1. ASSUME NEW q \in Operators
          PROVE  /\ stage'[q] = "idle" => seen[q] = Unread
                 /\ seen[q] # Unread \/ stage'[q] = "read" => on'[q] \in Accounts /\ seen[q].row.provider = account'[on'[q]].provider
                 /\ \A r \in seen[q].rows : r.account = on'[q]
      <3>1. CASE on'[q] = on[q]
        <4>1. stage'[q] \in {"idle", "read"} => stage[q] = stage'[q]
          BY <1>1
        <4>2. \A a \in Accounts : account'[a].provider = account[a].provider
          BY DEF SameProviders
        <4>3. /\ stage[q] = "idle" => seen[q] = Unread
              /\ seen[q] # Unread \/ stage[q] = "read" => on[q] \in Accounts /\ seen[q].row.provider = account[on[q]].provider
              /\ \A r \in seen[q].rows : r.account = on[q]
          BY DEF LoadInv, SeenOwn
        <4> QED
          BY <3>1, <4>1, <4>2, <4>3
      <3>2. CASE on'[q] # on[q]
        <4>1. q = p /\ seen[q] = Unread
          BY <3>2, <1>1 DEF LoadInv, SeenOwn
        <4>2. Unread.rows = {}
          BY DEF Unread
        <4>3. stage'[q] \notin {"idle", "read"} /\ seen[q].rows = {}
          BY <4>1, <4>2
        <4> QED
          BY <4>1, <4>3
      <3> QED
        BY <3>1, <3>2
    <2> QED
      BY <2>1 DEF LoadInv, SeenOwn
  <1>6. Passed'
    BY <1>1 DEF LoadInv, Passed
  <1>7. PassedTestUsesAccount'
    <2> SUFFICES ASSUME NEW q \in Operators, doing'[q] = "passed test" PROVE CallsAs(seen[q])' = "account"
      BY DEF PassedTestUsesAccount
    <2>1. doing[q] = "passed test"
      BY <1>1
    <2>2. CallsAs(seen[q]) = "account"
      BY <2>1 DEF LoadInv, PassedTestUsesAccount
    <2>3. CallsAs(seen[q])' = CallsAs(seen[q])
      BY DEF CallsAs, PartsOf, HasDeploymentConfig, SameProviders
    <2> QED
      BY <2>2, <2>3
  <1>8. LoadsAreWhole'
    BY DEF LoadInv, LoadsAreWhole
  <1> QED
    BY <1>2, <1>4, <1>5, <1>6, <1>7, <1>8 DEF LoadInv

\* Some rows hold the last of each kind, of the writers that they hold a row of.
Whole(rows, all) ==
    \A r \in rows, w \in all :
        w.account = r.account /\ w.by = r.by => \E n \in rows : n.kind = w.kind /\ n.version >= w.version

LEMMA WholeLoads == LoadsAreWhole <=> \A q \in Writers : Whole(seen[q].rows, secrets)
  BY DEF LoadsAreWhole, Whole

LEMMA WholeLoadsNext == LoadsAreWhole' <=> \A q \in Writers : Whole(seen'[q].rows, secrets')
  BY DEF LoadsAreWhole, Whole

\* A step that loads: what it has loaded are committed rows of its account, the last of each kind.
LEMMA LoadingStep ==
    ASSUME IInv, LoadInv, NEW p \in Operators, UNCHANGED <<environment, account, secrets>>, NEW load,
           seen \in [Writers -> Loads], seen' = [seen EXCEPT ![p] = load],
           \A q \in Writers : q # p => stage'[q] = stage[q] /\ on'[q] = on[q] /\ doing'[q] = doing[q],
           stage'[p] \in {"read", "loaded"}, doing'[p] # "passed test",
           on'[p] \in Accounts, load.row.provider = account[on'[p]].provider,
           \A r \in load.rows : r \in secrets /\ r.account = on'[p],
           \A r \in load.rows, w \in secrets : w.account = on'[p] =>
               \E n \in load.rows : n.kind = w.kind /\ n.version >= w.version
    PROVE  LoadInv'
  <1>1. /\ Operators \subseteq Writers /\ Hosts \subseteq Writers /\ Operators \cap Hosts = {}
    BY TypesKnown
  <1>2. seen'[p] = load /\ \A q \in Writers : q # p => seen'[q] = seen[q]
    BY <1>1
  <1>3. NotYet'
    BY <1>1 DEF LoadInv, NotYet
  <1>4. FilledBare'
    <2>1. \A h \in Hosts : stage'[h] = stage[h] /\ on'[h] = on[h]
      BY <1>1
    <2>2. \A a : Bare(a)' <=> Bare(a)
      BY DEF Bare, HasEnvironmentCredentials
    <2> QED
      BY <2>1, <2>2 DEF LoadInv, FilledBare, Bare
  <1>5. SeenOwn'
    <2>1. ASSUME NEW q \in Operators
          PROVE  /\ stage'[q] = "idle" => seen'[q] = Unread
                 /\ seen'[q] # Unread \/ stage'[q] = "read" => on'[q] \in Accounts /\ seen'[q].row.provider = account[on'[q]].provider
                 /\ \A r \in seen'[q].rows : r.account = on'[q]
      <3>1. CASE q = p
        BY <3>1, <1>2
      <3>2. CASE q # p
        <4>1. stage'[q] = stage[q] /\ on'[q] = on[q] /\ seen'[q] = seen[q]
          BY <3>2, <1>1, <1>2
        <4>2. /\ stage[q] = "idle" => seen[q] = Unread
              /\ seen[q] # Unread \/ stage[q] = "read" => on[q] \in Accounts /\ seen[q].row.provider = account[on[q]].provider
              /\ \A r \in seen[q].rows : r.account = on[q]
          BY DEF LoadInv, SeenOwn
        <4> QED
          BY <4>1, <4>2
      <3> QED
        BY <3>1, <3>2
    <2>2. \A q \in Writers : \A r \in seen'[q].rows : \E s \in secrets : s.account = r.account /\ s.by = r.by
      BY <1>1, <1>2 DEF LoadInv, SeenOwn
    <2> QED
      BY <2>1, <2>2 DEF SeenOwn
  <1>6. Passed'
    BY <1>1 DEF LoadInv, Passed
  <1>7. PassedTestUsesAccount'
    <2> SUFFICES ASSUME NEW q \in Operators, doing'[q] = "passed test" PROVE CallsAs(seen[q])' = "account"
      BY DEF PassedTestUsesAccount
    <2>1. doing[q] = "passed test" /\ seen'[q] = seen[q]
      BY <1>1, <1>2
    <2>2. CallsAs(seen[q]) = "account"
      BY <2>1 DEF LoadInv, PassedTestUsesAccount
    <2>3. CallsAs(seen[q])' = CallsAs(seen[q])
      BY <2>1 DEF CallsAs, PartsOf, HasDeploymentConfig
    <2> QED
      BY <2>2, <2>3
  <1>8. LoadsAreWhole'
    <2>1. Whole(load.rows, secrets)
      BY DEF Whole
    <2>2. \A q \in Writers : Whole(seen[q].rows, secrets)
      BY WholeLoads DEF LoadInv
    <2>3. \A q \in Writers : Whole(seen'[q].rows, secrets')
      BY <1>2, <2>1, <2>2
    <2> QED
      BY <2>3, WholeLoadsNext
  <1> QED
    BY <1>3, <1>4, <1>5, <1>6, <1>7, <1>8 DEF LoadInv

\* An edit of an account's row other than its provider.
LEMMA ProviderKept ==
    ASSUME IInv, UNCHANGED environment, NEW a \in Accounts, NEW row, row.provider = account[a].provider,
           account' = [account EXCEPT ![a] = row]
    PROVE  SameProviders
  BY TypesKnown DEF SameProviders

\* A request starts with nothing read and nothing committed of its own.
LEMMA StartRotationLoads == ASSUME IInv, LoadInv, NEW p \in Operators, StartRotation(p) PROVE LoadInv'
  <1>1. PICK a \in Accounts : Begin(p, "rotate", a, "lock")
    BY DEF StartRotation
  <1>2. UNCHANGED <<environment, account, secrets, seen>>
    BY DEF StartRotation, table
  <1> QED
    BY <1>1, <1>2, QuietStep, TypesKnown DEF Begin, Goes, SameProviders, Rotating

\* An edit of an account leaves its provider, and what was read of it before.
LEMMA SaveAccountLoads == ASSUME IInv, LoadInv, NEW p \in Operators, SaveAccount(p) PROVE LoadInv'
  <1>1. PICK a \in Accounts, write \in Writes \cup {{}}, named \in Named, data \in {{"metadata"}, Metadata} :
            /\ ~account[a].deleted
            /\ Begin(p, "save", a, IF write = {} THEN "done" ELSE "lock")
            /\ kinds' = [kinds EXCEPT ![p] = write]
            /\ account' = [account EXCEPT
                  ![a].refs = EditedRefs(@, write, named),
                  ![a].metadata = data]
    BY Zenon DEF SaveAccount
  <1>2. UNCHANGED <<environment, secrets, seen>>
    BY DEF SaveAccount
  <1>3. SameProviders
    BY <1>1, <1>2, TypesKnown DEF SameProviders, AccountRow
  <1> QED
    BY <1>1, <1>2, <1>3, QuietStep, TypesKnown DEF Begin, Goes, Rotating

\* A deleted account keeps its row.
LEMMA DeleteAccountLoads == ASSUME IInv, LoadInv, NEW p \in Operators, DeleteAccount(p) PROVE LoadInv'
  <1>1. PICK a \in Accounts : /\ Begin(p, "delete", a, "done")
                              /\ account' = [account EXCEPT ![a].deleted = TRUE]
    BY DEF DeleteAccount
  <1>2. UNCHANGED <<environment, secrets, seen>>
    BY DEF DeleteAccount
  <1>3. SameProviders
    BY <1>1, <1>2, TypesKnown DEF SameProviders, AccountRow
  <1> QED
    BY <1>1, <1>2, <1>3, QuietStep, TypesKnown DEF Begin, Goes, Rotating

\* The account's own column for the verdict is none that a loaded row is used for.
LEMMA ClearVerdictLoads == ASSUME IInv, LoadInv, NEW p \in Operators, ClearVerdict(p) PROVE LoadInv'
  <1>1. UNCHANGED <<environment, secrets, seen, on, doing>>
    BY DEF ClearVerdict, local
  <1>2. SameProviders
    BY <1>1, TypesKnown DEF SameProviders, AccountRow, ClearVerdict
  <1> QED
    BY <1>1, <1>2, QuietStep, TypesKnown DEF ClearVerdict, Goes, Rotating

\* The row is read first, and no secrets yet.
LEMMA ReadAccountLoads == ASSUME IInv, LoadInv, NEW p \in Operators, ReadAccount(p) PROVE LoadInv'
  <1>1. PICK a \in Accounts, request \in {"test", "call"} :
           /\ Begin(p, request, a, IF UsesDatabaseCredentials(account[a]) THEN "read" ELSE "loaded")
           /\ seen' = [seen EXCEPT ![p] = [row |-> account[a], rows |-> {}]]
    BY DEF ReadAccount
  <1>2. UNCHANGED <<environment, account, secrets>>
    BY DEF ReadAccount, table
  <1> DEFINE load == [row |-> account[a], rows |-> {}]
  <1>3. load.row = account[a] /\ load.rows = {} /\ seen' = [seen EXCEPT ![p] = load]
    BY <1>1
  <1> HIDE DEF load
  <1>4. /\ on' = [on EXCEPT ![p] = a] /\ doing' = [doing EXCEPT ![p] = request]
        /\ \E s \in {"read", "loaded"} : stage' = [stage EXCEPT ![p] = s]
    BY <1>1 DEF Begin, Goes
  <1> QED
    BY <1>2, <1>3, <1>4, LoadingStep, TypesKnown

\* All active rows at once: the last of each kind, so no older one of any rotation.
LEMMA ReadSecretsLoads == ASSUME IInv, LoadInv, NEW p \in Operators, ReadSecrets(p) PROVE LoadInv'
  <1> DEFINE load == [seen[p] EXCEPT !.rows = Active(on[p])]
  <1>1. /\ stage[p] = "read" /\ stage' = [stage EXCEPT ![p] = "loaded"]
        /\ UNCHANGED <<environment, account, secrets, doing, on>>
        /\ seen' = [seen EXCEPT ![p] = load]
    BY DEF ReadSecrets, Goes, table
  <1>2. seen[p] \in Loads /\ seen[p].row \in AccountRow /\ on[p] \in Accounts
    BY <1>1, TypesKnown DEF IInv, Typed, Locking
  <1>3. load.row = seen[p].row /\ load.rows = Active(on[p])
    BY <1>2 DEF Loads
  <1>4. load.row.provider = account[on[p]].provider
    BY <1>1, <1>3 DEF LoadInv, SeenOwn
  <1> HIDE DEF load
  <1>5. \A r \in load.rows : r \in secrets /\ r.account = on[p]
    BY <1>3 DEF Active
  <1>6. \A w \in secrets : w.account = on[p] => \E n \in load.rows : n.kind = w.kind /\ n.version >= w.version
    <2> SUFFICES ASSUME NEW w \in secrets, w.account = on[p]
                 PROVE  \E n \in load.rows : n.kind = w.kind /\ n.version >= w.version
      OBVIOUS
    <2>1. PICK t \in secrets : t.account = w.account /\ t.kind = w.kind /\ t.active
      BY DEF IInv, SomeActive
    <2>2. t \in load.rows
      BY <2>1, <1>3 DEF Active
    <2>3. w.version <= t.version
      BY <2>1 DEF IInv, RotationsSerialize
    <2>4. w.version \in Nat /\ t.version \in Nat
      BY TypesKnown DEF Row
    <2> QED
      BY <2>1, <2>2, <2>3, <2>4
  <1>7. doing[p] # "passed test"
    BY <1>1 DEF LoadInv, Passed
  <1> QED
    BY <1>1, <1>2, <1>4, <1>5, <1>6, <1>7, LoadingStep, TypesKnown

\* What a test asks for covers what a call needs of the account.
LEMMA ReadyUsesAccount == ASSUME NEW load, IsReady(load) PROVE CallsAs(load) = "account"
  <1>1. /\ load.row.provider \in {"stripe", "alipay", "wechat_pay"}
        /\ ReadinessNeeds[load.row.provider] \subseteq PartsOf(load)
    BY DEF IsReady, ReadinessNeeds
  <1>2. MergeNeeds[load.row.provider] \subseteq ReadinessNeeds[load.row.provider]
    BY <1>1 DEF MergeNeeds, ReadinessNeeds, Parts, Kinds, Metadata
  <1> QED
    BY <1>1, <1>2 DEF CallsAs

\* The verdict is passed on what was loaded.
LEMMA StampVerdictLoads == ASSUME IInv, LoadInv, NEW p \in Operators, StampVerdict(p) PROVE LoadInv'
  <1>1. PICK verdict \in {"failure"} \cup IF IsReady(seen[p]) THEN {"success"} ELSE {} :
           /\ account' = [account EXCEPT ![on[p]].tested = IF account[on[p]].deleted THEN @ ELSE verdict]
           /\ doing' = [doing EXCEPT ![p] = IF verdict = "success" THEN "passed test" ELSE "failed test"]
    BY Zenon DEF StampVerdict
  <1>2. /\ stage[p] = "loaded" /\ stage' = [stage EXCEPT ![p] = "done"]
        /\ UNCHANGED <<environment, secrets, seen, on>>
    BY DEF StampVerdict, Goes
  <1>3. SameProviders
    <2> DEFINE row == [account[on[p]] EXCEPT !.tested = IF account[on[p]].deleted THEN @ ELSE verdict]
    <2>1. on[p] \in Accounts /\ account[on[p]] \in AccountRow
      BY <1>2, TypesKnown DEF IInv, Locking
    <2>2. row.provider = account[on[p]].provider
      BY <2>1 DEF AccountRow
    <2>3. account' = [account EXCEPT ![on[p]] = row]
      BY <1>1
    <2> QED
      BY <1>2, <2>1, <2>2, <2>3, ProviderKept
  <1>4. /\ p \in Writers /\ p \notin Hosts /\ stage'[p] = "done"
        /\ \A q \in Writers : q # p => stage'[q] = stage[q] /\ on'[q] = on[q] /\ doing'[q] = doing[q]
    BY <1>1, <1>2, TypesKnown
  <1>5. CASE verdict # "success"
    BY <1>1, <1>2, <1>3, <1>4, <1>5, QuietStep, TypesKnown DEF Rotating
  <1>6. CASE verdict = "success"
    <2>1. CallsAs(seen[p]) = "account"
      BY <1>1, <1>6, ReadyUsesAccount
    <2>2. NotYet'
      BY <1>2, <1>4, TypesKnown DEF LoadInv, NotYet
    <2>3. FilledBare'
      <3>1. \A a \in Accounts : Bare(a)' <=> Bare(a)
        BY <1>3 DEF SameProviders, Bare, HasEnvironmentCredentials
      <3>2. \A r \in secrets : r.account \in Accounts
        BY TypesKnown DEF Row
      <3>3. \A h \in Hosts : stage'[h] \in Rotating => on'[h] \in Accounts /\ Bare(on'[h])
        BY <1>2, <1>4, TypesKnown DEF LoadInv, FilledBare, Rotating, IInv, Locking
      <3> QED
        BY <1>2, <3>1, <3>2, <3>3 DEF LoadInv, FilledBare, Rotating, Bare
    <2>4. SeenOwn'
      <3>1. ASSUME NEW q \in Operators
            PROVE  /\ stage'[q] = "idle" => seen[q] = Unread
                   /\ seen[q] # Unread \/ stage'[q] = "read"
                         => on[q] \in Accounts /\ seen[q].row.provider = account'[on[q]].provider
                   /\ \A r \in seen[q].rows : r.account = on[q]
        <4>1. stage'[q] \in {"idle", "read"} => stage[q] = stage'[q]
          BY <1>2, <1>4, TypesKnown
        <4>2. \A a \in Accounts : account'[a].provider = account[a].provider
          BY <1>3 DEF SameProviders
        <4>3. /\ stage[q] = "idle" => seen[q] = Unread
              /\ seen[q] # Unread \/ stage[q] = "read"
                    => on[q] \in Accounts /\ seen[q].row.provider = account[on[q]].provider
              /\ \A r \in seen[q].rows : r.account = on[q]
          BY DEF LoadInv, SeenOwn
        <4> QED
          BY <4>1, <4>2, <4>3
      <3> QED
        BY <3>1, <1>2 DEF LoadInv, SeenOwn
    <2>5. Passed'
      BY <1>2, <1>4, TypesKnown DEF LoadInv, Passed
    <2>6. PassedTestUsesAccount'
      <3> SUFFICES ASSUME NEW q \in Operators, doing'[q] = "passed test" PROVE CallsAs(seen[q])' = "account"
        BY DEF PassedTestUsesAccount
      <3>1. CallsAs(seen[q]) = "account"
        BY <2>1, <1>4, TypesKnown DEF LoadInv, PassedTestUsesAccount
      <3>2. CallsAs(seen[q])' = CallsAs(seen[q])
        BY <1>2 DEF CallsAs, PartsOf, HasDeploymentConfig
      <3> QED
        BY <3>1, <3>2
    <2>7. LoadsAreWhole'
      BY <1>2 DEF LoadInv, LoadsAreWhole
    <2> QED
      BY <2>2, <2>3, <2>4, <2>5, <2>6, <2>7 DEF LoadInv
  <1> QED
    BY <1>5, <1>6

\* A host fills accounts that have no complete environment only.
LEMMA HostLoads == ASSUME IInv, LoadInv, NEW h \in Hosts, HostStep(h) PROVE LoadInv'
  <1>1. h \in Writers /\ h \notin Operators /\ doing[h] = "fill"
    BY TypesKnown
  <1>2. UNCHANGED <<environment, secrets, seen, doing>>
    BY DEF HostStep, LockBootstrap, SkipAccount, FillAccount, MarkTested, EndFill, table, local
  <1>3. SameProviders
    <2>1. CASE MarkTested(h)
      BY <2>1, <1>2, TypesKnown DEF SameProviders, AccountRow, MarkTested
    <2>2. CASE LockBootstrap(h) \/ SkipAccount(h) \/ FillAccount(h) \/ EndFill(h)
      BY <2>2 DEF SameProviders, LockBootstrap, SkipAccount, FillAccount, EndFill, table
    <2> QED
      BY <2>1, <2>2 DEF HostStep
  <1>4. \A q \in Writers : q # h => stage'[q] = stage[q] /\ on'[q] = on[q]
    BY TypesKnown DEF HostStep, LockBootstrap, SkipAccount, FillAccount, MarkTested, EndFill, Goes, local
  <1>5. stage[h] \in {"boot", "fill", "committed"} /\ stage'[h] \in {"fill", "done", "lock"}
    BY <1>1, TypesKnown DEF HostStep, LockBootstrap, SkipAccount, FillAccount, MarkTested, EndFill, Goes
  <1>6. stage'[h] = "lock" => on'[h] \in Accounts /\ Bare(on'[h])
    <2>1. ASSUME stage'[h] = "lock"
          PROVE  FillAccount(h)
      BY <2>1, <1>1, TypesKnown DEF HostStep, LockBootstrap, SkipAccount, FillAccount, MarkTested, EndFill, Goes
    <2>2. ASSUME FillAccount(h)
          PROVE  on'[h] \in Accounts /\ Bare(on'[h])
      <3>1. PICK a \in todo[h] : NeedsFill(a) /\ on' = [on EXCEPT ![h] = a]
        BY <2>2 DEF FillAccount
      <3>2. on'[h] = a /\ a \in Accounts
        BY <3>1, <1>1, TypesKnown
      <3> QED
        BY <3>1, <3>2 DEF NeedsFill, Bare
    <2> QED
      BY <2>1, <2>2
  <1> QED
    BY <1>1, <1>2, <1>3, <1>4, <1>5, <1>6, QuietStep DEF Rotating

\* The rows that a rotation commits are those of a request or a fill that had none of the account.
LEMMA CommitLoads == ASSUME IInv, LoadInv, NEW p \in Writers, CommitRotation(p) PROVE LoadInv'
  <1> DEFINE rows == staged[p]
  <1>1. /\ stage[p] = "written" /\ secrets' = Install(rows, secrets)
        /\ account' = [account EXCEPT ![on[p]].refs =
                 [k \in Kinds |-> IF \E r \in rows : r.kind = k THEN "database" ELSE @[k]]]
        /\ stage' = [stage EXCEPT ![p] = IF doing[p] = "save" THEN "done" ELSE "committed"]
        /\ UNCHANGED <<environment, doing, on, seen>>
    <2>1. rows \ rows = {}
      OBVIOUS
    <2> QED
      BY <2>1 DEF CommitRotation, Commits, Goes
  <1>2. on[p] \in Accounts /\ stage'[p] \in {"done", "committed"}
    BY <1>1, TypesKnown DEF IInv, Locking
  <1>3. \A q \in Writers : q # p => stage'[q] = stage[q]
    BY <1>1, TypesKnown
  <1>4. SameProviders
    <2> DEFINE row == [account[on[p]] EXCEPT !.refs =
                          [k \in Kinds |-> IF \E r \in rows : r.kind = k THEN "database" ELSE @[k]]]
    <2>1. row.provider = account[on[p]].provider
      BY <1>2, TypesKnown DEF AccountRow
    <2>2. account' = [account EXCEPT ![on[p]] = row]
      BY <1>1
    <2> HIDE DEF row
    <2> QED
      BY <1>1, <1>2, <2>1, <2>2, ProviderKept
  <1>5. \A n \in rows : n.account = on[p] /\ n.by = p
    BY DEF IInv, Staging
  <1>6. secrets' = {Superseded(rows, r) : r \in secrets} \cup rows
    BY <1>1 DEF Install, Superseded
  <1>7. /\ \A s \in secrets' : \/ s \in rows
                              \/ \E r \in secrets : /\ s.account = r.account /\ s.kind = r.kind
                                                    /\ s.version = r.version /\ s.by = r.by
        /\ \A r \in secrets : \E s \in secrets' : s.account = r.account /\ s.by = r.by
    BY <1>6, TypesKnown, SupersededIsRow
  <1> HIDE DEF rows
  <1>8. \A r \in secrets : r.account = on[p] => r.by # p
    <2>1. CASE p \in Hosts
      BY <2>1, <1>1 DEF IInv, Filling
    <2>2. CASE p \in Operators
      BY <2>2, <1>1 DEF LoadInv, NotYet
    <2> QED
      BY <2>1, <2>2 DEF Writers
  <1>9. NotYet'
    BY <1>2, <1>3, <1>5, <1>7, TypesKnown DEF LoadInv, NotYet
  <1>10. FilledBare'
    <2>1. \A a \in Accounts : Bare(a)' <=> Bare(a)
      BY <1>4 DEF SameProviders, Bare, HasEnvironmentCredentials
    <2>2. \A s \in secrets' : s.by \in Hosts => s.account \in Accounts /\ Bare(s.account)
      <3>1. \A r \in secrets : r.account \in Accounts
        BY TypesKnown DEF Row
      <3>2. p \in Hosts => Bare(on[p])
        BY <1>1 DEF LoadInv, FilledBare
      <3> QED
        BY <1>2, <1>5, <1>7, <3>1, <3>2 DEF LoadInv, FilledBare
    <2>3. \A h \in Hosts : stage'[h] \in Rotating => on'[h] \in Accounts /\ Bare(on'[h])
      BY <1>1, <1>2, <1>3, TypesKnown DEF LoadInv, FilledBare, Rotating, IInv, Locking
    <2> QED
      BY <2>1, <2>2, <2>3 DEF FilledBare, Rotating, Bare
  <1>11. SeenOwn'
    <2>1. ASSUME NEW q \in Operators
          PROVE  /\ stage'[q] = "idle" => seen[q] = Unread
                 /\ seen[q] # Unread \/ stage'[q] = "read"
                       => on[q] \in Accounts /\ seen[q].row.provider = account'[on[q]].provider
                 /\ \A r \in seen[q].rows : r.account = on[q]
      <3>1. stage'[q] \in {"idle", "read"} => stage[q] = stage'[q]
        BY <1>2, <1>3, TypesKnown
      <3>2. \A a \in Accounts : account'[a].provider = account[a].provider
        BY <1>4 DEF SameProviders
      <3>3. /\ stage[q] = "idle" => seen[q] = Unread
            /\ seen[q] # Unread \/ stage[q] = "read"
                  => on[q] \in Accounts /\ seen[q].row.provider = account[on[q]].provider
            /\ \A r \in seen[q].rows : r.account = on[q]
        BY DEF LoadInv, SeenOwn
      <3> QED
        BY <3>1, <3>2, <3>3
    <2>2. \A q \in Writers : \A r \in seen[q].rows : \E s \in secrets' : s.account = r.account /\ s.by = r.by
      <3> SUFFICES ASSUME NEW q \in Writers, NEW r \in seen[q].rows
                   PROVE  \E s \in secrets' : s.account = r.account /\ s.by = r.by
        OBVIOUS
      <3>1. PICK t \in secrets : t.account = r.account /\ t.by = r.by
        BY DEF LoadInv, SeenOwn
      <3> QED
        BY <1>7, <3>1
    <2> QED
      BY <1>1, <2>1, <2>2 DEF SeenOwn
  <1>12. Passed'
    BY <1>1, <1>2, <1>3, TypesKnown DEF LoadInv, Passed
  <1>13. PassedTestUsesAccount'
    <2> SUFFICES ASSUME NEW q \in Operators, doing'[q] = "passed test" PROVE CallsAs(seen[q])' = "account"
      BY DEF PassedTestUsesAccount
    <2>1. CallsAs(seen[q]) = "account"
      BY <1>1 DEF LoadInv, PassedTestUsesAccount
    <2>2. CallsAs(seen[q])' = CallsAs(seen[q])
      BY <1>1 DEF CallsAs, PartsOf, HasDeploymentConfig
    <2> QED
      BY <2>1, <2>2
  <1>14. LoadsAreWhole'
    <2>1. ASSUME NEW q \in Writers, NEW r \in seen[q].rows, NEW w \in secrets',
                 w.account = r.account, w.by = r.by
          PROVE  \E n \in seen[q].rows : n.kind = w.kind /\ n.version >= w.version
      <3>1. PICK t \in secrets : t.account = r.account /\ t.by = r.by
        BY DEF LoadInv, SeenOwn
      <3>2. w \notin rows
        BY <2>1, <3>1, <1>5, <1>8
      <3>3. PICK v \in secrets : w.account = v.account /\ w.kind = v.kind /\ w.version = v.version /\ w.by = v.by
        BY <3>2, <1>7
      <3>4. \E n \in seen[q].rows : n.kind = v.kind /\ n.version >= v.version
        <4>1. \A x \in secrets : x.account = r.account /\ x.by = r.by =>
                 \E n \in seen[q].rows : n.kind = x.kind /\ n.version >= x.version
          BY Zenon DEF LoadInv, LoadsAreWhole
        <4>2. v.account = r.account /\ v.by = r.by
          BY <2>1, <3>3
        <4> QED
          BY <4>1, <4>2
      <3> QED
        BY <3>3, <3>4
    <2>2. \A q \in Writers : \A r \in seen[q].rows, w \in secrets' :
              w.account = r.account /\ w.by = r.by =>
                  \E n \in seen[q].rows : n.kind = w.kind /\ n.version >= w.version
      BY Zenon, <2>1
    <2> QED
      BY <1>1, <2>2 DEF LoadsAreWhole
  <1> QED
    BY <1>9, <1>10, <1>11, <1>12, <1>13, <1>14 DEF LoadInv

\* The other steps of a rotation and a crash neither commit nor load.
LEMMA RotationLoads ==
    ASSUME IInv, LoadInv, NEW p \in Writers, LockAccount(p) \/ AccountIsGone(p) \/ WriteSecrets(p) \/ Crash(p)
    PROVE  LoadInv'
  <1>1. /\ UNCHANGED <<environment, account, secrets, seen, on, doing>>
        /\ stage[p] \notin {"done", "idle", "boot"}
    BY DEF LockAccount, AccountIsGone, WriteSecrets, Crash, table, local
  <1>2. /\ \A q \in Writers : q # p => stage'[q] = stage[q]
        /\ stage'[p] \in {"locked", "written", "failed", "boot"}
        /\ stage'[p] \in Rotating => stage[p] \in Rotating
    BY <1>1, TypesKnown DEF LockAccount, AccountIsGone, WriteSecrets, Crash, Goes, Rotating
  <1>3. SameProviders
    BY <1>1 DEF SameProviders
  <1>4. p \in Hosts /\ stage[p] \in Rotating => on[p] \in Accounts /\ Bare(on[p])
    BY DEF Rotating, LoadInv, FilledBare, IInv, Locking
  <1> QED
    BY <1>1, <1>2, <1>3, <1>4, QuietStep DEF Rotating

\* Every step keeps what is said of the loads.
LEMMA LoadsInductive == ASSUME IInv, LoadInv, [Next]_vars PROVE LoadInv'
  <1>1. CASE UNCHANGED vars
    <2>1. UNCHANGED <<environment, account, secrets, stage, doing, on, seen>>
      BY <1>1 DEF vars, table, local
    <2>2. NotYet' /\ Passed' /\ SeenOwn'
      BY <2>1 DEF LoadInv, NotYet, Passed, SeenOwn
    <2>3. FilledBare'
      BY <2>1 DEF LoadInv, FilledBare, Bare, HasEnvironmentCredentials
    <2>4. PassedTestUsesAccount'
      BY <2>1 DEF LoadInv, PassedTestUsesAccount, CallsAs, PartsOf, HasDeploymentConfig
    <2>5. LoadsAreWhole'
      BY <2>1 DEF LoadInv, LoadsAreWhole
    <2> QED
      BY <2>2, <2>3, <2>4, <2>5 DEF LoadInv
  <1>2. ASSUME NEW p \in Operators, StartRotation(p) \/ SaveAccount(p) \/ DeleteAccount(p) \/ ReadAccount(p)
        PROVE  LoadInv'
    BY <1>2, StartRotationLoads, SaveAccountLoads, DeleteAccountLoads, ReadAccountLoads
  <1>3. ASSUME NEW p \in Operators, RequestStep(p) PROVE LoadInv'
    BY <1>3, ClearVerdictLoads, ReadSecretsLoads, StampVerdictLoads DEF RequestStep
  <1>4. ASSUME NEW h \in Hosts, HostStep(h) PROVE LoadInv'
    BY <1>4, HostLoads
  <1>5. ASSUME NEW p \in Writers, RotationStep(p) \/ Crash(p) PROVE LoadInv'
    BY <1>5, CommitLoads, RotationLoads DEF RotationStep
  <1> QED
    BY <1>1, <1>2, <1>3, <1>4, <1>5 DEF Next

\* At the start nothing is loaded.
LEMMA LoadsInitially == Init => LoadInv
  <1> SUFFICES ASSUME Init PROVE LoadInv
    OBVIOUS
  <1>1. /\ secrets = {} /\ \A p \in Writers : seen[p] = Unread /\ doing[p] # "passed test"
        /\ \A h \in Hosts : stage[h] = "boot"
        /\ \A p \in Operators : stage[p] = "idle"
    BY NoneAssumption DEF Init, Writers
  <1>2. Unread.rows = {}
    BY DEF Unread
  <1>3. Operators \subseteq Writers
    BY DEF Writers
  <1>4. NotYet /\ FilledBare /\ SeenOwn /\ Passed
    BY <1>1, <1>2, <1>3 DEF NotYet, FilledBare, SeenOwn, Passed
  <1>5. PassedTestUsesAccount /\ LoadsAreWhole
    BY <1>1, <1>2, <1>3 DEF PassedTestUsesAccount, LoadsAreWhole
  <1> QED
    BY <1>4, <1>5 DEF LoadInv

\* The invariant of the loads, beside that of the rotations.
LEMMA LoadsInvariance == Spec => [](IInv /\ LoadInv)
  <1>1. Init => LoadInv
    BY LoadsInitially
  <1>2. IInv /\ LoadInv /\ [Next]_vars => LoadInv'
    BY LoadsInductive
  <1> QED
    BY <1>1, <1>2, Invariance, PTL DEF Spec

\* A test or a call that reads the active secrets without the lock has, of a rotation one of whose
\* secrets it has read, nothing older of the kinds that the rotation also wrote.
THEOREM LoadsAlwaysWhole == Spec => []LoadsAreWhole
  <1>1. IInv /\ LoadInv => LoadsAreWhole
    BY DEF LoadInv
  <1> QED
    BY <1>1, LoadsInvariance, PTL

\* A test that succeeded tested what a call uses: the account, not the deployment's merchant.
THEOREM PassedTestAlwaysUsesAccount == Spec => []PassedTestUsesAccount
  <1>1. IInv /\ LoadInv => PassedTestUsesAccount
    BY DEF LoadInv
  <1> QED
    BY <1>1, LoadsInvariance, PTL

\* A call with an account that a host has filled never runs on the deployment's merchant: an account
\* is filled only where the deployment has no complete configuration of its provider.
THEOREM FilledIsNeverDeployment == Spec => []FilledNeverDeployment
  <1>1. ASSUME IInv, LoadInv PROVE FilledNeverDeployment
    <2> SUFFICES ASSUME NEW p \in Operators, NEW r \in seen[p].rows, r.by \in Hosts
                 PROVE  CallsAs(seen[p]) # "deployment"
      BY DEF FilledNeverDeployment
    <2>1. seen[p] # Unread
      BY DEF Unread
    <2>2. LoadOK(seen[p]) /\ p \in Writers
      BY <1>1, TypesKnown
    <2>3. seen[p].row.provider \in Providers
      BY <2>1, <2>2 DEF LoadOK, AccountRow
    <2>4. PICK s \in secrets : s.account = r.account /\ s.by = r.by
      BY <1>1, <2>2 DEF LoadInv, SeenOwn
    <2>5. ~HasEnvironmentCredentials(seen[p].row.provider)
      BY <1>1, <2>1, <2>4 DEF LoadInv, SeenOwn, FilledBare, Bare
    <2>6. ~HasDeploymentConfig(seen[p].row.provider)
      BY <2>3, <2>5 DEF HasEnvironmentCredentials, HasDeploymentConfig, CompleteEnvironment, DeploymentNeeds, Providers
    <2> QED
      BY <2>6 DEF CallsAs
  <1>2. IInv /\ LoadInv => FilledNeverDeployment
    BY <1>1
  <1> QED
    BY <1>2, LoadsInvariance, PTL
=============================================================================
