-------------------------- MODULE ProviderCredentials --------------------------
(***************************************************************************)
(* The secrets of the provider accounts.  A rotation writes new versions of *)
(* an account's secrets in one transaction under the account's advisory     *)
(* lock.  Hosts fill the bootstrap accounts with generated secrets before   *)
(* they serve, one host at a time under the bootstrap lock; meanwhile back  *)
(* office users of other hosts rotate, edit, test and delete accounts and   *)
(* calls to the provider load them.  A loaded account is merged into the    *)
(* deployment's configuration: where it misses a part its provider needs,   *)
(* the deployment's own merchant is used instead.                          *)
(*                                                                         *)
(* All accounts are bootstrap accounts with a merchant; edits of the        *)
(* provider code and of the status are left out.                           *)
(***************************************************************************)
EXTENDS Integers, FiniteSets, FiniteSetsExt

CONSTANTS
    Accounts,      \* provider accounts
    Operators,     \* back office requests and calls to a provider
    Hosts,         \* service hosts, each fills the bootstrap accounts once
    Environments,  \* sets of parts that a deployment's environment may set
    Writes,        \* sets of secrets that a request may write
    Named,         \* sets of secrets that an edit may give as environment variables
    MaxCrashes,    \* bound on crashes
    None           \* no process, no account, no row

Kinds == {"primary", "webhook", "certificate"}
Writers == Operators \cup Hosts
Providers == {"stripe", "alipay", "wechat_pay", "paypal"}

\* What a configuration may miss: "metadata" are the identifiers a call needs (application,
\* serial number), "verification" those a notification needs (key identifier, notify URL).
Metadata == {"metadata", "verification"}
Parts == Kinds \cup {"merchant"} \cup Metadata

ASSUME NoneAssumption == None \notin Writers /\ Operators \cap Hosts = {}
ASSUME EnvironmentsAssumption == Environments \subseteq SUBSET Parts
ASSUME WritesAssumption == Writes \subseteq SUBSET Kinds /\ Named \subseteq SUBSET Kinds
ASSUME CrashesAssumption == MaxCrashes \in Nat

VARIABLES
    environment,  \* the parts the deployment's environment sets
    account,      \* the row of each account
    secrets,      \* the committed rows of the credential table
    lock,         \* the rotation that holds each account's lock
    bootLock,     \* the host that holds the bootstrap lock
    doing,        \* the request of each operator, "fill" for a host
    stage,        \* how far it has got
    on,           \* the account it works on
    kinds,        \* the secrets it has to write
    staged,       \* the rows of its open transaction
    seen,         \* the account it has loaded
    todo,         \* the accounts a host has still to look at
    crashes       \* number of crashes so far

table == <<environment, account, secrets>>
locks == <<lock, bootLock>>
local == <<doing, on, kinds, staged, seen, todo>>
vars == <<table, locks, local, stage, crashes>>

Row == [account : Accounts, kind : Kinds, version : Nat \ {0}, by : Writers, active : BOOLEAN]
AccountRow == [provider : Providers, refs : [Kinds -> {"none", "environment", "database"}],
               metadata : SUBSET Metadata, tested : {"none", "success", "failure"}, deleted : BOOLEAN]
Unread == [row |-> None, rows |-> {}]
Stages == {"idle", "lock", "locked", "written", "committed", "read", "loaded", "done", "failed",
           "boot", "fill"}

-----------------------------------------------------------------------------
(* Which configuration a call uses *)

\* A bug: the fill does not look at the environment.
HasEnvironmentCredentials_Never(provider) == provider \notin Providers

\* has_environment_provider_credentials.
CompleteEnvironment == [stripe |-> {"primary"},
                        alipay |-> {"merchant", "primary", "certificate"},
                        wechat_pay |-> {"metadata", "merchant", "primary", "webhook"},
                        paypal |-> {"merchant", "primary"}]
HasEnvironmentCredentials(provider) == CompleteEnvironment[provider] \subseteq environment

\* load_stripe, load_alipay, load_wechat_pay, load_paypal.
DeploymentNeeds == [stripe |-> {"primary"},
                    alipay |-> {"merchant", "primary", "certificate"},
                    wechat_pay |-> {"metadata", "merchant", "primary", "webhook"},
                    paypal |-> {"merchant", "primary"}]
HasDeploymentConfig(provider) == DeploymentNeeds[provider] \subseteq environment

\* merge_stripe_account, merge_alipay_account, merge_wechat_account, merge_paypal_account.
MergeNeeds == [stripe |-> {"primary"},
               alipay |-> {"merchant", "primary", "certificate"},
               wechat_pay |-> {"metadata", "merchant", "primary", "webhook"},
               paypal |-> {"merchant", "primary"}]

\* A bug: Alipay's public key is not asked for.
ReadinessNeeds_NoCertificate == [stripe |-> {"primary", "webhook"}, alipay |-> {"merchant", "primary"},
                                 wechat_pay |-> Parts]

\* provider_account_readiness_issues: what it asks for; it does not know PayPal.
ReadinessNeeds == [stripe |-> {"primary", "webhook"},
                   alipay |-> {"merchant", "primary", "certificate"},
                   wechat_pay |-> Parts]

\* generate_development_credentials: the keys that verify notifications are never generated.
Generated == [stripe |-> {"primary", "webhook"}, alipay |-> {"primary"},
              wechat_pay |-> {"primary", "webhook"}, paypal |-> {"primary"}]

UsesDatabaseCredentials(row) == \E k \in Kinds : row.refs[k] = "database"

\* The parts of a loaded account: a secret is in the credential table or in the environment.
PartsOf(load) ==
    {k \in Kinds : load.row.refs[k] = "environment" \/ \E r \in load.rows : r.kind = k}
        \cup load.row.metadata \cup {"merchant"}

\* with_provider_account and provider_registry_for_account: whose merchant a call is made for.
CallsAs(load) ==
    IF MergeNeeds[load.row.provider] \subseteq PartsOf(load) THEN "account"
    ELSE IF HasDeploymentConfig(load.row.provider) THEN "deployment" ELSE "nobody"

\* No readiness issue: nothing is missing and the registry has an adapter.
IsReady(load) ==
    /\ load.row.provider \in DOMAIN ReadinessNeeds
    /\ ReadinessNeeds[load.row.provider] \subseteq PartsOf(load)
    /\ CallsAs(load) # "nobody"

-----------------------------------------------------------------------------
Init ==
    /\ environment \in Environments
    /\ account \in [Accounts -> [provider : Providers,
                                 refs : {[k \in Kinds |-> IF k = "primary" THEN "database" ELSE "none"]},
                                 metadata : {Metadata}, tested : {"none"}, deleted : {FALSE}]]
    /\ secrets = {}
    /\ lock = [a \in Accounts |-> None] /\ bootLock = None
    /\ doing = [p \in Writers |-> IF p \in Hosts THEN "fill" ELSE "nothing"]
    /\ stage = [p \in Writers |-> IF p \in Hosts THEN "boot" ELSE "idle"]
    /\ on = [p \in Writers |-> None]
    /\ kinds = [p \in Writers |-> {}]
    /\ staged = [p \in Writers |-> {}]
    /\ seen = [p \in Writers |-> Unread]
    /\ todo = [h \in Hosts |-> {}]
    /\ crashes = 0

Goes(p, s) == stage' = [stage EXCEPT ![p] = s]
Active(a) == {r \in secrets : r.account = a /\ r.active}

\* An operator takes up one request.
Begin(p, request, a, s) ==
    /\ stage[p] = "idle"
    /\ doing' = [doing EXCEPT ![p] = request]
    /\ on' = [on EXCEPT ![p] = a]
    /\ Goes(p, s)

-----------------------------------------------------------------------------
(* rotate_provider_credentials_postgres *)

\* A bug: the version is read without the lock.
LockFree_Always(a) == a \in Accounts

\* The account's lock, waited for inside the transaction.
LockFree(a) == lock[a] = None

LockAccount(p) ==
    /\ stage[p] = "lock" /\ LockFree(on[p])
    /\ lock' = [lock EXCEPT ![on[p]] = p]
    /\ Goes(p, "locked")
    /\ UNCHANGED <<table, bootLock, local, crashes>>

\* ensure_account: the transaction is rolled back, and a host gives up its fill.
AccountIsGone(p) ==
    /\ stage[p] = "locked" /\ account[on[p]].deleted
    /\ lock' = [lock EXCEPT ![on[p]] = None]
    /\ bootLock' = IF bootLock = p THEN None ELSE bootLock
    /\ kinds' = [kinds EXCEPT ![p] = {}]
    /\ Goes(p, "failed")
    /\ UNCHANGED <<table, doing, on, staged, seen, todo, crashes>>

NextVersion(a, k) == 1 + Max({0} \cup {r.version : r \in {s \in secrets : s.account = a /\ s.kind = k}})

\* One row per secret, with the next version of its kind.
WriteSecrets(p) ==
    /\ stage[p] = "locked" /\ ~account[on[p]].deleted
    /\ staged' = [staged EXCEPT ![p] =
          {[account |-> on[p], kind |-> k, version |-> NextVersion(on[p], k), by |-> p, active |-> TRUE] :
              k \in kinds[p]}]
    /\ kinds' = [kinds EXCEPT ![p] = {}]
    /\ Goes(p, "written")
    /\ UNCHANGED <<table, locks, doing, on, seen, todo, crashes>>

\* A bug: every secret is committed on its own.
Commits_OneByOne(p) == {CHOOSE r \in staged[p] : TRUE}

\* The commit: the active rows of the same kinds are superseded, the account's markers name the table.
Install(rows, old) ==
    {[r EXCEPT !.active = r.active /\ ~\E n \in rows : n.account = r.account /\ n.kind = r.kind] : r \in old}
        \cup rows
Commits(p) == staged[p]

CommitRotation(p) ==
    /\ stage[p] = "written"
    /\ LET rows == Commits(p)
           rest == staged[p] \ rows
       IN  /\ secrets' = Install(rows, secrets)
           /\ account' = [account EXCEPT ![on[p]].refs =
                 [k \in Kinds |-> IF \E r \in rows : r.kind = k THEN "database" ELSE @[k]]]
           /\ staged' = [staged EXCEPT ![p] = rest]
           /\ lock' = IF rest = {} THEN [lock EXCEPT ![on[p]] = None] ELSE lock
           /\ Goes(p, IF rest # {} THEN "written" ELSE IF doing[p] = "save" THEN "done" ELSE "committed")
    /\ UNCHANGED <<environment, bootLock, doing, on, kinds, seen, todo, crashes>>

-----------------------------------------------------------------------------
(* Back office requests *)

\* rotate_provider_credentials.
StartRotation(p) ==
    /\ \E a \in Accounts, write \in Writes :
          /\ "primary" \in write
          /\ Begin(p, "rotate", a, "lock")
          /\ kinds' = [kinds EXCEPT ![p] = write]
    /\ UNCHANGED <<table, locks, staged, seen, todo, crashes>>

\* rotate_credentials, after the rotation: the verdict of the last test is cleared.
ClearVerdict(p) ==
    /\ stage[p] = "committed" /\ doing[p] = "rotate"
    /\ account' = [account EXCEPT ![on[p]].tested = IF account[on[p]].deleted THEN @ ELSE "none"]
    /\ Goes(p, "done")
    /\ UNCHANGED <<environment, secrets, locks, local, crashes>>

\* upsert_provider_account_inner: a secret's reference names the environment, the table, or stays.
EditedRefs(refs, write, named) ==
    [k \in Kinds |-> IF k \in named THEN "environment" ELSE IF k \in write THEN "database" ELSE refs[k]]

\* upsert_provider_account: the row is saved in a statement of its own, then the secrets, if any,
\* are rotated.
SaveAccount(p) ==
    /\ \E a \in Accounts, write \in Writes \cup {{}}, named \in Named, data \in {{"metadata"}, Metadata} :
          /\ ~account[a].deleted
          /\ Begin(p, "save", a, IF write = {} THEN "done" ELSE "lock")
          /\ kinds' = [kinds EXCEPT ![p] = write]
          /\ account' = [account EXCEPT
                ![a].refs = EditedRefs(@, write, named),
                ![a].metadata = data]
    /\ UNCHANGED <<environment, secrets, locks, staged, seen, todo, crashes>>

\* delete_provider_account, of an account that no channel or sub-merchant refers to.
DeleteAccount(p) ==
    /\ \E a \in Accounts :
          /\ ~account[a].deleted
          /\ Begin(p, "delete", a, "done")
          /\ account' = [account EXCEPT ![a].deleted = TRUE]
    /\ UNCHANGED <<environment, secrets, locks, kinds, staged, seen, todo, crashes>>

\* A test of the account or a call to its provider loads the row, then the active secrets.
ReadAccount(p) ==
    /\ \E a \in Accounts, request \in {"test", "call"} :
          /\ ~account[a].deleted
          /\ Begin(p, request, a, IF UsesDatabaseCredentials(account[a]) THEN "read" ELSE "loaded")
          /\ seen' = [seen EXCEPT ![p] = [row |-> account[a], rows |-> {}]]
    /\ UNCHANGED <<table, locks, kinds, staged, todo, crashes>>

ReadSecrets(p) ==
    /\ stage[p] = "read"
    /\ seen' = [seen EXCEPT ![p].rows = Active(on[p])]
    /\ Goes(p, "loaded")
    /\ UNCHANGED <<table, locks, doing, on, kinds, staged, todo, crashes>>

\* test_provider_account: only a dry run of a ready account is a success.
StampVerdict(p) ==
    /\ stage[p] = "loaded" /\ doing[p] = "test"
    /\ \E verdict \in {"failure"} \cup IF IsReady(seen[p]) THEN {"success"} ELSE {} :
          /\ account' = [account EXCEPT ![on[p]].tested = IF account[on[p]].deleted THEN @ ELSE verdict]
          /\ doing' = [doing EXCEPT ![p] = IF verdict = "success" THEN "passed test" ELSE "failed test"]
    /\ Goes(p, "done")
    /\ UNCHANGED <<environment, secrets, locks, on, kinds, staged, seen, todo, crashes>>

-----------------------------------------------------------------------------
(* ensure_development_provider_credentials_postgres, on a host that starts *)

\* A bug: hosts fill side by side.
BootFree_Always == bootLock \in Hosts \cup {None}

BootFree == bootLock = None

LockBootstrap(h) ==
    /\ stage[h] = "boot" /\ BootFree
    /\ bootLock' = h
    /\ todo' = [todo EXCEPT ![h] = {a \in Accounts : ~account[a].deleted}]
    /\ Goes(h, "fill")
    /\ UNCHANGED <<table, lock, doing, on, kinds, staged, seen, crashes>>

NeedsFill(a) == Active(a) = {} /\ ~HasEnvironmentCredentials(account[a].provider)

\* An account with secrets in the table or in the environment is skipped.
SkipAccount(h) ==
    /\ stage[h] = "fill"
    /\ \E a \in todo[h] : ~NeedsFill(a) /\ todo' = [todo EXCEPT ![h] = @ \ {a}]
    /\ UNCHANGED <<table, locks, doing, on, kinds, staged, seen, stage, crashes>>

FillAccount(h) ==
    /\ stage[h] = "fill"
    /\ \E a \in todo[h] :
          /\ NeedsFill(a)
          /\ todo' = [todo EXCEPT ![h] = @ \ {a}]
          /\ on' = [on EXCEPT ![h] = a]
          /\ kinds' = [kinds EXCEPT ![h] = Generated[account[a].provider]]
    /\ Goes(h, "lock")
    /\ UNCHANGED <<table, locks, doing, staged, seen, crashes>>

MarkTested(h) ==
    /\ stage[h] = "committed" /\ doing[h] = "fill"
    /\ account' = [account EXCEPT ![on[h]].tested = "success"]
    /\ Goes(h, "fill")
    /\ UNCHANGED <<environment, secrets, locks, local, crashes>>

\* A bug: the transaction that holds the bootstrap lock is left open.
EndFill_LockKept(h) ==
    /\ stage[h] = "fill" /\ todo[h] = {}
    /\ Goes(h, "done")
    /\ UNCHANGED <<table, locks, local, crashes>>

EndFill(h) ==
    /\ stage[h] = "fill" /\ todo[h] = {}
    /\ bootLock' = IF bootLock = h THEN None ELSE bootLock
    /\ Goes(h, "done")
    /\ UNCHANGED <<table, lock, local, crashes>>

\* A process dies between two steps: its transactions are rolled back.  A host starts again.
Crash(p) ==
    /\ crashes < MaxCrashes /\ crashes' = crashes + 1
    /\ stage[p] \notin {"idle", "done", "failed", "boot"}
    /\ lock' = [a \in Accounts |-> IF lock[a] = p THEN None ELSE lock[a]]
    /\ bootLock' = IF bootLock = p THEN None ELSE bootLock
    /\ staged' = [staged EXCEPT ![p] = {}]
    /\ kinds' = [kinds EXCEPT ![p] = {}]
    /\ Goes(p, IF p \in Hosts THEN "boot" ELSE "failed")
    /\ UNCHANGED <<table, doing, on, seen, todo>>

-----------------------------------------------------------------------------
RotationStep(p) == LockAccount(p) \/ AccountIsGone(p) \/ WriteSecrets(p) \/ CommitRotation(p)
RequestStep(p) == ClearVerdict(p) \/ ReadSecrets(p) \/ StampVerdict(p)
HostStep(h) == LockBootstrap(h) \/ SkipAccount(h) \/ FillAccount(h) \/ MarkTested(h) \/ EndFill(h)

Next ==
    \/ \E p \in Operators :
          \/ StartRotation(p) \/ SaveAccount(p) \/ DeleteAccount(p) \/ ReadAccount(p)
          \/ RequestStep(p)
    \/ \E h \in Hosts : HostStep(h)
    \/ \E p \in Writers : RotationStep(p) \/ Crash(p)

Spec == Init /\ [][Next]_vars

-----------------------------------------------------------------------------
(* Properties *)

\* The state is well formed: locks are held by rotations and fills that have taken them.
TypeOK ==
    /\ environment \subseteq Parts
    /\ account \in [Accounts -> AccountRow]
    /\ secrets \subseteq Row
    /\ doing \in [Writers -> {"nothing", "rotate", "save", "delete", "test", "passed test",
                              "failed test", "call", "fill"}]
    /\ stage \in [Writers -> Stages]
    /\ on \in [Writers -> Accounts \cup {None}]
    /\ kinds \in [Writers -> SUBSET Kinds]
    /\ \A p \in Writers : staged[p] \subseteq {r \in Row : r.by = p /\ r.account = on[p]}
    /\ \A p \in Writers : seen[p] = Unread \/ (seen[p].row \in AccountRow /\ seen[p].rows \subseteq Row)
    /\ todo \in [Hosts -> SUBSET Accounts]
    /\ \A a \in Accounts : lock[a] # None => on[lock[a]] = a /\ stage[lock[a]] \in {"locked", "written"}
    /\ bootLock # None => stage[bootLock] \in {"fill", "lock", "locked", "written", "committed"}
    /\ crashes \in 0 .. MaxCrashes

\* Rotations of an account, by requests and by hosts that fill it, serialize: no two rows of a kind
\* have the same version, and the last version, and only that, is active (provider_credential.rs:67).
RotationsSerialize ==
    \A r \in secrets, s \in secrets :
        r.account = s.account /\ r.kind = s.kind =>
            /\ r.version = s.version => r = s
            /\ r.active <=> \A t \in secrets : t.account = r.account /\ t.kind = r.kind => t.version <= r.version

\* However many hosts start together, crash and start again, one of them generates the secrets of
\* an account (provider_credential.rs:134).
FilledOnce ==
    \A r \in secrets, s \in secrets : r.account = s.account /\ {r.by, s.by} \subseteq Hosts => r.by = s.by

\* A test or a call that has one secret of a rotation has no older one of a kind that the rotation
\* also wrote, though it reads without the lock.
LoadsAreWhole ==
    \A p \in Writers : \A r \in seen[p].rows, w \in secrets :
        w.account = r.account /\ w.by = r.by =>
            \E n \in seen[p].rows : n.kind = w.kind /\ n.version >= w.version

\* An account whose test has succeeded is itself what a call uses: the parts that the test asks for
\* cover those without which the deployment's merchant is used instead.
PassedTestUsesAccount ==
    \A p \in Operators : doing[p] = "passed test" => CallsAs(seen[p]) = "account"

\* A call with an account that a host has filled never runs on the deployment's merchant, whatever
\* parts of the account are missing.
FilledNeverDeployment ==
    \A p \in Operators : \A r \in seen[p].rows : r.by \in Hosts => CallsAs(seen[p]) # "deployment"
=============================================================================
