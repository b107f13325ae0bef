---------------------------- MODULE MerchantRouting ----------------------------
(***************************************************************************)
(* Which merchant an operation on a payment attempt is sent to: operators  *)
(* activate, suspend, bind and delete provider accounts and channels while *)
(* checkout, close, refund and the compensation worker look an account up. *)
(*                                                                         *)
(* One tenant, one payment method and one provider; an account keeps its   *)
(* provider code.  Status "inactive" stands for "deprecated" as well: every *)
(* query treats the two alike.  The statuses and the locking around these  *)
(* calls are the subject of ProviderCheckout, RefundSubmission and         *)
(* PaymentSettlement; here an attempt is pending, succeeded or canceled.   *)
(***************************************************************************)
EXTENDS Naturals, FiniteSets

CONSTANTS
    Accounts,    \* provider accounts
    Channels,    \* payment channels of the method
    Attempts,    \* payment attempts
    Clients,     \* requests and worker passes, each with one operation under way
    Admins,      \* operators, each with one command under way
    OrgOf,       \* organization_id of accounts, channels and attempts
    Platform,    \* organization '0', inherited by every other
    Deployment,  \* the merchant of the deployment-level credentials
    None         \* no value

ASSUME OrgAssumption == DOMAIN OrgOf = Accounts \cup Channels \cup Attempts
ASSUME DisjointAssumption ==
    /\ Accounts \cap {Deployment, None} = {} /\ Deployment # None
    /\ None \notin Channels \cup Attempts

VARIABLES
    account,    \* commerce_payment_provider_account.status
    channel,    \* commerce_payment_channel: status and provider_account_id
    command,    \* the two-statement command each operator has under way
    attempt,    \* commerce_payment_attempt: status, channel_id, snapshotted account
    op,         \* the provider operation each client has under way
    traded,     \* merchants at which a trade of the attempt was created
    addressed,  \* merchants an operation on the attempt was sent to
    bound       \* history: accounts the attempt's channel was bound to in its lifetime

config == <<account, channel, command>>
payments == <<attempt, op, traded, addressed, bound>>
vars == <<config, payments>>

Merchants == Accounts \cup {Deployment}
LiveStatuses == {"active", "inactive", "suspended"}
WorkerKinds == {"worker query", "worker refund"}
Kinds == {"checkout", "close", "app refund", "backend refund", "check"} \cup WorkerKinds

NoCommand == [what |-> "none", account |-> None, channel |-> None]
NoOp == [kind |-> "none", attempt |-> None, account |-> None, fromChannel |-> FALSE]

NoChannel == [status |-> "absent", account |-> None]
UnboundChannel == [status |-> "active", account |-> None]

\* No account yet.  A channel may exist that no account is bound to; no command
\* makes one, but older tables hold them.
Init ==
    /\ account = [a \in Accounts |-> "absent"]
    /\ channel \in [Channels -> {NoChannel, UnboundChannel}]
    /\ command = [u \in Admins |-> NoCommand]
    /\ attempt = [k \in Attempts |-> [status |-> "absent", channel |-> None, account |-> None]]
    /\ op = [q \in Clients |-> NoOp]
    /\ traded = [k \in Attempts |-> {}]
    /\ addressed = [k \in Attempts |-> {}]
    /\ bound = [k \in Attempts |-> {}]

Exists(k) == attempt[k].status # "absent"
Snapshot(k) == attempt[k].account
Live(a) == account[a] \in LiveStatuses

-----------------------------------------------------------------------------
(***************************************************************************)
(* The commands of the back office.                                        *)
(***************************************************************************)

\* upsert_provider_account.  A deleted account does not come back: its id is derived
\* from its number, and the primary key refuses a second row.
UpsertProviderAccount(a, status) ==
    /\ account[a] # "deleted"
    /\ account' = [account EXCEPT ![a] = status]
    /\ UNCHANGED <<channel, command, payments>>

\* upsert_channel looks the account up, in any organization of the tenant ...
BeginUpsertChannel(u, c, a) ==
    /\ command[u] = NoCommand
    /\ Live(a)
    /\ command' = [command EXCEPT ![u] = [what |-> "bind", account |-> a, channel |-> c]]
    /\ UNCHANGED <<account, channel, payments>>

\* ... and inserts or overwrites the channel.
UpsertChannel(u, status) ==
    /\ command[u].what = "bind"
    /\ channel' = [channel EXCEPT ![command[u].channel] =
                      [status |-> status, account |-> command[u].account]]
    /\ command' = [command EXCEPT ![u] = NoCommand]
    /\ bound' = [k \in Attempts |->
                   IF Exists(k) /\ attempt[k].channel = command[u].channel
                   THEN bound[k] \cup {command[u].account} ELSE bound[k]]
    /\ UNCHANGED <<account, attempt, op, traded, addressed>>

\* delete_provider_account looks for channels of the account's own organization ...
BeginDeleteProviderAccount(u, a) ==
    /\ command[u] = NoCommand
    /\ Live(a)
    /\ \A c \in Channels : channel[c].account = a => OrgOf[c] # OrgOf[a]
    /\ command' = [command EXCEPT ![u] = [what |-> "delete", account |-> a, channel |-> None]]
    /\ UNCHANGED <<account, channel, payments>>

\* ... and deletes the account.
DeleteProviderAccount(u) ==
    LET a == command[u].account
    IN  /\ command[u].what = "delete"
        /\ account' = [account EXCEPT ![a] = IF Live(a) THEN "deleted" ELSE @]
        /\ command' = [command EXCEPT ![u] = NoCommand]
        /\ UNCHANGED <<channel, payments>>

\* The process stops between the two statements, or the second one fails.
CommandFails(u) ==
    /\ command[u] # NoCommand
    /\ command' = [command EXCEPT ![u] = NoCommand]
    /\ UNCHANGED <<account, channel, payments>>

-----------------------------------------------------------------------------
(***************************************************************************)
(* Selecting a channel for a new attempt.                                  *)
(***************************************************************************)

\* Rows of the attempt's organization or of the platform.
InOrganization(x, k) == OrgOf[x] \in {OrgOf[k], Platform}

\* provider_account.rs: the lookup of an account by its id.
Loadable(a, k, statuses) == account[a] \in statuses /\ InOrganization(a, k)

\* A bug: the account's organization is not asked about.
Eligible_AnyAccount(c, k) ==
    /\ channel[c].status = "active" /\ InOrganization(c, k)
    /\ channel[c].account # None => account[channel[c].account] = "active"

\* select_payment_channel: an active channel whose account, if it has one, is active.
Eligible(c, k) ==
    /\ channel[c].status = "active" /\ InOrganization(c, k)
    /\ channel[c].account # None => Loadable(channel[c].account, k, {"active"})

Route(c) == [channel |-> c, account |-> IF c = None THEN None ELSE channel[c].account]

\* A method that never had a channel is paid without one.
Routes(k) ==
    IF \A c \in Channels : channel[c].status = "absent"
    THEN {Route(None)}
    ELSE {Route(c) : c \in {d \in Channels : Eligible(d, k)}}

\* The insert of an attempt; which eligible channel ranks first is left open.
InsertAttempt(k) ==
    /\ ~Exists(k)
    /\ \E route \in Routes(k) :
          /\ attempt' = [attempt EXCEPT ![k] = [status |-> "pending", channel |-> route.channel,
                                                account |-> route.account]]
          /\ bound' = [bound EXCEPT ![k] = {route.account} \ {None}]
    /\ UNCHANGED <<config, op, traded, addressed>>

-----------------------------------------------------------------------------
(***************************************************************************)
(* Operations on an attempt.                                               *)
(***************************************************************************)

\* When each kind of operation is started: a client may close any payment, and only
\* attempts without a channel can be checked, the channel's query naming columns
\* the account table does not have.
Startable(kind, k) ==
    CASE kind \in {"checkout", "worker query"} -> attempt[k].status = "pending"
      [] kind = "check" -> attempt[k].status = "pending" /\ attempt[k].channel = None
      [] kind = "close" -> Exists(k)
      [] OTHER -> attempt[k].status = "succeeded"

\* The account that the attempt's channel is bound to now.
Binding(k) == IF attempt[k].channel = None THEN None ELSE channel[attempt[k].channel].account

\* A bug: the join takes active channels only.
ContextAccount_ActiveChannel(k) ==
    IF attempt[k].channel # None /\ channel[attempt[k].channel].status = "active"
    THEN Binding(k) ELSE None

\* load_payment_attempt_provider_context: the account of the snapshot, else the
\* channel's.  callback_payload is a JSONB column read as text, and that conversion
\* yields "" for every row: the snapshot is never found.  The join asks nothing of
\* the channel's status.
ContextAccount(k) == Binding(k)

\* The operation loads the attempt; the worker's claim of a payment reads the JSON
\* value of the snapshot, and nothing but it.
LoadContext(q, kind, k) ==
    /\ op[q] = NoOp
    /\ Startable(kind, k)
    /\ op' = [op EXCEPT ![q] =
                [kind |-> kind, attempt |-> k, fromChannel |-> FALSE,
                 account |-> IF kind = "worker query" THEN Snapshot(k) ELSE ContextAccount(k)]]
    /\ UNCHANGED <<config, attempt, traded, addressed, bound>>

AsksChannel(q) ==
    /\ op[q].kind = "checkout" /\ op[q].account = None /\ ~op[q].fromChannel
    /\ attempt[op[q].attempt].channel # None

\* load_active_provider_account_for_channel: a checkout without an account reads the
\* channel once more.
ReadChannelBinding(q) ==
    LET k == op[q].attempt
    IN  /\ op[q].kind # "none"
        /\ AsksChannel(q)
        /\ channel[attempt[k].channel].status = "active"
        /\ op' = [op EXCEPT ![q].fromChannel = TRUE, ![q].account = Binding(k)]
        /\ UNCHANGED <<config, attempt, traded, addressed, bound>>

\* What status an account may have: historical operations take a deactivated one,
\* the worker and a binding that was not snapshotted do not.
Acceptable(o) ==
    IF o.kind \in WorkerKinds \/ o.fromChannel THEN {"active"} ELSE {"active", "inactive"}

\* load_active_provider_account: the one active account, those of the attempt's own
\* organization before the platform's; two of the same scope are a conflict.
ByProvider(k) ==
    LET all == {a \in Accounts : Loadable(a, k, {"active"})}
        nearest == {a \in all : OrgOf[a] = OrgOf[k]}
        best == IF nearest # {} THEN nearest ELSE all
    IN  IF best = {} THEN {Deployment} ELSE {a \in best : Cardinality(best) = 1}

\* The merchant an operation resolves to, if it does.
Resolved(o) ==
    CASE o.account # None -> {a \in {o.account} : Loadable(a, o.attempt, Acceptable(o))}
      [] o.account = None /\ o.kind = "backend refund" -> {}
      [] o.account = None /\ o.kind \in WorkerKinds \cup {"check"} -> {Deployment}
      [] OTHER -> IF attempt[o.attempt].channel # None
                  THEN {Deployment} ELSE ByProvider(o.attempt)

\* The provider call, addressed to the merchant resolved.  A checkout opens a trade
\* there, a close cancels the attempt once the merchant has no open trade.
CallProvider(q) ==
    LET k == op[q].attempt
    IN  /\ op[q].kind # "none"
        /\ ~AsksChannel(q)
        /\ \E m \in Resolved(op[q]) :
              /\ addressed' = [addressed EXCEPT ![k] = @ \cup {m}]
              /\ traded' = IF op[q].kind = "checkout"
                           THEN [traded EXCEPT ![k] = @ \cup {m}] ELSE traded
        /\ attempt' = IF op[q].kind = "close" /\ attempt[k].status = "pending"
                      THEN [attempt EXCEPT ![k].status = "canceled"] ELSE attempt
        /\ op' = [op EXCEPT ![q] = NoOp]
        /\ UNCHANGED <<config, bound>>

\* The account cannot be had, or the call or the process fails.
OperationFails(q) ==
    /\ op[q] # NoOp
    /\ op' = [op EXCEPT ![q] = NoOp]
    /\ UNCHANGED <<config, attempt, traded, addressed, bound>>

\* A trade is paid and its notification applied.
SettleAttempt(k) ==
    /\ traded[k] # {}
    /\ attempt[k].status = "pending"
    /\ attempt' = [attempt EXCEPT ![k].status = "succeeded"]
    /\ UNCHANGED <<config, op, traded, addressed, bound>>

-----------------------------------------------------------------------------
Administration ==
    \/ \E a \in Accounts, status \in LiveStatuses : UpsertProviderAccount(a, status)
    \/ \E u \in Admins, c \in Channels, a \in Accounts : BeginUpsertChannel(u, c, a)
    \/ \E u \in Admins, status \in {"active", "inactive"} : UpsertChannel(u, status)
    \/ \E u \in Admins, a \in Accounts : BeginDeleteProviderAccount(u, a)
    \/ \E u \in Admins : DeleteProviderAccount(u)
    \/ \E u \in Admins : CommandFails(u)

Operation ==
    \/ \E q \in Clients, kind \in Kinds, k \in Attempts : LoadContext(q, kind, k)
    \/ \E q \in Clients : ReadChannelBinding(q)
    \/ \E q \in Clients : CallProvider(q)
    \/ \E q \in Clients : OperationFails(q)

Next ==
    \/ Administration
    \/ Operation
    \/ \E k \in Attempts : InsertAttempt(k)
    \/ \E k \in Attempts : SettleAttempt(k)

Spec == Init /\ [][Next]_vars

-----------------------------------------------------------------------------
(***************************************************************************)
(* Properties.                                                             *)
(***************************************************************************)

\* Rows, commands and operations hold what the tables and handlers allow; a trade
\* was created only where an operation was sent, and only for an attempt that exists.
TypeOK ==
    /\ account \in [Accounts -> LiveStatuses \cup {"absent", "deleted"}]
    /\ channel \in [Channels -> [status : {"absent", "active", "inactive"},
                                 account : Accounts \cup {None}]]
    /\ command \in [Admins -> [what : {"none", "bind", "delete"}, account : Accounts \cup {None},
                               channel : Channels \cup {None}]]
    /\ attempt \in [Attempts -> [status : {"absent", "pending", "succeeded", "canceled"},
                                 channel : Channels \cup {None}, account : Accounts \cup {None}]]
    /\ op \in [Clients -> [kind : Kinds \cup {"none"}, attempt : Attempts \cup {None},
                           account : Accounts \cup {None}, fromChannel : BOOLEAN]]
    /\ traded \in [Attempts -> SUBSET Merchants]
    /\ addressed \in [Attempts -> SUBSET Merchants]
    /\ bound \in [Attempts -> SUBSET Accounts]
    /\ \A k \in Attempts : traded[k] \subseteq addressed[k]

\* An attempt is served by the accounts its channel was bound to while it existed, the
\* one of its insertion included, and by nobody else: whatever operators rebind,
\* suspend, deactivate or delete meanwhile, no create, close, refund or query of it
\* falls back to another merchant of its provider, nor, once it was inserted with an
\* account, to the merchant of the deployment.
ServedByItsChannel ==
    \A k \in Attempts : attempt[k].channel # None =>
        addressed[k] \subseteq bound[k] \cup (IF Snapshot(k) = None THEN {Deployment} ELSE {})

\* The channel was bound to the account of the snapshot and to no other since.
Unrebound(k) == Snapshot(k) # None /\ bound[k] = {Snapshot(k)}

\* A merchant that was taken out of service still closes and refunds: as long as the
\* channel is not bound to another account, and while the account of the snapshot is
\* active or deactivated, but not suspended or deleted, every close and refund of a
\* user or an operator resolves to it, from the selection of the channel on, whatever
\* the channel's own status became.
UnreboundStaysReachable ==
    \A q \in Clients :
        LET k == op[q].attempt
        IN  (/\ op[q].kind \in {"close", "app refund", "backend refund"}
             /\ Unrebound(k)
             /\ account[Snapshot(k)] \in {"active", "inactive"})
            => Resolved(op[q]) = {Snapshot(k)}

\* NOT kept by the code: the merchant of the snapshot serves the attempt for its whole
\* life.  An attempt whose channel was bound to another account is refunded and closed
\* there, ContextAccount not finding the snapshot.
SnapshotKeepsMerchant ==
    \A k \in Attempts : Snapshot(k) # None => addressed[k] \subseteq {Snapshot(k)}
=============================================================================
