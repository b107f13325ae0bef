------------------------- MODULE MerchantRouting_proofs -------------------------
(***************************************************************************)
(* Proofs about MerchantRouting, for any number of accounts, channels,     *)
(* attempts, clients and operators: an attempt is served by the accounts   *)
(* its channel was bound to, and can reach the first of them while that is *)
(* in service and the channel is bound to no other.                        *)
(***************************************************************************)
EXTENDS MerchantRouting, TLAPS

\* A command that binds a channel holds the account it looked up.
CommandsNameAccounts ==
    \A u \in Admins : command[u].what = "bind" => command[u].account \in Accounts

\* An operation under way belongs to an attempt that exists, and its account is one
\* the attempt's channel was bound to; only a checkout reads the channel a second time.
OpsInHistory ==
    \A q \in Clients : op[q].kind # "none" =>
        LET k == op[q].attempt
        IN  /\ k \in Attempts /\ Exists(k)
            /\ attempt[k].channel # None => op[q].account \in bound[k] \cup {None}
            /\ Snapshot(k) # None => op[q].account # None
            /\ op[q].fromChannel => op[q].kind = "checkout"

\* The history holds the account the channel of an attempt is bound to now, and that of
\* the snapshot, which belongs to the attempt's organization; a channel that was bound
\* is never unbound.
BindingInHistory ==
    \A k \in Attempts :
        /\ attempt[k].channel # None => Binding(k) \in bound[k] \cup {None}
        /\ Snapshot(k) # None => /\ attempt[k].channel # None /\ Binding(k) # None
                                 /\ Snapshot(k) \in bound[k]
                                 /\ InOrganization(Snapshot(k), k)

\* An attempt that does not exist has no channel and was sent nowhere.
AbsentUntouched ==
    \A k \in Attempts : ~Exists(k) =>
        Snapshot(k) = None /\ attempt[k].channel = None /\ addressed[k] = {}

\* The inductive invariant: the property alone is not inductive, for an operation
\* under way may have been loaded with any account.
IInv ==
    /\ TypeOK
    /\ CommandsNameAccounts
    /\ OpsInHistory
    /\ BindingInHistory
    /\ AbsentUntouched
    /\ ServedByItsChannel

-----------------------------------------------------------------------------
\* The initial state satisfies the invariant: there are no attempts.
LEMMA InitInv == Init => IInv
<1> SUFFICES ASSUME Init PROVE IInv
  OBVIOUS
<1>1. TypeOK
  BY DEF Init, TypeOK, NoCommand, NoOp, NoChannel, UnboundChannel, LiveStatuses, Kinds, Merchants
<1>2. CommandsNameAccounts /\ OpsInHistory
  BY DEF Init, CommandsNameAccounts, OpsInHistory, NoOp, NoCommand
<1>3. BindingInHistory /\ AbsentUntouched /\ ServedByItsChannel
  BY DEF Init, BindingInHistory, AbsentUntouched, ServedByItsChannel, Exists, Snapshot
<1> QED
  BY <1>1, <1>2, <1>3 DEF IInv

\* What an operation resolves to is a merchant: its account if it has one, and else
\* the deployment's for an attempt with a channel.
LEMMA ResolvedMerchants ==
    ASSUME TypeOK, NEW q \in Clients
    PROVE  /\ Resolved(op[q]) \subseteq Merchants
           /\ op[q].account # None => Resolved(op[q]) \subseteq {op[q].account}
           /\ (op[q].account = None /\ attempt[op[q].attempt].channel # None)
              => Resolved(op[q]) \subseteq {Deployment}
<1>1. op[q].account \in Accounts \cup {None}
  BY DEF TypeOK
<1>2. CASE op[q].account # None
  BY <1>1, <1>2 DEF Resolved, Merchants
<1>3. CASE op[q].account = None
  <2>1. ByProvider(op[q].attempt) \subseteq Merchants
    BY DEF ByProvider, Merchants
  <2> QED
    BY <1>3, <2>1 DEF Resolved, Merchants
<1> QED
  BY <1>2, <1>3

\* The accounts and commands change, the payments and channels do not: the invariant
\* says nothing of the accounts beyond their types.
LEMMA ConfigInv ==
    ASSUME IInv, UNCHANGED <<channel, payments>>, TypeOK', CommandsNameAccounts'
    PROVE  IInv'
<1> USE DEF IInv, payments
<1>1. OpsInHistory'
  BY DEF OpsInHistory, Exists, Snapshot
<1>2. BindingInHistory'
  BY DEF BindingInHistory, Binding, Snapshot, InOrganization
<1>3. AbsentUntouched' /\ ServedByItsChannel'
  BY DEF AbsentUntouched, ServedByItsChannel, Exists, Snapshot
<1> QED
  BY <1>1, <1>2, <1>3

\* Binding a channel extends the history of its attempts by the account.
LEMMA UpsertChannelInv ==
    ASSUME IInv, NEW u \in Admins, NEW status \in {"active", "inactive"}, UpsertChannel(u, status)
    PROVE  IInv'
<1> USE DEF IInv
<1> DEFINE a == command[u].account
           c == command[u].channel
<1>1. /\ UNCHANGED <<account, attempt, op, traded, addressed>>
      /\ channel' = [channel EXCEPT ![c] = [status |-> status, account |-> a]]
      /\ command' = [command EXCEPT ![u] = NoCommand]
      /\ bound' = [k \in Attempts |-> IF Exists(k) /\ attempt[k].channel = c
                                      THEN bound[k] \cup {a} ELSE bound[k]]
  BY DEF UpsertChannel
<1>2. a \in Accounts /\ a # None
  BY DisjointAssumption DEF UpsertChannel, CommandsNameAccounts
<1>3. TypeOK'
  BY <1>1, <1>2 DEF TypeOK, NoCommand
<1>4. CommandsNameAccounts'
  BY <1>1 DEF CommandsNameAccounts, NoCommand, TypeOK
<1>5. /\ \A d \in Channels : channel'[d].account = IF d = c THEN a ELSE channel[d].account
      /\ \A k \in Attempts : bound[k] \subseteq bound'[k]
      /\ \A k \in Attempts : Exists(k) /\ attempt[k].channel = c => a \in bound'[k]
  BY <1>1 DEF TypeOK
<1>6. OpsInHistory'
  BY <1>1, <1>5 DEF OpsInHistory, Exists, Snapshot
<1>7. BindingInHistory'
  <2> SUFFICES ASSUME NEW k \in Attempts
               PROVE  /\ attempt[k].channel # None => Binding(k)' \in bound'[k] \cup {None}
                      /\ Snapshot(k) # None =>
                            /\ attempt[k].channel # None /\ Binding(k)' # None
                            /\ Snapshot(k) \in bound'[k]
                            /\ InOrganization(Snapshot(k), k)
    BY <1>1 DEF BindingInHistory, Snapshot, InOrganization
  <2>1. CASE attempt[k].channel = None
    BY <2>1 DEF BindingInHistory
  <2>2. CASE attempt[k].channel # None
    <3>1. attempt[k].channel \in Channels /\ Exists(k)
      BY <2>2 DEF TypeOK, AbsentUntouched
    <3>2. Binding(k)' = IF attempt[k].channel = c THEN a ELSE Binding(k)
      BY <1>1, <1>5, <2>2, <3>1 DEF Binding
    <3> QED
      BY <1>2, <1>5, <2>2, <3>1, <3>2 DEF BindingInHistory
  <2> QED
    BY <2>1, <2>2
<1>8. AbsentUntouched'
  BY <1>1 DEF AbsentUntouched, Exists, Snapshot
<1>9. ServedByItsChannel'
  BY <1>1, <1>5 DEF ServedByItsChannel, Snapshot
<1> QED
  BY <1>3, <1>4, <1>6, <1>7, <1>8, <1>9

\* The commands of operators preserve the invariant.
LEMMA AdministrationInv == IInv /\ Administration => IInv'
<1> SUFFICES ASSUME IInv, Administration PROVE IInv'
  OBVIOUS
<1> USE DEF IInv
<1>1. ASSUME NEW a \in Accounts, NEW status \in LiveStatuses, UpsertProviderAccount(a, status)
      PROVE  IInv'
  <2>1. TypeOK' /\ CommandsNameAccounts' /\ UNCHANGED <<channel, payments>>
    BY <1>1 DEF UpsertProviderAccount, TypeOK, CommandsNameAccounts, payments
  <2> QED
    BY <2>1, ConfigInv
<1>2. ASSUME NEW u \in Admins, NEW c \in Channels, NEW a \in Accounts, BeginUpsertChannel(u, c, a)
      PROVE  IInv'
  <2>1. TypeOK' /\ CommandsNameAccounts' /\ UNCHANGED <<channel, payments>>
    BY <1>2 DEF BeginUpsertChannel, TypeOK, CommandsNameAccounts, payments
  <2> QED
    BY <2>1, ConfigInv
<1>3. ASSUME NEW u \in Admins, NEW a \in Accounts, BeginDeleteProviderAccount(u, a)
      PROVE  IInv'
  <2>1. TypeOK' /\ CommandsNameAccounts' /\ UNCHANGED <<channel, payments>>
    BY <1>3 DEF BeginDeleteProviderAccount, TypeOK, CommandsNameAccounts, payments
  <2> QED
    BY <2>1, ConfigInv
<1>4. ASSUME NEW u \in Admins, DeleteProviderAccount(u)
      PROVE  IInv'
  <2>1. TypeOK' /\ UNCHANGED <<channel, payments>>
    BY <1>4 DEF DeleteProviderAccount, TypeOK, NoCommand, payments
  <2>2. CommandsNameAccounts'
    BY <1>4 DEF DeleteProviderAccount, TypeOK, CommandsNameAccounts, NoCommand
  <2> QED
    BY <2>1, <2>2, ConfigInv
<1>5. ASSUME NEW u \in Admins, CommandFails(u)
      PROVE  IInv'
  <2>1. TypeOK' /\ CommandsNameAccounts' /\ UNCHANGED <<channel, payments>>
    BY <1>5 DEF CommandFails, TypeOK, CommandsNameAccounts, NoCommand, payments
  <2> QED
    BY <2>1, ConfigInv
<1> QED
  BY <1>1, <1>2, <1>3, <1>4, <1>5, UpsertChannelInv DEF Administration

-----------------------------------------------------------------------------
\* The history of a new attempt starts with the account it was inserted with, which
\* belongs to its organization.
LEMMA InsertAttemptInv ==
    ASSUME IInv, NEW k \in Attempts, InsertAttempt(k)
    PROVE  IInv'
<1> USE DEF IInv
<1>1. PICK route \in Routes(k) :
         /\ attempt' = [attempt EXCEPT ![k] = [status |-> "pending", channel |-> route.channel,
                                               account |-> route.account]]
         /\ bound' = [bound EXCEPT ![k] = {route.account} \ {None}]
  BY DEF InsertAttempt
<1>2. UNCHANGED <<account, channel, command, op, traded, addressed>> /\ ~Exists(k)
  BY DEF InsertAttempt, config
<1>3. /\ route.channel \in Channels \cup {None} /\ route.account \in Accounts \cup {None}
      /\ route.channel # None => route.account = channel[route.channel].account
      /\ route.account # None => route.channel # None /\ InOrganization(route.account, k)
  <2>1. CASE route = Route(None)
    BY <2>1 DEF Route
  <2>2. CASE route # Route(None)
    <3>1. PICK c \in Channels : Eligible(c, k) /\ route = Route(c)
      BY <2>2 DEF Routes
    <3>2. c # None /\ channel[c].account \in Accounts \cup {None}
      BY DisjointAssumption DEF TypeOK
    <3> QED
      BY <3>1, <3>2 DEF Route, Eligible, Loadable
  <2> QED
    BY <2>1, <2>2
<1>4. /\ attempt'[k] = [status |-> "pending", channel |-> route.channel, account |-> route.account]
      /\ bound'[k] = {route.account} \ {None}
      /\ \A j \in Attempts \ {k} : attempt'[j] = attempt[j] /\ bound'[j] = bound[j]
  BY <1>1 DEF TypeOK
<1>5. TypeOK' /\ CommandsNameAccounts'
  BY <1>1, <1>2, <1>3 DEF TypeOK, CommandsNameAccounts
<1>6. OpsInHistory'
  BY <1>2, <1>4 DEF OpsInHistory, Exists, Snapshot
<1>7. BindingInHistory'
  <2> SUFFICES ASSUME NEW j \in Attempts
               PROVE  /\ attempt'[j].channel # None => Binding(j)' \in bound'[j] \cup {None}
                      /\ Snapshot(j)' # None => /\ attempt'[j].channel # None /\ Binding(j)' # None
                                                /\ Snapshot(j)' \in bound'[j]
                                                /\ InOrganization(Snapshot(j), j)'
    BY DEF BindingInHistory
  <2>1. CASE j = k
    BY <1>2, <1>3, <1>4, <2>1 DEF Binding, Snapshot, InOrganization
  <2>2. CASE j # k
    BY <1>2, <1>4, <2>2 DEF BindingInHistory, Binding, Snapshot, InOrganization
  <2> QED
    BY <2>1, <2>2
<1>8. AbsentUntouched'
  BY <1>2, <1>4 DEF AbsentUntouched, Exists, Snapshot
<1>9. ServedByItsChannel'
  BY <1>2, <1>4 DEF ServedByItsChannel, AbsentUntouched, Exists, Snapshot
<1> QED
  BY <1>5, <1>6, <1>7, <1>8, <1>9

\* Steps that leave the accounts, channels and commands, the history and the columns of
\* the attempts other than the status.
LEMMA PaymentInv ==
    ASSUME IInv, UNCHANGED <<config, bound>>, TypeOK', OpsInHistory', ServedByItsChannel',
           \A k \in Attempts : /\ attempt'[k].account = attempt[k].account
                               /\ attempt'[k].channel = attempt[k].channel
                               /\ ~Exists(k)' => ~Exists(k) /\ addressed'[k] = addressed[k]
    PROVE  IInv'
<1> USE DEF IInv, config
<1>1. CommandsNameAccounts'
  BY DEF CommandsNameAccounts
<1>2. BindingInHistory'
  BY DEF BindingInHistory, Binding, Snapshot, InOrganization
<1>3. AbsentUntouched'
  BY DEF AbsentUntouched, Snapshot
<1> QED
  BY <1>1, <1>2, <1>3

\* Settling changes the status of an attempt that exists.
LEMMA SettleAttemptInv ==
    ASSUME IInv, NEW k \in Attempts, SettleAttempt(k)
    PROVE  IInv'
<1> USE DEF IInv
<1>1. UNCHANGED <<account, channel, command, op, traded, addressed, bound>>
  BY DEF SettleAttempt, config
<1>2. /\ attempt'[k].status = "succeeded" /\ attempt'[k].account = attempt[k].account
      /\ attempt'[k].channel = attempt[k].channel
      /\ \A j \in Attempts \ {k} : attempt'[j] = attempt[j]
      /\ attempt[k].status = "pending"
  BY DEF SettleAttempt, TypeOK
<1>3. attempt' \in [Attempts -> [status : {"absent", "pending", "succeeded", "canceled"},
                                 channel : Channels \cup {None}, account : Accounts \cup {None}]]
  BY DEF SettleAttempt, TypeOK
<1>4. TypeOK'
  BY <1>1, <1>3, ZenonT(20) DEF TypeOK, Merchants
<1>5. OpsInHistory' /\ ServedByItsChannel'
  BY <1>1, <1>2 DEF OpsInHistory, ServedByItsChannel, Exists, Snapshot
<1> QED
  BY <1>1, <1>2, <1>4, <1>5, PaymentInv DEF config, Exists

-----------------------------------------------------------------------------
\* Loading the attempt takes the account of the binding or of the snapshot.
LEMMA LoadContextInv ==
    ASSUME IInv, NEW q \in Clients, NEW kind \in Kinds, NEW k \in Attempts, LoadContext(q, kind, k)
    PROVE  IInv'
<1> USE DEF IInv
<1> DEFINE a == IF kind = "worker query" THEN Snapshot(k) ELSE ContextAccount(k)
<1>1. /\ UNCHANGED <<account, channel, command, attempt, traded, addressed, bound>>
      /\ op' = [op EXCEPT ![q] = [kind |-> kind, attempt |-> k, fromChannel |-> FALSE, account |-> a]]
      /\ Startable(kind, k)
  BY DEF LoadContext, config
<1>2. /\ a \in Accounts \cup {None}
      /\ attempt[k].channel # None => a \in bound[k] \cup {None}
      /\ Snapshot(k) # None => a # None
  <2>1. Snapshot(k) \in Accounts \cup {None} /\ Binding(k) \in Accounts \cup {None}
    BY DEF TypeOK, Binding, Snapshot
  <2> QED
    BY <2>1 DEF ContextAccount, BindingInHistory
<1>3. Exists(k)
  BY <1>1 DEF Startable, Exists
<1>4. TypeOK'
  <2>1. op' \in [Clients -> [kind : Kinds \cup {"none"}, attempt : Attempts \cup {None},
                             account : Accounts \cup {None}, fromChannel : BOOLEAN]]
    BY <1>1, <1>2 DEF TypeOK
  <2> QED
    BY <1>1, <2>1 DEF TypeOK
<1>5. OpsInHistory'
  <2> SUFFICES ASSUME NEW p \in Clients, op'[p].kind # "none"
               PROVE  /\ op'[p].attempt \in Attempts /\ Exists(op'[p].attempt)
                      /\ attempt[op'[p].attempt].channel # None =>
                            op'[p].account \in bound[op'[p].attempt] \cup {None}
                      /\ Snapshot(op'[p].attempt) # None => op'[p].account # None
                      /\ op'[p].fromChannel => op'[p].kind = "checkout"
    BY <1>1 DEF OpsInHistory, Exists, Snapshot
  <2>1. CASE p = q
    BY <1>1, <1>2, <1>3, <2>1 DEF TypeOK
  <2>2. CASE p # q
    BY <1>1, <2>2 DEF TypeOK, OpsInHistory
  <2> QED
    BY <2>1, <2>2
<1>6. ServedByItsChannel'
  BY <1>1 DEF ServedByItsChannel, Snapshot
<1> QED
  BY <1>1, <1>4, <1>5, <1>6, PaymentInv DEF config, Exists

\* The second read of the channel takes the account it is bound to now.
LEMMA ReadChannelBindingInv ==
    ASSUME IInv, NEW q \in Clients, ReadChannelBinding(q)
    PROVE  IInv'
<1> USE DEF IInv
<1> DEFINE k == op[q].attempt
<1>1. /\ UNCHANGED <<account, channel, command, attempt, traded, addressed, bound>>
      /\ op' = [op EXCEPT ![q].fromChannel = TRUE, ![q].account = Binding(k)]
      /\ op[q].kind = "checkout" /\ op[q].account = None
  BY DEF ReadChannelBinding, config, AsksChannel
<1>2. k \in Attempts /\ Exists(k) /\ Snapshot(k) = None
  BY <1>1 DEF OpsInHistory
<1>3. /\ Binding(k) \in Accounts \cup {None}
      /\ attempt[k].channel # None => Binding(k) \in bound[k] \cup {None}
  BY <1>2 DEF TypeOK, Binding, BindingInHistory
<1>4. TypeOK'
  <2> DEFINE o == [op[q] EXCEPT !.fromChannel = TRUE, !.account = Binding(k)]
             OpType == [kind : Kinds \cup {"none"}, attempt : Attempts \cup {None},
                        account : Accounts \cup {None}, fromChannel : BOOLEAN]
  <2>1. o \in OpType
    <3>1. op[q] \in OpType /\ Binding(k) \in Accounts \cup {None}
      BY <1>3 DEF TypeOK
    <3> HIDE DEF k
    <3> QED
      BY <3>1
  <2>2. op' = [op EXCEPT ![q] = o]
    BY <1>1 DEF TypeOK
  <2>3. op' \in [Clients -> OpType]
    <3> HIDE DEF o, OpType
    <3>1. op \in [Clients -> OpType]
      BY DEF TypeOK, OpType
    <3> QED
      BY <2>1, <2>2, <3>1
  <2> QED
    BY <1>1, <2>3 DEF TypeOK
<1>5. OpsInHistory'
  <2> SUFFICES ASSUME NEW p \in Clients, op'[p].kind # "none"
               PROVE  /\ op'[p].attempt \in Attempts /\ Exists(op'[p].attempt)
                      /\ attempt[op'[p].attempt].channel # None =>
                            op'[p].account \in bound[op'[p].attempt] \cup {None}
                      /\ Snapshot(op'[p].attempt) # None => op'[p].account # None
                      /\ op'[p].fromChannel => op'[p].kind = "checkout"
    BY <1>1 DEF OpsInHistory, Exists, Snapshot
  <2>1. CASE p = q
    BY <1>1, <1>2, <1>3, <2>1 DEF TypeOK
  <2>2. CASE p # q
    BY <1>1, <2>2 DEF TypeOK, OpsInHistory
  <2> QED
    BY <2>1, <2>2
<1>6. ServedByItsChannel'
  BY <1>1 DEF ServedByItsChannel, Snapshot
<1> QED
  BY <1>1, <1>4, <1>5, <1>6, PaymentInv DEF config, Exists

-----------------------------------------------------------------------------
\* An operation that ends leaves the others as they were.
LEMMA OpsAfter ==
    ASSUME TypeOK, OpsInHistory, NEW q \in Clients,
           op' = [op EXCEPT ![q] = NoOp], bound' = bound,
           \A k \in Attempts : /\ attempt'[k].account = attempt[k].account
                               /\ attempt'[k].channel = attempt[k].channel
                               /\ attempt[k].status # "absent" => attempt'[k].status # "absent"
    PROVE  /\ OpsInHistory'
           /\ op' \in [Clients -> [kind : Kinds \cup {"none"}, attempt : Attempts \cup {None},
                                   account : Accounts \cup {None}, fromChannel : BOOLEAN]]
<1>1. op'[q].kind = "none" /\ \A p \in Clients \ {q} : op'[p] = op[p]
  BY DEF TypeOK, NoOp
<1>2. OpsInHistory'
  BY <1>1 DEF OpsInHistory, Exists, Snapshot
<1>3. NoOp \in [kind : Kinds \cup {"none"}, attempt : Attempts \cup {None},
                account : Accounts \cup {None}, fromChannel : BOOLEAN]
  BY DEF NoOp
<1> QED
  BY <1>2, <1>3 DEF TypeOK

\* A call is sent to the merchant resolved: an account of the history, or the
\* deployment's for an attempt inserted without an account.
LEMMA CallProviderInv ==
    ASSUME IInv, NEW q \in Clients, CallProvider(q)
    PROVE  IInv'
<1> USE DEF IInv
<1> DEFINE k == op[q].attempt
<1>1. /\ UNCHANGED <<account, channel, command, bound>>
      /\ op' = [op EXCEPT ![q] = NoOp]
      /\ op[q].kind # "none"
      /\ attempt' = IF op[q].kind = "close" /\ attempt[k].status = "pending"
                    THEN [attempt EXCEPT ![k].status = "canceled"] ELSE attempt
  BY DEF CallProvider, config
<1>2. PICK m \in Resolved(op[q]) :
         /\ addressed' = [addressed EXCEPT ![k] = @ \cup {m}]
         /\ traded' = IF op[q].kind = "checkout" THEN [traded EXCEPT ![k] = @ \cup {m}] ELSE traded
  BY DEF CallProvider
<1>3. /\ k \in Attempts /\ Exists(k)
      /\ attempt[k].channel # None => op[q].account \in bound[k] \cup {None}
      /\ Snapshot(k) # None => op[q].account # None
  BY <1>1 DEF OpsInHistory
<1>4. /\ m \in Merchants
      /\ attempt[k].channel # None =>
            m \in bound[k] \cup (IF Snapshot(k) = None THEN {Deployment} ELSE {})
  BY <1>2, <1>3, ResolvedMerchants
<1>5. /\ \A j \in Attempts : /\ attempt'[j].account = attempt[j].account
                             /\ attempt'[j].channel = attempt[j].channel
                             /\ attempt[j].status # "absent" <=> attempt'[j].status # "absent"
      /\ attempt' \in [Attempts -> [status : {"absent", "pending", "succeeded", "canceled"},
                                    channel : Channels \cup {None}, account : Accounts \cup {None}]]
  BY <1>1, <1>3 DEF TypeOK
<1>6. /\ addressed'[k] = addressed[k] \cup {m}
      /\ \A j \in Attempts \ {k} : addressed'[j] = addressed[j]
      /\ addressed' \in [Attempts -> SUBSET Merchants]
  BY <1>2, <1>3, <1>4 DEF TypeOK
<1>7. /\ traded'[k] \subseteq traded[k] \cup {m}
      /\ \A j \in Attempts \ {k} : traded'[j] = traded[j]
      /\ traded' \in [Attempts -> SUBSET Merchants]
  BY <1>2, <1>3, <1>4 DEF TypeOK
<1>8. OpsInHistory' /\ op' \in [Clients -> [kind : Kinds \cup {"none"},
           attempt : Attempts \cup {None}, account : Accounts \cup {None}, fromChannel : BOOLEAN]]
  BY <1>1, <1>5, OpsAfter
<1>9. TypeOK'
  <2>1. \A j \in Attempts : traded'[j] \subseteq addressed'[j]
    BY <1>3, <1>6, <1>7 DEF TypeOK
  <2> QED
    BY <1>1, <1>5, <1>6, <1>7, <1>8, <2>1 DEF TypeOK
<1>10. ServedByItsChannel'
  BY <1>1, <1>3, <1>4, <1>5, <1>6 DEF ServedByItsChannel, Snapshot
<1>11. \A j \in Attempts : ~Exists(j)' => ~Exists(j) /\ addressed'[j] = addressed[j]
  BY <1>3, <1>5, <1>6 DEF Exists
<1> QED
  BY <1>1, <1>5, <1>8, <1>9, <1>10, <1>11, PaymentInv DEF config

\* An operation that fails is forgotten.
LEMMA OperationFailsInv ==
    ASSUME IInv, NEW q \in Clients, OperationFails(q)
    PROVE  IInv'
<1> USE DEF IInv
<1>1. /\ UNCHANGED <<account, channel, command, attempt, traded, addressed, bound>>
      /\ op' = [op EXCEPT ![q] = NoOp]
  BY DEF OperationFails, config
<1>2. OpsInHistory' /\ op' \in [Clients -> [kind : Kinds \cup {"none"},
           attempt : Attempts \cup {None}, account : Accounts \cup {None}, fromChannel : BOOLEAN]]
  BY <1>1, OpsAfter
<1>3. TypeOK'
  BY <1>1, <1>2 DEF TypeOK
<1>4. ServedByItsChannel'
  BY <1>1 DEF ServedByItsChannel, Snapshot
<1> QED
  BY <1>1, <1>2, <1>3, <1>4, PaymentInv DEF config, Exists

-----------------------------------------------------------------------------
\* Every step preserves the invariant.
LEMMA NextInv == IInv /\ [Next]_vars => IInv'
<1> SUFFICES ASSUME IInv, [Next]_vars PROVE IInv'
  OBVIOUS
<1>1. CASE Administration
  BY <1>1, AdministrationInv
<1>2. CASE Operation
  BY <1>2, LoadContextInv, ReadChannelBindingInv, CallProviderInv, OperationFailsInv DEF Operation
<1>3. ASSUME NEW k \in Attempts, InsertAttempt(k) PROVE IInv'
  BY <1>3, InsertAttemptInv
<1>4. ASSUME NEW k \in Attempts, SettleAttempt(k) PROVE IInv'
  BY <1>4, SettleAttemptInv
<1>5. CASE UNCHANGED vars
  <2>1. UNCHANGED <<channel, payments>> /\ TypeOK' /\ CommandsNameAccounts'
    BY <1>5 DEF vars, payments, config, IInv, TypeOK, CommandsNameAccounts
  <2> QED
    BY <2>1, ConfigInv
<1> QED
  BY <1>1, <1>2, <1>3, <1>4, <1>5 DEF Next

\* The invariant holds in every reachable state.
THEOREM Invariance == Spec => []IInv
  BY InitInv, NextInv, PTL DEF Spec

\* Type correctness, for every value of the constants.
THEOREM TypeCorrect == Spec => []TypeOK
<1>1. IInv => TypeOK
  BY DEF IInv
<1> QED
  BY <1>1, Invariance, PTL

\* An attempt is served by the accounts its channel was bound to, whatever operators
\* do meanwhile.
THEOREM ServedByChannel == Spec => []ServedByItsChannel
<1>1. IInv => ServedByItsChannel
  BY DEF IInv
<1> QED
  BY <1>1, Invariance, PTL

\* The account of the snapshot is found by every close and refund of the attempt, as
\* long as the channel was bound to no other and the account is in service.
THEOREM StaysReachable == Spec => []UnreboundStaysReachable
<1>1. IInv => UnreboundStaysReachable
  <2> SUFFICES ASSUME IInv, NEW q \in Clients,
                      op[q].kind \in {"close", "app refund", "backend refund"},
                      Unrebound(op[q].attempt),
                      account[Snapshot(op[q].attempt)] \in {"active", "inactive"}
               PROVE  Resolved(op[q]) = {Snapshot(op[q].attempt)}
    BY DEF UnreboundStaysReachable
  <2>1. /\ op[q].attempt \in Attempts /\ Snapshot(op[q].attempt) # None
        /\ op[q].account = Snapshot(op[q].attempt) /\ ~op[q].fromChannel
    BY DEF IInv, OpsInHistory, BindingInHistory, Unrebound
  <2>2. Loadable(op[q].account, op[q].attempt, {"active", "inactive"})
    BY <2>1 DEF IInv, BindingInHistory, Loadable
  <2>3. Acceptable(op[q]) = {"active", "inactive"}
    BY <2>1 DEF Acceptable, WorkerKinds
  <2>4. Resolved(op[q]) = {a \in {op[q].account} : Loadable(a, op[q].attempt, Acceptable(op[q]))}
    BY <2>1 DEF Resolved
  <2> QED
    BY <2>1, <2>2, <2>3, <2>4
<1> QED
  BY <1>1, Invariance, PTL
=============================================================================
