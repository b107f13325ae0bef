---------------------------- MODULE PayoutLedger ----------------------------
(***************************************************************************)
(* What refund execution promises, without its rows, requests and calls: a *)
(* refund is recorded as succeeded only after the provider has paid it     *)
(* out, and neither the payout nor its record is ever taken back.          *)
(***************************************************************************)
CONSTANT Refunds

VARIABLES
    paidOut,    \* refunds whose money the provider has returned to the buyer
    recorded    \* refunds that the payment tables call succeeded

ledgerVars == <<paidOut, recorded>>

LedgerInit == paidOut = {} /\ recorded = {}

PayOut(r) ==
    /\ r \notin paidOut
    /\ paidOut' = paidOut \cup {r}
    /\ UNCHANGED recorded

Record(r) ==
    /\ r \in paidOut \ recorded
    /\ recorded' = recorded \cup {r}
    /\ UNCHANGED paidOut

LedgerNext == \E r \in Refunds : PayOut(r) \/ Record(r)

LedgerSpec == LedgerInit /\ [][LedgerNext]_ledgerVars
=============================================================================
