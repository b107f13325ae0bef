--------------------------- MODULE CaptureLedger ---------------------------
(***************************************************************************)
(* What payment settlement promises, without its tables.  Money is         *)
(* captured by an attempt, once: the ledger records which report made the  *)
(* capture, and never forgets or replaces it.  An intent counts as paid    *)
(* from the very step that captures its first attempt.                     *)
(***************************************************************************)
CONSTANTS
    Attempts,   \* payment attempts (PSP charges)
    Intents,    \* payment intents
    Reports,    \* what a capture can be owed to: an event, a confirmation, a query
    None        \* no report, no intent

VARIABLES
    owner,      \* the intent an attempt belongs to
    ledger,     \* the report each captured attempt is owed to
    paid        \* the intents that count as paid

ledgerVars == <<owner, ledger, paid>>

LedgerInit ==
    /\ owner = [a \in Attempts |-> None]
    /\ ledger = [a \in Attempts |-> None]
    /\ paid = {}

\* An attempt is opened under an intent and stays there.
Open(a, i) ==
    /\ owner[a] = None
    /\ owner' = [owner EXCEPT ![a] = i]
    /\ UNCHANGED <<ledger, paid>>

\* The one capture of an attempt pays its intent in the same step.
Capture(a, r) ==
    /\ owner[a] \in Intents
    /\ ledger[a] = None
    /\ ledger' = [ledger EXCEPT ![a] = r]
    /\ paid' = paid \cup {owner[a]}
    /\ UNCHANGED owner

LedgerNext ==
    \E a \in Attempts :
        \/ \E i \in Intents : Open(a, i)
        \/ \E r \in Reports : Capture(a, r)

LedgerSpec == LedgerInit /\ [][LedgerNext]_ledgerVars

=============================================================================
