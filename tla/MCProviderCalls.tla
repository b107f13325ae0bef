--------------------------- MODULE MCProviderCalls ---------------------------
(***************************************************************************)
(* Instances of ProviderCalls: two refunds, so that one may leave the      *)
(* trade open for the other, and every provider in turn.                   *)
(***************************************************************************)
EXTENDS ProviderCalls, TLC

Symmetry == Permutations(Refunds)

\* Readings that nothing is recorded of, whatever was asked: the call ends.
Mute == {"unsent", "error", "pending", "processing", "unknown", "absent"}
Shown(x) == IF x.phase = "answered" /\ x.reading \in Mute THEN "mute" ELSE x

\* No guard and no property of the passing run reads reconciled, which only
\* records what has happened, or tells mute readings apart in what follows.
Unreconciled ==
    <<kind, trade, charged, native, made, wire, [c \in Clients |-> Shown(call[c])],
      attempt, presumed, refunded>>
=============================================================================
