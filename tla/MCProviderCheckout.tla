------------------------- MODULE MCProviderCheckout -------------------------
(***************************************************************************)
(* Instances of ProviderCheckout: two attempts compete for the order, one  *)
(* at a provider that cancels by the merchant's number, one at a provider  *)
(* that cancels by its own trade id.                                       *)
(***************************************************************************)
EXTENDS ProviderCheckout, TLC

Symmetry == Permutations(Requests)

\* Whether a canceled or settled attempt has expired is asked nowhere.
View == <<payable, intent, intentKey, attempt, created, {k \in fresh : Active(k)},
          provider, superseded, lock, req>>
=============================================================================
