------------------------- MODULE MCProviderCredentials -------------------------
(***************************************************************************)
(* One account of any provider, two back office requests and two hosts; the *)
(* environment sets nothing, one secret, or all a provider needs.          *)
(***************************************************************************)
EXTENDS ProviderCredentials, TLC

CONSTANTS o1, o2, h1, h2

MCEnvironments == {{}, {"primary"}, {"merchant", "primary", "certificate"}}
MCWrites == {{"primary"}, {"primary", "webhook"}, {"primary", "certificate"}}
MCNamed == {{}, {"certificate"}}
Symmetric == Permutations({o1, o2}) \cup Permutations({h1, h2})
=============================================================================
