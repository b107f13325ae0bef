-------------------------- MODULE MCMerchantRouting --------------------------
(***************************************************************************)
(* Instances of MerchantRouting: accounts of the attempt's organization,   *)
(* of the platform and of a third organization compete for one channel.    *)
(***************************************************************************)
EXTENDS MerchantRouting, TLC

CONSTANTS own, inherited, foreign, c1, k1

MCOrgOf == own :> "o1" @@ inherited :> "0" @@ foreign :> "o2" @@ c1 :> "o1" @@ k1 :> "o1"
=============================================================================
