------------------------ MODULE MCCompensationWorker ------------------------
(***************************************************************************)
(* Instances of CompensationWorker.  An even row belongs to tenant 2, an   *)
(* odd one to tenant 1; Foreign rows belong to another organization.       *)
(***************************************************************************)
EXTENDS CompensationWorker

CONSTANT Foreign

MCTenantOf == [r \in Rows |-> IF r % 2 = 0 THEN 2 ELSE 1]
MCOrgOf == [r \in Rows |-> IF r \in Foreign THEN "other" ELSE "0"]
=============================================================================
