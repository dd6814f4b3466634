------------------------ MODULE MCTenantRunScheduler ------------------------
(* A flooding tenant with two runs of one conversation against two runs  *)
(* of another tenant.                                                      *)
EXTENDS TenantRunScheduler

CONSTANTS ta, tb, a1, a2, a3, b1, b2, s1

MCRun == {a1, a2, a3, b1, b2}
MCTenant == {ta, tb}
MCTenantOf == [r \in Run |-> IF r \in {b1, b2} THEN tb ELSE ta]
MCSessionOf == [r \in Run |-> IF r \in {a1, a2} THEN s1 ELSE NoSession]
=============================================================================
