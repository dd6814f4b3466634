-------------------------- MODULE MCSchedulerTurns --------------------------
(* Three runs of a flooding tenant against one run of each of two others. *)
EXTENDS SchedulerTurns

CONSTANTS ta, tb, tc, a1, a2, a3, b1, c1

MCRun == {a1, a2, a3, b1, c1}
MCTenant == {ta, tb, tc}
MCTenantOf ==
  [r \in Run |-> IF r = b1 THEN tb ELSE IF r = c1 THEN tc ELSE ta]
MCSessionOf == [r \in Run |-> NoSession]
=============================================================================
