--------------------------- MODULE SchedulerTurns ---------------------------
(***************************************************************************)
(* TenantRunScheduler with a history of turns: for two tenants t and u,    *)
(* how many times u was served since t last was served or could not be.    *)
(* The history observes the scheduler and never constrains it.             *)
(***************************************************************************)
EXTENDS TenantRunScheduler

VARIABLE passed   \* [Tenant -> [Tenant -> Nat]], history only

turnVars == <<sched, now, passed>>

TurnInit == Init /\ passed = [t \in Tenant |-> [u \in Tenant |-> 0]]

\* The tenants a step served: those of the runs that gained a slot.
Served == {TenantOf[r] : r \in sched'.active \ sched.active}

RecordTurns ==
  passed' = [t \in Tenant |-> [u \in Tenant |->
    IF t \in Served \/ ~Eligible(sched, t) \/ ~Eligible(sched', t) THEN 0
    ELSE passed[t][u] + (IF u \in Served THEN 1 ELSE 0)]]

\* Runs enter with their submission time, as RunQueueCoordinator.submit does.
SubmitRun(r) ==
  /\ CanEnqueue(sched, r)
  /\ sched' = Enqueue(sched, r, now)
  /\ UNCHANGED now

TurnNext ==
  /\ \/ \E r \in Run : SubmitRun(r) \/ ReleaseRun(r) \/ RemoveQueuedRun(r)
     \/ ClaimNext
     \/ Tick
  /\ RecordTurns

TurnSpec == TurnInit /\ [][TurnNext]_turnVars

TurnFairSpec ==
  TurnSpec /\ WF_turnVars(ClaimNext /\ RecordTurns)
           /\ \A r \in Run : WF_turnVars(ReleaseRun(r) /\ RecordTurns)

-----------------------------------------------------------------------------
(* Properties *)

\* Round robin: while a tenant can be served, no other tenant is served twice
\* before it.  A tenant that cannot be served loses its claim to a turn, not
\* its place in the backlog.
TenantsTakeTurns == \A t, u \in Tenant : passed[t][u] =< 1
=============================================================================
