------------------------- MODULE TenantRunScheduler -------------------------
(***************************************************************************)
(* The scheduler as its callers see it: any sequence of calls to enqueue,  *)
(* claimNext, release and removeQueued on one TenantRunScheduler, with a   *)
(* clock.  The class is synchronous and lives in one event loop, so every  *)
(* call is one step; what a caller does between two calls is left open.    *)
(***************************************************************************)
EXTENDS TenantRunQueues

CONSTANT MaxTime   \* bound on the clock

ASSUME TimeAssumption == MaxTime \in Nat

VARIABLES
  sched,  \* the queues, the rotation and the active runs
  now     \* config.now, in units of which AgingMs is a multiple

vars == <<sched, now>>

Init == sched = EmptyScheduler /\ now = 0

\* enqueue(input): a caller passes the time the wait is counted from, "now"
\* for a new run and the preserved enqueuedAt for one that is put back.
EnqueueRun(r) ==
  /\ CanEnqueue(sched, r)
  /\ \E at \in 0..now : sched' = Enqueue(sched, r, at)
  /\ UNCHANGED now

ClaimNext ==
  /\ CanClaim(sched)
  /\ sched' = Claim(sched, now)
  /\ UNCHANGED now

ReleaseRun(r) ==
  /\ sched' = Release(sched, r)
  /\ UNCHANGED now

RemoveQueuedRun(r) ==
  /\ sched' = RemoveQueued(sched, r)
  /\ UNCHANGED now

Tick == now < MaxTime /\ now' = now + 1 /\ UNCHANGED sched

Next ==
  \/ \E r \in Run : EnqueueRun(r) \/ ReleaseRun(r) \/ RemoveQueuedRun(r)
  \/ ClaimNext
  \/ Tick

Spec == Init /\ [][Next]_vars

\* The pump asks for a claim again and again, and the coordinator's finally
\* block releases every run it claimed.
Fairness == WF_vars(ClaimNext) /\ \A r \in Run : WF_vars(ReleaseRun(r))

FairSpec == Spec /\ Fairness

-----------------------------------------------------------------------------
(* Properties *)

TypeOK == sched \in Scheduler /\ now \in 0..MaxTime

\* maxActiveRuns and maxActiveRunsPerTenant hold whatever the callers do:
\* claimNext checks both before it takes a slot and nothing else takes one.
WithinLimits == LimitsHold(sched)

\* A conversation is an ordered message stream: two runs of one session never
\* hold slots together, on the rotation path and on the aged path alike.
SessionsAreSerial == OnePerSession(sched)

\* A run is waiting or active, never both, and waits in one place only, its
\* own tenant's queue: otherwise it would be executed twice.
NoRunTwice == EachRunOnce(sched)

\* The rotation lists exactly the tenants with a backlog, each once.  A tenant
\* missing from it would never be served again, one listed twice would get
\* two turns in a round.
OrderIsBacklog == RotationIsBacklog(sched)

\* claimNext never passes over a run of the same tenant: a claimed run was at
\* the head of its tenant's queue, and the runs that stay keep their order.
\* The queue of a tenant changes only at its two ends unless a caller removes
\* a run from it.
ClaimsFromTheHead ==
  [][\A r \in sched'.active \ sched.active :
       LET t == TenantOf[r] IN
         /\ sched.queue[t] # <<>>
         /\ Head(sched.queue[t]).run = r
         /\ sched'.queue[t] = Tail(sched.queue[t])]_vars

\* Every waiting run leaves the queue in the end, whatever the other tenants
\* submit (with fair claims and releases).
NoStarvation == \A r \in Run : r \in Waiting(sched) ~> r \notin Waiting(sched)
=============================================================================
