--------------------------- MODULE TenantRunQueues ---------------------------
(***************************************************************************)
(* The data structure behind TenantRunScheduler                            *)
(* (src/src/scheduling/tenant-run-scheduler.ts): one FIFO queue per        *)
(* tenant, the rotation of tenants that have something waiting, and the    *)
(* runs that hold a logical execution slot.  Each public method of the     *)
(* class is an operator from a scheduler state to a scheduler state, so    *)
(* that the scheduler's own specification and the coordinator that calls   *)
(* several methods in one synchronous step share one definition.           *)
(*                                                                         *)
(* A run's tenant and session never change, so they are functions of the   *)
(* run; the maps activeTenantByRunId and activeSessionByRunId, which have  *)
(* the same keys up to runs without a session, are the set "active".       *)
(***************************************************************************)
EXTENDS Integers, Sequences, FiniteSets

CONSTANTS
  Run,          \* run identifiers
  Tenant,       \* tenants, the subject of fairness and of the second limit
  NoSession,    \* the sessionId of a run that belongs to no conversation
  TenantOf,     \* [Run -> Tenant]
  SessionOf,    \* run -> its session, or NoSession
  MaxActive,    \* config.maxActiveRuns
  MaxPerTenant, \* config.maxActiveRunsPerTenant
  AgingMs       \* config.agingMs, 0 when aging is off

ASSUME RunAssumption == IsFiniteSet(Run)

ASSUME TenantAssumption ==
  /\ TenantOf \in [Run -> Tenant]
  /\ DOMAIN SessionOf = Run

\* The constructor rejects any other configuration.
ASSUME LimitAssumption ==
  /\ MaxActive \in Nat \ {0}
  /\ MaxPerTenant \in Nat \ {0}
  /\ MaxPerTenant =< MaxActive
  /\ AgingMs \in Nat

\* A QueuedRun: the run and the time its wait is counted from.
Entry == [run : Run, at : Nat]

Scheduler == [queue : [Tenant -> Seq(Entry)], order : Seq(Tenant), active : SUBSET Run]

EmptyScheduler == [queue |-> [t \in Tenant |-> <<>>], order |-> <<>>, active |-> {}]

-----------------------------------------------------------------------------
(* Queries *)

\* The runs waiting in the queue of tenant t.
WaitingOf(s, t) == {s.queue[t][i].run : i \in DOMAIN s.queue[t]}

\* findQueuedRun(runId) !== null.
Waiting(s) == UNION {WaitingOf(s, t) : t \in Tenant}

\* getActiveTenantRunCount counts these.
ActiveOf(s, t) == {r \in s.active : TenantOf[r] = t}

\* hasActiveSession, asked only of runs that have a session.
SessionBusy(s, r) ==
  /\ SessionOf[r] # NoSession
  /\ \E a \in s.active : SessionOf[a] = SessionOf[r]

Backlogged(s, t) == s.queue[t] # <<>>

\* Mutant of Eligible: the check of the conversation is forgotten.
EligibleIgnoringSession(s, t) ==
  Backlogged(s, t) /\ Cardinality(ActiveOf(s, t)) < MaxPerTenant

\* The head of t may be claimed: neither t's limit nor its session forbids it.
Eligible(s, t) ==
  /\ Backlogged(s, t)
  /\ Cardinality(ActiveOf(s, t)) < MaxPerTenant
  /\ ~SessionBusy(s, Head(s.queue[t]).run)

\* Mutant of HasSlot: off by one.
HasSlotOrOneMore(s) == Cardinality(s.active) =< MaxActive

HasSlot(s) == Cardinality(s.active) < MaxActive

\* Positions of the rotation whose tenant could be claimed from now.
Candidates(s) == {i \in DOMAIN s.order : Eligible(s, s.order[i])}

Waited(s, t, now) == now - Head(s.queue[t]).at

AgedCandidates(s, now) ==
  {i \in Candidates(s) : AgingMs > 0 /\ Waited(s, s.order[i], now) >= AgingMs}

-----------------------------------------------------------------------------
(* Methods *)

Before(q, i) == SubSeq(q, 1, i - 1)
After(q, i) == SubSeq(q, i + 1, Len(q))
Without(q, i) == Before(q, i) \o After(q, i)

\* Mutant of CanEnqueue: a run that holds a slot is let in.
CanEnqueueWhileActive(s, r) == r \notin Waiting(s)

\* The two early throws of enqueue.
CanEnqueue(s, r) == r \notin s.active /\ r \notin Waiting(s)

\* Mutant of Enqueue: the run's id is put in the rotation.
EnqueueRunInRotation(s, r, at) ==
  LET t == TenantOf[r] IN
  [s EXCEPT !.queue[t] = Append(@, [run |-> r, at |-> at]), !.order = Append(@, r)]

\* enqueue: to the tail of the tenant's queue; a tenant that had nothing
\* waiting joins the tail of the rotation.
Enqueue(s, r, at) ==
  LET t == TenantOf[r] IN
  [s EXCEPT !.queue[t] = Append(@, [run |-> r, at |-> at]),
            !.order = IF Backlogged(s, t) THEN @ ELSE Append(@, t)]

\* Mutants of Take: the newest run of the tenant is claimed; the served tenant
\* does not go back into the rotation.
TakeNewest(s, i, others) ==
  LET t == s.order[i]
      n == Len(s.queue[t])
  IN [queue  |-> [s.queue EXCEPT ![t] = SubSeq(@, 1, n - 1)],
      order  |-> IF n = 1 THEN others ELSE Append(others, t),
      active |-> s.active \cup {s.queue[t][n].run}]

TakeTurnAway(s, i, others) ==
  LET t == s.order[i] IN
  [queue  |-> [s.queue EXCEPT ![t] = Tail(@)],
   order  |-> others,
   active |-> s.active \cup {Head(s.queue[t]).run}]

\* Claim the head of the tenant at position i, the other tenants being left
\* in the order "others": the tenant goes behind them if it still has a
\* backlog and drops out of the rotation otherwise.
Take(s, i, others) ==
  LET t == s.order[i]
      rest == Tail(s.queue[t])
  IN [queue  |-> [s.queue EXCEPT ![t] = rest],
      order  |-> IF rest = <<>> THEN others ELSE Append(others, t),
      active |-> s.active \cup {Head(s.queue[t]).run}]

\* claimAged: among the heads that waited at least AgingMs the longest wait
\* wins, the later position on a tie.
AgedIndex(s, now) ==
  LET w(i) == Waited(s, s.order[i], now)
      A == AgedCandidates(s, now)
  IN CHOOSE i \in A : \A j \in A : w(j) < w(i) \/ (w(j) = w(i) /\ j =< i)

\* Mutant of RotationIndex: the rotation is scanned from its tail.
LastCandidate(s) ==
  CHOOSE i \in Candidates(s) : \A j \in Candidates(s) : j =< i

\* The rotation stops at the first tenant that may be claimed from.
RotationIndex(s) ==
  CHOOSE i \in Candidates(s) : \A j \in Candidates(s) : i =< j

ClaimIndex(s, now) ==
  IF AgedCandidates(s, now) # {} THEN AgedIndex(s, now) ELSE RotationIndex(s)

CanClaim(s) == HasSlot(s) /\ Candidates(s) # {}

\* The run claimNext returns.
Claimed(s, now) == Head(s.queue[s.order[ClaimIndex(s, now)]])

\* claimNext.  An aged claim leaves the other tenants where they are; the
\* rotation has moved every tenant it passed over to the tail.  When nothing
\* can be claimed the rotation has come full circle and nothing changes.
\* (A tenant without a backlog is dropped by the loop; RotationIsBacklog says
\* that the rotation never holds one.)
Claim(s, now) ==
  LET i == ClaimIndex(s, now) IN
  IF AgedCandidates(s, now) # {}
  THEN Take(s, i, Without(s.order, i))
  ELSE Take(s, i, After(s.order, i) \o Before(s.order, i))

\* release, idempotent.
Release(s, r) == [s EXCEPT !.active = @ \ {r}]

\* Mutant of RemoveQueued: the rotation keeps a tenant with an empty queue.
RemoveQueuedKeepingTurn(s, r) ==
  LET t == TenantOf[r] IN
  IF r \notin WaitingOf(s, t) THEN s
  ELSE LET i == CHOOSE i \in DOMAIN s.queue[t] : s.queue[t][i].run = r
       IN [s EXCEPT !.queue[t] = Without(@, i)]

\* The rotation without the first place of t, if t has one.
WithoutTenant(order, t) ==
  LET P == {p \in DOMAIN order : order[p] = t} IN
  IF P = {} THEN order ELSE Without(order, CHOOSE p \in P : \A q \in P : p =< q)

\* removeQueued, from anywhere in the tenant's queue; the identity on a run
\* that is not waiting.
RemoveQueued(s, r) ==
  LET t == TenantOf[r] IN
  IF r \notin WaitingOf(s, t) THEN s
  ELSE LET i == CHOOSE i \in DOMAIN s.queue[t] : s.queue[t][i].run = r
           rest == Without(s.queue[t], i)
       IN [s EXCEPT !.queue[t] = rest,
                    !.order = IF rest = <<>> THEN WithoutTenant(@, t) ELSE @]

-----------------------------------------------------------------------------
(* Consistency of a scheduler state *)

LimitsHold(s) ==
  /\ Cardinality(s.active) =< MaxActive
  /\ \A t \in Tenant : Cardinality(ActiveOf(s, t)) =< MaxPerTenant

OnePerSession(s) ==
  \A a, b \in s.active : SessionOf[a] = SessionOf[b] /\ SessionOf[a] # NoSession => a = b

\* A run waits in its own tenant's queue, once, and only while it is not active.
EachRunOnce(s) ==
  /\ s.active \cap Waiting(s) = {}
  /\ \A t \in Tenant : \A i \in DOMAIN s.queue[t] : TenantOf[s.queue[t][i].run] = t
  /\ \A t \in Tenant : \A i, j \in DOMAIN s.queue[t] :
       s.queue[t][i].run = s.queue[t][j].run => i = j

\* The rotation lists the tenants with a backlog, each once.
RotationIsBacklog(s) ==
  /\ \A t \in Tenant : Backlogged(s, t) <=> \E i \in DOMAIN s.order : s.order[i] = t
  /\ \A i, j \in DOMAIN s.order : s.order[i] = s.order[j] => i = j

Consistent(s) ==
  s \in Scheduler /\ LimitsHold(s) /\ OnePerSession(s) /\ EachRunOnce(s) /\ RotationIsBacklog(s)
=============================================================================
