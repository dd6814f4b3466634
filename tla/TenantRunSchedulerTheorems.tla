----------------------- MODULE TenantRunSchedulerTheorems -----------------------
(***************************************************************************)
(* The safety of the scheduler for every set of runs and tenants, every    *)
(* limit and every clock.  The inductive invariant is that the state is    *)
(* consistent as a whole: the limits alone are inductive, but claimNext    *)
(* needs the rotation to name tenants and the head of a queue not to hold  *)
(* a slot already for the other three.                                     *)
(***************************************************************************)
EXTENDS SchedulerTurns, TenantRunQueuesTheorems

IInv == Consistent(sched) /\ now \in 0..MaxTime

\* IInv holds of the empty scheduler, every call preserves it, and it implies
\* the properties the run checks.
LEMMA IInvInit == Init => IInv
BY EmptyConsistent, TimeAssumption DEF Init, IInv

LEMMA IInvNext == IInv /\ [Next]_vars => IInv'
<1> SUFFICES ASSUME IInv, [Next]_vars
             PROVE  IInv'
  OBVIOUS
<1>1. now \in Nat /\ MaxTime \in Nat
  BY TimeAssumption DEF IInv
<1>2. ASSUME NEW r \in Run, EnqueueRun(r)
      PROVE  IInv'
  <2>1. PICK at \in 0..now : sched' = Enqueue(sched, r, at)
    BY <1>2 DEF EnqueueRun
  <2>2. at \in Nat
    BY <1>1
  <2> QED  BY <1>2, <2>1, <2>2, EnqueueConsistent DEF EnqueueRun, IInv
<1>3. ASSUME NEW r \in Run, ReleaseRun(r)
      PROVE  IInv'
  BY <1>3, ReleaseConsistent DEF ReleaseRun, IInv
<1>4. ASSUME NEW r \in Run, RemoveQueuedRun(r)
      PROVE  IInv'
  BY <1>4, RemoveQueuedConsistent DEF RemoveQueuedRun, IInv
<1>5. CASE ClaimNext
  BY <1>1, <1>5, ClaimConsistent DEF ClaimNext, IInv
<1>6. CASE Tick
  BY <1>1, <1>6 DEF Tick, IInv
<1>7. CASE UNCHANGED vars
  BY <1>7 DEF vars, IInv
<1> QED  BY <1>2, <1>3, <1>4, <1>5, <1>6, <1>7 DEF Next

\* The scheduler state is consistent whatever its callers do.
THEOREM AlwaysConsistent == Spec => []IInv
BY IInvInit, IInvNext, PTL DEF Spec

\* TypeOK for every value of the constants.
THEOREM TypeCorrect == Spec => []TypeOK
<1>1. IInv => TypeOK
  BY DEF IInv, Consistent, TypeOK
<1> QED  BY <1>1, AlwaysConsistent, PTL

\* WithinLimits: neither maxActiveRuns nor maxActiveRunsPerTenant is ever
\* exceeded.
THEOREM LimitsAreKept == Spec => []WithinLimits
<1>1. IInv => WithinLimits
  BY DEF IInv, Consistent, WithinLimits
<1> QED  BY <1>1, AlwaysConsistent, PTL

\* SessionsAreSerial: two runs of one conversation never hold slots together.
THEOREM ConversationsAreSerial == Spec => []SessionsAreSerial
<1>1. IInv => SessionsAreSerial
  BY DEF IInv, Consistent, SessionsAreSerial
<1> QED  BY <1>1, AlwaysConsistent, PTL

\* NoRunTwice: a run waits once, in its own tenant's queue, and never while it
\* holds a slot.
THEOREM RunsAreScheduledOnce == Spec => []NoRunTwice
<1>1. IInv => NoRunTwice
  BY DEF IInv, Consistent, NoRunTwice
<1> QED  BY <1>1, AlwaysConsistent, PTL

\* OrderIsBacklog: the rotation is the tenants with a backlog, each once, so
\* the branch of claimNext that drops an empty queue is never taken.
THEOREM RotationIsTheBacklog == Spec => []OrderIsBacklog
<1>1. IInv => OrderIsBacklog
  BY DEF IInv, Consistent, OrderIsBacklog
<1> QED  BY <1>1, AlwaysConsistent, PTL

\* Only claimNext hands out slots, and it hands one to the head of its tenant.
LEMMA ClaimTakesAHead ==
  ASSUME NEW s, Consistent(s), NEW at \in Nat, CanClaim(s)
  PROVE  \E t \in Tenant :
           LET r == Head(s.queue[t]).run IN
           /\ s.queue[t] # <<>> /\ TenantOf[r] = t
           /\ Claim(s, at).active = s.active \cup {r}
           /\ Claim(s, at).queue = [s.queue EXCEPT ![t] = Tail(@)]
<1> DEFINE i == ClaimIndex(s, at)
           t == s.order[i]
           r == Head(s.queue[t]).run
<1>1. s.queue \in [Tenant -> Seq(Entry)] /\ s.order \in Seq(Tenant)
  BY DEF Consistent, Scheduler
<1>2. i \in 1..Len(s.order) /\ Eligible(s, t)
  BY ClaimIndexMayBeClaimed DEF Consistent
<1>3. t \in Tenant /\ s.queue[t] # <<>>
  BY <1>1, <1>2, ElementOfSeq DEF Eligible, Backlogged
<1>4. TenantOf[r] = t
  <2> HIDE DEF i, t
  <2>1. s.queue[t] \in Seq(Entry) /\ DistinctRuns(s.queue[t])
    BY <1>1, <1>3, OnceInRuns DEF Consistent
  <2>2. r \in Runs(s.queue[t])
    BY <1>3, <2>1, TailRuns
  <2> QED  BY <1>3, <2>2, OnceInRuns DEF Consistent
<1>5. /\ Claim(s, at).active = s.active \cup {r}
      /\ Claim(s, at).queue = [s.queue EXCEPT ![t] = Tail(@)]
  BY DEF Claim, Take
<1> HIDE DEF t
<1> QED  BY <1>3, <1>4, <1>5

\* ClaimsFromTheHead: every tenant's queue is first in, first out, also on the
\* aged path.
THEOREM TenantsAreServedInOrder == Spec => ClaimsFromTheHead
<1> DEFINE FromTheHead ==
      \A r \in sched'.active \ sched.active :
        LET t == TenantOf[r] IN
          /\ sched.queue[t] # <<>>
          /\ Head(sched.queue[t]).run = r
          /\ sched'.queue[t] = Tail(sched.queue[t])
<1>1. IInv /\ [Next]_vars => [FromTheHead]_vars
  <2> SUFFICES ASSUME IInv, Next
               PROVE  FromTheHead
    OBVIOUS
  <2>1. /\ sched \in Scheduler /\ now \in Nat
        /\ sched = [queue |-> sched.queue, order |-> sched.order, active |-> sched.active]
    BY TimeAssumption DEF IInv, Consistent, Scheduler
  <2>2. CASE ClaimNext
    <3>1. PICK t \in Tenant :
            LET r == Head(sched.queue[t]).run IN
            /\ sched.queue[t] # <<>> /\ TenantOf[r] = t
            /\ Claim(sched, now).active = sched.active \cup {r}
            /\ Claim(sched, now).queue = [sched.queue EXCEPT ![t] = Tail(@)]
      BY <2>1, <2>2, ClaimTakesAHead DEF ClaimNext, IInv
    <3>2. sched' = Claim(sched, now) /\ sched.queue \in [Tenant -> Seq(Entry)]
      BY <2>1, <2>2 DEF ClaimNext, Scheduler
    <3>3. sched'.queue[t] = Tail(sched.queue[t])
      BY <3>1, <3>2
    <3>4. \A r \in sched'.active \ sched.active : r = Head(sched.queue[t]).run /\ TenantOf[r] = t
      BY <3>1, <3>2
    <3> QED  BY <3>1, <3>3, <3>4
  <2>3. CASE ~ClaimNext
    <3>1. sched'.active \subseteq sched.active
      <4>1. ASSUME NEW r \in Run, EnqueueRun(r)  PROVE sched'.active \subseteq sched.active
        BY <4>1, <2>1 DEF EnqueueRun, Enqueue
      <4>2. ASSUME NEW r \in Run, ReleaseRun(r)  PROVE sched'.active \subseteq sched.active
        BY <4>2, <2>1 DEF ReleaseRun, Release
      <4>3. ASSUME NEW r \in Run, RemoveQueuedRun(r)  PROVE sched'.active \subseteq sched.active
        <5>1. RemoveQueued(sched, r).active = sched.active
          <6>1. CASE r \notin WaitingOf(sched, TenantOf[r])
            BY <6>1 DEF RemoveQueued
          <6>2. CASE r \in WaitingOf(sched, TenantOf[r])
            BY <6>2, <2>1 DEF RemoveQueued
          <6> QED  BY <6>1, <6>2
        <5> QED  BY <4>3, <5>1 DEF RemoveQueuedRun
      <4>4. CASE Tick
        BY <4>4 DEF Tick
      <4> QED  BY <2>3, <4>1, <4>2, <4>3, <4>4 DEF Next
    <3> QED  BY <3>1
  <2> QED  BY <2>2, <2>3
<1> QED  BY <1>1, AlwaysConsistent, PTL DEF Spec, ClaimsFromTheHead

-----------------------------------------------------------------------------
(* Turns.  A tenant that passed another one waits behind it: that is why the *)
(* rotation cannot let it pass again.  The conjunct that the passed tenant   *)
(* can be served makes this inductive: the rotation overtakes the others.    *)

\* u stands behind t in the rotation o, if both have a place.
Behind(o, t, u) == \A i, j \in DOMAIN o : o[i] = t /\ o[j] = u => i < j

TurnInv ==
  /\ passed \in [Tenant -> [Tenant -> Nat]]
  /\ \A t, u \in Tenant :
       passed[t][u] >= 1 => Eligible(sched, t) /\ Behind(sched.order, t, u)

\* What the methods do to the rotation keeps one tenant behind the other: a
\* tenant joins at the tail, leaves, or the tenants before a place are moved
\* to the tail and that of the place leaves.
LEMMA JoiningKeepsBehind ==
  ASSUME NEW S, NEW o \in Seq(S), NEW t \in S, NEW u \in S, NEW e \in S,
         Behind(o, t, u), t \in Elems(o), t # e
  PROVE  Behind(Append(o, e), t, u)
<1> DEFINE n == Append(o, e)
<1>1. Len(o) \in Nat /\ DOMAIN o = 1..Len(o)
  BY LenProperties
<1>2. /\ n \in Seq(S) /\ Len(n) = Len(o) + 1
      /\ \A k \in 1..Len(o) : n[k] = o[k]
      /\ n[Len(o) + 1] = e
  BY AppendProperties
<1> HIDE DEF n
<1>3. DOMAIN n = 1 .. Len(o) + 1
  BY <1>2, LenProperties
<1>4. ASSUME NEW i \in DOMAIN n, NEW j \in DOMAIN n, n[i] = t, n[j] = u
      PROVE  i < j
  <2>1. i \in 1..Len(o) /\ o[i] = t
    BY <1>1, <1>2, <1>3, <1>4
  <2>2. CASE j = Len(o) + 1
    BY <1>1, <2>1, <2>2
  <2>3. CASE j \in 1..Len(o)
    BY <1>1, <1>2, <1>4, <2>1, <2>3 DEF Behind
  <2> QED  BY <1>1, <1>3, <2>2, <2>3
<1> QED  BY <1>4 DEF Behind, n

LEMMA LeavingKeepsBehind ==
  ASSUME NEW S, NEW o \in Seq(S), NEW p \in 1..Len(o), NEW t, NEW u, Behind(o, t, u)
  PROVE  Behind(Without(o, p), t, u)
<1> DEFINE n == Without(o, p)
<1>1. Len(o) \in Nat /\ DOMAIN o = 1..Len(o)
  BY LenProperties
<1>2. /\ n \in Seq(S) /\ Len(n) = Len(o) - 1
      /\ \A k \in 1 .. Len(o) - 1 : n[k] = IF k < p THEN o[k] ELSE o[k + 1]
  BY WithoutType
<1> HIDE DEF n
<1>3. DOMAIN n = 1 .. Len(o) - 1
  BY <1>2, LenProperties
<1> DEFINE from(k) == IF k < p THEN k ELSE k + 1
<1>4. ASSUME NEW k \in DOMAIN n
      PROVE  k \in Nat /\ from(k) \in DOMAIN o /\ n[k] = o[from(k)]
  BY <1>1, <1>2, <1>3
<1>5. ASSUME NEW i \in DOMAIN n, NEW j \in DOMAIN n, n[i] = t, n[j] = u
      PROVE  i < j
  <2>1. from(i) < from(j)
    <3> HIDE DEF from
    <3> QED  BY <1>4, <1>5 DEF Behind
  <2> QED  BY <1>4, <2>1
<1> QED  BY <1>5 DEF Behind, n

LEMMA TurningKeepsBehind ==
  ASSUME NEW S, NEW o \in Seq(S), NEW p \in 1..Len(o), Distinct(o),
         NEW q \in 1..Len(o), p < q, NEW u, Behind(o, o[q], u)
  PROVE  Behind(After(o, p) \o Before(o, p), o[q], u)
<1> DEFINE n == After(o, p) \o Before(o, p)
<1>1. Len(o) \in Nat /\ DOMAIN o = 1..Len(o)
  BY LenProperties
<1>2. /\ n \in Seq(S) /\ Len(n) = Len(o) - 1
      /\ \A k \in 1 .. Len(o) - 1 :
           n[k] = IF k <= Len(o) - p THEN o[p + k] ELSE o[k - (Len(o) - p)]
  BY TurnedType
<1> HIDE DEF n
<1>3. DOMAIN n = 1 .. Len(o) - 1
  BY <1>2, LenProperties
<1>4. ASSUME NEW i \in DOMAIN n, NEW j \in DOMAIN n, n[i] = o[q], n[j] = u
      PROVE  i < j
  <2>1. i <= Len(o) - p /\ p + i = q
    <3>1. CASE i <= Len(o) - p
      <4>1. p + i \in DOMAIN o /\ o[p + i] = o[q]
        BY <1>1, <1>2, <1>3, <1>4, <3>1
      <4> QED  BY <1>1, <3>1, <4>1 DEF Distinct
    <3>2. CASE ~(i <= Len(o) - p)
      <4>1. i \in 1 .. Len(o) - 1
        BY <1>3
      <4>2. PICK k \in 1..Len(o) : k = i - (Len(o) - p) /\ k < p
        BY <1>1, <3>2, <4>1
      <4>3. o[k] = o[q]
        BY <1>2, <1>4, <3>2, <4>1, <4>2
      <4>4. k = q
        BY <1>1, <4>3 DEF Distinct
      <4> QED  BY <1>1, <4>2, <4>4
    <3> QED  BY <3>1, <3>2
  <2>2. CASE j <= Len(o) - p
    <3>1. p + j \in DOMAIN o /\ o[p + j] = u
      BY <1>1, <1>2, <1>3, <1>4, <2>2
    <3>2. q < p + j
      BY <1>1, <3>1 DEF Behind
    <3> QED  BY <1>1, <1>3, <2>1, <3>2
  <2>3. CASE ~(j <= Len(o) - p)
    BY <1>1, <1>3, <2>1, <2>3
  <2> QED  BY <2>2, <2>3
<1> QED  BY <1>4 DEF Behind, n

\* Whomever claimNext serves is behind all the others now, which stay behind
\* whom they were; and the rotation serves nobody who is behind a tenant that
\* can be served.
LEMMA ClaimKeepsTurns ==
  ASSUME NEW s, Consistent(s), NEW at \in Nat, CanClaim(s)
  PROVE  \E v \in Tenant, r \in Run :
           /\ Claim(s, at).active = s.active \cup {r}
           /\ r \notin s.active /\ TenantOf[r] = v
           /\ \A t \in Tenant \ {v} : Eligible(s, t) =>
                /\ AgedCandidates(s, at) = {} => ~Behind(s.order, t, v)
                /\ Behind(Claim(s, at).order, t, v)
                /\ \A u \in Tenant : Behind(s.order, t, u) => Behind(Claim(s, at).order, t, u)
<1> DEFINE o == s.order
           p == ClaimIndex(s, at)
           v == o[p]
           q == s.queue[v]
           r == Head(q).run
           aged == AgedCandidates(s, at) # {}
           others == IF aged THEN Without(o, p) ELSE After(o, p) \o Before(o, p)
           n == Claim(s, at).order
<1>1. s \in Scheduler /\ s.queue \in [Tenant -> Seq(Entry)] /\ o \in Seq(Tenant)
  BY DEF Consistent, Scheduler
<1>2. Len(o) \in Nat /\ DOMAIN o = 1..Len(o) /\ \A k \in 1..Len(o) : o[k] \in Tenant
  BY <1>1, LenProperties, ElementOfSeq
<1>3. p \in 1..Len(o) /\ Eligible(s, v) /\ v \in Tenant /\ q # <<>>
  BY <1>1, <1>2, ClaimIndexMayBeClaimed DEF Eligible, Backlogged
<1>4. ~aged => \A k \in DOMAIN o : Eligible(s, o[k]) => p =< k
  BY <1>1, RotationIndexIsFirst DEF ClaimIndex, CanClaim, Candidates
<1>5. Distinct(o) /\ \A t \in Tenant : s.queue[t] # <<>> <=> t \in Elems(o)
  BY BacklogInElems DEF Consistent
<1>6. /\ Claim(s, at).active = s.active \cup {r}
      /\ n = IF Tail(q) = <<>> THEN others ELSE Append(others, v)
  <2>1. CASE aged
    BY <2>1 DEF Claim, Take
  <2>2. CASE ~aged
    BY <2>2 DEF Claim, Take
  <2> QED  BY <2>1, <2>2
<1>7. r \in Run /\ r \notin s.active /\ TenantOf[r] = v
  <2> HIDE DEF v, p
  <2>1. q \in Seq(Entry) /\ DistinctRuns(q)
    BY <1>1, <1>3, OnceInRuns DEF Consistent
  <2>2. Head(q) \in Entry /\ r \in Runs(q)
    BY <1>3, <2>1, TailRuns
  <2> QED  BY <1>3, <2>2, OnceInRuns DEF Consistent, Entry
<1> HIDE DEF p, n
<1>8. /\ others \in Seq(Tenant)
      /\ Distinct(others) /\ Elems(others) = Elems(o) \ {v}
  BY <1>1, <1>3, <1>5, TurnedType, TurnedDistinct, WithoutType, WithoutDistinct
<1>9. ASSUME NEW t \in Tenant \ {v}, Eligible(s, t)
       PROVE  /\ ~aged => ~Behind(o, t, v)
              /\ Behind(n, t, v)
              /\ \A u \in Tenant : Behind(o, t, u) => Behind(n, t, u)
  <2>1. PICK k \in DOMAIN o : o[k] = t
    BY <1>5, <1>9 DEF Eligible, Backlogged, Elems
  <2>2. k \in 1..Len(o) /\ (~aged => p < k)
    BY <1>2, <1>3, <1>4, <1>9, <2>1
  <2>3. ~aged => ~Behind(o, t, v)
    BY <1>2, <1>3, <2>1, <2>2 DEF Behind
  <2>4. t \in Elems(others) /\ v \notin Elems(others)
    BY <1>8, <2>1 DEF Elems
  <2>5. ASSUME NEW u \in Tenant, Behind(others, t, u)  PROVE Behind(n, t, u)
    <3> HIDE DEF others, v
    <3>1. CASE Tail(q) = <<>>
      BY <1>6, <2>5, <3>1
    <3>2. CASE Tail(q) # <<>>
      <4>1. Behind(Append(others, v), t, u)
        BY <1>3, <1>8, <1>9, <2>4, <2>5, JoiningKeepsBehind
      <4> QED  BY <1>6, <3>2, <4>1
    <3> QED  BY <3>1, <3>2
  <2>6. Behind(others, t, v)
    <3> HIDE DEF others, v
    <3> QED  BY <2>4 DEF Behind, Elems
  <2>7. ASSUME NEW u \in Tenant, Behind(o, t, u)  PROVE Behind(others, t, u)
    <3>1. CASE aged
      BY <1>1, <1>3, <2>7, <3>1, LeavingKeepsBehind
    <3>2. CASE ~aged
      <4>1. Behind(After(o, p) \o Before(o, p), o[k], u)
        BY <1>1, <1>3, <1>5, <2>1, <2>2, <2>7, <3>2, TurningKeepsBehind
      <4> QED  BY <2>1, <3>2, <4>1
    <3> QED  BY <3>1, <3>2
  <2> QED  BY <1>3, <2>3, <2>5, <2>6, <2>7
<1> QED  BY <1>3, <1>6, <1>7, <1>9 DEF n

\* enqueue and removeQueued leave every tenant behind the tenants with a
\* backlog it was behind.
LEMMA EnqueueKeepsTurns ==
  ASSUME NEW s, Consistent(s), NEW r \in Run, NEW at \in Nat,
         NEW t \in Tenant, NEW u \in Tenant, Backlogged(s, t), Behind(s.order, t, u)
  PROVE  Behind(Enqueue(s, r, at).order, t, u)
<1> DEFINE v == TenantOf[r]
           n == Enqueue(s, r, at).order
<1>1. s \in Scheduler /\ s.order \in Seq(Tenant) /\ v \in Tenant
      /\ s = [queue |-> s.queue, order |-> s.order, active |-> s.active]
  BY TenantAssumption DEF Consistent, Scheduler
<1>2. n = IF Backlogged(s, v) THEN s.order ELSE Append(s.order, v)
  BY <1>1 DEF Enqueue
<1>3. t \in Elems(s.order)
  BY BacklogInElems DEF Consistent, Backlogged
<1> HIDE DEF n
<1>4. CASE Backlogged(s, v)
  BY <1>2, <1>4 DEF n
<1>5. CASE ~Backlogged(s, v)
  <2>1. t # v
    BY <1>5
  <2>2. Behind(Append(s.order, v), t, u)
    BY <1>1, <1>3, <2>1, JoiningKeepsBehind
  <2> QED  BY <1>2, <1>5, <2>2 DEF n
<1> QED  BY <1>4, <1>5

LEMMA RemoveQueuedKeepsTurns ==
  ASSUME NEW s, Consistent(s), NEW r \in Run,
         NEW t \in Tenant, NEW u \in Tenant, Behind(s.order, t, u)
  PROVE  Behind(RemoveQueued(s, r).order, t, u)
<1> DEFINE v == TenantOf[r]
           P == {p \in DOMAIN s.order : s.order[p] = v}
           p == CHOOSE p \in P : \A q \in P : p =< q
           n == RemoveQueued(s, r).order
<1>1. s \in Scheduler /\ s.order \in Seq(Tenant)
      /\ s = [queue |-> s.queue, order |-> s.order, active |-> s.active]
  BY DEF Consistent, Scheduler
<1>2. DOMAIN s.order = 1..Len(s.order) /\ Len(s.order) \in Nat
  BY <1>1, LenProperties
<1>3. n = s.order \/ n = WithoutTenant(s.order, v)
  <2>1. CASE r \notin WaitingOf(s, v)
    BY <2>1 DEF RemoveQueued
  <2>2. CASE r \in WaitingOf(s, v)
    BY <2>2, <1>1 DEF RemoveQueued
  <2> QED  BY <2>1, <2>2
<1>4. WithoutTenant(s.order, v) = IF P = {} THEN s.order ELSE Without(s.order, p)
  BY DEF WithoutTenant
<1>5. CASE P = {}
  BY <1>3, <1>4, <1>5
<1>6. CASE P # {}
  <2>1. P \subseteq Nat
    BY <1>2
  <2>2. p \in P
    <3> HIDE DEF P
    <3>1. \E m \in P : \A q \in P : m =< q
      BY <1>6, <2>1, LeastNatural
    <3> QED  BY <3>1
  <2>3. p \in 1..Len(s.order)
    BY <1>2, <2>2
  <2> HIDE DEF p, P, n
  <2>4. Behind(Without(s.order, p), t, u)
    BY <1>1, <2>3, LeavingKeepsBehind
  <2> QED  BY <1>3, <1>4, <1>6, <2>4 DEF n
<1> QED  BY <1>5, <1>6


\* Nobody has been passed at the start.
LEMMA TurnInvInit == TurnInit => TurnInv
BY DEF TurnInit, TurnInv

\* A step that serves nobody, and keeps a tenant behind those with a backlog it
\* was behind, keeps the turns and lets nobody pass.
LEMMA UnservedKeepsTurns ==
  ASSUME TurnInv, RecordTurns, Served = {},
         \A t, u \in Tenant : /\ Eligible(sched, t)
                              /\ Behind(sched.order, t, u)
                              => Behind(sched'.order, t, u)
  PROVE  TurnInv' /\ \A t, u \in Tenant : passed'[t][u] =< passed[t][u]
<1>1. ASSUME NEW t \in Tenant, NEW u \in Tenant
      PROVE  /\ passed'[t][u] \in Nat /\ passed'[t][u] =< passed[t][u]
             /\ passed'[t][u] >= 1 =>
                  Eligible(sched', t) /\ Eligible(sched, t) /\ passed[t][u] >= 1
  BY DEF TurnInv, RecordTurns
<1>2. passed' \in [Tenant -> [Tenant -> Nat]]
  BY <1>1 DEF RecordTurns
<1>3. ASSUME NEW t \in Tenant, NEW u \in Tenant, passed'[t][u] >= 1
      PROVE  Eligible(sched', t) /\ Behind(sched'.order, t, u)
  BY <1>1, <1>3 DEF TurnInv
<1> QED  BY <1>1, <1>2, <1>3 DEF TurnInv

\* Without an aged run, claimNext passes nobody who has been passed by the same
\* tenant before.
SecondTurn == \E t, u \in Tenant : passed[t][u] >= 1 /\ passed'[t][u] > passed[t][u]

LEMMA ClaimStepKeepsTurns ==
  ASSUME Consistent(sched), now \in Nat, TurnInv, ClaimNext, RecordTurns
  PROVE  /\ TurnInv'
         /\ \A t, u \in Tenant : passed'[t][u] =< passed[t][u] + 1
         /\ SecondTurn => AgedCandidates(sched, now) # {}
<1>1. sched' = Claim(sched, now)
  BY DEF ClaimNext
<1>2. PICK v \in Tenant, r \in Run :
        /\ sched'.active = sched.active \cup {r}
        /\ r \notin sched.active /\ TenantOf[r] = v
        /\ \A t \in Tenant \ {v} : Eligible(sched, t) =>
             /\ AgedCandidates(sched, now) = {} => ~Behind(sched.order, t, v)
             /\ Behind(sched'.order, t, v)
             /\ \A u \in Tenant : Behind(sched.order, t, u) => Behind(sched'.order, t, u)
  BY <1>1, ClaimKeepsTurns DEF ClaimNext
<1>3. Served = {v}
  BY <1>2 DEF Served
<1>4. ASSUME NEW t \in Tenant, NEW u \in Tenant
      PROVE  /\ passed'[t][u] \in Nat /\ passed'[t][u] =< passed[t][u] + 1
             /\ passed'[t][u] >= 1 => Eligible(sched', t) /\ Behind(sched'.order, t, u)
             /\ passed[t][u] >= 1 /\ passed'[t][u] > passed[t][u]
                  => AgedCandidates(sched, now) # {}
  <2>1. passed'[t][u] = IF t = v \/ ~Eligible(sched, t) \/ ~Eligible(sched', t) THEN 0
                        ELSE passed[t][u] + (IF u = v THEN 1 ELSE 0)
    BY <1>3 DEF RecordTurns
  <2>2. passed[t][u] \in Nat /\ (passed[t][u] >= 1 => Behind(sched.order, t, u))
    BY DEF TurnInv
  <2>3. CASE t = v \/ ~Eligible(sched, t) \/ ~Eligible(sched', t)
    BY <2>1, <2>2, <2>3
  <2>4. CASE t # v /\ Eligible(sched, t) /\ Eligible(sched', t)
    <3>1. CASE u = v
      <4>1. passed'[t][u] = passed[t][u] + 1
        BY <2>1, <2>4, <3>1
      <4>2. Behind(sched'.order, t, u)
        BY <1>2, <2>4, <3>1
      <4>3. AgedCandidates(sched, now) = {} => ~Behind(sched.order, t, u)
        BY <1>2, <2>4, <3>1
      <4> QED  BY <2>2, <2>4, <4>1, <4>2, <4>3
    <3>2. CASE u # v
      <4>1. passed'[t][u] = passed[t][u]
        BY <2>1, <2>2, <2>4, <3>2
      <4> QED  BY <1>2, <2>2, <2>4, <4>1
    <3> QED  BY <3>1, <3>2
  <2> QED  BY <2>3, <2>4
<1>5. passed' \in [Tenant -> [Tenant -> Nat]]
  BY <1>4 DEF RecordTurns
<1>6. TurnInv'
  BY <1>4, <1>5 DEF TurnInv
<1> QED  BY <1>4, <1>6 DEF SecondTurn

TurnIInv == IInv /\ TurnInv

\* The last conjunct: with aging off the count of turns is bounded as well.
LEMMA TurnIInvNext ==
  ASSUME TurnIInv, [TurnNext]_turnVars
  PROVE  /\ TurnIInv'
         /\ SecondTurn => AgedCandidates(sched, now) # {}
         /\ AgingMs = 0 /\ TenantsTakeTurns => TenantsTakeTurns'
<1> DEFINE Kept == \A t, u \in Tenant : passed'[t][u] =< passed[t][u]
           Goal == /\ IInv' /\ TurnInv'
                   /\ SecondTurn => AgedCandidates(sched, now) # {}
                   /\ AgingMs = 0 /\ TenantsTakeTurns => TenantsTakeTurns'
<1> SUFFICES Goal
  BY DEF TurnIInv
<1>1. /\ now \in Nat /\ now \in 0..now /\ Consistent(sched)
      /\ IInv /\ TurnInv /\ passed \in [Tenant -> [Tenant -> Nat]]
  BY TimeAssumption DEF TurnIInv, IInv, TurnInv
<1>2. ASSUME IInv', TurnInv', Kept  PROVE Goal
  <2>1. passed' \in [Tenant -> [Tenant -> Nat]]
    BY <1>2 DEF TurnInv
  <2>2. ASSUME NEW t \in Tenant, NEW u \in Tenant
        PROVE  passed[t][u] \in Nat /\ passed'[t][u] \in Nat /\ passed'[t][u] =< passed[t][u]
    BY <1>1, <1>2, <2>1
  <2>3. ~SecondTurn
    BY <2>2 DEF SecondTurn
  <2>4. TenantsTakeTurns => TenantsTakeTurns'
    BY <2>2 DEF TenantsTakeTurns
  <2> QED  BY <1>2, <2>3, <2>4
<1>3. ASSUME NEW r \in Run, SubmitRun(r), RecordTurns
      PROVE  Goal
  <2>1. EnqueueRun(r) /\ sched' = Enqueue(sched, r, now)
    BY <1>1, <1>3 DEF SubmitRun, EnqueueRun
  <2>2. Served = {}
    BY <1>1, <2>1, EnqueueEffect DEF Served
  <2>3. \A t, u \in Tenant : Eligible(sched, t) /\ Behind(sched.order, t, u)
                               => Behind(sched'.order, t, u)
    BY <1>1, <2>1, EnqueueKeepsTurns DEF Eligible
  <2>4. IInv'
    BY <1>1, <2>1, IInvNext DEF Next
  <2>5. TurnInv' /\ Kept
    BY <1>1, <1>3, <2>2, <2>3, UnservedKeepsTurns
  <2> QED  BY <1>2, <2>4, <2>5
<1>4. ASSUME NEW r \in Run, ReleaseRun(r), RecordTurns
      PROVE  Goal
  <2>1. sched'.active \subseteq sched.active /\ sched'.order = sched.order
    BY <1>1, <1>4 DEF ReleaseRun, Release, Consistent, Scheduler
  <2>2. Served = {}
    BY <2>1 DEF Served
  <2>3. IInv'
    BY <1>1, <1>4, IInvNext DEF Next
  <2>4. TurnInv' /\ Kept
    BY <1>1, <1>4, <2>1, <2>2, UnservedKeepsTurns
  <2> QED  BY <1>2, <2>3, <2>4
<1>5. ASSUME NEW r \in Run, RemoveQueuedRun(r), RecordTurns
      PROVE  Goal
  <2>1. sched' = RemoveQueued(sched, r)
    BY <1>5 DEF RemoveQueuedRun
  <2>2. Served = {}
    BY <1>1, <2>1, RemoveQueuedEffect DEF Served
  <2>3. \A t, u \in Tenant : Behind(sched.order, t, u) => Behind(sched'.order, t, u)
    BY <1>1, <2>1, RemoveQueuedKeepsTurns
  <2>4. IInv'
    BY <1>1, <1>5, IInvNext DEF Next
  <2>5. TurnInv' /\ Kept
    BY <1>1, <1>5, <2>2, <2>3, UnservedKeepsTurns
  <2> QED  BY <1>2, <2>4, <2>5
<1>6. CASE ClaimNext /\ RecordTurns
  <2>1. IInv'
    BY <1>1, <1>6, IInvNext DEF Next
  <2>2. /\ TurnInv'
        /\ \A t, u \in Tenant : passed'[t][u] =< passed[t][u] + 1
        /\ SecondTurn => AgedCandidates(sched, now) # {}
    BY <1>1, <1>6, ClaimStepKeepsTurns
  <2>3. ASSUME AgingMs = 0, TenantsTakeTurns  PROVE TenantsTakeTurns'
    <3>1. ~SecondTurn
      BY <2>2, <2>3 DEF AgedCandidates
    <3>2. passed' \in [Tenant -> [Tenant -> Nat]]
      BY <2>2 DEF TurnInv
    <3>3. ASSUME NEW t \in Tenant, NEW u \in Tenant  PROVE passed'[t][u] =< 1
      <4>1. passed[t][u] \in Nat /\ passed'[t][u] \in Nat /\ passed[t][u] =< 1
        BY <1>1, <2>3, <3>2 DEF TenantsTakeTurns
      <4>2. passed'[t][u] =< passed[t][u] + 1
        BY <2>2
      <4>3. passed[t][u] >= 1 => ~(passed'[t][u] > passed[t][u])
        BY <3>1 DEF SecondTurn
      <4> QED  BY <4>1, <4>2, <4>3
    <3> QED  BY <3>3 DEF TenantsTakeTurns
  <2> QED  BY <2>1, <2>2, <2>3
<1>7. CASE Tick /\ RecordTurns
  <2>1. Served = {} /\ sched' = sched
    BY <1>7 DEF Tick, Served
  <2>2. IInv'
    BY <1>1, <1>7, IInvNext DEF Next
  <2>3. TurnInv' /\ Kept
    BY <1>1, <1>7, <2>1, UnservedKeepsTurns
  <2> QED  BY <1>2, <2>2, <2>3
<1>8. CASE UNCHANGED turnVars
  <2>1. UNCHANGED vars /\ passed' = passed /\ sched' = sched
    BY <1>8 DEF turnVars, vars
  <2>2. TurnInv'
    BY <1>1, <2>1 DEF TurnInv, Eligible, Backlogged, ActiveOf, SessionBusy
  <2>3. Kept
    <3>1. \A t, u \in Tenant : passed[t][u] \in Nat
      BY <1>1
    <3> QED  BY <2>1, <3>1
  <2>4. IInv'
    BY <1>1, <2>1, IInvNext
  <2> QED  BY <1>2, <2>2, <2>3, <2>4
<1> QED  BY <1>3, <1>4, <1>5, <1>6, <1>7, <1>8 DEF TurnNext

LEMMA TurnIInvInit == TurnInit => TurnIInv /\ TenantsTakeTurns
BY IInvInit, TurnInvInit DEF TurnInit, TurnIInv, TenantsTakeTurns

\* While a tenant can be served, another one is served twice before it only
\* when a run has waited for agingMs: the aged path is the only way to jump the
\* rotation, whatever the limits and however the submissions are interleaved.
THEOREM OnlyAgedClaimsPassTwice ==
  TurnSpec => [][SecondTurn => AgedCandidates(sched, now) # {}]_turnVars
<1>1. TurnIInv /\ [TurnNext]_turnVars => TurnIInv'
  BY TurnIInvNext
<1>2. TurnIInv /\ [TurnNext]_turnVars => [SecondTurn => AgedCandidates(sched, now) # {}]_turnVars
  BY TurnIInvNext
<1> QED  BY <1>1, <1>2, TurnIInvInit, PTL DEF TurnSpec

\* TenantsTakeTurns: where aging is off, no tenant is served twice while
\* another one can be served and is not.
THEOREM NobodyIsPassedTwice == AgingMs = 0 => (TurnSpec => []TenantsTakeTurns)
<1> SUFFICES ASSUME AgingMs = 0  PROVE TurnSpec => []TenantsTakeTurns
  OBVIOUS
<1> DEFINE Inv == TurnIInv /\ TenantsTakeTurns
<1>1. Inv /\ [TurnNext]_turnVars => Inv'
  BY TurnIInvNext
<1>2. Inv => TenantsTakeTurns
  OBVIOUS
<1>3. TurnInit => Inv
  BY TurnIInvInit
<1> QED  BY <1>1, <1>2, <1>3, PTL DEF TurnSpec

=============================================================================
