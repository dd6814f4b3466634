---------------------- MODULE RunQueueCoordinatorTheorems ----------------------
(***************************************************************************)
(* The safety of RunQueueCoordinator for every set of runs and tenants,    *)
(* every limit, TTL, retry limit and bound.  None of the properties is     *)
(* inductive by itself: that a slot is given back depends on the drain not *)
(* ending under an attempt, which depends on where the sweeps run, which   *)
(* depends on what a restart leaves.  The inductive invariant has a part   *)
(* for the scheduler's queues, one for slots and the drain, one for each   *)
(* run and one for the startup.                                            *)
(***************************************************************************)
EXTENDS RunQueueCoordinator, TenantRunQueuesTheorems

Startup == {"restore", "scan", "recover", "failed"}
Pass == {"ttl", "reconcile", "claim", "settled"}

\* A waiting entry never counts from later than the moment its run was QUEUED.
EntryOK(e) ==
  /\ e.at =< Now
  /\ status[e.run] = "QUEUED" => e.at =< updatedAt[e.run]

QueueInv ==
  /\ Consistent(sched)
  /\ \A e \in Entries(sched) : EntryOK(e)

\* An attempt holds a slot, only a drain makes attempts, and the sweeps and
\* the startup find none.
SlotInv ==
  /\ sched.active = InFlight
  /\ InFlight # {} => drain.active
  /\ loop \in {"ttl", "reconcile", "settled"} \cup Startup => InFlight = {}
  /\ loop \in Pass => drain.active
  /\ loop \in Startup => ~drain.active
  /\ drain.calls =< drain.remaining

Held(r) == r \in Waiting(sched) \cup sched.active

RunInv(r) ==
  /\ status[r] = "NONE" => ~Held(r)
  /\ status[r] = "QUEUED" => attempt[r].at =< updatedAt[r]
  /\ status[r] = "RUNNING" /\ Up => attempt[r].pc = "running" /\ ~attempt[r].told
  /\ attempt[r].pc \in {"none", "admission", "before"} =>
       ~attempt[r].told /\ attempt[r].mode = 0
  /\ attempt[r].pc \in {"before", "running", "after"} /\ attempt[r].mode = 0 => pending[r] = 0
  /\ pending[r] # 0 =>
       /\ Held(r)
       /\ pending[r] =< ckpt[r]
       /\ status[r] = "QUEUED" => pending[r] = queuedFor[r]

\* Plans exist while the startup is under way, for runs that wait nowhere.
StartInv ==
  /\ plans # {} => loop \in {"scan", "recover"}
  /\ plans \subseteq InState({"INTERRUPTED"})
  /\ loop \in {"restore", "scan", "recover"} => Waiting(sched) \subseteq InState({"QUEUED"})
  /\ loop = "recover" => InState(Executing) = {}

IInv ==
  TypeOK /\ QueueInv /\ SlotInv /\ (\A r \in Run : RunInv(r)) /\ StartInv

-----------------------------------------------------------------------------
(* Lemmas about the helpers of the model *)

LEMMA Numbers ==
  /\ Now \in Nat /\ Stamp = 0..Now /\ 0 \in Stamp /\ Now \in Stamp
  /\ \A n \in Stamp : n \in Nat /\ n =< Now
  /\ Cardinality(Run) \in Nat
  /\ Ckpt \subseteq Nat /\ 0 \in Ckpt
BY BoundAssumption, RunAssumption, FS_CardinalityType DEF Now, Stamp, Ckpt

LEMMA FirstOfIsIn ==
  ASSUME NEW R \in SUBSET Run, R # {}
  PROVE  FirstOf(R) \in R
<1>1. \E m \in R : \A n \in R : m =< n
  BY LeastNatural, RunsAreNumbered
<1> QED  BY <1>1 DEF FirstOf

\* What an update of the store changes.
LEMMA UpdateEffect ==
  ASSUME TypeOK, NEW r \in Run, NEW to \in Status, Update(r, to)
  PROVE  /\ status' \in [Run -> Status] /\ updatedAt' \in [Run -> Stamp]
         /\ status'[r] = to
         /\ updatedAt'[r] = IF to = "QUEUED" THEN Now ELSE 0
         /\ \A q \in Run \ {r} : status'[q] = status[q] /\ updatedAt'[q] = updatedAt[q]
         /\ to # "NONE"
         /\ to = "QUEUED" => status[r] \in {"NONE", "INTERRUPTED"}
         /\ to = "RUNNING" => status[r] \in {"QUEUED", "WAITING_TOOL"}
         /\ to = "WAITING_TOOL" => status[r] = "RUNNING"
         /\ to \in Terminal \cup {"INTERRUPTED"} =>
              status[r] \in {"QUEUED", "RUNNING", "WAITING_TOOL", "INTERRUPTED"}
<1>1. status \in [Run -> Status] /\ updatedAt \in [Run -> Stamp]
  BY DEF TypeOK
<1>2. /\ status' = [status EXCEPT ![r] = to]
      /\ updatedAt' = [updatedAt EXCEPT ![r] = IF to = "QUEUED" THEN Now ELSE 0]
  BY DEF Update
<1>3. status[r] \in Status
  BY <1>1
<1>4. /\ to # "NONE"
      /\ to = "QUEUED" => status[r] \in {"NONE", "INTERRUPTED"}
      /\ to = "RUNNING" => status[r] \in {"QUEUED", "WAITING_TOOL"}
      /\ to = "WAITING_TOOL" => status[r] = "RUNNING"
      /\ to \in Terminal \cup {"INTERRUPTED"} =>
           status[r] \in {"QUEUED", "RUNNING", "WAITING_TOOL", "INTERRUPTED"}
  BY <1>3 DEF Update, CanTransition, AllowedTransitions, Status, Terminal
<1> QED  BY <1>1, <1>2, <1>4, Numbers

\* Aging the time stamps of the queues leaves everything else as it is.
Aged(s) ==
  [s EXCEPT !.queue = [t \in Tenant |->
     [i \in DOMAIN s.queue[t] |-> [s.queue[t][i] EXCEPT !.at = Older(@)]]]]

LEMMA AgedEffect ==
  ASSUME NEW s, Consistent(s)
  PROVE  /\ Consistent(Aged(s))
         /\ Aged(s).active = s.active
         /\ Waiting(Aged(s)) = Waiting(s)
         /\ \A e \in Entries(Aged(s)) :
              \E d \in Entries(s) : e.run = d.run /\ e.at = Older(d.at)
<1> DEFINE n == Aged(s)
           AgedQueue(t) == [i \in DOMAIN s.queue[t] |-> [s.queue[t][i] EXCEPT !.at = Older(@)]]
<1>1. /\ s \in Scheduler /\ LimitsHold(s) /\ OnePerSession(s)
      /\ EachRunOnce(s) /\ RotationIsBacklog(s)
  BY DEF Consistent
<1>2. /\ s.queue \in [Tenant -> Seq(Entry)] /\ s.order \in Seq(Tenant) /\ s.active \in SUBSET Run
      /\ s = [queue |-> s.queue, order |-> s.order, active |-> s.active]
  BY <1>1 DEF Scheduler
<1>3. /\ n.queue = [t \in Tenant |-> AgedQueue(t)]
      /\ n.order = s.order /\ n.active = s.active
      /\ n = [queue |-> n.queue, order |-> n.order, active |-> n.active]
  <2> DEFINE queue == [t \in Tenant |-> AgedQueue(t)]
  <2>1. n = [s EXCEPT !.queue = queue]
    BY DEF Aged
  <2> HIDE DEF queue, n
  <2>2. n = [queue |-> queue, order |-> s.order, active |-> s.active]
    BY <1>2, <2>1
  <2> QED  BY <2>2 DEF queue
<1> HIDE DEF n
<1>4. \A e \in Entry : /\ [e EXCEPT !.at = Older(@)] \in Entry
                       /\ [e EXCEPT !.at = Older(@)].run = e.run
                       /\ [e EXCEPT !.at = Older(@)].at = Older(e.at)
  BY DEF Entry, Older
<1>5. ASSUME NEW t \in Tenant
      PROVE  /\ n.queue[t] \in Seq(Entry)
             /\ DOMAIN n.queue[t] = DOMAIN s.queue[t]
             /\ \A i \in DOMAIN s.queue[t] :
                  /\ n.queue[t][i].run = s.queue[t][i].run
                  /\ n.queue[t][i].at = Older(s.queue[t][i].at)
             /\ n.queue[t] # <<>> <=> s.queue[t] # <<>>
  <2>1. n.queue[t] = AgedQueue(t)
    BY <1>3
  <2>2. s.queue[t] \in Seq(Entry) /\ DOMAIN s.queue[t] = 1..Len(s.queue[t]) /\ Len(s.queue[t]) \in Nat
    BY <1>2, LenProperties
  <2>3. \A i \in 1..Len(s.queue[t]) : s.queue[t][i] \in Entry
    BY <2>2, ElementOfSeq
  <2>4. n.queue[t] \in [1..Len(s.queue[t]) -> Entry]
    BY <1>4, <2>1, <2>2, <2>3
  <2>5. n.queue[t] \in Seq(Entry) /\ Len(n.queue[t]) = Len(s.queue[t])
    BY <2>2, <2>4, IsASeq, LenProperties
  <2> QED  BY <1>4, <2>1, <2>2, <2>3, <2>5, EmptySeq
<1>6. n \in Scheduler
  <2>1. n.queue \in [Tenant -> Seq(Entry)]
    BY <1>3, <1>5
  <2> QED  BY <2>1, <1>2, <1>3 DEF Scheduler
<1>7. LimitsHold(n) /\ OnePerSession(n)
  BY <1>1, <1>3 DEF LimitsHold, OnePerSession, ActiveOf
<1>8. \A t \in Tenant : Runs(n.queue[t]) = Runs(s.queue[t])
  BY <1>5 DEF Runs
<1>9. Waiting(n) = Waiting(s)
  <2>1. \A x : x \in Waiting(n) <=> \E t \in Tenant : x \in Runs(n.queue[t])
    BY WaitingIsEntries
  <2>2. \A x : x \in Waiting(s) <=> \E t \in Tenant : x \in Runs(s.queue[t])
    BY WaitingIsEntries
  <2>3. \A x : x \in Waiting(n) <=> x \in Waiting(s)
    BY <1>8, <2>1, <2>2
  <2> QED  BY <2>3
<1>10. EachRunOnce(n)
  <2>1. \A t \in Tenant : DistinctRuns(s.queue[t])
    BY <1>1, OnceInRuns
  <2>2. \A t \in Tenant : DistinctRuns(n.queue[t])
    BY <2>1, <1>5 DEF DistinctRuns
  <2>3. \A t \in Tenant : \A r \in Runs(n.queue[t]) : TenantOf[r] = t /\ r \notin n.active
    BY <1>1, <1>3, <1>8, OnceInRuns
  <2> QED  BY <2>2, <2>3, OnceInRuns
<1>11. RotationIsBacklog(n)
  BY <1>1, <1>3, <1>5 DEF RotationIsBacklog, Backlogged
<1>12. ASSUME NEW e \in Entries(n)
       PROVE  \E d \in Entries(s) : e.run = d.run /\ e.at = Older(d.at)
  <2>1. PICK t \in Tenant : e \in Elems(n.queue[t])
    BY DEF Entries
  <2>2. PICK i \in DOMAIN n.queue[t] : e = n.queue[t][i]
    BY <2>1 DEF Elems
  <2>3. s.queue[t][i] \in Entries(s)
    BY <1>5, <2>2 DEF Entries, Elems
  <2> QED  BY <1>5, <2>2, <2>3
<1> QED  BY <1>3, <1>6, <1>7, <1>9, <1>10, <1>11, <1>12 DEF Consistent, n

-----------------------------------------------------------------------------
(* What every handler has to keep, part by part *)

\* A queue keeps its entries or gains one that is in order, and no run becomes
\* QUEUED with a time stamp other than the present.
LEMMA QueueStep ==
  ASSUME IInv, Consistent(sched'),
         \A e \in Entries(sched') : e \in Entries(sched) \/ EntryOK(e)',
         \A q \in Run : status'[q] = "QUEUED" =>
           \/ updatedAt'[q] = Now
           \/ status[q] = "QUEUED" /\ updatedAt'[q] = updatedAt[q]
  PROVE  QueueInv'
<1> SUFFICES ASSUME NEW e \in Entries(sched')  PROVE EntryOK(e)'
  BY DEF QueueInv
<1>1. CASE e \in Entries(sched)
  <2>1. EntryOK(e) /\ e \in Entry
    BY <1>1, EntriesType DEF IInv, QueueInv
  <2> QED  BY <2>1 DEF EntryOK, Entry
<1> QED  BY <1>1

\* Nothing about slots and the drain changes.
LEMMA SlotsKept ==
  ASSUME SlotInv, sched'.active = sched.active, UNCHANGED <<loop, drain>>,
         \A q \in Run : attempt'[q].pc = "none" <=> attempt[q].pc = "none"
  PROVE  SlotInv'
<1>1. InFlight' = InFlight
  BY DEF InFlight
<1> QED  BY <1>1 DEF SlotInv

\* A drain that has just begun, or is over.
LEMMA DrainReset ==
  ASSUME NEW a \in BOOLEAN, NEW b \in BOOLEAN, NEW d,
         \/ d = [IdleDrain EXCEPT !.active = a]
         \/ d = [IdleDrain EXCEPT !.requested = b]
  PROVE  /\ d \in DrainState /\ d.calls = 0 /\ d.remaining = 0
         /\ d = [IdleDrain EXCEPT !.active = a] => d.active = a
         /\ d = [IdleDrain EXCEPT !.requested = b] => d.active = FALSE
<1>1. 0 \in 0..Cardinality(Run)
  BY Numbers
<1>2. /\ IdleDrain \in DrainState
      /\ IdleDrain.calls = 0 /\ IdleDrain.remaining = 0 /\ IdleDrain.active = FALSE
  BY <1>1 DEF IdleDrain, DrainState
<1> QED  BY <1>2 DEF DrainState

\* drain() may be called anywhere outside a pass.
LEMMA DrainIsRequested ==
  ASSUME TypeOK, SlotInv, RequestDrain, loop \notin Pass,
         sched'.active = sched.active, attempt' = attempt
  PROVE  SlotInv' /\ drain' \in DrainState /\ loop' \in {"free", "ttl"}
<1>1. InFlight' = InFlight
  BY DEF InFlight
<1>2. drain \in DrainState
  BY DEF TypeOK
<1>3. CASE drain.active
  <2>1. /\ drain' = [drain EXCEPT !.requested = TRUE] /\ loop' = "free"
        /\ drain'.active /\ drain'.calls = drain.calls /\ drain'.remaining = drain.remaining
    BY <1>2, <1>3 DEF RequestDrain, DrainState
  <2>2. drain' \in DrainState
    BY <1>2, <2>1 DEF DrainState
  <2> QED  BY <1>1, <2>1, <2>2 DEF SlotInv, Startup, Pass
<1>4. CASE ~drain.active
  <2>1. /\ drain' = [IdleDrain EXCEPT !.active = TRUE] /\ loop' = "ttl"
    BY <1>4 DEF RequestDrain
  <2>2. /\ drain' \in DrainState
        /\ drain'.active /\ drain'.calls = 0 /\ drain'.remaining = 0
    BY <2>1, DrainReset
  <2>3. InFlight = {}
    BY <1>4 DEF SlotInv
  <2> QED  BY <1>1, <2>1, <2>2, <2>3 DEF SlotInv, Startup, Pass
<1> QED  BY <1>3, <1>4

\* A pass ends only when no attempt is left.
LEMMA PassEnds ==
  ASSUME TypeOK, SlotInv, InFlight = {}, NEW again \in BOOLEAN, EndPass(again),
         sched'.active = sched.active, attempt' = attempt
  PROVE  SlotInv' /\ drain' \in DrainState /\ loop' \in {"free", "ttl"}
<1>1. InFlight' = {}
  BY DEF InFlight
<1>2. drain.requested \in BOOLEAN
  BY DEF TypeOK, DrainState
<1>3. \/ drain' = [IdleDrain EXCEPT !.active = TRUE] /\ loop' = "ttl"
      \/ drain' = [IdleDrain EXCEPT !.requested = drain.requested] /\ loop' = "free"
  BY DEF EndPass
<1>4. /\ drain' \in DrainState /\ drain'.calls = 0 /\ drain'.remaining = 0
      /\ \/ loop' = "ttl" /\ drain'.active
         \/ loop' = "free" /\ ~drain'.active
  BY <1>2, <1>3, DrainReset
<1> QED  BY <1>1, <1>3, <1>4 DEF SlotInv, Startup, Pass

\* An attempt that settles gives its slot back; the last one ends the round.
LEMMA AttemptSettles ==
  ASSUME TypeOK, SlotInv, Idle, NEW r \in Run, attempt[r].pc # "none",
         NEW rejected \in BOOLEAN, Settle(r, rejected), sched'.active = sched.active \ {r}
  PROVE  /\ SlotInv' /\ drain' \in DrainState /\ loop' \in {"free", "settled"}
         /\ attempt' \in [Run -> Attempt] /\ attempt'[r] = NoAttempt
         /\ \A q \in Run \ {r} : attempt'[q] = attempt[q]
<1>1. /\ drain \in DrainState /\ attempt \in [Run -> Attempt]
  BY DEF TypeOK
<1>2. NoAttempt \in Attempt /\ NoAttempt.pc = "none"
  BY Numbers DEF NoAttempt, Attempt
<1>3. /\ attempt' \in [Run -> Attempt] /\ attempt'[r] = NoAttempt
      /\ \A q \in Run \ {r} : attempt'[q] = attempt[q]
  BY <1>1, <1>2 DEF Settle
<1>4. InFlight' = InFlight \ {r} /\ r \in InFlight
  BY <1>2, <1>3 DEF InFlight
<1>5. /\ drain' \in DrainState
      /\ drain'.active = drain.active
      /\ drain'.calls = drain.calls /\ drain'.remaining = drain.remaining
  BY <1>1 DEF Settle, DrainState
<1>6. loop' = IF InFlight = {r} THEN "settled" ELSE "free"
  BY DEF Settle
<1> QED  BY <1>3, <1>4, <1>5, <1>6 DEF SlotInv, Startup, Pass

\* A run nothing happens to.
LEMMA RunKept ==
  ASSUME NEW q \in Run, RunInv(q), Up' => Up,
         status'[q] = status[q], updatedAt'[q] = updatedAt[q], ckpt'[q] = ckpt[q],
         queuedFor'[q] = queuedFor[q], pending'[q] = pending[q], attempt'[q] = attempt[q],
         Held(q)' <=> Held(q)
  PROVE  RunInv(q)'
BY DEF RunInv

LEMMA StartKept ==
  ASSUME StartInv, loop \notin Startup, loop' \notin Startup, plans' = plans
  PROVE  StartInv'
BY DEF StartInv, Startup, InState

\* Waiting runs and slots in terms of the runs alone.
LEMMA HeldTypes ==
  ASSUME IInv
  PROVE  /\ Consistent(sched) /\ sched \in Scheduler
         /\ Waiting(sched) \subseteq Run /\ sched.active \subseteq Run
         /\ \A r \in Run : r \in sched.active <=> attempt[r].pc # "none"
         /\ \A r \in Waiting(sched) : r \notin sched.active
BY EntriesType DEF IInv, QueueInv, SlotInv, InFlight, Consistent, EachRunOnce

-----------------------------------------------------------------------------
(* Requests *)

\* A new run waits nowhere yet, so it can be enqueued.
LEMMA SubmitKeeps ==
  ASSUME IInv, NEW r \in Run, Submit(r)
  PROVE  IInv'
<1> DEFINE n == Enqueue(sched, r, Now)
<1>1. TypeOK /\ SlotInv /\ StartInv /\ loop = "free"
  BY DEF IInv, Submit, Idle
<1>2. /\ status[r] = "NONE" /\ Update(r, "QUEUED") /\ sched' = n /\ RequestDrain
      /\ UNCHANGED <<ckpt, queuedFor, pending, notReady, attempt, interrupting, plans, crashes>>
  <2>1. r \in InState({"NONE"})
    BY FirstOfIsIn DEF Submit, InState
  <2> QED  BY <2>1 DEF Submit, InState
<1>3. /\ status' \in [Run -> Status] /\ updatedAt' \in [Run -> Stamp]
      /\ status'[r] = "QUEUED" /\ updatedAt'[r] = Now
      /\ \A q \in Run \ {r} : status'[q] = status[q] /\ updatedAt'[q] = updatedAt[q]
  BY <1>1, <1>2, UpdateEffect DEF Status
<1>4. r \notin Waiting(sched) /\ r \notin sched.active
  BY <1>2 DEF IInv, RunInv, Held
<1>5. /\ Consistent(n) /\ n.active = sched.active
      /\ Entries(n) = Entries(sched) \cup {[run |-> r, at |-> Now]}
      /\ Waiting(n) = Waiting(sched) \cup {r}
  BY <1>4, HeldTypes, Numbers, EnqueueConsistent, EnqueueEffect DEF CanEnqueue
<1> HIDE DEF n
<1>6. SlotInv' /\ drain' \in DrainState /\ loop' \in {"free", "ttl"}
  BY <1>1, <1>2, <1>5, DrainIsRequested DEF Pass
<1>7. TypeOK'
  BY <1>1, <1>2, <1>3, <1>5, <1>6 DEF TypeOK, Consistent, Loop
<1>8. QueueInv'
  <2>1. EntryOK([run |-> r, at |-> Now])'
    BY <1>3, Numbers DEF EntryOK
  <2>2. \A q \in Run : status'[q] = "QUEUED" =>
          \/ updatedAt'[q] = Now
          \/ status[q] = "QUEUED" /\ updatedAt'[q] = updatedAt[q]
    BY <1>3
  <2> QED  BY <1>2, <1>5, <2>1, <2>2, QueueStep
<1>9. ASSUME NEW q \in Run  PROVE RunInv(q)'
  <2>1. RunInv(q) /\ loop' \notin Startup /\ Up
    BY <1>1, <1>6 DEF IInv, Startup, Up
  <2>2. Held(q)' <=> Held(q) \/ q = r
    BY <1>2, <1>5 DEF Held
  <2>3. CASE q = r
    <3>1. attempt[r].at \in Stamp
      BY <1>1 DEF TypeOK, Attempt
    <3>2. pending[r] = 0
      BY <1>4, <2>1, <2>3 DEF RunInv, Held
    <3> QED  BY <1>2, <1>3, <2>1, <2>2, <2>3, <3>1, <3>2, Numbers DEF RunInv
  <2>4. CASE q # r
    BY <1>2, <1>3, <2>1, <2>2, <2>4, RunKept
  <2> QED  BY <2>3, <2>4
<1>10. StartInv'
  BY <1>1, <1>2, <1>6, StartKept DEF Startup
<1> QED  BY <1>6, <1>7, <1>8, <1>9, <1>10 DEF IInv

\* queueResume: the run is QUEUED, from its own checkpoint, as of now.
LEMMA QueueResumeEffect ==
  ASSUME TypeOK, NEW r \in Run, QueueResume(r)
  PROVE  /\ status' \in [Run -> Status] /\ updatedAt' \in [Run -> Stamp]
         /\ queuedFor' \in [Run -> Ckpt]
         /\ status[r] = "INTERRUPTED" /\ ckpt[r] # 0 /\ ckpt[r] \in Ckpt
         /\ status'[r] = "QUEUED" /\ updatedAt'[r] = Now /\ queuedFor'[r] = ckpt[r]
         /\ \A q \in Run \ {r} : /\ status'[q] = status[q] /\ updatedAt'[q] = updatedAt[q]
                                 /\ queuedFor'[q] = queuedFor[q]
<1>1. ckpt \in [Run -> Ckpt] /\ queuedFor \in [Run -> Ckpt]
  BY DEF TypeOK
<1>2. /\ status[r] = "INTERRUPTED" /\ ckpt[r] # 0 /\ Update(r, "QUEUED")
      /\ queuedFor' = [queuedFor EXCEPT ![r] = ckpt[r]]
  BY DEF QueueResume
<1>3. /\ status' \in [Run -> Status] /\ updatedAt' \in [Run -> Stamp]
      /\ status'[r] = "QUEUED" /\ updatedAt'[r] = Now
      /\ \A q \in Run \ {r} : status'[q] = status[q] /\ updatedAt'[q] = updatedAt[q]
  BY <1>2, UpdateEffect DEF Status
<1> QED  BY <1>1, <1>2, <1>3

LEMMA ResumeKeeps ==
  ASSUME IInv, NEW r \in Run, Resume(r)
  PROVE  IInv'
<1>1. TypeOK /\ SlotInv /\ StartInv /\ loop = "free"
  BY DEF IInv, Resume, Idle
<1>2. /\ QueueResume(r)
      /\ UNCHANGED <<ckpt, notReady, attempt, interrupting, plans, crashes>>
  BY DEF Resume
<1>3. /\ status' \in [Run -> Status] /\ updatedAt' \in [Run -> Stamp]
      /\ queuedFor' \in [Run -> Ckpt]
      /\ status[r] = "INTERRUPTED" /\ ckpt[r] # 0 /\ ckpt[r] \in Ckpt
      /\ status'[r] = "QUEUED" /\ updatedAt'[r] = Now /\ queuedFor'[r] = ckpt[r]
      /\ \A q \in Run \ {r} : /\ status'[q] = status[q] /\ updatedAt'[q] = updatedAt[q]
                              /\ queuedFor'[q] = queuedFor[q]
  BY <1>1, <1>2, QueueResumeEffect
<1>4. /\ SlotInv' /\ drain' \in DrainState /\ loop' \in {"free", "ttl"}
      /\ Consistent(sched') /\ sched'.active = sched.active
      /\ \A e \in Entries(sched') : e \in Entries(sched) \/ e = [run |-> r, at |-> Now]
      /\ pending' \in [Run -> Ckpt]
      /\ \A q \in Run \ {r} : pending'[q] = pending[q] /\ (Held(q)' <=> Held(q))
      /\ pending'[r] # 0 => pending'[r] = ckpt[r] /\ Held(r)'
  <2>1. CASE CanEnqueue(sched, r)
    <3> DEFINE n == Enqueue(sched, r, Now)
    <3>1. /\ pending' = [pending EXCEPT ![r] = ckpt[r]]
          /\ sched' = n /\ RequestDrain
      BY <2>1 DEF Resume
    <3>2. /\ Consistent(n) /\ n.active = sched.active
          /\ Entries(n) = Entries(sched) \cup {[run |-> r, at |-> Now]}
          /\ Waiting(n) = Waiting(sched) \cup {r}
      BY <2>1, HeldTypes, Numbers, EnqueueConsistent, EnqueueEffect
    <3> HIDE DEF n
    <3>3. SlotInv' /\ drain' \in DrainState /\ loop' \in {"free", "ttl"}
      BY <1>1, <1>2, <3>1, <3>2, DrainIsRequested DEF Pass
    <3>4. \A q \in Run : Held(q)' <=> Held(q) \/ q = r
      BY <3>1, <3>2 DEF Held
    <3>5. pending \in [Run -> Ckpt]
      BY <1>1 DEF TypeOK
    <3> QED  BY <1>3, <3>1, <3>2, <3>3, <3>4, <3>5
  <2>2. CASE ~CanEnqueue(sched, r)
    <3>1. pending' = [pending EXCEPT ![r] = 0] /\ UNCHANGED <<sched, loop, drain>>
      BY <2>2 DEF Resume
    <3>2. pending \in [Run -> Ckpt] /\ drain \in DrainState
      BY <1>1 DEF TypeOK
    <3>3. SlotInv'
      BY <1>1, <1>2, <3>1, SlotsKept
    <3>4. \A q \in Run : Held(q)' <=> Held(q)
      BY <3>1 DEF Held
    <3>5. pending' \in [Run -> Ckpt] /\ pending'[r] = 0
      BY <3>1, <3>2, Numbers
    <3> QED  BY <1>1, <3>1, <3>2, <3>3, <3>4, <3>5, HeldTypes
  <2> QED  BY <2>1, <2>2
<1>7. TypeOK'
  BY <1>1, <1>2, <1>3, <1>4 DEF TypeOK, Consistent, Loop
<1>8. QueueInv'
  <2>1. EntryOK([run |-> r, at |-> Now])'
    BY <1>3, Numbers DEF EntryOK
  <2>2. \A q \in Run : status'[q] = "QUEUED" =>
          \/ updatedAt'[q] = Now
          \/ status[q] = "QUEUED" /\ updatedAt'[q] = updatedAt[q]
    BY <1>3
  <2> QED  BY <1>4, <2>1, <2>2, QueueStep
<1>9. ASSUME NEW q \in Run  PROVE RunInv(q)'
  <2>1. RunInv(q) /\ loop' \notin Startup /\ Up
    BY <1>1, <1>4 DEF IInv, Startup, Up
  <2>2. CASE q = r
    <3>1. attempt[r].at \in Stamp
      BY <1>1 DEF TypeOK, Attempt
    <3>2. ckpt[r] \in Nat
      BY <1>3, Numbers
    <3>3. pending'[r] # 0 => /\ attempt[r].pc = "none" \/ pending'[r] = 0
                            /\ Held(r)'
      <4>1. CASE CanEnqueue(sched, r)
        BY <1>4, <4>1, HeldTypes DEF CanEnqueue
      <4>2. CASE ~CanEnqueue(sched, r)
        <5>1. pending' = [pending EXCEPT ![r] = 0]
          BY <4>2 DEF Resume
        <5> QED  BY <5>1, <1>1 DEF TypeOK
      <4> QED  BY <4>1, <4>2
    <3> QED  BY <1>2, <1>3, <1>4, <2>1, <2>2, <3>1, <3>2, <3>3, Numbers DEF RunInv
  <2>3. CASE q # r
    BY <1>2, <1>3, <1>4, <2>1, <2>3, RunKept
  <2> QED  BY <2>2, <2>3
<1>10. StartInv'
  BY <1>1, <1>2, <1>4, StartKept DEF Startup
<1> QED  BY <1>4, <1>7, <1>8, <1>9, <1>10 DEF IInv

\* The store and the queue let go of a run, for a reason given by the status
\* it gets, or because the run had already moved on.
LEMMA RunIsRemoved ==
  ASSUME IInv, Up, NEW r \in Run,
         sched' = RemoveQueued(sched, r), pending' = [pending EXCEPT ![r] = 0],
         UNCHANGED <<ckpt, queuedFor, attempt>>,
         UNCHANGED <<status, updatedAt>> \/ \E to \in {"INTERRUPTED", "FAILED"} : Update(r, to)
  PROVE  /\ QueueInv' /\ \A q \in Run : RunInv(q)'
         /\ sched' \in Scheduler /\ sched'.active = sched.active
         /\ status' \in [Run -> Status] /\ updatedAt' \in [Run -> Stamp]
         /\ pending' \in [Run -> Ckpt]
<1>1. TypeOK /\ pending \in [Run -> Ckpt]
  BY DEF IInv, TypeOK
<1>2. /\ Consistent(sched') /\ sched' \in Scheduler /\ sched'.active = sched.active
      /\ Entries(sched') \subseteq Entries(sched)
      /\ Waiting(sched') = Waiting(sched) \ {r}
  BY HeldTypes, RemoveQueuedConsistent, RemoveQueuedEffect DEF Consistent
<1>3. /\ status' \in [Run -> Status] /\ updatedAt' \in [Run -> Stamp]
      /\ \A q \in Run \ {r} : status'[q] = status[q] /\ updatedAt'[q] = updatedAt[q]
      /\ \/ status'[r] = status[r] /\ updatedAt'[r] = updatedAt[r]
         \/ status'[r] \in {"INTERRUPTED", "FAILED"}
  <2>1. CASE UNCHANGED <<status, updatedAt>>
    BY <1>1, <2>1 DEF TypeOK
  <2>2. ASSUME NEW to \in {"INTERRUPTED", "FAILED"}, Update(r, to)
        PROVE  <1>3!1 /\ <1>3!2 /\ status'[r] = to
    BY <1>1, <2>2, UpdateEffect DEF Status
  <2> QED  BY <2>1, <2>2
<1>4. /\ pending' \in [Run -> Ckpt] /\ pending'[r] = 0
      /\ \A q \in Run \ {r} : pending'[q] = pending[q]
  BY <1>1, Numbers
<1>5. QueueInv'
  BY <1>2, <1>3, QueueStep
<1>6. ASSUME NEW q \in Run  PROVE RunInv(q)'
  <2>1. RunInv(q)
    BY DEF IInv
  <2>2. Held(q)' => Held(q)
    BY <1>2 DEF Held
  <2>3. CASE q = r
    BY <1>3, <1>4, <2>1, <2>2, <2>3 DEF RunInv
  <2>4. CASE q # r
    <3>1. Held(q)' <=> Held(q)
      BY <1>2, <2>4 DEF Held
    <3> QED  BY <1>3, <1>4, <2>1, <2>4, <3>1, RunKept
  <2> QED  BY <2>3, <2>4
<1> QED  BY <1>2, <1>3, <1>4, <1>5, <1>6

\* Something happens to a run and to the attempt that works on it, and
\* nothing to the queues.
LEMMA RunMoves ==
  ASSUME IInv, Idle, NEW r \in Run, UNCHANGED <<sched, pending, queuedFor>>,
         UNCHANGED <<status, updatedAt>> \/ \E to \in Status \ {"QUEUED"} : Update(r, to),
         attempt' \in [Run -> Attempt],
         \A q \in Run \ {r} : attempt'[q] = attempt[q],
         \A q \in Run : ckpt'[q] \in Ckpt /\ ckpt[q] =< ckpt'[q],
         attempt'[r].pc = "none" <=> attempt[r].pc = "none",
         attempt'[r].at = attempt[r].at,
         status'[r] = "RUNNING" => attempt'[r].pc = "running" /\ ~attempt'[r].told,
         attempt'[r].pc \in {"none", "admission", "before"} =>
           ~attempt'[r].told /\ attempt'[r].mode = 0,
         attempt'[r].pc \in {"before", "running", "after"} /\ attempt'[r].mode = 0 => pending[r] = 0
  PROVE  /\ QueueInv' /\ \A q \in Run : RunInv(q)'
         /\ status' \in [Run -> Status] /\ updatedAt' \in [Run -> Stamp]
         /\ UNCHANGED <<loop, drain>> => SlotInv'
<1>1. TypeOK /\ ckpt \in [Run -> Ckpt] /\ pending \in [Run -> Ckpt]
  BY DEF IInv, TypeOK
<1>2. /\ status' \in [Run -> Status] /\ updatedAt' \in [Run -> Stamp]
      /\ \A q \in Run \ {r} : status'[q] = status[q] /\ updatedAt'[q] = updatedAt[q]
      /\ \/ status'[r] = status[r] /\ updatedAt'[r] = updatedAt[r]
         \/ status'[r] \notin {"NONE", "QUEUED"}
  <2>1. CASE UNCHANGED <<status, updatedAt>>
    BY <1>1, <2>1 DEF TypeOK
  <2>2. ASSUME NEW to \in Status \ {"QUEUED"}, Update(r, to)
        PROVE  <1>2!1 /\ <1>2!2 /\ status'[r] \notin {"NONE", "QUEUED"}
    BY <1>1, <2>2, UpdateEffect
  <2> QED  BY <2>1, <2>2
<1>3. QueueInv'
  BY <1>2, HeldTypes, QueueStep
<1>4. ASSUME NEW q \in Run  PROVE RunInv(q)'
  <2>1. RunInv(q) /\ Up
    BY DEF IInv, Up, Idle
  <2>2. Held(q)' <=> Held(q)
    BY DEF Held
  <2>3. pending[q] =< ckpt[q] => pending[q] =< ckpt'[q]
    <3>1. pending[q] \in Nat /\ ckpt[q] \in Nat /\ ckpt'[q] \in Nat /\ ckpt[q] =< ckpt'[q]
      BY <1>1, Numbers
    <3> QED  BY <3>1
  <2>4. CASE q = r
    BY <1>2, <2>1, <2>2, <2>3, <2>4 DEF RunInv
  <2>5. CASE q # r
    BY <1>2, <2>1, <2>2, <2>3, <2>5 DEF RunInv
  <2> QED  BY <2>4, <2>5
<1>5. UNCHANGED <<loop, drain>> => SlotInv'
  BY SlotsKept DEF IInv
<1> QED  BY <1>2, <1>3, <1>4, <1>5

\* Checkpoints are numbered, so an unchanged one is one that did not go back.
LEMMA CkptStays ==
  ASSUME TypeOK, ckpt' = ckpt
  PROVE  \A q \in Run : ckpt'[q] \in Ckpt /\ ckpt[q] =< ckpt'[q]
<1> TAKE q \in Run
<1>1. ckpt[q] \in Ckpt
  BY DEF TypeOK
<1>2. ckpt[q] \in Nat
  BY <1>1, Numbers
<1> QED  BY <1>1, <1>2

\* An attempt is over: its slot goes back, its run may go back to its queue
\* with the wait it had.
LEMMA AttemptIsOver ==
  ASSUME IInv, Idle, NEW r \in Run, attempt[r].pc \notin {"none", "running"},
         NEW rejected \in BOOLEAN, Settle(r, rejected),
         UNCHANGED <<status, updatedAt, ckpt, queuedFor, plans, interrupting, crashes>>,
         notReady' \in [Run -> 0..MaxRetries],
         \/ sched' = Release(sched, r)
         \/ PutBack(r),
         \A q \in Run \ {r} : pending'[q] = pending[q],
         pending' \in [Run -> Ckpt],
         pending'[r] \in {0, pending[r]},
         pending'[r] # 0 => PutBack(r)
  PROVE  IInv'
<1>1. TypeOK /\ SlotInv /\ StartInv /\ loop = "free" /\ Up
  BY DEF IInv, Idle, Up
<1>2. attempt[r] \in Attempt /\ attempt[r].at \in Stamp
  BY <1>1 DEF TypeOK, Attempt
<1>3. r \in sched.active /\ r \notin Waiting(sched)
  BY HeldTypes
<1> DEFINE m == Release(sched, r)
           n == Enqueue(m, r, attempt[r].at)
           e == [run |-> r, at |-> attempt[r].at]
<1>4. /\ Consistent(m) /\ m.active = sched.active \ {r}
      /\ Entries(m) = Entries(sched) /\ Waiting(m) = Waiting(sched)
  BY HeldTypes, ReleaseConsistent, ReleaseEffect
<1> HIDE DEF m
<1>5. /\ Consistent(n) /\ n.active = sched.active \ {r}
      /\ Entries(n) = Entries(sched) \cup {e} /\ Waiting(n) = Waiting(sched) \cup {r}
  BY <1>2, <1>3, <1>4, Numbers, EnqueueConsistent, EnqueueEffect DEF CanEnqueue
<1> HIDE DEF n
<1>6. /\ sched' = m \/ sched' = n
      /\ pending'[r] # 0 => sched' = n
  BY DEF PutBack, m, n
<1>7. /\ Consistent(sched') /\ sched' \in Scheduler /\ sched'.active = sched.active \ {r}
      /\ Entries(sched') \subseteq Entries(sched) \cup {e}
      /\ Waiting(sched') \ {r} = Waiting(sched)
      /\ pending'[r] # 0 => r \in Waiting(sched')
  BY <1>3, <1>4, <1>5, <1>6 DEF Consistent
<1>8. /\ SlotInv' /\ drain' \in DrainState /\ loop' \in {"free", "settled"}
      /\ attempt' \in [Run -> Attempt] /\ attempt'[r] = NoAttempt
      /\ \A q \in Run \ {r} : attempt'[q] = attempt[q]
  BY <1>1, <1>7, AttemptSettles
<1>9. TypeOK'
  BY <1>1, <1>7, <1>8 DEF TypeOK, Loop
<1>10. RunInv(r) /\ status[r] # "RUNNING" /\ status[r] # "NONE"
  BY <1>1, <1>3 DEF IInv, RunInv, Held
<1>11. QueueInv'
  <2>1. /\ e.run = r /\ e.at =< Now
        /\ status[r] = "QUEUED" => e.at =< updatedAt[r]
    BY <1>2, <1>10, Numbers DEF RunInv
  <2> HIDE DEF e
  <2>2. ASSUME NEW d, d = e  PROVE EntryOK(d)'
    BY <2>1, <2>2 DEF EntryOK
  <2> QED  BY <1>7, <2>2, QueueStep
<1>12. ASSUME NEW q \in Run  PROVE RunInv(q)'
  <2>1. CASE q = r
    <3>1. updatedAt[r] \in Nat
      BY <1>1, Numbers DEF TypeOK
    <3>2. pending'[r] # 0 => Held(r)'
      BY <1>7 DEF Held
    <3> QED  BY <1>8, <1>10, <2>1, <3>1, <3>2 DEF RunInv, NoAttempt
  <2>2. CASE q # r
    <3>1. Held(q)' <=> Held(q)
      BY <1>7, <2>2 DEF Held
    <3> QED  BY <1>1, <1>8, <2>2, <3>1, RunKept DEF IInv
  <2> QED  BY <2>1, <2>2
<1>13. StartInv'
  BY <1>1, <1>8, StartKept DEF Startup
<1> QED  BY <1>8, <1>9, <1>11, <1>12, <1>13 DEF IInv

\* QUEUED -> RUNNING, or INTERRUPTED at once for want of a slot of the instance.
LEMMA RuntimeStarts ==
  ASSUME IInv, Idle, NEW r \in Run, attempt[r].pc \in {"admission", "before"},
         NEW m \in Ckpt, m = 0 => pending[r] = 0, StartRuntime(r, m),
         UNCHANGED <<ckpt, queuedFor, interrupting, plans, crashes>>
  PROVE  IInv'
<1>1. TypeOK /\ StartInv /\ RunInv(r) /\ loop = "free"
  BY DEF IInv, Idle
<1>2. /\ attempt \in [Run -> Attempt] /\ ckpt \in [Run -> Ckpt]
      /\ UNCHANGED <<sched, pending, notReady, loop, drain>>
  BY <1>1 DEF TypeOK, StartRuntime
<1>3. ~attempt[r].told
  BY <1>1 DEF RunInv
<1>4. /\ attempt' \in [Run -> Attempt]
      /\ \A q \in Run \ {r} : attempt'[q] = attempt[q]
      /\ attempt'[r].at = attempt[r].at /\ attempt'[r].mode = m /\ ~attempt'[r].told
      /\ attempt'[r].pc \in {"running", "after"}
      /\ \/ Update(r, "RUNNING") /\ attempt'[r].pc = "running"
         \/ Update(r, "INTERRUPTED")
  <2>1. CASE /\ Update(r, "RUNNING")
             /\ attempt' = [attempt EXCEPT ![r].pc = "running", ![r].mode = m]
    BY <1>2, <1>3, <2>1 DEF Attempt
  <2>2. CASE /\ Update(r, "INTERRUPTED")
             /\ attempt' = [attempt EXCEPT ![r].pc = "after", ![r].mode = m, ![r].outcome = "slot"]
    <3> DEFINE a == [attempt[r] EXCEPT !.pc = "after", !.mode = m, !.outcome = "slot"]
    <3>1. a \in Attempt /\ a.pc = "after" /\ a.mode = m
      BY <1>2 DEF Attempt
    <3>2. a.at = attempt[r].at /\ a.told = attempt[r].told
      BY <1>2 DEF Attempt
    <3>3. attempt' = [attempt EXCEPT ![r] = a]
      BY <1>2, <2>2
    <3> HIDE DEF a
    <3>4. /\ attempt' \in [Run -> Attempt] /\ attempt'[r] = a
          /\ \A q \in Run \ {r} : attempt'[q] = attempt[q]
      BY <1>2, <3>1, <3>3
    <3> QED  BY <1>3, <2>2, <3>1, <3>2, <3>4
  <2> QED  BY <2>1, <2>2 DEF StartRuntime
<1>5. status'[r] = "RUNNING" => attempt'[r].pc = "running"
  <2>1. Update(r, "INTERRUPTED") => status'[r] = "INTERRUPTED"
    BY <1>1, UpdateEffect DEF Status
  <2> QED  BY <1>4, <2>1
<1>6. UNCHANGED <<status, updatedAt>> \/ \E to \in Status \ {"QUEUED"} : Update(r, to)
  BY <1>4 DEF Status
<1>7. \A q \in Run : ckpt'[q] \in Ckpt /\ ckpt[q] =< ckpt'[q]
  BY <1>1, CkptStays
<1>8. /\ QueueInv' /\ \A q \in Run : RunInv(q)'
      /\ status' \in [Run -> Status] /\ updatedAt' \in [Run -> Stamp]
      /\ SlotInv'
  BY <1>2, <1>4, <1>5, <1>6, <1>7, RunMoves
<1>9. TypeOK'
  BY <1>1, <1>2, <1>4, <1>8 DEF TypeOK
<1>10. StartInv'
  BY <1>1, <1>2, StartKept DEF Startup
<1> QED  BY <1>8, <1>9, <1>10 DEF IInv

\* Interrupt: the queue, the resume input and the stored status of a run that
\* waits go together.
LEMMA InterruptKeeps ==
  ASSUME IInv, NEW r \in Run, Interrupt(r)
  PROVE  IInv'
<1>1. /\ TypeOK /\ SlotInv /\ StartInv /\ loop = "free" /\ Up
      /\ sched' = RemoveQueued(sched, r) /\ pending' = [pending EXCEPT ![r] = 0]
      /\ UNCHANGED <<ckpt, queuedFor, notReady, attempt, loop, drain, plans, crashes>>
      /\ interrupting' \subseteq Run
  BY DEF IInv, Interrupt, Idle, Up, TypeOK
<1>2. UNCHANGED <<status, updatedAt>> \/ \E to \in {"INTERRUPTED", "FAILED"} : Update(r, to)
  BY DEF Interrupt
<1>3. /\ QueueInv' /\ \A q \in Run : RunInv(q)'
      /\ sched' \in Scheduler /\ sched'.active = sched.active
      /\ status' \in [Run -> Status] /\ updatedAt' \in [Run -> Stamp]
      /\ pending' \in [Run -> Ckpt]
  BY <1>1, <1>2, RunIsRemoved
<1>4. SlotInv'
  BY <1>1, <1>3, SlotsKept
<1>5. TypeOK'
  BY <1>1, <1>3 DEF TypeOK
<1>6. StartInv'
  BY <1>1, StartKept DEF Startup
<1> QED  BY <1>3, <1>4, <1>5, <1>6 DEF IInv

\* What the runtime, an interrupt that returns or a policy does to one run.
\* Every action below leaves the queues, the resume inputs and the drain alone.
LEMMA EventKeeps ==
  ASSUME IInv, NEW r \in Run,
         \/ InterruptReturns(r)
         \/ \E to \in Terminal \cup {"INTERRUPTED"} : RuntimeReports(r, to)
         \/ SandboxFails(r) \/ ToolStarted(r) \/ ToolEnded(r) \/ ToolAbandoned(r)
         \/ InvocationReturns(r) \/ InvocationThrows(r)
  PROVE  IInv'
<1>1. TypeOK /\ StartInv /\ RunInv(r) /\ loop = "free" /\ Idle /\ Up
  BY DEF IInv, Idle, Up, InterruptReturns, RuntimeReports, SandboxFails, ToolStarted, ToolEnded,
         ToolAbandoned, InvocationReturns, InvocationThrows, Running
<1>2. /\ attempt \in [Run -> Attempt] /\ ckpt \in [Run -> Ckpt] /\ status \in [Run -> Status]
      /\ interrupting \subseteq Run
  BY <1>1 DEF TypeOK
<1>3. /\ UNCHANGED <<sched, pending, queuedFor, notReady, plans, loop, drain, crashes>>
      /\ interrupting' \subseteq Run
  BY <1>2 DEF InterruptReturns, RuntimeReports, SandboxFails, ToolStarted, ToolEnded,
         ToolAbandoned, InvocationReturns, InvocationThrows, memory, persisted
<1> DEFINE StatusOK ==
             UNCHANGED <<status, updatedAt>> \/ \E to \in Status \ {"QUEUED"} : Update(r, to)
           AttemptOK ==
             /\ attempt' \in [Run -> Attempt]
             /\ \A q \in Run \ {r} : attempt'[q] = attempt[q]
             /\ attempt'[r].pc = "none" <=> attempt[r].pc = "none"
             /\ attempt'[r].at = attempt[r].at
             /\ status'[r] = "RUNNING" => attempt'[r].pc = "running" /\ ~attempt'[r].told
             /\ attempt'[r].pc \in {"none", "admission", "before"} =>
                  ~attempt'[r].told /\ attempt'[r].mode = 0
             /\ attempt'[r].pc \in {"before", "running", "after"} /\ attempt'[r].mode = 0 =>
                  pending[r] = 0
           CkptOK == \A q \in Run : ckpt'[q] \in Ckpt /\ ckpt[q] =< ckpt'[q]
<1>4. ckpt' = ckpt => CkptOK
  BY <1>1, CkptStays
<1>5. ASSUME NEW to \in Status, Update(r, to)  PROVE status'[r] = to
  BY <1>1, <1>5, UpdateEffect
<1>6. StatusOK /\ AttemptOK /\ CkptOK
  <2>1. CASE InterruptReturns(r)
    <3>1. attempt' = attempt /\ ckpt' = ckpt
      BY <2>1 DEF InterruptReturns
    <3>2. StatusOK /\ (status'[r] = "RUNNING" => status[r] = "RUNNING")
      BY <2>1, <1>5 DEF InterruptReturns, Status
    <3> QED  BY <1>1, <1>2, <1>4, <3>1, <3>2 DEF RunInv
  <2>2. ASSUME NEW to \in Terminal \cup {"INTERRUPTED"}, RuntimeReports(r, to)
        PROVE  StatusOK /\ AttemptOK /\ CkptOK
    <3>1. /\ attempt[r].pc = "running" /\ TryUpdate(r, to) /\ ckpt' = ckpt
          /\ attempt' = [attempt EXCEPT ![r].told = TRUE]
      BY <2>2 DEF RuntimeReports, Running
    <3>2. StatusOK
      BY <3>1 DEF TryUpdate, Status, Terminal
    <3>3. status'[r] # "RUNNING"
      <4>1. CASE CanTransition(r, to)
        BY <3>1, <4>1, <1>5 DEF TryUpdate, Terminal, Status
      <4>2. CASE ~CanTransition(r, to)
        <5>1. status[r] # "RUNNING"
          BY <4>2 DEF CanTransition, AllowedTransitions, Terminal
        <5> QED  BY <3>1, <4>2, <5>1 DEF TryUpdate
      <4> QED  BY <4>1, <4>2
    <3>4. AttemptOK
      BY <1>1, <1>2, <3>1, <3>3 DEF RunInv, Attempt
    <3> QED  BY <1>4, <3>1, <3>2, <3>4
  <2>3. CASE SandboxFails(r)
    <3>1. attempt' = attempt /\ ckpt' = ckpt /\ TryUpdate(r, "INTERRUPTED")
      BY <2>3 DEF SandboxFails, memory
    <3>2. StatusOK /\ (status'[r] = "RUNNING" => status[r] = "RUNNING")
      BY <3>1, <1>5 DEF TryUpdate, Status
    <3> QED  BY <1>1, <1>2, <1>4, <3>1, <3>2 DEF RunInv
  <2>4. CASE ToolStarted(r)
    <3>1. /\ attempt[r].pc = "running" /\ ~attempt[r].told /\ ckpt' = ckpt
          /\ attempt' = [attempt EXCEPT ![r].tool = TRUE]
      BY <2>4 DEF ToolStarted, Running
    <3>2. StatusOK
      BY <2>4 DEF ToolStarted, Status
    <3>3. AttemptOK
      BY <1>1, <1>2, <3>1 DEF RunInv, Attempt
    <3> QED  BY <1>4, <3>1, <3>2, <3>3
  <2>5. CASE ToolEnded(r)
    <3>1. /\ attempt[r].pc = "running" /\ ~attempt[r].told
          /\ attempt' = [attempt EXCEPT ![r].tool = FALSE]
      BY <2>5 DEF ToolEnded, Running
    <3>2. StatusOK
      BY <2>5 DEF ToolEnded, Status
    <3>3. AttemptOK
      BY <1>1, <1>2, <3>1 DEF RunInv, Attempt
    <3>4. CkptOK
      <4>1. CASE ckpt' = ckpt
        BY <4>1, <1>4
      <4>2. CASE ckpt[r] < MaxCkpt /\ ckpt' = [ckpt EXCEPT ![r] = @ + 1]
        <5>1. \A q \in Run : ckpt[q] \in Nat /\ ckpt[q] =< MaxCkpt
          BY <1>2, BoundAssumption DEF Ckpt
        <5> QED  BY <1>2, <4>2, <5>1, BoundAssumption DEF Ckpt
      <4> QED  BY <2>5, <4>1, <4>2 DEF ToolEnded
    <3> QED  BY <3>2, <3>3, <3>4
  <2>6. CASE ToolAbandoned(r)
    <3>1. /\ attempt[r].pc = "running" /\ ~attempt[r].told
          /\ ckpt' = ckpt /\ UNCHANGED <<status, updatedAt>>
          /\ attempt' = [attempt EXCEPT ![r].tool = FALSE]
      BY <2>6 DEF ToolAbandoned, Running, persisted
    <3>2. AttemptOK
      BY <1>1, <1>2, <3>1 DEF RunInv, Attempt
    <3> QED  BY <1>4, <3>1, <3>2
  <2>7. CASE InvocationReturns(r)
    <3>1. /\ attempt[r].pc = "running" /\ attempt[r].told
          /\ ckpt' = ckpt /\ UNCHANGED <<status, updatedAt>>
          /\ attempt' = [attempt EXCEPT ![r].pc = "after"]
      BY <2>7 DEF InvocationReturns, Running, persisted
    <3>2. AttemptOK
      BY <1>1, <1>2, <3>1 DEF RunInv, Attempt
    <3> QED  BY <1>4, <3>1, <3>2
  <2>8. CASE InvocationThrows(r)
    <3>1. /\ attempt[r].pc = "running" /\ ckpt' = ckpt
          /\ attempt' = [attempt EXCEPT ![r].pc = "after", ![r].outcome = "error"]
      BY <2>8 DEF InvocationThrows, Running
    <3>2. StatusOK /\ status'[r] # "RUNNING"
      BY <2>8, <1>5 DEF InvocationThrows, Status, Executing
    <3>3. AttemptOK
      BY <1>1, <1>2, <3>1, <3>2 DEF RunInv, Attempt
    <3> QED  BY <1>4, <3>1, <3>2, <3>3
  <2> QED  BY <2>1, <2>2, <2>3, <2>4, <2>5, <2>6, <2>7, <2>8
<1>7. /\ QueueInv' /\ \A q \in Run : RunInv(q)'
      /\ status' \in [Run -> Status] /\ updatedAt' \in [Run -> Stamp]
      /\ SlotInv'
  BY <1>1, <1>3, <1>6, RunMoves
<1>8. ckpt' \in [Run -> Ckpt]
  <2>1. ckpt' = ckpt \/ \E n : ckpt' = [ckpt EXCEPT ![r] = n]
    BY DEF InterruptReturns, RuntimeReports, SandboxFails, ToolStarted, ToolEnded,
         ToolAbandoned, InvocationReturns, InvocationThrows, persisted
  <2> QED  BY <1>2, <1>6, <2>1
<1>9. TypeOK'
  BY <1>1, <1>3, <1>6, <1>7, <1>8 DEF TypeOK
<1>10. StartInv'
  BY <1>1, <1>3, StartKept DEF Startup
<1> QED  BY <1>7, <1>9, <1>10 DEF IInv

-----------------------------------------------------------------------------
(* The attempts *)

\* The policy defers the run, or fails to answer.
LEMMA AdmissionDefersKeeps ==
  ASSUME IInv, NEW r \in Run, NEW throws \in BOOLEAN, AdmissionDefers(r, throws)
  PROVE  IInv'
<1>1. TypeOK
  BY DEF IInv
<1>2. /\ Idle /\ attempt[r].pc = "admission" /\ PutBack(r) /\ Settle(r, throws)
      /\ UNCHANGED <<status, updatedAt, ckpt, queuedFor, plans, interrupting, crashes>>
      /\ pending' = pending /\ notReady' = notReady
  BY DEF AdmissionDefers, persisted
<1>3. pending' \in [Run -> Ckpt] /\ notReady' \in [Run -> 0..MaxRetries]
  BY <1>1, <1>2 DEF TypeOK
<1> QED  BY <1>2, <1>3, AttemptIsOver

\* The policy starts the run: it was taken over, goes on to its snapshot, is
\* resumed, or its resume input no longer fits.
LEMMA AdmissionStartsKeeps ==
  ASSUME IInv, NEW r \in Run, AdmissionStarts(r)
  PROVE  IInv'
<1>1. /\ TypeOK /\ StartInv /\ RunInv(r)
      /\ Idle /\ attempt[r].pc = "admission"
      /\ UNCHANGED <<ckpt, queuedFor, interrupting, plans, crashes>>
  BY DEF IInv, AdmissionStarts
<1>2. /\ pending \in [Run -> Ckpt] /\ notReady \in [Run -> 0..MaxRetries]
      /\ attempt \in [Run -> Attempt] /\ pending[r] \in Ckpt
      /\ 0 \in Ckpt /\ 0 \in 0..MaxRetries
  BY <1>1, Numbers, BoundAssumption DEF TypeOK
<1>3. ASSUME sched' = Release(sched, r), pending' = [pending EXCEPT ![r] = 0],
             notReady' \in [Run -> 0..MaxRetries],
             NEW rejected \in BOOLEAN, Settle(r, rejected), UNCHANGED <<status, updatedAt>>
      PROVE  IInv'
  <2>1. /\ pending' \in [Run -> Ckpt] /\ pending'[r] = 0
        /\ \A q \in Run \ {r} : pending'[q] = pending[q]
    BY <1>2, <1>3
  <2> QED  BY <1>1, <1>3, <2>1, AttemptIsOver
<1>4. CASE /\ TakenOver(r)
           /\ sched' = Release(sched, r)
           /\ pending' = [pending EXCEPT ![r] = 0]
           /\ notReady' = [notReady EXCEPT ![r] = 0]
           /\ Settle(r, FALSE)
           /\ UNCHANGED <<status, updatedAt>>
  <2>1. notReady' \in [Run -> 0..MaxRetries]
    BY <1>2, <1>4
  <2> QED  BY <1>3, <1>4, <2>1
<1>5. CASE /\ status[r] = "QUEUED" /\ pending[r] = 0
           /\ attempt' = [attempt EXCEPT ![r].pc = "before"]
           /\ UNCHANGED <<status, updatedAt, sched, pending, notReady, loop, drain>>
  <2>1. /\ attempt' \in [Run -> Attempt]
        /\ \A q \in Run \ {r} : attempt'[q] = attempt[q]
        /\ attempt'[r].pc = "before" /\ attempt'[r].at = attempt[r].at
        /\ attempt'[r].told = attempt[r].told /\ attempt'[r].mode = attempt[r].mode
    BY <1>2, <1>5 DEF Attempt
  <2>2. ~attempt[r].told /\ attempt[r].mode = 0
    BY <1>1 DEF RunInv
  <2>3. /\ QueueInv' /\ \A q \in Run : RunInv(q)'
        /\ status' \in [Run -> Status] /\ updatedAt' \in [Run -> Stamp]
        /\ SlotInv'
    BY <1>1, <1>5, <2>1, <2>2, CkptStays, RunMoves
  <2>4. TypeOK'
    BY <1>1, <1>5, <2>1, <2>3 DEF TypeOK
  <2>5. StartInv'
    BY <1>1, <1>5, StartKept DEF Startup, Idle
  <2> QED  BY <2>3, <2>4, <2>5 DEF IInv
<1>6. CASE /\ status[r] = "QUEUED" /\ pending[r] = ckpt[r] /\ pending[r] # 0
           /\ StartRuntime(r, pending[r])
  BY <1>1, <1>2, <1>6, RuntimeStarts
<1>7. CASE /\ status[r] = "QUEUED" /\ pending[r] \notin {0, ckpt[r]}
           /\ sched' = Release(sched, r)
           /\ pending' = [pending EXCEPT ![r] = 0]
           /\ Settle(r, TRUE)
           /\ UNCHANGED <<status, updatedAt, notReady>>
  BY <1>2, <1>3, <1>7
<1> QED  BY <1>4, <1>5, <1>6, <1>7 DEF AdmissionStarts

\* The finally block: a run that was started has no resume input left, or it
\* is dropped here.
LEMMA FinishKeeps ==
  ASSUME IInv, Idle, NEW r \in Run, attempt[r].pc \in {"before", "after"},
         NEW returned \in BOOLEAN, Finish(r, returned),
         UNCHANGED <<status, updatedAt, ckpt, queuedFor, plans, interrupting, crashes>>
  PROVE  IInv'
<1>1. /\ pending \in [Run -> Ckpt] /\ notReady \in [Run -> 0..MaxRetries]
      /\ 0 \in Ckpt /\ 0 \in 0..MaxRetries
  BY Numbers, BoundAssumption DEF IInv, TypeOK
<1>2. attempt[r].mode = 0 => pending[r] = 0
  BY DEF IInv, RunInv
<1>3. /\ pending' \in [Run -> Ckpt] /\ pending'[r] = 0
      /\ \A q \in Run \ {r} : pending'[q] = pending[q]
  BY <1>1, <1>2 DEF Finish
<1>4. notReady' \in [Run -> 0..MaxRetries]
  BY <1>1 DEF Finish
<1>5. sched' = Release(sched, r) /\ (~returned) \in BOOLEAN /\ Settle(r, ~returned)
  BY DEF Finish
<1> QED  BY <1>3, <1>4, <1>5, AttemptIsOver

LEMMA BeforeKeeps ==
  ASSUME IInv, NEW r \in Run, BeforeCaptured(r) \/ BeforeFails(r)
  PROVE  IInv'
<1>1. Idle /\ attempt[r].pc = "before"
  BY DEF BeforeCaptured, BeforeFails
<1>2. CASE BeforeCaptured(r)
  <2>1. UNCHANGED <<ckpt, queuedFor, interrupting, plans, crashes>>
    BY <1>2 DEF BeforeCaptured
  <2>2. CASE StartRuntime(r, 0)
    <3>1. pending[r] = 0
      BY <1>1 DEF IInv, RunInv
    <3> QED  BY <1>1, <2>1, <2>2, <3>1, Numbers, RuntimeStarts
  <2>3. CASE Finish(r, TRUE) /\ UNCHANGED <<status, updatedAt>>
    BY <1>1, <2>1, <2>3, FinishKeeps
  <2> QED  BY <1>2, <2>2, <2>3 DEF BeforeCaptured
<1>3. CASE BeforeFails(r)
  BY <1>1, <1>3, FinishKeeps DEF BeforeFails, persisted
<1> QED  BY <1>2, <1>3

\* The snapshots after the run end the attempt, and a run without a slot of
\* its instance goes back to its queue while the retries last.
LEMMA AttemptEndsKeeps ==
  ASSUME IInv, NEW r \in Run, AttemptEnds(r)
  PROVE  IInv'
<1>1. /\ Idle /\ attempt[r].pc = "after"
      /\ UNCHANGED <<status, updatedAt, ckpt, queuedFor, plans, interrupting, crashes>>
  BY DEF AttemptEnds, persisted
<1>2. CASE \E returned \in BOOLEAN : Finish(r, returned)
  BY <1>1, <1>2, FinishKeeps
<1>3. CASE SlotRetry(r)
  <2>1. /\ pending \in [Run -> Ckpt] /\ notReady \in [Run -> 0..MaxRetries]
        /\ 0 \in Ckpt /\ 0 \in 0..MaxRetries /\ MaxRetries \in Nat
    BY Numbers, BoundAssumption DEF IInv, TypeOK
  <2>2. attempt[r].mode = 0 => pending[r] = 0
    BY <1>1 DEF IInv, RunInv
  <2>3. /\ pending' \in [Run -> Ckpt] /\ pending'[r] = 0
        /\ \A q \in Run \ {r} : pending'[q] = pending[q]
    BY <1>3, <2>1, <2>2 DEF SlotRetry
  <2>4. notReady' \in [Run -> 0..MaxRetries]
    <3>1. notReady[r] \in Nat
      BY <2>1
    <3> DEFINE k == IF notReady[r] + 1 =< MaxRetries THEN notReady[r] + 1 ELSE 0
    <3>2. k \in 0..MaxRetries
      BY <2>1, <3>1
    <3>3. notReady' = [notReady EXCEPT ![r] = k]
      BY <1>3 DEF SlotRetry
    <3> HIDE DEF k
    <3> QED  BY <2>1, <3>2, <3>3
  <2>5. /\ sched' = Release(sched, r) \/ PutBack(r)
        /\ Settle(r, FALSE)
    BY <1>3 DEF SlotRetry
  <2> QED  BY <1>1, <2>3, <2>4, <2>5, AttemptIsOver
<1> QED  BY <1>2, <1>3 DEF AttemptEnds

-----------------------------------------------------------------------------
(* The passes *)

\* A step that moves the drain on and touches nothing else.
LEMMA DrainMoves ==
  ASSUME IInv, SlotInv', drain' \in DrainState, loop' \in {"free"} \cup Pass,
         UNCHANGED <<persisted, sched, pending, notReady, attempt, interrupting, plans, crashes>>,
         plans = {}, Up \/ InState({"RUNNING"}) = {}
  PROVE  IInv'
<1>1. /\ TypeOK
      /\ UNCHANGED <<status, updatedAt, ckpt, queuedFor>>
  BY DEF IInv, persisted
<1>2. TypeOK'
  BY <1>1 DEF TypeOK, Loop, Pass
<1>3. QueueInv'
  BY <1>1, HeldTypes, QueueStep
<1>4. ASSUME NEW q \in Run  PROVE RunInv(q)'
  <2>1. RunInv(q) /\ (Held(q)' <=> Held(q))
    BY DEF IInv, Held
  <2>2. status[q] = "RUNNING" => Up
    BY DEF InState
  <2> QED  BY <1>1, <2>1, <2>2 DEF RunInv
<1>5. StartInv'
  BY DEF StartInv, Startup, Pass
<1> QED  BY <1>2, <1>3, <1>4, <1>5 DEF IInv

\* The pump ticks, for the first time after the startup too.
LEMMA PumpKeeps ==
  ASSUME IInv, PumpTick \/ StartPump
  PROVE  IInv'
<1>1. /\ RequestDrain /\ loop \in {"free", "recover"}
      /\ UNCHANGED <<persisted, sched, pending, notReady, attempt, interrupting, plans, crashes>>
      /\ TypeOK /\ SlotInv /\ StartInv
  BY DEF PumpTick, StartPump, Idle, IInv
<1>2. SlotInv' /\ drain' \in DrainState /\ loop' \in {"free", "ttl"}
  BY <1>1, DrainIsRequested DEF Pass
<1>3. plans = {} /\ (Up \/ InState({"RUNNING"}) = {})
  BY <1>1 DEF StartPump, PumpTick, StartInv, Up, Idle, InState, Executing
<1> QED  BY <1>1, <1>2, <1>3, DrainMoves DEF Pass

LEMMA RoundsKeep ==
  ASSUME IInv, RoundClaimed \/ RoundSettled
  PROVE  IInv'
<1>1. /\ TypeOK /\ SlotInv /\ loop \in {"claim", "settled"} /\ drain.active
      /\ UNCHANGED <<persisted, sched, pending, notReady, attempt, interrupting, plans, crashes>>
      /\ Up /\ plans = {}
  BY DEF IInv, SlotInv, StartInv, RoundClaimed, RoundSettled, Pass, Up
<1>2. /\ drain \in DrainState /\ (drain.requested /\ ~drain.failed) \in BOOLEAN
      /\ drain.remaining \in 0..Cardinality(Run) /\ 0 \in 0..Cardinality(Run)
      /\ 0 =< drain.remaining
  BY <1>1, Numbers DEF TypeOK, DrainState
<1>3. InFlight' = InFlight
  BY <1>1 DEF InFlight
<1>4. SlotInv' /\ drain' \in DrainState /\ loop' \in {"free"} \cup Pass
  <2>1. CASE InFlight = {} /\ EndPass(drain.requested /\ ~drain.failed)
    BY <1>1, <1>2, <2>1, PassEnds DEF Pass
  <2>2. CASE drain' = [drain EXCEPT !.calls = 0] /\ loop' = "free"
    <3>1. /\ drain' \in DrainState /\ drain'.calls = 0
          /\ drain'.active /\ drain'.remaining = drain.remaining
      BY <1>1, <1>2, <2>2 DEF DrainState
    <3> QED  BY <1>1, <1>2, <1>3, <2>2, <3>1 DEF SlotInv, Startup, Pass
  <2>3. CASE loop = "settled" /\ drain' = [drain EXCEPT !.calls = drain.remaining] /\ loop' = "claim"
    <3>1. /\ drain' \in DrainState /\ drain'.calls = drain.remaining
          /\ drain'.active /\ drain'.remaining = drain.remaining
      BY <1>1, <1>2, <2>3 DEF DrainState
    <3> QED  BY <1>1, <1>2, <1>3, <2>3, <3>1 DEF SlotInv, Startup, Pass
  <2>4. loop = "settled" => InFlight = {}
    BY <1>1 DEF SlotInv
  <2> QED  BY <2>1, <2>2, <2>3, <2>4 DEF RoundClaimed, RoundSettled
<1> QED  BY <1>1, <1>4, DrainMoves

\* The sweep of the memory queue.
LEMMA EnforceQueueTtlKeeps ==
  ASSUME IInv, EnforceQueueTtl
  PROVE  IInv'
<1>1. /\ TypeOK /\ SlotInv /\ StartInv /\ loop = "ttl" /\ Up /\ plans = {}
      /\ UNCHANGED <<ckpt, queuedFor, notReady, attempt, interrupting, drain, plans, crashes>>
  BY DEF IInv, EnforceQueueTtl, Up, StartInv
<1>2. InFlight' = InFlight /\ InFlight = {} /\ drain.active
  BY <1>1 DEF InFlight, SlotInv, Pass
<1>3. CASE ExpiredEntries = {}
  <2>1. loop' = "reconcile" /\ UNCHANGED <<status, updatedAt, sched, pending>>
    BY <1>3 DEF EnforceQueueTtl
  <2>2. SlotInv' /\ drain' \in DrainState
    BY <1>1, <1>2, <2>1 DEF SlotInv, Startup, Pass, TypeOK
  <2> QED  BY <1>1, <2>1, <2>2, DrainMoves DEF Pass, persisted
<1>4. CASE ExpiredEntries # {}
  <2> DEFINE r == FirstOf(ExpiredEntries)
  <2>1. r \in Run
    <3>1. ExpiredEntries \in SUBSET Run
      BY HeldTypes DEF ExpiredEntries
    <3> QED  BY <1>4, <3>1, FirstOfIsIn
  <2>2. /\ FailQueuedRun(r) /\ sched' = RemoveQueued(sched, r)
        /\ pending' = [pending EXCEPT ![r] = 0] /\ loop' = "ttl"
    BY <1>4 DEF EnforceQueueTtl
  <2> HIDE DEF r
  <2>3. UNCHANGED <<status, updatedAt>> \/ \E to \in {"INTERRUPTED", "FAILED"} : Update(r, to)
    BY <2>2 DEF FailQueuedRun
  <2>4. /\ QueueInv' /\ \A q \in Run : RunInv(q)'
        /\ sched' \in Scheduler /\ sched'.active = sched.active
        /\ status' \in [Run -> Status] /\ updatedAt' \in [Run -> Stamp]
        /\ pending' \in [Run -> Ckpt]
    BY <1>1, <2>1, <2>2, <2>3, RunIsRemoved
  <2>5. SlotInv'
    BY <1>1, <2>2, <2>4, SlotsKept
  <2>6. TypeOK'
    BY <1>1, <2>2, <2>4 DEF TypeOK, Loop
  <2>7. StartInv'
    BY <1>1, <2>2, StartKept DEF Startup
  <2> QED  BY <2>4, <2>5, <2>6, <2>7 DEF IInv
<1> QED  BY <1>3, <1>4

\* The reconciliation with the store.  An orphan can be enqueued because no
\* attempt is in flight.
LEMMA ReconcileKeeps ==
  ASSUME IInv, Reconcile
  PROVE  IInv'
<1>1. /\ TypeOK /\ SlotInv /\ StartInv /\ loop = "reconcile" /\ Up /\ plans = {}
      /\ UNCHANGED <<ckpt, queuedFor, notReady, attempt, interrupting, plans, crashes>>
  BY DEF IInv, Reconcile, Up, StartInv
<1>2. /\ InFlight' = InFlight /\ InFlight = {} /\ drain.active /\ sched.active = {}
      /\ drain \in DrainState
  BY <1>1 DEF InFlight, SlotInv, Pass, TypeOK
<1>3. CASE Unreconciled = {}
  <2> DEFINE n == Cardinality(Waiting(sched))
  <2>1. /\ drain' = [drain EXCEPT !.remaining = n, !.calls = n]
        /\ loop' = "claim" /\ UNCHANGED <<status, updatedAt, sched, pending>>
    BY <1>3 DEF Reconcile
  <2>2. n \in 0..Cardinality(Run) /\ n \in Nat
    <3>1. Waiting(sched) \in SUBSET Run
      BY HeldTypes
    <3> QED  BY <3>1, ActiveIsFinite, RunAssumption, FS_Subset, FS_CardinalityType
  <2> HIDE DEF n
  <2>3. /\ drain' \in DrainState /\ drain'.calls = n /\ drain'.remaining = n /\ drain'.active
    BY <1>2, <2>1, <2>2 DEF DrainState
  <2>4. SlotInv'
    BY <1>1, <1>2, <2>1, <2>2, <2>3 DEF SlotInv, Startup, Pass
  <2> QED  BY <1>1, <2>1, <2>3, <2>4, DrainMoves DEF Pass, persisted
<1>4. CASE Unreconciled # {}
  <2> DEFINE r == FirstOf(Unreconciled)
  <2>1. r \in Run /\ r \in Unreconciled
    <3>1. Unreconciled \in SUBSET Run
      BY DEF Unreconciled, InState
    <3> QED  BY <1>4, <3>1, FirstOfIsIn
  <2>2. \/ /\ Overdue(r) /\ FailQueuedRun(r) /\ sched' = RemoveQueued(sched, r)
           /\ pending' = [pending EXCEPT ![r] = 0] /\ UNCHANGED <<loop, drain>>
        \/ /\ ~Overdue(r) /\ UNCHANGED <<status, updatedAt, pending>>
           /\ CanEnqueue(sched, r) => /\ sched' = Enqueue(sched, r, updatedAt[r])
                                      /\ UNCHANGED <<loop, drain>>
           /\ ~CanEnqueue(sched, r) => EndPass(FALSE) /\ UNCHANGED sched
    BY <1>4 DEF Reconcile
  <2> HIDE DEF r
  <2>3. CASE Overdue(r)
    <3>1. /\ FailQueuedRun(r) /\ sched' = RemoveQueued(sched, r)
          /\ pending' = [pending EXCEPT ![r] = 0] /\ UNCHANGED <<loop, drain>>
      BY <2>2, <2>3
    <3>2. UNCHANGED <<status, updatedAt>> \/ \E to \in {"INTERRUPTED", "FAILED"} : Update(r, to)
      BY <3>1 DEF FailQueuedRun
    <3>3. /\ QueueInv' /\ \A q \in Run : RunInv(q)'
          /\ sched' \in Scheduler /\ sched'.active = sched.active
          /\ status' \in [Run -> Status] /\ updatedAt' \in [Run -> Stamp]
          /\ pending' \in [Run -> Ckpt]
      BY <1>1, <2>1, <3>1, <3>2, RunIsRemoved
    <3>4. SlotInv'
      BY <1>1, <3>1, <3>3, SlotsKept
    <3>5. TypeOK'
      BY <1>1, <3>1, <3>3 DEF TypeOK, Loop
    <3>6. StartInv'
      BY <1>1, <3>1, StartKept DEF Startup
    <3> QED  BY <3>3, <3>4, <3>5, <3>6 DEF IInv
  <2>4. CASE ~Overdue(r)
    <3>1. status[r] = "QUEUED" /\ r \notin Waiting(sched)
      BY <2>1, <2>4 DEF Unreconciled, InState
    <3>2. CanEnqueue(sched, r) /\ updatedAt[r] \in Stamp /\ updatedAt[r] \in Nat
      BY <1>1, <1>2, <2>1, <3>1, Numbers DEF CanEnqueue, TypeOK
    <3> DEFINE at == updatedAt[r]
               n == Enqueue(sched, r, at)
               e == [run |-> r, at |-> at]
    <3>3. /\ sched' = n /\ UNCHANGED <<loop, drain>>
          /\ UNCHANGED <<status, updatedAt, pending>>
      BY <2>2, <2>4, <3>2
    <3>4. /\ Consistent(n) /\ n.active = sched.active
          /\ Entries(n) = Entries(sched) \cup {e}
          /\ Waiting(n) = Waiting(sched) \cup {r}
      BY <2>1, <3>2, HeldTypes, EnqueueConsistent, EnqueueEffect
    <3>5. e.run = r /\ e.at = updatedAt[r]
      OBVIOUS
    <3> HIDE DEF n, e
    <3>6. SlotInv'
      BY <1>1, <3>3, <3>4, SlotsKept
    <3>7. TypeOK'
      BY <1>1, <3>3, <3>4 DEF TypeOK, Consistent
    <3>8. QueueInv'
      <4>1. ASSUME NEW d, d = e  PROVE EntryOK(d)'
        BY <3>2, <3>3, <3>5, <4>1, Numbers DEF EntryOK
      <4> QED  BY <3>3, <3>4, <4>1, QueueStep
    <3>9. ASSUME NEW q \in Run  PROVE RunInv(q)'
      <4>1. RunInv(q) /\ Up
        BY <1>1 DEF IInv
      <4>2. Held(q)' <=> Held(q) \/ q = r
        BY <3>3, <3>4 DEF Held
      <4> QED  BY <1>1, <3>1, <3>3, <4>1, <4>2 DEF RunInv
    <3>10. StartInv'
      BY <1>1, <3>3, StartKept DEF Startup
    <3> QED  BY <3>6, <3>7, <3>8, <3>9, <3>10 DEF IInv
  <2> QED  BY <2>3, <2>4
<1> QED  BY <1>3, <1>4

\* attemptNext claims a run: its wait ends and its slot begins in one step.
LEMMA ClaimKeeps ==
  ASSUME IInv, ClaimForAttempt
  PROVE  IInv'
<1> DEFINE e == Claimed(sched, Now)
           n == Claim(sched, Now)
           a == [NoAttempt EXCEPT !.pc = "admission", !.at = e.at]
           r == e.run
<1>1. /\ TypeOK /\ SlotInv /\ StartInv /\ loop = "claim" /\ Up
      /\ drain.calls > 0 /\ CanClaim(sched)
      /\ attempt' = [attempt EXCEPT ![r] = a]
      /\ sched' = n
      /\ drain' = [drain EXCEPT !.calls = @ - 1, !.remaining = @ - 1]
      /\ UNCHANGED <<persisted, pending, notReady, interrupting, loop, plans, crashes>>
  BY DEF IInv, ClaimForAttempt, Up
<1>2. /\ Consistent(n)
      /\ e \in Entries(sched) /\ e \in Entry
      /\ r \in Waiting(sched) /\ r \notin sched.active
      /\ n.active = sched.active \cup {r}
      /\ Entries(n) \subseteq Entries(sched)
      /\ Waiting(n) = Waiting(sched) \ {r}
  BY <1>1, HeldTypes, Numbers, ClaimConsistent, ClaimEffect
<1>3. /\ r \in Run /\ e.at \in Stamp
      /\ status[r] = "QUEUED" => e.at =< updatedAt[r]
  <2>1. EntryOK(e) /\ e.at \in Nat /\ e.run \in Run
    BY <1>2 DEF IInv, QueueInv, Entry
  <2> QED  BY <2>1, Numbers DEF EntryOK
<1>4. /\ a \in Attempt /\ a.pc = "admission" /\ a.at = e.at /\ ~a.told /\ a.mode = 0
  BY <1>3, Numbers DEF NoAttempt, Attempt
<1> HIDE DEF a, n, r, e
<1>5. /\ attempt \in [Run -> Attempt] /\ attempt' \in [Run -> Attempt] /\ attempt'[r] = a
      /\ \A q \in Run \ {r} : attempt'[q] = attempt[q]
  BY <1>1, <1>3, <1>4 DEF TypeOK
<1>6. /\ drain' \in DrainState /\ drain'.active = drain.active
      /\ drain'.calls =< drain'.remaining
  <2>1. /\ drain \in DrainState /\ drain.calls =< drain.remaining /\ Cardinality(Run) \in Nat
        /\ drain.calls \in 0..Cardinality(Run) /\ drain.remaining \in 0..Cardinality(Run)
    BY <1>1, Numbers DEF TypeOK, DrainState, SlotInv
  <2>2. /\ drain.calls - 1 \in 0..Cardinality(Run) /\ drain.remaining - 1 \in 0..Cardinality(Run)
        /\ drain.calls - 1 =< drain.remaining - 1
    BY <1>1, <2>1
  <2>3. /\ drain'.calls = drain.calls - 1 /\ drain'.remaining = drain.remaining - 1
        /\ drain'.active = drain.active
    BY <1>1, <2>1 DEF DrainState
  <2>4. drain' \in DrainState
    BY <1>1, <2>1, <2>2 DEF DrainState
  <2> QED  BY <2>2, <2>3, <2>4
<1>7. SlotInv'
  <2>1. InFlight' = InFlight \cup {r}
    BY <1>3, <1>4, <1>5 DEF InFlight
  <2> QED  BY <1>1, <1>2, <1>6, <2>1 DEF SlotInv, Startup, Pass
<1>8. TypeOK'
  BY <1>1, <1>2, <1>5, <1>6 DEF TypeOK, Consistent, persisted
<1>9. QueueInv'
  BY <1>1, <1>2, QueueStep DEF persisted
<1>10. ASSUME NEW q \in Run  PROVE RunInv(q)'
  <2>1. /\ RunInv(q) /\ (Held(q)' <=> Held(q))
        /\ UNCHANGED <<status, updatedAt, ckpt, queuedFor, pending>>
    BY <1>1, <1>2 DEF IInv, Held, persisted
  <2>2. CASE q = r
    <3>1. status[r] # "RUNNING"
      BY <1>1, <1>2, <1>3, <2>1, <2>2, HeldTypes DEF RunInv
    <3> QED  BY <1>3, <1>4, <1>5, <2>1, <2>2, <3>1 DEF RunInv
  <2>3. CASE q # r
    BY <1>1, <1>5, <2>1, <2>3, RunKept
  <2> QED  BY <2>2, <2>3
<1>11. StartInv'
  BY <1>1, StartKept DEF Startup
<1> QED  BY <1>7, <1>8, <1>9, <1>10, <1>11 DEF IInv

-----------------------------------------------------------------------------
(* Crash, startup and time *)

\* Only the store survives.
LEMMA CrashKeeps ==
  ASSUME IInv, Crash
  PROVE  IInv'
<1>1. /\ TypeOK /\ crashes < MaxCrashes /\ crashes' = crashes + 1
      /\ sched' = EmptyScheduler /\ pending' = [r \in Run |-> 0]
      /\ notReady' = [r \in Run |-> 0] /\ attempt' = [r \in Run |-> NoAttempt]
      /\ interrupting' = {} /\ plans' = {} /\ drain' = IdleDrain /\ loop' = "restore"
      /\ UNCHANGED <<status, ckpt, updatedAt, queuedFor>>
  BY DEF IInv, Crash, persisted
<1>2. Consistent(sched') /\ sched' \in Scheduler /\ sched'.active = {}
  BY <1>1, EmptyConsistent DEF EmptyScheduler, Consistent
<1>3. Entries(sched') = {} /\ Waiting(sched') = {}
  <2>1. \A t \in Tenant : sched'.queue[t] = <<>>
    BY <1>1 DEF EmptyScheduler
  <2>2. DOMAIN <<>> = {}
    OBVIOUS
  <2> QED  BY <2>1, <2>2 DEF Entries, Elems, Waiting, WaitingOf
<1>4. NoAttempt \in Attempt /\ NoAttempt.pc = "none" /\ NoAttempt.at = 0
      /\ NoAttempt.mode = 0 /\ ~NoAttempt.told
  BY Numbers DEF NoAttempt, Attempt
<1>5. IdleDrain \in DrainState /\ IdleDrain.calls = 0 /\ IdleDrain.remaining = 0
      /\ ~IdleDrain.active
  BY Numbers DEF IdleDrain, DrainState
<1>6. crashes' \in 0..MaxCrashes /\ 0 \in 0..MaxRetries
  BY <1>1, BoundAssumption DEF TypeOK
<1>7. TypeOK'
  BY <1>1, <1>2, <1>4, <1>5, <1>6, Numbers DEF TypeOK, Loop
<1>8. QueueInv'
  BY <1>2, <1>3 DEF QueueInv
<1>9. SlotInv'
  <2>1. InFlight' = {}
    BY <1>1, <1>4 DEF InFlight
  <2> QED  BY <1>1, <1>2, <1>5, <2>1 DEF SlotInv, Startup, Pass
<1>10. ASSUME NEW q \in Run  PROVE RunInv(q)'
  <2>1. attempt'[q] = NoAttempt /\ pending'[q] = 0 /\ ~Held(q)' /\ ~Up'
    BY <1>1, <1>2, <1>3 DEF Held, Up
  <2>2. 0 =< updatedAt'[q]
    BY <1>1, Numbers DEF TypeOK
  <2> QED  BY <1>4, <2>1, <2>2 DEF RunInv
<1>11. StartInv'
  BY <1>1, <1>3 DEF StartInv
<1> QED  BY <1>7, <1>8, <1>9, <1>10, <1>11 DEF IInv

\* A run comes back to its queue at startup, with a resume input of its own.
LEMMA StartupEnqueues ==
  ASSUME IInv, loop \in {"restore", "recover"}, NEW r \in Run, r \notin Waiting(sched),
         NEW at \in Stamp, sched' = Enqueue(sched, r, at), at =< updatedAt'[r],
         status' \in [Run -> Status], updatedAt' \in [Run -> Stamp],
         queuedFor' \in [Run -> Ckpt], pending' \in [Run -> Ckpt],
         \A q \in Run \ {r} : /\ status'[q] = status[q] /\ updatedAt'[q] = updatedAt[q]
                             /\ queuedFor'[q] = queuedFor[q] /\ pending'[q] = pending[q],
         status'[r] = "QUEUED",
         \/ updatedAt'[r] = Now
         \/ status[r] = "QUEUED" /\ updatedAt'[r] = updatedAt[r],
         pending'[r] # 0 => pending'[r] = queuedFor'[r] /\ pending'[r] = ckpt[r],
         UNCHANGED <<ckpt, notReady, attempt, interrupting, loop, drain, crashes>>,
         plans' = plans \ {r}
  PROVE  IInv'
<1>1. /\ TypeOK /\ SlotInv /\ StartInv /\ ~Up
  BY DEF IInv, Up
<1>2. /\ InFlight' = InFlight /\ InFlight = {} /\ sched.active = {}
  BY <1>1 DEF InFlight, SlotInv, Startup
<1> DEFINE n == Enqueue(sched, r, at)
           e == [run |-> r, at |-> at]
<1>3. /\ Consistent(n) /\ n.active = sched.active
      /\ Entries(n) = Entries(sched) \cup {e}
      /\ Waiting(n) = Waiting(sched) \cup {r}
  <2>1. at \in Nat /\ CanEnqueue(sched, r) /\ Consistent(sched)
    BY <1>2, HeldTypes, Numbers DEF CanEnqueue
  <2> QED  BY <2>1, EnqueueConsistent, EnqueueEffect
<1>4. e.run = r /\ e.at = at
  OBVIOUS
<1> HIDE DEF n, e
<1>5. sched' = n
  BY DEF n
<1>6. SlotInv'
  BY <1>1, <1>3, <1>5, SlotsKept
<1>7. TypeOK'
  BY <1>1, <1>3, <1>5 DEF TypeOK, Consistent
<1>8. QueueInv'
  <2>1. ASSUME NEW d, d = e  PROVE EntryOK(d)'
    BY <1>4, <2>1, Numbers DEF EntryOK
  <2> QED  BY <1>3, <1>5, <2>1, QueueStep
<1>9. ASSUME NEW q \in Run  PROVE RunInv(q)'
  <2>1. RunInv(q) /\ ~Up'
    BY <1>1 DEF IInv, Up
  <2>2. Held(q)' <=> Held(q) \/ q = r
    BY <1>3, <1>5 DEF Held
  <2>3. attempt[q].pc = "none"
    BY <1>2 DEF InFlight
  <2>4. CASE q = r
    <3>1. NoAttempt.pc = "none" /\ attempt[r].at \in Stamp /\ ckpt[r] \in Nat
      BY <1>1, Numbers DEF NoAttempt, TypeOK, Attempt
    <3>2. attempt[r].at =< updatedAt'[r]
      <4>1. CASE updatedAt'[r] = Now
        BY <3>1, <4>1, Numbers
      <4>2. CASE status[r] = "QUEUED" /\ updatedAt'[r] = updatedAt[r]
        BY <2>1, <2>4, <4>2 DEF RunInv
      <4> QED  BY <4>1, <4>2
    <3> QED  BY <2>1, <2>2, <2>3, <2>4, <3>1, <3>2 DEF RunInv
  <2>5. CASE q # r
    BY <2>1, <2>2, <2>5, RunKept
  <2> QED  BY <2>4, <2>5
<1>10. StartInv'
  <2>1. Waiting(sched) \subseteq InState({"QUEUED"}) => Waiting(sched') \subseteq InState({"QUEUED"})'
    BY <1>3, <1>5, HeldTypes DEF InState
  <2>2. plans' \subseteq InState({"INTERRUPTED"})'
    BY <1>1, <1>7 DEF StartInv, InState, TypeOK
  <2>3. InState(Executing) = {} => InState(Executing)' = {}
    BY DEF InState, Executing
  <2> QED  BY <1>1, <2>1, <2>2, <2>3 DEF StartInv
<1> QED  BY <1>6, <1>7, <1>8, <1>9, <1>10 DEF IInv

\* The startup has more to do, and the queues stay as they are.
LEMMA StartupMovesOn ==
  ASSUME IInv,
         \/ loop = "restore" /\ loop' \in {"scan", "failed"} /\ plans = {}
         \/ loop = "scan" /\ loop' = "recover" /\ InState(Executing) = {},
         UNCHANGED <<status, ckpt, updatedAt, queuedFor, sched, pending, notReady, attempt,
                     interrupting, plans, drain, crashes>>
  PROVE  IInv'
<1>1. /\ TypeOK /\ SlotInv /\ StartInv
  BY DEF IInv
<1>2. InFlight' = InFlight /\ InFlight = {} /\ ~drain.active
  BY <1>1 DEF InFlight, SlotInv, Startup
<1>3. SlotInv'
  BY <1>1, <1>2 DEF SlotInv, Startup, Pass
<1>4. TypeOK'
  BY <1>1 DEF TypeOK, Loop, Startup
<1>5. QueueInv'
  BY HeldTypes, QueueStep
<1>6. ASSUME NEW q \in Run  PROVE RunInv(q)'
  <2>1. RunInv(q) /\ (Held(q)' <=> Held(q)) /\ ~Up'
    BY DEF IInv, Held, Up, Startup
  <2> QED  BY <2>1 DEF RunInv
<1>7. StartInv'
  BY <1>1 DEF StartInv, InState
<1> QED  BY <1>3, <1>4, <1>5, <1>6, <1>7 DEF IInv

LEMMA RestoreQueuedKeeps ==
  ASSUME IInv, RestoreQueued
  PROVE  IInv'
<1>1. /\ TypeOK /\ StartInv /\ loop = "restore" /\ plans = {}
      /\ UNCHANGED <<status, ckpt, updatedAt, queuedFor, notReady, attempt, interrupting, plans,
                     drain, crashes>>
  BY DEF IInv, StartInv, RestoreQueued, persisted
<1>2. CASE ToRestore = {}
  <2>1. loop' = "scan" /\ UNCHANGED <<sched, pending>>
    BY <1>2 DEF RestoreQueued
  <2> QED  BY <1>1, <2>1, StartupMovesOn DEF Startup
<1>3. CASE ToRestore # {}
  <2> DEFINE r == FirstOf(ToRestore)
  <2>1. r \in Run /\ status[r] = "QUEUED" /\ r \notin Waiting(sched)
    <3>1. ToRestore \in SUBSET Run
      BY DEF ToRestore, InState
    <3>2. r \in ToRestore
      BY <1>3, <3>1, FirstOfIsIn
    <3> QED  BY <3>2 DEF ToRestore, InState
  <2>2. \/ /\ queuedFor[r] \in {0, ckpt[r]}
           /\ sched' = Enqueue(sched, r, updatedAt[r])
           /\ pending' = [pending EXCEPT ![r] = queuedFor[r]]
           /\ loop' = loop
        \/ loop' = "failed" /\ UNCHANGED <<sched, pending>>
    BY <1>3 DEF RestoreQueued
  <2> HIDE DEF r
  <2>3. CASE loop' = "failed" /\ UNCHANGED <<sched, pending>>
    <3> QED  BY <1>1, <2>3, StartupMovesOn DEF Startup
  <2>4. CASE /\ queuedFor[r] \in {0, ckpt[r]}
             /\ sched' = Enqueue(sched, r, updatedAt[r])
             /\ pending' = [pending EXCEPT ![r] = queuedFor[r]]
             /\ loop' = loop
    <3>1. /\ pending' \in [Run -> Ckpt] /\ pending'[r] = queuedFor[r]
          /\ \A q \in Run \ {r} : pending'[q] = pending[q]
      BY <1>1, <2>1, <2>4 DEF TypeOK
    <3>2. PICK at : at = updatedAt[r]
      OBVIOUS
    <3>3. at \in Stamp /\ at =< updatedAt'[r]
      BY <1>1, <2>1, <3>2, Numbers DEF TypeOK
    <3>4. /\ status' \in [Run -> Status] /\ updatedAt' \in [Run -> Stamp]
          /\ queuedFor' \in [Run -> Ckpt] /\ plans' = plans \ {r}
      BY <1>1 DEF TypeOK
    <3> QED  BY <1>1, <2>1, <2>4, <3>1, <3>2, <3>3, <3>4, StartupEnqueues
  <2> QED  BY <2>2, <2>3, <2>4
<1> QED  BY <1>2, <1>3

LEMMA ExecutePlanKeeps ==
  ASSUME IInv, ExecutePlan
  PROVE  IInv'
<1> DEFINE r == FirstOf(plans)
<1>1. /\ TypeOK /\ StartInv /\ SlotInv /\ loop = "recover" /\ plans # {}
      /\ plans' = plans \ {r}
      /\ UNCHANGED <<ckpt, notReady, attempt, interrupting, loop, drain, crashes>>
      /\ \/ UNCHANGED <<status, updatedAt, queuedFor, sched, pending>>
         \/ /\ QueueResume(r)
            /\ pending' = [pending EXCEPT ![r] = ckpt[r]]
            /\ sched' = Enqueue(sched, r, Now)
  BY DEF IInv, ExecutePlan
<1>2. r \in Run /\ r \in plans /\ r \notin Waiting(sched)
  <2>1. plans \in SUBSET Run
    BY <1>1 DEF TypeOK
  <2>2. r \in plans
    BY <1>1, <2>1, FirstOfIsIn
  <2> QED  BY <1>1, <2>1, <2>2 DEF StartInv, InState
<1> HIDE DEF r
<1>3. CASE UNCHANGED <<status, updatedAt, queuedFor, sched, pending>>
  <2>1. TypeOK'
    BY <1>1, <1>3 DEF TypeOK
  <2>2. QueueInv'
    BY <1>3, HeldTypes, QueueStep
  <2>3. SlotInv'
    BY <1>1, <1>3, SlotsKept
  <2>4. ASSUME NEW q \in Run  PROVE RunInv(q)'
    BY <1>1, <1>3 DEF IInv, RunInv, Held, Up
  <2>5. StartInv'
    BY <1>1, <1>3 DEF StartInv, InState
  <2> QED  BY <2>1, <2>2, <2>3, <2>4, <2>5 DEF IInv
<1>4. CASE /\ QueueResume(r)
           /\ pending' = [pending EXCEPT ![r] = ckpt[r]]
           /\ sched' = Enqueue(sched, r, Now)
  <2>1. /\ status' \in [Run -> Status] /\ updatedAt' \in [Run -> Stamp]
        /\ queuedFor' \in [Run -> Ckpt] /\ ckpt[r] \in Ckpt
        /\ status'[r] = "QUEUED" /\ updatedAt'[r] = Now /\ queuedFor'[r] = ckpt[r]
        /\ \A q \in Run \ {r} : /\ status'[q] = status[q] /\ updatedAt'[q] = updatedAt[q]
                                /\ queuedFor'[q] = queuedFor[q]
    BY <1>1, <1>2, <1>4, QueueResumeEffect
  <2>2. /\ pending' \in [Run -> Ckpt] /\ pending'[r] = ckpt[r]
        /\ \A q \in Run \ {r} : pending'[q] = pending[q]
    BY <1>1, <1>2, <1>4, <2>1 DEF TypeOK
  <2>3. Now \in Stamp /\ Now =< updatedAt'[r]
    BY <2>1, Numbers
  <2> QED  BY <1>1, <1>2, <1>4, <2>1, <2>2, <2>3, StartupEnqueues
<1> QED  BY <1>1, <1>3, <1>4

LEMMA ScanActiveKeeps ==
  ASSUME IInv, ScanActive
  PROVE  IInv'
<1>1. /\ TypeOK /\ StartInv /\ SlotInv /\ loop = "scan"
      /\ UNCHANGED <<ckpt, queuedFor, sched, pending, notReady, attempt, interrupting, drain, crashes>>
  BY DEF IInv, ScanActive
<1>2. CASE InState(Executing) = {}
  <2>1. loop' = "recover" /\ UNCHANGED <<status, updatedAt, plans>>
    BY <1>2 DEF ScanActive
  <2> QED  BY <1>1, <1>2, <2>1, StartupMovesOn DEF Startup
<1>3. CASE InState(Executing) # {}
  <2> DEFINE r == FirstOf(InState(Executing))
  <2>1. r \in Run /\ status[r] \in Executing
    <3>1. InState(Executing) \in SUBSET Run
      BY DEF InState
    <3>2. r \in InState(Executing)
      BY <1>3, <3>1, FirstOfIsIn
    <3> QED  BY <3>2 DEF InState
  <2>2. Update(r, "INTERRUPTED") /\ plans' = plans \cup {r} /\ loop' = loop
    BY <1>3 DEF ScanActive
  <2> HIDE DEF r
  <2>3. /\ status' \in [Run -> Status] /\ updatedAt' \in [Run -> Stamp]
        /\ status'[r] = "INTERRUPTED"
        /\ \A q \in Run \ {r} : status'[q] = status[q] /\ updatedAt'[q] = updatedAt[q]
    BY <1>1, <2>1, <2>2, UpdateEffect DEF Status
  <2>4. TypeOK'
    BY <1>1, <2>1, <2>2, <2>3 DEF TypeOK
  <2>5. QueueInv'
    BY <1>1, <2>3, HeldTypes, QueueStep
  <2>6. SlotInv'
    BY <1>1, <2>2, SlotsKept
  <2>7. ASSUME NEW q \in Run  PROVE RunInv(q)'
    BY <1>1, <2>2, <2>3 DEF IInv, RunInv, Held, Up
  <2>8. StartInv'
    <3>1. r \notin Waiting(sched)
      BY <1>1, <2>1 DEF StartInv, InState, Executing
    <3> QED  BY <1>1, <2>1, <2>2, <2>3, <3>1 DEF StartInv, InState, TypeOK
  <2> QED  BY <2>4, <2>5, <2>6, <2>7, <2>8 DEF IInv
<1> QED  BY <1>2, <1>3

LEMMA OlderNumbers ==
  /\ \A n \in Stamp : Older(n) \in Stamp
  /\ \A m, n \in Stamp : m =< n => Older(m) =< Older(n)
BY BoundAssumption DEF Stamp, Now, Older

\* Time passes for all stamps alike, so their order stays.
LEMMA TickKeeps ==
  ASSUME IInv, Tick
  PROVE  IInv'
<1>1. /\ TypeOK /\ StartInv /\ SlotInv /\ loop = "free"
      /\ updatedAt' = [r \in Run |-> Older(updatedAt[r])]
      /\ sched' = Aged(sched)
      /\ attempt' = [r \in Run |-> [attempt[r] EXCEPT !.at = Older(@)]]
      /\ UNCHANGED <<status, ckpt, queuedFor, pending, notReady, interrupting, plans, loop, drain,
                     crashes>>
  BY DEF IInv, Tick, Idle, Aged
<1>2. /\ Consistent(sched') /\ sched'.active = sched.active /\ Waiting(sched') = Waiting(sched)
      /\ \A e \in Entries(sched') : \E d \in Entries(sched) : e.run = d.run /\ e.at = Older(d.at)
  BY <1>1, HeldTypes, AgedEffect
<1>3. /\ attempt \in [Run -> Attempt] /\ updatedAt \in [Run -> Stamp]
  BY <1>1 DEF TypeOK
<1>4. ASSUME NEW q \in Run
      PROVE  /\ attempt'[q] \in Attempt /\ attempt'[q].at = Older(attempt[q].at)
             /\ attempt'[q].pc = attempt[q].pc /\ attempt'[q].told = attempt[q].told
             /\ attempt'[q].mode = attempt[q].mode
             /\ attempt[q].at \in Stamp
             /\ updatedAt'[q] \in Stamp /\ updatedAt'[q] = Older(updatedAt[q])
  <2>1. attempt'[q] = [attempt[q] EXCEPT !.at = Older(@)] /\ attempt[q] \in Attempt
    BY <1>1, <1>3
  <2>2. attempt[q].at \in Stamp /\ Older(attempt[q].at) \in Stamp
    BY <2>1, OlderNumbers DEF Attempt
  <2>3. attempt'[q] \in Attempt
    BY <2>1, <2>2 DEF Attempt
  <2>4. /\ attempt'[q].at = Older(attempt[q].at)
        /\ attempt'[q].pc = attempt[q].pc /\ attempt'[q].told = attempt[q].told
        /\ attempt'[q].mode = attempt[q].mode
    BY <2>1 DEF Attempt
  <2> QED  BY <1>1, <1>3, <2>2, <2>3, <2>4, OlderNumbers
<1>5. attempt' \in [Run -> Attempt] /\ updatedAt' \in [Run -> Stamp]
  BY <1>1, <1>4
<1>6. TypeOK'
  BY <1>1, <1>2, <1>5 DEF TypeOK, Consistent
<1>7. SlotInv'
  BY <1>1, <1>2, <1>4, SlotsKept
<1>8. QueueInv'
  <2>1. ASSUME NEW e \in Entries(sched')  PROVE EntryOK(e)'
    <3>1. PICK d \in Entries(sched) : e.run = d.run /\ e.at = Older(d.at)
      BY <1>2
    <3>2. d \in Entry /\ EntryOK(d)
      BY HeldTypes, EntriesType DEF IInv, QueueInv
    <3>3. d.run \in Run /\ d.at \in Stamp
      BY <3>2, Numbers DEF Entry, EntryOK
    <3>4. updatedAt[d.run] \in Stamp /\ e.at \in Stamp
      BY <1>3, <3>1, <3>3, OlderNumbers
    <3> QED  BY <1>1, <1>4, <3>1, <3>2, <3>3, <3>4, OlderNumbers, Numbers DEF EntryOK
  <2> QED  BY <1>2, <2>1 DEF QueueInv
<1>9. ASSUME NEW q \in Run  PROVE RunInv(q)'
  <2>1. RunInv(q) /\ (Held(q)' <=> Held(q)) /\ (Up' <=> Up)
    BY <1>1, <1>2 DEF IInv, Held, Up
  <2>2. attempt[q].at =< updatedAt[q] => attempt'[q].at =< updatedAt'[q]
    BY <1>3, <1>4, OlderNumbers
  <2> QED  BY <1>1, <1>4, <2>1, <2>2 DEF RunInv
<1>10. StartInv'
  BY <1>1, StartKept DEF Startup
<1> QED  BY <1>6, <1>7, <1>8, <1>9, <1>10 DEF IInv

-----------------------------------------------------------------------------
(* The inductive invariant, and what it implies *)

LEMMA IInvInit == Init => IInv
<1> SUFFICES ASSUME Init  PROVE IInv
  OBVIOUS
<1>1. /\ Consistent(sched) /\ sched \in Scheduler /\ sched.active = {}
      /\ Entries(sched) = {} /\ Waiting(sched) = {}
  <2>1. \A t \in Tenant : sched.queue[t] = <<>>
    BY DEF Init, EmptyScheduler
  <2>2. DOMAIN <<>> = {}
    OBVIOUS
  <2> QED  BY <2>1, <2>2, EmptyConsistent
           DEF Init, EmptyScheduler, Consistent, Entries, Elems, Waiting, WaitingOf
<1>2. /\ NoAttempt \in Attempt /\ NoAttempt.pc = "none" /\ NoAttempt.at = 0
      /\ NoAttempt.mode = 0 /\ ~NoAttempt.told
  BY Numbers DEF NoAttempt, Attempt
<1>3. IdleDrain \in DrainState /\ IdleDrain.calls = 0 /\ IdleDrain.remaining = 0
  BY Numbers DEF IdleDrain, DrainState
<1>4. TypeOK
  <2>1. 0 \in 0..MaxRetries /\ 0 \in 0..MaxCrashes
    BY BoundAssumption
  <2> QED  BY <1>1, <1>2, <1>3, <2>1, Numbers DEF Init, TypeOK, Status, Loop
<1>5. QueueInv
  BY <1>1 DEF QueueInv
<1>6. SlotInv
  <2>1. InFlight = {}
    BY <1>2 DEF Init, InFlight
  <2> QED  BY <1>1, <1>3, <2>1 DEF Init, SlotInv, Startup, Pass
<1>7. \A r \in Run : RunInv(r)
  BY <1>1, <1>2 DEF Init, RunInv, Held
<1>8. StartInv
  BY DEF Init, StartInv
<1> QED  BY <1>4, <1>5, <1>6, <1>7, <1>8 DEF IInv

LEMMA IInvNext == IInv /\ [Next]_vars => IInv'
<1> SUFFICES ASSUME IInv, [Next]_vars  PROVE IInv'
  OBVIOUS
<1>1. CASE Request
  BY <1>1, SubmitKeeps, ResumeKeeps, InterruptKeeps DEF Request
<1>2. CASE PumpTick
  BY <1>2, PumpKeeps
<1>3. CASE Stretch
  BY <1>3, PumpKeeps, RoundsKeep, EnforceQueueTtlKeeps, ReconcileKeeps, ClaimKeeps,
     RestoreQueuedKeeps, ScanActiveKeeps, ExecutePlanKeeps DEF Stretch
<1>4. ASSUME NEW r \in Run, AttemptStep(r) \/ RuntimeEvent(r) \/ InterruptReturns(r)
      PROVE  IInv'
  BY <1>4, AdmissionDefersKeeps, AdmissionStartsKeeps, BeforeKeeps, AttemptEndsKeeps, EventKeeps
     DEF AttemptStep, RuntimeEvent
<1>5. CASE Crash
  BY <1>5, CrashKeeps
<1>6. CASE Tick
  BY <1>6, TickKeeps
<1>7. CASE UNCHANGED vars
  BY <1>7 DEF vars, persisted, memory, IInv, TypeOK, QueueInv, EntryOK, SlotInv, InFlight,
              RunInv, Held, Up, StartInv, InState
<1> QED  BY <1>1, <1>2, <1>3, <1>4, <1>5, <1>6, <1>7 DEF Next

\* The inductive invariant holds throughout, crashes and restarts included.
THEOREM AlwaysInOrder == Spec => []IInv
BY IInvInit, IInvNext, PTL DEF Spec

\* TypeOK for every value of the constants: the counters of a drain and of the
\* retries stay in range, and a time stamp never lies in the future.
THEOREM TypeCorrect == Spec => []TypeOK
<1>1. IInv => TypeOK
  BY DEF IInv
<1> QED  BY <1>1, AlwaysInOrder, PTL

\* SlotsAreAccountedFor: on every path of attemptNext the slot is given back,
\* and a drain outlives its attempts.
THEOREM SlotsAreNeverLeaked == Spec => []SlotsAreAccountedFor
<1>1. IInv => SlotsAreAccountedFor
  BY DEF IInv, SlotInv, SlotsAreAccountedFor
<1> QED  BY <1>1, AlwaysInOrder, PTL

\* SweepsAreExclusive: enforceQueueTtl and reconcileQueuedRuns meet no attempt
\* in flight.
THEOREM SweepsMeetNoAttempt == Spec => []SweepsAreExclusive
<1>1. IInv => SweepsAreExclusive
  BY DEF IInv, SlotInv, SweepsAreExclusive
<1> QED  BY <1>1, AlwaysInOrder, PTL

\* PendingHasItsRun: a resume input never outlives the wait or the attempt it
\* was given for, and names the checkpoint the run was queued for.
THEOREM ResumeInputsAreNotOrphaned == Spec => []PendingHasItsRun
<1>1. IInv => PendingHasItsRun
  BY DEF IInv, RunInv, Held, PendingHasItsRun
<1> QED  BY <1>1, AlwaysInOrder, PTL

\* RunningHoldsSlot: after the startup no run is RUNNING in the store without
\* an attempt that counts against the limits.
THEOREM RunningRunsCount == Spec => []RunningHoldsSlot
<1>1. ASSUME IInv  PROVE RunningHoldsSlot
  BY <1>1, HeldTypes DEF IInv, RunInv, RunningHoldsSlot, InState
<1> QED  BY <1>1, AlwaysInOrder, PTL

\* WaitIsNeverReset: deferral, retry, reconciliation and restart keep the time
\* a QUEUED run has waited.
THEOREM TheWaitIsKept == Spec => []WaitIsNeverReset
<1>1. ASSUME IInv  PROVE WaitIsNeverReset
  <2> SUFFICES ASSUME NEW r \in InState({"QUEUED"})
               PROVE  /\ \A i \in DOMAIN sched.queue[TenantOf[r]] :
                           sched.queue[TenantOf[r]][i].run = r =>
                             sched.queue[TenantOf[r]][i].at =< updatedAt[r]
                      /\ attempt[r].pc = "admission" => attempt[r].at =< updatedAt[r]
    BY DEF WaitIsNeverReset
  <2>1. r \in Run /\ status[r] = "QUEUED" /\ TenantOf[r] \in Tenant
    BY TenantAssumption DEF InState
  <2>2. \A i \in DOMAIN sched.queue[TenantOf[r]] : EntryOK(sched.queue[TenantOf[r]][i])
    BY <1>1, <2>1 DEF IInv, QueueInv, Entries, Elems
  <2> QED  BY <1>1, <2>1, <2>2 DEF IInv, RunInv, EntryOK
<1> QED  BY <1>1, AlwaysInOrder, PTL

-----------------------------------------------------------------------------
(* RunQueueCoordinator implements RunExecution *)

\* The state of the abstract specification: PhaseOf, the slots, and the slots
\* that have led to an invocation.
Spent == {r \in Run : attempt[r].pc \in {"running", "after"}}

PhaseFor(st) ==
  CASE st = "NONE" -> "new"
    [] st = "QUEUED" -> "queued"
    [] st = "RUNNING" -> "running"
    [] st = "WAITING_TOOL" -> "waiting_tool"
    [] st = "INTERRUPTED" -> "interrupted"
    [] OTHER -> "finished"

LEMMA PhaseIs ==
  /\ PhaseOf = [r \in Run |-> PhaseFor(status[r])]
  /\ PhaseFor("NONE") = "new" /\ PhaseFor("QUEUED") = "queued"
  /\ PhaseFor("RUNNING") = "running" /\ PhaseFor("WAITING_TOOL") = "waiting_tool"
  /\ PhaseFor("INTERRUPTED") = "interrupted"
  /\ PhaseFor("COMPLETED") = "finished" /\ PhaseFor("FAILED") = "finished"
BY DEF PhaseOf, PhaseFor

\* An update of one run's status is a step of its phase.
LEMMA PhaseMoves ==
  ASSUME TypeOK, NEW r \in Run, NEW to \in Status, Update(r, to)
  PROVE  /\ PhaseOf[r] = PhaseFor(status[r])
         /\ PhaseOf' = [PhaseOf EXCEPT ![r] = PhaseFor(to)]
<1>1. /\ status'[r] = to
      /\ \A q \in Run \ {r} : status'[q] = status[q]
  BY UpdateEffect
<1>2. PhaseOf' = [q \in Run |-> PhaseFor(status'[q])]
  BY DEF PhaseOf, PhaseFor
<1> QED  BY <1>1, <1>2, PhaseIs

\* The steps that leave slots alone: a stutter, Queue or Stop.
LEMMA StatusRefines ==
  ASSUME TypeOK, NEW r \in Run, sched'.active = sched.active, Spent' = Spent, crashes' = crashes,
         \/ UNCHANGED <<status, updatedAt>>
         \/ \E to \in {"QUEUED", "INTERRUPTED", "COMPLETED", "FAILED"} : Update(r, to)
  PROVE  [Execution!Next]_(Execution!vars)
<1>1. CASE UNCHANGED <<status, updatedAt>>
  BY <1>1 DEF Execution!vars, Spent, PhaseOf
<1>2. ASSUME NEW to \in {"QUEUED", "INTERRUPTED", "COMPLETED", "FAILED"}, Update(r, to)
      PROVE  Execution!Next
  <2>1. /\ PhaseOf[r] = PhaseFor(status[r])
        /\ PhaseOf' = [PhaseOf EXCEPT ![r] = PhaseFor(to)]
        /\ UNCHANGED <<sched.active, Spent, crashes>>
    BY <1>2, PhaseMoves DEF Status
  <2>2. CASE to = "QUEUED"
    <3>1. PhaseOf[r] \in {"new", "interrupted"} /\ PhaseFor(to) = "queued"
      BY <1>2, <2>1, <2>2, UpdateEffect, PhaseIs DEF Status
    <3>2. Execution!Queue(r)
      BY <2>1, <3>1 DEF Execution!Queue, Spent
    <3> QED  BY <3>2 DEF Execution!Next
  <2>3. CASE to # "QUEUED"
    <3>1. /\ PhaseOf[r] \in {"queued", "running", "waiting_tool", "interrupted"}
          /\ PhaseFor(to) \in {"interrupted", "finished"}
      BY <1>2, <2>1, <2>3, UpdateEffect, PhaseIs DEF Status, Terminal
    <3>2. Execution!Stop(r)
      BY <2>1, <3>1 DEF Execution!Stop, Spent
    <3> QED  BY <3>2 DEF Execution!Next
  <2> QED  BY <2>2, <2>3
<1> QED  BY <1>1, <1>2

\* In a state in order the slots are those of the attempts.
LEMMA SlotsAreAttempts ==
  ASSUME IInv, IInv'
  PROVE  /\ \A q \in Run : q \in sched.active <=> attempt[q].pc # "none"
         /\ \A q \in Run : q \in sched'.active <=> attempt'[q].pc # "none"
         /\ sched.active \subseteq Run /\ sched'.active \subseteq Run
BY DEF IInv, SlotInv, InFlight

\* Settling an attempt is Return.
LEMMA SettleRefines ==
  ASSUME IInv, IInv', NEW r \in Run, attempt[r].pc \notin {"none", "running"}, Idle,
         NEW rejected \in BOOLEAN, Settle(r, rejected), status' = status, crashes' = crashes
  PROVE  Execution!Next
<1>1. attempt' = [attempt EXCEPT ![r] = NoAttempt] /\ attempt \in [Run -> Attempt]
  BY DEF Settle, IInv, TypeOK
<1>2. /\ attempt'[r].pc = "none"
      /\ \A q \in Run \ {r} : attempt'[q] = attempt[q]
  BY <1>1 DEF NoAttempt
<1>3. /\ sched'.active = sched.active \ {r} /\ r \in sched.active
      /\ Spent' = Spent \ {r}
  BY <1>2, SlotsAreAttempts DEF Spent
<1>4. status[r] # "RUNNING" /\ status[r] \in Status
  BY DEF IInv, RunInv, Idle, Up, TypeOK
<1>5. PhaseOf[r] # "running" /\ PhaseOf' = PhaseOf
  BY <1>4, PhaseIs DEF PhaseOf, PhaseFor, Status
<1>6. Execution!Return(r)
  BY <1>3, <1>5 DEF Execution!Return, Spent
<1> QED  BY <1>6 DEF Execution!Next

\* Calling the runtime is Invoke, also when the instance has no slot.
LEMMA StartRefines ==
  ASSUME IInv, IInv', NEW r \in Run, attempt[r].pc \in {"admission", "before"},
         status[r] = "QUEUED", NEW m \in Ckpt, StartRuntime(r, m), crashes' = crashes
  PROVE  Execution!Next
<1>1. attempt \in [Run -> Attempt] /\ TypeOK
  BY DEF IInv, TypeOK
<1>2. PICK to \in {"RUNNING", "INTERRUPTED"} : Update(r, to)
  BY DEF StartRuntime
<1>3. /\ attempt'[r].pc \in {"running", "after"}
      /\ \A q \in Run \ {r} : attempt'[q] = attempt[q]
  <2>1. CASE attempt' = [attempt EXCEPT ![r].pc = "running", ![r].mode = m]
    BY <1>1, <2>1 DEF Attempt
  <2>2. CASE attempt' = [attempt EXCEPT ![r].pc = "after", ![r].mode = m, ![r].outcome = "slot"]
    BY <1>1, <2>2 DEF Attempt
  <2> QED  BY <2>1, <2>2 DEF StartRuntime
<1>4. /\ sched'.active = sched.active /\ r \in sched.active
      /\ r \notin Spent /\ Spent' = Spent \cup {r}
  BY <1>3, SlotsAreAttempts DEF Spent, StartRuntime
<1>5. /\ PhaseOf[r] = "queued"
      /\ PhaseOf' = [PhaseOf EXCEPT ![r] = PhaseFor(to)]
      /\ PhaseFor(to) \in {"running", "interrupted"}
  BY <1>1, <1>2, PhaseMoves, PhaseIs DEF Status
<1>6. Execution!Invoke(r)
  BY <1>4, <1>5 DEF Execution!Invoke, Spent
<1> QED  BY <1>6 DEF Execution!Next

\* The slots and invocations when no attempt begins or ends.
LEMMA SpentStays ==
  ASSUME IInv, IInv',
         \A q \in Run : attempt'[q].pc = "none" <=> attempt[q].pc = "none",
         \A q \in Run :
           attempt'[q].pc \in {"running", "after"} <=> attempt[q].pc \in {"running", "after"}
  PROVE  sched'.active = sched.active /\ Spent' = Spent
<1>1. ASSUME NEW q \in Run  PROVE q \in sched'.active <=> q \in sched.active
  <2>1. q \in sched.active <=> attempt[q].pc # "none"
    BY SlotsAreAttempts
  <2>2. q \in sched'.active <=> attempt'[q].pc # "none"
    BY SlotsAreAttempts
  <2> QED  BY <2>1, <2>2
<1>2. sched.active \subseteq Run /\ sched'.active \subseteq Run
  BY SlotsAreAttempts
<1>3. sched'.active = sched.active
  BY <1>1, <1>2
<1>4. Spent' = Spent
  BY DEF Spent
<1> QED  BY <1>3, <1>4

\* The instance counts with the same operator.
LEMMA SameCardinality ==
  ASSUME NEW S  PROVE Execution!Cardinality(S) = Cardinality(S)
BY DEF Execution!Cardinality, Cardinality

\* A claim is Grant: the scheduler checked the limits and the conversation.
LEMMA ClaimRefines ==
  ASSUME IInv, ClaimForAttempt
  PROVE  Execution!Next
<1> DEFINE e == Claimed(sched, Now)
           r == e.run
<1>1. /\ r \in Run /\ r \notin sched.active
      /\ sched'.active = sched.active \cup {r}
      /\ Cardinality(sched.active) < MaxActive
      /\ Cardinality(ActiveOf(sched, TenantOf[r])) < MaxPerTenant
      /\ ~SessionBusy(sched, r)
  BY HeldTypes, Numbers, ClaimEffect DEF ClaimForAttempt, Entry
<1>2. /\ attempt' = [attempt EXCEPT ![r] = [NoAttempt EXCEPT !.pc = "admission", !.at = e.at]]
      /\ attempt \in [Run -> Attempt] /\ UNCHANGED <<status, crashes>>
  BY DEF ClaimForAttempt, IInv, TypeOK, persisted
<1> HIDE DEF r, e
<1>3. /\ attempt'[r].pc = "admission"
      /\ \A q \in Run \ {r} : attempt'[q] = attempt[q]
  BY <1>1, <1>2 DEF NoAttempt
<1>4. attempt[r].pc = "none"
  BY <1>1, HeldTypes
<1>5. Spent' = Spent /\ PhaseOf' = PhaseOf
  BY <1>2, <1>3, <1>4 DEF Spent, PhaseOf
<1>6. {q \in sched.active : TenantOf[q] = TenantOf[r]} = ActiveOf(sched, TenantOf[r])
  BY DEF ActiveOf
<1>7. SessionOf[r] = NoSession \/ (\A q \in sched.active : SessionOf[q] # SessionOf[r])
  BY <1>1 DEF SessionBusy
<1>8. Spent' = Spent /\ UNCHANGED <<PhaseOf, crashes>>
  BY <1>2, <1>5
<1>9. Execution!Grant(r)
  BY <1>1, <1>6, <1>7, <1>8, SameCardinality DEF Execution!Grant, Spent
<1> QED  BY <1>1, <1>9 DEF Execution!Next

\* A tool call begins or ends: Work.
LEMMA ToolRefines ==
  ASSUME IInv, IInv', NEW r \in Run, ToolStarted(r) \/ ToolEnded(r)
  PROVE  [Execution!Next]_(Execution!vars)
<1>1. /\ TypeOK /\ attempt \in [Run -> Attempt] /\ attempt[r].pc = "running"
      /\ attempt' = [attempt EXCEPT ![r].tool = ~attempt[r].tool]
      /\ crashes' = crashes
  BY DEF IInv, TypeOK, ToolStarted, ToolEnded, Running
<1>2. \A q \in Run : attempt'[q].pc = attempt[q].pc
  BY DEF IInv, TypeOK, ToolStarted, ToolEnded, Attempt
<1>3. sched'.active = sched.active /\ Spent' = Spent /\ r \in sched.active
  BY <1>1, <1>2, SpentStays, SlotsAreAttempts
<1>4. CASE UNCHANGED <<status, updatedAt>>
  BY <1>1, <1>3, <1>4, StatusRefines
<1>5. CASE status[r] = "RUNNING" /\ Update(r, "WAITING_TOOL")
  <2>1. /\ PhaseOf[r] = "running"
        /\ PhaseOf' = [PhaseOf EXCEPT ![r] = "waiting_tool"]
    BY <1>1, <1>5, PhaseMoves, PhaseIs DEF Status
  <2>2. Execution!Work(r)
    BY <1>1, <1>3, <2>1 DEF Execution!Work, Spent
  <2> QED  BY <2>2 DEF Execution!Next
<1>6. CASE status[r] = "WAITING_TOOL" /\ Update(r, "RUNNING")
  <2>1. /\ PhaseOf[r] = "waiting_tool"
        /\ PhaseOf' = [PhaseOf EXCEPT ![r] = "running"]
    BY <1>1, <1>6, PhaseMoves, PhaseIs DEF Status
  <2>2. Execution!Work(r)
    BY <1>1, <1>3, <2>1 DEF Execution!Work, Spent
  <2> QED  BY <2>2 DEF Execution!Next
<1> QED  BY <1>4, <1>5, <1>6 DEF ToolStarted, ToolEnded

LEMMA InitRefines == Init => Execution!Init
BY PhaseIs DEF Init, Execution!Init, PhaseOf, PhaseFor, EmptyScheduler, NoAttempt

\* The slots stay: at most one run changes its phase, to one that ends or
\* suspends the run or queues it.
LEMMA MoveRefines ==
  ASSUME IInv, IInv', crashes' = crashes, NEW r \in Run,
         \A q \in Run : attempt'[q].pc = "none" <=> attempt[q].pc = "none",
         \A q \in Run :
           attempt'[q].pc \in {"running", "after"} <=> attempt[q].pc \in {"running", "after"},
         \/ UNCHANGED <<status, updatedAt>>
         \/ \E to \in {"QUEUED", "INTERRUPTED", "COMPLETED", "FAILED"} : Update(r, to)
  PROVE  [Execution!Next]_(Execution!vars)
<1>1. sched'.active = sched.active /\ Spent' = Spent
  BY SpentStays
<1> QED  BY <1>1, StatusRefines DEF IInv

\* Nothing of the abstract state changes.
LEMMA StillRefines ==
  ASSUME IInv, IInv', crashes' = crashes, status' = status,
         \A q \in Run : attempt'[q].pc = "none" <=> attempt[q].pc = "none",
         \A q \in Run :
           attempt'[q].pc \in {"running", "after"} <=> attempt[q].pc \in {"running", "after"}
  PROVE  UNCHANGED Execution!vars
<1>1. sched'.active = sched.active /\ Spent' = Spent
  BY SpentStays
<1>2. PhaseOf' = PhaseOf
  BY DEF PhaseOf
<1> QED  BY <1>1, <1>2 DEF Execution!vars, Spent

LEMMA RequestRefines ==
  ASSUME IInv, IInv', NEW r \in Run, Submit(r) \/ Resume(r) \/ Interrupt(r) \/ InterruptReturns(r)
  PROVE  [Execution!Next]_(Execution!vars)
<1>1. UNCHANGED <<attempt, crashes>>
  BY DEF Submit, Resume, Interrupt, InterruptReturns
<1>2. \/ UNCHANGED <<status, updatedAt>>
      \/ \E to \in {"QUEUED", "INTERRUPTED", "COMPLETED", "FAILED"} : Update(r, to)
  BY DEF Submit, Resume, QueueResume, Interrupt, InterruptReturns
<1> QED  BY <1>1, <1>2, MoveRefines

LEMMA StretchRefines ==
  ASSUME IInv, IInv', Stretch
  PROVE  [Execution!Next]_(Execution!vars)
<1>1. CASE EnforceQueueTtl
  <2> DEFINE r == FirstOf(ExpiredEntries)
  <2>1. UNCHANGED <<attempt, crashes>>
    BY <1>1 DEF EnforceQueueTtl
  <2>2. CASE ExpiredEntries = {}
    <3>1. UNCHANGED status
      BY <1>1, <2>2 DEF EnforceQueueTtl
    <3> QED  BY <2>1, <3>1, StillRefines
  <2>3. CASE ExpiredEntries # {}
    <3>1. r \in Run
      BY <2>3, FirstOfIsIn, HeldTypes DEF ExpiredEntries
    <3>2. UNCHANGED <<status, updatedAt>> \/ Update(r, "FAILED")
      BY <1>1, <2>3 DEF EnforceQueueTtl, FailQueuedRun
    <3> HIDE DEF r
    <3> QED  BY <2>1, <3>1, <3>2, MoveRefines
  <2> QED  BY <2>2, <2>3
<1>2. CASE Reconcile
  <2> DEFINE r == FirstOf(Unreconciled)
  <2>1. UNCHANGED <<attempt, crashes>>
    BY <1>2 DEF Reconcile
  <2>2. CASE Unreconciled = {}
    <3>1. UNCHANGED status
      BY <1>2, <2>2 DEF Reconcile
    <3> QED  BY <2>1, <3>1, StillRefines
  <2>3. CASE Unreconciled # {}
    <3>1. r \in Run
      BY <2>3, FirstOfIsIn DEF Unreconciled, InState
    <3>2. UNCHANGED <<status, updatedAt>> \/ Update(r, "FAILED")
      BY <1>2, <2>3 DEF Reconcile, FailQueuedRun
    <3> HIDE DEF r
    <3> QED  BY <2>1, <3>1, <3>2, MoveRefines
  <2> QED  BY <2>2, <2>3
<1>3. CASE ClaimForAttempt
  BY <1>3, ClaimRefines
<1>4. CASE RoundClaimed \/ RoundSettled \/ RestoreQueued \/ StartPump
  <2>1. UNCHANGED <<status, attempt, crashes>>
    BY <1>4 DEF RoundClaimed, RoundSettled, RestoreQueued, StartPump, persisted
  <2> QED  BY <2>1, StillRefines
<1>5. CASE ScanActive
  <2> DEFINE r == FirstOf(InState(Executing))
  <2>1. UNCHANGED <<attempt, crashes>>
    BY <1>5 DEF ScanActive
  <2>2. CASE InState(Executing) = {}
    <3>1. UNCHANGED status
      BY <1>5, <2>2 DEF ScanActive
    <3> QED  BY <2>1, <3>1, StillRefines
  <2>3. CASE InState(Executing) # {}
    <3>1. r \in Run
      BY <2>3, FirstOfIsIn DEF InState
    <3>2. Update(r, "INTERRUPTED")
      BY <1>5, <2>3 DEF ScanActive
    <3> HIDE DEF r
    <3> QED  BY <2>1, <3>1, <3>2, MoveRefines
  <2> QED  BY <2>2, <2>3
<1>6. CASE ExecutePlan
  <2> DEFINE r == FirstOf(plans)
  <2>1. r \in Run
    BY <1>6, FirstOfIsIn DEF ExecutePlan, IInv, TypeOK
  <2>2. UNCHANGED <<attempt, crashes>>
    BY <1>6 DEF ExecutePlan
  <2>3. UNCHANGED <<status, updatedAt>> \/ Update(r, "QUEUED")
    BY <1>6 DEF ExecutePlan, QueueResume
  <2> HIDE DEF r
  <2> QED  BY <2>1, <2>2, <2>3, MoveRefines
<1> QED  BY <1>1, <1>2, <1>3, <1>4, <1>5, <1>6 DEF Stretch

LEMMA AttemptRefines ==
  ASSUME IInv, IInv', NEW r \in Run, AttemptStep(r)
  PROVE  [Execution!Next]_(Execution!vars)
<1>1. ASSUME NEW throws \in BOOLEAN, AdmissionDefers(r, throws)
      PROVE  Execution!Next
  BY <1>1, SettleRefines DEF AdmissionDefers, persisted
<1>2. CASE AdmissionStarts(r)
  <2>1. attempt[r].pc = "admission" /\ Idle /\ crashes' = crashes
    BY <1>2 DEF AdmissionStarts
  <2>2. CASE (Settle(r, FALSE) \/ Settle(r, TRUE)) /\ UNCHANGED <<status, updatedAt>>
    BY <2>1, <2>2, SettleRefines
  <2>3. CASE /\ UNCHANGED <<status, updatedAt>>
             /\ attempt' = [attempt EXCEPT ![r].pc = "before"]
    <3>1. attempt \in [Run -> Attempt]
      BY DEF IInv, TypeOK
    <3>2. attempt'[r].pc = "before" /\ (\A q \in Run \ {r} : attempt'[q] = attempt[q])
      BY <2>3, <3>1 DEF Attempt
    <3>3. /\ \A q \in Run : attempt'[q].pc = "none" <=> attempt[q].pc = "none"
          /\ \A q \in Run :
               attempt'[q].pc \in {"running", "after"} <=> attempt[q].pc \in {"running", "after"}
      BY <2>1, <3>2
    <3> QED  BY <2>1, <2>3, <3>3, StillRefines
  <2>4. CASE status[r] = "QUEUED" /\ StartRuntime(r, pending[r])
    <3>1. pending[r] \in Ckpt
      BY DEF IInv, TypeOK
    <3> QED  BY <2>1, <2>4, <3>1, StartRefines
  <2> QED  BY <1>2, <2>2, <2>3, <2>4 DEF AdmissionStarts
<1>3. CASE BeforeCaptured(r)
  <2>1. attempt[r].pc = "before" /\ Idle /\ crashes' = crashes
    BY <1>3 DEF BeforeCaptured
  <2>2. CASE status[r] = "QUEUED" /\ StartRuntime(r, 0)
    BY <2>1, <2>2, StartRefines, Numbers
  <2>3. CASE Finish(r, TRUE) /\ UNCHANGED <<status, updatedAt>>
    BY <2>1, <2>3, SettleRefines DEF Finish
  <2> QED  BY <1>3, <2>2, <2>3 DEF BeforeCaptured
<1>4. CASE BeforeFails(r)
  <2>1. Settle(r, TRUE) /\ status' = status /\ crashes' = crashes
    BY <1>4 DEF BeforeFails, Finish, persisted
  <2> QED  BY <1>4, <2>1, SettleRefines DEF BeforeFails
<1>5. CASE AttemptEnds(r)
  <2>1. Settle(r, TRUE) \/ Settle(r, FALSE)
    BY <1>5 DEF AttemptEnds, Finish, SlotRetry
  <2>2. attempt[r].pc = "after" /\ Idle /\ status' = status /\ crashes' = crashes
    BY <1>5 DEF AttemptEnds, persisted
  <2> QED  BY <2>1, <2>2, SettleRefines
<1>6. CASE InvocationReturns(r) \/ InvocationThrows(r)
  <2>1. attempt \in [Run -> Attempt] /\ attempt[r].pc = "running"
    BY <1>6 DEF IInv, TypeOK, InvocationReturns, InvocationThrows, Running
  <2>2. attempt'[r].pc = "after" /\ (\A q \in Run \ {r} : attempt'[q] = attempt[q])
    <3>1. CASE attempt' = [attempt EXCEPT ![r].pc = "after"]
      BY <2>1, <3>1 DEF Attempt
    <3>2. CASE attempt' = [attempt EXCEPT ![r].pc = "after", ![r].outcome = "error"]
      BY <2>1, <3>2 DEF Attempt
    <3> QED  BY <1>6, <3>1, <3>2 DEF InvocationReturns, InvocationThrows
  <2>3. /\ \A q \in Run : attempt'[q].pc = "none" <=> attempt[q].pc = "none"
        /\ \A q \in Run :
             attempt'[q].pc \in {"running", "after"} <=> attempt[q].pc \in {"running", "after"}
    BY <2>1, <2>2
  <2>4. /\ crashes' = crashes
        /\ UNCHANGED <<status, updatedAt>> \/ Update(r, "INTERRUPTED")
    BY <1>6 DEF InvocationReturns, InvocationThrows, persisted
  <2> QED  BY <2>3, <2>4, MoveRefines
<1> QED  BY <1>1, <1>2, <1>3, <1>4, <1>5, <1>6 DEF AttemptStep

LEMMA EventRefines ==
  ASSUME IInv, IInv', NEW r \in Run, RuntimeEvent(r)
  PROVE  [Execution!Next]_(Execution!vars)
<1>1. attempt \in [Run -> Attempt]
  BY DEF IInv, TypeOK
<1>2. ASSUME NEW to \in Terminal \cup {"INTERRUPTED"}, RuntimeReports(r, to)
      PROVE  [Execution!Next]_(Execution!vars)
  <2>1. \A q \in Run : attempt'[q].pc = attempt[q].pc
    BY <1>1, <1>2 DEF RuntimeReports, Attempt
  <2>2. crashes' = crashes /\ (UNCHANGED <<status, updatedAt>> \/ Update(r, to))
    BY <1>2 DEF RuntimeReports, TryUpdate
  <2>3. to \in {"QUEUED", "INTERRUPTED", "COMPLETED", "FAILED"}
    BY DEF Terminal
  <2> QED  BY <2>1, <2>2, <2>3, MoveRefines
<1>3. CASE SandboxFails(r)
  <2>1. UNCHANGED <<attempt, crashes>>
    BY <1>3 DEF SandboxFails, memory
  <2>2. UNCHANGED <<status, updatedAt>> \/ Update(r, "INTERRUPTED")
    BY <1>3 DEF SandboxFails, TryUpdate
  <2> QED  BY <2>1, <2>2, MoveRefines
<1>4. CASE ToolAbandoned(r)
  <2>1. \A q \in Run : attempt'[q].pc = attempt[q].pc
    BY <1>1, <1>4 DEF ToolAbandoned, Attempt
  <2>2. UNCHANGED <<status, crashes>>
    BY <1>4 DEF ToolAbandoned, persisted
  <2> QED  BY <2>1, <2>2, StillRefines
<1> QED  BY <1>2, <1>3, <1>4, ToolRefines DEF RuntimeEvent

\* A crash is Restart: the statuses are persisted, the slots are not.
LEMMA CrashRefines ==
  ASSUME IInv, Crash
  PROVE  Execution!Next
<1>1. status' = status /\ crashes' = crashes + 1 /\ sched'.active = {}
  BY DEF Crash, persisted, EmptyScheduler
<1>2. Spent' = {}
  BY DEF Crash, Spent, NoAttempt
<1>3. PhaseOf' = PhaseOf
  BY <1>1 DEF PhaseOf
<1>4. Execution!Restart
  BY <1>1, <1>2, <1>3 DEF Execution!Restart, Spent
<1> QED  BY <1>4 DEF Execution!Next

LEMMA TickRefines ==
  ASSUME IInv, IInv', Tick
  PROVE  UNCHANGED Execution!vars
<1>1. attempt \in [Run -> Attempt]
  BY DEF IInv, TypeOK
<1>2. \A q \in Run : attempt'[q].pc = attempt[q].pc
  BY <1>1 DEF Tick, Attempt
<1>3. status' = status /\ crashes' = crashes
  BY DEF Tick
<1> QED  BY <1>2, <1>3, StillRefines

LEMMA NextRefines ==
  IInv /\ IInv' /\ [Next]_vars => [Execution!Next]_(Execution!vars)
<1> SUFFICES ASSUME IInv, IInv', [Next]_vars  PROVE [Execution!Next]_(Execution!vars)
  OBVIOUS
<1>1. CASE \E r \in Run : Submit(r) \/ Resume(r) \/ Interrupt(r) \/ InterruptReturns(r)
  BY <1>1, RequestRefines
<1>2. CASE PumpTick
  <2>1. UNCHANGED <<status, attempt, crashes>>
    BY <1>2 DEF PumpTick, persisted
  <2> QED  BY <2>1, StillRefines
<1>3. CASE Stretch
  BY <1>3, StretchRefines
<1>4. CASE \E r \in Run : AttemptStep(r)
  BY <1>4, AttemptRefines
<1>5. CASE \E r \in Run : RuntimeEvent(r)
  BY <1>5, EventRefines
<1>6. CASE Crash
  BY <1>6, CrashRefines
<1>7. CASE Tick
  BY <1>7, TickRefines
<1>8. CASE UNCHANGED vars
  <2>1. UNCHANGED <<status, attempt, crashes>>
    BY <1>8 DEF vars, persisted, memory
  <2> QED  BY <2>1, StillRefines
<1> QED  BY <1>1, <1>2, <1>3, <1>4, <1>5, <1>6, <1>7, <1>8 DEF Next, Request

\* Promise: whatever callbacks, requests, passes and restarts interleave, the
\* coordinator runs a run only in a slot the limits allow, invokes the runtime
\* at most once for that slot, and gives it back only when the run has stopped.
THEOREM ImplementsRunExecution == Spec => Promise
<1>1. []IInv /\ [][Next]_vars => [][Execution!Next]_(Execution!vars)
  BY NextRefines, PTL
<1> QED  BY <1>1, InitRefines, AlwaysInOrder, PTL DEF Spec, Promise, Execution!Spec

=============================================================================
