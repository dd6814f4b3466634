------------------------ MODULE RunQueueCoordinator ------------------------
(***************************************************************************)
(* RunQueueCoordinator (src/src/scheduling/run-queue-coordinator.ts) over  *)
(* the TenantRunScheduler, the RunService that executes what it admits     *)
(* (src/src/runs/run-service.ts) and the runs persisted by the RunStore,   *)
(* with HTTP requests, runtime callbacks and process restarts.             *)
(*                                                                         *)
(* Everything runs in one event loop: a handler is atomic up to its next   *)
(* await, and every await is a place where the other handlers interleave.  *)
(* An attempt is cut at its awaits by "pc".  A synchronous stretch that    *)
(* iterates (the sweep before a pass, the claims of a round, the restore   *)
(* at startup) takes one step per iteration, and "loop" names the stretch: *)
(* while it is not "free" no other handler can run.                        *)
(***************************************************************************)
EXTENDS TenantRunQueues

CONSTANTS
  QueueTtl,    \* options.queueTtlMs, in clock ticks
  MaxRetries,  \* options.maxInstanceNotReadyRetries
  MaxCkpt,     \* bound: checkpoints a run may write
  MaxCrashes   \* bound: process restarts

\* Runs are numbered in the order of their creation, which is the order in
\* which listQueuedRuns and listActiveRuns return them.
ASSUME RunsAreNumbered == Run \subseteq Nat

ASSUME BoundAssumption ==
  /\ QueueTtl \in Nat /\ MaxRetries \in Nat
  /\ MaxCkpt \in Nat /\ MaxCrashes \in Nat

\* Time is only ever compared with the present, against queueTtlMs and
\* agingMs.  So the clock stands at Now and a tick moves every time stamp one
\* unit into the past, no further than 0, a stamp that is over the TTL.
ASSUME AgingAssumption == AgingMs =< QueueTtl + 1

Now == QueueTtl + 1
Stamp == 0..Now

VARIABLES
  \* persisted: agent_runs and the last RUN_QUEUED event of each run
  status,       \* Run -> status, "NONE" before creation
  ckpt,         \* agent_runs.checkpoint_id, 0 when null
  updatedAt,    \* agent_runs.updated_at, kept where it matters: in QUEUED
  queuedFor,    \* checkpoint named by the last RUN_QUEUED event, 0 if none
  \* in memory
  sched,        \* the TenantRunScheduler
  pending,      \* pendingResumeByRunId: checkpoint to resume from, 0 if none
  notReady,     \* instanceNotReadyAttempts
  attempt,      \* the attemptNext call that holds the run, see Attempt
  interrupting, \* runs whose interrupt call awaits the runtime
  plans,        \* recovery plans of the startup not yet executed
  loop,         \* the synchronous stretch in progress, "free" if none
  drain,        \* the single-flight drain, see DrainState
  \* environment
  crashes

persisted == <<status, ckpt, updatedAt, queuedFor>>
memory == <<sched, pending, notReady, attempt, interrupting, plans, loop, drain>>
vars == <<persisted, memory, crashes>>

Status == {"NONE", "QUEUED", "RUNNING", "WAITING_TOOL", "INTERRUPTED", "COMPLETED", "FAILED"}
Executing == {"RUNNING", "WAITING_TOOL"}
Terminal == {"COMPLETED", "FAILED"}
Ckpt == 0..MaxCkpt

\* pc       where the call is: awaiting the admission decision, the snapshot
\*          before the run, the runtime, or the snapshots after it
\* mode     the checkpoint resumed from, 0 for a start from scratch
\* at       enqueuedAt of the claimed queue entry
\* tool     a governed tool call is in flight
\* told     the runtime has reported how the invocation ended
\* outcome  how the runtime call settled: it returned, it threw, or it threw
\*          InstanceSlotUnavailableError
Attempt ==
  [pc : {"none", "admission", "before", "running", "after"},
   mode : Ckpt, at : Stamp, tool : BOOLEAN, told : BOOLEAN,
   outcome : {"done", "error", "slot"}]

NoAttempt ==
  [pc |-> "none", mode |-> 0, at |-> 0, tool |-> FALSE, told |-> FALSE, outcome |-> "done"]

\* active     drainPromise # null
\* requested  drainRequested
\* remaining  remainingAttempts, already lowered by this round's claims
\* calls      attemptNext calls of this round still to make
\* failed     an attempt of this pass was rejected
DrainState ==
  [active : BOOLEAN, requested : BOOLEAN, failed : BOOLEAN,
   remaining : 0..Cardinality(Run), calls : 0..Cardinality(Run)]

IdleDrain ==
  [active |-> FALSE, requested |-> FALSE, failed |-> FALSE, remaining |-> 0, calls |-> 0]

Init ==
  /\ status = [r \in Run |-> "NONE"]
  /\ ckpt = [r \in Run |-> 0]
  /\ updatedAt = [r \in Run |-> 0]
  /\ queuedFor = [r \in Run |-> 0]
  /\ sched = EmptyScheduler
  /\ pending = [r \in Run |-> 0]
  /\ notReady = [r \in Run |-> 0]
  /\ attempt = [r \in Run |-> NoAttempt]
  /\ interrupting = {}
  /\ loop = "free"
  /\ drain = IdleDrain
  /\ plans = {}
  /\ crashes = 0

\* The first of a set of runs in creation order.
FirstOf(R) == CHOOSE r \in R : \A q \in R : r =< q

InState(S) == {r \in Run : status[r] \in S}

\* run-state-machine.ts
AllowedTransitions ==
  [NONE         |-> {"QUEUED"},
   QUEUED       |-> {"RUNNING", "INTERRUPTED", "FAILED"},
   RUNNING      |-> {"WAITING_TOOL", "INTERRUPTED", "FAILED", "COMPLETED"},
   WAITING_TOOL |-> {"RUNNING", "INTERRUPTED", "FAILED"},
   INTERRUPTED  |-> {"QUEUED", "FAILED"},
   COMPLETED    |-> {},
   FAILED       |-> {}]

CanTransition(r, to) == to \in AllowedTransitions[status[r]]

\* RunStore.update: the transition is checked against the stored status.
Update(r, to) ==
  /\ CanTransition(r, to)
  /\ status' = [status EXCEPT ![r] = to]
  /\ updatedAt' = [updatedAt EXCEPT ![r] = IF to = "QUEUED" THEN Now ELSE 0]

\* An update the store may reject, the rejection being caught or harmless.
TryUpdate(r, to) ==
  IF CanTransition(r, to) THEN Update(r, to) ELSE UNCHANGED <<status, updatedAt>>

-----------------------------------------------------------------------------
(* Requests from outside, each one synchronous up to its first await *)

Idle == loop = "free"

\* Mutant of RequestDrain: a call during a pass starts another pass.
RequestDrainAtOnce ==
  drain' = [IdleDrain EXCEPT !.active = TRUE] /\ loop' = "ttl"

\* drain(): one pass at a time; a call during a pass asks for another one.
RequestDrain ==
  IF drain.active
  THEN drain' = [drain EXCEPT !.requested = TRUE] /\ loop' = "free"
  ELSE drain' = [IdleDrain EXCEPT !.active = TRUE] /\ loop' = "ttl"

\* HarnessApplication.submitRun: persist, enqueue, tick the pump.
Submit(r) ==
  /\ Idle
  /\ InState({"NONE"}) # {} /\ r = FirstOf(InState({"NONE"}))
  /\ Update(r, "QUEUED")
  /\ sched' = Enqueue(sched, r, Now)
  /\ RequestDrain
  /\ UNCHANGED <<ckpt, queuedFor, pending, notReady, attempt, interrupting, plans, crashes>>

\* queueResume: an interrupted run goes on from its own checkpoint only.
QueueResume(r) ==
  /\ status[r] = "INTERRUPTED" /\ ckpt[r] # 0
  /\ Update(r, "QUEUED")
  /\ queuedFor' = [queuedFor EXCEPT ![r] = ckpt[r]]

\* HarnessApplication.resumeRun: queueResume commits the return to QUEUED
\* before the scheduler is asked; when it refuses the run, the resume input
\* is dropped again, the caller gets the error and no drain is requested.
Resume(r) ==
  /\ Idle
  /\ QueueResume(r)
  /\ \/ /\ CanEnqueue(sched, r)
        /\ pending' = [pending EXCEPT ![r] = ckpt[r]]
        /\ sched' = Enqueue(sched, r, Now)
        /\ RequestDrain
     \/ /\ ~CanEnqueue(sched, r)
        /\ pending' = [pending EXCEPT ![r] = 0]
        /\ UNCHANGED <<sched, loop, drain>>
  /\ UNCHANGED <<ckpt, notReady, attempt, interrupting, plans, crashes>>

\* Mutant of Interrupt: the resume input is not dropped.
InterruptKeepingInput(r) ==
  /\ Idle
  /\ status[r] # "NONE"
  /\ sched' = RemoveQueued(sched, r)
  /\ IF status[r] \in Executing
     THEN interrupting' = interrupting \cup {r} /\ UNCHANGED <<status, updatedAt>>
     ELSE interrupting' = interrupting /\ TryUpdate(r, "INTERRUPTED")
  /\ UNCHANGED <<ckpt, queuedFor, pending, notReady, attempt, loop, drain, plans, crashes>>

\* RunQueueCoordinator.interrupt and RunService.interrupt up to the await of
\* the runtime.  A run that is waiting is interrupted at once; a terminal one
\* is an error to the caller, an interrupted one is returned as it is.
Interrupt(r) ==
  /\ Idle
  /\ status[r] # "NONE"
  /\ sched' = RemoveQueued(sched, r)
  /\ pending' = [pending EXCEPT ![r] = 0]
  /\ IF status[r] \in Executing
     THEN interrupting' = interrupting \cup {r} /\ UNCHANGED <<status, updatedAt>>
     ELSE interrupting' = interrupting
          /\ IF status[r] = "QUEUED" THEN Update(r, "INTERRUPTED")
             ELSE UNCHANGED <<status, updatedAt>>
  /\ UNCHANGED <<ckpt, queuedFor, notReady, attempt, loop, drain, plans, crashes>>

\* RunService.interrupt after the await: read the run again, and interrupt
\* it unless the runtime's own event has already ended it.
InterruptReturns(r) ==
  /\ Idle
  /\ r \in interrupting
  /\ interrupting' = interrupting \ {r}
  /\ IF status[r] \in Terminal \cup {"INTERRUPTED"} THEN UNCHANGED <<status, updatedAt>>
     ELSE Update(r, "INTERRUPTED")
  /\ UNCHANGED <<ckpt, queuedFor, sched, pending, notReady, attempt, loop, drain, plans, crashes>>

\* The timer of RunQueuePump.
PumpTick ==
  /\ Idle
  /\ RequestDrain
  /\ UNCHANGED <<persisted, sched, pending, notReady, attempt, interrupting, plans, crashes>>

-----------------------------------------------------------------------------
(* The synchronous head of a pass: drainOnce up to its first await *)

\* enforceQueueTtl: entries that have waited longer than the TTL.
ExpiredEntries ==
  {r \in Waiting(sched) : \E i \in DOMAIN sched.queue[TenantOf[r]] :
     /\ sched.queue[TenantOf[r]][i].run = r
     /\ Now - sched.queue[TenantOf[r]][i].at > QueueTtl}

\* A run that is no longer QUEUED is left as it is.
FailQueuedRun(r) ==
  IF status[r] = "QUEUED" THEN Update(r, "FAILED") ELSE UNCHANGED <<status, updatedAt>>

\* The entry goes whether the run was failed or not.
EnforceQueueTtl ==
  /\ loop = "ttl"
  /\ IF ExpiredEntries = {}
     THEN loop' = "reconcile" /\ UNCHANGED <<status, updatedAt, sched, pending>>
     ELSE LET r == FirstOf(ExpiredEntries) IN
          /\ FailQueuedRun(r)
          /\ sched' = RemoveQueued(sched, r)
          /\ pending' = [pending EXCEPT ![r] = 0]
          /\ loop' = "ttl"
  /\ UNCHANGED <<ckpt, queuedFor, notReady, attempt, interrupting, drain, plans, crashes>>

\* reconcileQueuedRuns works on the runs QUEUED in the store: those over the
\* TTL by their updated_at, and those the memory queue does not hold.
Overdue(r) == Now - updatedAt[r] > QueueTtl
Unreconciled == {r \in InState({"QUEUED"}) : Overdue(r) \/ r \notin Waiting(sched)}

\* Mutant of EndPass: a pass that failed never clears drainPromise.
EndPassUnlessFailed(again) ==
  IF again \/ drain.failed THEN drain' = [drain EXCEPT !.requested = FALSE] /\ loop' = IF again THEN "ttl" ELSE "free"
  ELSE drain' = IdleDrain /\ loop' = "free"

EndPass(again) ==
  IF again THEN drain' = [IdleDrain EXCEPT !.active = TRUE] /\ loop' = "ttl"
  ELSE drain' = [IdleDrain EXCEPT !.requested = drain.requested] /\ loop' = "free"

\* Mutant of Reconcile: the store is not consulted.
ReconcileNothing ==
  /\ loop = "reconcile"
  /\ LET n == Cardinality(Waiting(sched)) IN
       drain' = [drain EXCEPT !.remaining = n, !.calls = n]
  /\ loop' = "claim"
  /\ UNCHANGED <<persisted, sched, pending, notReady, attempt, interrupting, plans, crashes>>

\* The orphans come back as plain entries, without a resume input.  enqueue
\* throws for a run that holds a slot, which ends the pass.
Reconcile ==
  /\ loop = "reconcile"
  /\ IF Unreconciled = {}
     THEN LET n == Cardinality(Waiting(sched)) IN
          /\ drain' = [drain EXCEPT !.remaining = n, !.calls = n]
          /\ loop' = "claim"
          /\ UNCHANGED <<status, updatedAt, sched, pending>>
     ELSE LET r == FirstOf(Unreconciled) IN
          IF Overdue(r)
          THEN /\ FailQueuedRun(r)
               /\ sched' = RemoveQueued(sched, r)
               /\ pending' = [pending EXCEPT ![r] = 0]
               /\ UNCHANGED <<loop, drain>>
          ELSE /\ UNCHANGED <<status, updatedAt, pending>>
               /\ IF CanEnqueue(sched, r)
                  THEN sched' = Enqueue(sched, r, updatedAt[r]) /\ UNCHANGED <<loop, drain>>
                  ELSE EndPass(FALSE) /\ UNCHANGED sched
  /\ UNCHANGED <<ckpt, queuedFor, notReady, attempt, interrupting, plans, crashes>>

\* One attemptNext of the round up to its await of the admission decision.
ClaimForAttempt ==
  /\ loop = "claim" /\ drain.calls > 0 /\ CanClaim(sched)
  /\ LET e == Claimed(sched, Now) IN
       attempt' = [attempt EXCEPT ![e.run] = [NoAttempt EXCEPT !.pc = "admission", !.at = e.at]]
  /\ sched' = Claim(sched, Now)
  /\ drain' = [drain EXCEPT !.calls = @ - 1, !.remaining = @ - 1]
  /\ UNCHANGED <<persisted, pending, notReady, interrupting, loop, plans, crashes>>

InFlight == {r \in Run : attempt[r].pc # "none"}

\* The other calls of the round find nothing.  A round without any claim ends
\* the pass, otherwise Promise.allSettled waits for every attempt.
RoundClaimed ==
  /\ loop = "claim" /\ (drain.calls = 0 \/ ~CanClaim(sched))
  /\ IF InFlight = {} THEN EndPass(drain.requested /\ ~drain.failed)
     ELSE drain' = [drain EXCEPT !.calls = 0] /\ loop' = "free"
  /\ UNCHANGED <<persisted, sched, pending, notReady, attempt, interrupting, plans, crashes>>

\* All attempts of the round have settled: another round while runs of this
\* pass are left, otherwise the end of the pass.  A rejected attempt makes
\* the pass fail, and the drain loop ends without consuming a request.
RoundSettled ==
  /\ loop = "settled"
  /\ IF drain.remaining > 0
     THEN drain' = [drain EXCEPT !.calls = drain.remaining] /\ loop' = "claim"
     ELSE EndPass(drain.requested /\ ~drain.failed)
  /\ UNCHANGED <<persisted, sched, pending, notReady, attempt, interrupting, plans, crashes>>

-----------------------------------------------------------------------------
(* An attempt after its claim.  Every action below is one continuation, from  *)
(* an await to the next.                                                      *)

\* The attempt's promise settles; the last of the round ends the round.
Settle(r, rejected) ==
  /\ attempt' = [attempt EXCEPT ![r] = NoAttempt]
  /\ drain' = [drain EXCEPT !.failed = @ \/ rejected]
  /\ loop' = IF InFlight = {r} THEN "settled" ELSE "free"

\* release, then enqueue with the time the run has already waited since.
PutBack(r) == sched' = Enqueue(Release(sched, r), r, attempt[r].at)

\* The policy decides QUEUE, or the observation of resources throws.
AdmissionDefers(r, throws) ==
  /\ Idle /\ attempt[r].pc = "admission"
  /\ PutBack(r)
  /\ Settle(r, throws)
  /\ UNCHANGED <<persisted, pending, notReady, interrupting, plans, crashes>>

\* Mutant of Finish: the slot is not released.
FinishKeepingSlot(r, returned) ==
  /\ pending' = [pending EXCEPT ![r] = IF attempt[r].mode = 0 THEN @ ELSE 0]
  /\ notReady' = [notReady EXCEPT ![r] = IF returned THEN 0 ELSE @]
  /\ Settle(r, ~returned)
  /\ UNCHANGED sched

\* The finally block of attemptNext; "returned" also clears the count of
\* instance failures.
Finish(r, returned) ==
  /\ sched' = Release(sched, r)
  /\ pending' = [pending EXCEPT ![r] = IF attempt[r].mode = 0 THEN @ ELSE 0]
  /\ notReady' = [notReady EXCEPT ![r] = IF returned THEN 0 ELSE @]
  /\ Settle(r, ~returned)

\* QUEUED -> RUNNING and the call of the runtime, which asks for the slot of
\* the instance before its first await: without one the run is INTERRUPTED
\* again before any other handler runs.
StartRuntime(r, m) ==
  /\ \/ /\ Update(r, "RUNNING")
        /\ attempt' = [attempt EXCEPT ![r].pc = "running", ![r].mode = m]
     \/ /\ Update(r, "INTERRUPTED")
        /\ attempt' = [attempt EXCEPT ![r].pc = "after", ![r].mode = m, ![r].outcome = "slot"]
  /\ UNCHANGED <<sched, pending, notReady, loop, drain>>

\* The run was interrupted or failed while it waited: nothing is started.
TakenOver(r) == status[r] \in {"INTERRUPTED", "FAILED"}

\* The policy decides START.  Without a resume input executeQueuedRun goes on
\* to the snapshot of the workspace; with one executeQueuedResume starts the
\* runtime if the input still names the run's checkpoint and throws otherwise.
AdmissionStarts(r) ==
  /\ Idle /\ attempt[r].pc = "admission"
  /\ \/ /\ TakenOver(r)
        /\ sched' = Release(sched, r)
        /\ pending' = [pending EXCEPT ![r] = 0]
        /\ notReady' = [notReady EXCEPT ![r] = 0]
        /\ Settle(r, FALSE)
        /\ UNCHANGED <<status, updatedAt>>
     \/ /\ status[r] = "QUEUED" /\ pending[r] = 0
        /\ attempt' = [attempt EXCEPT ![r].pc = "before"]
        /\ UNCHANGED <<status, updatedAt, sched, pending, notReady, loop, drain>>
     \/ /\ status[r] = "QUEUED" /\ pending[r] = ckpt[r] /\ pending[r] # 0
        /\ StartRuntime(r, pending[r])
     \/ /\ status[r] = "QUEUED" /\ pending[r] \notin {0, ckpt[r]}
        /\ sched' = Release(sched, r)
        /\ pending' = [pending EXCEPT ![r] = 0]
        /\ Settle(r, TRUE)
        /\ UNCHANGED <<status, updatedAt, notReady>>
  /\ UNCHANGED <<ckpt, queuedFor, interrupting, plans, crashes>>

\* Mutant of BeforeCaptured: the status read before the await decides.
BeforeCapturedBlindly(r) ==
  /\ Idle /\ attempt[r].pc = "before"
  /\ status' = [status EXCEPT ![r] = "RUNNING"]
  /\ updatedAt' = [updatedAt EXCEPT ![r] = 0]
  /\ attempt' = [attempt EXCEPT ![r].pc = "running"]
  /\ UNCHANGED <<ckpt, queuedFor, sched, pending, notReady, interrupting, loop, drain, plans, crashes>>

\* captureBefore resolves: the stored status decides again.
BeforeCaptured(r) ==
  /\ Idle /\ attempt[r].pc = "before"
  /\ \/ /\ status[r] = "QUEUED"
        /\ StartRuntime(r, 0)
     \/ /\ TakenOver(r)
        /\ Finish(r, TRUE)
        /\ UNCHANGED <<status, updatedAt>>
  /\ UNCHANGED <<ckpt, queuedFor, interrupting, plans, crashes>>

\* captureBefore throws: the run stays QUEUED in the store and is in no queue.
BeforeFails(r) ==
  /\ Idle /\ attempt[r].pc = "before"
  /\ Finish(r, FALSE)
  /\ UNCHANGED <<persisted, interrupting, plans, crashes>>

-----------------------------------------------------------------------------
(* What the runtime reports during an invocation.  It keeps running, and      *)
(* reporting, after the run was interrupted and even queued again.            *)

Running(r) == Idle /\ attempt[r].pc = "running"

\* agent_completed, agent_failed and agent_interrupted, the last thing an
\* invocation reports.  A transition the state machine rejects throws in the
\* event handler, and the emitter logs it and goes on.
RuntimeReports(r, to) ==
  /\ Running(r) /\ ~attempt[r].told
  /\ to = "COMPLETED" => ~attempt[r].tool
  /\ TryUpdate(r, to)
  /\ attempt' = [attempt EXCEPT ![r].told = TRUE]
  /\ UNCHANGED <<ckpt, queuedFor, sched, pending, notReady, interrupting, plans, loop, drain, crashes>>

\* onSandboxFailure: agent_interrupted on behalf of a runtime that is only
\* then asked to stop.
SandboxFails(r) ==
  /\ Running(r) /\ ~attempt[r].told
  /\ TryUpdate(r, "INTERRUPTED")
  /\ UNCHANGED <<ckpt, queuedFor, memory, crashes>>

\* markToolPhase STARTED.
ToolStarted(r) ==
  /\ Running(r) /\ ~attempt[r].told /\ ~attempt[r].tool
  /\ attempt' = [attempt EXCEPT ![r].tool = TRUE]
  /\ IF status[r] = "RUNNING" THEN Update(r, "WAITING_TOOL") ELSE UNCHANGED <<status, updatedAt>>
  /\ UNCHANGED <<ckpt, queuedFor, sched, pending, notReady, interrupting, plans, loop, drain, crashes>>

\* The result is recorded, with a checkpoint if the tool succeeded whatever
\* the status of the run is by then, and markToolPhase ENDED follows.
ToolEnded(r) ==
  /\ Running(r) /\ attempt[r].tool /\ ~attempt[r].told
  /\ attempt' = [attempt EXCEPT ![r].tool = FALSE]
  /\ \/ ckpt[r] < MaxCkpt /\ ckpt' = [ckpt EXCEPT ![r] = @ + 1]
     \/ UNCHANGED ckpt
  /\ IF status[r] = "WAITING_TOOL" THEN Update(r, "RUNNING") ELSE UNCHANGED <<status, updatedAt>>
  /\ UNCHANGED <<queuedFor, sched, pending, notReady, interrupting, plans, loop, drain, crashes>>

\* The worker gave up waiting for the permission the master had already
\* recorded: this call of the tool never ends.
ToolAbandoned(r) ==
  /\ Running(r) /\ attempt[r].tool /\ ~attempt[r].told
  /\ attempt' = [attempt EXCEPT ![r].tool = FALSE]
  /\ UNCHANGED <<persisted, sched, pending, notReady, interrupting, plans, loop, drain, crashes>>

\* The runtime call resolves, or it rejects and the run is INTERRUPTED unless
\* an event has already moved it on.
InvocationReturns(r) ==
  /\ Running(r) /\ attempt[r].told
  /\ attempt' = [attempt EXCEPT ![r].pc = "after"]
  /\ UNCHANGED <<persisted, sched, pending, notReady, interrupting, plans, loop, drain, crashes>>

\* Mutant of InvocationThrows: the run is left as it is.
InvocationThrowsSilently(r) ==
  /\ Running(r)
  /\ attempt' = [attempt EXCEPT ![r].pc = "after", ![r].outcome = "error"]
  /\ UNCHANGED <<persisted, sched, pending, notReady, interrupting, plans, loop, drain, crashes>>

InvocationThrows(r) ==
  /\ Running(r)
  /\ attempt' = [attempt EXCEPT ![r].pc = "after", ![r].outcome = "error"]
  /\ IF status[r] \in Executing THEN Update(r, "INTERRUPTED") ELSE UNCHANGED <<status, updatedAt>>
  /\ UNCHANGED <<ckpt, queuedFor, sched, pending, notReady, interrupting, plans, loop, drain, crashes>>

\* Mutant of SlotRetry: one retry more than the limit.
SlotRetryOnceMore(r) ==
  LET n == notReady[r] + 1
      again == n =< MaxRetries + 1
  IN /\ notReady' = [notReady EXCEPT ![r] = IF again THEN n ELSE 0]
     /\ pending' = [pending EXCEPT ![r] = IF again /\ attempt[r].mode = 0 THEN @ ELSE 0]
     /\ IF again THEN PutBack(r) ELSE sched' = Release(sched, r)
     /\ Settle(r, FALSE)

\* The instance had no slot: back to the queue while the retries last.  The
\* finally block then drops the resume input, if there was one.
SlotRetry(r) ==
  LET n == notReady[r] + 1
      again == n =< MaxRetries
  IN /\ notReady' = [notReady EXCEPT ![r] = IF again THEN n ELSE 0]
     /\ pending' = [pending EXCEPT ![r] = IF again /\ attempt[r].mode = 0 THEN @ ELSE 0]
     /\ IF again THEN PutBack(r) ELSE sched' = Release(sched, r)
     /\ Settle(r, FALSE)

\* The snapshots after the run are taken, or they throw in place of whatever
\* the call was about to report.  An interrupt call returns before them.
AttemptEnds(r) ==
  /\ Idle /\ attempt[r].pc = "after" /\ r \notin interrupting
  /\ \E outcome \in {attempt[r].outcome, "error"} :
       \/ outcome = "done" /\ Finish(r, TRUE)
       \/ outcome = "error" /\ Finish(r, FALSE)
       \/ outcome = "slot" /\ SlotRetry(r)
  /\ UNCHANGED <<persisted, interrupting, plans, crashes>>

-----------------------------------------------------------------------------
(* Crash and startup *)

\* The process dies, also in the middle of a synchronous stretch: the store
\* is all that is left.
Crash ==
  /\ crashes < MaxCrashes
  /\ crashes' = crashes + 1
  /\ sched' = EmptyScheduler
  /\ pending' = [r \in Run |-> 0]
  /\ notReady' = [r \in Run |-> 0]
  /\ attempt' = [r \in Run |-> NoAttempt]
  /\ interrupting' = {}
  /\ plans' = {}
  /\ drain' = IdleDrain
  /\ loop' = "restore"
  /\ UNCHANGED persisted

\* QueuedRunRecoveryService.restore: QUEUED runs in creation order.  A run
\* whose RUN_QUEUED event names a checkpoint comes back with its resume
\* input; if the run has a newer checkpoint by now the whole startup fails.
ToRestore == InState({"QUEUED"}) \ Waiting(sched)

\* Mutant of RestoreQueued: the wait of a restored run starts again.
RestoreQueuedAfresh ==
  /\ loop = "restore"
  /\ IF ToRestore = {} THEN loop' = "scan" /\ UNCHANGED <<sched, pending>>
     ELSE LET r == FirstOf(ToRestore) IN
          /\ sched' = Enqueue(sched, r, Now)
          /\ pending' = [pending EXCEPT ![r] = queuedFor[r]]
          /\ UNCHANGED loop
  /\ UNCHANGED <<persisted, notReady, attempt, interrupting, plans, drain, crashes>>

RestoreQueued ==
  /\ loop = "restore"
  /\ IF ToRestore = {} THEN loop' = "scan" /\ UNCHANGED <<sched, pending>>
     ELSE LET r == FirstOf(ToRestore) IN
          IF queuedFor[r] \in {0, ckpt[r]}
          THEN /\ sched' = Enqueue(sched, r, updatedAt[r])
               /\ pending' = [pending EXCEPT ![r] = queuedFor[r]]
               /\ UNCHANGED loop
          ELSE loop' = "failed" /\ UNCHANGED <<sched, pending>>
  /\ UNCHANGED <<persisted, notReady, attempt, interrupting, plans, drain, crashes>>

\* scanInterruptedRuns: what was executing is INTERRUPTED, with a plan.
ScanActive ==
  /\ loop = "scan"
  /\ IF InState(Executing) = {} THEN loop' = "recover" /\ UNCHANGED <<status, updatedAt, plans>>
     ELSE LET r == FirstOf(InState(Executing)) IN
          Update(r, "INTERRUPTED") /\ plans' = plans \cup {r} /\ UNCHANGED loop
  /\ UNCHANGED <<ckpt, queuedFor, sched, pending, notReady, attempt, interrupting, drain, crashes>>

\* Mutant of ExecutePlan: a recovered run is RUNNING without being scheduled.
ExecutePlanAtOnce ==
  /\ loop = "recover" /\ plans # {}
  /\ LET r == FirstOf(plans) IN
       plans' = plans \ {r} /\ status' = [status EXCEPT ![r] = "RUNNING"]
  /\ UNCHANGED <<ckpt, updatedAt, queuedFor, sched, pending, notReady, attempt, interrupting, loop, drain, crashes>>

\* RecoveryExecutor.execute: a plan is a manual review, always so without a
\* checkpoint, or a resume through submitResume.
ExecutePlan ==
  /\ loop = "recover" /\ plans # {}
  /\ LET r == FirstOf(plans) IN
       /\ plans' = plans \ {r}
       /\ \/ UNCHANGED <<status, updatedAt, queuedFor, sched, pending>>
          \/ /\ QueueResume(r)
             /\ pending' = [pending EXCEPT ![r] = ckpt[r]]
             /\ sched' = Enqueue(sched, r, Now)
  /\ UNCHANGED <<ckpt, notReady, attempt, interrupting, loop, drain, crashes>>

\* queuePump.start: the first tick.
StartPump ==
  /\ loop = "recover" /\ plans = {}
  /\ RequestDrain
  /\ UNCHANGED <<persisted, sched, pending, notReady, attempt, interrupting, plans, crashes>>

-----------------------------------------------------------------------------

Older(t) == IF t = 0 THEN 0 ELSE t - 1

Tick ==
  /\ Idle
  /\ updatedAt' = [r \in Run |-> Older(updatedAt[r])]
  /\ sched' = [sched EXCEPT !.queue = [t \in Tenant |->
                 [i \in DOMAIN sched.queue[t] |-> [sched.queue[t][i] EXCEPT !.at = Older(@)]]]]
  /\ attempt' = [r \in Run |-> [attempt[r] EXCEPT !.at = Older(@)]]
  /\ UNCHANGED <<status, ckpt, queuedFor, pending, notReady, interrupting, plans, loop, drain, crashes>>

Request == \E r \in Run : Submit(r) \/ Resume(r) \/ Interrupt(r)

\* The synchronous stretches, which nothing but a crash can interrupt.
Stretch ==
  \/ EnforceQueueTtl \/ Reconcile \/ ClaimForAttempt \/ RoundClaimed \/ RoundSettled
  \/ RestoreQueued \/ ScanActive \/ ExecutePlan \/ StartPump

AttemptStep(r) ==
  \/ \E throws \in BOOLEAN : AdmissionDefers(r, throws)
  \/ AdmissionStarts(r)
  \/ BeforeCaptured(r) \/ BeforeFails(r)
  \/ InvocationReturns(r) \/ InvocationThrows(r)
  \/ AttemptEnds(r)

RuntimeEvent(r) ==
  \/ \E to \in Terminal \cup {"INTERRUPTED"} : RuntimeReports(r, to)
  \/ SandboxFails(r)
  \/ ToolStarted(r) \/ ToolEnded(r) \/ ToolAbandoned(r)

Next ==
  \/ Request
  \/ PumpTick
  \/ Stretch
  \/ \E r \in Run : AttemptStep(r) \/ RuntimeEvent(r) \/ InterruptReturns(r)
  \/ Crash
  \/ Tick

Spec == Init /\ [][Next]_vars

\* The timer keeps firing and the clock keeps running whatever else happens.
\* Every await of an attempt ends: policies answer, snapshots of a workspace
\* finish or throw, the execution timeout of the supervised runtime ends an
\* invocation, the escalation to SIGKILL ends an interrupt.
Fairness ==
  /\ WF_vars(Stretch)
  /\ WF_vars(PumpTick)
  /\ SF_vars(Tick)
  /\ \A r \in Run :
       /\ WF_vars((\E throws \in BOOLEAN : AdmissionDefers(r, throws)) \/ AdmissionStarts(r))
       /\ WF_vars(BeforeCaptured(r) \/ BeforeFails(r))
       /\ WF_vars(InvocationReturns(r) \/ InvocationThrows(r))
       /\ WF_vars(AttemptEnds(r))
       /\ SF_vars(InterruptReturns(r))

FairSpec == Spec /\ Fairness

-----------------------------------------------------------------------------
(* Properties *)

\* The startup is over: runs left by the previous process have been dealt with.
Up == loop \notin {"restore", "scan", "recover", "failed"}

Loop == {"free", "ttl", "reconcile", "claim", "settled", "restore", "scan", "recover", "failed"}

TypeOK ==
  /\ status \in [Run -> Status]
  /\ ckpt \in [Run -> Ckpt] /\ queuedFor \in [Run -> Ckpt] /\ pending \in [Run -> Ckpt]
  /\ updatedAt \in [Run -> Stamp]
  /\ sched \in Scheduler
  /\ notReady \in [Run -> 0..MaxRetries]
  /\ attempt \in [Run -> Attempt]
  /\ interrupting \subseteq Run /\ plans \subseteq Run
  /\ loop \in Loop
  /\ drain \in DrainState
  /\ crashes \in 0..MaxCrashes

\* Logical slots are not leaked: exactly the runs some attempt is working on
\* hold one, through every path of attemptNext (deferred, thrown, taken over,
\* started, put back), and none is held while no drain is in progress.
SlotsAreAccountedFor ==
  /\ sched.active = InFlight
  /\ InFlight # {} => drain.active

\* A run the store calls RUNNING is one some attempt holds a slot for: nobody
\* reports progress of a run that no longer counts against the limits.
RunningHoldsSlot == Up => InState({"RUNNING"}) \subseteq sched.active

\* A resume input is kept exactly as long as the run it belongs to is waiting
\* or being attempted, and names a checkpoint of that run.
PendingHasItsRun ==
  \A r \in Run : pending[r] # 0 =>
    /\ r \in Waiting(sched) \cup sched.active
    /\ pending[r] =< ckpt[r]
    /\ status[r] = "QUEUED" /\ Up => pending[r] = queuedFor[r]

\* The sweep before a pass and the reconciliation with the store never run
\* while an attempt is in flight, so re-queueing an orphan cannot be refused
\* and the pass cannot die before it has claimed anything.
SweepsAreExclusive ==
  loop \in {"ttl", "reconcile"} => InFlight = {} /\ sched.active = {}

\* The wait of a QUEUED run is counted at least from the moment it became
\* QUEUED: deferrals, failed attempts, reconciliation and restarts never set
\* the TTL clock of a waiting run back.
WaitIsNeverReset ==
  \A r \in InState({"QUEUED"}) :
    /\ \A i \in DOMAIN sched.queue[TenantOf[r]] :
         sched.queue[TenantOf[r]][i].run = r => sched.queue[TenantOf[r]][i].at =< updatedAt[r]
    /\ attempt[r].pc = "admission" => attempt[r].at =< updatedAt[r]

\* Slots, invocations and phases follow RunExecution.
PhaseOf ==
  [r \in Run |->
     CASE status[r] = "NONE" -> "new"
       [] status[r] = "QUEUED" -> "queued"
       [] status[r] = "RUNNING" -> "running"
       [] status[r] = "WAITING_TOOL" -> "waiting_tool"
       [] status[r] = "INTERRUPTED" -> "interrupted"
       [] OTHER -> "finished"]

Execution == INSTANCE RunExecution
  WITH phase <- PhaseOf, slots <- sched.active,
       spent <- {r \in Run : attempt[r].pc \in {"running", "after"}},
       boots <- crashes

Promise == Execution!Spec

\* Nothing stays QUEUED for ever: it is started, fails by the TTL or is
\* interrupted, across restarts too, unless the startup itself fails.
QueuedRunsLeave ==
  \A r \in Run : status[r] = "QUEUED" ~> status[r] # "QUEUED" \/ loop = "failed"

-----------------------------------------------------------------------------
(* What comments and documents say of the code, and the code does not do      *)

\* queued-run-recovery-service.ts: without its resume input a QUEUED recovery
\* would wrongly be started as a new run.  A run whose RUN_QUEUED event names
\* a checkpoint is never started from scratch.
ResumesAreNotRestarts ==
  [][\A r \in Run :
       attempt[r].pc = "before" /\ attempt'[r].pc = "running" => queuedFor[r] = 0]_vars

\* run-queue-coordinator.ts, N2: a run whose instance had no slot is queued
\* again for the next pass to retry, so it must be in a state it can be
\* started from.
RetriesCanStart ==
  \A r \in Waiting(sched) : notReady[r] > 0 => status[r] = "QUEUED"

\* README: the queue is rebuilt after a restart.
StartupSucceeds == loop # "failed"
=============================================================================
