--------------------------- MODULE ManagedRuntime ---------------------------
(***************************************************************************)
(* The execution of one run after the coordinator has dispatched it:       *)
(* ManagedAgentRuntime (attempt, instance slot, sandbox), around           *)
(* SupervisedAgentRuntime (execution timeout, interrupt, forced stop),     *)
(* around the inner runtime (a worker process, or Pi inside the service),  *)
(* with ContainerSandboxProvider, docker, a crash of the service and the   *)
(* start-up reconciliation.  Everything between two awaits is one step.    *)
(*                                                                         *)
(* An attempt is <<run, number>> and names its sandbox too: execute makes  *)
(* one of each.  The scheduler keeps the slot of a run until its           *)
(* invocation returns, so a run has one invocation at a time.              *)
(***************************************************************************)
EXTENDS HarnessInstances, FiniteSets

CONSTANTS
  Run,
  Instances,     \* harness instances, one per tenant
  InstanceOf,    \* [Run -> Instances]
  MaxAttempts,   \* bound on the attempts of all runs together
  Interruptible, \* bound: the runs a user may interrupt
  MaxCrashes     \* bound on the crashes of the service

ASSUME RuntimeAssumption ==
  /\ IsFiniteSet(Run)
  /\ InstanceOf \in [Run -> Instances]
  /\ Interruptible \subseteq Run
  /\ MaxAttempts \in Nat
  /\ MaxCrashes \in Nat

VARIABLES
  life,       \* the service: "up", "down" or "starting" (reconciling)
  crashes,
  isolation,  \* config.workerIsolation: "process" or "none"
  inst,       \* durable: harness_instances
  tries,      \* durable: attempts made, per run
  attempt,    \* durable: run_attempts.status
  record,     \* durable: sandboxes.status
  container,  \* docker: sandboxes whose container exists
  named,      \* memory: containerBySandboxId
  watched,    \* memory: activeBySandboxId
  removal,    \* docker rm --force in flight: what and for whom
  launching,  \* docker run or rename that outlived the service that issued it
  leaked,     \* containers nothing will remove any more (history)
  call,       \* where the invocation of a run is
  inner,      \* the inner runtime, per run
  asking,     \* SupervisedAgentRuntime.interrupt, per run
  unreturned  \* attempts whose slot was never given back (history)

durable == <<inst, tries, attempt, record>>
docker  == <<container, removal, launching, leaked>>
memory  == <<named, watched, call, inner, asking, unreturned>>
service == <<life, crashes, isolation>>
vars == <<service, durable, docker, memory>>

Attempt == Run \X (1..MaxAttempts)

AttemptStatus == {"none", "PENDING", "RUNNING", "SUCCEEDED", "FAILED", "INTERRUPTED", "REJECTED"}
RecordStatus  == {"none", "PROVISIONING", "ACTIVE", "FAILED", "TERMINATED", "LOST"}
Unsettled     == {"PROVISIONING", "ACTIVE"}

\* creating: docker run or warm lease.  verifying: docker inspect.
\* discarding: docker rm of an unverified container.  invoking: the race of
\* runtime, timeout and forced stop.  stopping, killing, sweeping: after the
\* execution timeout.  closing: the finally block's terminate.
CallPoint == {"idle", "creating", "verifying", "discarding", "invoking",
              "stopping", "killing", "sweeping", "closing"}
Supervised == {"invoking", "stopping", "killing", "sweeping"}

Caller == {"finally", "timeout", "interrupt", "cleaner", "nobody"}

\* stage: the child process (or Pi session) the runtime holds for the run.
\* deaf: it said READY while its run was flagged, and gets no start message.
\* ended: it reported and has not exited yet.
InnerState == [of       : Nat,
               promise  : {"none", "pending", "ok", "error"},
               terminal : {"open", "SUCCEEDED", "FAILED", "INTERRUPTED"},
               stage    : {"none", "booting", "deaf", "working", "ended"},
               flagged  : BOOLEAN,   \* interruptedRuns
               asked    : BOOLEAN,   \* INTERRUPT_RUN was sent, abort was called
               forced   : BOOLEAN]   \* forceStop was called

\* of: the invocation the interrupt found, 0 for none.
AskingState == [pc : {"none", "grace", "killing", "sweeping"}, of : Nat]

NoInner  == [of |-> 0, promise |-> "none", terminal |-> "open", stage |-> "none",
             flagged |-> FALSE, asked |-> FALSE, forced |-> FALSE]
NoAsking == [pc |-> "none", of |-> 0]

TypeOK ==
  /\ life \in {"up", "down", "starting"} /\ crashes \in 0..MaxCrashes
  /\ isolation \in {"process", "none"}
  /\ inst \in [Instances -> HarnessInstance]
  /\ tries \in [Run -> 0..MaxAttempts]
  /\ attempt \in [Attempt -> AttemptStatus]
  /\ record \in [Attempt -> RecordStatus]
  /\ container \subseteq Attempt /\ launching \subseteq Attempt /\ leaked \subseteq Attempt
  /\ named \subseteq Attempt /\ watched \subseteq Attempt /\ unreturned \subseteq Attempt
  /\ removal \subseteq [of : Attempt, by : Caller]
  /\ call \in [Run -> CallPoint]
  /\ inner \in [Run -> InnerState]
  /\ asking \in [Run -> AskingState]

Init ==
  /\ life = "up" /\ crashes = 0 /\ isolation \in {"process", "none"}
  /\ inst = [i \in Instances |-> NewInstance]
  /\ tries = [r \in Run |-> 0]
  /\ attempt = [a \in Attempt |-> "none"]
  /\ record = [a \in Attempt |-> "none"]
  /\ container = {} /\ removal = {} /\ launching = {} /\ leaked = {}
  /\ named = {} /\ watched = {} /\ unreturned = {}
  /\ call = [r \in Run |-> "idle"]
  /\ inner = [r \in Run |-> NoInner]
  /\ asking = [r \in Run |-> NoAsking]

-----------------------------------------------------------------------------
(* Helpers *)

Current(r) == <<r, tries[r]>>

\* RunAttemptStore.update and SandboxStore.update compare the status they
\* replace; the callers below read it in the same step.
FinishAttempt(a, status) ==
  attempt' = [attempt EXCEPT ![a] = IF @ = "RUNNING" THEN status ELSE @]

GiveBack(r) ==
  inst' = [inst EXCEPT ![InstanceOf[r]] = IF CanRelease(@) THEN ReleaseRun(@) ELSE @]

\* terminate(sandboxId), up to its first await.  The container name is taken
\* out of the map, so only the first of several calls removes the container;
\* the others go on at once to the record.
NeedsRm(a) == a \in named
BeginRm(a, who) ==
  /\ named' = named \ {a}
  /\ removal' = removal \cup {[of |-> a, by |-> who]}
\* docker rm --force came back.  Nobody looks at its exit code, so a container
\* it could not remove is taken for gone.
RmReturns(a) ==
  /\ \/ container' = container \ {a} /\ leaked' = leaked \ {a}
     \/ a \in container /\ UNCHANGED container /\ leaked' = leaked \cup {a}
  /\ UNCHANGED launching

\* Mutant of CloseRecord: the row is not compared with the one read before.
CloseRecordBlindly(a) ==
  record' = [record EXCEPT ![a] = "TERMINATED"]

CloseRecord(a) ==
  record' = [record EXCEPT ![a] = IF @ = "ACTIVE" THEN "TERMINATED" ELSE @]

\* docker rm is in flight: for a terminate, or in create.
BeingRemoved == {q.of : q \in removal}
Discarding == {Current(r) : r \in {q \in Run : call[q] = "discarding"}}
Doomed == BeingRemoved \cup Discarding

Pending(r) == inner[r].promise = "pending"

\* The invocation returned: its promise and its forced stop are garbage, the
\* worker or session and the interrupt flag are not.
Returned(r) ==
  /\ call' = [call EXCEPT ![r] = "idle"]
  /\ inner' = [inner EXCEPT ![r].promise = "none", ![r].terminal = "open", ![r].forced = FALSE,
                            ![r].of = IF inner[r].stage = "none" THEN 0 ELSE @]

\* inner.interrupt: a worker run is flagged even when it has no worker yet;
\* the message reaches an existing worker, the abort an existing session.
AskInner(x) ==
  IF isolation = "process"
  THEN [x EXCEPT !.flagged = TRUE, !.asked = @ \/ x.stage # "none"]
  ELSE [x EXCEPT !.asked = @ \/ x.stage = "working"]

\* inner.forceKill, and the SIGTERM and SIGKILL that interrupt escalates to.  A
\* worker may die at any time (InnerDies), so the signal itself adds no
\* behaviour; a report it wrote before may still arrive.
KillInner(x) ==
  [x EXCEPT !.flagged = @ \/ (isolation = "process" /\ x.stage # "none")]

-----------------------------------------------------------------------------
(* ManagedAgentRuntime.execute, up to the sandbox *)

\* Every attempt is stored PENDING first; the ones that end before the sandbox
\* is asked for return in the same step.
NextTry(r) ==
  /\ life = "up" /\ call[r] = "idle"
  /\ Cardinality({a \in Attempt : attempt[a] # "none"}) < MaxAttempts
  /\ tries' = [tries EXCEPT ![r] = @ + 1]

\* A required capability is missing, or the policy does not compile.
RejectAttempt(r) ==
  /\ NextTry(r)
  /\ attempt' = [attempt EXCEPT ![<<r, tries[r] + 1>>] = "REJECTED"]
  /\ UNCHANGED <<service, inst, record, docker, memory>>

\* acquireRun throws InstanceSlotUnavailableError before any try block: the
\* attempt stays PENDING.
NoSlot(r) ==
  /\ NextTry(r) /\ ~CanAcquire(inst[InstanceOf[r]])
  /\ attempt' = [attempt EXCEPT ![<<r, tries[r] + 1>>] = "PENDING"]
  /\ UNCHANGED <<service, inst, record, docker, memory>>

\* create throws before it registers the sandbox (profile, missing secret).
SandboxRefused(r) ==
  /\ NextTry(r) /\ CanAcquire(inst[InstanceOf[r]])
  /\ inst' = [inst EXCEPT ![InstanceOf[r]] = ReleaseRun(AcquireRun(@))]
  /\ attempt' = [attempt EXCEPT ![<<r, tries[r] + 1>>] = "FAILED"]
  /\ UNCHANGED <<service, record, docker, memory>>

\* Slot first, then the sandbox row, then docker.
AcquireSandbox(r) ==
  /\ NextTry(r) /\ CanAcquire(inst[InstanceOf[r]])
  /\ inst' = [inst EXCEPT ![InstanceOf[r]] = AcquireRun(@)]
  /\ attempt' = [attempt EXCEPT ![<<r, tries[r] + 1>>] = "PENDING"]
  /\ record' = [record EXCEPT ![<<r, tries[r] + 1>>] = "PROVISIONING"]
  /\ call' = [call EXCEPT ![r] = "creating"]
  /\ UNCHANGED <<service, docker, named, watched, inner, asking, unreturned>>

-----------------------------------------------------------------------------
(* ContainerSandboxProvider.create *)

\* docker run succeeded, or a warm container was renamed to this sandbox.
ContainerStarted(r) ==
  /\ call[r] = "creating"
  /\ container' = container \cup {Current(r)}
  /\ call' = [call EXCEPT ![r] = "verifying"]
  /\ UNCHANGED <<service, durable, removal, launching, leaked, named, watched, inner, asking, unreturned>>

\* Mutant of CreateFails: the catch block of create forgets the slot.
CreateFailsKeepingSlot(r) ==
  /\ attempt' = [attempt EXCEPT ![Current(r)] = "FAILED"]
  /\ call' = [call EXCEPT ![r] = "idle"]
  /\ UNCHANGED <<service, inst, tries, named, watched, inner, asking, unreturned>>

\* create rejects: the slot goes back and the attempt fails.
CreateFails(r) ==
  /\ GiveBack(r)
  /\ attempt' = [attempt EXCEPT ![Current(r)] = "FAILED"]
  /\ call' = [call EXCEPT ![r] = "idle"]
  /\ UNCHANGED <<service, tries, named, watched, inner, asking, unreturned>>

DockerRunFails(r) ==
  /\ call[r] = "creating" /\ CreateFails(r)
  /\ record' = [record EXCEPT ![Current(r)] = "FAILED"]
  /\ UNCHANGED docker

\* The warm pool throws out of take (closed, not initialised, rename failed):
\* nobody updates the row, which stays PROVISIONING until the next start.
WarmLeaseFails(r) ==
  /\ call[r] = "creating" /\ CreateFails(r)
  /\ UNCHANGED <<record, docker>>

VerifyFails(r) ==
  /\ call[r] = "verifying"
  /\ call' = [call EXCEPT ![r] = "discarding"]
  /\ UNCHANGED <<service, durable, docker, named, watched, inner, asking, unreturned>>

Discard(r) ==
  /\ call[r] = "discarding" /\ CreateFails(r)
  /\ record' = [record EXCEPT ![Current(r)] = "FAILED"]
  /\ RmReturns(Current(r))
  /\ UNCHANGED removal

\* The runtime was verified: the row becomes ACTIVE, the attempt RUNNING, the
\* sandbox is watched and the inner runtime is called.
EnterRunning(r) ==
  /\ call[r] = "verifying" /\ Current(r) \in container
  /\ record' = [record EXCEPT ![Current(r)] = "ACTIVE"]

\* executeRun and PiAdapter.start refuse a run that still has a worker or a
\* session: the invocation fails and goes straight to its finally block.
Occupied(x) == IF isolation = "process" THEN x.stage # "none" ELSE x.stage = "working"

StillOccupied(r) ==
  /\ EnterRunning(r) /\ Occupied(inner[r])
  /\ attempt' = [attempt EXCEPT ![Current(r)] = "FAILED"]
  /\ removal' = removal \cup {[of |-> Current(r), by |-> "finally"]}
  /\ call' = [call EXCEPT ![r] = "closing"]
  /\ UNCHANGED <<service, inst, tries, container, launching, leaked, named, watched, inner, asking, unreturned>>

StartInner(r) ==
  /\ EnterRunning(r) /\ ~Occupied(inner[r])
  /\ attempt' = [attempt EXCEPT ![Current(r)] = "RUNNING"]
  /\ named' = named \cup {Current(r)}
  /\ watched' = watched \cup {Current(r)}
  /\ inner' = [inner EXCEPT ![r] =
                 [NoInner EXCEPT !.of = tries[r], !.promise = "pending",
                                 !.stage = "booting", !.flagged = inner[r].flagged]]
  /\ call' = [call EXCEPT ![r] = "invoking"]
  /\ UNCHANGED <<service, inst, tries, docker, asking, unreturned>>

-----------------------------------------------------------------------------
(* The inner runtime.  A settled promise stays settled. *)

Settle(x, promise, terminal) ==
  IF x.promise = "pending" THEN [x EXCEPT !.promise = promise, !.terminal = terminal] ELSE x

\* WORKER_READY: a flagged run is not started, and not told to stop either.
WorkerReady(r) ==
  /\ isolation = "process" /\ inner[r].stage = "booting"
  /\ inner' = [inner EXCEPT ![r].stage = IF inner[r].flagged THEN "deaf" ELSE "working"]
  /\ UNCHANGED <<service, durable, docker, named, watched, call, asking, unreturned>>

\* Without a worker: the Pi session is created and becomes interruptible.
SessionReady(r) ==
  /\ isolation = "none" /\ inner[r].stage = "booting"
  /\ inner' = [inner EXCEPT ![r].stage = "working"]
  /\ UNCHANGED <<service, durable, docker, named, watched, call, asking, unreturned>>

\* How an agent run ends: agent_completed, agent_failed, or after an abort
\* agent_interrupted.
Ends(x) ==
  {<<"ok", "SUCCEEDED">>, <<"error", "FAILED">>} \cup
    (IF x.asked THEN {<<"ok", "INTERRUPTED">>} ELSE {})

\* RUN_COMPLETED, RUN_FAILED or RUN_INTERRUPTED arrives.  A worker that is
\* asked to stop before its agent has begun answers without an event.
WorkerReports(r) ==
  /\ isolation = "process" /\ inner[r].stage \in {"booting", "deaf", "working"}
  /\ \E e \in (IF inner[r].stage = "working" THEN Ends(inner[r]) ELSE {})
               \cup (IF inner[r].asked THEN {<<"ok", "open">>} ELSE {}) :
       inner' = [inner EXCEPT ![r] = [Settle(@, e[1], e[2]) EXCEPT !.stage = "ended"]]
  /\ UNCHANGED <<service, durable, docker, named, watched, call, asking, unreturned>>

\* The agent ended, and prompt returns or throws.
SessionReports(r) ==
  /\ isolation = "none" /\ inner[r].stage = "working"
  /\ \E e \in Ends(inner[r]) :
       inner' = [inner EXCEPT ![r] = [Settle(@, e[1], e[2]) EXCEPT !.stage = "none"]]
  /\ UNCHANGED <<service, durable, docker, named, watched, call, asking, unreturned>>

Gone(x) == [x EXCEPT !.stage = "none", !.flagged = FALSE, !.asked = FALSE]

\* The worker exits after its report.
InnerExits(r) ==
  /\ isolation = "process" /\ inner[r].stage = "ended"
  /\ inner' = [inner EXCEPT ![r] = Gone(@)]
  /\ UNCHANGED <<service, durable, docker, named, watched, call, asking, unreturned>>

\* The worker dies without a report: a crash, a signal, or the SIGKILL of the
\* handshake timer.  Its sandbox is cleaned up before the promise rejects.
InnerDies(r) ==
  LET a == <<r, inner[r].of>> IN
  /\ isolation = "process" /\ inner[r].stage \in {"booting", "deaf", "working"}
  /\ IF NeedsRm(a)
     THEN /\ BeginRm(a, "cleaner")
          /\ inner' = [inner EXCEPT ![r] = Gone(@)]
          /\ UNCHANGED record
     ELSE /\ CloseRecord(a)
          /\ inner' = [inner EXCEPT ![r] = Settle(Gone(@), "error", "FAILED")]
          /\ UNCHANGED <<named, removal>>
  /\ UNCHANGED <<service, inst, tries, attempt, container, launching, leaked, watched, call, asking, unreturned>>

\* Anything may stop a container; docker removes it (--rm).
ContainerDies(a) ==
  /\ a \in container
  /\ container' = container \ {a} /\ leaked' = leaked \ {a}
  /\ UNCHANGED <<service, durable, removal, launching, memory>>

\* SupervisedAgentRuntime.interrupt begins (see below).
BeginAsking(r) ==
  /\ inner' = [inner EXCEPT ![r] = AskInner(@)]
  /\ asking' = [asking EXCEPT ![r] =
                  [pc |-> "grace", of |-> IF call[r] \in Supervised THEN tries[r] ELSE 0]]

\* A tool of the session finds its container missing: markLost, and for a
\* watched sandbox onSandboxFailure, which fails the instance of the tenant.
SandboxLost(r) ==
  LET a == <<r, inner[r].of>> IN
  /\ isolation = "none" /\ inner[r].stage = "working"
  /\ a \in named \ container /\ record[a] = "ACTIVE"
  /\ named' = named \ {a}
  /\ record' = [record EXCEPT ![a] = "LOST"]
  /\ IF a \in watched
     THEN /\ inst' = [inst EXCEPT ![InstanceOf[r]] = MarkFailed(@)]
          /\ FinishAttempt(a, "INTERRUPTED")
          /\ IF asking[r].pc = "none" THEN BeginAsking(r) ELSE UNCHANGED <<inner, asking>>
     ELSE UNCHANGED <<inst, attempt, inner, asking>>
  /\ UNCHANGED <<service, tries, docker, watched, call, unreturned>>

-----------------------------------------------------------------------------
(* SupervisedAgentRuntime.invoke and the end of ManagedAgentRuntime.execute *)

\* The finally block: terminate, then the slot.  If the container still has a
\* name the slot waits for docker.
Finally(r) ==
  LET a == Current(r) IN
  /\ watched' = watched \ {a}
  /\ IF NeedsRm(a)
     THEN /\ BeginRm(a, "finally")
          /\ call' = [call EXCEPT ![r] = "closing"]
          /\ UNCHANGED <<inst, record, inner>>
     ELSE /\ CloseRecord(a)
          /\ GiveBack(r)
          /\ Returned(r)
          /\ UNCHANGED <<named, removal>>

\* Mutant of InvokeSettles: the default of a missing terminal event is dropped.
InvokeSettlesVerbatim(r) ==
  /\ call[r] = "invoking" /\ (~Pending(r) \/ inner[r].forced)
  /\ FinishAttempt(Current(r),
       IF inner[r].promise # "ok" THEN "FAILED" ELSE inner[r].terminal)
  /\ Finally(r)
  /\ UNCHANGED <<service, tries, container, launching, leaked, asking, unreturned>>

\* The race is won by the runtime or by forceStop.  A runtime that ended
\* without a terminal event counts as SUCCEEDED.
InvokeSettles(r) ==
  /\ call[r] = "invoking" /\ (~Pending(r) \/ inner[r].forced)
  /\ FinishAttempt(Current(r),
       IF inner[r].promise # "ok" THEN "FAILED"
       ELSE IF inner[r].terminal = "open" THEN "SUCCEEDED" ELSE inner[r].terminal)
  /\ Finally(r)
  /\ UNCHANGED <<service, tries, container, launching, leaked, asking, unreturned>>

\* Mutant of InvokeTimesOut: the clock starts with the run, not with the call.
InvokeTimesOutOnceStarted(r) ==
  /\ call[r] = "invoking" /\ Pending(r) /\ inner[r].stage # "deaf"
  /\ inner' = [inner EXCEPT ![r] = AskInner(@)]
  /\ call' = [call EXCEPT ![r] = "stopping"]
  /\ UNCHANGED <<service, durable, docker, named, watched, asking, unreturned>>

\* executionTimeoutMs.
InvokeTimesOut(r) ==
  /\ call[r] = "invoking" /\ Pending(r)
  /\ inner' = [inner EXCEPT ![r] = AskInner(@)]
  /\ call' = [call EXCEPT ![r] = "stopping"]
  /\ UNCHANGED <<service, durable, docker, named, watched, asking, unreturned>>

\* interruptGraceMs after it.
TimeoutKills(r) ==
  /\ call[r] = "stopping" /\ Pending(r)
  /\ inner' = [inner EXCEPT ![r] = KillInner(@)]
  /\ call' = [call EXCEPT ![r] = "killing"]
  /\ UNCHANGED <<service, durable, docker, named, watched, asking, unreturned>>

\* terminate, then RuntimeExecutionTimeoutError; when another call has the
\* container name already, the finally block follows in the same step.
TimeoutSweeps(r) ==
  /\ call[r] = "killing" \/ (call[r] = "stopping" /\ ~Pending(r))
  /\ IF NeedsRm(Current(r))
     THEN /\ BeginRm(Current(r), "timeout")
          /\ call' = [call EXCEPT ![r] = "sweeping"]
          /\ UNCHANGED <<inst, attempt, record, watched, inner>>
     ELSE /\ FinishAttempt(Current(r), "FAILED")
          /\ Finally(r)
  /\ UNCHANGED <<service, tries, container, launching, leaked, asking, unreturned>>

-----------------------------------------------------------------------------
(* SupervisedAgentRuntime.interrupt *)

\* RunService asks while the run is RUNNING, whether or not the runtime has
\* been reached yet.
Interrupt(r) ==
  /\ r \in Interruptible /\ call[r] # "idle" /\ asking[r].pc = "none"
  /\ BeginAsking(r)
  /\ UNCHANGED <<service, durable, docker, named, watched, call, unreturned>>

StillPending(r) == asking[r].of = inner[r].of /\ Pending(r)

\* It found no invocation, or the one it found settled within the grace.
InterruptReturns(r) ==
  /\ asking[r].pc = "grace" /\ ~StillPending(r)
  /\ asking' = [asking EXCEPT ![r] = NoAsking]
  /\ UNCHANGED <<service, durable, docker, named, watched, call, inner, unreturned>>

InterruptKills(r) ==
  /\ asking[r].pc = "grace" /\ StillPending(r)
  /\ inner' = [inner EXCEPT ![r] = KillInner(@)]
  /\ asking' = [asking EXCEPT ![r].pc = "killing"]
  /\ UNCHANGED <<service, durable, docker, named, watched, call, unreturned>>

ForceStop(x, of) == IF x.of = of THEN [x EXCEPT !.forced = TRUE] ELSE x

InterruptSweeps(r) ==
  LET a == <<r, asking[r].of>> IN
  /\ asking[r].pc = "killing"
  /\ IF NeedsRm(a)
     THEN /\ BeginRm(a, "interrupt")
          /\ asking' = [asking EXCEPT ![r].pc = "sweeping"]
          /\ UNCHANGED <<record, inner>>
     ELSE /\ CloseRecord(a)
          /\ asking' = [asking EXCEPT ![r] = NoAsking]
          /\ inner' = [inner EXCEPT ![r] = ForceStop(@, asking[r].of)]
          /\ UNCHANGED <<named, removal>>
  /\ UNCHANGED <<service, inst, tries, attempt, container, launching, leaked, watched, call, unreturned>>

-----------------------------------------------------------------------------
(* The second half of terminate: docker has answered *)

\* The row was read ACTIVE before the await; if another call has moved it
\* meanwhile, the update throws into the caller.
RmAnswers(q) ==
  /\ removal' = removal \ {q}
  /\ RmReturns(q.of)

InTime(q) == record[q.of] = "ACTIVE"

\* orphanSandboxCleaner swallows the error; then the promise rejects.
CleanerEnds(q) ==
  LET r == q.of[1] IN
  /\ q \in removal /\ q.by = "cleaner" /\ RmAnswers(q)
  /\ CloseRecord(q.of)
  /\ inner' = [inner EXCEPT ![r] =
                 IF @.of = q.of[2] THEN Settle(@, "error", "FAILED") ELSE @]
  /\ UNCHANGED <<service, inst, tries, attempt, named, watched, call, asking, unreturned>>

\* Whether it throws or not, an error reaches the catch block.
TimeoutEnds(q) ==
  LET r == q.of[1] IN
  /\ q \in removal /\ q.by = "timeout" /\ RmAnswers(q)
  /\ CloseRecord(q.of)
  /\ FinishAttempt(q.of, "FAILED")
  /\ watched' = watched \ {q.of}
  /\ GiveBack(r)
  /\ Returned(r)
  /\ UNCHANGED <<service, tries, named, asking, unreturned>>

InterruptEnds(q) ==
  LET r == q.of[1] IN
  /\ q \in removal /\ q.by = "interrupt" /\ RmAnswers(q)
  /\ CloseRecord(q.of)
  /\ asking' = [asking EXCEPT ![r] = NoAsking]
  /\ inner' = [inner EXCEPT ![r] = IF InTime(q) THEN ForceStop(@, q.of[2]) ELSE @]
  /\ UNCHANGED <<service, inst, tries, attempt, named, watched, call, unreturned>>

\* When terminate throws in the finally block, the slot is not given back.
FinallyEnds(q) ==
  LET r == q.of[1] IN
  /\ q \in removal /\ q.by = "finally" /\ RmAnswers(q)
  /\ CloseRecord(q.of)
  /\ IF InTime(q)
     THEN GiveBack(r) /\ UNCHANGED unreturned
     ELSE unreturned' = unreturned \cup {q.of} /\ UNCHANGED inst
  /\ Returned(r)
  /\ UNCHANGED <<service, tries, attempt, named, watched, asking>>

\* A removal whose caller died with the service.
OrphanRmEnds(q) ==
  /\ q \in removal /\ q.by = "nobody" /\ RmAnswers(q)
  /\ UNCHANGED <<service, durable, memory>>

-----------------------------------------------------------------------------
(* Crash and start-up *)

\* The docker commands in flight are processes of their own and outlive the
\* service: a removal goes on for nobody, and a docker run or the rename of a
\* warm container may still bring its container.
Crash ==
  /\ life # "down" /\ crashes < MaxCrashes
  /\ life' = "down" /\ crashes' = crashes + 1
  /\ named' = {} /\ watched' = {} /\ unreturned' = {}
  /\ call' = [r \in Run |-> "idle"]
  /\ inner' = [r \in Run |-> NoInner]
  /\ asking' = [r \in Run |-> NoAsking]
  /\ removal' = {[of |-> a, by |-> "nobody"] : a \in Doomed}
  /\ launching' = launching \cup {Current(r) : r \in {q \in Run : call[q] = "creating"}}
  /\ UNCHANGED <<isolation, durable, container, leaked>>

\* A docker run of a dead service makes its container after all.  If the start
\* has looked for it already (No such container) and settled its row, nothing
\* will remove it.  One that fails makes no difference to anybody, and nothing
\* says that this step must ever be taken.
LateContainer(a) ==
  /\ a \in launching
  /\ launching' = launching \ {a}
  /\ container' = container \cup {a}
  /\ leaked' = IF record[a] \in Unsettled THEN leaked ELSE leaked \cup {a}
  /\ UNCHANGED <<service, durable, removal, memory>>

\* recover(): the stale slots first ...
Restart ==
  /\ life = "down"
  /\ life' = "starting"
  /\ inst' = [i \in Instances |-> ReconcileStaleSlot(inst[i])]
  /\ UNCHANGED <<crashes, isolation, tries, attempt, record, docker, memory>>

\* Mutant of ReconcileSandbox: the attempt is not closed with its sandbox.
ReconcileSandboxOnly(a) ==
  /\ life = "starting" /\ record[a] \in Unsettled
  /\ container' = container \ {a} /\ leaked' = leaked \ {a}
  /\ record' = [record EXCEPT ![a] = "LOST"]
  /\ inst' = [inst EXCEPT ![InstanceOf[a[1]]] = MarkFailed(@)]
  /\ UNCHANGED <<service, tries, attempt, removal, launching, memory>>

\* ... then every unsettled sandbox: its container is removed by name, its row
\* becomes LOST, its attempt INTERRUPTED, its instance FAILED if ACTIVE.
ReconcileSandbox(a) ==
  /\ life = "starting" /\ record[a] \in Unsettled
  /\ container' = container \ {a} /\ leaked' = leaked \ {a}
  /\ record' = [record EXCEPT ![a] = "LOST"]
  /\ FinishAttempt(a, "INTERRUPTED")
  /\ inst' = [inst EXCEPT ![InstanceOf[a[1]]] = MarkFailed(@)]
  /\ UNCHANGED <<service, tries, removal, launching, memory>>

\* Mutant of ReconcileFails: the row is settled although the removal failed.
ReconcileFailsSettling(a) ==
  /\ life = "starting" /\ record[a] \in Unsettled /\ a \in container
  /\ life' = "down"
  /\ record' = [record EXCEPT ![a] = "LOST"]
  /\ FinishAttempt(a, "INTERRUPTED")
  /\ inst' = [inst EXCEPT ![InstanceOf[a[1]]] = MarkFailed(@)]
  /\ UNCHANGED <<crashes, isolation, tries, docker, memory>>

\* A container that cannot be removed keeps its row unsettled, and the
\* service refuses to start.
ReconcileFails(a) ==
  /\ life = "starting" /\ record[a] \in Unsettled /\ a \in container
  /\ life' = "down"
  /\ FinishAttempt(a, "INTERRUPTED")
  /\ inst' = [inst EXCEPT ![InstanceOf[a[1]]] = MarkFailed(@)]
  /\ UNCHANGED <<crashes, isolation, tries, record, docker, memory>>

Open ==
  /\ life = "starting" /\ \A a \in Attempt : record[a] \notin Unsettled
  /\ life' = "up"
  /\ UNCHANGED <<crashes, isolation, durable, docker, memory>>

-----------------------------------------------------------------------------
Prepare(r) == RejectAttempt(r) \/ NoSlot(r) \/ SandboxRefused(r) \/ AcquireSandbox(r)

Provision(r) ==
  \/ ContainerStarted(r) \/ DockerRunFails(r) \/ WarmLeaseFails(r)
  \/ VerifyFails(r) \/ Discard(r) \/ StillOccupied(r) \/ StartInner(r)

Inner(r) ==
  \/ WorkerReady(r) \/ SessionReady(r) \/ WorkerReports(r) \/ SessionReports(r)
  \/ InnerExits(r) \/ InnerDies(r) \/ SandboxLost(r)

Supervise(r) ==
  InvokeSettles(r) \/ InvokeTimesOut(r) \/ TimeoutKills(r) \/ TimeoutSweeps(r)

Asking(r) ==
  Interrupt(r) \/ InterruptReturns(r) \/ InterruptKills(r) \/ InterruptSweeps(r)

RmEnds(q) ==
  CleanerEnds(q) \/ TimeoutEnds(q) \/ InterruptEnds(q) \/ FinallyEnds(q) \/ OrphanRmEnds(q)

Next ==
  \/ \E r \in Run : Prepare(r) \/ Provision(r) \/ Inner(r) \/ Supervise(r) \/ Asking(r)
  \/ \E q \in removal : RmEnds(q)
  \/ \E a \in Attempt : ContainerDies(a) \/ ReconcileSandbox(a) \/ ReconcileFails(a)
  \/ \E a \in launching : LateContainer(a)
  \/ Crash \/ Restart \/ Open

Spec == Init /\ [][Next]_vars

\* What the invocation of a run waits for: its timers and its promises, docker.
Await(r) == Provision(r) \/ Supervise(r) \/ \E q \in removal : q.of[1] = r /\ RmEnds(q)

\* Docker commands answer, timers expire, settled promises run their
\* continuations.  Nothing is assumed of the worker, of the model or of the
\* user, and no crash is followed by a restart of necessity.  Every Await step
\* moves the call or ends a removal, so this is WF_vars, cheaper to check.
Fairness == \A r \in Run : WF_<<call, removal>>(Await(r))

FairSpec == Spec /\ Fairness

-----------------------------------------------------------------------------
(* Properties *)

Executing == {a \in Attempt : call[a[1]] # "idle" /\ a = Current(a[1])}

\* The slots of an instance are taken by the invocations in progress, by
\* nobody else: every failure path of create, the execution timeout, the
\* forced stop and the sandbox failure give the slot back exactly once, and
\* a crash leaves none behind.  The exception is named: an attempt whose
\* closing terminate lost the race for the record against another terminate.
\* The state of the instance follows the count, and only a lost sandbox of a
\* run executed inside the service can fail it for the whole tenant.
SlotsAreReturned ==
  life # "down" => \A i \in Instances :
    /\ inst[i].count = Cardinality({a \in Executing \cup unreturned : InstanceOf[a[1]] = i})
    /\ inst[i].actual = "READY" => inst[i].count = 0
    /\ inst[i].actual = "ACTIVE" => inst[i].count > 0
    /\ inst[i].actual = "FAILED" =>
         isolation = "none" /\ \E a \in Attempt : InstanceOf[a[1]] = i /\ record[a] = "LOST"

\* No container is forgotten: it belongs to an invocation in progress, or is
\* being removed, or its row is unsettled and the next start cleans it up.  Two
\* exceptions are named, both kept in leaked: docker could not remove it and
\* nobody looked (RmReturns), or the docker run of a service that died made it
\* after the next start had found none and settled its row (LateContainer).
NoForgottenContainer ==
  container \subseteq
    Executing \cup BeingRemoved \cup leaked \cup {a \in Attempt : record[a] \in Unsettled}

\* A RUNNING attempt is being executed; after a restart none is left RUNNING
\* except one whose sandbox had been terminated before the crash, which the
\* reconciler does not look at.
RunningIsExecuting ==
  life = "up" => \A a \in Attempt :
    attempt[a] = "RUNNING" => a \in Executing \/ (crashes > 0 /\ record[a] = "TERMINATED")

\* Every invocation returns, whatever the runtime, the worker and the
\* container do: a deaf or hung worker ends with the execution timeout.
InvocationsReturn == \A r \in Run : []<>(call[r] = "idle")

Lifecycle == INSTANCE SandboxLifecycle WITH
  Sandbox <- Attempt, doomed <- Doomed

\* Terminates, losses and crashes in any order keep the promise of the
\* sandbox layer.
KeepsSandboxLifecycle == Lifecycle!Spec
=============================================================================
