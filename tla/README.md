# A TLA+ model of the VRAM-aware harness

The repository is a single-node control plane, written in TypeScript, that runs
coding agents for several tenants on one machine. It stores runs in SQLite,
queues them fairly, admits them when the machine and the model servers have
room, executes each in a worker process inside a sandbox, governs their tool
calls, writes checkpoints, and after a crash finds out what has to be resumed
and what a person has to look at.

This directory holds its formal model. Scheduling, the life cycle of runs, the
execution of one run in its sandbox, the governance of tool calls and the
services around them (gateway, admission, policies, tenants, timeline,
shutdown, the user's page, workspace results) are modelled and model-checked with
TLC. Proved with TLAPS, for every value of the constants, is the safety of the scheduler
and its rotation, the coordinator, the managed runtime, the governance of tools,
policies, tenants, admission, shutdown with the warm pool, workspace results and the
user's page, and that the three detailed models implement their abstract specifications.
`PROJECT.json` lists the runs, the mutants, the map from definitions to source
lines, the hazards, the findings and the theorems. Paths below are relative to
the repository (`src/src/...` is its `src` directory).

## 1. Inventory

### The components and how they interact

    HTTP API / recovery ──> HarnessApplication ──> RunQueueCoordinator <── RunQueuePump (timer)
                                                     │         │
                                      TenantRunScheduler   RunService ──> RunStore (SQLite)
                                                     │         │   ^
                                          admission policy     │   │ runtime events (synchronous emitter)
                                          resource observer    v   │
                                                 ManagedAgentRuntime ──> Supervised runtime
                                                   │      │                  │
                                            HarnessInstance Sandbox   WorkerProcessRuntime ~~IPC~~> worker
                                                                             │                        │
                                                                      ToolGateway <──────────── LLM gateway

Everything on the left of `~~IPC~~` runs in one Node process, so the concurrency
is that of one event loop: a handler is atomic until its next `await`, and at
each `await` any other handler may run. `better-sqlite3` is synchronous, so a
transaction is one atomic step. The worker is a second process that talks to
the master by messages.

| component | source | state it keeps | operations | what makes it correct |
|---|---|---|---|---|
| Tenant run scheduler | `scheduling/tenant-run-scheduler.ts` | queue per tenant, rotation of tenants, active runs | `enqueue`, `claimNext`, `release`, `removeQueued` | limits, one run per conversation, FIFO per tenant, no run twice, fair rotation |
| Run queue coordinator, pump | `scheduling/run-queue-coordinator.ts`, `run-queue-pump.ts` | resume inputs, instance retry counters, single-flight drain | `submit`, `submitResume`, `interrupt`, `drain`, `attemptNext`, TTL sweep, reconciliation | no slot leaked or returned twice, every QUEUED run leaves, waiting time never reset |
| Run service, state machine | `runs/run-service.ts`, `run-state-machine.ts` | active runtime handles | create, start, resume, interrupt, runtime events, tool phases | terminal states are final, no write on a stale read, events of an old invocation do no harm |
| Run store, timeline | `runs/runstore.ts`, `events/run-event-timeline.ts` | rows, events | `update`, `append` | every stored transition is allowed |
| Startup recovery | `checkpoints/*`, `scheduling/queued-run-recovery-service.ts` | recovery records | restore the queue, scan interrupted runs, decide, execute | nothing is forgotten or started twice across crashes, startup terminates |
| Application | `app/harness-application.ts` | — | start, stop, submit, resume, interrupt, review of unknown effects | orderly start and stop |
| Managed runtime | `runtime/managed-agent-runtime.ts`, `supervised-agent-runtime.ts` | running attempts, execution timers | slot, sandbox, delegate, timeout, forced stop, cleanup | slot and sandbox returned on every path, every invocation returns |
| Worker process runtime | `runtime/worker-process-runtime.ts`, `worker/*` | child processes, interrupt flags, pending tool requests | start, interrupt, abort escalation, tool messages | one end report per invocation, a lost or late message harms no other run |
| Tool governance | `tools/*` | tool executions with effects | prepare, complete, mark unknown, approve | no effect executed twice, an unknown effect is never resumed blindly |
| Harness instances | `instances/*` | instance status, slots | acquire, release, fail, reset | slots within capacity |
| Sandboxes, warm pool | `sandbox/*` | containers, pool | create, take, close, reconcile | no container shared or forgotten |
| Resources and admission | `resources/*` | last observation, decisions | probe, classify, decide | no start over budget or on a critical observation |
| LLM gateway | `llm-gateway/*` | backend health, circuits | route, fall back, probe, compact, repair | circuits open for what a backend did, requests are accounted once, rewritten traffic stays valid |
| Effective policies | `policies/*` | versioned policies | merge, compile, enforce | a lower layer never widens a higher one |
| Tenants, auth, control plane, conversations | `auth/*`, `control-plane/*`, `http/*` | credentials, templates, versions, instances, sessions | authenticate, own, create lazily | a tenant sees and uses only what is its own |
| Timeline, Pi adapter, evaluation | `events/*`, `runtime/pi-adapter.ts`, `eval/*` | events, output chunks, usage | emit, forward, record | what is told of a run is what its agent did |
| Workspace results | `workspaces/*` | manifests, diff, artifacts | capture before and after, collect | the difference belongs to the run's time, artifacts are what was read |
| User console | `http/user-console-client.js` | the open conversation, its timer | open, refresh, poll, send, sign in and out | never an older answer over a newer one |
| Storage, load campaign scripts, demos | `storage/*`, `scripts/*`, `demo/*` | tables | migrations | no logic of the harness |

### What is hard here

* **Stale reads across awaits.** `executeQueuedRun` reads the run, awaits the
  admission decision and then a workspace snapshot, and only then writes
  RUNNING. In each gap the run can be interrupted, failed, resumed by the user,
  or reached by an event of its previous invocation.
* **An invocation outlives its run's status.** The slot is held until the
  snapshots after the run are taken, while the status is already INTERRUPTED, and
  a resume can be requested in between.
* **Three places that know who waits**: the store (QUEUED), the memory queue and
  the map of resume inputs. They are updated in different steps and reconciled.
* **Single-flight drain** with a request flag, a shared failure and a barrier at
  the end of every round.
* **Retries and waits**: deferral moves an entry to the tail, instance retries
  are counted, and the TTL must be counted from the first entry through all of it.
* **Crash at any point**, also in the middle of recovery.
* **Fairness of the rotation** when the aging rule jumps over it.
* **Several terminates of one sandbox**: the `finally` of the execution, the timeout, an
  interrupt and the clean-up after a lost sandbox race for the row and for the
  container.
* **A verdict long after the decision**: the gateway judges a backend when the
  client has read a stream to its end, admission decides on facts read before the
  probes, a handler acts for a principal it authenticated before it awaited the body.
* **Answers that overtake each other**: the worker's last messages and its exit, the
  console's refreshes, removal and creation of warm containers.

The hazards, line by line, with the properties aimed at each or the reason why
none is there yet, are in `PROJECT.json`.

## 2. The modules

| module | role | source |
|---|---|---|
| `TenantRunQueues` | the data structure: queues, rotation, active set and the four operations as operators on one record; `Consistent`, the invariant of the structure | `tenant-run-scheduler.ts` |
| `TenantRunScheduler` | the class by itself: any caller, a clock, one action per operation | same |
| `SchedulerTurns` | history variables for the fairness of the rotation, fair claims | same |
| `RunExecution` | abstract specification: what the coordinator, the run service and startup promise together about phases, slots and invocations | — |
| `RunQueueCoordinator` | the system: coordinator, pump, run service, run store, startup recovery, with requests, runtime events and crashes | `run-queue-coordinator.ts`, `run-queue-pump.ts`, `run-service.ts`, `runstore.ts`, recovery |
| `HarnessInstances` | the row of an instance: its state machine and its slots, as operators | `instances/*` |
| `SandboxLifecycle` | abstract specification: what the sandbox layer promises about rows and containers | — |
| `ManagedRuntime` | one invocation from slot to clean-up, with the supervised runtime, worker or Pi session, docker, a crash and the start-up reconcilers | `managed-agent-runtime.ts`, `supervised-agent-runtime.ts`, `worker-process-runtime.ts`, `pi-adapter.ts`, `container-sandbox-provider.ts`, reconcilers |
| `ToolLedger` | abstract specification: what the governance of tools promises about records and real effects | — |
| `ToolGovernance` | one run's governed tool calls: master, worker, the two pipes, crashes, recovery, a person | `tools/*`, the tool messages of `worker-process-runtime.ts`, `worker-tool-gateway.ts`, `recovery-decision.ts` |
| `LlmGateway` | requests, fallback, streams, circuit breakers, probes | `llm-gateway.ts`, `model-router.ts`, `backend-health-monitor.ts` |
| `GatewayTraffic` | what the gateway changes in requests and streams | `context-budget.ts`, `prompt-prefix.ts`, `tool-call-argument-repair.ts` |
| `ResourceAdmission` | probes, classification, budgets, decisions of overlapping attempts | `resources/*` |
| `RunPolicies` | layers, compilation, enforcement by the guard and in the sandbox | `policies/*`, `tools/tool-policy-guard.ts`, sandbox providers |
| `TenantAccess` | from an HTTP request to a stored run, with the lazily made control plane | `harness-http-api.ts`, `auth/*`, `control-plane/*`, `templates/*`, `sessions/*`, `workspaces/*` |
| `RunTimeline` | events, output and status of one run, in process and through a worker's pipe | `pi-adapter.ts`, `run-service.ts`, `events/*`, `eval/*` |
| `ServiceShutdown` | start, ticks, stop, close, and the warm pool | `harness-application.ts`, `run-queue-pump.ts`, `container-warm-pool.ts`, `create-harness-application.ts` |
| `UserConsole` | the user's page against a server and a network | `user-console-client.js` |
| `WorkspaceResults` | manifests, difference and artifacts of a run | `workspaces/*`, `run-service.ts` |
| `RunServices` | the services side by side, `component` says which one takes steps, with their properties; without the console, admission and traffic, so that the proofs about the others have only what they need in scope | |
| `Services` | console, admission and traffic in addition, the types and properties of all, and the specification that TLC explores | |
| `...Theorems` | lemmas and theorems about `TenantRunQueues`, `TenantRunScheduler` (with `SchedulerTurns`), `RunQueueCoordinator`, `ManagedRuntime`, `ToolGovernance`, `GatewayTraffic`, `RunServices` (tenants, timeline, results, shutdown, gateway) and `Services` (policies, console, admission, traffic, and all services together) | |
| `MC...` | constants for TLC | |

`RunQueueCoordinator` uses `TenantRunQueues`, so what the coordinator's runs check
and what the scheduler's proofs are about are the same definitions.
`RunQueueCoordinator` implements `RunExecution` under the mapping at the end of
the module (`Execution == INSTANCE RunExecution WITH ...`), `ManagedRuntime` implements
`SandboxLifecycle` (`Lifecycle`), `ToolGovernance` implements `ToolLedger`.

### How `TenantRunQueues` corresponds to the code

The record has the three fields of the class: `queue` (`queuedByTenant`), `order`
(`tenantOrder`) and `active` (`activeByRunId`). A queue entry is a run and its
`enqueuedAt`; tenant and session are functions of the run, as they never change.
`Enqueue`, `Release`, `RemoveQueued` are the methods; `Claim` is `claimNext`
with its two paths, the aged entry first and then the rotation. The code
enumerates the rotation with indices and moves the tenants it skips to the tail
while it looks; `Turned` states the result. `listQueue` and
`listQueueBlockers` change nothing and are left out.

### How `RunQueueCoordinator` corresponds to the code

*Atomicity.* `attempt[r].pc` says at which `await` the `attemptNext` call that
holds run `r` stands: the admission decision, the snapshot before the run, the
runtime's own call, the snapshots after it. Every action is one continuation,
from an `await` to the next, with everything it changes. Some synchronous
stretches iterate (the TTL sweep, the reconciliation, the claims of a round, the
three phases of the startup); they take a step per iteration, and `loop` names the
stretch. No other handler runs while `loop # "free"`; only a crash can cut it, as in
the process itself. Splitting the stretches this way keeps the definitions as
short as the loops' bodies.

| state | code |
|---|---|
| `status`, `ckpt`, `updatedAt` | columns of `agent_runs`; the checkpoint is its number among those the run has written |
| `queuedFor` | the checkpoint named by the last RUN_QUEUED event of the run |
| `sched` | the `TenantRunScheduler` |
| `pending` | `pendingResumeByRunId` |
| `notReady` | `instanceNotReadyAttempts` |
| `interrupting` | interrupt calls that await the runtime |
| `drain` | `drainPromise`, `drainRequested`, the pass's remaining attempts, whether one was rejected |
| `plans` | recovery plans the startup has still to execute |

*Time.* Times are only compared with the present, against the TTL and the aging
limit. The clock stands at `Now == QueueTtl + 1` and `Tick` moves every stamp one
unit into the past, down to 0, where it is over the TTL. This gives a finite
model of unbounded time with no bound on the clock, so liveness can be checked.

*Choices.* Admission may say start, or defer with or without an exception of the
observation; snapshots succeed or throw; a runtime call reports any end, throws,
or throws the instance slot error at once; a tool call ends, writes a
checkpoint or not, or is given up by the worker; a recovery plan is a resume or
a manual review. These are the outcomes this module can see of the parts that
`ResourceAdmission`, `WorkspaceResults`, `ManagedRuntime` and `ToolGovernance` model.

*Abstracted.* Texts, payloads, timeline entries other than RUN_QUEUED and the
bookkeeping of QUEUE_BLOCKED events. The direct `start` and `resume` of the run
service that go past the queue have no caller in the application.

### How `ToolGovernance` corresponds to the code

The module follows one run through any number of workers. A tool call goes
through four handlers in two processes: the worker asks (`Ask`), the master
records and permits (`HandlePrepare`), the worker performs and reports
(`Receive`, `ToolEnds`), the master writes result, checkpoint and pointer in one
transaction (`HandleComplete`), and the worker lets the call return. Between any
two of them a timer may fire, either process may die, and a person may
interrupt, resume or rule.

| state | code |
|---|---|
| `run`, `ledger`, `ckpt` | `agent_runs.status`, `tool_executions.status` by call, `agent_runs.checkpoint_id` (named by its call) |
| `prepares`, `ended` | `pendingToolPrepares`, `completedNormally` |
| `toWorker`, `toMaster` | the worker's stdin and stdout; first in, first out, nothing is lost while both ends live |
| `tool` | the position of `WorkerToolGateway.execute` by call, with its entry in `pending` |
| `performed` | how often `invokeTool` was started: the real effect, which no process knows |
| `stray` | permissions in the pipe of a worker whose master died |

*Atomicity.* A message handler of either side is synchronous and is one action.
A worker's last runtime event and the end message after it are one message
(`END`). The child's exit is noticed without waiting for what is left in its
stdout, as `child.exited` does: the handlers may read it afterwards.

*Abstracted.* A worker uses a tool call id at most once; the same ids come back in
the workers of later resumptions, which is what the replay decision is about. A
worker is started when the pipe of the previous one is read. `Interrupt` stands for
a user's interrupt, the execution timeout and a sandbox failure; the worker may
learn of it at once, late, or never. The policy guard may refuse any call. The
database does not fail. `IDEMPOTENT_WRITE` is treated like `UNKNOWN_EFFECT` by the
code, so the checked instance has one read and one write of unknown effect; the proofs
cover all three. The in-process path without workers is left out.

### How `ManagedRuntime` corresponds to the code

An attempt `<<run, number>>` names its row in `run_attempts` and its sandbox. `call[r]`
is the `await` at which `ManagedAgentRuntime.execute` of run `r` stands, or, inside it,
`SupervisedAgentRuntime`: docker run or lease, inspect, the race of runtime, timeout and
forced stop, the escalation after the timeout, the closing terminate. `asking[r]` is the
same for an interrupt of the user, which runs beside it. `inner[r]` is what the inner
runtime holds for the run: the promise of the call, the child process or Pi session (not
started, working, ended), the interrupt flag, the abort request. A `docker rm` in flight
is a record in `removal` with the caller that waits for it.

| state | code |
|---|---|
| `inst` | `harness_instances`: actual state and active runs |
| `attempt`, `record` | `run_attempts.status`, `sandboxes.status`; both stores compare the status they replace |
| `container` | what docker has |
| `launching` | `docker run` or `rename` of a service that died, still on its way |
| `leaked` | history: containers that nobody will remove, see `NoForgottenContainer` |
| `named`, `watched` | `containerBySandboxId`, `activeBySandboxId` |
| `unreturned` | history: attempts whose slot was never given back |

`isolation` picks worker processes or Pi inside the service at the start. A crash drops
memory, keeps rows and containers; `Restart` runs the reconcilers of slots, attempts and
sandboxes row by row, and a container that cannot be removed ends the start. A docker
command is a process of its own and outlives the service: a `docker rm` on its way at the
crash may still end, a `docker run` may still make its container at any later moment
(`LateContainer`). A `docker rm` may have removed the container or not (`RmReturns`); its
callers do not look.

### The services

Each module's header names its code and what it abstracts; the choices that matter:

* `LlmGateway`: a call is at `fetch`, reading a JSON body, relaying a stream or
  delivering its tail. The client pulls, so how far a stream was read is the client's
  choice, also to stop. Time is the cooldown of a circuit only. Backends are numbers in
  the configured order; the list of candidates is the one arrangement of the usable ones
  that the strategy's order admits.
* `GatewayTraffic`: sizes and roles instead of texts for compaction; symbols of JSON for
  the repair, white space among them, because the repair is about their nesting and
  about what it strips. What a document becomes when it is cut at any place is computed
  as in the code.
* `ResourceAdmission`: what `/metrics` and `nvidia-smi` print is chosen from small sets
  of samples; parsing of sample lists (sum, maximum, missing, out of range), thresholds
  and the policy's arithmetic are modelled, percentages exactly. Weights are whole
  numbers, also in the proofs; the code parses fractions too.
* `RunPolicies`: one list of each kind stands for those treated alike. The same operators
  compile a policy, compare it with the template and check a tool call.
* `TenantAccess`: ids derived from the tenant are represented by it. A handler that
  awaits its body holds principal and ids in `request`. Every store write is a step of a
  sequence (`Writes`), and a crash leaves any prefix.
* `RunTimeline`: the adapter's closure (`session`), the pipe, and
  `run_events`/output/status as `told`. What a run does is bounded by `bound`, one of
  `Bounds`, chosen at its start.
* `ServiceShutdown`: runs lease warm containers, a replenishment follows, and close takes
  the steps pump, runs, pool, database. Any docker command may fail, and those under way
  outlive their process: a removal, a creation, the rename of a lease.
* `UserConsole`: a conversation is the version of its runs on the server; requests are
  answered in any order or fail.
* `WorkspaceResults`: files are read one at a time while anyone may change them; the
  writes of a capture are steps of their own, with a crash between them; a queued run is
  executed as new or as resumed, whether or not it was executed before.

`Services` takes one of them per behaviour: `ServicesInit` picks the component, the
variables of the others stay idle. They share no state in the code beyond ids,
so their interleavings would add nothing, and one run explores them all.

## 3. What is checked

Twelve runs. With two workers TLC finishes each in about a minute or less, `services` in
about two minutes and `managed_runtime` in three to four.

| run | question | instance |
|---|---|---|
| `scheduler` | Does any sequence of calls keep the scheduler consistent, on the rotation path and on the aged path? | 5 runs, 2 tenants, 3 slots, 2 per tenant, one session shared by two runs, aging after 1 tick, time 0..2 |
| `scheduler_turns` | Is the rotation fair without aging, and does every run leave its queue? | 5 runs, 3 tenants, 2 slots |
| `run_queue` | Two attempts in parallel with submissions, resumes, interrupts, late events and failures at every `await`: slots, resume inputs, sweeps, terminal states, and the abstract specification | 2 runs, 2 slots, 1 checkpoint, no crash, TTL 0 |
| `run_queue_liveness` | Does every QUEUED run leave QUEUED when two compete for one slot? | 2 runs, 1 slot |
| `run_queue_restart` | Do the same promises hold through crashes, also in the middle of recovery? | 1 run, 2 crashes, 2 checkpoints, 1 instance retry |
| `tool_governance` | Do records and real effects agree through timeouts, deaths of worker and master, late results, resumptions and rulings, and is `ToolLedger` implemented? | 1 read and 1 write of unknown effect, 3 workers |
| `managed_runtime` | Are slots, containers, attempts and rows settled on every path through timeouts, interrupts, worker deaths, lost sandboxes, a crash and the reconciliation, does every invocation return, and is `SandboxLifecycle` implemented? | 2 runs of one tenant, 2 attempts in all (both runs at once, or one resumed), 1 crash, with and without worker processes |
| `services` | One service at a time: is what it stores, answers or shows justified by what happened? | below |
| `resume_lost`, `instance_retry`, `startup_blocked`, `refused_result` | the findings of section 5 | 1 run; for the last 2 calls, 3 workers |

**The properties.**

* `WithinLimits`, `SessionsAreSerial`, `NoRunTwice`, `OrderIsBacklog`: the limits and
  the agreement of the three parts of the scheduler after every sequence of calls.
* `ClaimsFromTheHead`: whichever path claims, the run is the head of its tenant's
  queue; README's FIFO within a tenant. (A deferred run goes to the tail, as a
  new enqueue.)
* `TenantsTakeTurns`, `NoStarvation`: no tenant is served twice while
  another one that could be served waits; stated without aging, as an aged
  tenant with many old runs is meant to overtake.
* `SlotsAreAccountedFor`: the scheduler's active runs are exactly those held by an
  attempt. Every one of the exits of `attemptNext` is in the model.
* `PendingHasItsRun`: a resume input exists only for a run that waits or is being
  attempted, and names a checkpoint of that run.
* `SweepsAreExclusive`: the sweep and the reconciliation never run with an attempt in
  flight, the reason why re-queueing an orphan cannot be refused.
* `RunningHoldsSlot`: after startup a RUNNING run has a slot.
* `WaitIsNeverReset`: through deferral, reconciliation and restart the TTL clock of a
  waiting run is never set back.
* `Promise`: the steps of the system are steps of `RunExecution`: a run starts only from
  the queue with a slot it has not used, ends only as its phase allows, no late event,
  timeout or recovery leaves a terminal state, slots are given and taken as promised,
  and a restart takes all of them.
* `QueuedRunsLeave`: leads-to, under fairness.
* `UnsafeAtMostOnce`: a call that is not read-only is performed at most once.
* `NothingUnrecorded`: what was performed, or may still be by a worker without a
  master, has a row.
* `CheckpointIsSettled`: the checkpoint stands for a call that was performed and
  recorded as a success, also when a ruling and a late result race.
* `AutoResumeIsSafe`: startup resumes a run by itself only when everything that may have
  had an effect has an outcome on record.
* `Promise` of `ToolGovernance`: records and effects move as in `ToolLedger`: a record
  comes before the effect, success is recorded only of what happened, and a settled
  record never changes.
* `SlotsAreReturned`: the slots of an instance are those of invocations in progress. The
  exception is named: an attempt whose closing terminate lost a race (observation 1
  below).
* `NoForgottenContainer`: a container belongs to an invocation, is being removed, or has
  an unsettled row which the next start cleans up. Two exceptions are named: docker did
  not remove it, or the `docker run` of a service that died made it after the next start
  had settled its row (observation 2 below).
* `RunningIsExecuting`: a RUNNING attempt is being executed, also after a restart,
  except one whose sandbox had been terminated before the crash.
* `KeepsSandboxLifecycle`: the refinement; a settled row never changes and is settled
  only over a container that is gone, going, or one of the two exceptions.
* `InvocationsReturn`: under fairness, whatever worker, model and container do.
* `RoutingIsFair`: a circuit opens only for failures of distinct requests, each charged
  to a backend that failed it and never for what a client did; a request ends with one
  decision, no backend is tried twice, and the load of a backend is what waits for it.
* `AdmissionsAreSound`: a start is justified by the snapshot stored with it, and no
  tenant runs more than its budget and share, though every decision uses facts read
  before the probes were awaited.
* `EveryLayerIsRespected`: what an attempt is offered and does, and what its sandbox
  allows, is permitted by each of the five layers in force when it started, whatever the
  registry holds by now.
* `TenantsStayApart`: the workspace and session of a run belong to its tenant, no one
  acts on another tenant's run, and a tenant that a crash or a configuration left half
  made has nothing that depends on the missing part.
* `TimelineTellsTheTruth`: a model call that ended is counted once unless its end is
  still in the pipe, its rows are in order, a governed tool call has its start on
  record, and a run that says it waits for a tool has one that is not settled.
* `PoolIsDrained`: a warm container has one holder and none is forgotten but what docker
  refused to remove and what the `docker run` of an earlier process made after the pool
  had looked; the pool keeps its capacity; once it is being closed no invocation is
  left, and after the close nothing is kept or made.
* `PageFollowsConversation`: once an answer for the open conversation has arrived, no
  late answer for another one and no older one for the same is shown; while a run is
  active the page polls, unless it says that it may be out of date.
* `TrafficStaysUsable`: a compacted request is a suffix of whole turns, fits or is one
  turn, drops no more than it must, and has no tool result without its call; arguments
  reach the client as sent or closed to JSON at their end, and exactly as the model
  wrote them when only closing brackets were lost, unless white space stood before
  those: then they reach it as received.
* `ResultsAreWhatWasLeft`: a listed artifact can be read and is a file of the stored
  difference with the stored hash. That difference is between the first start of the run
  and the AFTER manifest through interrupts and restarts, with two exceptions, both
  named: a refused resumption takes BEFORE again, and a death between the two writes of
  `captureAfter` leaves the older difference, or none, beside the newer manifest.

**Bounds and why they are enough.** Two runs and two slots give every interleaving of
two attempts, the barrier at the end of a round and the competition with a submission;
the attempts share only the scheduler and the drain, whose behaviour for more runs is
the subject of the `scheduler` runs and of the proofs. `QueueTtl = 0` makes a run
overdue one tick after it is queued, so that the sweep competes with everything else.
One checkpoint tells a resume from a start; a second one (the restart run) is what makes
a stored event stale. Two crashes let the second fall into the recovery from the first.
Three tenants are needed for a rotation in which a skipped tenant can be overtaken. The
bounds are `MaxTime` in `TenantRunScheduler`, `MaxCkpt` and `MaxCrashes` in
`RunQueueCoordinator`, `MaxWorkers` in `ToolGovernance`, `MaxAttempts`, `Interruptible`
and `MaxCrashes` in `ManagedRuntime`, and the `Max...` of the services; the ids of the
services (requests, calls, tokens, containers) are used once each, so their number is a
bound too; nothing else is cut off. Three workers let a call be in doubt, be asked for
again, be refused or repeated, and come back once more; the pipes are bounded by the
calls themselves. In `ManagedRuntime` two attempts tell two runs that share an instance
from one that is executed again after an interrupt, a timeout or a crash; which of the
two happens is a choice. One run of the two may be interrupted, the other one stands for
those beside it.

The instances of `services` (`MCServices.tla`):

| component | instance | why |
|---|---|---|
| gateway | 2 requests, 2 backends, threshold 1 | one stream still relayed while the other request falls back, and a stale candidate list |
| traffic | budget 8 with messages of 1 and 3, at most 5 messages; five JSON texts cut at any place | several turns that do not fit, one that does; brackets, quotes and white space inside strings, white space between tokens and before the last bracket |
| admission | 3 runs of 2 tenants, weights 1 and 2, 6 answers of vLLM and 4 of the GPUs | missing, summed, critical and invalid samples; the fair share competes with the absolute budget |
| policies | 7 policies in each layer, 4 paths, 2 providers, 4 profiles | for each field one policy that restricts it |
| tenants | 1 API key and 1 login, 2 sessions, 2 workspaces, 2 configurations, 2 runs, 1 waiting handler | a stranger's ids, a revoked credential and a configuration changed by a restart |
| timeline | 2 model calls and 1 tool with 2 attempts; 1 call and 2 parallel tools; a pipe of 2 | a late event of the call before, an exit noticed before the last messages are read |
| shutdown | 3 runs with 2 keys, 4 containers, capacity 1, 2 starts | two keys compete for one place, a stop meets a creation, a start meets leftovers |
| console | 2 conversations, versions 0..2 and 2 of one only, 2 requests in flight | an answer of the conversation before, or an older one of this |
| results | 2 files, 2 contents, 3 changes, 2 attempts | changes before, in the middle of and after a scan |

**Fairness.** Weak for the synchronous stretches (the event loop continues what it
started) and for the pump's timer (`setInterval`). Strong for `Tick`: the clock does not
wait for the loop, but the model lets it move only between handlers. For each `await` of
an attempt, weak fairness: policies answer, snapshots finish or throw, and the
supervised runtime's execution timeout ends an invocation. Strong for the return of an
interrupt call, which the escalation to SIGKILL guarantees while handlers alternate. No
fairness for requests, runtime events other than the end of the call, and crashes.
`scheduler_turns` assumes that claims and releases go on being made, which is what the
drain and the end of attempts do. `managed_runtime` has weak fairness for what an
invocation waits for: docker commands answer or fail, timers expire, settled promises
run their continuations. Its subscript is the two variables every such step changes, which
says the same as all variables and costs TLC less. Nothing is assumed of the worker, the
model, the user or a restart.

**Deadlock** is checked except in four runs: `run_queue_restart` and `startup_blocked`,
in which a failed startup leaves a process with nothing to do (the state
`StartupSucceeds` is about), and `managed_runtime` and `services`, whose components may
stop when all requests are answered.

## 4. What is proved

The theorems are listed in `PROJECT.json`, each with the property it states. Every
inductive invariant below was first checked by TLC, on the instance of the run that
checks its property. They all have the same outline: the property is not inductive,
because it depends on something that is only decided elsewhere; the invariant says what.

**The scheduler.** `TenantRunSchedulerTheorems` proves for every finite set of runs,
every set of tenants and all limits, as theorems of `TenantRunScheduler!Spec`:
`TypeCorrect`, `LimitsAreKept`, `ConversationsAreSerial`, `RunsAreScheduledOnce`,
`RotationIsTheBacklog` and `TenantsAreServedInOrder` (an action property).

*Assumptions*: those of the modules and no others. `RunAssumption` and
`TenantAssumption` (finite runs, each with a tenant), `LimitAssumption` (positive
limits, a tenant's no greater than the global one, and the aging limit a natural, which
the constructor checks) and `TimeAssumption` (the bound of the clock is a natural).

*Argument.* The inductive invariant is `Consistent(sched)` with the range of the clock.
Limits and serial conversations are inductive by themselves, as every claim tests them.
The rest is not: that a run is in no queue twice needs that it is not active while it
waits (or `Release` and a new `Enqueue` could meet an old entry) and that an entry is in
the queue of its own tenant; that the rotation is the backlog needs that it lists no
tenant twice, since `removeQueued` takes one occurrence out; and both claim paths need
that a tenant in the rotation has a queue with a head. `Consistent` is the conjunction
of these. `TenantRunQueuesTheorems` proves one lemma per operation (`EnqueueConsistent`,
`ReleaseConsistent`, `ClaimConsistent`, `RemoveQueuedConsistent`) from lemmas about the
sequences: what turning the rotation and removing a tenant or an entry do to elements
and multiplicity. Aging and rotation share `TakeConsistent`: whichever index is claimed,
taking the head of a tenant that may be served preserves `Consistent`. A second group
says what an operation does to waiting and active runs (`EnqueueEffect`, `ClaimEffect`
and so on); the coordinator's proofs cite these and never look into the queues.

*The rotation* is the subject of two theorems about `TurnSpec`.
`OnlyAgedClaimsPassTwice` holds for every aging limit: a tenant is served twice past
another one that could be served only by a claim on the aged path. `NobodyIsPassedTwice`
is the property of the run `scheduler_turns`, and has the hypothesis of that run,
`AgingMs = 0`: with the default of a minute an aged tenant is meant to overtake. The
invariant `TurnInv` says that a tenant which another one has passed can still be served
and stands before it in the rotation.

**The coordinator.** `RunQueueCoordinatorTheorems` proves `TypeCorrect`,
`SlotsAreNeverLeaked`, `SweepsMeetNoAttempt`, `ResumeInputsAreNotOrphaned`,
`RunningRunsCount`, `TheWaitIsKept` and `ImplementsRunExecution` for every finite set of
runs, all limits, TTLs and retry limits, and any number of checkpoints and crashes.
*Assumptions*: those of the scheduler, `BoundAssumption` (naturals) and `AgingAssumption`
(the model's clock reaches the aging limit).

*Argument.* A slot is given back by the attempt that holds it; that it is still there to
do so needs that the drain does not end under it, which needs that the sweeps and the
reconciliation find no attempt, which needs that a restart leaves none. The invariant has
a part for the queues (`Consistent`, and no entry is younger than the wait of its run),
for slots and the drain (`SlotInv`: active runs are those in flight, only a drain has
some, the stretches that sweep have none), for each run (`RunInv`: a RUNNING run has an
attempt that has not been told its end; a resume input belongs to a run that is held and
to the checkpoint it was queued for) and for the startup (`StartInv`: a plan is for an
INTERRUPTED run, and what is in the queue during the restore is QUEUED in the store).
There is one lemma per action. The refinement maps each of them to one step of
`RunExecution` or to a stutter; `RunInv` is what excludes that an attempt ends a run that
has been started again.

**The managed runtime.** `ManagedRuntimeTheorems` proves `TypeCorrect`, `SlotsComeBack`,
`RunningAttemptsExecute`, `ContainersAreRemembered` and `ImplementsSandboxLifecycle` for
every finite set of runs, any number of attempts and crashes, with and without worker
processes. *Assumptions*: `RuntimeAssumption` (finite runs, each with an instance).
Nothing is assumed of docker.

*Argument.* Several terminates of one sandbox race with each other and with a crash, so
the invariant is about each of the things they share: per attempt, that name, watch and
RUNNING row belong to a supervised call or to a crash (`AttemptInv`); per container, that
somebody removes it, an unsettled row remembers it, or it is left behind
(`ContainerInv`); per removal, that
the call which waits for it is the one of its attempt (`RemovalInv`); per instance, that
its count is the number of holders (`InstanceInv`); and that without a service nothing is
remembered (`LifeInv`). A count never goes below zero because the one who gives a slot
back is one of its holders.

**The governance of tools.** `ToolGovernanceTheorems` proves for every set of calls, every
assignment of effects and any number of workers, as theorems of `ToolGovernance!Spec`:
`TypeCorrect`, `UnsafeCallsAtMostOnce`, `EffectsAreRecorded`, `CheckpointsAreSettled`,
`AutoResumesAreSafe` (an action property) and `ImplementsToolLedger`, the refinement.
*Assumptions*: `CallAssumption` (every call has one of the three effects, and "no call"
is not a call) and `WorkerAssumption` (the bound is a natural).

*Argument.* That an unsafe call is performed at most once is not inductive: the next use
of a permission is decided by what is in a pipe. The invariant follows the permission.
It is in one place only: once in the pipe to the worker, or with a worker that lost its
master, or spent (`OnePermission`); wherever it is, the call has a row (`Recorded`), so
that `ToolGateway.prepare` gives no second one; and what a worker holds as a result, has
written as a result, or the master has recorded as a success was performed
(`ResultsAreReal`). There is one lemma per action or group of actions, over lemmas about
what reading and writing a pipe does to the permissions in it. A crash moves permissions
from the pipe to the stray worker, which is why `stray` has to be in the state. The
refinement follows from the same invariant: `Receive` and `Stray` are `Perform`,
`HandlePrepare` is `Record` or a stutter, `HandleComplete` settles one call, a ruling
all that are in doubt.

**Policies.** `ServicesTheorems` proves for every set of tools, models and paths and
every constraints an administrator may write, as theorems of `RunPolicies!Spec`:
`PoliciesTypeCorrect` and `LayersAreRespected`. *Assumptions*: `PathAssumption` (paths
are sequences of names) and `PolicyAssumption` (the template, the workspaces and the
constraints in use have the types of the code, and `Null` is none of their values).

*Argument.* What a run may do is decided once, when its attempt starts, while the
registry goes on changing; the property is about the layers as they were then. The
inductive invariant says of every attempt that has been compiled that its policy is at
least as strict as each of its layers and that what was compiled follows from it
(`PolicyInForce`), and of one that runs that its sandbox and its last call do too
(`SandboxInForce`). That the intersection is at least as strict rests on lemmas about
the operators: being below a path is transitive (`WithinTransitive`), the paths above a
path are a chain (`WithinChain`), hence a path is below a root of an intersection
exactly if it is below a root of each side (`RootsAreIntersected`), and an intersection
is as strict as both of its arguments in every field (`IntersectionIsNarrower`).

**The other services.** `RunServicesTheorems` and the rest of `ServicesTheorems` have a
section for each. A service's theorem says of its specification that its property in
`RunServices` or `Services` always holds, whatever the value of `component`. Where
something is assumed of the constants it is the operator `Configured` of the service's
module and the theorem's hypothesis; `ServicesConfigured` has all of them, and
`MCServices` states that of its instance (`ServicesAreConfigured`), which TLC evaluates.

* `ArtifactsAreWhatWasLeft` (`ResultsAreWhatWasLeft`), without hypotheses. The difference
  is taken when a run returns, from a manifest that was read file by file at its first
  start. The invariant says that from the first attempt on the stored manifest stays the
  one of the first start unless it was taken again, and that between the two writes the
  difference is known to be old (`FirstInv`), and that a run's files are copied once,
  after everything else, so that what is on disk while they are copied is what has a
  row (`CopyInv`).
* `ThePoolIsDrained` (`PoolIsDrained`). *Configured*: finitely many keys, a capacity that
  is a number. A container is in one of the places it passes through, as its name is used
  once (`HolderInv`); one that is warm is known to somebody who will use or remove it,
  through a crash and the next start, or came too late for it (`WarmInv`); the places of the pool are counted by
  `CapacityInv`; and what the phases of the close have left behind by `CloseInv`.
* `TenantsAreKeptApart` (`TenantsStayApart`).
  *Configured*: absence is not a value. The handlers check first and write after an
  `await`; the invariant says that what a waiting handler has checked is still true
  (`Checked`): owners never change, and the store never has something that depends on a
  missing part (`Sound`), also when a crash leaves a prefix of the control plane's
  writes. There is a lemma for each of these writes.
* `StartsAreSound` (`AdmissionsAreSound`). *Configured*: runs are finitely many, and
  thresholds, limits, weights and samples are numbers, as `parseTenantBudgets`, the
  constructors and the parsers of the probes check. That the sums and maxima which the
  model folds over them are numbers too is proved, by induction over finite sets
  (section *Sums*). An evaluation decides on a count it took before the
  probes were awaited, so that no single evaluation knows how many runs its tenant will
  have. `CountInv` says that of any runs of a tenant which have a slot the one that got
  it last has counted the others; `StartOK`, that a started run was within the ceiling
  with what it had counted. The ceiling follows for any number of overlapping
  evaluations.
* `TheTimelineIsTrue` (`TimelineTellsTheTruth`). *Configured*: `Null` is no call and no
  key. What the agent did reaches the tables through a pipe, late or never, and it may
  be read when the invocation is over. The invariant speaks of one log, the stored rows
  followed by the pipe. A message follows in it what it depends on (`LogOK`): the start
  of a call comes before its first token, that before its text and its end, which is
  there once; the start of a tool before the question whether it may run. A call has
  ended exactly if its end is in the log (`CallInv`). Reading a message therefore
  changes nothing but the place where the log is cut, and losing the rest of the pipe
  with its worker leaves a prefix, which is in order too. For the status, the invariant
  says from which place of the pipe on the run is no longer RUNNING (`Quiet`): the
  return of an invocation is behind the end of its run (`StageInv`), so that no run is
  left RUNNING unless it is being aborted or waits for a tool with a row (`ToolInv`).
  That two rows never have the same key, and so that no call is counted twice however
  often it is reported, is `KeysOK`.
* `TheRoutingIsFair` (`RoutingIsFair`). *Configured*: finitely many requests, numbers of
  backends and failures. The counter of a backend and the verdicts that moved it are
  seconds and several other requests apart, so the invariant ties both to what each
  request has done. `FailuresOK`: the consecutive failures of a backend are the charges
  of requests since its last success, counted over requests, and a circuit that is not
  closed has enough of them. `ChargeOK`: whom a request may have charged at each point,
  and how often; a request that still relays has not yet charged the backend it is at,
  and one that delivers its tail at most once. `PathOK`: what it has tried and what is
  left of its list have no backend in common, so that no fallback goes back. The load of
  a backend is the number of requests that wait for its answer, and each request has the
  decisions its point requires. Nothing in it depends on the cursor, the probes or the
  strategy: that the list names no backend twice follows from the order being strict
  (`CandidatesDiffer`).
* `ThePageIsUpToDate` (`PageFollowsConversation`). *Configured*: `Null` is no
  conversation. Requests are a sequence in the order in which they were made. Only the
  last one is the newest (`Newest`), what is on its way was the server's state when it
  was served (`Backed`), a page that says nothing has its timer or the newest request
  (`Alive`; an older request that outlives it does not restart the timer and must not
  count), and one submission is on its way while the button is locked (`Locked`).

* `TheTrafficStaysUsable` (`TrafficStaysUsable`). *Configured*: budgets and sizes are
  numbers, documents are sequences of the symbols. The model's functions on messages and
  on JSON are recursive, so the proof, in `GatewayTrafficTheorems`, is an induction over
  data, with sets in place of predicates: a set of numbers has a least element
  (`LeastNumber`), a set of sequences that has the empty one and is closed under
  appending has them all (`SequenceInduction`), hence a recursive definition over
  sequences has a solution and is what its equation says (`RecursionOverSequences`, from
  which `TokensDef`, `PartsDef`, `ScanDef` and `ReadDef`). On that rest the lemmas of the
  two halves. *Requests*: a suffix of a conversation that begins with a turn has the call
  of each of its results, as a result follows its call (`Linked`); what `KeptFrom` keeps
  fits or is one turn, and with the turn before it would not fit (`CompactUsable`).
  *Arguments*: on a text that `JSON.parse` could still go on with, the scanner's mode and
  stack are those of the parser (`ScanFollowsRead`), so that the brackets it appends close
  what is open, and they are the ones the model had still to write
  (`BracketsComeBack`). Of a text that ends in white space every attempt goes on with
  something else than the text does (`WorkingAstray`), so that none of them is sent
  (`BlankEnds`). The invariant says that ids are places in the history
  (`HistoryInv`), that the last request is usable for the history it was made of, also
  when that went on (`ForwardedInv`), that what is accumulated is the beginning of a
  document (`ArgumentsInv`) and what was delivered its repair (`DeliveredInv`). The
  lemmas `Same...` of `ServicesTheorems` carry this over to `Services`.

**Types, and all services together.** Each service's type invariant is a theorem too
(`GatewayTypeCorrect`, ...), from the same inductive invariant and a conjunct for what
that one does not need. Some say more than a type: the load of a backend is counted down
and stays a natural number, because it is the number of requests that wait; a run has no
more attempts than its bound allows; the pipe, the runs of the tenants and the refreshes
of a page keep their bounds; what the tracker has accumulated is a prefix of what the
model is writing. `ServicesTypeCorrect` and `ServicesKeepTheirPromises` are about
`ServicesSpec`, the specification that TLC explores: a component that was picked stays
the one, its steps are those of its module, and the others rest (the lemmas
`...Picked`), so that each property carries over (`...Composed`).

*Only model-checked.* Every safety invariant and action property that a run checks is
also a theorem, except those of the runs that end in a counterexample. Liveness under
fairness (`NoStarvation`, `QueuedRunsLeave`, `InvocationsReturn`) and statements about
ENABLED are beyond the proof system's backends and stay with TLC.

## 5. Findings

Each is shown by a run that TLC ends with a counterexample.

1. `resume_lost` / `ResumesAreNotRestarts`. `submitResume` stores QUEUED before it asks
   the scheduler. While the interrupted invocation still takes its snapshots its slot is
   held and `enqueue` throws; the caller gets an error, the resume input is dropped, but
   the run stays QUEUED, and later starts from scratch although its RUN_QUEUED event
   names a checkpoint. The comment at `queued-run-recovery-service.ts:18` names this as
   the thing to avoid.
2. `instance_retry` / `RetriesCanStart`. A run whose instance has no slot is put back
   "for the next pump to retry" (`run-queue-coordinator.ts:452`), but the run service has
   made it INTERRUPTED by then, and the next attempt drops it. The repository's
   test uses a run service that never changes the status.
3. `startup_blocked` / `StartupSucceeds`. A tool result that arrives after its run was
   interrupted and queued for resumption writes a newer checkpoint. If the
   process dies before the run starts, the restore finds event and row
   disagreeing, throws, and neither this startup nor a later one succeeds.

4. `refused_result` / `ReturnedIsRecorded`. The master answers `false` when it cannot
   record a result, "so that the worker's call ends in an error"
   (`worker-process-runtime.ts:475`). `WorkerToolGateway.execute` ignores the answer
   (`worker-tool-gateway.ts:71`) and returns the result to the agent. The shortest
   counterexample: a run is interrupted while its tool runs, a person rules that the
   call is void, the result arrives, is refused, and is returned all the same.

The following was met while modelling. No line of the repository claims the opposite
strongly enough to make it a finding, or a document is silent. Most of these are
behaviours of the models, the others belong to code next to what is modelled; where a
property has an exception for one, the property's comment names it.

*Coordinator.* A QUEUED run can become FAILED by a late `agent_failed` event of its
previous invocation. An aged tenant with several old runs may take several turns in a row.

*Managed runtime.*
1. The closing terminate of `execute` and that of an interrupt or of the timeout compare
   and set the same row. The loser throws, `releaseRun` after it is skipped, and the
   slot is lost until a restart (`unreturned`).
2. No exit code of `docker rm` is looked at, and the second of two terminates settles
   the row while the first one's `rm` is in flight; if it fails the container is
   forgotten. So is one whose `docker run` outlives the service that issued it, when the
   next start finds no container, settles the row LOST and never looks again (`leaked`).
3. A failed lease of a warm container leaves the row PROVISIONING, a missing slot leaves
   the attempt PENDING, a crash after the sandbox was terminated leaves it RUNNING; the
   first is settled by a restart, the others never.
4. An interrupt during the creation of the sandbox flags the run, and the next worker is
   told nothing at all: it waits for the execution timeout.
5. RUN_INTERRUPTED without an event makes the attempt SUCCEEDED; a resume while the old
   worker is exiting makes it FAILED.
6. Pi's session cannot be interrupted while it is being created; a worker outlives a
   master that was killed.

*Gateway.* Without prefix caching a relayed JSON answer counts as a failure. A stream
broken in the middle of a line counts twice. A half-open circuit lets everyone in. A
stale list of candidates tries a backend that is cooling down. The request timeout also
ends long streams. The decision of a stream that breaks later remains SUCCESS, and
streams are not part of the load. `dropLeadingOrphanToolMessages` never finds anything,
as turns are dropped whole. A history that fits without the notice but not with it is
compacted. Arguments that lost more than closing brackets become JSON with another
value, although the comment says that the repair does not guess. Indented arguments that
are cut in front of a closing bracket end in white space, which the repair strips: the
result no longer begins with what was sent, and the client is left with broken JSON.

*Admission and policies.* The rounded share of a light tenant can be 0, and it never
starts. A tenant without a budget counts with weight 1 for itself, not in the total. The
resource ledger is not wired. With managed local sandboxes a restriction always refuses
`bash`. `workspaceRoots: ["/"]` permits nothing below it. The registry is in memory:
what was set over HTTP is lost by a restart.

*Tenants.* A tool listed twice in the configuration, or a crash between `createTemplate`
and `publishVersion`, leaves a template without a version, and every later submission of
the tenant fails. A changed declaration of capabilities refuses every submission; a
changed model configuration does not reach existing tenants. Sending a message writes no
RUN_SUBMIT audit row. A conversation does not reserve its session's id. A login in
flight survives the revocation of all sessions.

*Timeline.* The second attempt's SESSION_INITIALIZED and CONTROL_PREPARED are never
recorded, their keys being taken. Thinking counts as final text. Aborted and retried
calls count as usage. A worker's tools are recorded twice. With parallel tools, rows
name different calls, and the run is RUNNING while one still executes. A run whose call
was refused stays WAITING_TOOL until a restart or an interrupt, as the state machine has
no way from there to COMPLETED. The exit of a worker may be handled before its last
messages, so that a run that completed is FAILED; `agent_failed` after
`agent_interrupted` turns INTERRUPTED into FAILED.

*Shutdown.* `stop` waits for the drain, which waits for the runs, before it interrupts
them. A second `close` during the drain returns at once and closes the database. A
failed removal aborts the close. Warm containers left by a crash whose removal fails
keep the pool closed for the life of the process. The pool looks for the containers of an
earlier process once, at its first use: what a `docker run` of that process makes later
stays for good (`late`), and a lease that was being renamed may be found under neither
name. The removals in the background are not awaited.

*Console.* After a sign-out or 401 and a new sign-in the open conversation is neither
refreshed nor polled. Between opening a conversation and its answer the page's runs are
those of the one before. A network failure while opening leaves no timer, although the
banner says that it retries. A superseded refresh followed by an HTTP error leaves the
page unrendered. A late 401 of the old token signs the new session out.

*Workspace results.* A crash between the terminal status and the capture loses the
results; a run that a person closes after an interrupt gets no artifacts. A file deleted
between listing and reading makes the capture throw and hides the run's outcome; so does
one deleted between the look at it and its copy. What others change meanwhile is
attributed to the run. The refused resume of finding 1 goes through `executeQueuedRun`,
which overwrites the BEFORE manifest: from then on the difference is not that of the
first start (`retaken`). A death between the two writes of `captureAfter` leaves an AFTER
manifest with an older difference or none (`ahead`), for ever if the run has ended, and
then no artifacts either. The AFTER manifest is never read.

## 6. Not modelled, and why

* Storage: the schema and its migrations. A transaction is an atomic step of the models.
* Load campaign scripts, demos and spikes: clients and programs of their own.
* Rendering, listings and read-only routes; wiring and the parsing of configuration; the
  validation of messages.
* The agent loop of the Pi SDK, a third party's: its events are free choices of
  `RunTimeline` and `ManagedRuntime`.
* Contents of prompts, tool results and files, durations, token estimates and rates: no
  decision depends on them, or their sizes and hashes stand for them.
* The in-process path of the tool gateway beyond its events: it runs the same two phases
  around the tool without messages.
* Files and commands inside a sandbox and the arguments of docker; docker itself is
  external, its commands succeed or fail.

Two hazards of `PROJECT.json` have no property. A run that startup marked INTERRUPTED
loses its automatic recovery if the process dies before its plan is executed; no
document promises a second one. And a round waits for all of its attempts, so that one
long run delays those that could start; the liveness properties hold in spite of it, and
how long the delay is, is not something they say.

## 7. Plan

Done, in the order of importance: the scheduler, the coordinator with run service and
startup, the governance of tools, the managed runtime with instances, sandboxes and
workers, and the services; then the proofs of section 4. What is left:

1. The coordinator with two runs and a crash between them, for which the present
   definitions suffice but not the time of a run. The theorems of
   `RunQueueCoordinatorTheorems` cover the safety of that instance.
2. The second crash during recovery, once a document says what is to happen to the plans
   of the first.
3. The composition of coordinator and managed runtime, now joined by the outcomes that
   one leaves open and the other produces.
