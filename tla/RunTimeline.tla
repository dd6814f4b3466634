---------------------------- MODULE RunTimeline -----------------------------
(***************************************************************************)
(* What is told of one run while it executes: a Pi session's events pass   *)
(* the adapter and, in worker mode, a pipe, and RunService turns them into *)
(* run_events, output chunks and the status, next to the tool phases the   *)
(* governance bridge reports.  The evaluation reads those tables only.     *)
(*                                                                         *)
(* In process an event is handled when it is emitted; from a worker it is  *)
(* handled when the master reads it, which may be after the worker's exit  *)
(* was noticed, or never.  Durations and payloads are left out.            *)
(***************************************************************************)
EXTENDS Integers, Sequences, FiniteSets

CONSTANTS
  Call,         \* assistant messages, by their timestamps
  Tool,         \* tool calls
  Channel,      \* answer and thinking
  Bounds,       \* bounds on what a run does: records of its calls, its tools
                \* and the number of its attempts
  MaxPipe,      \* bound on unread messages of the worker
  Null

\* What the proofs use of the constants: nothing that is named stands for the
\* absence of a name or of a key, and bounds are numbers.
Configured ==
  /\ MaxPipe \in Nat /\ \A b \in Bounds : b.attempts \in Nat
  /\ Null \notin Call
  /\ Null \notin {"MODEL_STARTED", "MODEL_FIRST_TOKEN", "MODEL_COMPLETED", "TOOL_STARTED"} \X
                 (Call \cup Tool)

VARIABLES
  mode,        \* "in process" or "worker"
  bound,       \* the bounds of this run
  attempt,     \* executions of the run so far
  stage,       \* where the runtime is
  session,     \* the adapter's closure over one Pi session
  tools,       \* Tool -> where the agent is with it
  pipe,        \* what the worker wrote and the master has not read
  told,        \* the stored run: [status, events, output]
  executions,  \* Tool -> its tool_executions row
  listening,   \* RunService is subscribed
  aborting,    \* runtime.interrupt was called
  calls        \* history: Call -> "fresh", "begun", "ended", or "lost" when it
               \* ended and nobody was there to hear

fixed == <<mode, bound>>
vars == <<fixed, attempt, stage, session, tools, pipe, told, executions,
          listening, aborting, calls>>

Live == {"RUNNING", "WAITING_TOOL"}

\* call is activeModelCallIdByRunId, spoken firstTokenEmittedByCallId.
NoSession == [call |-> Null, spoken |-> FALSE, last |-> "none"]

Init ==
  /\ mode \in {"in process", "worker"}
  /\ bound \in Bounds
  /\ attempt = 0
  /\ stage = "idle"
  /\ session = NoSession
  /\ tools = [t \in Tool |-> "none"]
  /\ pipe = <<>>
  /\ told = [status |-> "QUEUED", events |-> <<>>, output |-> {}]
  /\ executions = [t \in Tool |-> "none"]
  /\ listening = FALSE
  /\ aborting = FALSE
  /\ calls = [c \in Call |-> "fresh"]

-----------------------------------------------------------------------------
(* RuntimeEventBridge and the stores *)

Event(type, id) == [type |-> type, id |-> id]

\* Mutant of DedupeKey: the key of a model call names the call only.
DedupeKeyOfCall(e) ==
  CASE e.type \in {"SESSION_INITIALIZED", "CONTROL_PREPARED"} -> <<e.type>>
    [] e.type \in {"MODEL_STARTED", "MODEL_FIRST_TOKEN", "MODEL_COMPLETED"} -> <<"model", e.id>>
    [] e.type \in {"TOOL_COMPLETED", "TOOL_FAILED"} -> <<"tool_finished", e.id>>
    [] OTHER -> <<e.type, e.id>>

\* session:run:initialized and control:run:prepared carry no attempt, so those
\* of a resumption are taken for duplicates; both outcomes of a tool share one.
DedupeKey(e) ==
  CASE e.type \in {"SESSION_INITIALIZED", "CONTROL_PREPARED"} -> <<e.type>>
    [] e.type \in {"TOOL_COMPLETED", "TOOL_FAILED"} -> <<"tool_finished", e.id>>
    [] OTHER -> <<e.type, e.id>>

\* Rows of lifecycle events and tool phases have no key.
Row(type, id, key) == [type |-> type, id |-> id, key |-> key]
AppendIfNew(s, e) ==
  IF \E i \in 1..Len(s.events) : s.events[i].key = DedupeKey(e) THEN s
  ELSE [s EXCEPT !.events = Append(@, Row(e.type, e.id, DedupeKey(e)))]

\* assertValidTransition in store.update; a throw is logged by the emitter.
CanTransition(from, to) ==
  \/ from = "QUEUED" /\ to \in {"RUNNING", "INTERRUPTED", "FAILED"}
  \/ from = "RUNNING" /\ to \in {"WAITING_TOOL", "INTERRUPTED", "FAILED", "COMPLETED"}
  \/ from = "WAITING_TOOL" /\ to \in {"RUNNING", "INTERRUPTED", "FAILED"}
  \/ from = "INTERRUPTED" /\ to \in {"QUEUED", "FAILED"}

Update(s, to, type, id) ==
  IF CanTransition(s.status, to)
  THEN [s EXCEPT !.status = to, !.events = Append(@, Row(type, id, Null))]
  ELSE s

\* subscribeToRuntime's handler.
Handle(s, e) ==
  CASE e.type = "delta"             -> [s EXCEPT !.output = @ \cup {e.id}]
    [] e.type = "agent_completed"   -> Update(s, "COMPLETED", "RUN_COMPLETED", Null)
    [] e.type = "agent_failed"      -> Update(s, "FAILED", "RUN_FAILED", Null)
    [] e.type = "agent_interrupted" -> Update(s, "INTERRUPTED", "RUN_INTERRUPTED", Null)
    [] OTHER                        -> AppendIfNew(s, e)

\* markToolPhase: a phase in a status that does not expect it is ignored.
MarkToolPhase(s, phase, t) ==
  CASE phase = "STARTED" /\ s.status = "RUNNING"    -> Update(s, "WAITING_TOOL", "TOOL_STARTED", t)
    [] phase = "ENDED" /\ s.status = "WAITING_TOOL" -> Update(s, "RUNNING", "TOOL_COMPLETED", t)
    [] OTHER                                        -> s

EndedIn(es) == {es[i].id : i \in {j \in 1..Len(es) : es[j].type = "MODEL_COMPLETED"}}

\* PiAdapter.emit, as the session's subscriber, for one event or two in a row;
\* in a worker through sendToMaster.
Emit(es) ==
  IF mode = "worker"
  THEN /\ Len(pipe) + Len(es) =< MaxPipe
       /\ pipe' = pipe \o es
       /\ UNCHANGED told
  ELSE /\ told' = IF Len(es) = 1 THEN Handle(told, es[1]) ELSE Handle(Handle(told, es[1]), es[2])
       /\ UNCHANGED pipe

-----------------------------------------------------------------------------
(* RunService and ManagedAgentRuntime around the invocation *)

\* executeQueuedRun, or queueResume and executeQueuedResume: subscribe first.
\* The checks of a resumption belong to ToolGovernance; an interrupt settles
\* before the slot that a resumption needs is free.
Execute ==
  /\ stage = "idle" /\ ~listening /\ ~aborting /\ attempt < bound.attempts
  /\ \/ attempt = 0 /\ told' = Update(told, "RUNNING", "RUN_STARTED", Null)
     \/ /\ told.status = "INTERRUPTED"
        /\ told' = Update(Update(told, "QUEUED", "RUN_QUEUED", Null), "RUNNING", "RUN_RESUMED", Null)
  /\ attempt' = attempt + 1
  /\ stage' = "control"
  /\ listening' = TRUE
  /\ session' = NoSession
  /\ tools' = [t \in Tool |-> "none"]
  /\ pipe' = <<>>
  /\ UNCHANGED <<fixed, executions, aborting, calls>>

\* ManagedAgentRuntime.execute emits in the master; then the sandbox is awaited.
PrepareControl ==
  /\ stage = "control"
  /\ told' = Handle(told, Event("CONTROL_PREPARED", attempt))
  /\ stage' = "sandbox"
  /\ UNCHANGED <<fixed, attempt, session, tools, pipe, executions, listening, aborting, calls>>

AcquireSandbox ==
  /\ stage = "sandbox"
  /\ told' = Handle(told, Event("SANDBOX_ACQUIRED", attempt))
  /\ stage' = "opening"
  /\ UNCHANGED <<fixed, attempt, session, tools, pipe, executions, listening, aborting, calls>>

\* The end of the invocation, seen by RunService: what is unread is not heard.
Unsubscribe ==
  /\ listening' = FALSE
  /\ stage' = "idle"
  /\ calls' = [c \in Call |-> IF c \in EndedIn(pipe) THEN "lost" ELSE calls[c]]
  /\ pipe' = <<>>

\* markRuntimeInvocationFailureInterrupted: START_FAILED or RESUME_FAILED.
InterruptedBy(s) == IF s.status \in Live THEN Update(s, "INTERRUPTED", "RUN_INTERRUPTED", Null) ELSE s

\* A refusal, a sandbox that cannot be made, a session that cannot be opened
\* or is not reachable any more.
InvocationFails ==
  /\ stage \in {"control", "sandbox", "opening"}
  /\ told' = InterruptedBy(told)
  /\ Unsubscribe
  /\ UNCHANGED <<fixed, attempt, session, tools, executions, aborting>>

-----------------------------------------------------------------------------
(* PiAdapter.start and resume: one Pi session *)

\* The closure's maps are made anew with the session.
OpenSession ==
  /\ stage' = "open"
  /\ session' = NoSession
  /\ Emit(<<Event("SESSION_INITIALIZED", attempt)>>)
  /\ UNCHANGED <<fixed, attempt, tools, executions, listening, aborting, calls>>

StartSession == stage = "opening" /\ attempt = 1 /\ OpenSession

\* The session file of the checkpoint is reachable, or this is InvocationFails.
ResumeSession == stage = "opening" /\ attempt > 1 /\ OpenSession

Executing == {t \in Tool : tools[t] \in {"started", "asked", "running", "reported", "answered"}}

\* Timestamps are distinct, also from those of an earlier attempt.
MessageStart(c) ==
  /\ stage = "open" /\ session.call = Null /\ Executing = {}
  /\ session.last \in {"none", "toolUse", "retry"}
  /\ c \in bound.calls /\ calls[c] = "fresh"
  /\ calls' = [calls EXCEPT ![c] = "begun"]
  /\ session' = [session EXCEPT !.call = c, !.spoken = FALSE]
  /\ Emit(<<Event("MODEL_STARTED", c)>>)
  /\ UNCHANGED <<fixed, attempt, stage, tools, executions, listening, aborting>>

MessageUpdate(channel) ==
  /\ stage = "open" /\ session.call # Null
  /\ session' = [session EXCEPT !.spoken = TRUE]
  /\ Emit((IF session.spoken THEN <<>> ELSE <<Event("MODEL_FIRST_TOKEN", session.call)>>)
          \o <<Event("delta", channel)>>)
  /\ UNCHANGED <<fixed, attempt, stage, tools, executions, listening, aborting, calls>>

\* An aborted or failed message has used tokens too.
MessageEnd(reason) ==
  /\ stage = "open" /\ session.call # Null
  /\ reason = "aborted" => aborting
  /\ calls' = [calls EXCEPT ![session.call] = "ended"]
  /\ session' = [session EXCEPT !.call = Null, !.spoken = FALSE, !.last = reason]
  /\ Emit(<<Event("MODEL_COMPLETED", session.call)>>)
  /\ UNCHANGED <<fixed, attempt, stage, tools, executions, listening, aborting>>

\* Tools of one message run in parallel.
ToolExecutionStart(t) ==
  /\ stage = "open" /\ session.call = Null /\ session.last = "toolUse"
  /\ t \in bound.tools /\ tools[t] = "none" /\ executions[t] = "none"
  /\ tools' = [tools EXCEPT ![t] = "started"]
  /\ Emit(<<Event("TOOL_STARTED", t)>>)
  /\ UNCHANGED <<fixed, attempt, stage, session, executions, listening, aborting, calls>>

\* Whatever became of it, and also after a governance request that timed out.
ToolExecutionEnd(t) ==
  /\ stage = "open" /\ tools[t] \in {"asked", "reported", "answered"}
  /\ tools' = [tools EXCEPT ![t] = "ended"]
  /\ \/ Emit(<<Event("TOOL_COMPLETED", t)>>)
     \/ Emit(<<Event("TOOL_FAILED", t)>>)
  /\ UNCHANGED <<fixed, attempt, stage, session, executions, listening, aborting, calls>>

\* agent_end; willRetry leaves the session to Pi's own retry.
AgentEnd ==
  /\ stage = "open" /\ session.call = Null /\ Executing = {}
  /\ \/ /\ session.last = "error"
        /\ session' = [session EXCEPT !.last = "retry"]
        /\ UNCHANGED <<told, pipe>>
     \/ /\ session.last \in {"stop", "aborted", "error"}
        /\ session' = [session EXCEPT !.last = "settled"]
        /\ Emit(<<Event(CASE session.last = "stop"    -> "agent_completed"
                          [] session.last = "aborted" -> "agent_interrupted"
                          [] OTHER                    -> "agent_failed", Null)>>)
  /\ UNCHANGED <<fixed, attempt, stage, tools, executions, listening, aborting, calls>>

\* session.prompt returns or throws; a worker reports that too, unless it was
\* interrupted, and then exits.
PromptReturns ==
  /\ stage = "open" /\ session.last = "settled"
  /\ IF mode = "worker"
     THEN /\ Len(pipe) < MaxPipe
          /\ pipe' = Append(pipe, Event("RUN_RETURNED", Null))
          /\ stage' = "exited"
          /\ UNCHANGED <<listening, calls>>
     ELSE Unsubscribe
  /\ UNCHANGED <<fixed, attempt, session, tools, told, executions, aborting>>

PromptThrows ==
  /\ stage = "open"
  /\ IF mode = "worker"
     THEN /\ Len(pipe) + 2 =< MaxPipe
          /\ pipe' = pipe \o <<Event("agent_failed", Null), Event("RUN_FAILED", Null)>>
          /\ stage' = "exited"
          /\ UNCHANGED <<listening, calls, told>>
     ELSE /\ told' = InterruptedBy(Handle(told, Event("agent_failed", Null)))
          /\ Unsubscribe
  /\ UNCHANGED <<fixed, attempt, session, tools, executions, aborting>>

\* What start subscribes to.
SessionSteps ==
  \/ AgentEnd
  \/ \E c \in Call : MessageStart(c)
  \/ \E channel \in Channel : MessageUpdate(channel)
  \/ \E reason \in {"stop", "toolUse", "aborted", "error"} : MessageEnd(reason)
  \/ \E t \in Tool : ToolExecutionStart(t) \/ ToolExecutionEnd(t)

\* The handlers of resume are a copy that reports agent_resumed instead of
\* agent_started, which RunService ignores both.
ResumedSessionSteps == attempt > 1 /\ SessionSteps

-----------------------------------------------------------------------------
(* The governed part of a tool call *)

\* A tool of this process goes straight to the ToolGateway; a worker's asks.
PrepareTool(t) ==
  /\ stage = "open" /\ tools[t] = "started"
  /\ IF mode = "worker"
     THEN /\ Len(pipe) < MaxPipe
          /\ pipe' = Append(pipe, Event("TOOL_PREPARE_REQUEST", t))
          /\ tools' = [tools EXCEPT ![t] = "asked"]
          /\ UNCHANGED executions
     ELSE /\ \/ /\ executions' = [executions EXCEPT ![t] = "PREPARED"]
                /\ tools' = [tools EXCEPT ![t] = "running"]
             \/ /\ tools' = [tools EXCEPT ![t] = "answered"]
                /\ UNCHANGED executions
          /\ UNCHANGED pipe
  /\ UNCHANGED <<fixed, attempt, stage, session, told, listening, aborting, calls>>

CompleteTool(t) ==
  /\ stage = "open" /\ tools[t] = "running"
  /\ IF mode = "worker"
     THEN /\ Len(pipe) < MaxPipe
          /\ pipe' = Append(pipe, Event("TOOL_COMPLETE_REQUEST", t))
          /\ tools' = [tools EXCEPT ![t] = "reported"]
          /\ UNCHANGED executions
     ELSE /\ executions' = [executions EXCEPT ![t] = "SETTLED"]
          /\ tools' = [tools EXCEPT ![t] = "answered"]
          /\ UNCHANGED pipe
  /\ UNCHANGED <<fixed, attempt, stage, session, told, listening, aborting, calls>>

\* handleToolPrepareRequest: recorded and WAITING_TOOL before the answer is
\* sent, or denied; the answer may find nobody waiting.
HandlePrepare(t) ==
  \/ /\ executions' = [executions EXCEPT ![t] = "PREPARED"]
     /\ told' = MarkToolPhase(told, "STARTED", t)
     /\ tools' = IF tools[t] = "asked" THEN [tools EXCEPT ![t] = "running"] ELSE tools
  \/ /\ tools' = IF tools[t] = "asked" THEN [tools EXCEPT ![t] = "answered"] ELSE tools
     /\ UNCHANGED <<executions, told>>

\* handleToolCompleteRequest; a result that cannot be recorded (a transaction
\* that fails, an execution that is not pending) leaves all as it is.
HandleComplete(t) ==
  /\ tools' = IF tools[t] = "reported" THEN [tools EXCEPT ![t] = "answered"] ELSE tools
  /\ \/ /\ executions[t] = "PREPARED"
        /\ executions' = [executions EXCEPT ![t] = "SETTLED"]
        /\ told' = MarkToolPhase(told, "ENDED", t)
     \/ UNCHANGED <<executions, told>>

\* The reader of the worker's stdout takes the next line.
ReadMessage ==
  /\ pipe # <<>>
  /\ LET e == Head(pipe) IN
       CASE e.type = "TOOL_PREPARE_REQUEST" ->
              /\ HandlePrepare(e.id)
              /\ pipe' = Tail(pipe)
              /\ UNCHANGED <<stage, listening, calls>>
         [] e.type = "TOOL_COMPLETE_REQUEST" ->
              /\ HandleComplete(e.id)
              /\ pipe' = Tail(pipe)
              /\ UNCHANGED <<stage, listening, calls>>
         [] e.type = "RUN_RETURNED" ->
              /\ Unsubscribe
              /\ UNCHANGED <<told, executions, tools>>
         [] e.type = "RUN_FAILED" ->
              /\ told' = InterruptedBy(told)
              /\ Unsubscribe
              /\ UNCHANGED <<executions, tools>>
         [] OTHER ->
              /\ told' = Handle(told, e)
              /\ pipe' = Tail(pipe)
              /\ UNCHANGED <<stage, listening, calls, executions, tools>>
  /\ UNCHANGED <<fixed, attempt, session, aborting>>

\* Killed, out of memory, or past its execution timeout.
WorkerDies ==
  /\ mode = "worker" /\ stage = "open"
  /\ stage' = "exited"
  /\ UNCHANGED <<fixed, attempt, session, tools, pipe, told, executions, listening, aborting, calls>>

\* child.exited before the reader saw how the run ended: agent_failed in the
\* worker's name, once the sandbox is gone, and the rest is not heard.
ReportCrash ==
  /\ mode = "worker" /\ stage = "exited"
  /\ told' = InterruptedBy(Handle(told, Event("agent_failed", Null)))
  /\ Unsubscribe
  /\ UNCHANGED <<fixed, attempt, session, tools, executions, aborting>>

-----------------------------------------------------------------------------
(* Interrupts and restarts *)

\* RunService.interrupt up to runtime.interrupt.
Interrupt ==
  /\ told.status \in Live /\ stage \in {"open", "exited"} /\ ~aborting
  /\ aborting' = TRUE
  /\ UNCHANGED <<fixed, attempt, stage, session, tools, pipe, told, executions, listening, calls>>

\* runtime.interrupt returns when the session was aborted, the worker has
\* settled, or its graces have run out.
InterruptReturns ==
  /\ aborting
  /\ stage \in {"idle", "exited"} \/ session.last = "settled"
  /\ aborting' = FALSE
  /\ told' = InterruptedBy(told)
  /\ UNCHANGED <<fixed, attempt, stage, session, tools, pipe, executions, listening, calls>>

\* The master is gone; at the next start the recovery scan finds the run.
MasterCrash ==
  /\ listening
  /\ told' = InterruptedBy(told)
  /\ aborting' = FALSE
  /\ Unsubscribe
  /\ UNCHANGED <<fixed, attempt, session, tools, executions>>

Next ==
  \/ Execute \/ PrepareControl \/ AcquireSandbox \/ InvocationFails
  \/ StartSession \/ ResumeSession \/ PromptReturns \/ PromptThrows
  \/ (attempt = 1 /\ SessionSteps) \/ ResumedSessionSteps
  \/ \E t \in Tool : PrepareTool(t) \/ CompleteTool(t)
  \/ ReadMessage \/ WorkerDies \/ ReportCrash
  \/ Interrupt \/ InterruptReturns \/ MasterCrash

Spec == Init /\ [][Next]_vars

-----------------------------------------------------------------------------
(* EvaluationAggregator *)

Rows(type) == {i \in DOMAIN told.events : told.events[i].type = type}

\* aggregateLlmUsage: a call counts once for every MODEL_COMPLETED row.
Usage == [c \in Call |-> Cardinality({i \in Rows("MODEL_COMPLETED") : told.events[i].id = c})]

\* computeRunMetrics; attempts and workspace results are counted elsewhere.
RunMetrics ==
  [llmUsage      |-> Usage,
   toolCalls     |-> {t \in Tool : executions[t] # "none"},
   hasFinalText  |-> told.output # {}]

-----------------------------------------------------------------------------
(* Properties *)

TypeOK ==
  /\ mode \in {"in process", "worker"}
  /\ bound \in Bounds /\ attempt \in 0..bound.attempts
  /\ stage \in {"idle", "control", "sandbox", "opening", "open", "exited"}
  /\ session.call \in Call \cup {Null}
  /\ tools \in [Tool -> {"none", "started", "asked", "running", "reported", "answered", "ended"}]
  /\ Len(pipe) =< MaxPipe
  /\ told.status \in {"QUEUED", "RUNNING", "WAITING_TOOL", "INTERRUPTED", "COMPLETED", "FAILED"}
  /\ executions \in [Tool -> {"none", "PREPARED", "SETTLED"}]
  /\ listening \in BOOLEAN /\ aborting \in BOOLEAN
  /\ calls \in [Call -> {"fresh", "begun", "ended", "lost"}]

Place(key) == CHOOSE i \in 1..Len(told.events) : told.events[i].key = key
Stored(key) == \E i \in 1..Len(told.events) : told.events[i].key = key

\* What the tables say of a run, after any mix of attempts, lost workers,
\* retries and crashes: every model call that ended is counted exactly once,
\* unless its end is still in the pipe or was left there; a call's rows are in
\* order; a governed tool call has its start in the timeline, and an answer its
\* first token; and a run that says it waits for a tool has one on record,
\* whose result is still coming or was refused, so that recovery has something
\* to rule on; only such a run can be left behind by its invocation.
TimelineTellsTheTruth ==
  /\ \A c \in Call :
       /\ RunMetrics.llmUsage[c] = (IF calls[c] = "ended" /\ c \notin EndedIn(pipe) THEN 1 ELSE 0)
       /\ Stored(<<"MODEL_COMPLETED", c>>) => Stored(<<"MODEL_STARTED", c>>)
       /\ Stored(<<"MODEL_FIRST_TOKEN", c>>) =>
            /\ Place(<<"MODEL_STARTED", c>>) < Place(<<"MODEL_FIRST_TOKEN", c>>)
            /\ Stored(<<"MODEL_COMPLETED", c>>) =>
                 Place(<<"MODEL_FIRST_TOKEN", c>>) < Place(<<"MODEL_COMPLETED", c>>)
  /\ \A t \in RunMetrics.toolCalls : Stored(<<"TOOL_STARTED", t>>)
  /\ RunMetrics.hasFinalText => Rows("MODEL_FIRST_TOKEN") # {}
  /\ told.status = "WAITING_TOOL" => \E t \in Tool : executions[t] = "PREPARED"
  /\ ~listening /\ told.status \in Live => \/ aborting
                                           \/ told.status = "WAITING_TOOL"
=============================================================================
