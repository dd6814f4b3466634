---------------------------- MODULE ToolGovernance ----------------------------
(***************************************************************************)
(* The governed tool calls of one run in worker isolation mode: the master *)
(* decides, records and confirms (src/src/tools/, and the message handlers *)
(* of src/src/runtime/worker-process-runtime.ts), the worker process asks, *)
(* executes and reports (src/src/worker/worker-tool-gateway.ts).  The two  *)
(* talk over the worker's stdin and stdout.  Each may die at any time, and *)
(* a person may interrupt, resume, or rule on calls in doubt.              *)
(*                                                                         *)
(* Abstraction: a worker asks for a tool call id at most once; the ids     *)
(* come back in the workers started for later resumptions.  So the call    *)
(* and the kind of a message identify the request it belongs to.           *)
(***************************************************************************)
EXTENDS Integers, Sequences

CONSTANTS
  Call,       \* tool call ids of the run
  EffectOf,   \* Call -> Effect
  NoCall,
  MaxWorkers  \* bound: worker processes started for the run

Effect == {"READ_ONLY", "IDEMPOTENT_WRITE", "UNKNOWN_EFFECT"}

ASSUME CallAssumption == EffectOf \in [Call -> Effect] /\ NoCall \notin Call
ASSUME WorkerAssumption == MaxWorkers \in Nat

VARIABLES
  \* persisted
  run,       \* agent_runs.status
  ledger,    \* tool_executions.status by call, "NONE" without a row
  ckpt,      \* the call whose checkpoint agent_runs.checkpoint_id names
  \* master
  master,    \* "up" or "down"
  prepares,  \* pendingToolPrepares
  ended,     \* completedNormally of the worker
  worker,    \* the worker process, see Worker
  toWorker,  \* its stdin
  toMaster,  \* its stdout
  \* worker
  tool,      \* WorkerToolGateway.execute, call by call, see Tool
  \* the world
  performed, \* how often the real tool was started, by call
  stray,     \* calls a worker without a master was permitted and may start yet
  workers    \* worker processes started so far

store == <<run, ledger, ckpt>>
pipes == <<toWorker, toMaster>>
world == <<performed, stray, workers>>
vars == <<store, master, prepares, ended, worker, pipes, tool, world>>

\* "ending": told to stop, or done, and about to exit; it starts no further
\* calls but works off what it has.  "exited": and the master does not know.
Worker == {"none", "alive", "ending", "exited"}
Living == worker \in {"alive", "ending"}

Tool == {"idle", "asking", "running", "reporting_ok", "reporting_failed", "returned", "error"}
InFlight == {"asking", "running", "reporting_ok", "reporting_failed"}

Executing == {"RUNNING", "WAITING_TOOL"}
Terminal == {"COMPLETED", "FAILED"}

Request == [type : {"PREPARE"}, call : Call]
Result == [type : {"COMPLETE"}, call : Call, ok : BOOLEAN]
End == [type : {"END"}, to : Terminal \cup {"INTERRUPTED"}]
Decision == [type : {"ALLOWED", "REUSE", "DENIED"}, call : Call]
Receipt == [type : {"RECEIPT"}, call : Call, ok : BOOLEAN]

NoTools == [c \in Call |-> "idle"]

Init ==
  /\ run = "QUEUED"
  /\ ledger = [c \in Call |-> "NONE"]
  /\ ckpt = NoCall
  /\ master = "up" /\ prepares = {} /\ ended = FALSE
  /\ worker = "none" /\ toWorker = <<>> /\ toMaster = <<>>
  /\ tool = NoTools
  /\ performed = [c \in Call |-> 0]
  /\ stray = {} /\ workers = 0

-----------------------------------------------------------------------------
(* The worker *)

WorkerSends(m) == toMaster' = Append(toMaster, m)

\* The agent calls a tool: ask the master first.
Ask(c) ==
  /\ worker = "alive" /\ tool[c] = "idle"
  /\ tool' = [tool EXCEPT ![c] = "asking"]
  /\ WorkerSends([type |-> "PREPARE", call |-> c])
  /\ UNCHANGED <<store, master, prepares, ended, worker, toWorker, world>>

\* Mutant of Receive: the answer itself becomes the state of the call.
ReceiveVerbatim ==
  /\ Living /\ toWorker # <<>>
  /\ toWorker' = Tail(toWorker)
  /\ tool' = [tool EXCEPT ![Head(toWorker).call] = Head(toWorker).type]
  /\ UNCHANGED <<store, master, prepares, ended, worker, toMaster, world>>

\* handleMasterMessage: a permission starts the real tool; an answer nobody
\* waits for any more is dropped; a receipt ends the call, whatever it says.
Receive ==
  /\ Living /\ toWorker # <<>>
  /\ toWorker' = Tail(toWorker)
  /\ LET m == Head(toWorker)
         state == tool[m.call]
         next == CASE m.type = "ALLOWED" /\ state = "asking" -> "running"
                   [] m.type = "REUSE" /\ state = "asking" -> "returned"
                   [] m.type = "DENIED" /\ state = "asking" -> "error"
                   [] m.type = "RECEIPT" /\ state = "reporting_ok" -> "returned"
                   [] m.type = "RECEIPT" /\ state = "reporting_failed" -> "error"
                   [] OTHER -> state
     IN /\ tool' = [tool EXCEPT ![m.call] = next]
        /\ IF next = "running" /\ state = "asking"
           THEN performed' = [performed EXCEPT ![m.call] = @ + 1]
           ELSE UNCHANGED performed
  /\ UNCHANGED <<store, master, prepares, ended, worker, toMaster, stray, workers>>

\* The real tool returns or throws, and the worker reports it.
ToolEnds(c, ok) ==
  /\ Living /\ tool[c] = "running"
  /\ tool' = [tool EXCEPT ![c] = IF ok THEN "reporting_ok" ELSE "reporting_failed"]
  /\ WorkerSends([type |-> "COMPLETE", call |-> c, ok |-> ok])
  /\ UNCHANGED <<store, master, prepares, ended, worker, toWorker, world>>

\* No answer in time: the call fails, whether it was asked for or reported.
Timeout(c) ==
  /\ Living /\ tool[c] \in InFlight \ {"running"}
  /\ tool' = [tool EXCEPT ![c] = "error"]
  /\ UNCHANGED <<store, master, prepares, ended, worker, pipes, world>>

\* The agent is done, or it is aborted with its calls still in flight.
WorkerEnds(to) ==
  /\ worker = "alive"
  /\ to # "INTERRUPTED" => \A c \in Call : tool[c] \notin InFlight
  /\ worker' = "ending"
  /\ WorkerSends([type |-> "END", to |-> to])
  /\ UNCHANGED <<store, master, prepares, ended, toWorker, tool, world>>

\* Exit, crash or kill.  What it has written stays in the pipe.
WorkerDies ==
  /\ Living
  /\ worker' = "exited"
  /\ toWorker' = <<>>
  /\ tool' = NoTools
  /\ UNCHANGED <<store, master, prepares, ended, toMaster, world>>

-----------------------------------------------------------------------------
(* The master's side of the protocol *)

\* Written into the stdin of a dead child, an answer is lost.
Answer(m) == toWorker' = IF Living THEN Append(toWorker, m) ELSE toWorker

\* markToolPhase, and the runtime events of RunService: a transition the
\* state machine does not allow is dropped.
ToolPhaseStarted == run' = IF run = "RUNNING" THEN "WAITING_TOOL" ELSE run
ToolPhaseEnded == run' = IF run = "WAITING_TOOL" THEN "RUNNING" ELSE run

Reported(to) ==
  run' = CASE to = "COMPLETED" /\ run = "RUNNING" -> to
           [] to = "FAILED" /\ run \notin Terminal -> to
           [] to = "INTERRUPTED" /\ run \in Executing \cup {"QUEUED"} -> to
           [] OTHER -> run

CanAutomaticallyReplay(c) == ledger[c] = "PREPARED" /\ EffectOf[c] = "READ_ONLY"

\* Mutant of MayPerform: a call in doubt is performed again whatever it does.
MayPerformInDoubt(c) == ledger[c] \in {"NONE", "PREPARED"}

MayPerform(c) == ledger[c] = "NONE" \/ CanAutomaticallyReplay(c)

Read(type) == toMaster # <<>> /\ Head(toMaster).type = type /\ toMaster' = Tail(toMaster)

\* Mutant of HandlePrepare: calls without effect are not recorded.
HandlePrepareUnrecorded ==
  /\ Read("PREPARE")
  /\ LET c == Head(toMaster).call IN
     /\ MayPerform(c)
     /\ ledger' = [ledger EXCEPT ![c] = IF EffectOf[c] = "READ_ONLY" THEN @ ELSE "PREPARED"]
     /\ prepares' = prepares \cup {c}
     /\ ToolPhaseStarted
     /\ Answer([type |-> "ALLOWED", call |-> c])
  /\ UNCHANGED <<ckpt, master, ended, worker, tool, world>>

\* handleToolPrepareRequest with ToolGateway.prepare: the record is written
\* before the permission is sent.  The policy guard may refuse any call.
HandlePrepare ==
  /\ Read("PREPARE")
  /\ LET c == Head(toMaster).call IN
     \/ /\ Answer([type |-> "DENIED", call |-> c])
        /\ UNCHANGED <<run, ledger, prepares>>
     \/ /\ ledger[c] = "SUCCEEDED"
        /\ Answer([type |-> "REUSE", call |-> c])
        /\ UNCHANGED <<run, ledger, prepares>>
     \/ /\ MayPerform(c)
        /\ ledger' = [ledger EXCEPT ![c] = "PREPARED"]
        /\ prepares' = prepares \cup {c}
        /\ ToolPhaseStarted
        /\ Answer([type |-> "ALLOWED", call |-> c])
  /\ UNCHANGED <<ckpt, master, ended, worker, tool, world>>

\* Mutant of HandleComplete: a late result overwrites a settled record.
HandleCompleteLate ==
  /\ Read("COMPLETE")
  /\ LET m == Head(toMaster) IN
     /\ prepares' = prepares \ {m.call}
     /\ ledger' = [ledger EXCEPT ![m.call] = IF m.ok THEN "SUCCEEDED" ELSE "FAILED"]
     /\ ckpt' = IF m.ok THEN m.call ELSE ckpt
     /\ ToolPhaseEnded
     /\ Answer([type |-> "RECEIPT", call |-> m.call, ok |-> TRUE])
  /\ UNCHANGED <<master, ended, worker, tool, world>>

\* Mutant of HandleComplete: the checkpoint is written in a transaction of its own.
HandleCompleteInParts ==
  /\ Read("COMPLETE")
  /\ LET m == Head(toMaster)
         confirmed == m.call \in prepares /\ ledger[m.call] = "PREPARED"
     IN /\ prepares' = prepares \ {m.call}
        /\ ledger' = IF confirmed THEN [ledger EXCEPT ![m.call] = IF m.ok THEN "SUCCEEDED" ELSE "FAILED"]
                     ELSE ledger
        /\ ckpt' = IF m.ok THEN m.call ELSE ckpt
        /\ ToolPhaseEnded
        /\ Answer([type |-> "RECEIPT", call |-> m.call, ok |-> confirmed])
  /\ UNCHANGED <<master, ended, worker, tool, world>>

\* handleToolCompleteRequest with ToolGateway.complete: result, checkpoint and
\* run in one transaction.  It is refused for a call the master does not know
\* as prepared, and for a record that is settled by now.
HandleComplete ==
  /\ Read("COMPLETE")
  /\ LET m == Head(toMaster)
         confirmed == m.call \in prepares /\ ledger[m.call] = "PREPARED"
     IN /\ prepares' = prepares \ {m.call}
        /\ \/ /\ confirmed
              /\ ledger' = [ledger EXCEPT ![m.call] = IF m.ok THEN "SUCCEEDED" ELSE "FAILED"]
              /\ ckpt' = IF m.ok THEN m.call ELSE ckpt
              /\ ToolPhaseEnded
           \/ ~confirmed /\ UNCHANGED store
        /\ Answer([type |-> "RECEIPT", call |-> m.call, ok |-> confirmed])
  /\ UNCHANGED <<master, ended, worker, tool, world>>

\* The last runtime event and the end message that follows it.
HandleEnd ==
  /\ Read("END")
  /\ Reported(Head(toMaster).to)
  /\ ended' = TRUE
  /\ UNCHANGED <<ledger, ckpt, master, prepares, worker, toWorker, tool, world>>

\* child.exited, which does not wait for what is left in the pipe.
WorkerExitNoticed ==
  /\ worker = "exited"
  /\ worker' = "none"
  /\ prepares' = {}
  /\ IF ended THEN UNCHANGED run ELSE Reported("FAILED")
  /\ UNCHANGED <<ledger, ckpt, master, ended, pipes, tool, world>>

-----------------------------------------------------------------------------
(* The life of the run around its tools *)

\* The queue starts or resumes the run, once the previous worker is gone.
StartWorker ==
  /\ master = "up" /\ run = "QUEUED"
  /\ worker = "none" /\ toMaster = <<>> /\ workers < MaxWorkers
  /\ run' = "RUNNING" /\ worker' = "alive" /\ ended' = FALSE
  /\ workers' = workers + 1
  /\ UNCHANGED <<ledger, ckpt, master, prepares, pipes, tool, performed, stray>>

\* An interrupt, or a sandbox failure; the worker may not know yet.
Interrupt ==
  /\ master = "up" /\ run \in Executing \cup {"QUEUED"}
  /\ run' = "INTERRUPTED"
  /\ UNCHANGED <<ledger, ckpt, master, prepares, ended, worker, pipes, tool, world>>

\* A manual resumption, which does not look at calls in doubt.
Resume ==
  /\ master = "up" /\ run = "INTERRUPTED" /\ ckpt # NoCall
  /\ run' = "QUEUED"
  /\ UNCHANGED <<ledger, ckpt, master, prepares, ended, worker, pipes, tool, world>>

InDoubt == {c \in Call : ledger[c] = "PREPARED"}

\* resolveUnknownEffect: a person rules on all calls in doubt.
ResolveUnknownEffect(occurred) ==
  /\ master = "up" /\ run = "INTERRUPTED" /\ InDoubt # {}
  /\ ledger' = [c \in Call |-> IF c \in InDoubt THEN "FAILED" ELSE ledger[c]]
  /\ run' = IF occurred THEN "FAILED" ELSE run
  /\ UNCHANGED <<ckpt, master, prepares, ended, worker, pipes, tool, world>>

\* The master dies and the pipes with it.  The worker lives on: it may still
\* read a permission that was already written.
Crash ==
  /\ master = "up"
  /\ master' = "down"
  /\ stray' = stray \cup {c \in Call : tool[c] = "asking" /\
                [type |-> "ALLOWED", call |-> c] \in {toWorker[i] : i \in DOMAIN toWorker}}
  /\ prepares' = {} /\ ended' = FALSE /\ worker' = "none"
  /\ toWorker' = <<>> /\ toMaster' = <<>>
  /\ tool' = NoTools
  /\ UNCHANGED <<store, performed, workers>>

\* A worker without a master reads the permission, or exits before.
Stray(c) ==
  /\ c \in stray
  /\ stray' = stray \ {c}
  /\ \/ performed' = [performed EXCEPT ![c] = @ + 1]
     \/ UNCHANGED performed
  /\ UNCHANGED <<store, master, prepares, ended, worker, pipes, tool, workers>>

\* Mutant of DecideRecovery: the calls in doubt are not looked at.
DecideRecoveryBlindly == IF ckpt = NoCall THEN "MANUAL_REVIEW" ELSE "AUTO_RESUME"

\* decideRecovery.
DecideRecovery ==
  IF ckpt # NoCall /\ \A c \in InDoubt : CanAutomaticallyReplay(c)
  THEN "AUTO_RESUME" ELSE "MANUAL_REVIEW"

\* Startup: the run is INTERRUPTED with a plan, which is executed.  The
\* session of the checkpoint may be unreachable, which also asks for a review.
Startup ==
  /\ master = "down"
  /\ master' = "up"
  /\ \/ run' = IF run \in Executing THEN "INTERRUPTED" ELSE run
     \/ run \in Executing /\ DecideRecovery = "AUTO_RESUME" /\ run' = "QUEUED"
  /\ UNCHANGED <<ledger, ckpt, prepares, ended, worker, pipes, tool, world>>

-----------------------------------------------------------------------------

WorkerStep ==
  \/ \E c \in Call : Ask(c) \/ Timeout(c) \/ \E ok \in BOOLEAN : ToolEnds(c, ok)
  \/ Receive
  \/ \E to \in Terminal \cup {"INTERRUPTED"} : WorkerEnds(to)
  \/ WorkerDies

MasterStep ==
  \/ HandlePrepare \/ HandleComplete \/ HandleEnd \/ WorkerExitNoticed
  \/ StartWorker \/ Startup

Person == Interrupt \/ Resume \/ \E occurred \in BOOLEAN : ResolveUnknownEffect(occurred)

Next ==
  \/ WorkerStep \/ MasterStep \/ Person
  \/ Crash
  \/ \E c \in Call : Stray(c)

Spec == Init /\ [][Next]_vars

-----------------------------------------------------------------------------
(* Properties *)

TypeOK ==
  /\ run \in Executing \cup Terminal \cup {"QUEUED", "INTERRUPTED"}
  /\ ledger \in [Call -> {"NONE", "PREPARED", "SUCCEEDED", "FAILED"}]
  /\ ckpt \in Call \cup {NoCall}
  /\ master \in {"up", "down"}
  /\ prepares \subseteq Call
  /\ ended \in BOOLEAN
  /\ worker \in Worker
  /\ toWorker \in Seq(Decision \cup Receipt)
  /\ toMaster \in Seq(Request \cup Result \cup End)
  /\ tool \in [Call -> Tool]
  /\ performed \in [Call -> Nat]
  /\ stray \subseteq Call
  /\ workers \in 0..MaxWorkers

Unsafe == {c \in Call : EffectOf[c] # "READ_ONLY"}

\* A tool call whose effect is not known to be harmless is never performed
\* twice, whatever times out, dies, is resumed or asked for again.
UnsafeAtMostOnce == \A c \in Unsafe : performed[c] =< 1

\* No effect without a record of the intention: what was performed, or may
\* still be performed by a worker that lost its master, has a row.
NothingUnrecorded ==
  \A c \in Call : performed[c] > 0 \/ c \in stray => ledger[c] # "NONE"

\* The recovery resumes a run by itself only if every call that may have had
\* an effect has a recorded outcome.
AutoResumeIsSafe ==
  [][master = "down" /\ run \in Executing /\ run' = "QUEUED" =>
       \A c \in Unsafe : performed[c] > 0 \/ c \in stray => ledger[c] \in {"SUCCEEDED", "FAILED"}]_vars

\* The checkpoint a run is resumed from stands for a tool call that was
\* performed and recorded as such, also after rulings and late results.
CheckpointIsSettled ==
  ckpt # NoCall => ledger[ckpt] = "SUCCEEDED" /\ performed[ckpt] > 0

Effects == INSTANCE ToolLedger

\* Records and effects follow ToolLedger.
Promise == Effects!Spec

-----------------------------------------------------------------------------
(* What a comment says of the code, and the code does not do                  *)

\* worker-process-runtime.ts: a result that cannot be recorded is reported as
\* a failure so that the call ends in an error on the worker's side.  A call
\* the worker returned has a recorded success.
ReturnedIsRecorded == \A c \in Call : tool[c] = "returned" => ledger[c] = "SUCCEEDED"
=============================================================================
