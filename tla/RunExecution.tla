---------------------------- MODULE RunExecution ----------------------------
(***************************************************************************)
(* What the scheduling layer promises the rest of the system, without      *)
(* queues, drains, admission or events: a run is executed only while it    *)
(* holds a logical slot, the slots respect the limits, one slot leads to   *)
(* at most one invocation of the runtime, the slot is not given back while *)
(* the run is RUNNING, and a finished run stays finished.                  *)
(* RunQueueCoordinator implements it (RunQueueCoordinator!Promise).        *)
(***************************************************************************)
EXTENDS FiniteSets, Integers

CONSTANTS Run, NoSession, TenantOf, SessionOf, MaxActive, MaxPerTenant

VARIABLES
  phase,  \* Run -> Phase
  slots,  \* runs that hold a slot
  spent,  \* runs whose slot has already led to an invocation
  boots   \* how often the process was restarted

vars == <<phase, slots, spent, boots>>

Phase == {"new", "queued", "running", "waiting_tool", "interrupted", "finished"}

Init ==
  /\ phase = [r \in Run |-> "new"]
  /\ slots = {}
  /\ spent = {}
  /\ boots = 0

\* Submission, or the resumption of an interrupted run.
Queue(r) ==
  /\ phase[r] \in {"new", "interrupted"}
  /\ phase' = [phase EXCEPT ![r] = "queued"]
  /\ UNCHANGED <<slots, spent, boots>>

Grant(r) ==
  /\ r \notin slots
  /\ Cardinality(slots) < MaxActive
  /\ Cardinality({q \in slots : TenantOf[q] = TenantOf[r]}) < MaxPerTenant
  /\ SessionOf[r] = NoSession \/ \A q \in slots : SessionOf[q] # SessionOf[r]
  /\ slots' = slots \cup {r}
  /\ UNCHANGED <<phase, spent, boots>>

\* The one invocation of this slot; it may fail at once.
Invoke(r) ==
  /\ phase[r] = "queued" /\ r \in slots \ spent
  /\ \E p \in {"running", "interrupted"} : phase' = [phase EXCEPT ![r] = p]
  /\ spent' = spent \cup {r}
  /\ UNCHANGED <<slots, boots>>

Work(r) ==
  /\ phase[r] \in {"running", "waiting_tool"} /\ r \in slots
  /\ phase' = [phase EXCEPT ![r] = IF @ = "running" THEN "waiting_tool" ELSE "running"]
  /\ UNCHANGED <<slots, spent, boots>>

\* A run ends or is interrupted, with a slot or without one.
Stop(r) ==
  /\ phase[r] \in {"queued", "running", "waiting_tool", "interrupted"}
  /\ \E p \in {"interrupted", "finished"} : phase' = [phase EXCEPT ![r] = p]
  /\ UNCHANGED <<slots, spent, boots>>

Return(r) ==
  /\ r \in slots /\ phase[r] # "running"
  /\ slots' = slots \ {r}
  /\ spent' = spent \ {r}
  /\ UNCHANGED <<phase, boots>>

\* Only a restart frees slots whatever their runs are doing.
Restart ==
  /\ boots' = boots + 1
  /\ slots' = {} /\ spent' = {}
  /\ UNCHANGED phase

Next ==
  \/ \E r \in Run : Queue(r) \/ Grant(r) \/ Invoke(r) \/ Work(r) \/ Stop(r) \/ Return(r)
  \/ Restart

Spec == Init /\ [][Next]_vars
=============================================================================
