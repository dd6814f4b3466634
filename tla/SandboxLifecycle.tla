-------------------------- MODULE SandboxLifecycle --------------------------
(***************************************************************************)
(* What the sandbox layer promises: a container exists only for a          *)
(* registered sandbox, and the record of a sandbox is settled only when    *)
(* its container is gone or its removal is under way.  A settled record    *)
(* never changes again.  Start-up cleans up after every unsettled record,  *)
(* so a container is left behind in two cases only, and both are kept in   *)
(* leaked: docker could not remove it, or docker made it for a service     *)
(* that had died, after its record was settled LOST.  ManagedRuntime       *)
(* implements it (ManagedRuntime!Lifecycle).                               *)
(***************************************************************************)
CONSTANT Sandbox

VARIABLES
  record,     \* Sandbox -> "none" or the status of its row
  container,  \* sandboxes whose container exists
  doomed,     \* sandboxes whose container is being removed
  leaked      \* sandboxes whose container is left behind

vars == <<record, container, doomed, leaked>>

Settled == {"FAILED", "TERMINATED", "LOST"}

Moves == { <<"none", "PROVISIONING">>, <<"PROVISIONING", "ACTIVE">>,
           <<"PROVISIONING", "FAILED">>, <<"PROVISIONING", "LOST">>,
           <<"ACTIVE", "TERMINATED">>, <<"ACTIVE", "LOST">> }

Init ==
  /\ record = [s \in Sandbox |-> "none"]
  /\ container = {}
  /\ doomed = {}
  /\ leaked = {}

Launch(s) ==
  /\ record[s] = "PROVISIONING"
  /\ container' = container \cup {s}
  /\ UNCHANGED <<record, doomed, leaked>>

\* The docker run of a dead service, after the start-up settled the record.
LateLaunch(s) ==
  /\ record[s] = "LOST"
  /\ container' = container \cup {s}
  /\ leaked' = leaked \cup {s}
  /\ UNCHANGED <<record, doomed>>

\* The row moves on, a removal begins or ends, the container goes.  A row is
\* settled only over a container that is gone, doomed or left behind; a removal
\* ends with the container gone or left behind, and nothing else leaves one.
Advance(s) ==
  /\ \E to \in {record[s]} \cup {m[2] : m \in {n \in Moves : n[1] = record[s]}} :
       record' = [record EXCEPT ![s] = to]
  /\ container' \in {container, container \ {s}}
  /\ doomed' \in {doomed, doomed \cup {s}, doomed \ {s}}
  /\ leaked' \in {leaked, leaked \cup {s}, leaked \ {s}}
  /\ s \in doomed' => record'[s] # "none"
  /\ (record'[s] \in Settled \ {record[s]} /\ s \in container') => s \in doomed' \cup leaked'
  /\ (s \in doomed \ doomed' /\ s \in container') => s \in leaked'
  /\ s \in leaked' \ leaked => s \in doomed
  /\ s \in leaked \ leaked' => s \notin container'

Next == \E s \in Sandbox : Launch(s) \/ LateLaunch(s) \/ Advance(s)

Spec == Init /\ [][Next]_vars
=============================================================================
