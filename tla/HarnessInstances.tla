-------------------------- MODULE HarnessInstances --------------------------
(***************************************************************************)
(* The row of a HarnessInstance, shared by all runs of a tenant: its       *)
(* actual state and the number of execution slots taken from it.  Each     *)
(* operator is one UPDATE of HarnessInstanceStore, as a function of the    *)
(* row it finds.  Nothing in the program changes desired_state, which is   *)
(* RUNNING from the start, so the row leaves it out.                       *)
(***************************************************************************)
EXTENDS Integers

InstanceState == {"PROVISIONING", "READY", "ACTIVE", "STOPPED", "FAILED"}

HarnessInstance == [actual : InstanceState, count : Nat]

\* transitionHarnessInstance: where a state may go.
CanMove(from, to) ==
  to \in CASE from = "PROVISIONING"        -> {"READY", "FAILED", "STOPPED"}
           [] from = "READY"               -> {"ACTIVE", "FAILED", "STOPPED"}
           [] from = "ACTIVE"              -> {"READY", "FAILED", "STOPPED"}
           [] from = "STOPPED"             -> {"PROVISIONING"}
           [] OTHER                        -> {"PROVISIONING", "STOPPED"}

\* The default control plane creates an instance and makes it READY at once.
NewInstance == [actual |-> "READY", count |-> 0]

CanAcquire(i) == i.actual \in {"READY", "ACTIVE"}
AcquireRun(i) == [actual |-> "ACTIVE", count |-> i.count + 1]

\* releaseRun changes no row it does not match; its caller skips a zero count.
CanRelease(i) == i.count > 0 /\ i.actual \in {"ACTIVE", "FAILED"}

ReleaseRun(i) ==
  [actual |-> IF i.actual = "FAILED" THEN "FAILED"
              ELSE IF i.count =< 1 THEN "READY" ELSE "ACTIVE",
   count  |-> i.count - 1]

\* The update both failure handlers make, only of an ACTIVE instance.
MarkFailed(i) ==
  IF i.actual = "ACTIVE" /\ CanMove(i.actual, "FAILED")
  THEN [i EXCEPT !.actual = "FAILED"] ELSE i

\* Left over by the previous process: nothing runs yet, so any count is stale.
Stale(i) == i.count > 0 \/ i.actual \notin {"READY", "ACTIVE"}
ReconcileStaleSlot(i) == IF Stale(i) THEN NewInstance ELSE i
=============================================================================
