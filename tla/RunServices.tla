---------------------------- MODULE RunServices -----------------------------
(***************************************************************************)
(* The services around the scheduler, side by side: they are independent   *)
(* of each other, and `component' says which one takes steps.  A property  *)
(* is about the states of that one.  The user's page, admission and the    *)
(* gateway's traffic are added by Services.                                *)
(***************************************************************************)
EXTENDS RunPolicies

CONSTANTS
  \* gateway
  GatewayCall, Backends, Threshold,
  \* tenants
  Tenant, Token, Keys, Session, TenantWorkspace, Request, Config, MaxRuns,
  \* timeline
  TimelineCall, TimelineTool, Channel, Bounds, MaxPipe,
  \* shutdown
  PoolRun, Key, KeyOf, Container, Capacity, MaxStarts,
  \* results
  File, Content, MaxWrites, MaxAttempts

VARIABLES
  component,
  \* gateway
  strategy, prefixCache, failures, circuit, active, healthy, cursor, call,
  decisions, charges,
  \* tenants
  config, credential, users, store, workspaces, conversations, runs, request,
  action,
  \* timeline
  mode, bound, execution, stage, session, tools, pipe, told, executions,
  listening, aborting, calls,
  \* shutdown
  starts, phase, inFlight, run, entries, pending, pool, docker, removing,
  unremoved, late,
  \* results
  files, writes, status, attempts, capturing, scan, memory, stored, copy, disk,
  rows, first, retaken, ahead

Gateway == INSTANCE LlmGateway WITH Call <- GatewayCall
Tenants == INSTANCE TenantAccess WITH Workspace <- TenantWorkspace
Timeline == INSTANCE RunTimeline WITH
  Call <- TimelineCall, Tool <- TimelineTool, attempt <- execution
Shutdown == INSTANCE ServiceShutdown WITH Run <- PoolRun
Results == INSTANCE WorkspaceResults WITH Path <- File, stage <- capturing

-----------------------------------------------------------------------------
(* Properties *)

\* Circuits open for what backends did, every request gets one decision, and
\* the load of a backend is what waits for it (model-router.ts, llm-gateway.ts).
RoutingIsFair ==
  component = "gateway" => Gateway!BackendsAreJudgedFairly /\ Gateway!RequestsAreAccounted

\* What a run is bound to belongs to its tenant, and so does who acts on it.
TenantsStayApart == component = "tenants" => Tenants!TenantsStayApart

\* Events, output and status of a run agree with what its agent did.
TimelineTellsTheTruth == component = "timeline" => Timeline!TimelineTellsTheTruth

\* No warm container is shared or, but for two cases that are named, forgotten;
\* nothing runs past the close.
PoolIsDrained == component = "shutdown" => Shutdown!PoolIsDrained

\* The artifacts are files of the stored difference, and that is what the run's
\* time changed, but for two cases that are named.
ResultsAreWhatWasLeft == component = "results" => Results!ResultsAreWhatWasLeft
=============================================================================
