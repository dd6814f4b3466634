---------------------------- MODULE RunPolicies ----------------------------
(***************************************************************************)
(* What a run may do: five layers of constraints (platform, tenant,        *)
(* template, workspace, run) are intersected when an attempt starts, the   *)
(* result is compiled into the tools of the agent and into the sandbox,    *)
(* and consulted again for every tool call.  The registry of platform and  *)
(* tenant policies lives in memory and may change at any time.             *)
(*                                                                         *)
(* Skills and secrets are lists like the tools and cpuCores is a limit     *)
(* like memoryMiB: one of each stands for all.                             *)
(***************************************************************************)
EXTENDS Integers, Sequences

CONSTANTS
  Run,
  Tool,            \* the tools of the agent; one of them is Bash
  Bash,
  Model,
  Path,            \* resolved paths: sequences of names
  Profile,         \* SandboxProfile, with "development"
  Workspace,       \* Run -> its workspacePath
  Template,        \* the template version: its tools and its model
  Policies,        \* the constraints administrators and callers use
  Null

VARIABLES
  sandboxProfile,  \* the configured profile
  provider,        \* "local" (ManagedLocal) or "container"
  platform,        \* PolicyRegistry.platform
  tenant,          \* PolicyRegistry.tenantPolicies of the runs' tenant, or Null
  runPolicy,       \* Run -> the policy stored with it, or Null
  attempt          \* Run -> its current attempt

vars == <<sandboxProfile, provider, platform, tenant, runPolicy, attempt>>

Optional(S) == {Null} \cup S

PolicyConstraints ==
  [tools : Optional(SUBSET Tool), models : Optional(SUBSET Model),
   roots : Optional(SUBSET Path), network : BOOLEAN, process : BOOLEAN,
   memory : Optional(Nat), disk : Optional(Nat), profile : Optional(Profile)]

ASSUME PathAssumption == Path \subseteq Seq(STRING)

ASSUME PolicyAssumption ==
  /\ Bash \in Tool /\ "development" \in Profile
  /\ \A list \in (SUBSET Tool) \cup (SUBSET Model) \cup (SUBSET Path) : Null # list
  /\ Null \notin Nat /\ Null \notin Profile
  /\ Workspace \in [Run -> Path]
  /\ Template \in [tools : SUBSET Tool, model : Model]
  /\ Policies \subseteq PolicyConstraints

-----------------------------------------------------------------------------
(* effective-policy.ts *)

UnrestrictedPolicy ==
  [tools |-> Null, models |-> Null, roots |-> Null, network |-> TRUE,
   process |-> TRUE, memory |-> Null, disk |-> Null, profile |-> Null]

\* Below a root its text and a separator begin the path, so nothing is below
\* the root directory.
IsWithin(path, root) ==
  \/ path = root
  \/ /\ 0 < Len(root) /\ Len(root) =< Len(path)
     /\ \A i \in 1..Len(root) : path[i] = root[i]

IntersectValues(left, right) ==
  IF left = Null THEN right ELSE IF right = Null THEN left ELSE left \cap right

\* Mutant of IntersectRoots: of two roots one below the other, the upper one.
IntersectRootsWider(left, right) ==
  IF left = Null THEN right
  ELSE IF right = Null THEN left
  ELSE {p \in left : \E q \in right : IsWithin(q, p)}
         \cup {q \in right : \E p \in left : IsWithin(p, q)}

\* Of two roots one below the other, the lower one.
IntersectRoots(left, right) ==
  IF left = Null THEN right
  ELSE IF right = Null THEN left
  ELSE {p \in left : \E q \in right : IsWithin(p, q)}
         \cup {q \in right : \E p \in left : IsWithin(q, p)}

Minimum(left, right) ==
  IF left = Null THEN right
  ELSE IF right = Null THEN left
  ELSE IF left < right THEN left ELSE right

\* A conflict throws before anything is computed (Compatible).
IntersectSandboxProfiles(left, right) == IF left = Null THEN right ELSE left

IntersectConstraints(left, right) ==
  [tools   |-> IntersectValues(left.tools, right.tools),
   models  |-> IntersectValues(left.models, right.models),
   roots   |-> IntersectRoots(left.roots, right.roots),
   network |-> left.network /\ right.network,
   process |-> left.process /\ right.process,
   memory  |-> Minimum(left.memory, right.memory),
   disk    |-> Minimum(left.disk, right.disk),
   profile |-> IntersectSandboxProfiles(left.profile, right.profile)]

Kind == {"PLATFORM", "TENANT", "TEMPLATE", "WORKSPACE", "RUN"}

Compatible(layers) ==
  \A k1, k2 \in Kind :
    layers[k1].profile # Null /\ layers[k2].profile # Null
      => layers[k1].profile = layers[k2].profile

ComputeEffectivePolicy(layers) ==
  LET onPlatform  == IntersectConstraints(UnrestrictedPolicy, layers["PLATFORM"])
      onTenant    == IntersectConstraints(onPlatform, layers["TENANT"])
      onTemplate  == IntersectConstraints(onTenant, layers["TEMPLATE"])
      onWorkspace == IntersectConstraints(onTemplate, layers["WORKSPACE"])
  IN  IntersectConstraints(onWorkspace, layers["RUN"])

WithSandboxProfile(policy) ==
  IF policy.profile # Null THEN policy ELSE [policy EXCEPT !.profile = sandboxProfile]

-----------------------------------------------------------------------------
(* managed-agent-runtime.ts: policyLayers; policy-compilation.ts *)

DefaultPolicy == UnrestrictedPolicy

OrDefault(policy) == IF policy = Null THEN DefaultPolicy ELSE policy

\* Outside of development the platform forbids the network.
PolicyLayers(r) ==
  [k \in Kind |->
     CASE k = "PLATFORM"  -> IF sandboxProfile = "development" THEN platform
                             ELSE [platform EXCEPT !.network = FALSE]
       [] k = "TENANT"    -> OrDefault(tenant)
       [] k = "TEMPLATE"  -> [UnrestrictedPolicy EXCEPT !.tools = Template.tools,
                                                        !.models = {Template.model}]
       [] k = "WORKSPACE" -> [UnrestrictedPolicy EXCEPT !.roots = {Workspace[r]}]
       [] k = "RUN"       -> OrDefault(runPolicy[r])]

Permits(list, x) == list = Null \/ x \in list

InRoots(roots, path) == roots = Null \/ \E root \in roots : IsWithin(path, root)

CompiledTools(policy) == {t \in Template.tools : Permits(policy.tools, t)}

-----------------------------------------------------------------------------
NoAttempt == [pc |-> "none", layers |-> Null, policy |-> Null, offered |-> {},
              sandbox |-> Null, call |-> Null]

\* What a request can ask for: it knows no sandbox profile.
ParsedConstraints == {p \in Policies : p.profile = Null}

Init ==
  /\ provider \in {"local", "container"}
  /\ sandboxProfile \in
       IF provider = "local" THEN {"development"} ELSE Profile \ {"development"}
  /\ platform \in Policies
  /\ tenant = Null
  /\ runPolicy \in [Run -> Optional(ParsedConstraints)]
  /\ attempt = [r \in Run |-> NoAttempt]

\* PUT /admin/policies.
SetPlatformPolicy ==
  /\ platform' \in ParsedConstraints
  /\ UNCHANGED <<sandboxProfile, provider, tenant, runPolicy, attempt>>

SetTenantPolicy ==
  /\ tenant' \in ParsedConstraints
  /\ UNCHANGED <<sandboxProfile, provider, platform, runPolicy, attempt>>

\* The process restarts: the registry is what the embedder set up, attempts
\* are over, and the runs keep their own policies.
Restart ==
  /\ platform' \in Policies
  /\ tenant' = Null
  /\ attempt' = [r \in Run |-> NoAttempt]
  /\ UNCHANGED <<sandboxProfile, provider, runPolicy>>

\* execute: the layers are intersected, the result is stored and compiled.  A
\* model that is not allowed, or a capability the runtime lacks, rejects it;
\* layers that contradict each other throw before anything is stored.
ExecuteAttempt(r) ==
  LET layers == PolicyLayers(r)
      policy == WithSandboxProfile(ComputeEffectivePolicy(layers))
  IN
  /\ attempt[r].pc = "none"
  /\ Compatible(layers)
  /\ \E capable \in BOOLEAN :
       attempt' = [attempt EXCEPT ![r] =
         IF capable /\ Permits(policy.models, Template.model)
         THEN [NoAttempt EXCEPT !.pc = "compiled", !.layers = layers, !.policy = policy,
                                !.offered = CompiledTools(policy)]
         ELSE [NoAttempt EXCEPT !.pc = "rejected", !.layers = layers, !.policy = policy]]
  /\ UNCHANGED <<sandboxProfile, provider, platform, tenant, runPolicy>>

\* ManagedLocalSandboxProvider.create, SandboxProviderRouter.create and
\* OciSandboxSpecCompiler.compile refuse what they cannot enforce.
CanEnforce(r, policy) ==
  /\ policy.profile = sandboxProfile
  /\ InRoots(policy.roots, Workspace[r])
  /\ policy.disk = Null
  /\ provider = "local" => policy.memory = Null
  /\ provider = "container" => sandboxProfile # "strict"
  /\ sandboxProfile = "restricted-egress" => ~policy.network

\* A container that is not a development sandbox never has a network.
SandboxSpec(policy) ==
  [provider |-> provider, profile |-> policy.profile, memory |-> policy.memory,
   network |-> IF provider = "local" /\ policy.network THEN "bridge" ELSE "none"]

CreateSandbox(r) ==
  /\ attempt[r].pc = "compiled"
  /\ CanEnforce(r, attempt[r].policy)
  /\ attempt' = [attempt EXCEPT ![r].pc = "running", ![r].sandbox = SandboxSpec(attempt[r].policy)]
  /\ UNCHANGED <<sandboxProfile, provider, platform, tenant, runPolicy>>

\* PersistentToolPolicyGuard.assertAllowed.  The container provider reports
\* that it isolates files and processes and enforces the network policy.
Allowed(policy, sandbox, tool, path) ==
  /\ Permits(policy.tools, tool)
  /\ tool = Bash =>
       /\ policy.process
       /\ policy.network \/ sandbox.provider = "container"
       /\ policy.roots = Null \/ sandbox.provider = "container"
  /\ tool # Bash /\ path # Null => InRoots(policy.roots, path)

\* Only the last call that was let through is remembered.
AssertAllowed(r) ==
  /\ attempt[r].pc = "running"
  /\ \E tool \in Tool, path \in Optional(Path) :
       /\ Allowed(attempt[r].policy, attempt[r].sandbox, tool, path)
       /\ attempt' = [attempt EXCEPT ![r].call = [tool |-> tool, path |-> path]]
  /\ UNCHANGED <<sandboxProfile, provider, platform, tenant, runPolicy>>

\* The attempt ends, or its sandbox could not be created; a resumption makes
\* another one.
EndAttempt(r) ==
  /\ attempt[r].pc \in {"rejected", "compiled", "running"}
  /\ attempt' = [attempt EXCEPT ![r] = NoAttempt]
  /\ UNCHANGED <<sandboxProfile, provider, platform, tenant, runPolicy>>

Next ==
  \/ SetPlatformPolicy \/ SetTenantPolicy \/ Restart
  \/ \E r \in Run :
       ExecuteAttempt(r) \/ CreateSandbox(r) \/ AssertAllowed(r) \/ EndAttempt(r)

Spec == Init /\ [][Next]_vars

-----------------------------------------------------------------------------
(* Properties *)

Attempt ==
  [pc : {"none", "rejected", "compiled", "running"},
   layers : Optional([Kind -> PolicyConstraints]), policy : Optional(PolicyConstraints),
   offered : SUBSET Tool,
   sandbox : Optional([provider : {"local", "container"}, profile : Optional(Profile),
                       memory : Optional(Nat), network : {"bridge", "none"}]),
   call : Optional([tool : Tool, path : Optional(Path)])]

TypeOK ==
  /\ sandboxProfile \in Profile /\ provider \in {"local", "container"}
  /\ platform \in PolicyConstraints
  /\ tenant \in Optional(PolicyConstraints)
  /\ runPolicy \in [Run -> Optional(PolicyConstraints)]
  /\ attempt \in [Run -> Attempt]

\* What a layer demands of a running attempt.
Respects(a, r, layer) ==
  /\ Permits(layer.models, Template.model)
  /\ \A t \in a.offered : Permits(layer.tools, t)
  /\ InRoots(layer.roots, Workspace[r])
  /\ layer.disk = Null
  /\ layer.memory # Null => a.sandbox.memory # Null /\ a.sandbox.memory =< layer.memory
  /\ layer.profile # Null => a.sandbox.profile = layer.profile
  /\ ~layer.network => a.sandbox.network = "none"
  /\ a.call # Null =>
       /\ Permits(layer.tools, a.call.tool)
       /\ a.call.tool = Bash =>
            /\ layer.process
            /\ ~layer.network \/ layer.roots # Null => a.sandbox.provider = "container"
       /\ a.call.tool # Bash /\ a.call.path # Null => InRoots(layer.roots, a.call.path)

\* An attempt never does what one of the five layers it was started under
\* forbids, whichever of them, in whatever order they are intersected and
\* however the registry changes meanwhile: not its model, its tools, its
\* paths, its memory nor its network.
EveryLayerIsRespected ==
  \A r \in Run : attempt[r].pc = "running" =>
    \A k \in Kind : Respects(attempt[r], r, attempt[r].layers[k])
=============================================================================
