--------------------------- MODULE ServicesTheorems ---------------------------
(***************************************************************************)
(* What decides about runs and what is shown and sent: policies, the page  *)
(* of a user, admission and the gateway's traffic, each with a section and *)
(* an inductive invariant of its own; then all services together, under    *)
(* the specification of Services.                                          *)
(***************************************************************************)
EXTENDS Services, RunServicesTheorems

-----------------------------------------------------------------------------
(* RunPolicies *)
\* The intersection of the five layers is at least as strict as each of them,
\* for every choice of constraints and paths, and no attempt does what one of
\* its layers forbids.

\* What is below a path that is below a root is below that root.
LEMMA WithinTransitive ==
  ASSUME NEW p \in Path, NEW q \in Path, NEW r \in Path,
         IsWithin(p, q), IsWithin(q, r)
  PROVE  IsWithin(p, r)
<1>1. p \in Seq(STRING) /\ q \in Seq(STRING) /\ r \in Seq(STRING)
  BY PathAssumption
<1> QED
  BY <1>1 DEF IsWithin

\* The paths above a path are a chain.
LEMMA WithinChain ==
  ASSUME NEW p \in Path, NEW q \in Path, NEW r \in Path,
         IsWithin(p, q), IsWithin(p, r)
  PROVE  IsWithin(q, r) \/ IsWithin(r, q)
<1>1. p \in Seq(STRING) /\ q \in Seq(STRING) /\ r \in Seq(STRING)
  BY PathAssumption
<1>2. CASE p = q \/ p = r
  BY <1>2 DEF IsWithin
<1>3. CASE p # q /\ p # r
  <2>1. Len(q) \in Nat /\ Len(r) \in Nat
    BY <1>1
  <2>2. CASE Len(q) =< Len(r)
    BY <1>1, <1>3, <2>1, <2>2 DEF IsWithin
  <2>3. CASE Len(r) =< Len(q)
    BY <1>1, <1>3, <2>1, <2>3 DEF IsWithin
  <2> QED
    BY <2>1, <2>2, <2>3
<1> QED
  BY <1>2, <1>3

\* A list that is an intersection permits what both lists permit.
LEMMA ValuesAreIntersected ==
  ASSUME NEW left, NEW right,
         left # Null /\ right # Null => left \cap right # Null
  PROVE  \A x : Permits(IntersectValues(left, right), x)
                  <=> Permits(left, x) /\ Permits(right, x)
BY DEF IntersectValues, Permits

\* A path is below a root of the intersection exactly if it is below a root
\* of each side.
LEMMA RootsAreIntersected ==
  ASSUME NEW left \in Optional(SUBSET Path), NEW right \in Optional(SUBSET Path)
  PROVE  /\ IntersectRoots(left, right) \in Optional(SUBSET Path)
         /\ left # Null \/ right # Null => IntersectRoots(left, right) # Null
         /\ \A p \in Path : InRoots(IntersectRoots(left, right), p)
                              <=> InRoots(left, p) /\ InRoots(right, p)
<1>1. CASE left = Null \/ right = Null
  BY <1>1 DEF IntersectRoots, InRoots, Optional
<1>2. CASE left # Null /\ right # Null
  <2> DEFINE Both == {p \in left : \E q \in right : IsWithin(p, q)}
                       \cup {q \in right : \E p \in left : IsWithin(q, p)}
  <2>1. left \in SUBSET Path /\ right \in SUBSET Path /\ Both \in SUBSET Path
    BY <1>2 DEF Optional
  <2>2. IntersectRoots(left, right) = Both
    BY <1>2 DEF IntersectRoots
  <2>3. Both # Null
    BY <2>1, PolicyAssumption
  <2>4. ASSUME NEW p \in Path, InRoots(Both, p)
        PROVE  InRoots(left, p) /\ InRoots(right, p)
    <3>1. PICK root \in Both : IsWithin(p, root)
      BY <2>3, <2>4 DEF InRoots
    <3> HIDE DEF Both
    <3>2. PICK q \in left, r \in right : IsWithin(root, q) /\ IsWithin(root, r)
      <4>1. IsWithin(root, root)
        BY DEF IsWithin
      <4> QED
        BY <3>1, <4>1 DEF Both
    <3>3. root \in Path /\ q \in Path /\ r \in Path
      BY <2>1, <3>1, <3>2
    <3>4. IsWithin(p, q) /\ IsWithin(p, r)
      BY <3>1, <3>2, <3>3, WithinTransitive
    <3> QED
      BY <3>2, <3>4 DEF InRoots
  <2>5. ASSUME NEW p \in Path, InRoots(left, p), InRoots(right, p)
        PROVE  InRoots(Both, p)
    <3>1. PICK q \in left : IsWithin(p, q)
      BY <1>2, <2>5 DEF InRoots
    <3>2. PICK r \in right : IsWithin(p, r)
      BY <1>2, <2>5 DEF InRoots
    <3>3. IsWithin(q, r) \/ IsWithin(r, q)
      BY <2>1, <3>1, <3>2, WithinChain
    <3> QED
      BY <3>1, <3>2, <3>3 DEF InRoots
  <2> HIDE DEF Both
  <2> QED
    BY <2>1, <2>2, <2>3, <2>4, <2>5 DEF Optional
<1> QED
  BY <1>1, <1>2

-----------------------------------------------------------------------------
\* One set of constraints is at least as strict as another one.
Narrower(a, b) ==
  /\ \A t \in Tool : Permits(a.tools, t) => Permits(b.tools, t)
  /\ \A m \in Model : Permits(a.models, m) => Permits(b.models, m)
  /\ \A p \in Path : InRoots(a.roots, p) => InRoots(b.roots, p)
  /\ b.roots # Null => a.roots # Null
  /\ a.network => b.network
  /\ a.process => b.process
  /\ b.memory # Null => a.memory # Null /\ a.memory =< b.memory
  /\ a.disk = Null => b.disk = Null

LEMMA NarrowerTransitive ==
  ASSUME NEW a \in PolicyConstraints, NEW b \in PolicyConstraints, NEW c \in PolicyConstraints,
         Narrower(a, b), Narrower(b, c)
  PROVE  Narrower(a, c)
<1>1. /\ a.memory # Null => a.memory \in Nat
      /\ b.memory # Null => b.memory \in Nat
      /\ c.memory # Null => c.memory \in Nat
  BY DEF PolicyConstraints, Optional
<1>2. c.memory # Null => a.memory # Null /\ a.memory =< c.memory
  BY <1>1 DEF Narrower
<1> QED
  BY <1>2 DEF Narrower

\* The intersection of two sets of constraints is one, as strict as each.
LEMMA IntersectionIsNarrower ==
  ASSUME NEW a \in PolicyConstraints, NEW b \in PolicyConstraints
  PROVE  /\ IntersectConstraints(a, b) \in PolicyConstraints
         /\ Narrower(IntersectConstraints(a, b), a)
         /\ Narrower(IntersectConstraints(a, b), b)
<1> DEFINE both == IntersectConstraints(a, b)
<1>1. /\ a.network \in BOOLEAN /\ b.network \in BOOLEAN
      /\ a.process \in BOOLEAN /\ b.process \in BOOLEAN
      /\ a.memory \in Optional(Nat) /\ b.memory \in Optional(Nat)
      /\ a.disk \in Optional(Nat) /\ b.disk \in Optional(Nat)
      /\ a.profile \in Optional(Profile) /\ b.profile \in Optional(Profile)
  BY DEF PolicyConstraints
<1>2. /\ both.network = (a.network /\ b.network)
      /\ both.process = (a.process /\ b.process)
      /\ both.memory = Minimum(a.memory, b.memory)
      /\ both.disk = Minimum(a.disk, b.disk)
      /\ both.profile = IntersectSandboxProfiles(a.profile, b.profile)
  BY DEF IntersectConstraints
<1>3. /\ both.tools \in Optional(SUBSET Tool)
      /\ \A t : Permits(both.tools, t) <=> Permits(a.tools, t) /\ Permits(b.tools, t)
  <2>1. a.tools \in Optional(SUBSET Tool) /\ b.tools \in Optional(SUBSET Tool)
    BY DEF PolicyConstraints
  <2>2. both.tools = IntersectValues(a.tools, b.tools)
    BY DEF IntersectConstraints
  <2>3. a.tools # Null /\ b.tools # Null => a.tools \cap b.tools # Null
    BY <2>1, PolicyAssumption DEF Optional
  <2>4. both.tools \in Optional(SUBSET Tool)
    BY <2>1, <2>2 DEF IntersectValues, Optional
  <2> QED
    BY <2>2, <2>3, <2>4, ValuesAreIntersected
<1>4. /\ both.models \in Optional(SUBSET Model)
      /\ \A m : Permits(both.models, m) <=> Permits(a.models, m) /\ Permits(b.models, m)
  <2>1. a.models \in Optional(SUBSET Model) /\ b.models \in Optional(SUBSET Model)
    BY DEF PolicyConstraints
  <2>2. both.models = IntersectValues(a.models, b.models)
    BY DEF IntersectConstraints
  <2>3. a.models # Null /\ b.models # Null => a.models \cap b.models # Null
    BY <2>1, PolicyAssumption DEF Optional
  <2>4. both.models \in Optional(SUBSET Model)
    BY <2>1, <2>2 DEF IntersectValues, Optional
  <2> QED
    BY <2>2, <2>3, <2>4, ValuesAreIntersected
<1>5. /\ both.roots \in Optional(SUBSET Path)
      /\ a.roots # Null \/ b.roots # Null => both.roots # Null
      /\ \A p \in Path : InRoots(both.roots, p) <=> InRoots(a.roots, p) /\ InRoots(b.roots, p)
  <2>1. a.roots \in Optional(SUBSET Path) /\ b.roots \in Optional(SUBSET Path)
    BY DEF PolicyConstraints
  <2>2. both.roots = IntersectRoots(a.roots, b.roots)
    BY DEF IntersectConstraints
  <2> QED
    BY <2>1, <2>2, RootsAreIntersected
<1>6. /\ both.memory \in Optional(Nat) /\ both.disk \in Optional(Nat)
      /\ a.memory # Null => both.memory # Null /\ both.memory =< a.memory
      /\ b.memory # Null => both.memory # Null /\ both.memory =< b.memory
      /\ both.disk = Null => a.disk = Null /\ b.disk = Null
  BY <1>1, <1>2, PolicyAssumption DEF Minimum, Optional
<1>7. both.profile \in Optional(Profile)
  BY <1>1, <1>2 DEF IntersectSandboxProfiles, Optional
<1>8. both \in PolicyConstraints
  BY <1>1, <1>2, <1>3, <1>4, <1>5, <1>6, <1>7 DEF PolicyConstraints, IntersectConstraints, both
<1>9. Narrower(both, a) /\ Narrower(both, b)
  BY <1>2, <1>3, <1>4, <1>5, <1>6 DEF Narrower
<1> QED
  BY <1>8, <1>9 DEF both

\* What the intersection of all layers is, against each of them.
LEMMA EffectiveIsNarrower ==
  ASSUME NEW layers \in [Kind -> PolicyConstraints]
  PROVE  /\ ComputeEffectivePolicy(layers) \in PolicyConstraints
         /\ \A k \in Kind : Narrower(ComputeEffectivePolicy(layers), layers[k])
<1> DEFINE onPlatform  == IntersectConstraints(UnrestrictedPolicy, layers["PLATFORM"])
           onTenant    == IntersectConstraints(onPlatform, layers["TENANT"])
           onTemplate  == IntersectConstraints(onTenant, layers["TEMPLATE"])
           onWorkspace == IntersectConstraints(onTemplate, layers["WORKSPACE"])
           effective   == IntersectConstraints(onWorkspace, layers["RUN"])
<1>1. /\ layers["PLATFORM"] \in PolicyConstraints /\ layers["TENANT"] \in PolicyConstraints
      /\ layers["TEMPLATE"] \in PolicyConstraints /\ layers["WORKSPACE"] \in PolicyConstraints
      /\ layers["RUN"] \in PolicyConstraints
  BY DEF Kind
<1>2. UnrestrictedPolicy \in PolicyConstraints
  BY DEF UnrestrictedPolicy, PolicyConstraints, Optional
<1>3. onPlatform \in PolicyConstraints /\ Narrower(onPlatform, layers["PLATFORM"])
  BY <1>1, <1>2, IntersectionIsNarrower
<1> HIDE DEF onPlatform
<1>4. /\ onTenant \in PolicyConstraints
      /\ Narrower(onTenant, onPlatform) /\ Narrower(onTenant, layers["TENANT"])
  BY <1>1, <1>3, IntersectionIsNarrower
<1> HIDE DEF onTenant
<1>5. /\ onTemplate \in PolicyConstraints
      /\ Narrower(onTemplate, onTenant) /\ Narrower(onTemplate, layers["TEMPLATE"])
  BY <1>1, <1>4, IntersectionIsNarrower
<1> HIDE DEF onTemplate
<1>6. /\ onWorkspace \in PolicyConstraints
      /\ Narrower(onWorkspace, onTemplate) /\ Narrower(onWorkspace, layers["WORKSPACE"])
  BY <1>1, <1>5, IntersectionIsNarrower
<1> HIDE DEF onWorkspace
<1>7. /\ effective \in PolicyConstraints
      /\ Narrower(effective, onWorkspace) /\ Narrower(effective, layers["RUN"])
  BY <1>1, <1>6, IntersectionIsNarrower
<1> HIDE DEF effective
<1>8. Narrower(effective, layers["WORKSPACE"]) /\ Narrower(effective, onTemplate)
  BY <1>1, <1>5, <1>6, <1>7, NarrowerTransitive
<1>9. Narrower(effective, layers["TEMPLATE"]) /\ Narrower(effective, onTenant)
  BY <1>1, <1>4, <1>5, <1>7, <1>8, NarrowerTransitive
<1>10. Narrower(effective, layers["TENANT"]) /\ Narrower(effective, onPlatform)
  BY <1>1, <1>3, <1>4, <1>7, <1>9, NarrowerTransitive
<1>11. Narrower(effective, layers["PLATFORM"])
  BY <1>1, <1>3, <1>7, <1>10, NarrowerTransitive
<1>12. ComputeEffectivePolicy(layers) = effective
  BY DEF ComputeEffectivePolicy, effective, onWorkspace, onTemplate, onTenant, onPlatform
<1> QED
  BY <1>7, <1>8, <1>9, <1>10, <1>11, <1>12 DEF Kind

\* Layers that do not contradict each other get the profile any of them asks for.
LEMMA ProfileIsKept ==
  ASSUME NEW layers \in [Kind -> PolicyConstraints], Compatible(layers),
         NEW k \in Kind, layers[k].profile # Null
  PROVE  ComputeEffectivePolicy(layers).profile = layers[k].profile
<1> DEFINE profile(kind) == layers[kind].profile
<1>1. \A k1, k2 \in Kind : profile(k1) # Null /\ profile(k2) # Null => profile(k1) = profile(k2)
  BY DEF Compatible
<1> DEFINE join(left, right) == IntersectSandboxProfiles(left, right)
<1>4. \A left, right : IntersectConstraints(left, right).profile = join(left.profile, right.profile)
  BY DEF IntersectConstraints
<1>5. ComputeEffectivePolicy(layers).profile =
        join(join(join(join(join(Null, profile("PLATFORM")), profile("TENANT")),
                       profile("TEMPLATE")), profile("WORKSPACE")), profile("RUN"))
  <2> HIDE DEF join
  <2> QED
    BY <1>4 DEF ComputeEffectivePolicy, UnrestrictedPolicy
<1>2. ComputeEffectivePolicy(layers).profile =
        IF profile("PLATFORM") # Null THEN profile("PLATFORM")
        ELSE IF profile("TENANT") # Null THEN profile("TENANT")
        ELSE IF profile("TEMPLATE") # Null THEN profile("TEMPLATE")
        ELSE IF profile("WORKSPACE") # Null THEN profile("WORKSPACE")
        ELSE profile("RUN")
  <2> HIDE DEF profile
  <2> QED
    BY <1>5 DEF IntersectSandboxProfiles
<1> HIDE DEF profile
<1>3. profile(k) # Null /\ ComputeEffectivePolicy(layers).profile = profile(k)
  <2>1. profile(k) # Null
    BY DEF profile
  <2> QED
    BY <1>1, <1>2, <2>1 DEF Kind
<1> QED
  BY <1>3 DEF profile

-----------------------------------------------------------------------------
\* The policy of an attempt is at least as strict as its layers, what was
\* compiled follows from it, and so do the sandbox and the last call.
PolicyInForce(a, r) ==
  /\ a.layers \in [Kind -> PolicyConstraints] /\ a.policy \in PolicyConstraints
  /\ \A k \in Kind : Narrower(a.policy, a.layers[k])
  /\ \A k \in Kind : a.layers[k].profile # Null => a.policy.profile = a.layers[k].profile
  /\ Permits(a.policy.models, Template.model)
  /\ \A t \in a.offered : Permits(a.policy.tools, t)
  /\ a.pc = "compiled" => a.call = Null

SandboxInForce(a, r) ==
  /\ CanEnforce(r, a.policy)
  /\ a.sandbox = SandboxSpec(a.policy)
  /\ a.call # Null => Allowed(a.policy, a.sandbox, a.call.tool, a.call.path)

IInv ==
  /\ TypeOK
  /\ \A r \in Run :
       /\ attempt[r].pc \in {"compiled", "running"} => PolicyInForce(attempt[r], r)
       /\ attempt[r].pc = "running" => SandboxInForce(attempt[r], r)

\* The layers of a run are constraints.
LEMMA LayersAreConstraints ==
  ASSUME TypeOK, NEW r \in Run
  PROVE  PolicyLayers(r) \in [Kind -> PolicyConstraints]
<1>1. UnrestrictedPolicy \in PolicyConstraints
  BY DEF UnrestrictedPolicy, PolicyConstraints, Optional
<1>2. /\ [platform EXCEPT !.network = FALSE] \in PolicyConstraints
      /\ platform \in PolicyConstraints
  BY DEF TypeOK, PolicyConstraints
<1>3. OrDefault(tenant) \in PolicyConstraints /\ OrDefault(runPolicy[r]) \in PolicyConstraints
  BY <1>1 DEF TypeOK, OrDefault, DefaultPolicy, Optional
<1>4. [UnrestrictedPolicy EXCEPT !.tools = Template.tools, !.models = {Template.model}]
        \in PolicyConstraints
  BY <1>1, PolicyAssumption DEF PolicyConstraints, Optional
<1>5. [UnrestrictedPolicy EXCEPT !.roots = {Workspace[r]}] \in PolicyConstraints
  BY <1>1, PolicyAssumption DEF PolicyConstraints, Optional
<1> QED
  BY <1>2, <1>3, <1>4, <1>5 DEF PolicyLayers, Kind

\* A new attempt is governed by its layers.
LEMMA NewPolicyIsInForce ==
  ASSUME TypeOK, NEW r \in Run, Compatible(PolicyLayers(r)),
         NEW a \in Attempt, a.layers = PolicyLayers(r),
         a.policy = WithSandboxProfile(ComputeEffectivePolicy(PolicyLayers(r))),
         Permits(a.policy.models, Template.model), a.offered = CompiledTools(a.policy),
         a.call = Null
  PROVE  PolicyInForce(a, r)
<1> DEFINE layers == PolicyLayers(r)
           effective == ComputeEffectivePolicy(layers)
<1>1. layers \in [Kind -> PolicyConstraints]
  BY LayersAreConstraints
<1> HIDE DEF layers
<1>2. /\ effective \in PolicyConstraints
      /\ \A k \in Kind : Narrower(effective, layers[k])
  BY <1>1, EffectiveIsNarrower
<1>3. \A k \in Kind : layers[k].profile # Null => effective.profile = layers[k].profile
  BY <1>1, ProfileIsKept DEF layers
<1> HIDE DEF effective
<1>4. a.layers = layers /\ a.policy = WithSandboxProfile(effective)
  BY DEF layers, effective
<1>5. /\ a.policy \in PolicyConstraints
      /\ \A f \in {"tools", "models", "roots", "network", "process", "memory", "disk"} :
           a.policy[f] = effective[f]
      /\ effective.profile # Null => a.policy.profile = effective.profile
  BY <1>2, <1>4 DEF WithSandboxProfile, PolicyConstraints, TypeOK, Optional
<1>6. /\ a.policy.tools = effective.tools /\ a.policy.models = effective.models
      /\ a.policy.roots = effective.roots /\ a.policy.network = effective.network
      /\ a.policy.process = effective.process /\ a.policy.memory = effective.memory
      /\ a.policy.disk = effective.disk
  BY <1>2, <1>4 DEF WithSandboxProfile, PolicyConstraints
<1>7. \A k \in Kind : Narrower(a.policy, layers[k])
  BY <1>2, <1>6 DEF Narrower
<1>8. \A k \in Kind : layers[k].profile # Null => a.policy.profile = layers[k].profile
  <2>1. \A k \in Kind : layers[k] \in PolicyConstraints
    BY <1>1
  <2> QED
    BY <1>3, <1>5, <2>1
<1>9. \A t \in a.offered : Permits(a.policy.tools, t)
  BY DEF CompiledTools
<1> QED
  BY <1>1, <1>4, <1>5, <1>7, <1>8, <1>9 DEF PolicyInForce

-----------------------------------------------------------------------------
LEMMA InitIsInForce == Init => IInv
<1> SUFFICES ASSUME Init PROVE IInv
  OBVIOUS
<1>1. NoAttempt \in Attempt
  BY DEF NoAttempt, Attempt, Optional
<1>2. TypeOK
  BY <1>1, PolicyAssumption DEF Init, ParsedConstraints, TypeOK, Optional
<1>3. \A r \in Run : attempt[r].pc = "none"
  BY DEF Init, NoAttempt
<1> QED
  BY <1>2, <1>3 DEF IInv

\* A step that changes the attempt of one run keeps the invariant if the new
\* attempt does.
LEMMA OneAttemptChanges ==
  ASSUME IInv, NEW r \in Run, NEW a \in Attempt,
         attempt' = [attempt EXCEPT ![r] = a],
         UNCHANGED <<sandboxProfile, provider, platform, tenant, runPolicy>>,
         a.pc \in {"compiled", "running"} => PolicyInForce(a, r),
         a.pc = "running" => SandboxInForce(a, r)
  PROVE  IInv'
<1>1. TypeOK'
  BY DEF IInv, TypeOK
<1>2. ASSUME NEW q \in Run
      PROVE  /\ attempt'[q].pc \in {"compiled", "running"} => PolicyInForce(attempt'[q], q)
             /\ attempt'[q].pc = "running" => SandboxInForce(attempt'[q], q)
  <2>1. attempt'[q] = IF q = r THEN a ELSE attempt[q]
    BY DEF IInv, TypeOK
  <2> QED
    BY <2>1 DEF IInv
<1>3. \A q \in Run : SandboxInForce(attempt'[q], q) => SandboxInForce(attempt[q], q)'
  BY DEF SandboxInForce, CanEnforce, SandboxSpec
<1>4. \A q \in Run : PolicyInForce(attempt'[q], q) => PolicyInForce(attempt[q], q)'
  BY DEF PolicyInForce
<1> QED
  BY <1>1, <1>2, <1>3, <1>4 DEF IInv

LEMMA StepIsInForce == IInv /\ [Next]_vars => IInv'
<1> SUFFICES ASSUME IInv, [Next]_vars PROVE IInv'
  OBVIOUS
<1> USE DEF IInv
<1>1. ASSUME UNCHANGED attempt, UNCHANGED <<sandboxProfile, provider, runPolicy>>,
             platform' \in PolicyConstraints, tenant' \in Optional(PolicyConstraints)
      PROVE  IInv'
  <2>1. TypeOK'
    BY <1>1 DEF TypeOK
  <2>2. \A r \in Run : /\ PolicyInForce(attempt[r], r) => PolicyInForce(attempt[r], r)'
                       /\ SandboxInForce(attempt[r], r) => SandboxInForce(attempt[r], r)'
    BY <1>1 DEF PolicyInForce, SandboxInForce, CanEnforce, SandboxSpec
  <2> QED
    BY <1>1, <2>1, <2>2
<1>2. CASE SetPlatformPolicy
  BY <1>1, <1>2, PolicyAssumption DEF SetPlatformPolicy, ParsedConstraints, TypeOK
<1>3. CASE SetTenantPolicy
  BY <1>1, <1>3, PolicyAssumption DEF SetTenantPolicy, ParsedConstraints, TypeOK, Optional
<1>4. CASE Restart
  <2>1. NoAttempt \in Attempt
    BY DEF NoAttempt, Attempt, Optional
  <2>2. TypeOK'
    BY <1>4, <2>1, PolicyAssumption DEF Restart, TypeOK, Optional
  <2>3. \A r \in Run : attempt'[r].pc = "none"
    BY <1>4 DEF Restart, NoAttempt
  <2> QED
    BY <2>2, <2>3
<1>5. ASSUME NEW r \in Run, ExecuteAttempt(r)
      PROVE  IInv'
  <2> DEFINE layers == PolicyLayers(r)
             policy == WithSandboxProfile(ComputeEffectivePolicy(layers))
             compiled == [NoAttempt EXCEPT !.pc = "compiled", !.layers = layers,
                                           !.policy = policy, !.offered = CompiledTools(policy)]
             rejected == [NoAttempt EXCEPT !.pc = "rejected", !.layers = layers,
                                           !.policy = policy]
  <2>1. layers \in [Kind -> PolicyConstraints]
    BY LayersAreConstraints
  <2>2. policy \in PolicyConstraints
    <3>1. ComputeEffectivePolicy(layers) \in PolicyConstraints
      BY <2>1, EffectiveIsNarrower
    <3> QED
      BY <3>1 DEF WithSandboxProfile, PolicyConstraints, TypeOK, Optional
  <2>3. CompiledTools(policy) \in SUBSET Tool
    BY PolicyAssumption DEF CompiledTools
  <2> HIDE DEF layers, policy
  <2>4. compiled \in Attempt /\ rejected \in Attempt
    BY <2>1, <2>2, <2>3 DEF NoAttempt, Attempt, Optional
  <2>5. /\ compiled.pc = "compiled" /\ compiled.layers = layers /\ compiled.policy = policy
        /\ compiled.offered = CompiledTools(policy) /\ compiled.call = Null
        /\ rejected.pc = "rejected"
    BY DEF NoAttempt
  <2>6. CASE attempt' = [attempt EXCEPT ![r] = compiled] /\ Permits(policy.models, Template.model)
    <3> HIDE DEF compiled
    <3>1. PolicyInForce(compiled, r)
      BY <1>5, <2>4, <2>5, <2>6, NewPolicyIsInForce DEF ExecuteAttempt, layers, policy
    <3> QED
      BY <1>5, <2>4, <2>5, <2>6, <3>1, OneAttemptChanges DEF ExecuteAttempt
  <2>7. CASE attempt' = [attempt EXCEPT ![r] = rejected]
    <3> HIDE DEF rejected
    <3> QED
      BY <1>5, <2>4, <2>5, <2>7, OneAttemptChanges DEF ExecuteAttempt
  <2> QED
    BY <1>5, <2>6, <2>7 DEF ExecuteAttempt, layers, policy
<1>6. ASSUME NEW r \in Run, CreateSandbox(r)
      PROVE  IInv'
  <2> DEFINE a == [attempt[r] EXCEPT !.pc = "running", !.sandbox = SandboxSpec(attempt[r].policy)]
  <2>1. PolicyInForce(attempt[r], r) /\ attempt[r] \in Attempt
    BY <1>6 DEF CreateSandbox, TypeOK
  <2>2. SandboxSpec(attempt[r].policy) \in
          [provider : {"local", "container"}, profile : Optional(Profile),
           memory : Optional(Nat), network : {"bridge", "none"}]
    BY <2>1 DEF SandboxSpec, PolicyInForce, PolicyConstraints, TypeOK
  <2>3. a \in Attempt
    BY <2>1, <2>2 DEF Attempt, Optional
  <2>4. /\ a.pc = "running" /\ a.layers = attempt[r].layers /\ a.policy = attempt[r].policy
        /\ a.offered = attempt[r].offered /\ a.call = attempt[r].call
        /\ a.sandbox = SandboxSpec(attempt[r].policy)
    BY <2>1 DEF Attempt
  <2>5. attempt' = [attempt EXCEPT ![r] = a]
    BY <1>6 DEF CreateSandbox, TypeOK
  <2>6. attempt[r].call = Null
    BY <1>6, <2>1 DEF CreateSandbox, PolicyInForce
  <2> HIDE DEF a
  <2>7. PolicyInForce(a, r)
    BY <2>1, <2>4 DEF PolicyInForce
  <2>8. SandboxInForce(a, r)
    BY <1>6, <2>4, <2>6 DEF SandboxInForce, CreateSandbox
  <2> QED
    BY <1>6, <2>3, <2>5, <2>7, <2>8, OneAttemptChanges DEF CreateSandbox
<1>7. ASSUME NEW r \in Run, AssertAllowed(r)
      PROVE  IInv'
  <2>1. PICK tool \in Tool, path \in Optional(Path) :
          /\ Allowed(attempt[r].policy, attempt[r].sandbox, tool, path)
          /\ attempt' = [attempt EXCEPT ![r].call = [tool |-> tool, path |-> path]]
    BY <1>7 DEF AssertAllowed
  <2> DEFINE a == [attempt[r] EXCEPT !.call = [tool |-> tool, path |-> path]]
  <2>2. attempt[r] \in Attempt /\ attempt[r].pc = "running"
    BY <1>7 DEF AssertAllowed, TypeOK
  <2>3. PolicyInForce(attempt[r], r) /\ SandboxInForce(attempt[r], r)
    BY <2>2
  <2>4. a \in Attempt
    BY <2>2 DEF Attempt, Optional
  <2>5. /\ a.pc = "running" /\ a.layers = attempt[r].layers /\ a.policy = attempt[r].policy
        /\ a.offered = attempt[r].offered /\ a.sandbox = attempt[r].sandbox
        /\ a.call = [tool |-> tool, path |-> path]
    BY <2>2 DEF Attempt
  <2>6. attempt' = [attempt EXCEPT ![r] = a]
    BY <2>1 DEF TypeOK
  <2> HIDE DEF a
  <2>7. PolicyInForce(a, r)
    BY <2>3, <2>5 DEF PolicyInForce
  <2>8. SandboxInForce(a, r)
    BY <2>1, <2>3, <2>5 DEF SandboxInForce
  <2> QED
    BY <1>7, <2>4, <2>6, <2>7, <2>8, OneAttemptChanges DEF AssertAllowed
<1>8. ASSUME NEW r \in Run, EndAttempt(r)
      PROVE  IInv'
  <2>1. NoAttempt \in Attempt /\ NoAttempt.pc = "none"
    BY DEF NoAttempt, Attempt, Optional
  <2> QED
    BY <1>8, <2>1, OneAttemptChanges DEF EndAttempt
<1>9. CASE UNCHANGED vars
  BY <1>1, <1>9 DEF vars, TypeOK
<1> QED
  BY <1>2, <1>3, <1>4, <1>5, <1>6, <1>7, <1>8, <1>9 DEF Next

\* Constraints, attempts and the registry keep their types.
THEOREM PoliciesTypeCorrect == Spec => []TypeOK
<1>1. IInv => TypeOK
  BY DEF IInv
<1> QED
  BY <1>1, InitIsInForce, StepIsInForce, PTL DEF Spec

\* No attempt does what one of the layers it was started under forbids.
THEOREM LayersAreRespected == Spec => []EveryLayerIsRespected
<1>1. IInv => EveryLayerIsRespected
  <2> SUFFICES ASSUME IInv, NEW r \in Run, attempt[r].pc = "running", NEW k \in Kind
               PROVE  Respects(attempt[r], r, attempt[r].layers[k])
    BY DEF EveryLayerIsRespected
  <2> DEFINE a == attempt[r]
             layer == attempt[r].layers[k]
  <2>1. PolicyInForce(a, r) /\ SandboxInForce(a, r) /\ a \in Attempt
    BY DEF IInv, TypeOK
  <2>2. Narrower(a.policy, layer) /\ (layer.profile # Null => a.policy.profile = layer.profile)
    BY <2>1 DEF PolicyInForce
  <2>3. /\ layer \in PolicyConstraints /\ a.policy \in PolicyConstraints
    BY <2>1 DEF PolicyInForce
  <2>4. /\ Template.model \in Model /\ Workspace[r] \in Path /\ a.offered \subseteq Tool
    BY <2>1, PolicyAssumption DEF Attempt
  <2>5. a.sandbox = SandboxSpec(a.policy) /\ CanEnforce(r, a.policy)
    BY <2>1 DEF SandboxInForce
  <2>6. /\ a.sandbox.profile = a.policy.profile /\ a.sandbox.memory = a.policy.memory
        /\ a.sandbox.provider = provider
        /\ a.sandbox.network = "bridge" => a.policy.network
        /\ a.sandbox.network = IF provider = "local" /\ a.policy.network THEN "bridge" ELSE "none"
    BY <2>5 DEF SandboxSpec
  <2> HIDE DEF a, layer
  <2>7. /\ Permits(layer.models, Template.model)
        /\ \A t \in a.offered : Permits(layer.tools, t)
        /\ InRoots(layer.roots, Workspace[r])
        /\ layer.disk = Null
    BY <2>1, <2>2, <2>4, <2>5 DEF Narrower, PolicyInForce, CanEnforce
  <2>8. /\ layer.memory # Null => a.sandbox.memory # Null /\ a.sandbox.memory =< layer.memory
        /\ layer.profile # Null => a.sandbox.profile = layer.profile
        /\ ~layer.network => a.sandbox.network = "none"
    BY <2>2, <2>3, <2>6 DEF Narrower
  <2>9. a.call # Null =>
          /\ Permits(layer.tools, a.call.tool)
          /\ a.call.tool = Bash =>
               /\ layer.process
               /\ ~layer.network \/ layer.roots # Null => a.sandbox.provider = "container"
          /\ a.call.tool # Bash /\ a.call.path # Null => InRoots(layer.roots, a.call.path)
    <3> SUFFICES ASSUME a.call # Null
                 PROVE  /\ Permits(layer.tools, a.call.tool)
                        /\ a.call.tool = Bash =>
                             /\ layer.process
                             /\ ~layer.network \/ layer.roots # Null
                                  => a.sandbox.provider = "container"
                        /\ a.call.tool # Bash /\ a.call.path # Null
                             => InRoots(layer.roots, a.call.path)
      OBVIOUS
    <3>1. a.call.tool \in Tool /\ (a.call.path # Null => a.call.path \in Path)
      BY <2>1 DEF Attempt, Optional
    <3>2. Allowed(a.policy, a.sandbox, a.call.tool, a.call.path)
      BY <2>1 DEF SandboxInForce
    <3> QED
      BY <2>2, <3>1, <3>2 DEF Allowed, Narrower
  <2> QED
    BY <2>7, <2>8, <2>9 DEF Respects, a, layer
<1> QED
  BY <1>1, InitIsInForce, StepIsInForce, PTL DEF Spec
-----------------------------------------------------------------------------
(* UserConsole *)

Refresh == [for : Conversation, newest : BOOLEAN, stage : {"asked", "served", "texts"},
            version : 0..MaxVersion, then : {"plain", "open", "sent"}]

Page == [signedIn : BOOLEAN, open : Conversation \cup {Null},
         page : [of : Conversation \cup {Null}, version : 0..MaxVersion],
         requests : Seq(Refresh), timer : BOOLEAN, netDown : BOOLEAN,
         sending : BOOLEAN, refused : BOOLEAN]

Versions == [Conversation -> 0..MaxVersion]

\* The newest answer shown is n, and the server has not gone back.
Shown(s, sv, n) ==
  n > 0 => s.open # Null /\ s.page = [of |-> s.open, version |-> n] /\ n =< sv[s.open]

Backed(s, sv) == \A i \in DOMAIN s.requests : s.requests[i].version =< sv[s.requests[i].for]

\* The newest refresh is the last one asked for and brings nothing older.
Newest(s, n) ==
  \A i \in DOMAIN s.requests : s.requests[i].newest =>
    /\ i = Len(s.requests)
    /\ s.open # Null => s.requests[i].for = s.open
    /\ s.requests[i].stage = "served" => n =< s.requests[i].version

\* An older refresh that outlives the newest one does not restart the poll, so
\* it must not be what keeps the page alive.
Alive(s, n) ==
  n > 0 /\ s.signedIn /\ Console!Active(s.page.version) =>
    s.timer \/ s.netDown \/ s.refused \/ \E i \in DOMAIN s.requests : s.requests[i].newest

Sent(s, i) == s.requests[i].then = "sent"

\* One submission at a time: it is posted, or its conversation is being opened.
Locked(s, p) ==
  /\ s.sending <=> p # Null \/ \E i \in DOMAIN s.requests : Sent(s, i)
  /\ p # Null => \A i \in DOMAIN s.requests : ~Sent(s, i)
  /\ \A i, j \in DOMAIN s.requests : Sent(s, i) /\ Sent(s, j) => i = j

ConsoleIInv ==
  /\ S \in Page /\ server \in Versions /\ seen \in 0..MaxVersion
  /\ post = Null \/ post \in [for : Conversation \cup {Null}]
  /\ Shown(S, server, seen) /\ Backed(S, server) /\ Newest(S, seen)
  /\ Alive(S, seen) /\ Locked(S, post)

-----------------------------------------------------------------------------
\* Removing the request at i: what is left keeps its order.
LEMMA RequestDropped ==
  ASSUME NEW T, NEW q \in Seq(T), NEW i \in DOMAIN q
  PROVE  LET r == Console!RemoveAt(q, i) IN
         /\ r \in Seq(T) /\ Len(r) = Len(q) - 1
         /\ \A k \in DOMAIN r : r[k] = q[IF k < i THEN k ELSE k + 1]
<1>1. Len(q) \in Nat /\ DOMAIN q = 1..Len(q) /\ i \in 1..Len(q)
  BY LenProperties
<1> DEFINE r == Console!RemoveAt(q, i)
           b == SubSeq(q, 1, i - 1)
           a == SubSeq(q, i + 1, Len(q))
<1>2. /\ b \in Seq(T) /\ Len(b) = i - 1 /\ \A k \in 1..(i - 1) : b[k] = q[k]
  BY <1>1, SubSeqProperties
<1>3. /\ a \in Seq(T) /\ Len(a) = Len(q) - i /\ \A k \in 1..(Len(q) - i) : a[k] = q[i + k]
  BY <1>1, SubSeqProperties
<1>4. r = b \o a
  BY DEF Console!RemoveAt
<1> HIDE DEF a, b, r
<1>5. /\ b \o a \in Seq(T)
      /\ Len(b \o a) = Len(b) + Len(a)
      /\ \A k \in 1..(Len(b) + Len(a)) :
           (b \o a)[k] = IF k <= Len(b) THEN b[k] ELSE a[k - Len(b)]
  BY <1>2, <1>3, ConcatProperties
<1>6. r \in Seq(T) /\ Len(r) = Len(q) - 1 /\ DOMAIN r = 1..(Len(q) - 1)
  <2>1. r \in Seq(T) /\ Len(r) = Len(q) - 1
    BY <1>1, <1>2, <1>3, <1>4, <1>5
  <2> QED  BY <2>1, LenProperties
<1>7. ASSUME NEW k \in DOMAIN r
      PROVE  r[k] = q[IF k < i THEN k ELSE k + 1]
  <2>1. r[k] = IF k <= Len(b) THEN b[k] ELSE a[k - Len(b)]
    BY <1>1, <1>2, <1>3, <1>4, <1>5, <1>6
  <2>2. CASE k < i
    BY <2>1, <2>2, <1>1, <1>2, <1>6
  <2>3. CASE ~(k < i)
    <3>1. k - Len(b) \in 1..(Len(q) - i) /\ i + (k - Len(b)) = k + 1 /\ ~(k <= Len(b))
      BY <2>3, <1>1, <1>2, <1>6
    <3> QED  BY <3>1, <2>1, <2>3, <1>3
  <2> QED  BY <2>2, <2>3
<1> QED  BY <1>6, <1>7 DEF r

LEMMA RequestFields ==
  ASSUME NEW s \in Page, NEW i \in DOMAIN s.requests
  PROVE  /\ i \in 1..Len(s.requests) /\ Len(s.requests) \in Nat
         /\ s.requests[i] \in Refresh
         /\ s.requests[i].for \in Conversation
         /\ s.requests[i].version \in 0..MaxVersion
         /\ s.requests[i].then \in {"plain", "open", "sent"}
<1>1. s.requests \in Seq(Refresh) /\ Len(s.requests) \in Nat /\ i \in 1..Len(s.requests)
  BY LenProperties DEF Page
<1>2. s.requests[i] \in Refresh
  BY <1>1, ElementOfSeq
<1> QED  BY <1>1, <1>2 DEF Refresh

\* A new refresh supersedes the others and keeps the page alive.
LEMMA Asking ==
  ASSUME Console!Configured, NEW s \in Page, NEW sv \in Versions, NEW n \in 0..MaxVersion,
         s.open # Null, Shown(s, sv, n), Backed(s, sv),
         NEW then \in {"plain", "open", "sent"}, NEW r, r = Console!RefreshConversation(s, then)
  PROVE  /\ r \in Page
         /\ Shown(r, sv, n) /\ Backed(r, sv) /\ Newest(r, n) /\ Alive(r, n)
         /\ then # "sent" => \A p : Locked(s, p) => Locked(r, p)
         /\ then = "sent" /\ s.sending /\ (\A i \in DOMAIN s.requests : ~Sent(s, i)) =>
              Locked(r, Null)
         /\ r.signedIn <=> s.signedIn
         /\ r.netDown <=> s.netDown
         /\ r.open = s.open
         /\ \A i \in DOMAIN s.requests :
              i \in DOMAIN r.requests /\ r.requests[i].stage = s.requests[i].stage
<1> DEFINE q == s.requests
           old == [i \in DOMAIN q |-> [q[i] EXCEPT !.newest = FALSE]]
           new == [for |-> s.open, newest |-> TRUE, stage |-> "asked", version |-> 0, then |-> then]
           R == Append(old, new)
<1>1. r = [s EXCEPT !.requests = R]
  BY DEF Console!RefreshConversation
<1>2. q \in Seq(Refresh) /\ s.open \in Conversation /\ MaxVersion \in Nat
  BY DEF Page, Console!Configured
<1>3. Len(q) \in Nat /\ DOMAIN q = 1..Len(q) /\ \A i \in DOMAIN q : q[i] \in Refresh
  BY <1>2, LenProperties, ElementOfSeq
<1> HIDE DEF q
<1>4. ASSUME NEW i \in DOMAIN q
      PROVE  /\ old[i] \in Refresh /\ ~old[i].newest
             /\ old[i].for = q[i].for /\ old[i].stage = q[i].stage
             /\ old[i].version = q[i].version /\ old[i].then = q[i].then
  <2>1. PICK x \in Refresh : x = q[i]
    BY <1>3
  <2>2. old[i] = [x EXCEPT !.newest = FALSE]
    BY <2>1
  <2> QED  BY <2>1, <2>2 DEF Refresh
<1>5. new \in Refresh
  BY <1>2 DEF Refresh
<1>6. old \in Seq(Refresh) /\ Len(old) = Len(q)
  <2>1. old \in [1..Len(q) -> Refresh]
    BY <1>3, <1>4
  <2> QED  BY <2>1, <1>3, IsASeq, LenProperties
<1>7. /\ R \in Seq(Refresh) /\ Len(R) = Len(q) + 1 /\ DOMAIN R = 1..(Len(q) + 1)
      /\ \A i \in 1..Len(q) : R[i] = old[i]
      /\ R[Len(q) + 1] = new
  BY <1>3, <1>5, <1>6, AppendProperties, LenProperties
<1> HIDE DEF R, old, new
<1>8. /\ r.open = s.open /\ r.page = s.page /\ r.requests = R
      /\ r.signedIn <=> s.signedIn
      /\ r.netDown <=> s.netDown
      /\ r.sending <=> s.sending
  BY <1>1 DEF Page
<1>9. r \in Page
  BY <1>1, <1>7 DEF Page
<1>10. ASSUME NEW i \in DOMAIN R
       PROVE  /\ i \in 1..Len(q) =>
                   /\ ~R[i].newest /\ R[i].for = q[i].for /\ R[i].stage = q[i].stage
                   /\ R[i].version = q[i].version /\ R[i].then = q[i].then
              /\ i \notin 1..Len(q) => i = Len(R) /\ R[i] = new
  BY <1>3, <1>4, <1>7
<1>11. /\ new.newest /\ new.for = s.open /\ new.stage = "asked" /\ new.version = 0
       /\ new.then = then
  BY DEF new
<1>12. sv[s.open] >= 0
  BY <1>2 DEF Versions
<1>13. Shown(r, sv, n)
  BY <1>8 DEF Shown
<1>14. Backed(r, sv)
  BY <1>3, <1>7, <1>8, <1>10, <1>11, <1>12 DEF Backed, q
<1>15. Newest(r, n)
  BY <1>8, <1>10, <1>11 DEF Newest
<1>16. Len(R) \in DOMAIN R /\ R[Len(R)] = new
  BY <1>3, <1>7
<1>17. Alive(r, n)
  BY <1>8, <1>11, <1>16 DEF Alive
<1>18. ASSUME then # "sent", NEW p, Locked(s, p)
       PROVE  Locked(r, p)
  <2>1. \A i \in DOMAIN R : Sent(r, i) => i \in DOMAIN q /\ Sent(s, i)
    BY <1>3, <1>8, <1>10, <1>11, <1>18 DEF Sent, q
  <2>2. \A i \in DOMAIN q : Sent(s, i) => i \in DOMAIN R /\ Sent(r, i)
    BY <1>3, <1>7, <1>8, <1>10 DEF Sent, q
  <2> QED  BY <2>1, <2>2, <1>8, <1>18 DEF Locked, q
<1>19. ASSUME then = "sent", s.sending, \A i \in DOMAIN s.requests : ~Sent(s, i)
       PROVE  Locked(r, Null)
  <2>1. \A i \in DOMAIN R : Sent(r, i) => i = Len(R)
    BY <1>3, <1>8, <1>10, <1>19 DEF Sent, q
  <2>2. Sent(r, Len(R))
    BY <1>8, <1>11, <1>16, <1>19 DEF Sent
  <2> QED  BY <2>1, <2>2, <1>8, <1>16, <1>19 DEF Locked
<1>20. \A i \in DOMAIN s.requests :
         i \in DOMAIN r.requests /\ r.requests[i].stage = s.requests[i].stage
  BY <1>3, <1>7, <1>8, <1>10 DEF q
<1> QED  BY <1>8, <1>9, <1>13, <1>14, <1>15, <1>17, <1>18, <1>19, <1>20

\* What Settle and Reject have in common: a refresh is over.
Drop(s, i) == [s EXCEPT !.requests = Console!RemoveAt(s.requests, i)]
Unlock(s) == [s EXCEPT !.sending = FALSE]

LEMMA Dropping ==
  ASSUME Console!Configured, NEW s \in Page, NEW sv \in Versions, NEW n \in 0..MaxVersion, NEW p,
         Shown(s, sv, n), Backed(s, sv), Newest(s, n), Locked(s, p),
         NEW i \in DOMAIN s.requests, NEW r, r = Drop(s, i)
  PROVE  /\ r \in Page
         /\ Shown(r, sv, n) /\ Backed(r, sv) /\ Newest(r, n)
         /\ Alive(s, n) /\ ~s.requests[i].newest => Alive(r, n)
         /\ ~Sent(s, i) => Locked(r, p)
         /\ Sent(s, i) => p = Null /\ \A k \in DOMAIN r.requests : ~Sent(r, k)
<1> DEFINE q == s.requests
           R == Console!RemoveAt(q, i)
<1>1. q \in Seq(Refresh) /\ Len(q) \in Nat /\ DOMAIN q = 1..Len(q) /\ i \in DOMAIN q
  BY LenProperties DEF Page
<1> HIDE DEF q
<1>2. /\ R \in Seq(Refresh) /\ Len(R) = Len(q) - 1
      /\ \A k \in DOMAIN R : R[k] = q[IF k < i THEN k ELSE k + 1]
  BY <1>1, RequestDropped
<1> HIDE DEF R
<1>3. DOMAIN R = 1..(Len(q) - 1)
  BY <1>2, LenProperties
<1> DEFINE from(k) == IF k < i THEN k ELSE k + 1
<1>4. ASSUME NEW k \in DOMAIN R
      PROVE  /\ from(k) \in DOMAIN q /\ from(k) # i /\ R[k] = q[from(k)]
             /\ from(k) = Len(q) => k = Len(R)
  BY <1>1, <1>2, <1>3
<1>5. ASSUME NEW m \in DOMAIN q, m # i
      PROVE  \E k \in DOMAIN R : from(k) = m
  <2>1. CASE m < i
    BY <2>1, <1>1, <1>3
  <2>2. CASE ~(m < i)
    <3>1. m - 1 \in DOMAIN R /\ from(m - 1) = m
      BY <2>2, <1>1, <1>3, <1>5
    <3> QED  BY <3>1
  <2> QED  BY <2>1, <2>2
<1>6. \A j, k \in DOMAIN R : from(j) = from(k) => j = k
  BY <1>1, <1>3
<1> HIDE DEF from
<1>7. /\ r.open = s.open /\ r.page = s.page /\ r.requests = R
      /\ r.signedIn <=> s.signedIn
      /\ r.netDown <=> s.netDown
      /\ r.timer <=> s.timer
      /\ r.refused <=> s.refused
      /\ r.sending <=> s.sending
  BY DEF Page, R, q, Drop
<1>8. r \in Page
  BY <1>2 DEF Page, R, q, Drop
<1>9. Shown(r, sv, n)
  BY <1>7 DEF Shown
<1>10. Backed(r, sv)
  BY <1>4, <1>7 DEF Backed, q
<1>11. Newest(r, n)
  BY <1>4, <1>7 DEF Newest, q
<1>12. ASSUME Alive(s, n), ~s.requests[i].newest
       PROVE  Alive(r, n)
  <2>1. (\E m \in DOMAIN q : q[m].newest) => \E k \in DOMAIN R : R[k].newest
    BY <1>4, <1>5, <1>12 DEF q
  <2> QED  BY <2>1, <1>7, <1>12 DEF Alive, q
<1>13. \A k \in DOMAIN R : Sent(r, k) <=> Sent(s, from(k))
  BY <1>4, <1>7 DEF Sent, q
<1>14. ASSUME ~Sent(s, i)
       PROVE  Locked(r, p)
  <2>1. (\E m \in DOMAIN q : Sent(s, m)) <=> \E k \in DOMAIN R : Sent(r, k)
    BY <1>4, <1>5, <1>13, <1>14
  <2> QED  BY <2>1, <1>4, <1>6, <1>7, <1>13 DEF Locked, q
<1>15. ASSUME Sent(s, i)
       PROVE  p = Null /\ \A k \in DOMAIN R : ~Sent(r, k)
  BY <1>4, <1>13, <1>15 DEF Locked, q
<1> QED  BY <1>7, <1>8, <1>9, <1>10, <1>11, <1>12, <1>14, <1>15

LEMMA Polling ==
  ASSUME Console!Configured, NEW s \in Page, NEW sv \in Versions, NEW n \in 0..MaxVersion,
         Shown(s, sv, n), Backed(s, sv), Newest(s, n),
         NEW r, r = Console!SchedulePoll(s)
  PROVE  /\ r \in Page
         /\ Shown(r, sv, n) /\ Backed(r, sv) /\ Newest(r, n) /\ Alive(r, n)
         /\ \A p : Locked(s, p) => Locked(r, p)
         /\ n > 0 /\ Console!Active(r.page.version) => r.timer
         /\ r.requests = s.requests
<1>1. PICK b \in BOOLEAN :
        r = [s EXCEPT !.timer = b] /\ (s.open # Null /\ Console!Active(s.page.version) => b)
  BY DEF Console!SchedulePoll, Console!StopPoll
<1>2. /\ r.open = s.open /\ r.page = s.page /\ r.requests = s.requests
      /\ r.timer <=> b
      /\ r.sending <=> s.sending
  BY <1>1 DEF Page
<1>3. r \in Page
  BY <1>1 DEF Page
<1>4. Shown(r, sv, n) /\ Backed(r, sv) /\ Newest(r, n)
  BY <1>2 DEF Shown, Backed, Newest
<1>5. \A p : Locked(s, p) => Locked(r, p)
  BY <1>2 DEF Locked, Sent
<1>6. n > 0 /\ Console!Active(r.page.version) => r.timer
  BY <1>1, <1>2 DEF Shown
<1>7. Alive(r, n)
  BY <1>6 DEF Alive
<1> QED  BY <1>2, <1>3, <1>4, <1>5, <1>6, <1>7

LEMMA Unlocking ==
  ASSUME NEW s \in Page, NEW sv, NEW n, Shown(s, sv, n), Backed(s, sv), Newest(s, n), Alive(s, n),
         \A k \in DOMAIN s.requests : ~Sent(s, k),
         NEW r, r = Unlock(s)
  PROVE  /\ r \in Page
         /\ Shown(r, sv, n) /\ Backed(r, sv) /\ Newest(r, n) /\ Alive(r, n) /\ Locked(r, Null)
<1>1. /\ r.open = s.open /\ r.page = s.page /\ r.requests = s.requests
      /\ r.signedIn <=> s.signedIn
      /\ r.netDown <=> s.netDown
      /\ r.timer <=> s.timer
      /\ r.refused <=> s.refused
      /\ ~r.sending
  BY DEF Page, Unlock
<1>2. r \in Page
  BY DEF Page, Unlock
<1>3. Shown(r, sv, n) /\ Backed(r, sv) /\ Newest(r, n)
  BY <1>1 DEF Shown, Backed, Newest
<1>4. Alive(r, n)
  BY <1>1 DEF Alive
<1>5. Locked(r, Null)
  BY <1>1 DEF Locked, Sent
<1> QED  BY <1>2, <1>3, <1>4, <1>5

\* A refresh may end if it is not the newest, or the page polls if it has to.
LEMMA Settling ==
  ASSUME Console!Configured, NEW s \in Page, NEW sv \in Versions, NEW n \in 0..MaxVersion, NEW p,
         Shown(s, sv, n), Backed(s, sv), Newest(s, n), Locked(s, p), Alive(s, n),
         NEW i \in DOMAIN s.requests,
         s.requests[i].newest /\ n > 0 /\ Console!Active(s.page.version) => s.timer,
         NEW r, r = Console!Settle(s, i)
  PROVE  /\ r \in Page
         /\ Shown(r, sv, n) /\ Backed(r, sv) /\ Newest(r, n) /\ Alive(r, n) /\ Locked(r, p)
<1> DEFINE rest == Drop(s, i)
<1>1. /\ rest \in Page
      /\ Shown(rest, sv, n) /\ Backed(rest, sv) /\ Newest(rest, n)
      /\ Alive(s, n) /\ ~s.requests[i].newest => Alive(rest, n)
      /\ ~Sent(s, i) => Locked(rest, p)
      /\ Sent(s, i) => p = Null /\ \A k \in DOMAIN rest.requests : ~Sent(rest, k)
  BY Dropping
<1>2. rest.page = s.page /\ (rest.timer <=> s.timer)
  BY DEF Page, Drop
<1>3. s.requests[i].then \in {"plain", "open", "sent"}
  BY RequestFields
<1>4. CASE s.requests[i].then = "plain"
  <2>1. r = rest
    BY <1>4 DEF Console!Settle, Drop
  <2>2. Locked(rest, p)
    BY <1>1, <1>4 DEF Sent
  <2>3. Alive(rest, n)
    <3>1. CASE s.requests[i].newest
      BY <1>2, <3>1 DEF Alive
    <3> QED  BY <1>1, <3>1
  <2> QED  BY <1>1, <2>1, <2>2, <2>3
<1>5. CASE s.requests[i].then = "open"
  <2>1. r = Console!SchedulePoll(rest)
    BY <1>5 DEF Console!Settle, Drop
  <2>2. Locked(rest, p)
    BY <1>1, <1>5 DEF Sent
  <2> QED  BY <1>1, <2>1, <2>2, Polling
<1>6. CASE s.requests[i].then = "sent"
  <2> DEFINE x == Console!SchedulePoll(rest)
  <2>1. r = Unlock(x)
    BY <1>6 DEF Console!Settle, Drop, Unlock
  <2>2. p = Null /\ \A k \in DOMAIN rest.requests : ~Sent(rest, k)
    BY <1>1, <1>6 DEF Sent
  <2>3. /\ x \in Page /\ x.requests = rest.requests
        /\ Shown(x, sv, n) /\ Backed(x, sv) /\ Newest(x, n) /\ Alive(x, n)
    BY <1>1, Polling
  <2> HIDE DEF x
  <2>4. \A k \in DOMAIN x.requests : ~Sent(x, k)
    BY <2>2, <2>3 DEF Sent
  <2>5. /\ r \in Page
        /\ Shown(r, sv, n) /\ Backed(r, sv) /\ Newest(r, n) /\ Alive(r, n) /\ Locked(r, Null)
    BY <2>1, <2>3, <2>4, Unlocking
  <2> QED  BY <2>2, <2>5
<1> QED  BY <1>3, <1>4, <1>5, <1>6

\* openConversation and sendMessage show an error, a poll does not: when the
\* newest refresh fails the page says so, or nobody is signed in.
LEMMA Rejecting ==
  ASSUME Console!Configured, NEW s \in Page, NEW sv \in Versions, NEW n \in 0..MaxVersion, NEW p,
         Shown(s, sv, n), Backed(s, sv), Newest(s, n), Locked(s, p),
         NEW i \in DOMAIN s.requests, NEW outcome,
         outcome = "http" \/ s.netDown \/ ~s.signedIn,
         NEW r, r = Console!Reject(s, i, outcome)
  PROVE  /\ r \in Page
         /\ Shown(r, sv, n) /\ Backed(r, sv) /\ Newest(r, n) /\ Alive(r, n) /\ Locked(r, p)
<1> DEFINE rest == Drop(s, i)
           b == s.refused \/ outcome = "http"
           x == [rest EXCEPT !.refused = b]
<1>1. /\ rest \in Page
      /\ Shown(rest, sv, n) /\ Backed(rest, sv) /\ Newest(rest, n)
      /\ ~Sent(s, i) => Locked(rest, p)
      /\ Sent(s, i) => p = Null /\ \A k \in DOMAIN rest.requests : ~Sent(rest, k)
  BY Dropping
<1>2. /\ rest.netDown <=> s.netDown
      /\ rest.signedIn <=> s.signedIn
      /\ rest.refused <=> s.refused
  BY DEF Page, Drop
<1>3. r = IF Sent(s, i) THEN Unlock(x) ELSE x
  BY <1>2 DEF Console!Reject, Drop, Sent, Unlock
<1> HIDE DEF rest
<1>4. /\ x.open = rest.open /\ x.page = rest.page /\ x.requests = rest.requests
      /\ x.signedIn <=> rest.signedIn
      /\ x.netDown <=> rest.netDown
      /\ x.refused <=> b
      /\ x.sending <=> rest.sending
  BY <1>1 DEF Page
<1>5. x \in Page
  BY <1>1 DEF Page
<1> HIDE DEF x
<1>6. Shown(x, sv, n) /\ Backed(x, sv) /\ Newest(x, n)
  BY <1>1, <1>4 DEF Shown, Backed, Newest
<1>7. Alive(x, n)
  BY <1>2, <1>4 DEF Alive
<1>8. Locked(rest, p) => Locked(x, p)
  BY <1>4 DEF Locked, Sent
<1>9. CASE Sent(s, i)
  <2>1. p = Null /\ \A k \in DOMAIN x.requests : ~Sent(x, k)
    BY <1>1, <1>4, <1>9 DEF Sent
  <2>2. r = Unlock(x)
    BY <1>3, <1>9
  <2>3. /\ r \in Page
        /\ Shown(r, sv, n) /\ Backed(r, sv) /\ Newest(r, n) /\ Alive(r, n) /\ Locked(r, Null)
    BY <1>5, <1>6, <1>7, <2>1, <2>2, Unlocking
  <2> QED  BY <2>1, <2>3
<1>10. CASE ~Sent(s, i)
  BY <1>1, <1>3, <1>5, <1>6, <1>7, <1>8, <1>10
<1> QED  BY <1>9, <1>10

LEMMA Leaving ==
  ASSUME NEW s \in Page, NEW sv, NEW n, NEW p,
         Shown(s, sv, n), Backed(s, sv), Newest(s, n), Locked(s, p),
         NEW r, r = Console!Logout(s)
  PROVE  /\ r \in Page
         /\ Shown(r, sv, n) /\ Backed(r, sv) /\ Newest(r, n) /\ Alive(r, n) /\ Locked(r, p)
         /\ ~r.signedIn
         /\ r.requests = s.requests
<1>1. /\ r.open = s.open /\ r.page = s.page /\ r.requests = s.requests
      /\ ~r.signedIn
      /\ r.sending <=> s.sending
  BY DEF Page, Console!Logout, Console!StopPoll
<1>2. r \in Page
  BY DEF Page, Console!Logout, Console!StopPoll
<1>3. Shown(r, sv, n) /\ Backed(r, sv) /\ Newest(r, n) /\ Locked(r, p)
  BY <1>1 DEF Shown, Backed, Newest, Locked, Sent
<1>4. Alive(r, n)
  BY <1>1 DEF Alive
<1> QED  BY <1>1, <1>2, <1>3, <1>4

\* What every call of api does to the page.
LEMMA Calling ==
  ASSUME Console!Configured, NEW s \in Page, NEW sv \in Versions, NEW n \in 0..MaxVersion, NEW p,
         Shown(s, sv, n), Backed(s, sv), Newest(s, n), Alive(s, n), Locked(s, p),
         NEW outcome \in Console!Outcome, NEW r, r = Console!Api(s, outcome)
  PROVE  /\ r \in Page
         /\ Shown(r, sv, n) /\ Backed(r, sv) /\ Newest(r, n) /\ Alive(r, n) /\ Locked(r, p)
         /\ outcome = "network" => r.netDown
         /\ outcome = "unauthorized" => ~r.signedIn
         /\ \A i \in DOMAIN s.requests :
              i \in DOMAIN r.requests /\ r.requests[i].stage = s.requests[i].stage
<1>2. CASE outcome = "ok"
  <2>1. CASE s.netDown
    <3> DEFINE x == [s EXCEPT !.netDown = FALSE]
    <3>1. r = Console!RefreshConversation(x, "plain")
      BY <1>2, <2>1 DEF Console!Api, Console!NoteNetOk
    <3>2. /\ x \in Page /\ x.open = s.open /\ x.page = s.page /\ x.requests = s.requests
          /\ x.sending <=> s.sending
      BY DEF Page
    <3> HIDE DEF x
    <3>3. Shown(x, sv, n) /\ Backed(x, sv) /\ Newest(x, n) /\ Locked(x, p)
      BY <3>2 DEF Shown, Backed, Newest, Locked, Sent
    <3>4. CASE x.open = Null
      <4>1. r = x
        BY <3>1, <3>4 DEF Console!RefreshConversation
      <4>2. Alive(x, n)
        BY <3>3, <3>4 DEF Alive, Shown
      <4> QED  BY <1>2, <3>2, <3>3, <4>1, <4>2
    <3>5. CASE x.open # Null
      BY <1>2, <3>1, <3>2, <3>3, <3>5, Asking
    <3> QED  BY <3>4, <3>5
  <2>2. CASE ~s.netDown
    <3>1. r = s
      BY <1>2, <2>2 DEF Console!Api, Console!NoteNetOk
    <3> QED  BY <1>2, <3>1
  <2> QED  BY <2>1, <2>2
<1>3. CASE outcome = "network"
  <2>1. r = [s EXCEPT !.netDown = TRUE]
    BY <1>3 DEF Console!Api, Console!NoteNetFail
  <2>2. /\ r \in Page /\ r.open = s.open /\ r.page = s.page /\ r.requests = s.requests
        /\ r.sending <=> s.sending
        /\ r.netDown
    BY <2>1 DEF Page
  <2>3. Shown(r, sv, n) /\ Backed(r, sv) /\ Newest(r, n) /\ Locked(r, p)
    BY <2>2 DEF Shown, Backed, Newest, Locked, Sent
  <2>4. Alive(r, n)
    BY <2>2 DEF Alive
  <2> QED  BY <1>3, <2>2, <2>3, <2>4
<1>4. CASE outcome = "http"
  <2>1. r = s
    BY <1>4 DEF Console!Api
  <2> QED  BY <1>4, <2>1
<1>5. CASE outcome = "unauthorized"
  <2>1. r = Console!Logout(s)
    BY <1>5 DEF Console!Api
  <2> QED  BY <1>5, <2>1, Leaving
<1> QED  BY <1>2, <1>3, <1>4, <1>5 DEF Console!Outcome

\* The server only goes forward.
LEMMA Changing ==
  ASSUME Console!Configured, server \in Versions, NEW c \in Conversation, NEW by \in Nat,
         Console!Changes(c, by)
  PROVE  /\ server' \in Versions
         /\ \A s \in Page, n \in 0..MaxVersion :
              /\ Shown(s, server, n) => Shown(s, server', n)
              /\ Backed(s, server) => Backed(s, server')
<1>1. server' = [server EXCEPT ![c] = @ + by] /\ server'[c] =< MaxVersion
  BY DEF Console!Changes
<1>2. MaxVersion \in Nat /\ Null \notin Conversation
  BY DEF Console!Configured
<1>3. server' \in Versions /\ \A d \in Conversation : server[d] =< server'[d]
  BY <1>1, <1>2 DEF Versions
<1>4. ASSUME NEW s \in Page, NEW n \in 0..MaxVersion
      PROVE  /\ Shown(s, server, n) => Shown(s, server', n)
             /\ Backed(s, server) => Backed(s, server')
  <2>1. s.open \in Conversation \cup {Null}
    BY DEF Page
  <2>2. \A i \in DOMAIN s.requests :
          /\ s.requests[i].for \in Conversation
          /\ s.requests[i].version \in 0..MaxVersion
    BY RequestFields
  <2>3. Shown(s, server, n) => Shown(s, server', n)
    BY <1>2, <1>3, <2>1 DEF Shown, Versions
  <2>4. Backed(s, server) => Backed(s, server')
    BY <1>2, <1>3, <2>2 DEF Backed, Versions
  <2> QED  BY <2>3, <2>4
<1> QED  BY <1>3, <1>4

LEMMA ConsoleInit == Console!Configured /\ Console!Init => ConsoleIInv
<1> SUFFICES ASSUME Console!Configured, Console!Init  PROVE ConsoleIInv
  OBVIOUS
<1>1. MaxVersion \in Nat
  BY DEF Console!Configured
<1>2. /\ S.open = Null /\ S.requests = <<>>
      /\ ~S.signedIn /\ ~S.sending
      /\ post = Null /\ seen = 0
  BY DEF Console!Init
<1>3. S \in Page
  BY <1>1 DEF Console!Init, Page
<1>4. server \in Versions
  BY <1>1 DEF Console!Init, Versions
<1>5. Shown(S, server, seen) /\ Backed(S, server) /\ Newest(S, seen) /\ Alive(S, seen)
  BY <1>2 DEF Shown, Backed, Newest, Alive
<1>6. Locked(S, post)
  BY <1>2 DEF Locked
<1> QED  BY <1>1, <1>2, <1>3, <1>4, <1>5, <1>6 DEF ConsoleIInv

\* A refresh for whatever is open.
LEMMA RefreshKeeps ==
  ASSUME Console!Configured, NEW s \in Page, NEW sv \in Versions, NEW n \in 0..MaxVersion, NEW p,
         Shown(s, sv, n), Backed(s, sv), Newest(s, n), Alive(s, n), Locked(s, p),
         NEW r, r = Console!RefreshConversation(s, "plain")
  PROVE  /\ r \in Page
         /\ Shown(r, sv, n) /\ Backed(r, sv) /\ Newest(r, n) /\ Alive(r, n) /\ Locked(r, p)
<1>1. CASE s.open = Null
  <2>1. r = s
    BY <1>1 DEF Console!RefreshConversation
  <2> QED  BY <2>1
<1>2. CASE s.open # Null
  BY <1>2, Asking
<1> QED  BY <1>1, <1>2

\* showHeroMode: nothing is open.
LEMMA Closing ==
  ASSUME Console!Configured, NEW s \in Page, NEW sv \in Versions, NEW n, NEW p,
         Backed(s, sv), Newest(s, n), Locked(s, p),
         NEW r, r = Console!ShowHeroMode(s)
  PROVE  /\ r \in Page
         /\ Shown(r, sv, 0) /\ Backed(r, sv) /\ Newest(r, 0) /\ Alive(r, 0) /\ Locked(r, p)
<1> DEFINE none == [of |-> Null, version |-> 0]
<1>0. none \in [of : Conversation \cup {Null}, version : 0..MaxVersion]
  BY DEF Console!Configured
<1>1. r = [s EXCEPT !.open = Null, !.page = none, !.timer = FALSE]
  BY DEF Page, Console!ShowHeroMode, Console!StopPoll
<1> HIDE DEF none
<1>2. /\ r \in Page /\ r.open = Null /\ r.requests = s.requests
      /\ r.sending <=> s.sending
  BY <1>0, <1>1 DEF Page
<1>3. Shown(r, sv, 0) /\ Backed(r, sv) /\ Locked(r, p) /\ Alive(r, 0)
  BY <1>2 DEF Shown, Backed, Locked, Sent, Alive
<1>4. Newest(r, 0)
  BY <1>2, RequestFields DEF Newest
<1> QED  BY <1>2, <1>3, <1>4

\* openConversation: what was seen of it before does not count.
LEMMA Opening ==
  ASSUME Console!Configured, NEW s \in Page, NEW sv \in Versions, NEW c \in Conversation,
         Backed(s, sv), NEW then \in {"open", "sent"},
         NEW r, r = Console!OpenConversation(s, c, then)
  PROVE  /\ r \in Page
         /\ Shown(r, sv, 0) /\ Backed(r, sv) /\ Newest(r, 0) /\ Alive(r, 0)
         /\ then = "open" => \A p : Locked(s, p) => Locked(r, p)
         /\ then = "sent" /\ s.sending /\ (\A i \in DOMAIN s.requests : ~Sent(s, i)) =>
              Locked(r, Null)
<1> DEFINE x == [Console!StopPoll(s) EXCEPT !.open = c, !.refused = FALSE]
<1>1. r = Console!RefreshConversation(x, then)
  BY DEF Console!OpenConversation
<1>2. /\ x \in Page /\ x.open = c /\ x.requests = s.requests
      /\ x.sending <=> s.sending
  BY DEF Page, Console!StopPoll
<1> HIDE DEF x
<1>3. MaxVersion \in Nat /\ x.open # Null
  BY <1>2 DEF Console!Configured
<1>4. Shown(x, sv, 0) /\ Backed(x, sv)
  BY <1>2 DEF Shown, Backed
<1>5. \A p : Locked(s, p) => Locked(x, p)
  BY <1>2 DEF Locked, Sent
<1>6. (\A i \in DOMAIN s.requests : ~Sent(s, i)) => \A i \in DOMAIN x.requests : ~Sent(x, i)
  BY <1>2 DEF Sent
<1>7. /\ r \in Page
      /\ Shown(r, sv, 0) /\ Backed(r, sv) /\ Newest(r, 0) /\ Alive(r, 0)
      /\ then # "sent" => \A p : Locked(x, p) => Locked(r, p)
      /\ then = "sent" /\ x.sending /\ (\A i \in DOMAIN x.requests : ~Sent(x, i)) =>
           Locked(r, Null)
  BY <1>1, <1>2, <1>3, <1>4, Asking
<1>8. CASE then = "open"
  BY <1>5, <1>7, <1>8
<1>9. CASE then = "sent"
  BY <1>2, <1>6, <1>7, <1>9
<1> QED  BY <1>8, <1>9

\* Every callback keeps the invariant: of the callbacks, only the answer to
\* the newest refresh writes to the page.
LEMMA ListAnsweredKeeps ==
  ASSUME Console!Configured, ConsoleIInv, NEW i, NEW outcome \in Console!Outcome,
         Console!ListAnswered(i, outcome)
  PROVE  ConsoleIInv'
<1> DEFINE s == Console!Api(S, outcome)
<1>1. /\ i \in DOMAIN S.requests
      /\ outcome = "ok" => S.requests[i].stage = "served"
      /\ server' = server /\ post' = post
      /\ S \in Page /\ server \in Versions /\ seen \in 0..MaxVersion
      /\ post = Null \/ post \in [for : Conversation \cup {Null}]
      /\ MaxVersion \in Nat
  BY DEF Console!ListAnswered, ConsoleIInv, Console!Configured
<1>2. /\ s \in Page /\ i \in DOMAIN s.requests
      /\ s.requests[i].stage = S.requests[i].stage
      /\ Shown(s, server, seen) /\ Backed(s, server) /\ Newest(s, seen)
      /\ Alive(s, seen) /\ Locked(s, post)
      /\ outcome = "network" => s.netDown
      /\ outcome = "unauthorized" => ~s.signedIn
  BY <1>1, Calling DEF ConsoleIInv
<1>3. CASE outcome # "ok"
  <2>1. S' = Console!Reject(s, i, outcome) /\ seen' = seen
    BY <1>3 DEF Console!ListAnswered, Console!Becomes
  <2> HIDE DEF s
  <2>2. outcome = "http" \/ s.netDown \/ ~s.signedIn
    BY <1>2, <1>3 DEF Console!Outcome
  <2>3. /\ S' \in Page
        /\ Shown(S', server, seen) /\ Backed(S', server) /\ Newest(S', seen)
        /\ Alive(S', seen) /\ Locked(S', post)
    BY <1>1, <1>2, <2>1, <2>2, Rejecting
  <2> QED  BY <1>1, <2>1, <2>3 DEF ConsoleIInv, Shown, Backed, Newest, Alive, Locked, Sent
<1>4. CASE outcome = "ok" /\ ~Console!Current(s, i)
  <2>1. S' = Console!Settle(s, i) /\ seen' = seen
    BY <1>4 DEF Console!ListAnswered, Console!Becomes
  <2> HIDE DEF s
  <2>2. s.requests[i].newest => seen = 0
    BY <1>1, <1>2, <1>4 DEF Console!Current, Newest, Shown
  <2>3. /\ S' \in Page
        /\ Shown(S', server, seen) /\ Backed(S', server) /\ Newest(S', seen)
        /\ Alive(S', seen) /\ Locked(S', post)
    BY <1>1, <1>2, <2>1, <2>2, Settling
  <2> QED  BY <1>1, <2>1, <2>3 DEF ConsoleIInv, Shown, Backed, Newest, Alive, Locked, Sent
<1>5. CASE outcome = "ok" /\ Console!Current(s, i)
  <2> DEFINE v == s.requests[i].version
             n == IF v > seen THEN v ELSE seen
  <2>1. S' = Console!Apply(s, i) /\ seen' = n
    BY <1>5 DEF Console!ListAnswered, Console!Becomes
  <2> HIDE DEF s
  <2>2. /\ s.requests[i].newest /\ s.requests[i].for = s.open
        /\ s.requests[i].stage = "served"
        /\ v \in 0..MaxVersion /\ s.open \in Conversation /\ s.open # Null
    BY <1>1, <1>2, <1>5, RequestFields DEF Console!Current, Console!Configured
  <2>3. i = Len(s.requests) /\ seen =< v /\ n = v
    BY <1>1, <1>2, <2>2 DEF Newest
  <2>4. v =< server[s.open]
    BY <1>2, <2>2 DEF Backed
  <2> DEFINE q == s.requests
             x == q[i]
             y == [x EXCEPT !.stage = "texts"]
             R == [q EXCEPT ![i] = y]
             page == [of |-> x.for, version |-> x.version]
  <2>5. /\ q \in Seq(Refresh) /\ Len(q) \in Nat /\ DOMAIN q = 1..Len(q) /\ i \in 1..Len(q)
        /\ x \in Refresh
    BY <1>2, RequestFields, LenProperties DEF Page
  <2>6. /\ y \in Refresh /\ y.stage = "texts" /\ y.version = x.version /\ y.for = x.for
        /\ y.then = x.then
        /\ y.newest
    <3>1. PICK z \in Refresh : z = x
      BY <2>5
    <3>2. y = [z EXCEPT !.stage = "texts"]
      BY <3>1
    <3>3. z.newest
      BY <2>2, <3>1
    <3> QED  BY <3>1, <3>2, <3>3 DEF Refresh
  <2>7. /\ R \in Seq(Refresh) /\ Len(R) = Len(q) /\ DOMAIN R = DOMAIN q /\ R[i] = y
        /\ \A k \in DOMAIN q : k # i => R[k] = q[k]
    BY <2>5, <2>6, ExceptSeq, LenProperties
  <2>8. page \in [of : Conversation \cup {Null}, version : 0..MaxVersion] /\ page.version = v
        /\ page = [of |-> s.open, version |-> v]
    BY <2>2
  <2>9. S' = [s EXCEPT !.page = page, !.requests = R, !.refused = FALSE]
    BY <1>2, <2>1 DEF Console!Apply, Page
  <2> HIDE DEF q, y, R, page
  <2>10. /\ S' \in Page /\ S'.open = s.open /\ S'.page = page /\ S'.requests = R
         /\ S'.sending <=> s.sending
    BY <1>2, <2>7, <2>8, <2>9 DEF Page
  <2>11. Shown(S', server, v)
    BY <2>2, <2>4, <2>8, <2>10 DEF Shown
  <2>12. Backed(S', server)
    BY <1>2, <2>6, <2>7, <2>10 DEF Backed, q
  <2>13. Newest(S', v)
    BY <1>2, <2>2, <2>3, <2>6, <2>7, <2>10 DEF Newest, q
  <2>14. Alive(S', v)
    BY <2>5, <2>6, <2>7, <2>10 DEF Alive
  <2>15. \A k \in DOMAIN q : Sent(S', k) <=> Sent(s, k)
    BY <2>6, <2>7, <2>10 DEF Sent, q
  <2>16. Locked(S', post)
    BY <1>2, <2>7, <2>10, <2>15 DEF Locked, q
  <2>17. seen' = v
    BY <2>1, <2>3
  <2> QED  BY <1>1, <2>2, <2>10, <2>11, <2>12, <2>13, <2>14, <2>16, <2>17
           DEF ConsoleIInv, Shown, Backed, Newest, Alive, Locked, Sent
<1> QED  BY <1>3, <1>4, <1>5

\* The page is another one, or the server or what is posted.
Keeps(s, sv, n, p) ==
  /\ s \in Page /\ sv \in Versions /\ n \in 0..MaxVersion
  /\ p = Null \/ p \in [for : Conversation \cup {Null}]
  /\ Shown(s, sv, n) /\ Backed(s, sv) /\ Newest(s, n) /\ Alive(s, n) /\ Locked(s, p)

LEMMA KeptNext ==
  /\ ConsoleIInv <=> Keeps(S, server, seen, post)
  /\ ConsoleIInv' <=> Keeps(S', server', seen', post')
BY DEF ConsoleIInv, Keeps, Shown, Backed, Newest, Alive, Locked, Sent

LEMMA PostAnsweredKeeps ==
  ASSUME Console!Configured, ConsoleIInv, NEW outcome \in Console!Outcome,
         Console!PostAnswered(outcome)
  PROVE  ConsoleIInv'
<1> DEFINE s == Console!Api(S, outcome)
<1>1. /\ S \in Page /\ server \in Versions /\ seen \in 0..MaxVersion
      /\ post # Null /\ post \in [for : Conversation \cup {Null}] /\ post' = Null
      /\ 0 \in 0..MaxVersion
  BY DEF Console!PostAnswered, ConsoleIInv, Console!Configured
<1>2. /\ s \in Page
      /\ Shown(s, server, seen) /\ Backed(s, server) /\ Newest(s, seen)
      /\ Alive(s, seen) /\ Locked(s, post)
  BY <1>1, Calling DEF ConsoleIInv
<1>3. /\ \A i \in DOMAIN s.requests : ~Sent(s, i)
      /\ s.sending
  BY <1>1, <1>2 DEF Locked
<1>4. CASE outcome # "ok"
  <2>1. S' = Unlock(s) /\ server' = server /\ seen' = seen
    BY <1>4 DEF Console!PostAnswered, Console!Becomes, Unlock
  <2> HIDE DEF s
  <2>2. /\ S' \in Page
        /\ Shown(S', server, seen) /\ Backed(S', server) /\ Newest(S', seen)
        /\ Alive(S', seen) /\ Locked(S', Null)
    BY <1>2, <1>3, <2>1, Unlocking
  <2> QED  BY <1>1, <2>1, <2>2, KeptNext DEF Keeps
<1>5. CASE outcome = "ok"
  <2>1. PICK c \in Conversation :
          /\ Console!Changes(c, IF Console!Active(server[c]) THEN 2 ELSE 1)
          /\ S' = Console!OpenConversation(s, c, "sent")
          /\ seen' = 0
    BY <1>5 DEF Console!PostAnswered, Console!Becomes
  <2> HIDE DEF s
  <2>2. PICK by \in Nat : Console!Changes(c, by)
    BY <2>1
  <2>3. server' \in Versions /\ Backed(s, server')
    BY <1>1, <1>2, <2>2, Changing
  <2>4. PICK sv \in Versions : sv = server'
    BY <2>3
  <2>5. /\ S' \in Page
        /\ Shown(S', sv, 0) /\ Backed(S', sv) /\ Newest(S', 0) /\ Alive(S', 0)
        /\ Locked(S', Null)
    <3>1. Backed(s, sv)
      BY <2>3, <2>4
    <3> QED  BY <1>2, <1>3, <2>1, <3>1, Opening
  <2> QED  BY <1>1, <2>1, <2>3, <2>4, <2>5, KeptNext DEF Keeps
<1> QED  BY <1>4, <1>5

LEMMA ConsoleNext ==
  ASSUME Console!Configured, ConsoleIInv, [Console!Next]_(Console!vars)
  PROVE  ConsoleIInv'
<1>1. /\ S \in Page /\ server \in Versions /\ seen \in 0..MaxVersion
      /\ post = Null \/ post \in [for : Conversation \cup {Null}]
      /\ Shown(S, server, seen) /\ Backed(S, server) /\ Newest(S, seen)
      /\ Alive(S, seen) /\ Locked(S, post)
      /\ 0 \in 0..MaxVersion
  BY DEF ConsoleIInv, Console!Configured
<1>2. CASE Console!Login
  <2> DEFINE s == Console!NoteNetOk(S)
  <2>1. S' = [s EXCEPT !.signedIn = TRUE] /\ seen' = 0 /\ server' = server /\ post' = post
    BY <1>2 DEF Console!Login, Console!Becomes
  <2>2. s = Console!Api(S, "ok")
    BY DEF Console!Api
  <2> HIDE DEF s
  <2>3. s \in Page /\ Backed(s, server) /\ Newest(s, seen) /\ Locked(s, post)
    BY <1>1, <2>2, Calling DEF Console!Outcome
  <2>4. /\ S' \in Page /\ S'.open = s.open /\ S'.requests = s.requests
        /\ S'.sending <=> s.sending
    BY <2>1, <2>3 DEF Page
  <2>5. Shown(S', server, 0) /\ Backed(S', server) /\ Alive(S', 0) /\ Locked(S', post)
    BY <2>3, <2>4 DEF Shown, Backed, Alive, Locked, Sent
  <2>6. Newest(S', 0)
    BY <2>3, <2>4, RequestFields DEF Newest
  <2> QED  BY <1>1, <2>1, <2>4, <2>5, <2>6, KeptNext DEF Keeps
<1>3. CASE Console!LogoutClicked
  <2>1. S' = Console!Logout(S) /\ seen' = seen /\ server' = server /\ post' = post
    BY <1>3 DEF Console!LogoutClicked, Console!Becomes
  <2>2. /\ S' \in Page
        /\ Shown(S', server, seen) /\ Backed(S', server) /\ Newest(S', seen)
        /\ Alive(S', seen) /\ Locked(S', post)
    BY <1>1, <2>1, Leaving
  <2> QED  BY <1>1, <2>1, <2>2, KeptNext DEF Keeps
<1>4. CASE Console!NewChat
  <2>1. S' = Console!ShowHeroMode(S) /\ seen' = 0 /\ server' = server /\ post' = post
    BY <1>4 DEF Console!NewChat, Console!Becomes
  <2>2. /\ S' \in Page
        /\ Shown(S', server, 0) /\ Backed(S', server) /\ Newest(S', 0)
        /\ Alive(S', 0) /\ Locked(S', post)
    BY <1>1, <2>1, Closing
  <2> QED  BY <1>1, <2>1, <2>2, KeptNext DEF Keeps
<1>5. CASE Console!ChangeWorkspace
  <2>1. S' = [S EXCEPT !.open = Null] /\ seen' = 0 /\ server' = server /\ post' = post
    BY <1>5 DEF Console!ChangeWorkspace
  <2>2. /\ S' \in Page /\ S'.open = Null /\ S'.requests = S.requests
        /\ S'.sending <=> S.sending
    BY <1>1, <2>1 DEF Page
  <2>3. Shown(S', server, 0) /\ Backed(S', server) /\ Alive(S', 0) /\ Locked(S', post)
    BY <1>1, <2>2 DEF Shown, Backed, Alive, Locked, Sent
  <2>4. Newest(S', 0)
    BY <1>1, <2>2, RequestFields DEF Newest
  <2> QED  BY <1>1, <2>1, <2>2, <2>3, <2>4, KeptNext DEF Keeps
<1>6. CASE Console!SendMessage
  <2>1. /\ ~S.sending
        /\ S' = [S EXCEPT !.sending = TRUE] /\ post' = [for |-> S.open]
        /\ seen' = seen /\ server' = server
    BY <1>6 DEF Console!SendMessage
  <2>2. post' \in [for : Conversation \cup {Null}] /\ post' # Null
    BY <1>1, <2>1 DEF Page, Console!Configured
  <2>3. /\ S' \in Page /\ S'.open = S.open /\ S'.page = S.page /\ S'.requests = S.requests
        /\ S'.signedIn <=> S.signedIn
        /\ S'.timer <=> S.timer
        /\ S'.netDown <=> S.netDown
        /\ S'.refused <=> S.refused
        /\ S'.sending
    BY <1>1, <2>1 DEF Page
  <2>4. Shown(S', server, seen) /\ Backed(S', server) /\ Newest(S', seen)
    BY <1>1, <2>3 DEF Shown, Backed, Newest
  <2>5. Alive(S', seen)
    BY <1>1, <2>3 DEF Alive
  <2>6. \A i \in DOMAIN S'.requests : ~Sent(S', i)
    BY <1>1, <2>1, <2>3 DEF Locked, Sent
  <2>7. PICK p \in [for : Conversation \cup {Null}] : p = post' /\ p # Null
    BY <2>2
  <2>8. Locked(S', p)
    BY <2>3, <2>6, <2>7 DEF Locked
  <2> QED  BY <1>1, <2>1, <2>3, <2>4, <2>5, <2>7, <2>8, KeptNext DEF Keeps
<1>7. CASE Console!Tick \/ Console!Online
  <2>1. /\ S' = Console!RefreshConversation(S, "plain")
        /\ seen' = seen /\ server' = server /\ post' = post
    BY <1>7 DEF Console!Tick, Console!Online, Console!Becomes
  <2>2. /\ S' \in Page
        /\ Shown(S', server, seen) /\ Backed(S', server) /\ Newest(S', seen)
        /\ Alive(S', seen) /\ Locked(S', post)
    BY <1>1, <2>1, RefreshKeeps
  <2> QED  BY <1>1, <2>1, <2>2, KeptNext DEF Keeps
<1>8. CASE Console!Offline
  <2>1. S' = Console!Api(S, "network") /\ seen' = seen /\ server' = server /\ post' = post
    BY <1>8 DEF Console!Offline, Console!Api
  <2>2. /\ S' \in Page
        /\ Shown(S', server, seen) /\ Backed(S', server) /\ Newest(S', seen)
        /\ Alive(S', seen) /\ Locked(S', post)
    BY <1>1, <2>1, Calling DEF Console!Outcome
  <2> QED  BY <1>1, <2>1, <2>2, KeptNext DEF Keeps
<1>9. ASSUME NEW c \in Conversation, Console!Open(c)
      PROVE  ConsoleIInv'
  <2>1. /\ S' = Console!OpenConversation(S, c, "open") /\ seen' = 0
        /\ server' = server /\ post' = post
    BY <1>9 DEF Console!Open, Console!Becomes
  <2>2. /\ S' \in Page
        /\ Shown(S', server, 0) /\ Backed(S', server) /\ Newest(S', 0)
        /\ Alive(S', 0) /\ Locked(S', post)
    BY <1>1, <2>1, Opening
  <2> QED  BY <1>1, <2>1, <2>2, KeptNext DEF Keeps
<1>10. ASSUME NEW c \in Conversation, Console!CommandAnswered(c)
       PROVE  ConsoleIInv'
  <2> DEFINE s == Console!Api(S, "ok")
  <2>1. /\ Console!Changes(c, 1)
        /\ S' = Console!RefreshConversation(s, "plain")
        /\ seen' = seen /\ post' = post
    BY <1>10 DEF Console!CommandAnswered, Console!Becomes
  <2> HIDE DEF s
  <2>2. /\ s \in Page
        /\ Shown(s, server, seen) /\ Backed(s, server) /\ Newest(s, seen)
        /\ Alive(s, seen) /\ Locked(s, post)
    BY <1>1, Calling DEF Console!Outcome, s
  <2>3. server' \in Versions /\ Shown(s, server', seen) /\ Backed(s, server')
    BY <1>1, <2>1, <2>2, Changing
  <2>4. PICK sv \in Versions : sv = server'
    BY <2>3
  <2>5. Shown(s, sv, seen) /\ Backed(s, sv)
    BY <2>3, <2>4
  <2>6. /\ S' \in Page
        /\ Shown(S', sv, seen) /\ Backed(S', sv) /\ Newest(S', seen)
        /\ Alive(S', seen) /\ Locked(S', post)
    BY <1>1, <2>1, <2>2, <2>5, RefreshKeeps
  <2> QED  BY <1>1, <2>1, <2>4, <2>6, KeptNext DEF Keeps
<1>11. ASSUME NEW c \in Conversation, Console!RunEnds(c)
       PROVE  ConsoleIInv'
  <2>1. Console!Changes(c, 1) /\ S' = S /\ seen' = seen /\ post' = post
    BY <1>11 DEF Console!RunEnds
  <2>2. server' \in Versions /\ Shown(S, server', seen) /\ Backed(S, server')
    BY <1>1, <2>1, Changing
  <2> QED  BY <1>1, <2>1, <2>2, KeptNext DEF Keeps
<1>12. ASSUME NEW i, Console!Serve(i)
       PROVE  ConsoleIInv'
  <2> DEFINE q == S.requests
             v == server[q[i].for]
             y == [q[i] EXCEPT !.stage = "served", !.version = v]
             R == [q EXCEPT ![i] = y]
  <2>1. /\ i \in DOMAIN q /\ q[i].stage = "asked"
        /\ seen' = seen /\ server' = server /\ post' = post
    BY <1>12 DEF Console!Serve
  <2>2. /\ q \in Seq(Refresh) /\ Len(q) \in Nat /\ DOMAIN q = 1..Len(q) /\ i \in 1..Len(q)
        /\ q[i] \in Refresh /\ v \in 0..MaxVersion /\ q[i].for \in Conversation
    BY <1>1, <2>1, RequestFields, LenProperties DEF Page, Versions
  <2>3. S' = [S EXCEPT !.requests = R]
    BY <1>1, <1>12 DEF Console!Serve, Page
  <2> HIDE DEF v
  <2>4. /\ y \in Refresh /\ y.stage = "served" /\ y.version = v /\ y.for = q[i].for
        /\ y.then = q[i].then
        /\ y.newest <=> q[i].newest
    <3>1. PICK z \in Refresh : z = q[i]
      BY <2>2
    <3>2. y = [z EXCEPT !.stage = "served", !.version = v]
      BY <3>1
    <3>3. /\ y \in Refresh /\ y.stage = "served" /\ y.version = v /\ y.for = z.for
          /\ y.then = z.then
          /\ y.newest <=> z.newest
      BY <2>2, <3>2 DEF Refresh
    <3> QED  BY <3>1, <3>3
  <2>5. /\ R \in Seq(Refresh) /\ Len(R) = Len(q) /\ DOMAIN R = DOMAIN q /\ R[i] = y
        /\ \A k \in DOMAIN q : k # i => R[k] = q[k]
    BY <2>2, <2>4, ExceptSeq, LenProperties
  <2> HIDE DEF y, R
  <2>6. /\ S' \in Page /\ S'.open = S.open /\ S'.page = S.page /\ S'.requests = R
        /\ S'.signedIn <=> S.signedIn
        /\ S'.timer <=> S.timer
        /\ S'.netDown <=> S.netDown
        /\ S'.refused <=> S.refused
        /\ S'.sending <=> S.sending
    BY <1>1, <2>3, <2>5 DEF Page
  <2>7. \A k \in DOMAIN q :
          /\ R[k].newest <=> q[k].newest
          /\ R[k].for = q[k].for
          /\ Sent(S', k) <=> Sent(S, k)
    BY <2>4, <2>5, <2>6 DEF Sent
  <2>8. Shown(S', server, seen)
    BY <1>1, <2>6 DEF Shown
  <2>9. Backed(S', server)
    BY <1>1, <2>2, <2>4, <2>5, <2>6 DEF Backed, v, Versions
  <2>10. Newest(S', seen)
    <3>1. q[i].newest => seen =< v
      <4>1. CASE seen > 0
        BY <1>1, <2>1, <4>1 DEF Newest, Shown, v
      <4> QED  BY <1>1, <2>2, <4>1
    <3> QED  BY <1>1, <2>4, <2>5, <2>6, <2>7, <3>1 DEF Newest
  <2>11. Alive(S', seen)
    BY <1>1, <2>5, <2>6, <2>7 DEF Alive
  <2>12. Locked(S', post)
    BY <1>1, <2>5, <2>6, <2>7 DEF Locked
  <2> QED  BY <1>1, <2>1, <2>6, <2>8, <2>9, <2>10, <2>11, <2>12, KeptNext DEF Keeps
<1>13. ASSUME NEW i, Console!TextsLoaded(i)
       PROVE  ConsoleIInv'
  <2> DEFINE s == IF Console!Current(S, i) THEN Console!SchedulePoll(S) ELSE S
  <2>1. /\ i \in DOMAIN S.requests
        /\ S' = Console!Settle(s, i)
        /\ seen' = seen /\ server' = server /\ post' = post
    BY <1>13 DEF Console!TextsLoaded, Console!Becomes
  <2>2. /\ s \in Page /\ s.requests = S.requests
        /\ Shown(s, server, seen) /\ Backed(s, server) /\ Newest(s, seen)
        /\ Alive(s, seen) /\ Locked(s, post)
        /\ s.requests[i].newest /\ seen > 0 /\ Console!Active(s.page.version) => s.timer
    <3>1. CASE Console!Current(S, i)
      BY <1>1, <3>1, Polling
    <3>2. CASE ~Console!Current(S, i)
      <4>1. S.requests[i].newest => seen = 0
        BY <1>1, <2>1, <3>2 DEF Console!Current, Newest, Shown
      <4> QED  BY <1>1, <3>2, <4>1
    <3> QED  BY <3>1, <3>2
  <2> HIDE DEF s
  <2>3. /\ S' \in Page
        /\ Shown(S', server, seen) /\ Backed(S', server) /\ Newest(S', seen)
        /\ Alive(S', seen) /\ Locked(S', post)
    BY <1>1, <2>1, <2>2, Settling
  <2> QED  BY <1>1, <2>1, <2>3, KeptNext DEF Keeps
<1>14. ASSUME NEW outcome \in Console!Outcome, Console!OtherAnswered(outcome)
       PROVE  ConsoleIInv'
  <2>1. S' = Console!Api(S, outcome) /\ seen' = seen /\ server' = server /\ post' = post
    BY <1>14 DEF Console!OtherAnswered, Console!Becomes
  <2>2. /\ S' \in Page
        /\ Shown(S', server, seen) /\ Backed(S', server) /\ Newest(S', seen)
        /\ Alive(S', seen) /\ Locked(S', post)
    BY <1>1, <2>1, Calling
  <2> QED  BY <1>1, <2>1, <2>2, KeptNext DEF Keeps
<1>15. ASSUME NEW outcome \in Console!Outcome, Console!ConversationsAnswered(outcome)
       PROVE  ConsoleIInv'
  <2> DEFINE s == Console!Api(S, outcome)
  <2>1. /\ server' = server /\ post' = post
        /\ \/ outcome = "ok" /\ S' = Console!ShowHeroMode(s) /\ seen' = 0
           \/ S' = s /\ seen' = seen
    BY <1>15 DEF Console!ConversationsAnswered, Console!Becomes
  <2> HIDE DEF s
  <2>2. /\ s \in Page
        /\ Shown(s, server, seen) /\ Backed(s, server) /\ Newest(s, seen)
        /\ Alive(s, seen) /\ Locked(s, post)
    BY <1>1, Calling DEF s
  <2>3. CASE outcome = "ok" /\ S' = Console!ShowHeroMode(s) /\ seen' = 0
    <3>1. /\ S' \in Page
          /\ Shown(S', server, 0) /\ Backed(S', server) /\ Newest(S', 0)
          /\ Alive(S', 0) /\ Locked(S', post)
      BY <1>1, <2>2, <2>3, Closing
    <3> QED  BY <1>1, <2>1, <2>3, <3>1, KeptNext DEF Keeps
  <2>4. CASE S' = s /\ seen' = seen
    BY <1>1, <2>1, <2>2, <2>4, KeptNext DEF Keeps
  <2> QED  BY <2>1, <2>3, <2>4
<1>16. CASE UNCHANGED Console!vars
  BY <1>1, <1>16, KeptNext DEF Console!vars, Keeps
<1> QED
  BY <1>2, <1>3, <1>4, <1>5, <1>6, <1>7, <1>8, <1>9, <1>10, <1>11, <1>12, <1>13, <1>14, <1>15,
     <1>16, ListAnsweredKeeps, PostAnsweredKeeps
  DEF Console!Next

\* PageFollowsConversation: whatever overtakes what, and however often the user
\* signs in, opens conversations and sends, the page shows the newest answer
\* for what is open, keeps itself up to date or says that it is not, and locks
\* its button while a submission is under way.
THEOREM ThePageIsUpToDate == Console!Configured => (Console!Spec => []PageFollowsConversation)
<1> SUFFICES ASSUME Console!Configured  PROVE Console!Spec => []PageFollowsConversation
  OBVIOUS
<1>1. Console!Init => ConsoleIInv
  BY ConsoleInit
<1>2. ConsoleIInv /\ [Console!Next]_(Console!vars) => ConsoleIInv'
  BY ConsoleNext
<1>3. ASSUME ConsoleIInv  PROVE PageFollowsConversation
  <2>1. /\ S \in Page /\ Shown(S, server, seen) /\ Alive(S, seen) /\ Locked(S, post)
    BY <1>3 DEF ConsoleIInv
  <2>2. (\E i \in DOMAIN S.requests : S.requests[i].newest) => S.requests # <<>>
    BY <2>1
  <2>3. seen > 0 => S.page = [of |-> S.open, version |-> seen]
    BY <2>1 DEF Shown
  <2>4. seen > 0 /\ S.signedIn /\ Console!Active(S.page.version) =>
          S.timer \/ S.requests # <<>> \/ S.netDown \/ S.refused
    BY <2>1, <2>2 DEF Alive
  <2>5. S.sending <=> \/ post # Null
                      \/ \E i \in DOMAIN S.requests : S.requests[i].then = "sent"
    BY <2>1 DEF Locked, Sent
  <2> QED  BY <2>3, <2>4, <2>5 DEF PageFollowsConversation, Console!PageFollowsConversation
<1> QED  BY <1>1, <1>2, <1>3, PTL DEF Console!Spec

-----------------------------------------------------------------------------
(* Types of the page *)

LEMMA RequestsBounded ==
  ASSUME Console!Configured, ConsoleIInv, Len(S.requests) =< MaxInFlight,
         [Console!Next]_(Console!vars)
  PROVE  Len(S'.requests) =< MaxInFlight
<1>0. /\ S \in Page /\ S.requests \in Seq(Refresh)
  BY DEF ConsoleIInv, Page
<1>1. ASSUME NEW s, Console!Becomes(s)
      PROVE  Len(S'.requests) =< MaxInFlight
  BY <1>1 DEF Console!Becomes
<1>2. CASE \/ Console!Login \/ Console!LogoutClicked \/ Console!NewChat
           \/ Console!Tick \/ Console!Online
           \/ \E c \in Conversation : Console!Open(c) \/ Console!CommandAnswered(c)
  <2>1. \E s : Console!Becomes(s)
    BY <1>2, Zenon DEF Console!Login, Console!LogoutClicked, Console!NewChat, Console!Tick,
                       Console!Online, Console!Open, Console!CommandAnswered
  <2> QED  BY <1>1, <2>1
<1>3. CASE \E i \in 1..MaxInFlight : Console!TextsLoaded(i)
  <2>1. \E s : Console!Becomes(s)
    BY <1>3, Zenon DEF Console!TextsLoaded
  <2> QED  BY <1>1, <2>1
<1>4. ASSUME NEW outcome \in Console!Outcome,
             \/ Console!ConversationsAnswered(outcome) \/ Console!PostAnswered(outcome)
             \/ Console!OtherAnswered(outcome)
             \/ \E i \in 1..MaxInFlight : Console!ListAnswered(i, outcome)
      PROVE  Len(S'.requests) =< MaxInFlight
  <2>1. \E s : Console!Becomes(s)
    BY <1>4, Zenon DEF Console!ConversationsAnswered, Console!PostAnswered,
                       Console!OtherAnswered, Console!ListAnswered
  <2> QED  BY <1>1, <2>1
<1>5. CASE \/ Console!ChangeWorkspace \/ Console!SendMessage \/ Console!Offline
           \/ UNCHANGED Console!vars
           \/ \E c \in Conversation : Console!RunEnds(c)
  <2>1. S'.requests = S.requests
    BY <1>0, <1>5 DEF Page, Console!ChangeWorkspace, Console!SendMessage, Console!Offline,
                      Console!NoteNetFail, Console!RunEnds, Console!vars
  <2> QED  BY <2>1
<1>6. ASSUME NEW i \in 1..MaxInFlight, Console!Serve(i)
      PROVE  Len(S'.requests) =< MaxInFlight
  <2>1. /\ i \in DOMAIN S.requests
        /\ S' = [S EXCEPT !.requests[i].stage = "served",
                          !.requests[i].version = server[S.requests[i].for]]
    BY <1>6, Zenon DEF Console!Serve
  <2>2. PICK x : S'.requests = [S.requests EXCEPT ![i] = x]
    BY <1>0, <2>1 DEF Page
  <2>3. Len(S'.requests) = Len(S.requests)
    BY <1>0, <2>1, <2>2
  <2> QED  BY <2>3
<1> QED  BY <1>2, <1>3, <1>4, <1>5, <1>6 DEF Console!Next

\* Types of the page: it never waits for more refreshes than are asked for.
THEOREM ConsoleTypeCorrect == Console!Configured => (Console!Spec => []Console!TypeOK)
<1> SUFFICES ASSUME Console!Configured  PROVE Console!Spec => []Console!TypeOK
  OBVIOUS
<1> DEFINE Bounded == Len(S.requests) =< MaxInFlight
<1>1. Console!Init => ConsoleIInv /\ Bounded
  <2> SUFFICES ASSUME Console!Init  PROVE Bounded
    BY ConsoleInit
  <2>1. S.requests = <<>>
    BY DEF Console!Init
  <2>2. Len(<<>>) = 0 /\ MaxInFlight \in Nat
    BY EmptySeq DEF Console!Configured
  <2> QED  BY <2>1, <2>2
<1>2. ConsoleIInv /\ Bounded /\ [Console!Next]_(Console!vars) => (ConsoleIInv /\ Bounded)'
  BY ConsoleNext, RequestsBounded
<1>3. ConsoleIInv /\ Bounded => Console!TypeOK
  BY DEF ConsoleIInv, Page, Versions, Console!TypeOK
<1> QED  BY <1>1, <1>2, <1>3, PTL DEF Console!Spec

-----------------------------------------------------------------------------
(* Sums *)
\* The samples of a metric, the GPUs' memory and the weights of the tenants are
\* added up by folds of the community modules, which choose the next element of
\* what is left.  That there is such a function, and what its values are, is
\* proved by induction over finite sets.

TrafficProofs == INSTANCE GatewayTrafficTheorems

Any(s) == CHOOSE x \in s : TRUE

\* The sums of v over the sets in D, made up as the folds do it.
Sums(g, D, v) ==
  \A s \in D : g[s] = IF s = {} THEN 0 ELSE v[Any(s)] + g[s \ {Any(s)}]

\* One step of the recursion, as the folds define it.
SumStep(g, X, v) ==
  [s \in SUBSET X |-> IF s = {} THEN 0 ELSE v[Any(s)] + g[s \ {Any(s)}]]

LEMMA StepsSum ==
  ASSUME NEW X, NEW v, NEW g, g = SumStep(g, X, v)
  PROVE  Sums(g, SUBSET X, v)
BY DEF SumStep, Sums

\* A set that has {} and, with what is left of s without the chosen element,
\* also s, has every subset of a finite X.
LEMMA SetInduction ==
  ASSUME NEW X, IsFiniteSet(X), NEW P, {} \in P,
         \A s \in SUBSET X : s # {} /\ s \ {Any(s)} \in P => s \in P
  PROVE  SUBSET X \subseteq P
<1> SUFFICES ASSUME NEW bad \in SUBSET X, bad \notin P
             PROVE  FALSE
  OBVIOUS
<1> DEFINE T == {n \in Nat : \E s \in SUBSET X : Cardinality(s) = n /\ s \notin P}
<1>1. \A s \in SUBSET X : IsFiniteSet(s) /\ Cardinality(s) \in Nat
  BY FS_Subset, FS_CardinalityType
<1>2. PICK n \in T : \A m \in T : n =< m
  <2>1. Cardinality(bad) \in T
    BY <1>1
  <2> HIDE DEF T
  <2>2. T \in SUBSET Nat
    BY DEF T
  <2> QED  BY <2>1, <2>2, TrafficProofs!LeastNumber
<1>3. PICK s \in SUBSET X : Cardinality(s) = n /\ s \notin P
  BY <1>2
<1>4. s # {}
  BY <1>3
<1>5. Any(s) \in s
  BY <1>4 DEF Any
<1>6. Cardinality(s \ {Any(s)}) = n - 1 /\ s \ {Any(s)} \in SUBSET X
  BY <1>1, <1>3, <1>5, FS_RemoveElement
<1>7. s \ {Any(s)} \notin P
  BY <1>3, <1>4
<1>8. n \in Nat /\ n - 1 \in Nat
  BY <1>1, <1>3, <1>6
<1>9. n - 1 \in T
  BY <1>6, <1>7, <1>8
<1> QED  BY <1>2, <1>8, <1>9

LEMMA SumsExist ==
  ASSUME NEW X, IsFiniteSet(X), NEW v \in [X -> Int]
  PROVE  \E g : g = SumStep(g, X, v)
<1> DEFINE Upto(n) == {s \in SUBSET X : Cardinality(s) =< n}
           Step(g, s) == IF s = {} THEN 0 ELSE v[Any(s)] + g[s \ {Any(s)}]
           Good(n) == \E g : g \in [Upto(n) -> Int] /\ Sums(g, Upto(n), v)
           T == {n \in Nat : ~Good(n)}
<1>1. \A s \in SUBSET X :
        /\ IsFiniteSet(s) /\ Cardinality(s) \in Nat /\ Cardinality(s) =< Cardinality(X)
        /\ (Cardinality(s) = 0 <=> s = {})
        /\ s # {} => /\ Any(s) \in s /\ s \ {Any(s)} \in SUBSET X
                     /\ Cardinality(s \ {Any(s)}) = Cardinality(s) - 1
  BY FS_Subset, FS_CardinalityType, FS_EmptySet, FS_RemoveElement DEF Any
<1>2. Good(0)
  <2>1. Upto(0) = {{}}
    <3>1. ASSUME NEW s \in SUBSET X
          PROVE  Cardinality(s) =< 0 <=> s = {}
      <4>1. Cardinality(s) \in Nat /\ (Cardinality(s) = 0 <=> s = {})
        BY <1>1
      <4> QED  BY <4>1
    <3> QED  BY <3>1
  <2>2. [s \in Upto(0) |-> 0] \in [Upto(0) -> Int] /\ Sums([s \in Upto(0) |-> 0], Upto(0), v)
    BY <2>1 DEF Sums
  <2> QED  BY <2>2
<1>3. ASSUME NEW n \in Nat, Good(n)
      PROVE  Good(n + 1)
  <2>1. PICK g : g \in [Upto(n) -> Int] /\ Sums(g, Upto(n), v)
    BY <1>3
  <2> DEFINE h == [s \in Upto(n + 1) |-> Step(g, s)]
  <2>2. \A s \in Upto(n + 1) : s # {} => s \ {Any(s)} \in Upto(n) /\ v[Any(s)] \in Int
    BY <1>1
  <2>3. h \in [Upto(n + 1) -> Int]
    BY <2>1, <2>2
  <2>4. \A s \in Upto(n) : s \in Upto(n + 1) /\ h[s] = g[s]
    <3>1. \A s \in Upto(n) : s \in Upto(n + 1)
      <4> SUFFICES ASSUME NEW s \in SUBSET X, Cardinality(s) =< n
                   PROVE  Cardinality(s) =< n + 1
        OBVIOUS
      <4>1. Cardinality(s) \in Nat
        BY <1>1
      <4> QED  BY <4>1
    <3>2. \A s \in Upto(n) : g[s] = Step(g, s)
      BY <2>1 DEF Sums
    <3> QED  BY <3>1, <3>2
  <2>5. Sums(h, Upto(n + 1), v)
    <3> SUFFICES ASSUME NEW s \in Upto(n + 1)
                 PROVE  h[s] = Step(h, s)
      BY DEF Sums
    <3>1. h[s] = Step(g, s)
      OBVIOUS
    <3>2. s # {} => h[s \ {Any(s)}] = g[s \ {Any(s)}]
      BY <2>2, <2>4
    <3> HIDE DEF h
    <3> QED  BY <3>1, <3>2
  <2> QED  BY <2>3, <2>5
<1>4. \A n \in Nat : Good(n)
  <2> HIDE DEF Good
  <2> SUFFICES ASSUME T # {}  PROVE FALSE
    OBVIOUS
  <2>1. PICK n \in T : \A m \in T : n =< m
    <3> HIDE DEF T
    <3>1. T \in SUBSET Nat
      BY DEF T
    <3> QED  BY <3>1, TrafficProofs!LeastNumber
  <2>2. n \in Nat /\ ~Good(n) /\ n # 0
    BY <1>2, <2>1
  <2>3. n - 1 \in Nat /\ n - 1 \notin T
    BY <2>1, <2>2
  <2>4. Good(n - 1)
    BY <2>3
  <2>5. Good((n - 1) + 1) /\ (n - 1) + 1 = n
    BY <1>3, <2>3, <2>4
  <2> QED  BY <2>2, <2>5
<1>5. Upto(Cardinality(X)) = SUBSET X /\ Cardinality(X) \in Nat
  BY <1>1
<1> HIDE DEF Upto
<1>6. Good(Cardinality(X))
  BY <1>4, <1>5
<1>7. PICK g : g \in [SUBSET X -> Int] /\ Sums(g, SUBSET X, v)
  BY <1>5, <1>6
<1>8. g = [s \in SUBSET X |-> g[s]]
  BY <1>7
<1>9. \A s \in SUBSET X : g[s] = SumStep(g, X, v)[s]
  BY <1>7 DEF Sums, SumStep
<1> QED  BY <1>8, <1>9 DEF SumStep

\* A sum of numbers is a number, and one of them with the rest.
LEMMA SumIsNumber ==
  ASSUME NEW X, IsFiniteSet(X), NEW V, V \in {Int, Nat}, NEW v \in [X -> V],
         NEW g, Sums(g, SUBSET X, v)
  PROVE  g[X] \in V /\ (X # {} => \E x \in X, y \in V : g[X] = v[x] + y)
<1> DEFINE P == {s \in SUBSET X : g[s] \in V}
<1>0. 0 \in V /\ \A x, y \in V : x + y \in V
  OBVIOUS
<1>1. {} \in P
  BY <1>0 DEF Sums
<1>2. \A s \in SUBSET X : s # {} => Any(s) \in s
  BY DEF Any
<1>3. ASSUME NEW s \in SUBSET X, s # {}, s \ {Any(s)} \in P
      PROVE  s \in P
  <2>1. g[s] = v[Any(s)] + g[s \ {Any(s)}]
    BY <1>3 DEF Sums
  <2>2. v[Any(s)] \in V
    BY <1>2, <1>3
  <2> QED  BY <1>0, <1>3, <2>1, <2>2
<1>4. SUBSET X \subseteq P
  <2> HIDE DEF P
  <2> QED  BY <1>1, <1>3, SetInduction
<1>5. X # {} => Any(X) \in X /\ g[X] = v[Any(X)] + g[X \ {Any(X)}]
  BY <1>2 DEF Sums
<1> QED  BY <1>4, <1>5

-----------------------------------------------------------------------------
(* ResourceAdmission *)

Evaluations ==
  [AdmissionRun -> [pc : {"waiting", "observing", "running"}, all : Nat, own : Nat]]

\* What was decided when r started, of which the facts read for it are a part.
StartOK(r) ==
  LET s == admissions[r].snapshot
      own == evaluation[r].own
  IN  /\ s \in Admission!Snapshot
      /\ Admission!ClassifyResource(s) \in {"BUSY", "NORMAL"}
      /\ Admission!ClassifyResource(s) = "BUSY" => own = 0
      /\ Budgets # <<>> => own + 1 =< Admission!Ceiling(TenantOf[r])

\* Of any runs of a tenant that have a slot, the one that got it last has
\* counted the others: this is what makes a decision safe that uses facts read
\* before the probes were awaited.
CountInv ==
  \A t \in Tenant : \A A \in SUBSET Admission!ActiveOf(t) :
    A # {} => \E r \in A : Cardinality(A) =< evaluation[r].own + 1

AdmissionIInv ==
  /\ evaluation \in Evaluations
  /\ admissions = [r \in AdmissionRun |-> admissions[r]]
  /\ \A r \in AdmissionRun : evaluation[r].pc = "running" => StartOK(r)
  /\ CountInv

\* The operators of FiniteSets and FiniteSetsExt as they are in the instance.
LEMMA AdmissionCardinality ==
  ASSUME NEW X
  PROVE  /\ Admission!Cardinality(X) = Cardinality(X)
         /\ Admission!IsFiniteSet(X) <=> IsFiniteSet(X)
BY DEF Admission!Cardinality, Cardinality, Admission!IsFiniteSet, IsFiniteSet

\* Samples add up to a number, and one of them is the greatest.
LEMMA MetricSum ==
  ASSUME NEW q \in Seq(Int)
  PROVE  Admission!SumMetric(q) \in Int \cup {Null}
<1> DEFINE X == DOMAIN q
           Body(g) == [s \in SUBSET X |-> IF s = {} THEN 0
                         ELSE q[CHOOSE x \in s : TRUE] + g[s \ {CHOOSE x \in s : TRUE}]]
           h == CHOOSE g : g = Body(g)
<1>1. IsFiniteSet(X) /\ q \in [X -> Int]
  BY LenProperties, FS_Interval
<1>2. \A g : Body(g) = SumStep(g, X, q)
  BY DEF Any, SumStep
<1>3. h = Body(h) /\ Sums(h, SUBSET X, q)
  <2> HIDE DEF Body
  <2>1. PICK g : g = SumStep(g, X, q)
    BY <1>1, SumsExist
  <2>2. \E f : f = Body(f)
    BY <2>1, <1>2
  <2>3. h = Body(h)
    BY <2>2
  <2> HIDE DEF h
  <2> QED  BY <2>3, <1>2, StepsSum
<1>5. h[X] \in Int
  <2> HIDE DEF h, X
  <2> QED  BY <1>1, <1>3, SumIsNumber
<1>6. q # <<>> => Admission!SumMetric(q) = h[X]
  BY DEF Admission!SumMetric, Admission!FoldSeq, Admission!FoldFunction, Admission!FoldFunctionOnSet,
         Admission!MapThenFoldSet
<1> QED  BY <1>5, <1>6 DEF Admission!SumMetric

LEMMA MetricMax ==
  ASSUME NEW q \in Seq(Int)
  PROVE  Admission!MaxMetric(q) \in Int \cup {Null}
<1> SUFFICES ASSUME q # <<>>  PROVE Admission!MaxMetric(q) \in Int
  BY DEF Admission!MaxMetric
<1> DEFINE V == Admission!ToSet(q)
<1>1. V \subseteq Int /\ V # {} /\ IsFiniteSet(V)
  <2>1. DOMAIN q = 1..Len(q) /\ 1 \in DOMAIN q /\ Len(q) \in Nat
    BY EmptySeq, LenProperties
  <2>2. V = {q[i] : i \in DOMAIN q}
    BY DEF Admission!ToSet
  <2>3. IsFiniteSet({q[i] : i \in DOMAIN q})
    <3>1. IsFiniteSet(DOMAIN q)
      BY <2>1, FS_Interval
    <3>2. q \in Surjection(DOMAIN q, {q[i] : i \in DOMAIN q})
      BY DEF Surjection
    <3> QED  BY <3>1, <3>2, FS_Surjection
  <2> QED  BY <2>1, <2>2, <2>3, ElementOfSeq
<1> DEFINE P == {s \in SUBSET V : s # {} => \E x \in s : \A y \in s : x >= y}
<1>2. {} \in P
  OBVIOUS
<1>3. ASSUME NEW s \in SUBSET V, s # {}, s \ {Any(s)} \in P
      PROVE  s \in P
  <2>1. Any(s) \in s
    BY <1>3 DEF Any
  <2>2. CASE s \ {Any(s)} = {}
    <3>1. \A y \in s : y = Any(s) /\ y \in Int
      BY <2>2, <1>1
    <3> QED  BY <2>1, <3>1
  <2>3. CASE s \ {Any(s)} # {}
    <3>1. PICK x \in s \ {Any(s)} : \A y \in s \ {Any(s)} : x >= y
      BY <1>3, <2>3
    <3>2. x \in Int /\ Any(s) \in Int /\ x \in s /\ \A y \in s : y \in Int
      BY <1>1, <2>1
    <3>3. CASE x >= Any(s)
      <4>1. \A y \in s : x >= y
        BY <3>1, <3>3
      <4> QED  BY <4>1, <3>2
    <3>4. CASE Any(s) >= x
      <4>1. \A y \in s : Any(s) >= y
        BY <3>1, <3>2, <3>4
      <4> QED  BY <4>1, <2>1
    <3> QED  BY <3>2, <3>3, <3>4
  <2> QED  BY <2>2, <2>3
<1>4. V \in P
  <2>1. SUBSET V \subseteq P
    <3> HIDE DEF P, V
    <3> QED  BY <1>1, <1>2, <1>3, SetInduction
  <2> HIDE DEF P, V
  <2> QED  BY <2>1
<1>5. Admission!Max(V) \in V
  BY <1>1, <1>4 DEF Admission!Max
<1> QED  BY <1>1, <1>5 DEF Admission!MaxMetric

\* So do the columns of nvidia-smi, and the tenants' weights to more than zero.
LEMMA ColumnSum ==
  ASSUME NEW column \in {"total", "used"}, NEW q \in Seq([total : Int, used : Int])
  PROVE  Admission!SumColumn(q, column) \in Int
<1> DEFINE X == DOMAIN q
           v == [i \in X |-> q[i][column]]
           Body(g) == [s \in SUBSET X |-> IF s = {} THEN 0
                         ELSE q[CHOOSE x \in s : TRUE][column] + g[s \ {CHOOSE x \in s : TRUE}]]
           h == CHOOSE g : g = Body(g)
<1>1. IsFiniteSet(X) /\ \A i \in X : q[i] \in [total : Int, used : Int]
  <2>1. X = 1..Len(q) /\ Len(q) \in Nat
    BY LenProperties
  <2>2. IsFiniteSet(1..Len(q))
    BY <2>1, FS_Interval
  <2> QED  BY <2>1, <2>2, ElementOfSeq
<1>2. v \in [X -> Int]
  BY <1>1
<1>3. \A s \in SUBSET X : s # {} => Any(s) \in X /\ v[Any(s)] = q[Any(s)][column]
  BY DEF Any
<1> HIDE DEF v
<1>4. \A g : Body(g) = SumStep(g, X, v)
  <2> SUFFICES ASSUME NEW g  PROVE Body(g) = SumStep(g, X, v)
    OBVIOUS
  <2>1. Body(g) = [s \in SUBSET X |->
          IF s = {} THEN 0 ELSE q[Any(s)][column] + g[s \ {Any(s)}]]
    BY Zenon DEF Any
  <2> HIDE DEF Body
  <2> QED  BY <2>1, <1>3 DEF SumStep
<1>5. h = Body(h) /\ Sums(h, SUBSET X, v)
  <2> HIDE DEF Body
  <2>1. PICK g : g = SumStep(g, X, v)
    BY <1>1, <1>2, SumsExist
  <2>2. \E f : f = Body(f)
    BY <2>1, <1>4
  <2>3. h = Body(h)
    BY <2>2
  <2> HIDE DEF h
  <2> QED  BY <2>3, <1>4, StepsSum
<1>7. h[X] \in Int
  <2> HIDE DEF h, X
  <2> QED  BY <1>1, <1>2, <1>5, SumIsNumber
<1>8. Admission!SumColumn(q, column) = h[X]
  BY DEF Admission!SumColumn, Admission!FoldSeq, Admission!FoldFunction,
         Admission!FoldFunctionOnSet, Admission!MapThenFoldSet
<1> QED  BY <1>7, <1>8

LEMMA WeightsSum ==
  ASSUME IsFiniteSet(DOMAIN Budgets), DOMAIN Budgets # {},
         \A t \in DOMAIN Budgets : Budgets[t].weight \in Nat \ {0}
  PROVE  Admission!TotalWeight \in Nat \ {0}
<1> DEFINE X == DOMAIN Budgets
           v == [t \in X |-> Budgets[t].weight]
           Body(g) == [s \in SUBSET X |-> IF s = {} THEN 0
                         ELSE Budgets[CHOOSE x \in s : TRUE].weight + g[s \ {CHOOSE x \in s : TRUE}]]
           h == CHOOSE g : g = Body(g)
<1>1. IsFiniteSet(X) /\ X # {}
  OBVIOUS
<1>2. v \in [X -> Nat] /\ v \in [X -> Int] /\ \A t \in X : v[t] # 0
  OBVIOUS
<1>3. \A s \in SUBSET X : s # {} => Any(s) \in X /\ v[Any(s)] = Budgets[Any(s)].weight
  BY DEF Any
<1> HIDE DEF v
<1>4. \A g : Body(g) = SumStep(g, X, v)
  BY <1>3 DEF Any, SumStep
<1>5. h = Body(h) /\ Sums(h, SUBSET X, v)
  <2> HIDE DEF Body
  <2>1. PICK g : g = SumStep(g, X, v)
    BY <1>1, <1>2, SumsExist
  <2>2. \E f : f = Body(f)
    BY <2>1, <1>4
  <2>3. h = Body(h)
    BY <2>2
  <2> HIDE DEF h
  <2> QED  BY <2>3, <1>4, StepsSum
<1>7. h[X] \in Nat /\ \E x \in X, y \in Nat : h[X] = v[x] + y
  <2> HIDE DEF h, X
  <2> QED  BY <1>1, <1>2, <1>5, SumIsNumber
<1>8. Admission!TotalWeight = h[X]
  BY DEF Admission!TotalWeight, Admission!FoldSet, Admission!MapThenFoldSet
<1> HIDE DEF h
<1> QED  BY <1>2, <1>7, <1>8

LEMMA AdmissionNumbers ==
  ASSUME Admission!Configured
  PROVE  /\ \A answer \in VllmAnswers :
              /\ Admission!SumMetric(answer.running) \in Int \cup {Null}
              /\ Admission!SumMetric(answer.waiting) \in Int \cup {Null}
              /\ Admission!MaxMetric(answer.kv) \in Int \cup {Null}
         /\ \A cards \in GpuAnswers :
              Admission!SumColumn(cards, "total") \in Int /\ Admission!SumColumn(cards, "used") \in Int
         /\ Budgets # <<>> => Admission!TotalWeight \in Nat \ {0}
         /\ \A t \in DOMAIN Budgets :
              Budgets[t].weight \in Nat \ {0} /\ Budgets[t].maxUnits \in Nat \ {0}
<1>1. /\ VllmAnswers \subseteq
           [running : Seq(Int), waiting : Seq(Int), kv : Seq(Int), tokens : Seq(Int)]
      /\ GpuAnswers \subseteq Seq([total : Int, used : Int])
      /\ Budgets \in [DOMAIN Budgets -> [weight : Nat \ {0}, maxUnits : Nat \ {0}]]
      /\ IsFiniteSet(DOMAIN Budgets)
  BY AdmissionCardinality DEF Admission!Configured
<1>2. \A answer \in VllmAnswers :
        answer.running \in Seq(Int) /\ answer.waiting \in Seq(Int) /\ answer.kv \in Seq(Int)
  BY <1>1
<1>3. \A t \in DOMAIN Budgets :
        Budgets[t].weight \in Nat \ {0} /\ Budgets[t].maxUnits \in Nat \ {0}
  BY <1>1
<1>4. Budgets # <<>> => DOMAIN Budgets # {}
  <2> DEFINE B == [weight : Nat \ {0}, maxUnits : Nat \ {0}]
  <2>1. ASSUME DOMAIN Budgets = {}
        PROVE  Budgets = <<>>
    <3>1. 1..0 = {} /\ 0 \in Nat
      OBVIOUS
    <3> HIDE DEF B
    <3>2. Budgets \in [1..0 -> B]
      BY <1>1, <2>1, <3>1 DEF B
    <3>3. Budgets \in Seq(B)
      BY <3>1, <3>2, SeqDef
    <3> QED  BY <2>1, <3>1, <3>2, <3>3, EmptySeq, LenProperties
  <2> QED  BY <2>1
<1>5. Budgets # <<>> => Admission!TotalWeight \in Nat \ {0}
  BY <1>1, <1>3, <1>4, WeightsSum
<1>6. \A answer \in VllmAnswers :
        /\ Admission!SumMetric(answer.running) \in Int \cup {Null}
        /\ Admission!SumMetric(answer.waiting) \in Int \cup {Null}
        /\ Admission!MaxMetric(answer.kv) \in Int \cup {Null}
  BY <1>2, MetricSum, MetricMax
<1>7. \A cards \in GpuAnswers :
        Admission!SumColumn(cards, "total") \in Int /\ Admission!SumColumn(cards, "used") \in Int
  BY <1>1, ColumnSum
<1> QED  BY <1>3, <1>5, <1>6, <1>7

LEMMA GreaterAndSmaller ==
  ASSUME NEW x \in Int, NEW y \in Int
  PROVE  /\ Admission!Max({x, y}) \in Int
         /\ Admission!Max({x, y}) >= x /\ Admission!Max({x, y}) >= y
         /\ Admission!Min({x, y}) \in Int
         /\ Admission!Min({x, y}) =< x /\ Admission!Min({x, y}) =< y
<1>1. CASE x >= y
  <2>1. /\ x \in {x, y} /\ \A z \in {x, y} : x >= z
        /\ y \in {x, y} /\ \A z \in {x, y} : y =< z
    BY <1>1
  <2> QED  BY <2>1 DEF Admission!Max, Admission!Min
<1>2. CASE y >= x
  <2>1. /\ y \in {x, y} /\ \A z \in {x, y} : y >= z
        /\ x \in {x, y} /\ \A z \in {x, y} : x =< z
    BY <1>2
  <2> QED  BY <2>1 DEF Admission!Max, Admission!Min
<1> QED  BY <1>1, <1>2

\* What may be observed: a signal is a number or Null.
LEMMA Observations ==
  ASSUME Admission!Configured, NEW o \in Admission!Observe, o.ok
  PROVE  o.snapshot \in Admission!Snapshot
<1>1. PICK v \in Admission!ReadVllmMetrics, n \in Admission!ReadNvidiaGpu :
        o = IF v.reason # "ok" /\ n.reason # "ok"
            THEN [ok |-> FALSE, reason |-> Admission!CombineFailureReasons(v.reason, n.reason)]
            ELSE [ok |-> TRUE,
                  snapshot |-> [gpu     |-> IF n.reason = "ok" THEN <<n.used, n.total>> ELSE Null,
                                kv      |-> IF v.reason = "ok" THEN v.kv ELSE Null,
                                running |-> IF v.reason = "ok" THEN v.running ELSE Null,
                                waiting |-> IF v.reason = "ok" THEN v.waiting ELSE Null]]
  BY DEF Admission!Observe
<1>2. v.reason = "ok" =>
        v.kv \in Int \cup {Null} /\ v.running \in Int \cup {Null} /\ v.waiting \in Int \cup {Null}
  <2>1. CASE v \in Admission!NoAnswer
    BY <2>1 DEF Admission!NoAnswer
  <2>2. ASSUME NEW answer \in VllmAnswers, v = Admission!ParseVllmMetrics(answer)
        PROVE  v.reason = "ok" =>
                 v.kv \in Int \cup {Null} /\ v.running \in Int \cup {Null} /\ v.waiting \in Int \cup {Null}
    <3>1. /\ Admission!SumMetric(answer.running) \in Int \cup {Null}
          /\ Admission!SumMetric(answer.waiting) \in Int \cup {Null}
          /\ Admission!MaxMetric(answer.kv) \in Int \cup {Null}
      BY AdmissionNumbers
    <3> QED  BY <2>2, <3>1 DEF Admission!ParseVllmMetrics
  <2> QED  BY <2>1, <2>2 DEF Admission!ReadVllmMetrics
<1>3. n.reason = "ok" => n.used \in Int /\ n.total \in Int
  <2>1. CASE n \in Admission!NoAnswer
    BY <2>1 DEF Admission!NoAnswer
  <2>2. ASSUME NEW cards \in GpuAnswers, n = Admission!ParseNvidiaSmiCsv(cards)
        PROVE  n.reason = "ok" => n.used \in Int /\ n.total \in Int
    BY <2>2, AdmissionNumbers DEF Admission!ParseNvidiaSmiCsv
  <2> QED  BY <2>1, <2>2 DEF Admission!ReadNvidiaGpu
<1>4. ~(v.reason # "ok" /\ n.reason # "ok")
  BY <1>1
<1> DEFINE gpu == IF n.reason = "ok" THEN <<n.used, n.total>> ELSE Null
           kv == IF v.reason = "ok" THEN v.kv ELSE Null
           running == IF v.reason = "ok" THEN v.running ELSE Null
           waiting == IF v.reason = "ok" THEN v.waiting ELSE Null
<1>5. o.snapshot = [gpu |-> gpu, kv |-> kv, running |-> running, waiting |-> waiting]
  BY <1>1, <1>4
<1>6. gpu \in {Null} \cup (Int \X Int)
  BY <1>3
<1>7. kv \in {Null} \cup Int /\ running \in {Null} \cup Int /\ waiting \in {Null} \cup Int
  BY <1>2
<1> HIDE DEF gpu, kv, running, waiting
<1> QED  BY <1>5, <1>6, <1>7 DEF Admission!Snapshot

\* What a person sees to be too much is a reason for the classifier.
LEMMA BusyHasReason ==
  ASSUME Admission!Configured, NEW s \in Admission!Snapshot, NEW level \in {"busy", "critical"},
         Admission!Busy(s, level)
  PROVE  Admission!Reasons(s, level) # {}
<1> DEFINE limit == Thresholds[level]
           base == Thresholds.gpuMemoryBaselinePercent
           share == IF base \in 1..99 THEN base ELSE 0
<1>1. /\ limit.gpu \in Int /\ limit.kv \in Int /\ limit.running \in Int /\ limit.waiting \in Int
      /\ base \in Int
      /\ Null \notin Int
  BY DEF Admission!Configured
<1>2. /\ s.kv \in {Null} \cup Int /\ s.running \in {Null} \cup Int /\ s.waiting \in {Null} \cup Int
      /\ s.gpu \in {Null} \cup (Int \X Int)
  BY DEF Admission!Snapshot
<1>3. CASE s.kv # Null /\ s.kv >= limit.kv
  <2>1. "kv" \in Admission!Reasons(s, level)
    BY <1>3 DEF Admission!Reasons, Admission!Reaches
  <2> QED  BY <2>1
<1>4. CASE s.running # Null /\ s.running >= limit.running
  <2>1. "running" \in Admission!Reasons(s, level)
    BY <1>4 DEF Admission!Reasons, Admission!Reaches
  <2> QED  BY <2>1
<1>5. CASE s.waiting # Null /\ s.waiting >= limit.waiting
  <2>1. "waiting" \in Admission!Reasons(s, level)
    BY <1>5 DEF Admission!Reasons, Admission!Reaches
  <2> QED  BY <2>1
<1>6. ASSUME s.gpu # Null, s.gpu[2] > 0,
             NEW more \in 0..s.gpu[1],
             share * s.gpu[2] + more * 100 =< s.gpu[1] * 100 \/ more = 0,
             more * 10000 >= limit.gpu * (100 - share) * s.gpu[2]
      PROVE  Admission!Reasons(s, level) # {}
  <2>1. s.gpu[1] \in Int /\ s.gpu[2] \in Int
    BY <1>2, <1>6
  <2>2. PICK used \in Int, total \in Int : used = s.gpu[1] /\ total = s.gpu[2]
    BY <2>1
  <2>3. PICK l \in Int : l = limit.gpu
    BY <1>1
  <2>4. Admission!GpuReaches(s.gpu, l)
    <3>1. CASE base \in 1..99
      <4> DEFINE above == used * 100 - base * total
                 need == l * (100 - base) * total
      <4>1. above \in Int /\ need \in Int
        BY <2>2, <2>3, <1>1
      <4>2. base * total + more * 100 =< used * 100 \/ more = 0
        BY <1>6, <2>2, <3>1
      <4>3. more * 10000 >= need
        BY <1>6, <2>2, <2>3, <3>1
      <4>4. base * total \in Int /\ more \in Nat
        BY <2>2, <1>1, <1>6
      <4>5. above >= more * 100 \/ more = 0
        BY <4>2, <4>4, <2>2
      <4> HIDE DEF above, need
      <4>6. Admission!Max({0, above}) \in Int /\ Admission!Max({0, above}) >= more * 100
        <5>1. 0 \in Int /\ above \in Int
          BY <4>1
        <5>2. /\ Admission!Max({0, above}) \in Int
              /\ Admission!Max({0, above}) >= 0 /\ Admission!Max({0, above}) >= above
          BY <5>1, GreaterAndSmaller, Zenon
        <5> QED  BY <4>1, <4>4, <4>5, <5>2
      <4>7. Admission!Max({0, above}) * 100 >= need
        BY <4>1, <4>3, <4>4, <4>6
      <4> QED  BY <2>2, <3>1, <4>7 DEF Admission!GpuReaches, above, need
    <3>2. CASE base \notin 1..99
      <4>1. share = 0
        BY <3>2
      <4>2. more * 100 =< used * 100 \/ more = 0
        BY <1>6, <2>2, <4>1
      <4>3. more * 10000 >= l * (100 - 0) * total
        BY <1>6, <2>2, <2>3, <4>1
      <4>4. PICK need \in Int : need = l * total
        BY <2>2, <2>3
      <4>5. l * (100 - 0) * total = 100 * need
        BY <4>4, <2>2, <2>3
      <4>6. more \in Nat /\ used >= 0 /\ used >= more
        BY <1>6, <2>2
      <4>7. used * 100 >= need
        BY <4>3, <4>4, <4>5, <4>6, <2>2
      <4> QED  BY <2>2, <3>2, <4>4, <4>7 DEF Admission!GpuReaches
    <3> QED  BY <3>1, <3>2
  <2>5. "gpu" \in Admission!Reasons(s, level)
    BY <1>6, <2>3, <2>4 DEF Admission!Reasons, Admission!Known
  <2> QED  BY <2>5
<1> QED  BY <1>3, <1>4, <1>5, <1>6 DEF Admission!Busy

LEMMA CeilingType ==
  ASSUME Admission!Configured, NEW t, Budgets # <<>>
  PROVE  Admission!Ceiling(t) \in Nat
<1>1. /\ MaxActiveRuns \in Nat /\ Admission!TotalWeight \in Nat \ {0}
      /\ t \in DOMAIN Budgets => Budgets[t].weight \in Nat \ {0} /\ Budgets[t].maxUnits \in Nat \ {0}
  BY AdmissionNumbers DEF Admission!Configured
<1>2. Admission!Weight(t) \in Nat
  BY <1>1 DEF Admission!Weight
<1>3. MaxActiveRuns * Admission!Weight(t) \in Nat
  BY <1>1, <1>2
<1>4. Admission!FairShareUnits(t) \in Nat
  <2>1. PICK a \in Nat, b \in Nat \ {0} :
          a = MaxActiveRuns * Admission!Weight(t) /\ b = Admission!TotalWeight
    BY <1>1, <1>3
  <2>2. a \div b \in Nat
    OBVIOUS
  <2> QED  BY <2>1, <2>2 DEF Admission!FairShareUnits
<1>5. CASE t \notin DOMAIN Budgets
  BY <1>4, <1>5 DEF Admission!Ceiling
<1>6. CASE t \in DOMAIN Budgets
  <2> DEFINE x == Admission!FairShareUnits(t)
             y == Budgets[t].maxUnits
  <2>1. Admission!Ceiling(t) = Admission!Min({x, y})
    BY <1>6 DEF Admission!Ceiling
  <2>2. Admission!Min({x, y}) \in {x, y}
    <3>1. x \in Nat /\ y \in Nat
      BY <1>1, <1>4, <1>6
    <3>2. \E m \in {x, y} : \A z \in {x, y} : m =< z
      BY <3>1
    <3> QED  BY <3>2 DEF Admission!Min
  <2> QED  BY <1>1, <1>4, <1>6, <2>1, <2>2
<1> QED  BY <1>5, <1>6

\* The policy says START only if the machine, and the tenant, have room.
LEMMA Started ==
  ASSUME Admission!Configured, NEW s \in Admission!Snapshot, NEW t \in Tenant,
         NEW all \in Nat, NEW own \in Nat,
         Admission!Decide(t, Admission!ClassifyResource(s), all, own).action = "START"
  PROVE  /\ Admission!ClassifyResource(s) \in {"BUSY", "NORMAL"}
         /\ Admission!ClassifyResource(s) = "BUSY" => own = 0
         /\ Budgets # <<>> => own + 1 =< Admission!Ceiling(t)
<1> DEFINE p == Admission!ClassifyResource(s)
           base == Admission!BaseDecision(p, all, own)
<1>1. p \in {"UNKNOWN", "CRITICAL", "BUSY", "NORMAL"}
  BY DEF Admission!ClassifyResource
<1>2. MaxActiveRuns \in Nat
  BY DEF Admission!Configured
<1>3. base.action = "START" /\ (Budgets # <<>> => ~(Admission!Ceiling(t) - own < 1))
  BY DEF Admission!Decide, Admission!Decision
<1> HIDE DEF p
<1>4. p \in {"BUSY", "NORMAL"} /\ (p = "BUSY" => own = 0)
  <2>1. p # "UNKNOWN" /\ p # "CRITICAL"
    BY <1>3 DEF Admission!BaseDecision, Admission!Decision
  <2>2. p = "BUSY" => own = 0
    BY <1>2, <1>3 DEF Admission!BaseDecision, Admission!Decision
  <2> QED  BY <1>1, <2>1, <2>2
<1>5. Budgets # <<>> => own + 1 =< Admission!Ceiling(t)
  BY <1>3, CeilingType
<1> QED  BY <1>4, <1>5 DEF p

LEMMA AdmissionInit == Admission!Init => AdmissionIInv
<1> SUFFICES ASSUME Admission!Init  PROVE AdmissionIInv
  OBVIOUS
<1>1. evaluation = [r \in AdmissionRun |-> [pc |-> "waiting", all |-> 0, own |-> 0]]
  BY DEF Admission!Init, Admission!Waiting
<1>2. evaluation \in Evaluations
  BY <1>1 DEF Evaluations
<1>3. Admission!Active = {}
  BY <1>1 DEF Admission!Active
<1>4. CountInv
  BY <1>3 DEF CountInv, Admission!ActiveOf
<1> QED  BY <1>1, <1>2, <1>4 DEF Admission!Init, AdmissionIInv

\* Whoever lets go of a slot, or keeps it, changes nothing that was counted.
LEMMA CountsStay ==
  ASSUME CountInv,
         \A r \in Admission!Active' : r \in Admission!Active /\ evaluation'[r].own = evaluation[r].own
  PROVE  CountInv'
<1>1. ASSUME NEW t \in Tenant
      PROVE  Admission!ActiveOf(t)' \subseteq Admission!ActiveOf(t)
  BY DEF Admission!ActiveOf
<1>2. ASSUME NEW t \in Tenant, NEW A \in SUBSET Admission!ActiveOf(t)', A # {}
      PROVE  \E r \in A : Cardinality(A) =< evaluation'[r].own + 1
  <2>1. A \in SUBSET Admission!ActiveOf(t) /\ A \subseteq Admission!Active'
    BY <1>1, <1>2 DEF Admission!ActiveOf
  <2>2. PICK r \in A : Cardinality(A) =< evaluation[r].own + 1
    BY <1>2, <2>1 DEF CountInv
  <2> QED  BY <2>1, <2>2
<1> QED  BY <1>2 DEF CountInv

\* A step of one attempt leaves the evaluation of the others alone.
LEMMA ClaimKeepsAdmissions ==
  ASSUME Admission!Configured, AdmissionIInv, NEW r \in AdmissionRun, Admission!Claim(r)
  PROVE  AdmissionIInv'
<1> DEFINE t == TenantOf[r]
           own == Cardinality(Admission!ActiveOf(t))
<1>1. /\ t \in Tenant /\ IsFiniteSet(AdmissionRun)
      /\ Admission!Active \subseteq AdmissionRun
      /\ \A X \in SUBSET AdmissionRun : IsFiniteSet(X) /\ Cardinality(X) \in Nat
  <2>1. t \in Tenant /\ IsFiniteSet(AdmissionRun)
    BY AdmissionCardinality DEF Admission!Configured
  <2> QED  BY <2>1, FS_Subset, FS_CardinalityType DEF Admission!Active
<1>2. Admission!ActiveOf(t) \subseteq AdmissionRun /\ own \in Nat /\ Cardinality(Admission!Active) \in Nat
  BY <1>1 DEF Admission!ActiveOf
<1>3. /\ evaluation[r].pc = "waiting"
      /\ evaluation' = [evaluation EXCEPT ![r] =
           [pc |-> "observing", all |-> Cardinality(Admission!Active), own |-> own]]
      /\ admissions' = admissions
  <2>1. /\ Admission!Cardinality(Admission!Active) = Cardinality(Admission!Active)
        /\ Admission!Cardinality(Admission!ActiveOf(TenantOf[r])) = own
    BY AdmissionCardinality
  <2> QED  BY <2>1 DEF Admission!Claim
<1>4. evaluation \in Evaluations
  BY DEF AdmissionIInv
<1> HIDE DEF own
<1>5. /\ evaluation' \in Evaluations
      /\ evaluation'[r].pc = "observing" /\ evaluation'[r].own = own
      /\ \A q \in AdmissionRun \ {r} : evaluation'[q] = evaluation[q]
  BY <1>2, <1>3, <1>4 DEF Evaluations
<1>6. \A q \in AdmissionRun : evaluation'[q].pc = "running" => StartOK(q)'
  <2>1. ASSUME NEW q \in AdmissionRun, evaluation'[q].pc = "running"
        PROVE  StartOK(q)'
    <3>1. q # r /\ evaluation[q].pc = "running" /\ evaluation'[q] = evaluation[q]
      BY <2>1, <1>5
    <3> QED  BY <3>1, <1>3 DEF AdmissionIInv, StartOK
  <2> QED  BY <2>1
<1>7. Admission!Active' = Admission!Active \cup {r} /\ r \notin Admission!Active
  BY <1>3, <1>5 DEF Admission!Active
<1>8. CountInv'
  <2>1. ASSUME NEW u \in Tenant, NEW A \in SUBSET Admission!ActiveOf(u)', A # {}
        PROVE  \E q \in A : Cardinality(A) =< evaluation'[q].own + 1
    <3>1. A \subseteq Admission!Active \cup {r} /\ \A q \in A : TenantOf[q] = u
      BY <1>7 DEF Admission!ActiveOf
    <3>2. CASE r \in A
      <4>1. A \ {r} \in SUBSET Admission!ActiveOf(t)
        BY <3>1, <3>2 DEF Admission!ActiveOf
      <4>2. Cardinality(A \ {r}) =< own
        BY <4>1, <1>1, <1>2, FS_Subset DEF own
      <4>3. A \in SUBSET AdmissionRun
        BY <3>1, <1>1
      <4>4. IsFiniteSet(A) /\ Cardinality(A) \in Nat
        BY <1>1, <4>3
      <4>5. Cardinality(A \ {r}) = Cardinality(A) - 1
        BY <3>2, <4>4, FS_RemoveElement
      <4> QED  BY <1>2, <1>5, <3>2, <4>2, <4>4, <4>5
    <3>3. CASE r \notin A
      <4>1. A \in SUBSET Admission!ActiveOf(u)
        BY <3>1, <3>3 DEF Admission!ActiveOf
      <4>2. PICK q \in A : Cardinality(A) =< evaluation[q].own + 1
        BY <2>1, <4>1 DEF AdmissionIInv, CountInv
      <4>3. q \in AdmissionRun \ {r}
        BY <3>1, <3>3, <1>1
      <4> QED  BY <4>2, <4>3, <1>5
    <3> QED  BY <3>2, <3>3
  <2> QED  BY <2>1 DEF CountInv
<1> QED  BY <1>3, <1>5, <1>6, <1>8 DEF AdmissionIInv

LEMMA EvaluateKeepsAdmissions ==
  ASSUME Admission!Configured, AdmissionIInv, NEW r \in AdmissionRun, Admission!Evaluate(r)
  PROVE  AdmissionIInv'
<1>1. PICK o \in Admission!Observe :
        LET d == IF ~o.ok THEN Admission!Decision("QUEUE", "RESOURCE_OBSERVATION_FAILED")
                 ELSE Admission!Decide(TenantOf[r], Admission!ClassifyResource(o.snapshot),
                                       evaluation[r].all, evaluation[r].own)
        IN  /\ Admission!Save(r, d, o)
            /\ evaluation' = [evaluation EXCEPT ![r] =
                 IF d.action = "START" THEN [@ EXCEPT !.pc = "running"] ELSE Admission!Waiting]
  BY DEF Admission!Evaluate
<1> DEFINE d == IF ~o.ok THEN Admission!Decision("QUEUE", "RESOURCE_OBSERVATION_FAILED")
                ELSE Admission!Decide(TenantOf[r], Admission!ClassifyResource(o.snapshot),
                                      evaluation[r].all, evaluation[r].own)
<1>2. /\ evaluation \in Evaluations /\ evaluation[r].pc = "observing"
      /\ admissions = [q \in AdmissionRun |-> admissions[q]]
      /\ evaluation[r].all \in Nat /\ evaluation[r].own \in Nat
      /\ TenantOf[r] \in Tenant
  BY DEF Admission!Evaluate, AdmissionIInv, Evaluations, Admission!Configured
<1>3. d.action = "START" => o.ok
  BY DEF Admission!Decision
<1>4. /\ Admission!Save(r, d, o)
      /\ evaluation' = [evaluation EXCEPT ![r] =
           IF d.action = "START" THEN [evaluation[r] EXCEPT !.pc = "running"]
           ELSE Admission!Waiting]
  BY <1>1
<1>5. d.action = "START" =>
        /\ o.snapshot \in Admission!Snapshot
        /\ Admission!ClassifyResource(o.snapshot) \in {"BUSY", "NORMAL"}
        /\ Admission!ClassifyResource(o.snapshot) = "BUSY" => evaluation[r].own = 0
        /\ Budgets # <<>> => evaluation[r].own + 1 =< Admission!Ceiling(TenantOf[r])
  <2> SUFFICES ASSUME d.action = "START"
               PROVE  /\ o.snapshot \in Admission!Snapshot
                      /\ Admission!ClassifyResource(o.snapshot) \in {"BUSY", "NORMAL"}
                      /\ Admission!ClassifyResource(o.snapshot) = "BUSY" => evaluation[r].own = 0
                      /\ Budgets # <<>> =>
                           evaluation[r].own + 1 =< Admission!Ceiling(TenantOf[r])
    OBVIOUS
  <2>1. o.snapshot \in Admission!Snapshot
    BY <1>3, Observations
  <2>2. Admission!Decide(TenantOf[r], Admission!ClassifyResource(o.snapshot),
                         evaluation[r].all, evaluation[r].own).action = "START"
    BY <1>3
  <2> QED  BY <1>2, <2>1, <2>2, Started
<1> HIDE DEF d
<1>6. /\ admissions' = [q \in AdmissionRun |-> admissions'[q]]
      /\ \A q \in AdmissionRun \ {r} : admissions'[q] = admissions[q]
      /\ d.action = "START" => admissions'[r].snapshot = o.snapshot
  <2>1. admissions' = [admissions EXCEPT ![r] =
          [action |-> d.action, reasonCode |-> d.reasonCode,
           snapshot |-> IF d.action = "START" THEN o.snapshot ELSE Null]]
    BY <1>4 DEF Admission!Save
  <2> QED  BY <1>2, <2>1
<1>7. /\ evaluation' \in Evaluations
      /\ \A q \in AdmissionRun \ {r} : evaluation'[q] = evaluation[q]
      /\ evaluation'[r].pc # "waiting" =>
           d.action = "START" /\ evaluation'[r].own = evaluation[r].own
  <2>1. PICK x \in [pc : {"waiting", "observing", "running"}, all : Nat, own : Nat] :
          x = evaluation[r]
    BY <1>2 DEF Evaluations
  <2>2. [x EXCEPT !.pc = "running"]
          \in [pc : {"waiting", "observing", "running"}, all : Nat, own : Nat]
    OBVIOUS
  <2>3. CASE d.action = "START"
    <3>1. evaluation' = [evaluation EXCEPT ![r] = [x EXCEPT !.pc = "running"]]
      BY <1>4, <2>1, <2>3
    <3> QED  BY <1>2, <2>1, <2>2, <2>3, <3>1 DEF Evaluations
  <2>4. CASE d.action # "START"
    <3>1. evaluation' = [evaluation EXCEPT ![r] = [pc |-> "waiting", all |-> 0, own |-> 0]]
      BY <1>4, <2>4 DEF Admission!Waiting
    <3> QED  BY <1>2, <2>4, <3>1 DEF Evaluations
  <2> QED  BY <2>3, <2>4
<1>8. ASSUME NEW q \in AdmissionRun, evaluation'[q].pc = "running"
      PROVE  StartOK(q)'
  <2>1. CASE q = r
    BY <1>5, <1>6, <1>7, <1>8, <2>1 DEF StartOK
  <2>2. CASE q # r
    <3>1. evaluation'[q] = evaluation[q] /\ admissions'[q] = admissions[q]
      BY <1>6, <1>7, <2>2
    <3> QED  BY <1>8, <3>1 DEF AdmissionIInv, StartOK
  <2> QED  BY <2>1, <2>2
<1>9. CountInv'
  <2>1. \A q \in Admission!Active' :
          q \in Admission!Active /\ evaluation'[q].own = evaluation[q].own
    BY <1>2, <1>7 DEF Admission!Active
  <2> QED  BY <2>1, CountsStay DEF AdmissionIInv
<1> QED  BY <1>6, <1>7, <1>8, <1>9 DEF AdmissionIInv

LEMMA AdmissionNext ==
  ASSUME Admission!Configured, AdmissionIInv, [Admission!Next]_(Admission!vars)
  PROVE  AdmissionIInv'
<1>1. ASSUME NEW r \in AdmissionRun, Admission!EvaluateThrows(r) \/ Admission!Finish(r)
      PROVE  AdmissionIInv'
  <2>1. /\ evaluation' = [evaluation EXCEPT ![r] = [pc |-> "waiting", all |-> 0, own |-> 0]]
        /\ \/ admissions' = admissions
           \/ admissions' = [admissions EXCEPT ![r] = Admission!NoDecision]
    BY <1>1 DEF Admission!EvaluateThrows, Admission!Finish, Admission!Waiting
  <2>2. /\ evaluation \in Evaluations
        /\ admissions = [q \in AdmissionRun |-> admissions[q]]
    BY DEF AdmissionIInv
  <2>3. /\ evaluation' \in Evaluations
        /\ evaluation'[r].pc = "waiting"
        /\ \A q \in AdmissionRun \ {r} : evaluation'[q] = evaluation[q]
        /\ admissions' = [q \in AdmissionRun |-> admissions'[q]]
        /\ \A q \in AdmissionRun \ {r} : admissions'[q] = admissions[q]
    BY <2>1, <2>2 DEF Evaluations
  <2>4. ASSUME NEW q \in AdmissionRun, evaluation'[q].pc = "running"
        PROVE  StartOK(q)'
    <3>1. evaluation'[q] = evaluation[q] /\ admissions'[q] = admissions[q]
      BY <2>3, <2>4
    <3> QED  BY <2>4, <3>1 DEF AdmissionIInv, StartOK
  <2>5. \A q \in Admission!Active' :
          q \in Admission!Active /\ evaluation'[q].own = evaluation[q].own
    BY <2>3 DEF Admission!Active
  <2>6. CountInv'
    BY <2>5, CountsStay DEF AdmissionIInv
  <2> QED  BY <2>3, <2>4, <2>6 DEF AdmissionIInv
<1>2. CASE UNCHANGED Admission!vars
  BY <1>2 DEF Admission!vars, AdmissionIInv, StartOK, CountInv, Admission!ActiveOf, Admission!Active
<1> QED  BY <1>1, <1>2, ClaimKeepsAdmissions, EvaluateKeepsAdmissions DEF Admission!Next

\* AdmissionsAreSound: however many evaluations overlap, whatever is observed
\* and configured, a start is justified by the snapshot stored with it, at most
\* one run of a tenant was started on a busy machine, and no tenant runs more
\* than its budget and share.
THEOREM StartsAreSound == Admission!Configured => (Admission!Spec => []AdmissionsAreSound)
<1> SUFFICES ASSUME Admission!Configured  PROVE Admission!Spec => []AdmissionsAreSound
  OBVIOUS
<1>1. Admission!Init => AdmissionIInv
  BY AdmissionInit
<1>2. AdmissionIInv /\ [Admission!Next]_(Admission!vars) => AdmissionIInv'
  BY AdmissionNext
<1>3. ASSUME AdmissionIInv  PROVE AdmissionsAreSound
  <2>1. /\ Null \notin Admission!Snapshot /\ IsFiniteSet(AdmissionRun)
        /\ TenantOf \in [AdmissionRun -> Tenant]
    BY AdmissionCardinality DEF Admission!Configured
  <2>2. ASSUME NEW r \in Admission!Running
        PROVE  r \in AdmissionRun /\ r \in Admission!Active /\ StartOK(r)
               /\ evaluation[r].own \in Nat
    BY <1>3 DEF Admission!Running, Admission!Active, AdmissionIInv, Evaluations
  <2>3. ASSUME NEW s \in Admission!Snapshot,
               Admission!ClassifyResource(s) \in {"BUSY", "NORMAL"}
        PROVE  /\ Admission!Observed(s) /\ ~Admission!Busy(s, "critical")
               /\ Admission!Busy(s, "busy") => Admission!ClassifyResource(s) = "BUSY"
    <3>1. Admission!Reasons(s, "critical") = {}
      BY <2>3 DEF Admission!ClassifyResource
    <3>2. Admission!Reasons(s, "busy") # {} => Admission!ClassifyResource(s) = "BUSY"
      BY <2>3, <3>1 DEF Admission!ClassifyResource
    <3>3. Admission!Observed(s)
      BY <2>3 DEF Admission!ClassifyResource, Admission!Observed, Admission!Known
    <3> QED  BY <3>1, <3>2, <3>3, BusyHasReason
  <2>4. ASSUME NEW r \in Admission!Running
        PROVE  LET s == admissions[r].snapshot IN
               s # Null /\ ~Admission!Busy(s, "critical") /\ Admission!Observed(s)
    BY <2>1, <2>2, <2>3 DEF StartOK
  <2>5. ASSUME NEW p \in Admission!Running, NEW q \in Admission!Running,
               p # q, TenantOf[p] = TenantOf[q],
               Admission!Busy(admissions[p].snapshot, "busy"),
               Admission!Busy(admissions[q].snapshot, "busy")
        PROVE  FALSE
    <3>1. evaluation[p].own = 0 /\ evaluation[q].own = 0
      BY <2>2, <2>3, <2>5 DEF StartOK
    <3>2. {p, q} \in SUBSET Admission!ActiveOf(TenantOf[p]) /\ TenantOf[p] \in Tenant
      BY <2>1, <2>2, <2>5 DEF Admission!ActiveOf
    <3>3. PICK r \in {p, q} : Cardinality({p, q}) =< evaluation[r].own + 1
      BY <1>3, <3>2 DEF AdmissionIInv, CountInv
    <3>4. Cardinality({p, q}) = 2
      <4>1. IsFiniteSet({p}) /\ Cardinality({p}) = 1
        BY FS_Singleton
      <4>2. {p, q} = {p} \cup {q}
        OBVIOUS
      <4> QED  BY <2>5, <4>1, <4>2, FS_AddElement
    <3> QED  BY <3>1, <3>3, <3>4
  <2>6. ASSUME Budgets # <<>>, NEW t \in Tenant
        PROVE  Admission!Cardinality({r \in Admission!Running : TenantOf[r] = t})
                 =< Admission!Ceiling(t)
    <3> DEFINE A == {r \in Admission!Running : TenantOf[r] = t}
    <3>1. Admission!Ceiling(t) \in Nat
      BY <2>6, CeilingType
    <3>2. A \in SUBSET Admission!ActiveOf(t)
      BY <2>2 DEF Admission!ActiveOf
    <3>3. A \in SUBSET AdmissionRun
      BY <2>2
    <3>4. IsFiniteSet(A) /\ Cardinality(A) \in Nat
      BY <2>1, <3>3, FS_Subset, FS_CardinalityType
    <3>5. Admission!Cardinality(A) = Cardinality(A)
      BY AdmissionCardinality
    <3>6. CASE A = {}
      BY <3>1, <3>5, <3>6, FS_EmptySet
    <3>7. CASE A # {}
      <4>1. PICK r \in A : Cardinality(A) =< evaluation[r].own + 1
        BY <1>3, <3>2, <3>7 DEF AdmissionIInv, CountInv
      <4>2. evaluation[r].own + 1 =< Admission!Ceiling(t) /\ evaluation[r].own \in Nat
        BY <2>2, <2>6 DEF StartOK
      <4> QED  BY <3>1, <3>4, <3>5, <4>1, <4>2
    <3> QED  BY <3>6, <3>7
  <2> QED  BY <2>4, <2>5, <2>6
           DEF AdmissionsAreSound, Admission!AdmissionsAreSound, Admission!StartsAreJustified,
               Admission!BudgetsAreKept
<1> QED  BY <1>1, <1>2, <1>3, PTL DEF Admission!Spec

-----------------------------------------------------------------------------
(* Types of the admission *)

\* The facts of an evaluation are counts under the limits it was claimed under.
AdmissionTypes ==
  \A r \in AdmissionRun :
    /\ evaluation[r].all \in 0..MaxActiveRuns /\ evaluation[r].own \in 0..MaxActiveRunsPerTenant
    /\ admissions[r].action \in {"none", "START", "QUEUE"}
    /\ admissions[r].snapshot = Null \/ admissions[r].snapshot \in Admission!Snapshot

LEMMA AdmissionTypesStep ==
  ASSUME Admission!Configured, AdmissionIInv, AdmissionTypes, [Admission!Next]_(Admission!vars)
  PROVE  AdmissionTypes'
<1>1. /\ MaxActiveRuns \in Nat /\ MaxActiveRunsPerTenant \in Nat
      /\ IsFiniteSet(AdmissionRun) /\ evaluation \in Evaluations
      /\ admissions = [q \in AdmissionRun |-> admissions[q]]
  BY AdmissionCardinality DEF Admission!Configured, AdmissionIInv
<1>2. ASSUME NEW r \in AdmissionRun, Admission!Claim(r)
      PROVE  AdmissionTypes'
  <2> DEFINE all == Cardinality(Admission!Active)
             own == Cardinality(Admission!ActiveOf(TenantOf[r]))
  <2>1. /\ all < MaxActiveRuns /\ own < MaxActiveRunsPerTenant
        /\ evaluation' = [evaluation EXCEPT ![r] = [pc |-> "observing", all |-> all, own |-> own]]
        /\ admissions' = admissions
    BY <1>2, AdmissionCardinality DEF Admission!Claim
  <2>2. all \in Nat /\ own \in Nat
    <3>1. Admission!Active \subseteq AdmissionRun
      BY DEF Admission!Active
    <3>2. Admission!ActiveOf(TenantOf[r]) \subseteq AdmissionRun
      BY <3>1 DEF Admission!ActiveOf
    <3> QED  BY <1>1, <3>1, <3>2, FS_Subset, FS_CardinalityType
  <2> HIDE DEF all, own
  <2>3. all \in 0..MaxActiveRuns /\ own \in 0..MaxActiveRunsPerTenant
    BY <1>1, <2>1, <2>2
  <2>4. \A q \in AdmissionRun :
          /\ evaluation'[q].all = IF q = r THEN all ELSE evaluation[q].all
          /\ evaluation'[q].own = IF q = r THEN own ELSE evaluation[q].own
    BY <1>1, <2>1 DEF Evaluations
  <2> QED  BY <2>1, <2>3, <2>4 DEF AdmissionTypes
<1>3. ASSUME NEW r \in AdmissionRun,
             Admission!Evaluate(r) \/ Admission!EvaluateThrows(r) \/ Admission!Finish(r)
      PROVE  AdmissionTypes'
  <2>1. \E d : /\ d.action \in {"none", "START", "QUEUE"}
               /\ d.snapshot = Null \/ d.snapshot \in Admission!Snapshot
               /\ admissions' = admissions \/ admissions' = [admissions EXCEPT ![r] = d]
    <3>1. CASE Admission!Evaluate(r)
      <4>1. PICK o \in Admission!Observe :
              LET d == IF ~o.ok THEN Admission!Decision("QUEUE", "RESOURCE_OBSERVATION_FAILED")
                       ELSE Admission!Decide(TenantOf[r], Admission!ClassifyResource(o.snapshot),
                                             evaluation[r].all, evaluation[r].own)
              IN  Admission!Save(r, d, o)
        BY <3>1 DEF Admission!Evaluate
      <4>2. PICK d : /\ Admission!Save(r, d, o) /\ d.action \in {"START", "QUEUE"}
                     /\ ~o.ok => d.action = "QUEUE"
        <5>1. \A p, a, w : Admission!BaseDecision(p, a, w).action \in {"START", "QUEUE"}
          BY DEF Admission!BaseDecision, Admission!Decision
        <5>2. \A t, p, a, w : Admission!Decide(t, p, a, w).action \in {"START", "QUEUE"}
          BY <5>1 DEF Admission!Decide, Admission!Decision
        <5>3. Admission!Decision("QUEUE", "RESOURCE_OBSERVATION_FAILED").action = "QUEUE"
          BY DEF Admission!Decision
        <5> QED  BY <4>1, <5>2, <5>3
      <4>3. o.ok => o.snapshot \in Admission!Snapshot
        BY Observations
      <4>4. PICK x : x = [action |-> d.action, reasonCode |-> d.reasonCode,
                          snapshot |-> IF d.action = "START" THEN o.snapshot ELSE Null]
        OBVIOUS
      <4>5. /\ x.action \in {"START", "QUEUE"}
            /\ x.snapshot = Null \/ x.snapshot \in Admission!Snapshot
        BY <4>2, <4>3, <4>4
      <4>6. admissions' = [admissions EXCEPT ![r] = x]
        BY <4>2, <4>4 DEF Admission!Save
      <4> WITNESS x
      <4> QED  BY <4>5, <4>6
    <3>2. CASE Admission!EvaluateThrows(r) \/ Admission!Finish(r)
      <4>1. /\ Admission!NoDecision.action = "none" /\ Admission!NoDecision.snapshot = Null
            /\ \/ admissions' = admissions
               \/ admissions' = [admissions EXCEPT ![r] = Admission!NoDecision]
        BY <3>2 DEF Admission!EvaluateThrows, Admission!Finish, Admission!NoDecision
      <4> QED  BY <4>1
    <3> QED  BY <1>3, <3>1, <3>2
  <2>2. \/ evaluation' = [evaluation EXCEPT ![r] = [pc |-> "waiting", all |-> 0, own |-> 0]]
        \/ evaluation' = [evaluation EXCEPT ![r].pc = "running"]
    BY <1>3 DEF Admission!Evaluate, Admission!EvaluateThrows, Admission!Finish, Admission!Waiting
  <2>3. \A q \in AdmissionRun :
          /\ evaluation'[q].all \in {0, evaluation[q].all}
          /\ evaluation'[q].own \in {0, evaluation[q].own}
    BY <1>1, <2>2 DEF Evaluations
  <2>4. 0 \in 0..MaxActiveRuns /\ 0 \in 0..MaxActiveRunsPerTenant
    BY <1>1
  <2>5. PICK d : /\ d.action \in {"none", "START", "QUEUE"}
                 /\ d.snapshot = Null \/ d.snapshot \in Admission!Snapshot
                 /\ \A q \in AdmissionRun : admissions'[q] = admissions[q] \/ admissions'[q] = d
    BY <1>1, <2>1
  <2> QED  BY <2>3, <2>4, <2>5 DEF AdmissionTypes
<1>4. CASE UNCHANGED Admission!vars
  BY <1>4 DEF Admission!vars, AdmissionTypes
<1> QED  BY <1>2, <1>3, <1>4 DEF Admission!Next

\* Types of the admission: what an attempt read under the slot it has claimed
\* stays within the limits of the slots, and a stored decision has a snapshot
\* that could be observed.
THEOREM AdmissionTypeCorrect == Admission!Configured => (Admission!Spec => []Admission!TypeOK)
<1> SUFFICES ASSUME Admission!Configured  PROVE Admission!Spec => []Admission!TypeOK
  OBVIOUS
<1>1. Admission!Init => AdmissionIInv /\ AdmissionTypes
  <2> SUFFICES ASSUME Admission!Init  PROVE AdmissionTypes
    BY AdmissionInit
  <2>1. 0 \in 0..MaxActiveRuns /\ 0 \in 0..MaxActiveRunsPerTenant
    BY DEF Admission!Configured
  <2> QED  BY <2>1 DEF Admission!Init, Admission!Waiting, Admission!NoDecision, AdmissionTypes
<1>2. AdmissionIInv /\ AdmissionTypes /\ [Admission!Next]_(Admission!vars)
        => (AdmissionIInv /\ AdmissionTypes)'
  BY AdmissionNext, AdmissionTypesStep
<1>3. AdmissionIInv /\ AdmissionTypes => Admission!TypeOK
  BY DEF AdmissionIInv, Evaluations, AdmissionTypes, Admission!TypeOK
<1> QED  BY <1>1, <1>2, <1>3, PTL DEF Admission!Spec

-----------------------------------------------------------------------------
(* GatewayTraffic *)
\* Its proofs are about recursive functions and have a module of their own,
\* which has GatewayTraffic with the values that Traffic gives it.  A definition
\* reached one way is the definition reached the other way.

\* The functions are the same: of messages and of JSON.
LEMMA SameTokens == TrafficProofs!Tokens = Traffic!Tokens
BY DEF TrafficProofs!Tokens, Traffic!Tokens, TrafficProofs!Message, Traffic!Message,
       TrafficProofs!Front, Traffic!Front, TrafficProofs!Last, Traffic!Last

LEMMA SameParts == TrafficProofs!Parts = Traffic!Parts
BY DEF TrafficProofs!Parts, Traffic!Parts, TrafficProofs!Message, Traffic!Message,
       TrafficProofs!Front, Traffic!Front, TrafficProofs!Last, Traffic!Last

LEMMA SameRead == TrafficProofs!Read = Traffic!Read
BY DEF TrafficProofs!Read, Traffic!Read, TrafficProofs!Symbol, Traffic!Symbol,
       TrafficProofs!ReadSymbol, Traffic!ReadSymbol, TrafficProofs!ReadBlank, Traffic!ReadBlank,
       TrafficProofs!ReadToken, Traffic!ReadToken, TrafficProofs!Text, Traffic!Text,
       TrafficProofs!ReadValue, Traffic!ReadValue,
       TrafficProofs!ReadComma, Traffic!ReadComma, TrafficProofs!ReadCloser, Traffic!ReadCloser,
       TrafficProofs!Fail, Traffic!Fail, TrafficProofs!Last, Traffic!Last,
       TrafficProofs!Front, Traffic!Front, TrafficProofs!Value, Traffic!Value,
       TrafficProofs!Opening, Traffic!Opening, TrafficProofs!Closing, Traffic!Closing,
       TrafficProofs!Closer, Traffic!Closer

\* So are the two halves of the property.
LEMMA SameRestored == TrafficProofs!ArgumentsAreRestored = Traffic!ArgumentsAreRestored
BY SameRead
   DEF TrafficProofs!ArgumentsAreRestored, Traffic!ArgumentsAreRestored, TrafficProofs!Parsed,
       Traffic!Parsed, TrafficProofs!Value, Traffic!Value, TrafficProofs!IsPrefix,
       Traffic!IsPrefix, TrafficProofs!ToSet, Traffic!ToSet, TrafficProofs!Closing,
       Traffic!Closing, TrafficProofs!Last, Traffic!Last

LEMMA SamePast == TrafficProofs!Past = Traffic!Past
BY DEF TrafficProofs!Past, Traffic!Past, TrafficProofs!LastId, Traffic!LastId,
       TrafficProofs!ToSet, Traffic!ToSet, TrafficProofs!Max, Traffic!Max

LEMMA SameUsable ==
  ASSUME NEW r, NEW p
  PROVE  TrafficProofs!Usable(r, p) = Traffic!Usable(r, p)
<1>1. ASSUME NEW x
      PROVE  /\ TrafficProofs!Talk(x) = Traffic!Talk(x)
             /\ TrafficProofs!System(x) = Traffic!System(x)
  BY SameParts DEF TrafficProofs!Talk, Traffic!Talk, TrafficProofs!System, Traffic!System
<1>2. ASSUME NEW x, NEW y  PROVE TrafficProofs!IsSuffix(x, y) = Traffic!IsSuffix(x, y)
  BY DEF TrafficProofs!IsSuffix, Traffic!IsSuffix, TrafficProofs!IsPrefix, Traffic!IsPrefix,
         TrafficProofs!Reverse, Traffic!Reverse
<1>3. ASSUME NEW x  PROVE TrafficProofs!ToSet(x) = Traffic!ToSet(x)
  BY DEF TrafficProofs!ToSet, Traffic!ToSet
<1>4. ASSUME NEW x  PROVE TrafficProofs!TurnStarts(x) = Traffic!TurnStarts(x)
  BY DEF TrafficProofs!TurnStarts, Traffic!TurnStarts
<1>5. ASSUME NEW x  PROVE TrafficProofs!Max(x) = Traffic!Max(x)
  BY DEF TrafficProofs!Max, Traffic!Max
<1>6. ASSUME NEW x, NEW i  PROVE TrafficProofs!LatestFrom(x, i) = Traffic!LatestFrom(x, i)
  BY DEF TrafficProofs!LatestFrom, Traffic!LatestFrom
<1>7. TrafficProofs!Notice = Traffic!Notice
  BY DEF TrafficProofs!Notice, Traffic!Notice, TrafficProofs!New, Traffic!New
<1>8. ASSUME NEW x  PROVE TrafficProofs!Cardinality(x) = Traffic!Cardinality(x)
  BY DEF TrafficProofs!Cardinality, Traffic!Cardinality
<1>9. PICK k, a : k = Traffic!Talk(r) /\ a = Traffic!Talk(p)
  OBVIOUS
<1>10. PICK d : d = SubSeq(a, 1, Len(a) - Len(k))
  OBVIOUS
<1>11. PICK e : e = {m \in Traffic!ToSet(k) : m.role = "user"}
  OBVIOUS
<1>12. /\ TrafficProofs!Talk(r) = k /\ TrafficProofs!Talk(p) = a
       /\ TrafficProofs!System(p) = Traffic!System(p)
       /\ TrafficProofs!ToSet(k) = Traffic!ToSet(k)
       /\ TrafficProofs!IsSuffix(k, a) = Traffic!IsSuffix(k, a)
       /\ TrafficProofs!Max(TrafficProofs!TurnStarts(d)) = Traffic!Max(Traffic!TurnStarts(d))
       /\ TrafficProofs!Cardinality(e) = Traffic!Cardinality(e)
  BY <1>1, <1>2, <1>3, <1>4, <1>5, <1>8, <1>9
<1>13. TrafficProofs!LatestFrom(d, Traffic!Max(Traffic!TurnStarts(d)))
         = Traffic!LatestFrom(d, Traffic!Max(Traffic!TurnStarts(d)))
  BY <1>6
<1> QED  BY <1>7, <1>9, <1>10, <1>11, <1>12, <1>13, SameTokens
         DEF TrafficProofs!Usable, Traffic!Usable

\* So are the steps, and so is what they change in requests and arguments.
LEMMA SameScan == TrafficProofs!ScanJsonState = Traffic!ScanJsonState
BY DEF TrafficProofs!ScanJsonState, Traffic!ScanJsonState, TrafficProofs!Symbol,
       Traffic!Symbol, TrafficProofs!Last, Traffic!Last, TrafficProofs!Front, Traffic!Front,
       TrafficProofs!Opening, Traffic!Opening, TrafficProofs!Closing, Traffic!Closing,
       TrafficProofs!Closer, Traffic!Closer

LEMMA SameSequences ==
  ASSUME NEW s, NEW t
  PROVE  /\ TrafficProofs!Front(s) = Traffic!Front(s) /\ TrafficProofs!Last(s) = Traffic!Last(s)
         /\ TrafficProofs!Reverse(s) = Traffic!Reverse(s)
         /\ TrafficProofs!Max(s) = Traffic!Max(s) /\ TrafficProofs!Min(s) = Traffic!Min(s)
         /\ TrafficProofs!IsPrefix(s, t) = Traffic!IsPrefix(s, t)
         /\ TrafficProofs!Talk(s) = Traffic!Talk(s) /\ TrafficProofs!System(s) = Traffic!System(s)
         /\ TrafficProofs!TurnStarts(s) = Traffic!TurnStarts(s)
         /\ TrafficProofs!LatestFrom(s, t) = Traffic!LatestFrom(s, t)
BY SameParts
   DEF TrafficProofs!Front, Traffic!Front, TrafficProofs!Last, Traffic!Last,
       TrafficProofs!Reverse, Traffic!Reverse, TrafficProofs!Max, Traffic!Max,
       TrafficProofs!Min, Traffic!Min, TrafficProofs!IsPrefix, Traffic!IsPrefix,
       TrafficProofs!Talk, Traffic!Talk, TrafficProofs!System, Traffic!System,
       TrafficProofs!TurnStarts, Traffic!TurnStarts, TrafficProofs!LatestFrom,
       Traffic!LatestFrom

LEMMA SameNotice == TrafficProofs!Notice = Traffic!Notice
BY DEF TrafficProofs!Notice, Traffic!Notice, TrafficProofs!New, Traffic!New

LEMMA SameKept ==
  ASSUME NEW t, NEW n
  PROVE  TrafficProofs!KeptFrom(t, n) = Traffic!KeptFrom(t, n)
<1>1. PICK turns : turns = Traffic!TurnStarts(t)
  OBVIOUS
<1>2. TrafficProofs!TurnStarts(t) = turns
  BY <1>1, SameSequences
<1>3. PICK fit : fit = {i \in turns : n + Traffic!Tokens[Traffic!LatestFrom(t, i)] =< Budget}
  OBVIOUS
<1>4. {i \in turns : n + TrafficProofs!Tokens[TrafficProofs!LatestFrom(t, i)] =< Budget} = fit
  BY <1>3, SameTokens, SameSequences
<1>5. PICK s : s = {Traffic!Max(turns)} \cup fit
  OBVIOUS
<1>6. Traffic!KeptFrom(t, n) = Traffic!Min(s)
  BY <1>1, <1>3, <1>5, Zenon DEF Traffic!KeptFrom
<1>7. TrafficProofs!Max(turns) = Traffic!Max(turns)
  BY SameSequences
<1>8. TrafficProofs!KeptFrom(t, n) = TrafficProofs!Min(s)
  BY <1>2, <1>4, <1>5, <1>7, Zenon DEF TrafficProofs!KeptFrom
<1> QED  BY <1>6, <1>8, SameSequences

LEMMA SameCompact ==
  ASSUME NEW h
  PROVE  TrafficProofs!NormalizePromptForPrefixCache(TrafficProofs!CompactConversation(h))
           = Traffic!NormalizePromptForPrefixCache(Traffic!CompactConversation(h))
<1>1. TrafficProofs!CompactConversation(h) = Traffic!CompactConversation(h)
  <2>1. PICK k, s : k = Traffic!Talk(h) /\ s = Traffic!System(h)
    OBVIOUS
  <2>2. TrafficProofs!Talk(h) = k /\ TrafficProofs!System(h) = s
    BY <2>1, SameSequences
  <2>3. PICK from : from = Traffic!KeptFrom(k, Traffic!Tokens[s] + ToolsTokens + NoticeTokens)
    OBVIOUS
  <2>4. TrafficProofs!KeptFrom(k, TrafficProofs!Tokens[s] + ToolsTokens + NoticeTokens) = from
    BY <2>3, SameKept, SameTokens
  <2>5. TrafficProofs!LatestFrom(k, from) = Traffic!LatestFrom(k, from)
    BY SameSequences
  <2>6. Traffic!CompactConversation(h)
          = IF Budget = 0 \/ k = <<>> \/ from = 1 THEN h
            ELSE s \o <<Traffic!Notice>> \o Traffic!LatestFrom(k, from)
    BY <2>1, <2>3, Zenon DEF Traffic!CompactConversation
  <2>7. TrafficProofs!CompactConversation(h)
          = IF Budget = 0 \/ k = <<>> \/ from = 1 THEN h
            ELSE s \o <<TrafficProofs!Notice>> \o TrafficProofs!LatestFrom(k, from)
    BY <2>2, <2>4, Zenon DEF TrafficProofs!CompactConversation
  <2>8. PICK notice, latest : notice = Traffic!Notice /\ latest = Traffic!LatestFrom(k, from)
    OBVIOUS
  <2>9. TrafficProofs!Notice = notice /\ TrafficProofs!LatestFrom(k, from) = latest
    BY <2>5, <2>8, SameNotice
  <2> QED  BY <2>6, <2>7, <2>8, <2>9
<1> QED  BY <1>1, SameSequences, Zenon
         DEF TrafficProofs!NormalizePromptForPrefixCache, Traffic!NormalizePromptForPrefixCache

LEMMA SameClose ==
  ASSUME NEW t
  PROVE  /\ TrafficProofs!Close(t) = Traffic!Close(t)
         /\ TrafficProofs!Shortened(t) = Traffic!Shortened(t)
         /\ TrafficProofs!Parsed(t) = Traffic!Parsed(t)
<1>1. TrafficProofs!WithoutTail(t) = Traffic!WithoutTail(t)
  BY SameSequences, Zenon
     DEF TrafficProofs!WithoutTail, Traffic!WithoutTail, TrafficProofs!Dropped, Traffic!Dropped
<1>2. TrafficProofs!Close(t) = Traffic!Close(t)
  BY <1>1, SameScan, SameSequences, Zenon DEF TrafficProofs!Close, Traffic!Close
<1>3. TrafficProofs!Shortened(t) = Traffic!Shortened(t)
  BY <1>2, SameSequences, Zenon DEF TrafficProofs!Shortened, Traffic!Shortened
<1>4. TrafficProofs!Parsed(t) = Traffic!Parsed(t)
  BY SameRead, Zenon
     DEF TrafficProofs!Parsed, Traffic!Parsed, TrafficProofs!Value, Traffic!Value
<1> QED  BY <1>2, <1>3, <1>4

LEMMA SameRepaired ==
  ASSUME NEW t
  PROVE  TrafficProofs!Repaired(t) = Traffic!Repaired(t)
<1>1. TrafficProofs!RepairTruncatedJson(t) = Traffic!RepairTruncatedJson(t)
  <2> DEFINE one[n \in 1..5] == IF n = 1 THEN t ELSE Traffic!Shortened(one[n - 1])
             other[n \in 1..5] == IF n = 1 THEN t ELSE TrafficProofs!Shortened(other[n - 1])
             tries == {n \in 1..5 : Traffic!Parsed(Traffic!Close(one[n]).closed)}
             others == {n \in 1..5 : TrafficProofs!Parsed(TrafficProofs!Close(other[n]).closed)}
  <2>1. Traffic!RepairTruncatedJson(t)
          = IF t = <<>> \/ Traffic!Parsed(t) \/ tries = {} THEN <<>>
            ELSE Traffic!Close(one[Traffic!Min(tries)]).closed
    BY Zenon DEF Traffic!RepairTruncatedJson
  <2>2. TrafficProofs!RepairTruncatedJson(t)
          = IF t = <<>> \/ TrafficProofs!Parsed(t) \/ others = {} THEN <<>>
            ELSE TrafficProofs!Close(other[TrafficProofs!Min(others)]).closed
    BY Zenon DEF TrafficProofs!RepairTruncatedJson
  <2>3. one = other
    <3> DEFINE Body(g) == [n \in 1..5 |-> IF n = 1 THEN t ELSE Traffic!Shortened(g[n - 1])]
               Copy(g) == [n \in 1..5 |-> IF n = 1 THEN t ELSE TrafficProofs!Shortened(g[n - 1])]
    <3>1. \A g : Body(g) = Copy(g)
      BY SameClose
    <3>2. one = (CHOOSE g : g = Body(g)) /\ other = (CHOOSE g : g = Copy(g))
      BY Zenon
    <3> HIDE DEF Body, Copy, one, other
    <3> QED  BY <3>1, <3>2
  <2> HIDE DEF one, other
  <2>4. tries = others
    BY <2>3, SameClose
  <2> HIDE DEF tries, others
  <2>5. PICK last, text, parsed :
          /\ last = Traffic!Min(tries) /\ text = Traffic!Close(one[last]).closed
          /\ parsed = Traffic!Parsed(t)
    OBVIOUS
  <2>6. /\ TrafficProofs!Min(others) = last
        /\ TrafficProofs!Close(other[last]).closed = text /\ TrafficProofs!Parsed(t) = parsed
    BY <2>3, <2>4, <2>5, SameClose, SameSequences
  <2> QED  BY <2>1, <2>2, <2>4, <2>5, <2>6
<1> QED  BY <1>1, SameSequences, Zenon DEF TrafficProofs!Repaired, Traffic!Repaired

LEMMA SameSteps ==
  ASSUME Traffic!Next
  PROVE  TrafficProofs!Next
<1>1. ASSUME NEW role, NEW size, NEW c
      PROVE  TrafficProofs!Add(role, size, c) = Traffic!Add(role, size, c)
  BY DEF TrafficProofs!Add, Traffic!Add, TrafficProofs!New, Traffic!New
<1>2. TrafficProofs!Quiet = Traffic!Quiet
  BY Zenon DEF TrafficProofs!Quiet, Traffic!Quiet
<1>3. TrafficProofs!Asked = Traffic!Asked
  BY <1>2, SameSequences, Zenon DEF TrafficProofs!Asked, Traffic!Asked
<1>4. ASSUME NEW size
      PROVE  /\ Traffic!UserSays(size) => TrafficProofs!UserSays(size)
             /\ Traffic!SystemSays(size) => TrafficProofs!SystemSays(size)
             /\ Traffic!Answer(size) => TrafficProofs!Answer(size)
  BY <1>1, <1>2, <1>3, Zenon
     DEF TrafficProofs!UserSays, Traffic!UserSays, TrafficProofs!SystemSays,
         Traffic!SystemSays, TrafficProofs!Answer, Traffic!Answer
<1>5. ASSUME NEW size, Traffic!Finish(size)  PROVE TrafficProofs!Finish(size)
  BY <1>1, <1>5, SameRepaired, Zenon
     DEF TrafficProofs!Finish, Traffic!Finish, TrafficProofs!New, Traffic!New
<1>6. ASSUME Traffic!Forward  PROVE TrafficProofs!Forward
  BY <1>2, <1>6, SameCompact, SameSequences, Zenon DEF TrafficProofs!Forward, Traffic!Forward
<1>7. Traffic!Break => TrafficProofs!Break
  BY Zenon DEF TrafficProofs!Break, Traffic!Break
<1>8. ASSUME NEW d  PROVE Traffic!CallTool(d) => TrafficProofs!CallTool(d)
  BY <1>3, Zenon DEF TrafficProofs!CallTool, Traffic!CallTool
<1>9. ASSUME NEW n  PROVE Traffic!Observe(n) => TrafficProofs!Observe(n)
  BY Zenon DEF TrafficProofs!Observe, Traffic!Observe
<1> QED  BY <1>4, <1>5, <1>6, <1>7, <1>8, <1>9, Zenon DEF TrafficProofs!Next, Traffic!Next

LEMMA SameTraffic ==
  /\ Traffic!Init => TrafficProofs!Init
  /\ [Traffic!Next]_(Traffic!vars) => [TrafficProofs!Next]_(TrafficProofs!vars)
  /\ TrafficProofs!TypeOK => Traffic!TypeOK
<1>1. Traffic!Init => TrafficProofs!Init
  BY Zenon DEF TrafficProofs!Init, Traffic!Init
<1>2. Traffic!vars' = Traffic!vars => TrafficProofs!vars' = TrafficProofs!vars
  BY Zenon DEF TrafficProofs!vars, Traffic!vars
<1>3. TrafficProofs!TypeOK => Traffic!TypeOK
  BY SameSequences, Zenon DEF TrafficProofs!TypeOK, Traffic!TypeOK
<1>4. Traffic!Next => TrafficProofs!Next
  BY SameSteps
<1> QED  BY <1>1, <1>2, <1>3, <1>4, Zenon

LEMMA SameConfigured == Traffic!Configured => TrafficProofs!Configured
<1>1. TrafficProofs!Symbol = Traffic!Symbol
  BY Zenon DEF TrafficProofs!Symbol, Traffic!Symbol
<1> QED  BY <1>1, Zenon DEF TrafficProofs!Configured, Traffic!Configured

\* TrafficStaysUsable: a request that the gateway compacts keeps the latest
\* turns that fit, the calls of the results it sends and the order of all of it,
\* and a tool call's arguments reach the client as they came or closed to JSON.
THEOREM TheTrafficStaysUsable ==
  Traffic!Configured => (Traffic!Spec => []TrafficStaysUsable)
<1>1. TrafficProofs!TrafficStaysUsable => TrafficStaysUsable
  BY SameRestored, SamePast, SameUsable
     DEF TrafficStaysUsable, TrafficProofs!TrafficStaysUsable, Traffic!TrafficStaysUsable,
         TrafficProofs!RequestsStayUsable, Traffic!RequestsStayUsable
<1>2. TrafficProofs!Configured => (TrafficProofs!Spec => []TrafficProofs!TrafficStaysUsable)
  BY TrafficProofs!TheTrafficStaysUsable
<1> QED  BY <1>1, <1>2, SameTraffic, SameConfigured, PTL DEF Traffic!Spec, TrafficProofs!Spec

\* Types of the traffic: a message's id is its place, and what the tracker has
\* accumulated is the beginning of what the model is writing.
THEOREM TrafficTypeCorrect == Traffic!Configured => (Traffic!Spec => []Traffic!TypeOK)
<1>1. TrafficProofs!Configured => (TrafficProofs!Spec => []TrafficProofs!TypeOK)
  BY TrafficProofs!TypeCorrect
<1> QED  BY <1>1, SameTraffic, SameConfigured, PTL DEF Traffic!Spec, TrafficProofs!Spec

-----------------------------------------------------------------------------
(* The services together *)

\* The component that was picked stays the one, and the only one to take steps.
LEMMA PickedStays ==
  ASSUME [ServicesNext]_servicesVars, NEW c
  PROVE  component = c <=> component' = c
<1>1. component' = component
  BY Zenon
     DEF ServicesNext, GatewaySteps, AdmissionSteps, PoliciesSteps, TenantsSteps,
         TimelineSteps, ShutdownSteps, ConsoleSteps, TrafficSteps, ResultsSteps, servicesVars
<1> QED  BY <1>1

LEMMA GatewayPicked ==
  /\ ServicesInit /\ component = "gateway" => Gateway!Init
  /\ component = "gateway" /\ [ServicesNext]_servicesVars => [Gateway!Next]_(Gateway!vars)
  /\ [ServicesNext]_servicesVars => (component = "gateway" <=> (component = "gateway")')
<1>1. ASSUME ServicesInit, component = "gateway"  PROVE Gateway!Init
  BY <1>1 DEF ServicesInit
<1>2. ASSUME component = "gateway", [ServicesNext]_servicesVars
      PROVE  Gateway!Next \/ gatewayVars' = gatewayVars
  BY <1>2
     DEF ServicesNext, GatewaySteps, AdmissionSteps, PoliciesSteps, TenantsSteps,
         TimelineSteps, ShutdownSteps, ConsoleSteps, TrafficSteps, ResultsSteps, servicesVars
<1>3. ASSUME gatewayVars' = gatewayVars  PROVE UNCHANGED Gateway!vars
  BY <1>3, Zenon DEF gatewayVars, Gateway!vars, Gateway!router
<1> QED  BY <1>1, <1>2, <1>3, PickedStays

LEMMA GatewayComposed ==
  ServicesConfigured => (ServicesSpec => []((component = "gateway" => Gateway!TypeOK) /\ RoutingIsFair))
<1> SUFFICES ASSUME ServicesConfigured
             PROVE  ServicesSpec => []((component = "gateway" => Gateway!TypeOK) /\ RoutingIsFair)
  OBVIOUS
<1>1. Gateway!Spec => []Gateway!TypeOK
  BY GatewayTypeCorrect DEF ServicesConfigured
<1>2. Gateway!Spec => []RoutingIsFair
  BY TheRoutingIsFair DEF ServicesConfigured
<1>3. ~(component = "gateway") => RoutingIsFair
  BY DEF RoutingIsFair
<1> QED  BY <1>1, <1>2, <1>3, GatewayPicked, PTL DEF ServicesSpec, Gateway!Spec

LEMMA AdmissionPicked ==
  /\ ServicesInit /\ component = "admission" => Admission!Init
  /\ component = "admission" /\ [ServicesNext]_servicesVars => [Admission!Next]_(Admission!vars)
  /\ [ServicesNext]_servicesVars => (component = "admission" <=> (component = "admission")')
<1>1. ASSUME ServicesInit, component = "admission"  PROVE Admission!Init
  BY <1>1 DEF ServicesInit
<1>2. ASSUME component = "admission", [ServicesNext]_servicesVars
      PROVE  Admission!Next \/ admissionVars' = admissionVars
  BY <1>2
     DEF ServicesNext, GatewaySteps, AdmissionSteps, PoliciesSteps, TenantsSteps,
         TimelineSteps, ShutdownSteps, ConsoleSteps, TrafficSteps, ResultsSteps, servicesVars
<1>3. ASSUME admissionVars' = admissionVars  PROVE UNCHANGED Admission!vars
  BY <1>3, Zenon DEF admissionVars, Admission!vars
<1> QED  BY <1>1, <1>2, <1>3, PickedStays

LEMMA AdmissionComposed ==
  ServicesConfigured => (ServicesSpec => []((component = "admission" => Admission!TypeOK) /\ AdmissionsAreSound))
<1> SUFFICES ASSUME ServicesConfigured
             PROVE  ServicesSpec => []((component = "admission" => Admission!TypeOK) /\ AdmissionsAreSound)
  OBVIOUS
<1>1. Admission!Spec => []Admission!TypeOK
  BY AdmissionTypeCorrect DEF ServicesConfigured
<1>2. Admission!Spec => []AdmissionsAreSound
  BY StartsAreSound DEF ServicesConfigured
<1>3. ~(component = "admission") => AdmissionsAreSound
  BY DEF AdmissionsAreSound
<1> QED  BY <1>1, <1>2, <1>3, AdmissionPicked, PTL DEF ServicesSpec, Admission!Spec

LEMMA TenantsPicked ==
  /\ ServicesInit /\ component = "tenants" => Tenants!Init
  /\ component = "tenants" /\ [ServicesNext]_servicesVars => [Tenants!Next]_(Tenants!vars)
  /\ [ServicesNext]_servicesVars => (component = "tenants" <=> (component = "tenants")')
<1>1. ASSUME ServicesInit, component = "tenants"  PROVE Tenants!Init
  BY <1>1 DEF ServicesInit
<1>2. ASSUME component = "tenants", [ServicesNext]_servicesVars
      PROVE  Tenants!Next \/ tenantVars' = tenantVars
  BY <1>2
     DEF ServicesNext, GatewaySteps, AdmissionSteps, PoliciesSteps, TenantsSteps,
         TimelineSteps, ShutdownSteps, ConsoleSteps, TrafficSteps, ResultsSteps, servicesVars
<1>3. ASSUME tenantVars' = tenantVars  PROVE UNCHANGED Tenants!vars
  BY <1>3, Zenon DEF tenantVars, Tenants!vars
<1> QED  BY <1>1, <1>2, <1>3, PickedStays

LEMMA TenantsComposed ==
  ServicesConfigured => (ServicesSpec => []((component = "tenants" => Tenants!TypeOK) /\ TenantsStayApart))
<1> SUFFICES ASSUME ServicesConfigured
             PROVE  ServicesSpec => []((component = "tenants" => Tenants!TypeOK) /\ TenantsStayApart)
  OBVIOUS
<1>1. Tenants!Spec => []Tenants!TypeOK
  BY TenantsTypeCorrect DEF ServicesConfigured
<1>2. Tenants!Spec => []TenantsStayApart
  BY TenantsAreKeptApart DEF ServicesConfigured
<1>3. ~(component = "tenants") => TenantsStayApart
  BY DEF TenantsStayApart
<1> QED  BY <1>1, <1>2, <1>3, TenantsPicked, PTL DEF ServicesSpec, Tenants!Spec

LEMMA TimelinePicked ==
  /\ ServicesInit /\ component = "timeline" => Timeline!Init
  /\ component = "timeline" /\ [ServicesNext]_servicesVars => [Timeline!Next]_(Timeline!vars)
  /\ [ServicesNext]_servicesVars => (component = "timeline" <=> (component = "timeline")')
<1>1. ASSUME ServicesInit, component = "timeline"  PROVE Timeline!Init
  BY <1>1 DEF ServicesInit
<1>2. ASSUME component = "timeline", [ServicesNext]_servicesVars
      PROVE  Timeline!Next \/ timelineVars' = timelineVars
  BY <1>2
     DEF ServicesNext, GatewaySteps, AdmissionSteps, PoliciesSteps, TenantsSteps,
         TimelineSteps, ShutdownSteps, ConsoleSteps, TrafficSteps, ResultsSteps, servicesVars
<1>3. ASSUME timelineVars' = timelineVars  PROVE UNCHANGED Timeline!vars
  BY <1>3, Zenon DEF timelineVars, Timeline!vars, Timeline!fixed
<1> QED  BY <1>1, <1>2, <1>3, PickedStays

LEMMA TimelineComposed ==
  ServicesConfigured => (ServicesSpec => []((component = "timeline" => Timeline!TypeOK) /\ TimelineTellsTheTruth))
<1> SUFFICES ASSUME ServicesConfigured
             PROVE  ServicesSpec => []((component = "timeline" => Timeline!TypeOK) /\ TimelineTellsTheTruth)
  OBVIOUS
<1>1. Timeline!Spec => []Timeline!TypeOK
  BY TimelineTypeCorrect DEF ServicesConfigured
<1>2. Timeline!Spec => []TimelineTellsTheTruth
  BY TheTimelineIsTrue DEF ServicesConfigured
<1>3. ~(component = "timeline") => TimelineTellsTheTruth
  BY DEF TimelineTellsTheTruth
<1> QED  BY <1>1, <1>2, <1>3, TimelinePicked, PTL DEF ServicesSpec, Timeline!Spec

LEMMA ShutdownPicked ==
  /\ ServicesInit /\ component = "shutdown" => Shutdown!Init
  /\ component = "shutdown" /\ [ServicesNext]_servicesVars => [Shutdown!Next]_(Shutdown!vars)
  /\ [ServicesNext]_servicesVars => (component = "shutdown" <=> (component = "shutdown")')
<1>1. ASSUME ServicesInit, component = "shutdown"  PROVE Shutdown!Init
  BY <1>1 DEF ServicesInit
<1>2. ASSUME component = "shutdown", [ServicesNext]_servicesVars
      PROVE  Shutdown!Next \/ shutdownVars' = shutdownVars
  BY <1>2
     DEF ServicesNext, GatewaySteps, AdmissionSteps, PoliciesSteps, TenantsSteps,
         TimelineSteps, ShutdownSteps, ConsoleSteps, TrafficSteps, ResultsSteps, servicesVars
<1>3. ASSUME shutdownVars' = shutdownVars  PROVE UNCHANGED Shutdown!vars
  BY <1>3, Zenon DEF shutdownVars, Shutdown!vars
<1> QED  BY <1>1, <1>2, <1>3, PickedStays

LEMMA ShutdownComposed ==
  ServicesConfigured => (ServicesSpec => []((component = "shutdown" => Shutdown!TypeOK) /\ PoolIsDrained))
<1> SUFFICES ASSUME ServicesConfigured
             PROVE  ServicesSpec => []((component = "shutdown" => Shutdown!TypeOK) /\ PoolIsDrained)
  OBVIOUS
<1>1. Shutdown!Spec => []Shutdown!TypeOK
  BY ShutdownTypeCorrect DEF ServicesConfigured
<1>2. Shutdown!Spec => []PoolIsDrained
  BY ThePoolIsDrained DEF ServicesConfigured
<1>3. ~(component = "shutdown") => PoolIsDrained
  BY DEF PoolIsDrained
<1> QED  BY <1>1, <1>2, <1>3, ShutdownPicked, PTL DEF ServicesSpec, Shutdown!Spec

LEMMA ResultsPicked ==
  /\ ServicesInit /\ component = "results" => Results!Init
  /\ component = "results" /\ [ServicesNext]_servicesVars => [Results!Next]_(Results!vars)
  /\ [ServicesNext]_servicesVars => (component = "results" <=> (component = "results")')
<1>1. ASSUME ServicesInit, component = "results"  PROVE Results!Init
  BY <1>1 DEF ServicesInit
<1>2. ASSUME component = "results", [ServicesNext]_servicesVars
      PROVE  Results!Next \/ resultsVars' = resultsVars
  BY <1>2
     DEF ServicesNext, GatewaySteps, AdmissionSteps, PoliciesSteps, TenantsSteps,
         TimelineSteps, ShutdownSteps, ConsoleSteps, TrafficSteps, ResultsSteps, servicesVars
<1>3. ASSUME resultsVars' = resultsVars  PROVE UNCHANGED Results!vars
  BY <1>3, Zenon DEF resultsVars, Results!vars, Results!ghost
<1> QED  BY <1>1, <1>2, <1>3, PickedStays

LEMMA ResultsComposed ==
  ServicesConfigured => (ServicesSpec => []((component = "results" => Results!TypeOK) /\ ResultsAreWhatWasLeft))
<1> SUFFICES ASSUME ServicesConfigured
             PROVE  ServicesSpec => []((component = "results" => Results!TypeOK) /\ ResultsAreWhatWasLeft)
  OBVIOUS
<1>1. Results!Spec => []Results!TypeOK
  BY ResultsTypeCorrect
<1>2. Results!Spec => []ResultsAreWhatWasLeft
  BY ArtifactsAreWhatWasLeft
<1>3. ~(component = "results") => ResultsAreWhatWasLeft
  BY DEF ResultsAreWhatWasLeft
<1> QED  BY <1>1, <1>2, <1>3, ResultsPicked, PTL DEF ServicesSpec, Results!Spec

LEMMA TrafficPicked ==
  /\ ServicesInit /\ component = "traffic" => Traffic!Init
  /\ component = "traffic" /\ [ServicesNext]_servicesVars => [Traffic!Next]_(Traffic!vars)
  /\ [ServicesNext]_servicesVars => (component = "traffic" <=> (component = "traffic")')
<1>1. ASSUME ServicesInit, component = "traffic"  PROVE Traffic!Init
  BY <1>1 DEF ServicesInit
<1>2. ASSUME component = "traffic", [ServicesNext]_servicesVars
      PROVE  Traffic!Next \/ trafficVars' = trafficVars
  BY <1>2
     DEF ServicesNext, GatewaySteps, AdmissionSteps, PoliciesSteps, TenantsSteps,
         TimelineSteps, ShutdownSteps, ConsoleSteps, TrafficSteps, ResultsSteps, servicesVars
<1>3. ASSUME trafficVars' = trafficVars  PROVE UNCHANGED Traffic!vars
  BY <1>3, Zenon DEF trafficVars, Traffic!vars
<1> QED  BY <1>1, <1>2, <1>3, PickedStays

LEMMA TrafficComposed ==
  ServicesConfigured => (ServicesSpec => []((component = "traffic" => Traffic!TypeOK) /\ TrafficStaysUsable))
<1> SUFFICES ASSUME ServicesConfigured
             PROVE  ServicesSpec => []((component = "traffic" => Traffic!TypeOK) /\ TrafficStaysUsable)
  OBVIOUS
<1>1. Traffic!Spec => []Traffic!TypeOK
  BY TrafficTypeCorrect DEF ServicesConfigured
<1>2. Traffic!Spec => []TrafficStaysUsable
  BY TheTrafficStaysUsable DEF ServicesConfigured
<1>3. ~(component = "traffic") => TrafficStaysUsable
  BY DEF TrafficStaysUsable
<1> QED  BY <1>1, <1>2, <1>3, TrafficPicked, PTL DEF ServicesSpec, Traffic!Spec

LEMMA ConsolePicked ==
  /\ ServicesInit /\ component = "console" => Console!Init
  /\ component = "console" /\ [ServicesNext]_servicesVars => [Console!Next]_(Console!vars)
  /\ [ServicesNext]_servicesVars => (component = "console" <=> (component = "console")')
<1>1. ASSUME ServicesInit, component = "console"  PROVE Console!Init
  BY <1>1 DEF ServicesInit
<1>2. ASSUME component = "console", [ServicesNext]_servicesVars
      PROVE  Console!Next \/ consoleVars' = consoleVars
  BY <1>2
     DEF ServicesNext, GatewaySteps, AdmissionSteps, PoliciesSteps, TenantsSteps,
         TimelineSteps, ShutdownSteps, ConsoleSteps, TrafficSteps, ResultsSteps, servicesVars
<1>3. ASSUME consoleVars' = consoleVars  PROVE UNCHANGED Console!vars
  BY <1>3, Zenon DEF consoleVars, Console!vars
<1> QED  BY <1>1, <1>2, <1>3, PickedStays

LEMMA ConsoleComposed ==
  ServicesConfigured => (ServicesSpec => []((component = "console" => Console!TypeOK) /\ PageFollowsConversation))
<1> SUFFICES ASSUME ServicesConfigured
             PROVE  ServicesSpec => []((component = "console" => Console!TypeOK) /\ PageFollowsConversation)
  OBVIOUS
<1>1. Console!Spec => []Console!TypeOK
  BY ConsoleTypeCorrect DEF ServicesConfigured
<1>2. Console!Spec => []PageFollowsConversation
  BY ThePageIsUpToDate DEF ServicesConfigured
<1>3. ~(component = "console") => PageFollowsConversation
  BY DEF PageFollowsConversation
<1> QED  BY <1>1, <1>2, <1>3, ConsolePicked, PTL DEF ServicesSpec, Console!Spec

\* Nothing is attempted while another component is explored.
LEMMA PoliciesPicked ==
  /\ ServicesInit /\ component = "policies" => Init
  /\ component = "policies" /\ [ServicesNext]_servicesVars => [Next]_(vars)
  /\ [ServicesNext]_servicesVars => (component = "policies" <=> (component = "policies")')
<1>1. ASSUME ServicesInit, component = "policies"  PROVE Init
  BY <1>1 DEF ServicesInit
<1>2. ASSUME component = "policies", [ServicesNext]_servicesVars
      PROVE  Next \/ policyVars' = policyVars
  BY <1>2
     DEF ServicesNext, GatewaySteps, AdmissionSteps, PoliciesSteps, TenantsSteps,
         TimelineSteps, ShutdownSteps, ConsoleSteps, TrafficSteps, ResultsSteps, servicesVars
<1>3. ASSUME policyVars' = policyVars  PROVE UNCHANGED vars
  BY <1>3, Zenon DEF policyVars, vars
<1> QED  BY <1>1, <1>2, <1>3, PickedStays

LEMMA PoliciesComposed ==
  ServicesSpec => []((component = "policies" => TypeOK) /\ EveryLayerIsRespected)
<1> DEFINE Resting == attempt = [r \in Run |-> NoAttempt]
<1>1. ServicesInit => component = "policies" \/ Resting
  BY DEF ServicesInit, PoliciesIdle
<1>2. ~(component = "policies") /\ Resting /\ [ServicesNext]_servicesVars => Resting'
  <2> SUFFICES ASSUME ~(component = "policies"), [ServicesNext]_servicesVars
               PROVE  attempt' = attempt
    OBVIOUS
  <2>1. policyVars' = policyVars
    BY DEF ServicesNext, GatewaySteps, AdmissionSteps, PoliciesSteps, TenantsSteps,
           TimelineSteps, ShutdownSteps, ConsoleSteps, TrafficSteps, ResultsSteps, servicesVars
  <2> QED  BY <2>1, Zenon DEF policyVars
<1>3. Resting => EveryLayerIsRespected
  BY DEF NoAttempt, EveryLayerIsRespected
<1> HIDE DEF Resting
<1> QED  BY <1>1, <1>2, <1>3, PoliciesPicked, PoliciesTypeCorrect, LayersAreRespected, PTL
         DEF ServicesSpec, Spec

\* ServicesTypeOK: every component keeps its types, whichever is picked.
THEOREM ServicesTypeCorrect == ServicesConfigured => (ServicesSpec => []ServicesTypeOK)
<1>1. /\ component = "gateway" => Gateway!TypeOK
      /\ component = "admission" => Admission!TypeOK
      /\ component = "policies" => TypeOK
      /\ component = "tenants" => Tenants!TypeOK
      /\ component = "timeline" => Timeline!TypeOK
      /\ component = "shutdown" => Shutdown!TypeOK
      /\ component = "console" => Console!TypeOK
      /\ component = "traffic" => Traffic!TypeOK
      /\ component = "results" => Results!TypeOK
      => ServicesTypeOK
  BY Zenon DEF ServicesTypeOK
<1> QED  BY <1>1, GatewayComposed, AdmissionComposed, PoliciesComposed, TenantsComposed,
            TimelineComposed, ShutdownComposed, ConsoleComposed, TrafficComposed,
            ResultsComposed, PTL

\* What is proved of each component on its own holds of the services as they
\* are explored, whichever of them is picked.
THEOREM ServicesKeepTheirPromises ==
  ServicesConfigured =>
    (ServicesSpec =>
       []( /\ RoutingIsFair /\ AdmissionsAreSound /\ EveryLayerIsRespected
           /\ TenantsStayApart /\ TimelineTellsTheTruth /\ PoolIsDrained
           /\ ResultsAreWhatWasLeft /\ PageFollowsConversation /\ TrafficStaysUsable))
BY GatewayComposed, AdmissionComposed, PoliciesComposed, TenantsComposed, TimelineComposed,
   ShutdownComposed, ConsoleComposed, TrafficComposed, ResultsComposed, PTL
==============================================================================
