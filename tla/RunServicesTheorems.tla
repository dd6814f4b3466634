--------------------------- MODULE RunServicesTheorems ---------------------------
(***************************************************************************)
(* Whose a run is, what is told of it and what serves it: the isolation of *)
(* tenants, the tables that the agent's events are written to, the results *)
(* that are kept of a workspace, the process with its warm pool, and the   *)
(* gateway.  They are components of RunServices, each with a section and   *)
(* an inductive invariant of its own, for every value of the constants.    *)
(***************************************************************************)
EXTENDS RunServices, FiniteSetTheorems, SequenceTheorems, TLAPS

-----------------------------------------------------------------------------
(* TenantAccess *)
\* For every set of tenants, credentials, configurations and handlers.  The
\* invariant is inductive once it also says what a handler that awaits its body
\* has already checked: what was true of the workspace, the conversation or the
\* run when the principal was looked up must still be true when it writes.

StoreState ==
  [profiles : [Tenants!Deployment -> {c.supported : c \in Config} \cup {Null}],
   templates : SUBSET Tenant,
   versions : [Tenant -> Tenants!Deployment \cup {Null}],
   instances : [Tenant -> [state : {"PROVISIONING", "READY"}, profile : Tenants!Deployment]
                            \cup {Null}],
   sessions : [Session -> Tenant \cup {Null}]]

\* Nothing stored depends on what is missing.
Sound(d) ==
  /\ \A s \in Session : d.sessions[s] # Null => d.instances[d.sessions[s]] # Null
  /\ \A t \in Tenant :
       /\ d.instances[t] # Null =>
            d.versions[t] # Null /\ d.profiles[d.instances[t].profile] # Null
       /\ d.versions[t] # Null => t \in d.templates

Ready(d) == \A t \in Tenant : d.instances[t] # Null => d.instances[t].state = "READY"

\* A session that belongs to somebody keeps its owner.
KeepsOwners(d, e) == \A s \in Session : d.sessions[s] # Null => e.sessions[s] = d.sessions[s]

OwnsWorkspace(x) ==
  /\ x.tenant \in Tenant /\ x.workspace \in TenantWorkspace
  /\ workspaces[x.workspace] = x.tenant

StoreInv ==
  /\ config \in Config
  /\ store \in StoreState /\ Sound(store) /\ Ready(store)

WorkspaceInv ==
  /\ workspaces \in [TenantWorkspace -> Tenant \cup {Null}]
  /\ conversations = [s \in Session |-> conversations[s]]
  /\ \A s \in Session : conversations[s] # Null => OwnsWorkspace(conversations[s])

RunInv ==
  /\ runs \in Seq([tenant : Tenant, session : Session, workspace : TenantWorkspace])
  /\ \A i \in 1..Len(runs) :
       OwnsWorkspace(runs[i]) /\ store.sessions[runs[i].session] = runs[i].tenant

\* What a handler x that awaits its body, or a hash, has checked.
Checked(x) ==
  /\ x.kind = "workspace" => x.tenant \in Tenant
  /\ x.kind \in {"conversation", "message"} => OwnsWorkspace(x)
  /\ x.kind = "message" => x.session \in Session
  /\ x.kind \in {"resume", "resolve"} =>
       x.run \in 1..Len(runs) /\ runs[x.run].tenant = x.tenant

RequestInv ==
  /\ request = [q \in Request |-> request[q]]
  /\ \A q \in Request : Checked(request[q])

TenantsIInv == StoreInv /\ WorkspaceInv /\ RunInv /\ RequestInv /\ action # "foreign"

\* The writes of the control plane.

\* Each write of DefaultPiControlPlane.resolve keeps the store sound, given what
\* resolve has checked before it, and takes no session from its owner.
LEMMA SaveProfileEffect ==
  ASSUME Tenants!Configured, config \in Config, NEW d \in StoreState, Sound(d), NEW e,
         e = Tenants!SaveProfile(d)
  PROVE  /\ e \in StoreState /\ Sound(e)
         /\ e.sessions = d.sessions /\ e.versions = d.versions
         /\ e.instances = d.instances /\ e.templates = d.templates
         /\ e.profiles[config.deployment] # Null
<1>1. config.deployment \in Tenants!Deployment /\ config.supported \in {c.supported : c \in Config}
  BY DEF Tenants!Deployment
<1>2. /\ e \in StoreState
      /\ e.profiles = [d.profiles EXCEPT ![config.deployment] = config.supported]
      /\ e.sessions = d.sessions /\ e.versions = d.versions
      /\ e.instances = d.instances /\ e.templates = d.templates
  BY <1>1 DEF Tenants!SaveProfile, StoreState
<1>3. /\ d.profiles \in [Tenants!Deployment -> {c.supported : c \in Config} \cup {Null}]
      /\ config.supported # Null
  BY DEF StoreState, Tenants!Configured
<1>4. /\ e.profiles[config.deployment] # Null
      /\ \A p \in Tenants!Deployment : d.profiles[p] # Null => e.profiles[p] # Null
  BY <1>1, <1>2, <1>3
<1>5. \A t \in Tenant : d.instances[t] # Null => d.instances[t].profile \in Tenants!Deployment
  BY DEF StoreState
<1> QED  BY <1>2, <1>4, <1>5 DEF Sound

LEMMA CreateTemplateEffect ==
  ASSUME NEW d \in StoreState, Sound(d), NEW t \in Tenant, NEW e, e = Tenants!CreateTemplate(d, t)
  PROVE  /\ e \in StoreState /\ Sound(e)
         /\ e.sessions = d.sessions /\ e.versions = d.versions
         /\ e.instances = d.instances /\ e.profiles = d.profiles
         /\ t \in e.templates
<1>1. /\ e \in StoreState
      /\ e.templates = d.templates \cup {t}
      /\ e.sessions = d.sessions /\ e.versions = d.versions
      /\ e.instances = d.instances /\ e.profiles = d.profiles
  BY DEF Tenants!CreateTemplate, StoreState
<1> QED  BY <1>1 DEF Sound

LEMMA PublishVersionEffect ==
  ASSUME Tenants!Configured, config \in Config, NEW d \in StoreState, Sound(d), NEW t \in Tenant,
         t \in d.templates, NEW e, e = Tenants!PublishVersion(d, t)
  PROVE  /\ e \in StoreState /\ Sound(e)
         /\ e.sessions = d.sessions /\ e.instances = d.instances
         /\ e.profiles = d.profiles /\ e.versions[t] # Null
<1>1. config.deployment \in Tenants!Deployment /\ config.deployment # Null
  BY DEF Tenants!Deployment, Tenants!Configured
<1>2. /\ e \in StoreState
      /\ e.versions = [d.versions EXCEPT ![t] = config.deployment]
      /\ e.sessions = d.sessions /\ e.templates = d.templates
      /\ e.instances = d.instances /\ e.profiles = d.profiles
  BY <1>1 DEF Tenants!PublishVersion, StoreState
<1>3. d.versions \in [Tenant -> Tenants!Deployment \cup {Null}]
  BY DEF StoreState
<1>4. e.versions[t] # Null /\ \A u \in Tenant \ {t} : e.versions[u] = d.versions[u]
  BY <1>1, <1>2, <1>3
<1> QED  BY <1>2, <1>4 DEF Sound

LEMMA CreateInstanceEffect ==
  ASSUME Tenants!Configured, config \in Config, NEW d \in StoreState, Sound(d), NEW t \in Tenant,
         d.versions[t] # Null, d.profiles[config.deployment] # Null,
         NEW e, e = Tenants!CreateInstance(d, t)
  PROVE  /\ e \in StoreState /\ Sound(e)
         /\ e.sessions = d.sessions /\ e.versions = d.versions
         /\ e.profiles = d.profiles /\ e.templates = d.templates
         /\ e.instances[t] # Null
         /\ \A u \in Tenant \ {t} : e.instances[u] = d.instances[u]
<1> DEFINE Instances == [state : {"PROVISIONING", "READY"}, profile : Tenants!Deployment]
<1>1. /\ Tenants!NewInstance \in Instances /\ Tenants!NewInstance.profile = config.deployment
      /\ Tenants!NewInstance # Null
  BY DEF Tenants!NewInstance, Tenants!Deployment, Tenants!Configured
<1>2. /\ e \in StoreState
      /\ e.instances = [d.instances EXCEPT ![t] = Tenants!NewInstance]
      /\ e.sessions = d.sessions /\ e.templates = d.templates
      /\ e.versions = d.versions /\ e.profiles = d.profiles
  BY <1>1 DEF Tenants!CreateInstance, StoreState
<1>3. d.instances \in [Tenant -> Instances \cup {Null}]
  BY DEF StoreState
<1> HIDE DEF Instances
<1>4. /\ e.instances[t] = Tenants!NewInstance
      /\ \A u \in Tenant \ {t} : e.instances[u] = d.instances[u]
  BY <1>2, <1>3
<1>5. d.sessions \in [Session -> Tenant \cup {Null}]
  BY DEF StoreState
<1>6. Sound(e)
  BY <1>1, <1>2, <1>4, <1>5 DEF Sound
<1> QED  BY <1>1, <1>2, <1>4, <1>6

LEMMA TransitionInstanceEffect ==
  ASSUME Tenants!Configured, NEW d \in StoreState, Sound(d), NEW t \in Tenant,
         d.instances[t] # Null, NEW e, e = Tenants!TransitionInstance(d, t, "READY")
  PROVE  /\ e \in StoreState /\ Sound(e) /\ e.sessions = d.sessions
         /\ e.instances[t] # Null /\ e.instances[t].state = "READY"
         /\ \A u \in Tenant \ {t} : e.instances[u] = d.instances[u]
<1> DEFINE Instances == [state : {"PROVISIONING", "READY"}, profile : Tenants!Deployment]
<1>1. d.instances \in [Tenant -> Instances \cup {Null}] /\ d.instances[t] \in Instances
  BY DEF StoreState
<1>2. PICK x : x = [d.instances[t] EXCEPT !.state = "READY"]
  OBVIOUS
<1>3. x \in Instances /\ x.state = "READY" /\ x.profile = d.instances[t].profile
  BY <1>1, <1>2
<1>4. x # Null
  BY <1>3 DEF Tenants!Configured, Tenants!Deployment
<1>5. e = [d EXCEPT !.instances = [d.instances EXCEPT ![t] = x]]
  BY <1>2 DEF Tenants!TransitionInstance
<1>6. /\ e \in StoreState
      /\ e.instances = [d.instances EXCEPT ![t] = x]
      /\ e.sessions = d.sessions /\ e.templates = d.templates
      /\ e.versions = d.versions /\ e.profiles = d.profiles
  BY <1>1, <1>3, <1>5 DEF StoreState
<1> HIDE DEF Instances
<1>7. e.instances[t] = x /\ \A u \in Tenant \ {t} : e.instances[u] = d.instances[u]
  BY <1>1, <1>6
<1>8. d.sessions \in [Session -> Tenant \cup {Null}]
  BY DEF StoreState
<1>9. Sound(e)
  BY <1>3, <1>4, <1>6, <1>7, <1>8 DEF Sound
<1> QED  BY <1>3, <1>4, <1>6, <1>7, <1>9

LEMMA CreateSessionEffect ==
  ASSUME NEW d \in StoreState, Sound(d), NEW t \in Tenant, NEW s \in Session,
         d.instances[t] # Null, NEW e, e = Tenants!CreateSession(d, s, t)
  PROVE  /\ e \in StoreState /\ Sound(e)
         /\ e.instances = d.instances /\ e.sessions[s] = t
         /\ \A r \in Session \ {s} : e.sessions[r] = d.sessions[r]
<1>1. /\ e \in StoreState
      /\ e.sessions = [d.sessions EXCEPT ![s] = t]
      /\ e.templates = d.templates /\ e.instances = d.instances
      /\ e.versions = d.versions /\ e.profiles = d.profiles
  BY DEF Tenants!CreateSession, StoreState
<1>2. e.sessions[s] = t /\ \A r \in Session \ {s} : e.sessions[r] = d.sessions[r]
  BY <1>1 DEF StoreState
<1> QED  BY <1>1, <1>2 DEF Sound

\* What a sequence of writes leaves when only the first n are reached.
LEMMA ReachedWrites ==
  ASSUME NEW E, NEW u \in Seq(E), NEW n \in 0..Len(u), NEW x \in E, NEW w, w = SubSeq(u, 1, n)
  PROVE  /\ Len(w) = n
         /\ \A y \in Tenants!ToSet(w) : \E i \in 1..n : y = u[i]
         /\ Tenants!Last(<<x>> \o w) = IF n = 0 THEN x ELSE u[n]
<1>1. w \in Seq(E) /\ Len(w) = n /\ \A i \in 1..n : w[i] = u[i]
  OBVIOUS
<1>2. DOMAIN w = 1..n
  BY <1>1
<1>3. \A y \in Tenants!ToSet(w) : \E i \in 1..n : y = u[i]
  BY <1>1, <1>2 DEF Tenants!ToSet
<1>4. Len(<<x>> \o w) = n + 1
  BY <1>1
<1>5. (<<x>> \o w)[n + 1] = IF n = 0 THEN x ELSE w[n]
  BY <1>1
<1>6. n # 0 => w[n] = u[n]
  BY <1>1
<1> QED  BY <1>1, <1>3, <1>4, <1>5, <1>6 DEF Tenants!Last

\* Wherever resolve stops, or the process dies between two of its writes, the
\* store is sound and no session has changed hands; when it returns, its own
\* instance is READY, and the session is the tenant's if all was well.
LEMMA WritesEffect ==
  ASSUME Tenants!Configured, StoreInv, NEW t \in Tenant, NEW s \in Session
  PROVE  /\ \A d \in Tenants!ToSet(Tenants!Writes(t, s)) :
              d \in StoreState /\ Sound(d) /\ KeepsOwners(store, d)
         /\ \A d : d = Tenants!Last(<<store>> \o Tenants!Writes(t, s)) =>
              /\ d \in StoreState /\ Sound(d) /\ Ready(d) /\ KeepsOwners(store, d)
              /\ Tenants!Resolved(t, s) => d.sessions[s] = t
<1> DEFINE made     == t \in store.templates
           instance == store.instances[t] # Null
<1>1. PICK d1 : d1 = Tenants!SaveProfile(store)
  OBVIOUS
<1>2. PICK d2 : d2 = IF made THEN d1 ELSE Tenants!CreateTemplate(d1, t)
  OBVIOUS
<1>3. PICK d3 : d3 = IF made THEN d2 ELSE Tenants!PublishVersion(d2, t)
  OBVIOUS
<1>4. PICK d4 : d4 = IF instance THEN d3 ELSE Tenants!CreateInstance(d3, t)
  OBVIOUS
<1>5. PICK d5 : d5 = IF instance THEN d4 ELSE Tenants!TransitionInstance(d4, t, "READY")
  OBVIOUS
<1>6. PICK d6 : d6 = IF d5.sessions[s] = Null THEN Tenants!CreateSession(d5, s, t) ELSE d5
  OBVIOUS
<1>7. PICK reached : reached =
        IF ~Tenants!ProfileAgrees(store) THEN 0
        ELSE IF ~made /\ ~Tenants!ValidVersion THEN 2
        ELSE IF ~instance /\ d3.versions[t] = Null THEN 3
        ELSE IF ~Tenants!OwnsSession(d5, t, s) THEN 5
        ELSE 6
  OBVIOUS
<1>8. Tenants!Writes(t, s) = SubSeq(<<d1, d2, d3, d4, d5, d6>>, 1, reached)
  BY <1>1, <1>2, <1>3, <1>4, <1>5, <1>6, <1>7 DEF Tenants!Writes
<1>9. store \in StoreState /\ Sound(store) /\ Ready(store) /\ config \in Config
  BY DEF StoreInv
<1>10. /\ d1 \in StoreState /\ Sound(d1) /\ d1.sessions = store.sessions
       /\ d1.instances = store.instances /\ d1.versions = store.versions
       /\ d1.templates = store.templates /\ d1.profiles[config.deployment] # Null
  BY <1>1, <1>9, SaveProfileEffect
<1>11. /\ d2 \in StoreState /\ Sound(d2) /\ d2.sessions = store.sessions
       /\ d2.instances = store.instances /\ d2.profiles[config.deployment] # Null
       /\ t \in d2.templates
  BY <1>2, <1>10, CreateTemplateEffect
<1>12. /\ d3 \in StoreState /\ Sound(d3) /\ d3.sessions = store.sessions
       /\ d3.instances = store.instances /\ d3.profiles[config.deployment] # Null
  BY <1>3, <1>9, <1>11, PublishVersionEffect
<1>13. ASSUME instance \/ d3.versions[t] # Null
       PROVE  /\ d4 \in StoreState /\ Sound(d4) /\ d4.sessions = store.sessions
              /\ d4.instances[t] # Null
              /\ \A u \in Tenant \ {t} : d4.instances[u] = store.instances[u]
              /\ instance => d4.instances = store.instances
  <2>1. CASE instance
    BY <1>4, <1>12, <2>1
  <2>2. CASE ~instance
    BY <1>4, <1>9, <1>12, <1>13, <2>2, CreateInstanceEffect
  <2> QED  BY <2>1, <2>2
<1>14. ASSUME instance \/ d3.versions[t] # Null
       PROVE  /\ d5 \in StoreState /\ Sound(d5) /\ Ready(d5) /\ d5.sessions = store.sessions
              /\ d5.instances[t] # Null
  <2>1. CASE instance
    BY <1>5, <1>9, <1>13, <1>14, <2>1 DEF Ready
  <2>2. CASE ~instance
    <3>1. /\ d5 \in StoreState /\ Sound(d5) /\ d5.sessions = d4.sessions
          /\ d5.instances[t] # Null /\ d5.instances[t].state = "READY"
          /\ \A u \in Tenant \ {t} : d5.instances[u] = d4.instances[u]
      BY <1>5, <1>13, <1>14, <2>2, TransitionInstanceEffect
    <3> QED  BY <1>9, <1>13, <1>14, <3>1 DEF Ready
  <2> QED  BY <2>1, <2>2
<1>15. ASSUME instance \/ d3.versions[t] # Null, Tenants!OwnsSession(d5, t, s)
       PROVE  /\ d6 \in StoreState /\ Sound(d6) /\ Ready(d6) /\ d6.sessions[s] = t
              /\ KeepsOwners(store, d6)
  <2>1. CASE d5.sessions[s] = Null
    <3>1. /\ d6 \in StoreState /\ Sound(d6) /\ d6.instances = d5.instances
          /\ d6.sessions[s] = t
          /\ \A r \in Session \ {s} : d6.sessions[r] = d5.sessions[r]
      BY <1>6, <1>14, <1>15, <2>1, CreateSessionEffect
    <3> QED  BY <1>14, <1>15, <2>1, <3>1 DEF Ready, KeepsOwners
  <2>2. CASE d5.sessions[s] # Null
    BY <1>6, <1>14, <1>15, <2>2 DEF Tenants!OwnsSession, KeepsOwners
  <2> QED  BY <2>1, <2>2
<1>16. /\ KeepsOwners(store, d1) /\ KeepsOwners(store, d2) /\ KeepsOwners(store, d3)
       /\ Ready(d2) /\ Ready(d3)
  BY <1>9, <1>10, <1>11, <1>12 DEF KeepsOwners, Ready
<1>17. ASSUME instance \/ d3.versions[t] # Null
       PROVE  KeepsOwners(store, d4) /\ KeepsOwners(store, d5)
  BY <1>13, <1>14, <1>17 DEF KeepsOwners
<1> DEFINE u == <<d1, d2, d3, d4, d5, d6>>
           E == {store, d1, d2, d3, d4, d5, d6}
<1>18. /\ u \in Seq(E) /\ Len(u) = 6 /\ store \in E
       /\ u[1] = d1 /\ u[2] = d2 /\ u[3] = d3 /\ u[4] = d4 /\ u[5] = d5 /\ u[6] = d6
  OBVIOUS
<1>19. /\ reached \in {0, 2, 3, 5, 6}
       /\ reached >= 5 => instance \/ d3.versions[t] # Null
       /\ reached = 6 => Tenants!OwnsSession(d5, t, s)
  BY <1>7
<1>20. reached \in 0..Len(u)
  BY <1>18, <1>19
<1> HIDE DEF u, E, made, instance
<1>21. /\ Len(Tenants!Writes(t, s)) = reached
       /\ \A y \in Tenants!ToSet(Tenants!Writes(t, s)) : \E i \in 1..reached : y = u[i]
       /\ Tenants!Last(<<store>> \o Tenants!Writes(t, s)) = IF reached = 0 THEN store ELSE u[reached]
  <2>1. Tenants!Writes(t, s) = SubSeq(u, 1, reached)
    BY <1>8 DEF u
  <2>2. PICK x, w : x = store /\ w = Tenants!Writes(t, s)
    OBVIOUS
  <2>3. x \in E /\ w = SubSeq(u, 1, reached)
    BY <1>18, <2>1, <2>2
  <2>4. PICK v, T : v = u /\ T = E
    OBVIOUS
  <2>5. v \in Seq(T) /\ reached \in 0..Len(v) /\ x \in T /\ w = SubSeq(v, 1, reached)
    BY <1>18, <1>20, <2>3, <2>4
  <2>6. /\ Len(w) = reached
        /\ \A y \in Tenants!ToSet(w) : \E i \in 1..reached : y = v[i]
        /\ Tenants!Last(<<x>> \o w) = IF reached = 0 THEN x ELSE v[reached]
    <3>1. Len(w) = reached
      BY ONLY <2>5, ReachedWrites
    <3>2. \A y \in Tenants!ToSet(w) : \E i \in 1..reached : y = v[i]
      BY ONLY <2>5, ReachedWrites DEF Tenants!ToSet
    <3>3. Tenants!Last(<<x>> \o w) = IF reached = 0 THEN x ELSE v[reached]
      BY ONLY <2>5, ReachedWrites DEF Tenants!Last
    <3> QED  BY <3>1, <3>2, <3>3
  <2> QED  BY <2>2, <2>4, <2>6
<1>22. \A i \in 1..reached : u[i] \in StoreState /\ Sound(u[i]) /\ KeepsOwners(store, u[i])
  <2>1. ASSUME NEW i \in 1..reached
        PROVE  u[i] \in StoreState /\ Sound(u[i]) /\ KeepsOwners(store, u[i])
    <3>1. i \in {1, 2, 3} \/ (i \in {4, 5} /\ reached >= 5) \/ (i = 6 /\ reached = 6)
      BY <1>19
    <3>2. CASE i \in {1, 2, 3}
      BY <1>10, <1>11, <1>12, <1>16, <1>18, <3>2
    <3>3. CASE i \in {4, 5} /\ reached >= 5
      BY <1>13, <1>14, <1>17, <1>18, <1>19, <3>3
    <3>4. CASE i = 6 /\ reached = 6
      BY <1>15, <1>18, <1>19, <3>4
    <3> QED  BY <3>1, <3>2, <3>3, <3>4
  <2> QED  BY <2>1
<1>23. ASSUME NEW d, d = Tenants!Last(<<store>> \o Tenants!Writes(t, s))
       PROVE  /\ d \in StoreState /\ Sound(d) /\ Ready(d) /\ KeepsOwners(store, d)
              /\ Tenants!Resolved(t, s) => d.sessions[s] = t
  <2>1. CASE reached = 0
    BY <1>9, <1>21, <1>23, <2>1 DEF KeepsOwners, Tenants!Resolved
  <2>2. CASE reached = 2
    BY <1>11, <1>16, <1>18, <1>21, <1>23, <2>2 DEF Tenants!Resolved
  <2>3. CASE reached = 3
    BY <1>12, <1>16, <1>18, <1>21, <1>23, <2>3 DEF Tenants!Resolved
  <2>4. CASE reached = 5
    BY <1>14, <1>17, <1>18, <1>19, <1>21, <1>23, <2>4 DEF Tenants!Resolved
  <2>5. CASE reached = 6
    BY <1>15, <1>18, <1>19, <1>21, <1>23, <2>5 DEF Tenants!Resolved
  <2> QED  BY <1>19, <2>1, <2>2, <2>3, <2>4, <2>5
<1>24. \A d \in Tenants!ToSet(Tenants!Writes(t, s)) :
         d \in StoreState /\ Sound(d) /\ KeepsOwners(store, d)
  BY <1>21, <1>22
<1> QED  BY <1>23, <1>24

\* The steps.

\* A handler that starts or ends to wait leaves the others as they are.
LEMMA HandlerEffect ==
  ASSUME RequestInv, NEW q \in Request, NEW handler,
         request' = [request EXCEPT ![q] = handler]
  PROVE  /\ request' = [p \in Request |-> request'[p]]
         /\ \A p \in Request \ {q} : request'[p] = request[p]
         /\ request'[q] = handler
<1>1. request = [p \in Request |-> request[p]]
  BY DEF RequestInv
<1> QED  BY <1>1

\* Nothing that a handler, a run or a conversation is bound to is taken from it
\* by a step that changes what is unowned and adds runs.
LEMMA BindingsKept ==
  ASSUME Tenants!Configured, NEW x,
         \A w \in TenantWorkspace : workspaces[w] # Null => workspaces'[w] = workspaces[w],
         Len(runs) \in Nat, Len(runs') \in Nat, Len(runs') >= Len(runs),
         \A i \in 1..Len(runs) : runs'[i] = runs[i]
  PROVE  /\ OwnsWorkspace(x) => OwnsWorkspace(x)'
         /\ Checked(x) => Checked(x)'
<1>1. OwnsWorkspace(x) => OwnsWorkspace(x)'
  BY DEF OwnsWorkspace, Tenants!Configured
<1>2. ASSUME NEW i \in 1..Len(runs)  PROVE i \in 1..Len(runs') /\ runs'[i] = runs[i]
  OBVIOUS
<1> QED  BY <1>1, <1>2 DEF Checked

LEMMA IdleIsChecked == Checked(Tenants!Idle)
BY DEF Checked, Tenants!Idle

\* Nothing that the invariant speaks of changes.
LEMMA NothingMoves ==
  ASSUME StoreInv, WorkspaceInv, RunInv, RequestInv,
         UNCHANGED <<config, store, workspaces, conversations, runs, request>>
  PROVE  StoreInv' /\ WorkspaceInv' /\ RunInv' /\ RequestInv'
BY DEF StoreInv, WorkspaceInv, RunInv, RequestInv, Checked, OwnsWorkspace, Sound, Ready, StoreState

\* A handler q starts to wait or ends, and nothing is stored.
LEMMA HandlerMoves ==
  ASSUME StoreInv, WorkspaceInv, RunInv, RequestInv,
         NEW q \in Request, NEW handler, Checked(handler),
         request' = [request EXCEPT ![q] = handler],
         UNCHANGED <<config, store, workspaces, conversations, runs>>
  PROVE  StoreInv' /\ WorkspaceInv' /\ RunInv' /\ RequestInv'
<1>1. StoreInv' /\ WorkspaceInv' /\ RunInv'
  BY DEF StoreInv, WorkspaceInv, RunInv, OwnsWorkspace, Sound, Ready, StoreState
<1>2. /\ request' = [p \in Request |-> request'[p]]
      /\ \A p \in Request \ {q} : request'[p] = request[p]
      /\ request'[q] = handler
  BY HandlerEffect
<1>3. ASSUME NEW p \in Request  PROVE Checked(request[p])'
  <2>1. PICK x : x = request'[p] /\ Checked(x)
    BY <1>2 DEF RequestInv
  <2>2. Checked(x)'
    BY <2>1 DEF Checked, OwnsWorkspace
  <2> QED  BY <2>1, <2>2 DEF Checked, OwnsWorkspace
<1> QED  BY <1>1, <1>2, <1>3 DEF RequestInv

\* A workspace or a conversation is created for the handler q.
LEMMA Created ==
  ASSUME Tenants!Configured, StoreInv, WorkspaceInv, RunInv, RequestInv, NEW q \in Request,
         Tenants!CreateWorkspace(q) \/ Tenants!CreateConversation(q)
  PROVE  StoreInv' /\ WorkspaceInv' /\ RunInv' /\ RequestInv'
<1>1. /\ request' = [request EXCEPT ![q] = Tenants!Idle]
      /\ UNCHANGED <<config, store, runs>>
      /\ \/ /\ request[q].kind = "workspace" /\ conversations' = conversations
            /\ \E w \in TenantWorkspace :
                 /\ workspaces[w] = Null
                 /\ workspaces' = [workspaces EXCEPT ![w] = request[q].tenant]
         \/ /\ request[q].kind = "conversation" /\ workspaces' = workspaces
            /\ \E s \in Session :
                 conversations' = [conversations EXCEPT ![s] =
                   [tenant |-> request[q].tenant, workspace |-> request[q].workspace]]
  BY DEF Tenants!CreateWorkspace, Tenants!CreateConversation
<1>2. Checked(request[q])
  BY DEF RequestInv
<1>3. /\ workspaces' \in [TenantWorkspace -> Tenant \cup {Null}]
      /\ \A w \in TenantWorkspace : workspaces[w] # Null => workspaces'[w] = workspaces[w]
  BY <1>1, <1>2 DEF Checked, WorkspaceInv
<1>4. Len(runs) \in Nat /\ Len(runs') = Len(runs) /\ \A i \in 1..Len(runs) : runs'[i] = runs[i]
  BY <1>1 DEF RunInv
<1>5. StoreInv'
  BY <1>1 DEF StoreInv, Sound, Ready, StoreState
<1>6. RunInv'
  BY <1>1, <1>3 DEF RunInv, OwnsWorkspace, Tenants!Configured
<1>7. RequestInv'
  <2>1. /\ request' = [p \in Request |-> request'[p]]
        /\ \A p \in Request \ {q} : request'[p] = request[p]
        /\ request'[q] = Tenants!Idle
    BY <1>1, HandlerEffect
  <2>2. ASSUME NEW p \in Request  PROVE Checked(request[p])'
    <3>1. PICK x : x = request'[p] /\ Checked(x)
      BY <2>1, IdleIsChecked DEF RequestInv
    <3>2. Checked(x)'
      BY <1>3, <1>4, <3>1, BindingsKept
    <3> QED  BY <3>1, <3>2 DEF Checked, OwnsWorkspace
  <2> QED  BY <2>1, <2>2 DEF RequestInv
<1>8. WorkspaceInv'
  <2>1. conversations' = [s \in Session |-> conversations'[s]]
    BY <1>1 DEF WorkspaceInv
  <2>2. ASSUME NEW s \in Session, conversations'[s] # Null
        PROVE  OwnsWorkspace(conversations[s])'
    <3>1. CASE conversations'[s] = conversations[s]
      BY <1>3, <2>2, <3>1 DEF WorkspaceInv, OwnsWorkspace, Tenants!Configured
    <3>2. CASE /\ request[q].kind = "conversation" /\ workspaces' = workspaces
               /\ conversations'[s] =
                     [tenant |-> request[q].tenant, workspace |-> request[q].workspace]
      BY <1>2, <3>2 DEF Checked, OwnsWorkspace
    <3> QED  BY <1>1, <3>1, <3>2 DEF WorkspaceInv
  <2> QED  BY <1>3, <2>1, <2>2 DEF WorkspaceInv
<1> QED  BY <1>5, <1>6, <1>7, <1>8

\* What runs are bound to is kept by a store in which no session changed hands.
LEMMA SessionsKept ==
  ASSUME Tenants!Configured, RunInv, NEW d, KeepsOwners(store, d), NEW i \in 1..Len(runs)
  PROVE  d.sessions[runs[i].session] = runs[i].tenant
<1>1. runs[i].session \in Session /\ runs[i].tenant \in Tenant
  <2> DEFINE Runs == [tenant : Tenant, session : Session, workspace : TenantWorkspace]
  <2>1. runs \in Seq(Runs)
    BY DEF RunInv
  <2>2. runs[i] \in Runs
    <3> HIDE DEF Runs
    <3> QED  BY <2>1
  <2> QED  BY <2>2
<1>2. store.sessions[runs[i].session] = runs[i].tenant
  BY DEF RunInv
<1> QED  BY <1>1, <1>2 DEF KeepsOwners, Tenants!Configured

\* createQueuedRun, whether it adds a run or refuses it half way.
LEMMA Submitted ==
  ASSUME Tenants!Configured, StoreInv, WorkspaceInv, RunInv,
         NEW t \in Tenant, NEW s \in Session, NEW w \in TenantWorkspace, workspaces[w] = t,
         Tenants!SubmitAs(t, s, w), UNCHANGED <<config, workspaces, conversations>>
  PROVE  /\ StoreInv' /\ WorkspaceInv' /\ RunInv'
         /\ Len(runs) \in Nat /\ Len(runs') \in Nat /\ Len(runs') >= Len(runs)
         /\ \A i \in 1..Len(runs) : runs'[i] = runs[i]
         /\ Tenants!Resolved(t, s) => runs'[Len(runs) + 1].tenant = t
<1>1. PICK d : d = Tenants!Last(<<store>> \o Tenants!Writes(t, s))
  OBVIOUS
<1>2. /\ d \in StoreState /\ Sound(d) /\ Ready(d) /\ KeepsOwners(store, d)
      /\ Tenants!Resolved(t, s) => d.sessions[s] = t
  BY <1>1, WritesEffect
<1>3. store' = d
  BY <1>1 DEF Tenants!SubmitAs
<1>4. StoreInv'
  BY <1>2, <1>3 DEF StoreInv, Sound, Ready, StoreState
<1>5. WorkspaceInv'
  BY DEF WorkspaceInv, OwnsWorkspace
<1>6. runs \in Seq([tenant : Tenant, session : Session, workspace : TenantWorkspace])
  BY DEF RunInv
<1>7. CASE ~Tenants!Resolved(t, s)
  <2>1. runs' = runs
    BY <1>7 DEF Tenants!SubmitAs
  <2>2. RunInv'
    BY <1>2, <1>3, <2>1, SessionsKept DEF RunInv, OwnsWorkspace
  <2> QED  BY <1>4, <1>5, <1>6, <1>7, <2>1, <2>2
<1>8. CASE Tenants!Resolved(t, s)
  <2>1. PICK r : r = [tenant |-> t, session |-> s, workspace |-> w]
    OBVIOUS
  <2>2. r \in [tenant : Tenant, session : Session, workspace : TenantWorkspace]
    BY <2>1
  <2>3. runs' = Append(runs, r)
    BY <1>8, <2>1 DEF Tenants!SubmitAs
  <2>4. /\ runs' \in Seq([tenant : Tenant, session : Session, workspace : TenantWorkspace])
        /\ Len(runs') = Len(runs) + 1 /\ runs'[Len(runs) + 1] = r
        /\ \A i \in 1..Len(runs) : runs'[i] = runs[i]
    BY <1>6, <2>2, <2>3
  <2>5. ASSUME NEW i \in 1..Len(runs')
        PROVE  OwnsWorkspace(runs[i])' /\ store'.sessions[runs'[i].session] = runs'[i].tenant
    <3>1. CASE i \in 1..Len(runs)
      <4>1. OwnsWorkspace(runs[i])
        BY <3>1 DEF RunInv
      <4>2. runs'[i] = runs[i]
        BY <2>4, <3>1
      <4> QED  BY <1>2, <1>3, <3>1, <4>1, <4>2, SessionsKept DEF OwnsWorkspace
    <3>2. CASE i = Len(runs) + 1
      BY <1>2, <1>3, <1>8, <2>1, <2>4, <3>2 DEF OwnsWorkspace
    <3>3. i \in 1..Len(runs) \/ i = Len(runs) + 1
      BY <1>6, <2>4
    <3> QED  BY <3>1, <3>2, <3>3
  <2>6. RunInv'
    BY <2>4, <2>5 DEF RunInv
  <2>7. Len(runs) \in Nat
    BY <1>6
  <2>8. runs'[Len(runs) + 1].tenant = t
    BY <2>1, <2>4
  <2> QED  BY <1>4, <1>5, <2>4, <2>6, <2>7, <2>8
<1> QED  BY <1>7, <1>8

LEMMA ReconciledEffect ==
  ASSUME Tenants!Configured, NEW d \in StoreState, Sound(d), NEW e, e = Tenants!Reconciled(d)
  PROVE  e \in StoreState /\ Sound(e) /\ Ready(e) /\ e.sessions = d.sessions
<1> DEFINE Instances == [state : {"PROVISIONING", "READY"}, profile : Tenants!Deployment]
<1>1. PICK f : f = [t \in Tenant |-> IF d.instances[t] = Null THEN Null
                                     ELSE [d.instances[t] EXCEPT !.state = "READY"]]
  OBVIOUS
<1>2. d.instances \in [Tenant -> Instances \cup {Null}]
  BY DEF StoreState
<1>3. Null \notin Instances
  BY DEF Tenants!Configured, Tenants!Deployment
<1>4. ASSUME NEW t \in Tenant
      PROVE  /\ d.instances[t] = Null => f[t] = Null
             /\ d.instances[t] # Null =>
                  /\ f[t] \in Instances /\ f[t].state = "READY"
                  /\ f[t].profile = d.instances[t].profile
  BY <1>1, <1>2
<1>5. f \in [Tenant -> Instances \cup {Null}]
  <2> HIDE DEF Instances
  <2>1. f = [t \in Tenant |-> f[t]]
    BY <1>1
  <2>2. \A t \in Tenant : f[t] \in Instances \cup {Null}
    BY <1>4
  <2> QED  BY <2>1, <2>2
<1>6. e = [d EXCEPT !.instances = f]
  BY <1>1 DEF Tenants!Reconciled
<1>7. /\ e \in StoreState /\ e.instances = f
      /\ e.sessions = d.sessions /\ e.templates = d.templates
      /\ e.versions = d.versions /\ e.profiles = d.profiles
  BY <1>5, <1>6 DEF StoreState
<1>8. d.sessions \in [Session -> Tenant \cup {Null}]
  BY DEF StoreState
<1> HIDE DEF Instances
<1>9. \A t \in Tenant : /\ f[t] # Null <=> d.instances[t] # Null
                        /\ f[t] # Null => /\ f[t].state = "READY"
                                          /\ f[t].profile = d.instances[t].profile
  BY <1>3, <1>4
<1>10. Sound(e)
  BY <1>7, <1>8, <1>9 DEF Sound
<1>11. Ready(e)
  BY <1>7, <1>9 DEF Ready
<1> QED  BY <1>7, <1>10, <1>11

LEMMA Restarted ==
  ASSUME Tenants!Configured, StoreInv, WorkspaceInv, RunInv, Tenants!Restart
  PROVE  StoreInv' /\ WorkspaceInv' /\ RunInv' /\ RequestInv'
<1>1. /\ config' \in Config /\ request' = [q \in Request |-> Tenants!Idle]
      /\ UNCHANGED <<workspaces, conversations, runs>>
  BY DEF Tenants!Restart
<1>2. PICK d \in StoreState : Sound(d) /\ KeepsOwners(store, d) /\ store' = Tenants!Reconciled(d)
  <2>1. CASE store' = Tenants!Reconciled(store)
    BY <2>1 DEF StoreInv, KeepsOwners
  <2>2. CASE \E t \in Tenant, s \in Session :
               \E d \in Tenants!ToSet(Tenants!Writes(t, s)) : store' = Tenants!Reconciled(d)
    <3>1. PICK t \in Tenant, s \in Session :
            \E d \in Tenants!ToSet(Tenants!Writes(t, s)) : store' = Tenants!Reconciled(d)
      BY <2>2
    <3>2. PICK d \in Tenants!ToSet(Tenants!Writes(t, s)) : store' = Tenants!Reconciled(d)
      BY <3>1
    <3>3. d \in StoreState /\ Sound(d) /\ KeepsOwners(store, d)
      BY WritesEffect
    <3> QED  BY <3>2, <3>3
  <2> QED  BY <2>1, <2>2 DEF Tenants!Restart
<1>3. PICK e : e = store'
  OBVIOUS
<1>4. e \in StoreState /\ Sound(e) /\ Ready(e) /\ e.sessions = d.sessions
  BY <1>2, <1>3, ReconciledEffect
<1>5. KeepsOwners(store, e)
  BY <1>2, <1>4 DEF KeepsOwners
<1>6. StoreInv'
  BY <1>1, <1>3, <1>4 DEF StoreInv, Sound, Ready, StoreState
<1>7. WorkspaceInv'
  BY <1>1 DEF WorkspaceInv, OwnsWorkspace
<1>8. RunInv'
  BY <1>1, <1>3, <1>5, SessionsKept DEF RunInv, OwnsWorkspace
<1>9. RequestInv'
  BY <1>1 DEF RequestInv, Checked, Tenants!Idle
<1> QED  BY <1>6, <1>7, <1>8, <1>9

\* The theorem.

LEMMA TenantsInit == Tenants!Configured /\ Tenants!Init => TenantsIInv
<1> SUFFICES ASSUME Tenants!Configured, Tenants!Init  PROVE TenantsIInv
  OBVIOUS
<1>1. StoreInv
  BY DEF Tenants!Init, StoreInv, StoreState, Sound, Ready
<1>2. WorkspaceInv
  BY DEF Tenants!Init, WorkspaceInv
<1>3. RunInv
  BY DEF Tenants!Init, RunInv
<1>4. RequestInv
  BY DEF Tenants!Init, RequestInv, Checked, Tenants!Idle
<1>5. action # "foreign"
  BY DEF Tenants!Init, Tenants!NoAction
<1> QED  BY <1>1, <1>2, <1>3, <1>4, <1>5 DEF TenantsIInv

LEMMA TenantsNext ==
  ASSUME Tenants!Configured, TenantsIInv, [Tenants!Next]_(Tenants!vars)
  PROVE  TenantsIInv'
<1> DEFINE Parts == StoreInv /\ WorkspaceInv /\ RunInv /\ RequestInv
<1> SUFFICES Parts' /\ action' # "foreign"
  BY DEF TenantsIInv
<1>1. StoreInv /\ WorkspaceInv /\ RunInv /\ RequestInv /\ action # "foreign"
  BY DEF TenantsIInv
<1>2. /\ runs \in Seq([tenant : Tenant, session : Session, workspace : TenantWorkspace])
      /\ Len(runs) \in Nat
  BY <1>1 DEF RunInv
<1>3. \A q \in Request : Checked(request[q])
  BY <1>1 DEF RequestInv
<1>4. ASSUME UNCHANGED <<config, store, workspaces, conversations, runs, request>>  PROVE Parts'
  BY <1>1, <1>4, NothingMoves
<1>5. ASSUME NEW q \in Request, NEW handler, Checked(handler),
             request' = [request EXCEPT ![q] = handler],
             UNCHANGED <<config, store, workspaces, conversations, runs>>
      PROVE  Parts'
  BY <1>1, <1>5, HandlerMoves
<1> HIDE DEF Parts
<1>6. Tenants!Unaudited => action' # "foreign"
  BY DEF Tenants!Unaudited, Tenants!NoAction
<1>7. ASSUME NEW k \in Token, Tenants!CreateKey(k) \/ Tenants!Logout(k) \/ Tenants!Invalidate(k)
      PROVE  Parts' /\ action' # "foreign"
  BY <1>4, <1>6, <1>7 DEF Tenants!CreateKey, Tenants!Logout, Tenants!Invalidate
<1>8. ASSUME NEW t \in Tenant, Tenants!RegisterUser(t) \/ Tenants!RevokeAllSessions(t)
      PROVE  Parts' /\ action' # "foreign"
  BY <1>4, <1>6, <1>8 DEF Tenants!RegisterUser, Tenants!RevokeAllSessions
<1>9. ASSUME NEW q \in Request, NEW t \in Tenant,
             Tenants!LoginVerifies(q, t) \/ Tenants!CreateWorkspaceReads(q, t)
      PROVE  Parts' /\ action' # "foreign"
  <2>1. PICK kind \in {"login", "workspace"} :
          /\ Tenants!Await(q, [Tenants!Idle EXCEPT !.kind = kind, !.tenant = t])
          /\ UNCHANGED <<config, store, workspaces, conversations, runs>> /\ Tenants!Unaudited
    BY <1>9 DEF Tenants!LoginVerifies, Tenants!CreateWorkspaceReads
  <2>2. Checked([Tenants!Idle EXCEPT !.kind = kind, !.tenant = t])
    BY DEF Checked, Tenants!Idle
  <2> QED  BY <1>5, <1>6, <2>1, <2>2 DEF Tenants!Await
<1>10. ASSUME NEW q \in Request, Tenants!LoginInserts(q) \/ Tenants!RequestFails(q)
       PROVE  Parts' /\ action' # "foreign"
  BY <1>5, <1>6, <1>10, IdleIsChecked DEF Tenants!LoginInserts, Tenants!RequestFails
<1>11. ASSUME NEW q \in Request, Tenants!CreateWorkspace(q) \/ Tenants!CreateConversation(q)
       PROVE  Parts' /\ action' # "foreign"
  <2>1. Parts'
    BY <1>1, <1>11, Created DEF Parts
  <2>2. Tenants!Unaudited
    BY <1>11 DEF Tenants!CreateWorkspace, Tenants!CreateConversation
  <2> QED  BY <1>6, <2>1, <2>2
<1>12. ASSUME NEW q \in Request, Tenants!MessageSubmits(q)
       PROVE  Parts' /\ action' # "foreign"
  <2>1. PICK t, s, w : t = request[q].tenant /\ s = request[q].session /\ w = request[q].workspace
    OBVIOUS
  <2>2. t \in Tenant /\ s \in Session /\ w \in TenantWorkspace /\ workspaces[w] = t
    BY <1>3, <1>12, <2>1 DEF Tenants!MessageSubmits, Checked, OwnsWorkspace
  <2>3. /\ Tenants!SubmitAs(t, s, w) /\ request' = [request EXCEPT ![q] = Tenants!Idle]
        /\ UNCHANGED <<config, workspaces, conversations>> /\ Tenants!Unaudited
    BY <1>12, <2>1 DEF Tenants!MessageSubmits
  <2>4. /\ StoreInv' /\ WorkspaceInv' /\ RunInv'
        /\ Len(runs') \in Nat /\ Len(runs') >= Len(runs)
        /\ \A i \in 1..Len(runs) : runs'[i] = runs[i]
    BY <1>1, <2>2, <2>3, Submitted
  <2>5. RequestInv'
    <3>1. /\ request' = [p \in Request |-> request'[p]]
          /\ \A p \in Request \ {q} : request'[p] = request[p]
          /\ request'[q] = Tenants!Idle
      BY <1>1, <2>3, HandlerEffect
    <3>2. ASSUME NEW p \in Request  PROVE Checked(request[p])'
      <4>1. PICK x : x = request'[p] /\ Checked(x)
        BY <1>3, <3>1, IdleIsChecked
      <4>2. Checked(x)'
        BY <1>2, <2>3, <2>4, <4>1, BindingsKept
      <4> QED  BY <4>1, <4>2 DEF Checked, OwnsWorkspace
    <3> QED  BY <3>1, <3>2 DEF RequestInv
  <2> QED  BY <1>6, <2>3, <2>4, <2>5 DEF Parts
<1>13. ASSUME NEW q \in Request, Tenants!ResumeRun(q) \/ Tenants!ResolveUnknownEffect(q)
       PROVE  Parts' /\ action' # "foreign"
  <2>1. /\ request[q].kind \in {"resume", "resolve"}
        /\ request' = [request EXCEPT ![q] = Tenants!Idle]
        /\ UNCHANGED <<config, store, workspaces, conversations, runs>>
        /\ \E outcome \in {"ALLOW", "DENY"} :
             Tenants!Audit(outcome, request[q].tenant, request[q].run)
    BY <1>13 DEF Tenants!ResumeRun, Tenants!ResolveUnknownEffect
  <2>2. runs[request[q].run].tenant = request[q].tenant
    BY <1>3, <2>1 DEF Checked
  <2>3. action' # "foreign"
    BY <2>1, <2>2 DEF Tenants!Audit, Tenants!NoAction
  <2> QED  BY <1>5, <2>1, <2>3, IdleIsChecked
<1>14. ASSUME NEW q \in Request, NEW t \in Tenant, NEW w \in TenantWorkspace,
              Tenants!CreateConversationReads(q, t, w)
       PROVE  Parts' /\ action' # "foreign"
  <2>1. Checked([Tenants!Idle EXCEPT !.kind = "conversation", !.tenant = t, !.workspace = w])
    BY <1>14 DEF Tenants!CreateConversationReads, Tenants!GetForTenant, Checked, OwnsWorkspace,
                 Tenants!Idle
  <2> QED  BY <1>5, <1>6, <1>14, <2>1 DEF Tenants!CreateConversationReads, Tenants!Await
<1>15. ASSUME NEW q \in Request, NEW t \in Tenant, NEW s \in Session, Tenants!MessageReads(q, t, s)
       PROVE  Parts' /\ action' # "foreign"
  <2>1. PICK w : w = conversations[s].workspace
    OBVIOUS
  <2>2. w \in TenantWorkspace /\ workspaces[w] = t
    BY <1>1, <1>15, <2>1 DEF Tenants!MessageReads, Tenants!GetForTenant, WorkspaceInv, OwnsWorkspace
  <2>3. Checked([Tenants!Idle EXCEPT !.kind = "message", !.tenant = t, !.session = s,
                                     !.workspace = w])
    BY <2>2 DEF Checked, OwnsWorkspace, Tenants!Idle
  <2> QED  BY <1>5, <1>6, <1>15, <2>1, <2>3 DEF Tenants!MessageReads, Tenants!Await
<1>16. ASSUME NEW t \in Tenant, NEW s \in Session, NEW w \in TenantWorkspace,
              Tenants!SubmitRun(t, s, w)
       PROVE  Parts' /\ action' # "foreign"
  <2>1. /\ workspaces[w] = t /\ Tenants!SubmitAs(t, s, w)
        /\ UNCHANGED <<config, workspaces, conversations, request>>
    BY <1>16 DEF Tenants!SubmitRun, Tenants!GetForTenant
  <2>2. /\ StoreInv' /\ WorkspaceInv' /\ RunInv'
        /\ Len(runs') \in Nat /\ Len(runs') >= Len(runs)
        /\ \A i \in 1..Len(runs) : runs'[i] = runs[i]
        /\ Tenants!Resolved(t, s) => runs'[Len(runs) + 1].tenant = t
    BY <1>1, <2>1, Submitted
  <2>3. RequestInv'
    <3>1. ASSUME NEW p \in Request  PROVE Checked(request[p])'
      <4>1. PICK x : x = request[p] /\ Checked(x)
        BY <1>3
      <4>2. Checked(x)'
        BY <1>2, <2>1, <2>2, <4>1, BindingsKept
      <4> QED  BY <2>1, <4>1, <4>2 DEF Checked, OwnsWorkspace
    <3> QED  BY <1>1, <2>1, <3>1 DEF RequestInv
  <2>4. action' # "foreign"
    BY <1>6, <1>16, <2>2 DEF Tenants!SubmitRun, Tenants!Audit
  <2> QED  BY <2>2, <2>3, <2>4 DEF Parts
<1>17. ASSUME NEW t \in Tenant, NEW i \in 1..Len(runs),
              Tenants!ActionRefused(t, i) \/ Tenants!InterruptRun(t, i)
       PROVE  Parts' /\ action' # "foreign"
  BY <1>4, <1>17 DEF Tenants!ActionRefused, Tenants!InterruptRun, Tenants!Audit,
                     Tenants!Owned, Tenants!NoAction
<1>18. ASSUME NEW q \in Request, NEW t \in Tenant, NEW i \in 1..Len(runs),
              Tenants!ActionReads(q, t, i)
       PROVE  Parts' /\ action' # "foreign"
  <2>1. PICK kind \in {"resume", "resolve"} :
          Tenants!Await(q, [Tenants!Idle EXCEPT !.kind = kind, !.tenant = t, !.run = i])
    BY <1>18 DEF Tenants!ActionReads
  <2>2. Checked([Tenants!Idle EXCEPT !.kind = kind, !.tenant = t, !.run = i])
    BY <1>18 DEF Tenants!ActionReads, Tenants!Owned, Checked, Tenants!Idle
  <2> QED  BY <1>5, <1>6, <1>18, <2>1, <2>2 DEF Tenants!ActionReads, Tenants!Await
<1>19. CASE Tenants!Restart
  <2>1. Parts'
    BY <1>1, <1>19, Restarted DEF Parts
  <2> QED  BY <1>6, <1>19, <2>1 DEF Tenants!Restart
<1>20. CASE UNCHANGED Tenants!vars
  BY <1>1, <1>4, <1>20 DEF Tenants!vars
<1> QED  BY <1>7, <1>8, <1>9, <1>10, <1>11, <1>12, <1>13, <1>14, <1>15, <1>16, <1>17, <1>18,
            <1>19, <1>20 DEF Tenants!Next

\* TenantsStayApart: a run's workspace, session, version and instance are its
\* tenant's, no session mixes two tenants, and nobody is let through to another
\* tenant's run, wherever handlers wait and wherever the process dies.
THEOREM TenantsAreKeptApart == Tenants!Configured => (Tenants!Spec => []TenantsStayApart)
<1> SUFFICES ASSUME Tenants!Configured  PROVE Tenants!Spec => []TenantsStayApart
  OBVIOUS
<1>1. TenantsIInv => TenantsStayApart
  BY DEF TenantsIInv, StoreInv, WorkspaceInv, RunInv, Sound, Ready, OwnsWorkspace,
         Tenants!TenantsStayApart, TenantsStayApart
<1>2. Tenants!Init => TenantsIInv
  BY TenantsInit
<1>3. TenantsIInv /\ [Tenants!Next]_(Tenants!vars) => TenantsIInv'
  BY TenantsNext
<1> QED  BY <1>1, <1>2, <1>3, PTL DEF Tenants!Spec

-----------------------------------------------------------------------------
(* RunTimeline *)
\* What the agent did reaches the tables through a pipe, late or not at all, so
\* the invariant speaks of one log: the stored rows followed by what is in the
\* pipe.  A row's place in it is decided when the event is emitted, and reading
\* a message does not change what the log says.

ModelType == {"MODEL_STARTED", "MODEL_FIRST_TOKEN", "MODEL_COMPLETED"}
ToolType == {"TOOL_STARTED", "TOOL_COMPLETED", "TOOL_FAILED"}
AttemptType == {"SESSION_INITIALIZED", "CONTROL_PREPARED", "SANDBOX_ACQUIRED"}
EndType == {"agent_completed", "agent_failed", "agent_interrupted"}
RequestType == {"TOOL_PREPARE_REQUEST", "TOOL_COMPLETE_REQUEST"}
ReturnType == {"RUN_RETURNED", "RUN_FAILED"}

\* What passes the adapter, and what else a worker writes.
Emitted ==
  [type : ModelType, id : TimelineCall] \cup [type : ToolType, id : TimelineTool]
    \cup [type : AttemptType, id : Nat] \cup [type : {"delta"}, id : Channel]
    \cup [type : EndType, id : {Null}]
Message ==
  Emitted \cup [type : RequestType, id : TimelineTool] \cup [type : ReturnType, id : {Null}]

RowType ==
  ModelType \cup ToolType \cup AttemptType
    \cup {"RUN_STARTED", "RUN_RESUMED", "RUN_QUEUED", "RUN_COMPLETED", "RUN_FAILED",
          "RUN_INTERRUPTED", "tool_finished"}
RowId == TimelineCall \cup TimelineTool \cup Nat \cup {Null}
Row == [type : RowType, id : RowId,
        key : {Null} \cup {<<type>> : type \in RowType} \cup (RowType \X RowId)]

Status == {"QUEUED", "RUNNING", "WAITING_TOOL", "INTERRUPTED", "COMPLETED", "FAILED"}
Told == [status : Status, events : Seq(Row), output : SUBSET Channel]

\* The events whose keys the property speaks of.
Named == ModelType \cup {"TOOL_STARTED"}
Names == TimelineCall \cup TimelineTool

EventKey(type, id) == <<type, id>>
Heard(s, type, id) == \E i \in DOMAIN s.events : s.events[i].key = EventKey(type, id)

\* On record, or in the pipe before the place i.
Arrived(s, p, i, type, id) ==
  Heard(s, type, id) \/ \E j \in 1..(i - 1) : p[j] = [type |-> type, id |-> id]
Coming(s, p, type, id) == Arrived(s, p, Len(p) + 1, type, id)

\* No two rows have the same key, and a named event's row and key agree.
KeysOK(s) ==
  /\ \A i, j \in DOMAIN s.events :
       s.events[i].key = s.events[j].key /\ s.events[i].key # Null => i = j
  /\ \A i \in DOMAIN s.events :
       /\ s.events[i].type \in ModelType =>
            s.events[i].id \in TimelineCall /\ s.events[i].key = EventKey(s.events[i].type, s.events[i].id)
       /\ \A type \in Named, id \in Names :
            s.events[i].key = EventKey(type, id) => s.events[i].type = type /\ s.events[i].id = id

\* The rows of a call are in order, and text follows a first token.
FirstTokenOK(s, c, i) ==
  /\ \E j \in 1..(i - 1) : s.events[j].key = EventKey("MODEL_STARTED", c)
  /\ \A j \in DOMAIN s.events : s.events[j].key = EventKey("MODEL_COMPLETED", c) => i < j
OrderOK(s) ==
  /\ \A c \in TimelineCall, i \in DOMAIN s.events :
       s.events[i].key = EventKey("MODEL_FIRST_TOKEN", c) => FirstTokenOK(s, c, i)
  /\ \A c \in TimelineCall : Heard(s, "MODEL_COMPLETED", c) => Heard(s, "MODEL_STARTED", c)
SpokenOK(s) == s.output # {} => \E c \in TimelineCall : Heard(s, "MODEL_FIRST_TOKEN", c)
RowsOK(s) == KeysOK(s) /\ OrderOK(s) /\ SpokenOK(s)

\* A message follows those it depends on, by whatever way they arrive.
Follows(s, p, i, e) ==
  /\ e.type \in {"MODEL_FIRST_TOKEN", "MODEL_COMPLETED"} =>
       Arrived(s, p, i, "MODEL_STARTED", e.id) /\ ~Arrived(s, p, i, "MODEL_COMPLETED", e.id)
  /\ e.type = "delta" => \E c \in TimelineCall : Arrived(s, p, i, "MODEL_FIRST_TOKEN", c)
  /\ e.type = "TOOL_PREPARE_REQUEST" => Arrived(s, p, i, "TOOL_STARTED", e.id)

LogOK(s, p) ==
  /\ s \in Told /\ RowsOK(s)
  /\ p \in Seq(Message) /\ \A i \in DOMAIN p : Follows(s, p, i, p[i])

\* When what is before the place i has been read, the run is not RUNNING.
Quiet(s, p, i) ==
  \/ s.status \notin Timeline!Live
  \/ /\ s.status = "WAITING_TOOL"
     /\ \A k \in 1..(i - 1) : p[k].type # "TOOL_COMPLETE_REQUEST"
  \/ \E j \in 1..(i - 1) :
       /\ p[j].type \in EndType
       /\ \A k \in (j + 1)..(i - 1) : p[k].type # "TOOL_COMPLETE_REQUEST"

\* A call that has ended is on record or in the pipe, and a session knows what
\* it has said of its current one.
CallInv ==
  /\ calls \in [TimelineCall -> {"fresh", "begun", "ended", "lost"}]
  /\ \A c \in TimelineCall : Coming(told, pipe, "MODEL_COMPLETED", c) <=> calls[c] = "ended"
  /\ session \in [call : TimelineCall \cup {Null}, spoken : BOOLEAN,
                  last : {"none", "stop", "toolUse", "aborted", "error", "retry", "settled"}]
  /\ stage = "open" /\ session.call # Null =>
       /\ calls[session.call] = "begun"
       /\ Coming(told, pipe, "MODEL_STARTED", session.call)
       /\ session.spoken => Coming(told, pipe, "MODEL_FIRST_TOKEN", session.call)

ToolInv ==
  /\ executions \in [TimelineTool -> {"none", "PREPARED", "SETTLED"}]
  /\ tools \in [TimelineTool ->
       {"none", "started", "asked", "running", "reported", "answered", "ended"}]
  /\ \A t \in TimelineTool :
       /\ executions[t] # "none" => Heard(told, "TOOL_STARTED", t)
       /\ stage = "open" /\ tools[t] = "started" => Coming(told, pipe, "TOOL_STARTED", t)
       /\ tools[t] = "running" => executions[t] # "none"
       /\ stage \in {"control", "sandbox", "opening"} => tools[t] = "none"
  /\ told.status = "WAITING_TOOL" => \E t \in TimelineTool : executions[t] = "PREPARED"

\* The end of an invocation is not heard before that of its run.
StageInv ==
  /\ execution \in Nat
  /\ stage \in {"idle", "control", "sandbox", "opening", "open", "exited"}
  /\ listening \in BOOLEAN /\ aborting \in BOOLEAN
  /\ listening <=> stage # "idle"
  /\ mode # "worker" =>
       pipe = <<>> /\ told.status # "WAITING_TOOL" /\ stage # "exited"
  /\ stage \notin {"open", "exited"} => pipe = <<>>
  /\ stage = "open" /\ session.last = "settled" =>
       Timeline!Executing = {} /\ Quiet(told, pipe, Len(pipe) + 1)
  /\ \A i \in DOMAIN pipe : pipe[i].type = "RUN_RETURNED" => Quiet(told, pipe, i)
  /\ ~listening /\ told.status \in Timeline!Live => aborting \/ told.status = "WAITING_TOOL"

TimelineIInv == LogOK(told, pipe) /\ CallInv /\ ToolInv /\ StageInv

LEMMA KeysDiffer ==
  ASSUME NEW type, NEW id, NEW type2, NEW id2
  PROVE  EventKey(type, id) = EventKey(type2, id2) <=> type = type2 /\ id = id2
BY DEF EventKey

LEMMA ToldEvents ==
  ASSUME NEW s \in Told
  PROVE  /\ s.status \in Status /\ s.output \in SUBSET Channel
         /\ s.events \in Seq(Row) /\ Len(s.events) \in Nat
         /\ DOMAIN s.events = 1..Len(s.events)
         /\ \A i \in DOMAIN s.events : s.events[i] \in Row
<1>1. /\ s.status \in Status /\ s.output \in SUBSET Channel /\ s.events \in Seq(Row)
  BY DEF Told
<1> QED  BY <1>1, LenProperties

\* The same named events are on record.
SameHeard(s, r) ==
  \A type \in Named, id \in Names : Heard(r, type, id) <=> Heard(s, type, id)

\* A row that may be added: its key is new, it agrees with the row, and what it
\* follows is on record.
MayBeAdded(s, row) ==
  /\ row \in Row
  /\ row.key # Null => \A i \in DOMAIN s.events : s.events[i].key # row.key
  /\ row.type \in ModelType => row.id \in TimelineCall /\ row.key = EventKey(row.type, row.id)
  /\ \A type \in Named, id \in Names : row.key = EventKey(type, id) => row.type = type /\ row.id = id
  /\ row.type \in {"MODEL_FIRST_TOKEN", "MODEL_COMPLETED"} =>
       Heard(s, "MODEL_STARTED", row.id) /\ ~Heard(s, "MODEL_COMPLETED", row.id)

\* Which of the named events is on record after row has been added.
LEMMA RowAdded ==
  ASSUME NEW s \in Told, RowsOK(s), NEW row, MayBeAdded(s, row), NEW r \in Told,
         r.events = Append(s.events, row), r.output = s.output
  PROVE  /\ RowsOK(r)
         /\ \A type \in Named, id \in Names :
              Heard(r, type, id) <=> Heard(s, type, id) \/ row.key = EventKey(type, id)
<1> DEFINE n == Len(s.events)
           key == [i \in 1..(n + 1) |-> r.events[i].key]
<1>0. row \in Row
  BY DEF MayBeAdded
<1>1. /\ n \in Nat /\ DOMAIN s.events = 1..n /\ DOMAIN r.events = 1..(n + 1)
      /\ r.events[n + 1] = row
      /\ \A i \in 1..n : r.events[i] = s.events[i]
  BY <1>0, ToldEvents, AppendProperties
<1> HIDE DEF n
<1>2. \A type \in Named, id \in Names :
        Heard(r, type, id) <=> Heard(s, type, id) \/ row.key = EventKey(type, id)
  BY <1>1 DEF Heard
<1>3. KeysOK(r)
  <2>1. ASSUME NEW i \in 1..(n + 1), NEW j \in 1..(n + 1),
               r.events[i].key = r.events[j].key, r.events[i].key # Null
        PROVE  i = j
    <3>1. CASE i \in 1..n /\ j \in 1..n
      BY <1>1, <2>1, <3>1 DEF RowsOK, KeysOK
    <3>2. CASE i = n + 1 \/ j = n + 1
      BY <1>1, <2>1, <3>2 DEF MayBeAdded
    <3> QED  BY <1>1, <3>1, <3>2
  <2>2. ASSUME NEW i \in 1..(n + 1)
        PROVE  /\ r.events[i].type \in ModelType =>
                    r.events[i].id \in TimelineCall /\ r.events[i].key = EventKey(r.events[i].type, r.events[i].id)
               /\ \A type \in Named, id \in Names :
                    r.events[i].key = EventKey(type, id) => r.events[i].type = type /\ r.events[i].id = id
    <3>1. CASE i \in 1..n
      BY <1>1, <3>1 DEF RowsOK, KeysOK
    <3>2. CASE i = n + 1
      BY <1>1, <3>2 DEF MayBeAdded
    <3> QED  BY <1>1, <3>1, <3>2
  <2> QED  BY <1>1, <2>1, <2>2 DEF KeysOK
<1>4. \A c \in TimelineCall : Heard(r, "MODEL_COMPLETED", c) => Heard(r, "MODEL_STARTED", c)
  <2> SUFFICES ASSUME NEW c \in TimelineCall, Heard(r, "MODEL_COMPLETED", c)
               PROVE  Heard(r, "MODEL_STARTED", c)
    OBVIOUS
  <2>1. c \in Names /\ "MODEL_COMPLETED" \in Named /\ "MODEL_STARTED" \in Named
    BY DEF Names, Named, ModelType
  <2>2. Heard(s, "MODEL_STARTED", c)
    <3>1. CASE Heard(s, "MODEL_COMPLETED", c)
      BY <3>1 DEF RowsOK, OrderOK
    <3>2. CASE row.key = EventKey("MODEL_COMPLETED", c)
      BY <2>1, <3>2 DEF MayBeAdded
    <3> QED  BY <1>2, <2>1, <3>1, <3>2
  <2> QED  BY <1>2, <2>1, <2>2
<1>5. ASSUME NEW c \in TimelineCall, NEW i \in 1..(n + 1),
             r.events[i].key = EventKey("MODEL_FIRST_TOKEN", c)
      PROVE  FirstTokenOK(r, c, i)
  <2>0. /\ c \in Names /\ "MODEL_FIRST_TOKEN" \in Named /\ "MODEL_COMPLETED" \in Named
    BY DEF Names, Named, ModelType
  <2>1. CASE i \in 1..n
    <3>1. FirstTokenOK(s, c, i)
      BY <1>1, <1>5, <2>1 DEF RowsOK, OrderOK
    <3>2. PICK j \in 1..(i - 1) : s.events[j].key = EventKey("MODEL_STARTED", c)
      BY <3>1 DEF FirstTokenOK
    <3>3. r.events[j].key = EventKey("MODEL_STARTED", c)
      BY <1>1, <2>1, <3>2
    <3>4. \A k \in 1..(n + 1) : r.events[k].key = EventKey("MODEL_COMPLETED", c) => i < k
      BY <1>1, <2>1, <3>1 DEF FirstTokenOK
    <3> QED  BY <1>1, <3>2, <3>3, <3>4 DEF FirstTokenOK
  <2>2. CASE i = n + 1
    <3>1. row.key = EventKey("MODEL_FIRST_TOKEN", c)
      BY <1>1, <1>5, <2>2
    <3>2. row.type = "MODEL_FIRST_TOKEN" /\ row.id = c
      BY <2>0, <3>1 DEF MayBeAdded
    <3>3. Heard(s, "MODEL_STARTED", c) /\ ~Heard(s, "MODEL_COMPLETED", c)
      BY <3>2 DEF MayBeAdded
    <3>4. PICK j \in 1..n : s.events[j].key = EventKey("MODEL_STARTED", c)
      BY <1>1, <3>3 DEF Heard
    <3>5. j \in 1..(i - 1) /\ r.events[j].key = EventKey("MODEL_STARTED", c)
      BY <1>1, <2>2, <3>4
    <3>6. ~Heard(r, "MODEL_COMPLETED", c)
      BY <1>2, <2>0, <3>1, <3>3, KeysDiffer
    <3> QED  BY <3>5, <3>6 DEF FirstTokenOK, Heard
  <2> QED  BY <1>1, <2>1, <2>2
<1>6. OrderOK(r)
  BY <1>1, <1>4, <1>5 DEF OrderOK
<1>7. SpokenOK(r)
  <2>1. TimelineCall \subseteq Names /\ "MODEL_FIRST_TOKEN" \in Named
    BY DEF Names, Named, ModelType
  <2> QED  BY <1>2, <2>1 DEF RowsOK, SpokenOK
<1> QED  BY <1>2, <1>3, <1>6, <1>7 DEF RowsOK

\* What is told of the status has no key.
LEMMA UpdateEffect ==
  ASSUME Timeline!Configured, NEW s \in Told, RowsOK(s), NEW to \in Status,
         NEW type \in RowType \ ModelType, NEW id \in RowId,
         NEW r, r = Timeline!Update(s, to, type, id)
  PROVE  /\ r \in Told /\ RowsOK(r) /\ SameHeard(s, r) /\ r.output = s.output
         /\ \/ ~Timeline!CanTransition(s.status, to) /\ r.status = s.status
            \/ Timeline!CanTransition(s.status, to) /\ r.status = to
<1>1. CASE ~Timeline!CanTransition(s.status, to)
  <2>1. r = s
    BY <1>1 DEF Timeline!Update
  <2> QED  BY <1>1, <2>1 DEF SameHeard
<1>2. CASE Timeline!CanTransition(s.status, to)
  <2> DEFINE row == Timeline!Row(type, id, Null)
  <2>1. row \in Row /\ row.key = Null /\ row.type \notin ModelType
    BY DEF Timeline!Row, Row
  <2>2. r = [s EXCEPT !.status = to, !.events = Append(s.events, row)]
    BY <1>2 DEF Timeline!Update
  <2> HIDE DEF row
  <2>3. Append(s.events, row) \in Seq(Row)
    BY <2>1, ToldEvents, AppendProperties
  <2>4. /\ r \in Told /\ r.status = to
        /\ r.events = Append(s.events, row) /\ r.output = s.output
    <3> DEFINE es == Append(s.events, row)
    <3> HIDE DEF es
    <3>1. r = [s EXCEPT !.status = to, !.events = es] /\ es \in Seq(Row)
      BY <2>2, <2>3 DEF es
    <3>2. r \in Told /\ r.status = to /\ r.events = es /\ r.output = s.output
      BY <3>1 DEF Told
    <3> QED  BY <3>2 DEF es
  <2>5. \A t \in Named, i \in Names : row.key # EventKey(t, i)
    BY <2>1 DEF Timeline!Configured, Named, ToolType, ModelType, Names, EventKey
  <2>6. MayBeAdded(s, row)
    <3>1. row.type \notin {"MODEL_FIRST_TOKEN", "MODEL_COMPLETED"}
      BY <2>1 DEF ModelType
    <3> QED  BY <2>1, <2>5, <3>1 DEF MayBeAdded
  <2>7. RowsOK(r) /\ \A t \in Named, i \in Names : Heard(r, t, i) <=> Heard(s, t, i) \/ row.key = EventKey(t, i)
    BY <2>4, <2>6, RowAdded
  <2> QED  BY <1>2, <2>4, <2>5, <2>7 DEF SameHeard
<1> QED  BY <1>1, <1>2

\* The keys of the event bridge tell the named events apart.
LEMMA KeyOfEvent ==
  ASSUME NEW e \in Emitted, e.type \notin EndType, e.type # "delta",
         NEW k, k = Timeline!DedupeKey(e)
  PROVE  /\ Timeline!Row(e.type, e.id, k) \in Row
         /\ e.type \in Named => k = EventKey(e.type, e.id)
         /\ \A type \in Named, id \in Names : k = EventKey(type, id) => type = e.type /\ id = e.id
<1>1. e.type \in RowType /\ e.id \in RowId
  BY DEF Emitted, RowType, RowId, EndType, AttemptType, ToolType, ModelType
<1>2. CASE e.type \in {"SESSION_INITIALIZED", "CONTROL_PREPARED"}
  <2>1. k = <<e.type>>
    BY <1>2 DEF Timeline!DedupeKey
  <2>2. \A type \in Named, id \in Names : k # EventKey(type, id)
    BY <2>1 DEF EventKey
  <2>3. Timeline!Row(e.type, e.id, k) \in Row
    BY <1>1, <2>1 DEF Timeline!Row, Row
  <2>4. e.type \notin Named
    BY <1>2 DEF Named, ModelType
  <2> QED  BY <2>2, <2>3, <2>4
<1>3. CASE e.type \in {"TOOL_COMPLETED", "TOOL_FAILED"}
  <2>1. k = EventKey("tool_finished", e.id)
    BY <1>3 DEF Timeline!DedupeKey, EventKey
  <2>2. "tool_finished" \notin Named
    BY DEF Named, ModelType
  <2>3. \A type \in Named, id \in Names : k # EventKey(type, id)
    <3> SUFFICES ASSUME NEW type \in Named, NEW id \in Names, k = EventKey(type, id)
                 PROVE  FALSE
      OBVIOUS
    <3>1. "tool_finished" = type
      BY <2>1 DEF EventKey
    <3> QED  BY <2>2, <3>1
  <2>4. "tool_finished" \in RowType
    BY DEF RowType
  <2>5. k \in RowType \X RowId
    BY <1>1, <2>1, <2>4 DEF EventKey
  <2>7. Timeline!Row(e.type, e.id, k) \in Row
    BY <1>1, <2>5 DEF Timeline!Row, Row
  <2>6. e.type \notin Named
    BY <1>3 DEF Named, ModelType
  <2> QED  BY <2>3, <2>6, <2>7
<1>4. CASE e.type \notin {"SESSION_INITIALIZED", "CONTROL_PREPARED", "TOOL_COMPLETED", "TOOL_FAILED"}
  <2>1. k = EventKey(e.type, e.id)
    BY <1>4 DEF Timeline!DedupeKey, EventKey
  <2>2. Timeline!Row(e.type, e.id, k) \in Row
    BY <1>1, <2>1 DEF Timeline!Row, Row, EventKey
  <2> QED  BY <2>1, <2>2, KeysDiffer
<1> QED  BY <1>2, <1>3, <1>4

\* What an event follows, when it is handled at once.
Due(s, e) ==
  /\ e.type \in {"MODEL_FIRST_TOKEN", "MODEL_COMPLETED"} =>
       Heard(s, "MODEL_STARTED", e.id) /\ ~Heard(s, "MODEL_COMPLETED", e.id)
  /\ e.type = "delta" => \E c \in TimelineCall : Heard(s, "MODEL_FIRST_TOKEN", c)

\* The named events on record are those before and the one in e.
Learns(s, e, r) ==
  \A type \in Named, id \in Names :
    Heard(r, type, id) <=> Heard(s, type, id) \/ e = [type |-> type, id |-> id]

\* The status is not what it was, or it is one that ends the execution.
Ends(s, r) == r.status \in Timeline!Live => r.status = s.status

LEMMA NamedEvent ==
  ASSUME NEW e \in Message, NEW type, NEW id
  PROVE  e = [type |-> type, id |-> id] <=> e.type = type /\ e.id = id
BY DEF Message, Emitted

LEMMA AppendIfNewEffect ==
  ASSUME NEW s \in Told, RowsOK(s), NEW e \in Emitted,
         e.type \notin EndType, e.type # "delta", Due(s, e),
         NEW r, r = Timeline!AppendIfNew(s, e), Timeline!Configured
  PROVE  r \in Told /\ RowsOK(r) /\ Learns(s, e, r) /\ r.status = s.status
<1> DEFINE k == Timeline!DedupeKey(e)
           row == Timeline!Row(e.type, e.id, k)
<1>0. /\ row \in Row
      /\ e.type \in Named => k = EventKey(e.type, e.id)
      /\ \A type \in Named, id \in Names : k = EventKey(type, id) => type = e.type /\ id = e.id
      /\ row.key = k /\ row.type = e.type /\ row.id = e.id
  <2>1. /\ row \in Row
        /\ e.type \in Named => k = EventKey(e.type, e.id)
        /\ \A type \in Named, id \in Names : k = EventKey(type, id) => type = e.type /\ id = e.id
    BY KeyOfEvent
  <2> QED  BY <2>1 DEF Timeline!Row
<1>1. r = IF \E i \in 1..Len(s.events) : s.events[i].key = k THEN s
          ELSE [s EXCEPT !.events = Append(s.events, row)]
  BY DEF Timeline!AppendIfNew
<1> HIDE DEF k, row
<1>2. \A type \in Named, id \in Names : row.key = EventKey(type, id) <=> e = [type |-> type, id |-> id]
  <2> SUFFICES ASSUME NEW type \in Named, NEW id \in Names
               PROVE  row.key = EventKey(type, id) <=> e = [type |-> type, id |-> id]
    OBVIOUS
  <2>1. e = [type |-> type, id |-> id] <=> e.type = type /\ e.id = id
    BY NamedEvent DEF Message
  <2>2. ASSUME e.type = type, e.id = id
        PROVE  row.key = EventKey(type, id)
    BY <1>0, <2>2
  <2>3. ASSUME row.key = EventKey(type, id)
        PROVE  e.type = type /\ e.id = id
    BY <1>0, <2>3
  <2> QED  BY <2>1, <2>2, <2>3
<1>3. CASE \E i \in 1..Len(s.events) : s.events[i].key = k
  <2>1. r = s
    BY <1>1, <1>3
  <2>2. \A type \in Named, id \in Names : row.key = EventKey(type, id) => Heard(s, type, id)
    BY <1>0, <1>3, ToldEvents DEF Heard
  <2> QED  BY <1>2, <2>1, <2>2 DEF Learns
<1>4. CASE ~\E i \in 1..Len(s.events) : s.events[i].key = k
  <2>1. r = [s EXCEPT !.events = Append(s.events, row)]
    BY <1>1, <1>4
  <2>2. Append(s.events, row) \in Seq(Row)
    BY <1>0, ToldEvents, AppendProperties
  <2>3. r \in Told /\ r.status = s.status /\ r.events = Append(s.events, row) /\ r.output = s.output
    <3> DEFINE es == Append(s.events, row)
    <3> HIDE DEF es
    <3>1. r = [s EXCEPT !.events = es] /\ es \in Seq(Row)
      BY <2>1, <2>2 DEF es
    <3>2. r \in Told /\ r.status = s.status /\ r.events = es /\ r.output = s.output
      BY <3>1 DEF Told
    <3> QED  BY <3>2 DEF es
  <2>4. MayBeAdded(s, row)
    <3>1. row.key # Null => \A i \in DOMAIN s.events : s.events[i].key # row.key
      BY <1>0, <1>4, ToldEvents
    <3>2. row.type \in ModelType => row.id \in TimelineCall /\ row.key = EventKey(row.type, row.id)
      <4>1. e.type \in ModelType => e.id \in TimelineCall
        BY DEF Emitted, ModelType, ToolType, AttemptType, EndType
      <4> QED  BY <1>0, <4>1 DEF Named
    <3> QED  BY <1>0, <3>1, <3>2 DEF MayBeAdded, Due
  <2>5. RowsOK(r) /\ \A t \in Named, i \in Names : Heard(r, t, i) <=> Heard(s, t, i) \/ row.key = EventKey(t, i)
    BY <2>3, <2>4, RowAdded
  <2> QED  BY <1>2, <2>3, <2>5 DEF Learns
<1> QED  BY <1>3, <1>4

\* What RunService makes of an event of the adapter.
LEMMA HandleEffect ==
  ASSUME NEW s \in Told, RowsOK(s), NEW e \in Emitted, Due(s, e),
         NEW r, r = Timeline!Handle(s, e), Timeline!Configured
  PROVE  /\ r \in Told /\ RowsOK(r) /\ Learns(s, e, r) /\ Ends(s, r)
         /\ e.type \in EndType => r.status # "RUNNING"
         /\ s.status \notin Timeline!Live => r.status \notin Timeline!Live
<1>0. \A type \in Named, id \in Names : e = [type |-> type, id |-> id] <=> e.type = type /\ e.id = id
  BY NamedEvent DEF Message
<1>1. CASE e.type = "delta"
  <2>1. r = [s EXCEPT !.output = s.output \cup {e.id}]
    BY <1>1 DEF Timeline!Handle
  <2>2. e.id \in Channel
    BY <1>1 DEF Emitted, ModelType, ToolType, AttemptType, EndType
  <2>3. r \in Told /\ r.events = s.events /\ r.status = s.status
    <3> DEFINE output == s.output \cup {e.id}
    <3>1. output \in SUBSET Channel
      BY <2>2, ToldEvents
    <3>2. r = [s EXCEPT !.output = output]
      BY <2>1
    <3> HIDE DEF output
    <3> QED  BY <3>1, <3>2 DEF Told
  <2>4. \A type, id : Heard(r, type, id) <=> Heard(s, type, id)
    BY <2>3 DEF Heard
  <2>5. RowsOK(r)
    <3>1. KeysOK(r)
      BY <2>3 DEF RowsOK, KeysOK
    <3>2. OrderOK(r)
      <4>1. \A c, i : FirstTokenOK(s, c, i) => FirstTokenOK(r, c, i)
        BY <2>3 DEF FirstTokenOK
      <4> QED  BY <2>3, <2>4, <4>1 DEF RowsOK, OrderOK
    <3>3. SpokenOK(r)
      BY <1>1, <2>4 DEF SpokenOK, Due
    <3> QED  BY <3>1, <3>2, <3>3 DEF RowsOK
  <2>6. e.type \notin EndType /\ e.type \notin Named
    BY <1>1 DEF EndType, Named, ModelType
  <2>7. Learns(s, e, r)
    BY <1>0, <2>4, <2>6 DEF Learns
  <2> QED  BY <2>3, <2>5, <2>6, <2>7 DEF Ends
<1>2. CASE e.type \in EndType
  <2>1. PICK to \in {"COMPLETED", "FAILED", "INTERRUPTED"},
             type \in {"RUN_COMPLETED", "RUN_FAILED", "RUN_INTERRUPTED"} :
          r = Timeline!Update(s, to, type, Null)
    BY <1>2 DEF EndType, Timeline!Handle
  <2>2. to \in Status /\ type \in RowType \ ModelType /\ Null \in RowId
    BY <2>1 DEF Status, RowType, RowId, ModelType
  <2>3. /\ r \in Told /\ RowsOK(r) /\ SameHeard(s, r)
        /\ \/ ~Timeline!CanTransition(s.status, to) /\ r.status = s.status
           \/ Timeline!CanTransition(s.status, to) /\ r.status = to
    BY <2>1, <2>2, UpdateEffect
  <2>4. e.type \notin Named
    BY <1>2 DEF EndType, Named, ModelType
  <2>5. Learns(s, e, r)
    BY <1>0, <2>3, <2>4 DEF Learns, SameHeard
  <2>6. s.status = "RUNNING" => Timeline!CanTransition(s.status, to)
    BY <2>1 DEF Timeline!CanTransition
  <2>7. to \notin Timeline!Live /\ to # "RUNNING"
    BY <2>1 DEF Timeline!Live
  <2>8. r.status # "RUNNING"
    BY <2>3, <2>6, <2>7
  <2>9. Ends(s, r) /\ (s.status \notin Timeline!Live => r.status \notin Timeline!Live)
    BY <2>3, <2>7 DEF Ends
  <2> QED  BY <2>3, <2>5, <2>8, <2>9
<1>3. CASE e.type \notin EndType /\ e.type # "delta"
  <2>1. r = Timeline!AppendIfNew(s, e)
    BY <1>3 DEF Timeline!Handle, EndType
  <2>2. r \in Told /\ RowsOK(r) /\ Learns(s, e, r) /\ r.status = s.status
    BY <1>3, <2>1, AppendIfNewEffect
  <2> QED  BY <1>3, <2>2 DEF Ends
<1> QED  BY <1>1, <1>2, <1>3

\* A live run is INTERRUPTED, and any other stays what it is.
LEMMA InterruptedEffect ==
  ASSUME NEW s \in Told, RowsOK(s), NEW r, r = Timeline!InterruptedBy(s), Timeline!Configured
  PROVE  r \in Told /\ RowsOK(r) /\ SameHeard(s, r) /\ r.status \notin Timeline!Live
<1>1. CASE s.status \in Timeline!Live
  <2>1. r = Timeline!Update(s, "INTERRUPTED", "RUN_INTERRUPTED", Null)
    BY <1>1 DEF Timeline!InterruptedBy
  <2>2. "INTERRUPTED" \in Status /\ "RUN_INTERRUPTED" \in RowType \ ModelType /\ Null \in RowId
    BY DEF Status, RowType, RowId, ModelType
  <2>3. /\ r \in Told /\ RowsOK(r) /\ SameHeard(s, r)
        /\ \/ ~Timeline!CanTransition(s.status, "INTERRUPTED") /\ r.status = s.status
           \/ Timeline!CanTransition(s.status, "INTERRUPTED") /\ r.status = "INTERRUPTED"
    BY <2>1, <2>2, UpdateEffect
  <2>4. Timeline!CanTransition(s.status, "INTERRUPTED") /\ "INTERRUPTED" \notin Timeline!Live
    BY <1>1 DEF Timeline!Live, Timeline!CanTransition
  <2> QED  BY <2>3, <2>4
<1>2. CASE s.status \notin Timeline!Live
  <2>1. r = s
    BY <1>2 DEF Timeline!InterruptedBy
  <2> QED  BY <1>2, <2>1 DEF SameHeard
<1> QED  BY <1>1, <1>2

\* The phases of a governed tool.
LEMMA PhaseEffect ==
  ASSUME NEW s \in Told, RowsOK(s), NEW t \in TimelineTool, NEW step \in {"STARTED", "ENDED"},
         NEW r, r = Timeline!MarkToolPhase(s, step, t), Timeline!Configured
  PROVE  /\ r \in Told /\ RowsOK(r) /\ SameHeard(s, r)
         /\ s.status \notin Timeline!Live => r.status \notin Timeline!Live
         /\ step = "STARTED" /\ s.status = "WAITING_TOOL" => r.status = "WAITING_TOOL"
         /\ step = "ENDED" => r.status # "WAITING_TOOL"
<1>0. t \in RowId /\ {"TOOL_STARTED", "TOOL_COMPLETED"} \subseteq RowType \ ModelType
      /\ {"RUNNING", "WAITING_TOOL"} \subseteq Status
  BY DEF RowId, RowType, ToolType, ModelType, Status
<1>1. CASE step = "STARTED" /\ s.status = "RUNNING"
  <2>1. r = Timeline!Update(s, "WAITING_TOOL", "TOOL_STARTED", t)
    BY <1>1 DEF Timeline!MarkToolPhase
  <2>2. r \in Told /\ RowsOK(r) /\ SameHeard(s, r)
    BY <1>0, <2>1, UpdateEffect
  <2> QED  BY <1>1, <2>2 DEF Timeline!Live
<1>2. CASE step = "ENDED" /\ s.status = "WAITING_TOOL"
  <2>1. r = Timeline!Update(s, "RUNNING", "TOOL_COMPLETED", t)
    BY <1>2 DEF Timeline!MarkToolPhase
  <2>2. /\ r \in Told /\ RowsOK(r) /\ SameHeard(s, r)
        /\ \/ ~Timeline!CanTransition(s.status, "RUNNING") /\ r.status = s.status
           \/ Timeline!CanTransition(s.status, "RUNNING") /\ r.status = "RUNNING"
    BY <1>0, <2>1, UpdateEffect
  <2>3. Timeline!CanTransition(s.status, "RUNNING")
    BY <1>2 DEF Timeline!CanTransition
  <2> QED  BY <1>2, <2>2, <2>3 DEF Timeline!Live
<1>3. CASE ~(step = "STARTED" /\ s.status = "RUNNING") /\ ~(step = "ENDED" /\ s.status = "WAITING_TOOL")
  <2>1. r = s
    BY <1>3 DEF Timeline!MarkToolPhase
  <2> QED  BY <1>3, <2>1 DEF SameHeard
<1> QED  BY <1>1, <1>2, <1>3

\* What is still to come when new messages have been written or handled.
Brings(s, p, new, r, q) ==
  \A type \in Named, id \in Names :
    Coming(r, q, type, id) <=> Coming(s, p, type, id) \/ [type |-> type, id |-> id] \in new

SameComing(s, p, r, q) == Brings(s, p, {}, r, q)

LEMMA PipeFacts ==
  ASSUME NEW p \in Seq(Message)
  PROVE  Len(p) \in Nat /\ DOMAIN p = 1..Len(p) /\ \A i \in 1..Len(p) : p[i] \in Message
BY LenProperties

\* What a message follows depends on what is on record only through the names.
LEMMA FollowsTransfer ==
  ASSUME NEW s, NEW p, NEW i, NEW r, NEW q, NEW j, NEW e \in Message, Follows(s, p, i, e),
         \A type \in Named, id \in Names : Arrived(r, q, j, type, id) <=> Arrived(s, p, i, type, id)
  PROVE  Follows(r, q, j, e)
<1>1. {"MODEL_STARTED", "MODEL_FIRST_TOKEN", "MODEL_COMPLETED", "TOOL_STARTED"} \subseteq Named
  BY DEF Named, ModelType
<1>2. TimelineCall \subseteq Names /\ TimelineTool \subseteq Names
  BY DEF Names
<1>3. /\ e.type \in {"MODEL_FIRST_TOKEN", "MODEL_COMPLETED"} => e.id \in TimelineCall
      /\ e.type = "TOOL_PREPARE_REQUEST" => e.id \in TimelineTool
  BY DEF Message, Emitted, ModelType, ToolType, AttemptType, EndType, RequestType, ReturnType
<1> QED  BY <1>1, <1>2, <1>3 DEF Follows

\* The worker writes a message.
Wrote(s, p, e, q) ==
  /\ LogOK(s, q) /\ Brings(s, p, {e}, s, q)
  /\ Len(q) = Len(p) + 1 /\ q[Len(q)] = e
  /\ \A i \in 1..Len(p) : q[i] = p[i]
  /\ \A i \in 1..(Len(p) + 1) : Quiet(s, p, i) => Quiet(s, q, i)

LEMMA LogWritten ==
  ASSUME NEW s, NEW p, LogOK(s, p), NEW e \in Message, Follows(s, p, Len(p) + 1, e),
         NEW q, q = Append(p, e)
  PROVE  Wrote(s, p, e, q)
<1> DEFINE n == Len(p)
<1>1. /\ p \in Seq(Message) /\ q \in Seq(Message) /\ n \in Nat /\ Len(q) = n + 1 /\ q[n + 1] = e
      /\ \A i \in 1..n : q[i] = p[i]
  <2>1. p \in Seq(Message)
    BY DEF LogOK
  <2> QED  BY <2>1, AppendProperties, PipeFacts
<1> HIDE DEF n
<1>2. \A i \in 1..(n + 1) : \A type, id : Arrived(s, q, i, type, id) <=> Arrived(s, p, i, type, id)
  BY <1>1 DEF Arrived
<1>3. ASSUME NEW i \in 1..(n + 1)
      PROVE  Follows(s, q, i, q[i])
  <2>1. q[i] \in Message
    BY <1>1, PipeFacts
  <2>2. Follows(s, p, i, q[i])
    <3>1. CASE i \in 1..n
      <4>1. Follows(s, p, i, p[i])
        BY <1>1, <3>1, PipeFacts DEF LogOK, n
      <4> QED  BY <1>1, <3>1, <4>1
    <3>2. CASE i = n + 1
      BY <1>1, <3>2 DEF n
    <3> QED  BY <1>1, <3>1, <3>2
  <2> QED  BY <1>2, <2>1, <2>2, FollowsTransfer
<1>4. LogOK(s, q)
  BY <1>1, <1>3, PipeFacts DEF LogOK
<1>5. Brings(s, p, {e}, s, q)
  <2> SUFFICES ASSUME NEW type \in Named, NEW id \in Names
               PROVE  Coming(s, q, type, id) <=> Coming(s, p, type, id) \/ e = [type |-> type, id |-> id]
    BY DEF Brings
  <2> DEFINE m == [type |-> type, id |-> id]
  <2> HIDE DEF m
  <2>1. (\E j \in 1..(n + 1) : q[j] = m) <=> (\E j \in 1..n : p[j] = m) \/ e = m
    BY <1>1
  <2>2. 1..(Len(q) + 1 - 1) = 1..(n + 1) /\ 1..(Len(p) + 1 - 1) = 1..n
    BY <1>1 DEF n
  <2> QED  BY <2>1, <2>2 DEF Coming, Arrived, m
<1>6. \A i \in 1..(n + 1) : Quiet(s, p, i) => Quiet(s, q, i)
  <2> SUFFICES ASSUME NEW i \in 1..(n + 1), Quiet(s, p, i)
               PROVE  Quiet(s, q, i)
    OBVIOUS
  <2>1. \A k \in 1..(i - 1) : q[k] = p[k]
    BY <1>1
  <2>2. ASSUME NEW j \in 1..(i - 1), p[j].type \in EndType,
               \A k \in (j + 1)..(i - 1) : p[k].type # "TOOL_COMPLETE_REQUEST"
        PROVE  Quiet(s, q, i)
    <3>1. \A k \in (j + 1)..(i - 1) : k \in 1..(i - 1)
      BY <1>1
    <3>2. q[j].type \in EndType /\ \A k \in (j + 1)..(i - 1) : q[k].type # "TOOL_COMPLETE_REQUEST"
      BY <2>1, <2>2, <3>1
    <3> QED  BY <3>2 DEF Quiet
  <2>3. ASSUME s.status = "WAITING_TOOL", \A k \in 1..(i - 1) : p[k].type # "TOOL_COMPLETE_REQUEST"
        PROVE  Quiet(s, q, i)
    BY <2>1, <2>3 DEF Quiet
  <2> QED  BY <2>2, <2>3 DEF Quiet
<1> QED  BY <1>1, <1>4, <1>5, <1>6 DEF n, Wrote

\* What is on record changes, and the pipe does not.
LEMMA LogTold ==
  ASSUME NEW s, NEW p, LogOK(s, p), NEW r \in Told, RowsOK(r), SameHeard(s, r)
  PROVE  LogOK(r, p) /\ SameComing(s, p, r, p)
<1>1. \A i : \A type \in Named, id \in Names : Arrived(r, p, i, type, id) <=> Arrived(s, p, i, type, id)
  BY DEF SameHeard, Arrived
<1>2. p \in Seq(Message) /\ \A i \in DOMAIN p : Follows(s, p, i, p[i]) /\ p[i] \in Message
  BY PipeFacts DEF LogOK
<1>3. \A i \in DOMAIN p : Follows(r, p, i, p[i])
  BY <1>1, <1>2, FollowsTransfer
<1> QED  BY <1>1, <1>2, <1>3 DEF LogOK, SameComing, Brings, Coming

\* The master reads the head of the pipe, and learns it.
LEMMA LogRead ==
  ASSUME NEW s, NEW p, LogOK(s, p), p # <<>>, NEW e, e = Head(p), NEW q, q = Tail(p),
         NEW r \in Told, RowsOK(r), Learns(s, e, r)
  PROVE  LogOK(r, q) /\ SameComing(s, p, r, q)
<1> DEFINE n == Len(q)
<1>1. /\ p \in Seq(Message) /\ q \in Seq(Message) /\ n \in Nat /\ Len(p) = n + 1 /\ p[1] = e
      /\ \A i \in 1..n : q[i] = p[i + 1]
  <2>1. p \in Seq(Message)
    BY DEF LogOK
  <2> QED  BY <2>1, HeadTailProperties, PipeFacts
<1> HIDE DEF n
<1>2. \A i \in 1..(n + 1) : \A type \in Named, id \in Names :
        Arrived(r, q, i, type, id) <=> Arrived(s, p, i + 1, type, id)
  <2> SUFFICES ASSUME NEW i \in 1..(n + 1), NEW type \in Named, NEW id \in Names
               PROVE  Arrived(r, q, i, type, id) <=> Arrived(s, p, i + 1, type, id)
    OBVIOUS
  <2> DEFINE m == [type |-> type, id |-> id]
  <2>0. Heard(r, type, id) <=> Heard(s, type, id) \/ e = m
    BY DEF Learns
  <2> HIDE DEF m
  <2>1. (\E j \in 1..i : p[j] = m) <=> e = m \/ \E j \in 1..(i - 1) : q[j] = m
    <3>1. ASSUME NEW j \in 1..i, p[j] = m
          PROVE  e = m \/ \E k \in 1..(i - 1) : q[k] = m
      <4>1. CASE j = 1
        BY <1>1, <3>1, <4>1
      <4>2. CASE j # 1
        <5>1. j - 1 \in 1..(i - 1) /\ j - 1 \in 1..n
          BY <1>1, <4>2
        <5>2. q[j - 1] = p[j]
          BY <1>1, <5>1
        <5> QED  BY <3>1, <5>1, <5>2
      <4> QED  BY <4>1, <4>2
    <3>2. ASSUME NEW j \in 1..(i - 1), q[j] = m
          PROVE  \E k \in 1..i : p[k] = m
      <4>1. j + 1 \in 1..i /\ p[j + 1] = q[j]
        BY <1>1
      <4> QED  BY <3>2, <4>1
    <3>3. 1 \in 1..i
      BY <1>1
    <3> QED  BY <1>1, <3>1, <3>2, <3>3
  <2>2. 1..(i + 1 - 1) = 1..i
    BY <1>1
  <2>3. Arrived(s, p, i + 1, type, id) <=> Heard(s, type, id) \/ \E j \in 1..i : p[j] = m
    BY <2>2 DEF Arrived, m
  <2>4. Arrived(r, q, i, type, id) <=> Heard(r, type, id) \/ \E j \in 1..(i - 1) : q[j] = m
    BY DEF Arrived, m
  <2> QED  BY <2>0, <2>1, <2>3, <2>4
<1>3. ASSUME NEW i \in 1..n
      PROVE  Follows(r, q, i, q[i])
  <2>1. q[i] \in Message /\ q[i] = p[i + 1] /\ i + 1 \in 1..Len(p) /\ i \in 1..(n + 1)
    BY <1>1, PipeFacts DEF n
  <2>2. Follows(s, p, i + 1, q[i])
    BY <1>1, <2>1, PipeFacts DEF LogOK
  <2>3. \A type \in Named, id \in Names : Arrived(r, q, i, type, id) <=> Arrived(s, p, i + 1, type, id)
    BY <1>2, <2>1
  <2> QED  BY <2>1, <2>2, <2>3, FollowsTransfer
<1>4. LogOK(r, q)
  BY <1>1, <1>3, PipeFacts DEF LogOK, n
<1>5. SameComing(s, p, r, q)
  <2>1. n + 1 \in 1..(n + 1) /\ Len(q) + 1 = n + 1 /\ Len(p) + 1 = n + 1 + 1
    BY <1>1 DEF n
  <2> QED  BY <1>2, <2>1 DEF SameComing, Brings, Coming
<1> QED  BY <1>4, <1>5

\* What is not read any more is forgotten.
LEMMA LogFlushed ==
  ASSUME NEW s \in Told, RowsOK(s)
  PROVE  /\ LogOK(s, <<>>)
         /\ \A type, id : Coming(s, <<>>, type, id) <=> Heard(s, type, id)
<1>1. <<>> \in Seq(Message) /\ Len(<<>>) = 0 /\ DOMAIN <<>> = {}
  BY EmptySeq
<1>2. \A i \in 1..(0 + 1 - 1) : FALSE
  OBVIOUS
<1> QED  BY <1>1, <1>2 DEF LogOK, Coming, Arrived

\* A run stays quiet when nothing starts it again.
LEMMA QuietTold ==
  ASSUME NEW s \in Told, NEW r \in Told, NEW p, NEW i,
         s.status \notin Timeline!Live => r.status \notin Timeline!Live,
         s.status = "WAITING_TOOL" => r.status # "RUNNING",
         Quiet(s, p, i)
  PROVE  Quiet(r, p, i)
<1>1. r.status \in Timeline!Live => r.status \in {"RUNNING", "WAITING_TOOL"}
  BY DEF Timeline!Live
<1> QED  BY <1>1 DEF Quiet

LEMMA QuietRead ==
  ASSUME NEW s \in Told, NEW r \in Told, NEW p \in Seq(Message), p # <<>>,
         NEW e, e = Head(p), NEW q, q = Tail(p),
         s.status \notin Timeline!Live => r.status \notin Timeline!Live,
         s.status = "WAITING_TOOL" /\ e.type # "TOOL_COMPLETE_REQUEST" => r.status # "RUNNING",
         e.type \in EndType => r.status # "RUNNING",
         NEW i \in 1..(Len(q) + 1), Quiet(s, p, i + 1)
  PROVE  Quiet(r, q, i)
<1>1. /\ q \in Seq(Message) /\ Len(q) \in Nat /\ Len(p) = Len(q) + 1 /\ p[1] = e
      /\ \A k \in 1..Len(q) : q[k] = p[k + 1]
  BY HeadTailProperties, PipeFacts
<1>2. \A k \in 1..(i - 1) : q[k] = p[k + 1] /\ k + 1 \in 1..(i + 1 - 1)
  BY <1>1
<1>3. 1 \in 1..(i + 1 - 1)
  BY <1>1
<1>4. r.status \in Timeline!Live => r.status \in {"RUNNING", "WAITING_TOOL"}
  BY DEF Timeline!Live
<1>5. CASE s.status \notin Timeline!Live
  BY <1>5 DEF Quiet
<1>6. CASE /\ s.status = "WAITING_TOOL"
           /\ \A k \in 1..(i + 1 - 1) : p[k].type # "TOOL_COMPLETE_REQUEST"
  <2>1. e.type # "TOOL_COMPLETE_REQUEST" /\ \A k \in 1..(i - 1) : q[k].type # "TOOL_COMPLETE_REQUEST"
    BY <1>1, <1>2, <1>3, <1>6
  <2> QED  BY <1>4, <1>6, <2>1 DEF Quiet
<1>7. ASSUME NEW j \in 1..(i + 1 - 1), p[j].type \in EndType,
             \A k \in (j + 1)..(i + 1 - 1) : p[k].type # "TOOL_COMPLETE_REQUEST"
      PROVE  Quiet(r, q, i)
  <2>1. CASE j = 1
    <3>1. \A k \in 1..(i - 1) : k + 1 \in (j + 1)..(i + 1 - 1)
      BY <1>1, <2>1
    <3>2. \A k \in 1..(i - 1) : q[k].type # "TOOL_COMPLETE_REQUEST"
      BY <1>2, <1>7, <3>1
    <3>3. r.status # "RUNNING"
      BY <1>1, <1>7, <2>1
    <3> QED  BY <1>4, <3>2, <3>3 DEF Quiet
  <2>2. CASE j # 1
    <3>1. j - 1 \in 1..(i - 1) /\ j - 1 + 1 = j
      BY <1>1, <2>2
    <3>2. q[j - 1].type \in EndType
      BY <1>2, <1>7, <3>1
    <3>3. \A k \in (j - 1 + 1)..(i - 1) : k \in 1..(i - 1) /\ k + 1 \in (j + 1)..(i + 1 - 1)
      BY <1>1, <2>2
    <3>4. \A k \in (j - 1 + 1)..(i - 1) : q[k].type # "TOOL_COMPLETE_REQUEST"
      BY <1>2, <1>7, <3>3
    <3> QED  BY <3>1, <3>2, <3>4 DEF Quiet
  <2> QED  BY <2>1, <2>2
<1> QED  BY <1>5, <1>6, <1>7 DEF Quiet

\* RUN_RETURNED is not read before the end of the run.
Settles(s, p) == \A i \in DOMAIN p : p[i].type = "RUN_RETURNED" => Quiet(s, p, i)

HeardStays(s, r) == \A type \in Named, id \in Names : Heard(s, type, id) => Heard(r, type, id)

\* An event passes the adapter: a worker writes it, and in process it is handled.
Passes(s, p, e, r, q) ==
  \/ mode = "worker" /\ r = s /\ q = Append(p, e)
  \/ mode # "worker" /\ r = Timeline!Handle(s, e) /\ q = p

\* What holds when new messages were written or handled; Hushed, that a run
\* that was to end still is.
Hushed(s, p, r, q) == Quiet(s, p, Len(p) + 1) => Quiet(r, q, Len(q) + 1)
Passed(s, p, new, r, q) ==
  /\ LogOK(r, q) /\ Settles(r, q) /\ (mode # "worker" => q = <<>>)
  /\ Ends(s, r) /\ HeardStays(s, r) /\ Brings(s, p, new, r, q)

LEMMA EventPasses ==
  ASSUME Timeline!Configured, NEW s, NEW p, LogOK(s, p), Settles(s, p), mode # "worker" => p = <<>>,
         NEW e \in Emitted, Follows(s, p, Len(p) + 1, e), NEW r, NEW q, Passes(s, p, e, r, q)
  PROVE  /\ Passed(s, p, {e}, r, q) /\ Hushed(s, p, r, q)
         /\ e.type \in EndType => Quiet(r, q, Len(q) + 1)
<1>0. /\ e \in Message /\ e.type # "RUN_RETURNED" /\ e.type # "TOOL_COMPLETE_REQUEST"
      /\ s \in Told /\ RowsOK(s) /\ p \in Seq(Message) /\ Len(p) \in Nat /\ DOMAIN p = 1..Len(p)
  BY PipeFacts DEF LogOK, Message, Emitted, ModelType, ToolType, AttemptType, EndType
<1>1. CASE mode = "worker"
  <2>1. r = s /\ q = Append(p, e)
    BY <1>1 DEF Passes
  <2>2. /\ LogOK(s, q) /\ Brings(s, p, {e}, s, q)
        /\ Len(q) = Len(p) + 1 /\ q[Len(q)] = e
        /\ \A i \in 1..Len(p) : q[i] = p[i]
        /\ \A i \in 1..(Len(p) + 1) : Quiet(s, p, i) => Quiet(s, q, i)
    <3>1. q = Append(p, e) /\ e \in Message
      BY <1>0, <2>1
    <3>2. Wrote(s, p, e, q)
      BY <3>1, LogWritten
    <3> QED  BY <3>2 DEF Wrote
  <2>3. DOMAIN q = 1..(Len(p) + 1)
    BY <2>2, PipeFacts DEF LogOK
  <2>4. Settles(s, q)
    <3> SUFFICES ASSUME NEW i \in DOMAIN q, q[i].type = "RUN_RETURNED"
                 PROVE  Quiet(s, q, i)
      BY DEF Settles
    <3>1. i \in 1..Len(p)
      BY <1>0, <2>2, <2>3
    <3>2. Quiet(s, p, i)
      BY <1>0, <2>2, <3>1 DEF Settles
    <3> QED  BY <2>2, <2>3, <3>2
  <2>5. Quiet(s, p, Len(p) + 1) \/ e.type \in EndType => Quiet(s, q, Len(q) + 1)
    <3>0. Len(q) + 1 - 1 = Len(q) /\ Len(p) + 1 - 1 = Len(p) /\ Len(q) \in 1..Len(q)
      BY <1>0, <2>2
    <3>1. CASE e.type \in EndType
      <4>1. \A k \in (Len(q) + 1)..(Len(q) + 1 - 1) : FALSE
        BY <1>0, <2>2
      <4> QED  BY <2>2, <3>0, <3>1, <4>1 DEF Quiet
    <3>2. ASSUME s.status = "WAITING_TOOL", \A k \in 1..Len(p) : p[k].type # "TOOL_COMPLETE_REQUEST"
          PROVE  Quiet(s, q, Len(q) + 1)
      <4>1. \A k \in 1..Len(q) : q[k].type # "TOOL_COMPLETE_REQUEST"
        BY <1>0, <2>2, <3>2
      <4> QED  BY <3>0, <3>2, <4>1 DEF Quiet
    <3>3. ASSUME NEW j \in 1..Len(p), p[j].type \in EndType,
                 \A k \in (j + 1)..Len(p) : p[k].type # "TOOL_COMPLETE_REQUEST"
          PROVE  Quiet(s, q, Len(q) + 1)
      <4>1. j \in 1..Len(q) /\ q[j].type \in EndType
        BY <1>0, <2>2, <3>3
      <4>2. ASSUME NEW k \in (j + 1)..Len(q)
            PROVE  q[k].type # "TOOL_COMPLETE_REQUEST"
        <5>1. CASE k = Len(q)
          BY <1>0, <2>2, <5>1
        <5>2. CASE k # Len(q)
          BY <1>0, <2>2, <3>3, <4>2, <5>2
        <5> QED  BY <5>1, <5>2
      <4> QED  BY <3>0, <4>1, <4>2 DEF Quiet
    <3>4. CASE s.status \notin Timeline!Live
      BY <3>4 DEF Quiet
    <3> QED  BY <3>0, <3>1, <3>2, <3>3, <3>4 DEF Quiet
  <2> QED  BY <1>1, <2>1, <2>2, <2>4, <2>5 DEF Passed, Hushed, Ends, HeardStays
<1>2. CASE mode # "worker"
  <2>1. r = Timeline!Handle(s, e) /\ q = p /\ p = <<>> /\ Len(p) = 0
    BY <1>2 DEF Passes
  <2>2. \A type, id : Arrived(s, p, Len(p) + 1, type, id) <=> Heard(s, type, id)
    BY <2>1 DEF Arrived
  <2>3. Due(s, e)
    BY <2>2 DEF Follows, Due
  <2>4. /\ r \in Told /\ RowsOK(r) /\ Learns(s, e, r) /\ Ends(s, r)
        /\ e.type \in EndType => r.status # "RUNNING"
        /\ s.status \notin Timeline!Live => r.status \notin Timeline!Live
    BY <1>0, <2>1, <2>3, HandleEffect
  <2>5. /\ LogOK(r, <<>>) /\ \A type, id : Coming(r, <<>>, type, id) <=> Heard(r, type, id)
    BY <2>4, LogFlushed
  <2>6. Brings(s, p, {e}, r, q)
    BY <2>1, <2>2, <2>4, <2>5 DEF Brings, Coming, Learns
  <2>7. Settles(r, q)
    BY <1>0, <2>1 DEF Settles
  <2>8. Quiet(s, p, Len(p) + 1) \/ e.type \in EndType => Quiet(r, q, Len(q) + 1)
    <3>1. \A k \in 1..(Len(p) + 1 - 1) : FALSE
      BY <2>1
    <3>2. ASSUME Quiet(s, p, Len(p) + 1)
          PROVE  s.status # "RUNNING"
      BY <3>1, <3>2 DEF Quiet, Timeline!Live
    <3>3. Quiet(s, p, Len(p) + 1) \/ e.type \in EndType => r.status # "RUNNING"
      BY <2>4, <3>2 DEF Ends, Timeline!Live
    <3>4. r.status # "RUNNING" => r.status \notin Timeline!Live \/ r.status = "WAITING_TOOL"
      BY DEF Timeline!Live
    <3> QED  BY <2>1, <3>1, <3>3, <3>4 DEF Quiet
  <2> QED  BY <2>1, <2>4, <2>5, <2>6, <2>7, <2>8 DEF Passed, Hushed, HeardStays, Learns
<1> QED  BY <1>1, <1>2

-----------------------------------------------------------------------------
(* What the invariant says of the log, and of what passes the adapter *)

LEMMA InvFacts ==
  ASSUME TimelineIInv
  PROVE  /\ LogOK(told, pipe) /\ Settles(told, pipe) /\ (mode # "worker" => pipe = <<>>)
         /\ told \in Told /\ RowsOK(told) /\ pipe \in Seq(Message) /\ Len(pipe) \in Nat
<1>1. LogOK(told, pipe) /\ StageInv
  BY DEF TimelineIInv
<1>2. Settles(told, pipe) /\ (mode # "worker" => pipe = <<>>)
  BY <1>1 DEF StageInv, Settles
<1> QED  BY <1>1, <1>2, PipeFacts DEF LogOK

LEMMA EmitOne ==
  ASSUME Timeline!Configured, TimelineIInv, NEW e \in Emitted, Follows(told, pipe, Len(pipe) + 1, e),
         Timeline!Emit(<<e>>)
  PROVE  /\ Passed(told, pipe, {e}, told', pipe') /\ Hushed(told, pipe, told', pipe')
         /\ e.type \in EndType => Quiet(told, pipe, Len(pipe) + 1)'
<1>1. Len(<<e>>) = 1 /\ <<e>>[1] = e
  OBVIOUS
<1>2. Passes(told, pipe, e, told', pipe')
  <2>1. CASE mode = "worker"
    <3>1. pipe' = pipe \o <<e>> /\ told' = told
      BY <2>1 DEF Timeline!Emit
    <3>2. pipe' = Append(pipe, e)
      BY <3>1, InvFacts, AppendIsConcat DEF Message
    <3> QED  BY <2>1, <3>1, <3>2 DEF Passes
  <2>2. CASE mode # "worker"
    BY <1>1, <2>2 DEF Timeline!Emit, Passes
  <2> QED  BY <2>1, <2>2
<1> QED  BY <1>2, InvFacts, EventPasses

LEMMA EmitTwo ==
  ASSUME TimelineIInv, NEW e \in Emitted, NEW f \in Emitted, Timeline!Emit(<<e, f>>)
  PROVE  \E r, q : Passes(told, pipe, e, r, q) /\ Passes(r, q, f, told', pipe')
<1>1. Len(<<e, f>>) = 2 /\ <<e, f>>[1] = e /\ <<e, f>>[2] = f
  OBVIOUS
<1>2. CASE mode = "worker"
  <2>1. pipe' = pipe \o <<e, f>> /\ told' = told
    BY <1>2 DEF Timeline!Emit
  <2>2. e \in Message /\ f \in Message /\ pipe \in Seq(Message)
    BY InvFacts DEF Message
  <2>3. pipe \o <<e, f>> = Append(Append(pipe, e), f)
    BY <2>2
  <2> QED  BY <1>2, <2>1, <2>3 DEF Passes
<1>3. CASE mode # "worker"
  <2>1. told' = Timeline!Handle(Timeline!Handle(told, e), f) /\ pipe' = pipe
    BY <1>1, <1>3 DEF Timeline!Emit
  <2> QED  BY <1>3, <2>1 DEF Passes
<1> QED  BY <1>2, <1>3

-----------------------------------------------------------------------------
(* The session's steps *)

SessionType ==
  [call : TimelineCall \cup {Null}, spoken : BOOLEAN,
   last : {"none", "stop", "toolUse", "aborted", "error", "retry", "settled"}]
CallStates == [TimelineCall -> {"fresh", "begun", "ended", "lost"}]
ToolStates ==
  [TimelineTool -> {"none", "started", "asked", "running", "reported", "answered", "ended"}]

LEMMA StageKept ==
  ASSUME TimelineIInv, NEW new, Passed(told, pipe, new, told', pipe'),
         stage \in {"open", "opening"}, stage' = "open",
         UNCHANGED <<mode, execution, listening, aborting>>,
         session'.last = "settled" => (Timeline!Executing = {})' /\ Quiet(told, pipe, Len(pipe) + 1)'
  PROVE  StageInv'
<1>1. /\ LogOK(told', pipe') /\ Settles(told', pipe') /\ (mode # "worker" => pipe' = <<>>)
      /\ Ends(told, told')
  BY DEF Passed
<1>2. /\ execution \in Nat /\ listening \in BOOLEAN /\ aborting \in BOOLEAN /\ listening
      /\ mode # "worker" => told.status # "WAITING_TOOL"
  BY DEF TimelineIInv, StageInv
<1>3. mode' # "worker" => told'.status # "WAITING_TOOL"
  BY <1>1, <1>2 DEF Ends, Timeline!Live
<1>4. (\A i \in DOMAIN pipe : pipe[i].type = "RUN_RETURNED" => Quiet(told, pipe, i))'
  BY <1>1 DEF Settles
<1>5. listening' /\ listening' \in BOOLEAN /\ aborting' \in BOOLEAN /\ execution' \in Nat
  BY <1>2
<1> QED  BY <1>1, <1>3, <1>4, <1>5 DEF StageInv

LEMMA ToolsKept ==
  ASSUME TimelineIInv, NEW new, Passed(told, pipe, new, told', pipe'),
         tools' \in ToolStates, executions' = executions,
         stage' = "open", stage \in {"open", "opening"},
         \A t \in TimelineTool :
           /\ tools'[t] = "running" => tools[t] = "running"
           /\ tools'[t] = "started" => tools[t] = "started" \/ [type |-> "TOOL_STARTED", id |-> t] \in new
  PROVE  ToolInv'
<1>1. /\ Ends(told, told') /\ HeardStays(told, told') /\ Brings(told, pipe, new, told', pipe')
  BY DEF Passed
<1>2. ToolInv
  BY DEF TimelineIInv
<1>3. "TOOL_STARTED" \in Named /\ TimelineTool \subseteq Names
  BY DEF Named, Names
<1>4. told'.status = "WAITING_TOOL" => \E t \in TimelineTool : executions'[t] = "PREPARED"
  BY <1>1, <1>2 DEF Ends, ToolInv, Timeline!Live
<1>5. ASSUME NEW t \in TimelineTool
      PROVE  /\ executions'[t] # "none" => Heard(told', "TOOL_STARTED", t)
             /\ tools'[t] = "started" => Coming(told', pipe', "TOOL_STARTED", t)
             /\ tools'[t] = "running" => executions'[t] # "none"
  <2>1. executions[t] # "none" => Heard(told, "TOOL_STARTED", t)
    BY <1>2 DEF ToolInv
  <2>2. tools[t] = "started" => Coming(told, pipe, "TOOL_STARTED", t)
    BY <1>2 DEF ToolInv
  <2>3. tools[t] = "running" => executions[t] # "none"
    BY <1>2 DEF ToolInv
  <2>4. Heard(told, "TOOL_STARTED", t) => Heard(told', "TOOL_STARTED", t)
    BY <1>1, <1>3 DEF HeardStays
  <2>5. Coming(told', pipe', "TOOL_STARTED", t)
          <=> Coming(told, pipe, "TOOL_STARTED", t) \/ [type |-> "TOOL_STARTED", id |-> t] \in new
    BY <1>1, <1>3 DEF Brings
  <2> QED  BY <2>1, <2>2, <2>3, <2>4, <2>5
<1>6. executions' \in [TimelineTool -> {"none", "PREPARED", "SETTLED"}]
  BY <1>2 DEF ToolInv
<1>7. \A t \in TimelineTool : stage' \in {"control", "sandbox", "opening"} => tools'[t] = "none"
  OBVIOUS
<1> QED  BY <1>4, <1>5, <1>6, <1>7 DEF ToolInv, ToolStates

\* Session and calls follow the log.
LEMMA CallsKept ==
  ASSUME TimelineIInv, NEW new, Brings(told, pipe, new, told', pipe'),
         calls' \in CallStates, session' \in SessionType,
         \A c \in TimelineCall :
           calls'[c] = "ended" <=> calls[c] = "ended" \/ [type |-> "MODEL_COMPLETED", id |-> c] \in new,
         stage' = "open" /\ session'.call # Null =>
           /\ calls'[session'.call] = "begun"
           /\ Coming(told', pipe', "MODEL_STARTED", session'.call)
           /\ session'.spoken => Coming(told', pipe', "MODEL_FIRST_TOKEN", session'.call)
  PROVE  CallInv'
<1>1. "MODEL_COMPLETED" \in Named /\ TimelineCall \subseteq Names
  BY DEF Named, ModelType, Names
<1>2. \A c \in TimelineCall : Coming(told, pipe, "MODEL_COMPLETED", c) <=> calls[c] = "ended"
  BY DEF TimelineIInv, CallInv
<1>3. \A c \in TimelineCall : Coming(told', pipe', "MODEL_COMPLETED", c) <=> calls'[c] = "ended"
  BY <1>1, <1>2 DEF Brings
<1> QED  BY <1>3 DEF CallInv, CallStates, SessionType

LEMMA InvTypes ==
  ASSUME TimelineIInv
  PROVE  calls \in CallStates /\ session \in SessionType /\ tools \in ToolStates
BY DEF TimelineIInv, CallInv, ToolInv, CallStates, SessionType, ToolStates

LEMMA OpenSessionKeeps ==
  ASSUME Timeline!Configured, TimelineIInv, stage = "opening", Timeline!OpenSession
  PROVE  TimelineIInv'
<1>0. PICK a \in Nat : a = execution
  BY DEF TimelineIInv, StageInv
<1> DEFINE e == [type |-> "SESSION_INITIALIZED", id |-> a]
<1>1. e \in Emitted /\ e.type \notin Named /\ e.type = "SESSION_INITIALIZED"
  BY DEF Emitted, AttemptType, Named, ModelType
<1>2. Timeline!Emit(<<e>>)
  BY <1>0 DEF Timeline!OpenSession, Timeline!Event
<1>3. \A type \in Named : \A id : [type |-> type, id |-> id] \notin {e}
  BY <1>1
<1> HIDE DEF e
<1>4. Follows(told, pipe, Len(pipe) + 1, e)
  BY <1>1 DEF Follows
<1>5. Passed(told, pipe, {e}, told', pipe')
  BY <1>1, <1>2, <1>4, EmitOne
<1>6. /\ stage' = "open" /\ session' = Timeline!NoSession
      /\ UNCHANGED <<mode, execution, tools, executions, listening, aborting, calls>>
  BY DEF Timeline!OpenSession, Timeline!fixed
<1>7. session' \in SessionType /\ session'.call = Null /\ session'.last = "none"
  BY <1>6 DEF Timeline!NoSession, SessionType
<1>8. CallInv'
  <2>1. \A c \in TimelineCall :
          calls'[c] = "ended" <=> calls[c] = "ended" \/ [type |-> "MODEL_COMPLETED", id |-> c] \in {e}
    BY <1>3, <1>6 DEF Named, ModelType
  <2> QED  BY <1>5, <1>6, <1>7, <2>1, InvTypes, CallsKept DEF Passed
<1>9. ToolInv'
  <2>1. \A t \in TimelineTool : tools[t] = "none"
    BY DEF TimelineIInv, ToolInv
  <2> QED  BY <1>5, <1>6, <2>1, InvTypes, ToolsKept
<1>10. StageInv'
  BY <1>5, <1>6, <1>7, StageKept
<1> QED  BY <1>5, <1>8, <1>9, <1>10 DEF TimelineIInv, Passed

LEMMA MessageStartKeeps ==
  ASSUME Timeline!Configured, TimelineIInv, NEW c \in TimelineCall, Timeline!MessageStart(c)
  PROVE  TimelineIInv'
<1> DEFINE e == [type |-> "MODEL_STARTED", id |-> c]
<1>1. e \in Emitted /\ e.type = "MODEL_STARTED"
  BY DEF Emitted, ModelType
<1>2. Timeline!Emit(<<e>>)
  BY DEF Timeline!MessageStart, Timeline!Event
<1>3. \A type, id : [type |-> type, id |-> id] \in {e} <=> type = "MODEL_STARTED" /\ id = c
  OBVIOUS
<1> HIDE DEF e
<1>4. Follows(told, pipe, Len(pipe) + 1, e)
  BY <1>1 DEF Follows
<1>5. Passed(told, pipe, {e}, told', pipe')
  BY <1>1, <1>2, <1>4, EmitOne
<1>6. /\ stage = "open" /\ stage' = "open"
      /\ session' = [session EXCEPT !.call = c, !.spoken = FALSE]
      /\ session.last \in {"none", "toolUse", "retry"}
      /\ calls[c] = "fresh" /\ calls' = [calls EXCEPT ![c] = "begun"]
      /\ UNCHANGED <<mode, execution, tools, executions, listening, aborting>>
  BY DEF Timeline!MessageStart, Timeline!fixed
<1>7. /\ session' \in SessionType /\ session'.call = c /\ session'.last = session.last
      /\ session'.spoken = FALSE
  BY <1>6, InvTypes DEF SessionType
<1>8. calls' \in CallStates /\ calls'[c] = "begun"
      /\ \A d \in TimelineCall : calls'[d] = "ended" <=> calls[d] = "ended"
  BY <1>6, InvTypes DEF CallStates
<1>9. CallInv'
  <2>1. \A d \in TimelineCall :
          calls'[d] = "ended" <=> calls[d] = "ended" \/ [type |-> "MODEL_COMPLETED", id |-> d] \in {e}
    BY <1>3, <1>8
  <2>2. Brings(told, pipe, {e}, told', pipe')
    BY <1>5 DEF Passed
  <2>3. Coming(told', pipe', "MODEL_STARTED", c)
    BY <1>3, <2>2 DEF Brings, Named, ModelType, Names
  <2> QED  BY <1>7, <1>8, <2>1, <2>2, <2>3, CallsKept
<1>10. ToolInv'
  BY <1>5, <1>6, InvTypes, ToolsKept
<1>11. StageInv'
  <2>1. session'.last # "settled"
    BY <1>6, <1>7
  <2> QED  BY <1>5, <1>6, <2>1, StageKept
<1> QED  BY <1>5, <1>9, <1>10, <1>11 DEF TimelineIInv, Passed

LEMMA ConcatPair ==
  ASSUME NEW U, NEW a \in U, NEW b \in U
  PROVE  <<a>> \o <<b>> = <<a, b>>
<1>1. /\ <<a>> \in Seq(U) /\ Len(<<a>>) = 1 /\ <<a>>[1] = a
      /\ <<a, b>> \in Seq(U) /\ Len(<<a, b>>) = 2 /\ <<a, b>>[1] = a /\ <<a, b>>[2] = b
  OBVIOUS
<1>2. /\ Append(<<a>>, b) \in Seq(U) /\ Len(Append(<<a>>, b)) = 2
      /\ Append(<<a>>, b)[1] = a /\ Append(<<a>>, b)[2] = b
  BY <1>1, AppendProperties
<1>3. \A i \in 1..2 : Append(<<a>>, b)[i] = <<a, b>>[i]
  BY <1>1, <1>2
<1>4. Append(<<a>>, b) = <<a, b>>
  BY <1>1, <1>2, <1>3, SeqEqual
<1>5. Append(<<a>>, b) = <<a>> \o <<b>>
  BY <1>1, AppendIsConcat
<1> QED  BY <1>4, <1>5

\* What the current call of an open session has said already.
LEMMA CurrentCall ==
  ASSUME TimelineIInv, stage = "open", session.call # Null
  PROVE  /\ session.call \in TimelineCall /\ calls[session.call] = "begun"
         /\ Arrived(told, pipe, Len(pipe) + 1, "MODEL_STARTED", session.call)
         /\ ~Arrived(told, pipe, Len(pipe) + 1, "MODEL_COMPLETED", session.call)
         /\ session.spoken => Coming(told, pipe, "MODEL_FIRST_TOKEN", session.call)
<1>1. CallInv /\ session.call \in TimelineCall
  BY DEF TimelineIInv, CallInv
<1>2. /\ calls[session.call] = "begun"
      /\ Coming(told, pipe, "MODEL_STARTED", session.call)
      /\ session.spoken => Coming(told, pipe, "MODEL_FIRST_TOKEN", session.call)
  BY <1>1 DEF CallInv
<1>3. ~Coming(told, pipe, "MODEL_COMPLETED", session.call)
  BY <1>1, <1>2 DEF CallInv
<1> QED  BY <1>1, <1>2, <1>3 DEF Coming

\* Two steps of the log in a row.
LEMMA PassedTwice ==
  ASSUME NEW s, NEW p, NEW new, NEW r, NEW q, NEW new2, NEW r2, NEW q2,
         Passed(s, p, new, r, q), Hushed(s, p, r, q),
         Passed(r, q, new2, r2, q2), Hushed(r, q, r2, q2)
  PROVE  Passed(s, p, new \cup new2, r2, q2) /\ Hushed(s, p, r2, q2)
<1>1. Ends(s, r2)
  BY DEF Passed, Ends
<1>2. HeardStays(s, r2)
  BY DEF Passed, HeardStays
<1>3. Brings(s, p, new \cup new2, r2, q2)
  BY DEF Passed, Brings
<1> QED  BY <1>1, <1>2, <1>3 DEF Passed, Hushed

LEMMA MessageUpdateLog ==
  ASSUME Timeline!Configured, TimelineIInv, NEW channel \in Channel, Timeline!MessageUpdate(channel),
         NEW c, c = session.call
  PROVE  \E new : /\ Passed(told, pipe, new, told', pipe') /\ Hushed(told, pipe, told', pipe')
                  /\ \A type, id : [type |-> type, id |-> id] \in new =>
                       type \in {"MODEL_FIRST_TOKEN", "delta"}
                  /\ Coming(told', pipe', "MODEL_FIRST_TOKEN", c)
<1> DEFINE token == [type |-> "MODEL_FIRST_TOKEN", id |-> c]
           delta == [type |-> "delta", id |-> channel]
<1>1. /\ stage = "open" /\ session.call # Null
      /\ Timeline!Emit((IF session.spoken THEN <<>> ELSE <<token>>) \o <<delta>>)
  BY DEF Timeline!MessageUpdate, Timeline!Event
<1>2. /\ c \in TimelineCall
      /\ Arrived(told, pipe, Len(pipe) + 1, "MODEL_STARTED", c)
      /\ ~Arrived(told, pipe, Len(pipe) + 1, "MODEL_COMPLETED", c)
      /\ session.spoken => Coming(told, pipe, "MODEL_FIRST_TOKEN", c)
  BY <1>1, CurrentCall
<1>3. /\ token \in Emitted /\ token.type = "MODEL_FIRST_TOKEN" /\ token.id = c
      /\ delta \in Emitted /\ delta.type = "delta"
  BY <1>2 DEF Emitted, ModelType
<1>4. \A type, id : [type |-> type, id |-> id] \in {token} <=> type = "MODEL_FIRST_TOKEN" /\ id = c
  OBVIOUS
<1>5. \A type, id : [type |-> type, id |-> id] \in {delta} => type = "delta"
  OBVIOUS
<1>6. "MODEL_FIRST_TOKEN" \in Named /\ c \in Names
  BY <1>2 DEF Named, ModelType, Names
<1> HIDE DEF token, delta
<1>7. CASE session.spoken
  <2>1. Timeline!Emit(<<delta>>)
    <3>1. <<>> \o <<delta>> = <<delta>>
      BY <1>3, ConcatEmptySeq
    <3> QED  BY <1>1, <1>7, <3>1
  <2>2. Follows(told, pipe, Len(pipe) + 1, delta)
    BY <1>2, <1>3, <1>7 DEF Follows, Coming
  <2>3. Passed(told, pipe, {delta}, told', pipe') /\ Hushed(told, pipe, told', pipe')
    BY <1>3, <2>1, <2>2, EmitOne
  <2>4. Coming(told', pipe', "MODEL_FIRST_TOKEN", c)
    BY <1>2, <1>6, <1>7, <2>3 DEF Passed, Brings
  <2> QED  BY <1>5, <2>3, <2>4
<1>8. CASE ~session.spoken
  <2>1. Timeline!Emit(<<token, delta>>)
    <3>1. <<token>> \o <<delta>> = <<token, delta>>
      BY <1>3, ConcatPair
    <3> QED  BY <1>1, <1>8, <3>1
  <2>2. PICK r, q : Passes(told, pipe, token, r, q) /\ Passes(r, q, delta, told', pipe')
    BY <1>3, <2>1, EmitTwo
  <2>3. Follows(told, pipe, Len(pipe) + 1, token)
    BY <1>2, <1>3 DEF Follows
  <2>4. Passed(told, pipe, {token}, r, q) /\ Hushed(told, pipe, r, q)
    BY <1>3, <2>2, <2>3, InvFacts, EventPasses
  <2>5. Coming(r, q, "MODEL_FIRST_TOKEN", c)
    BY <1>4, <1>6, <2>4 DEF Passed, Brings
  <2>6. Follows(r, q, Len(q) + 1, delta)
    BY <1>2, <1>3, <2>5 DEF Follows, Coming
  <2>7. Passed(r, q, {delta}, told', pipe') /\ Hushed(r, q, told', pipe')
    <3>1. LogOK(r, q) /\ Settles(r, q) /\ (mode # "worker" => q = <<>>)
      BY <2>4 DEF Passed
    <3> QED  BY <1>3, <2>2, <2>6, <3>1, EventPasses
  <2>8. Passed(told, pipe, {token} \cup {delta}, told', pipe') /\ Hushed(told, pipe, told', pipe')
    BY <2>4, <2>7, PassedTwice
  <2>9. Coming(told', pipe', "MODEL_FIRST_TOKEN", c)
    BY <1>6, <2>5, <2>7 DEF Passed, Brings
  <2> QED  BY <1>4, <1>5, <2>8, <2>9
<1> QED  BY <1>7, <1>8

LEMMA MessageUpdateKeeps ==
  ASSUME Timeline!Configured, TimelineIInv, NEW channel \in Channel, Timeline!MessageUpdate(channel)
  PROVE  TimelineIInv'
<1>0. PICK c : c = session.call
  OBVIOUS
<1>1. PICK new : /\ Passed(told, pipe, new, told', pipe') /\ Hushed(told, pipe, told', pipe')
                 /\ \A type, id : [type |-> type, id |-> id] \in new =>
                      type \in {"MODEL_FIRST_TOKEN", "delta"}
                 /\ Coming(told', pipe', "MODEL_FIRST_TOKEN", c)
  BY <1>0, MessageUpdateLog
<1>2. /\ stage = "open" /\ stage' = "open" /\ session.call # Null
      /\ session' = [session EXCEPT !.spoken = TRUE]
      /\ UNCHANGED <<mode, execution, tools, executions, listening, aborting, calls>>
  BY DEF Timeline!MessageUpdate, Timeline!fixed
<1>3. /\ session' \in SessionType /\ session'.call = c /\ session'.last = session.last
  BY <1>0, <1>2, InvTypes DEF SessionType
<1>4. /\ c \in TimelineCall /\ calls[c] = "begun"
      /\ Coming(told, pipe, "MODEL_STARTED", c)
  BY <1>0, <1>2, CurrentCall DEF Coming
<1>5. CallInv'
  <2>1. \A d \in TimelineCall :
          calls'[d] = "ended" <=> calls[d] = "ended" \/ [type |-> "MODEL_COMPLETED", id |-> d] \in new
    BY <1>1, <1>2
  <2>2. Brings(told, pipe, new, told', pipe')
    BY <1>1 DEF Passed
  <2>3. Coming(told', pipe', "MODEL_STARTED", c)
    BY <1>4, <2>2 DEF Brings, Named, ModelType, Names
  <2>4. calls' \in CallStates /\ calls'[c] = "begun"
    BY <1>2, <1>4, InvTypes
  <2> QED  BY <1>1, <1>3, <2>1, <2>2, <2>3, <2>4, CallsKept
<1>6. ToolInv'
  BY <1>1, <1>2, InvTypes, ToolsKept
<1>7. StageInv'
  <2>1. session.last = "settled" => Timeline!Executing = {} /\ Quiet(told, pipe, Len(pipe) + 1)
    BY <1>2 DEF TimelineIInv, StageInv
  <2>2. (Timeline!Executing)' = Timeline!Executing
    BY <1>2 DEF Timeline!Executing
  <2>3. session'.last = "settled" => (Timeline!Executing = {})' /\ Quiet(told, pipe, Len(pipe) + 1)'
    BY <1>1, <1>3, <2>1, <2>2 DEF Hushed
  <2> QED  BY <1>1, <1>2, <2>3, StageKept
<1> QED  BY <1>1, <1>5, <1>6, <1>7 DEF TimelineIInv, Passed

LEMMA MessageEndKeeps ==
  ASSUME Timeline!Configured, TimelineIInv, NEW reason \in {"stop", "toolUse", "aborted", "error"},
         Timeline!MessageEnd(reason)
  PROVE  TimelineIInv'
<1>0. PICK c : c = session.call
  OBVIOUS
<1>1. /\ stage = "open" /\ stage' = "open" /\ session.call # Null
      /\ session' = [session EXCEPT !.call = Null, !.spoken = FALSE, !.last = reason]
      /\ calls' = [calls EXCEPT ![c] = "ended"]
      /\ UNCHANGED <<mode, execution, tools, executions, listening, aborting>>
  BY <1>0 DEF Timeline!MessageEnd, Timeline!fixed
<1>2. /\ c \in TimelineCall
      /\ Arrived(told, pipe, Len(pipe) + 1, "MODEL_STARTED", c)
      /\ ~Arrived(told, pipe, Len(pipe) + 1, "MODEL_COMPLETED", c)
  BY <1>0, <1>1, CurrentCall
<1> DEFINE e == [type |-> "MODEL_COMPLETED", id |-> c]
<1>3. e \in Emitted /\ e.type = "MODEL_COMPLETED" /\ e.id = c
  BY <1>2 DEF Emitted, ModelType
<1>4. Timeline!Emit(<<e>>)
  BY <1>0 DEF Timeline!MessageEnd, Timeline!Event
<1>5. \A type, id : [type |-> type, id |-> id] \in {e} <=> type = "MODEL_COMPLETED" /\ id = c
  OBVIOUS
<1> HIDE DEF e
<1>6. Follows(told, pipe, Len(pipe) + 1, e)
  BY <1>2, <1>3 DEF Follows
<1>7. Passed(told, pipe, {e}, told', pipe')
  BY <1>3, <1>4, <1>6, EmitOne
<1>8. session' \in SessionType /\ session'.call = Null /\ session'.last = reason
  BY <1>1, InvTypes DEF SessionType
<1>9. calls' \in CallStates
      /\ \A d \in TimelineCall : calls'[d] = "ended" <=> calls[d] = "ended" \/ d = c
  BY <1>1, InvTypes DEF CallStates
<1>10. CallInv'
  <2>1. \A d \in TimelineCall :
          calls'[d] = "ended" <=> calls[d] = "ended" \/ [type |-> "MODEL_COMPLETED", id |-> d] \in {e}
    BY <1>5, <1>9
  <2>2. Brings(told, pipe, {e}, told', pipe')
    BY <1>7 DEF Passed
  <2> QED  BY <1>8, <1>9, <2>1, <2>2, CallsKept
<1>11. ToolInv'
  BY <1>1, <1>7, InvTypes, ToolsKept
<1>12. StageInv'
  BY <1>1, <1>7, <1>8, StageKept
<1> QED  BY <1>7, <1>10, <1>11, <1>12 DEF TimelineIInv, Passed

LEMMA ToolExecutionStartKeeps ==
  ASSUME Timeline!Configured, TimelineIInv, NEW t \in TimelineTool, Timeline!ToolExecutionStart(t)
  PROVE  TimelineIInv'
<1> DEFINE e == [type |-> "TOOL_STARTED", id |-> t]
<1>1. e \in Emitted /\ e.type = "TOOL_STARTED"
  BY DEF Emitted, ToolType
<1>2. Timeline!Emit(<<e>>)
  BY DEF Timeline!ToolExecutionStart, Timeline!Event
<1>3. \A type, id : [type |-> type, id |-> id] \in {e} <=> type = "TOOL_STARTED" /\ id = t
  OBVIOUS
<1> HIDE DEF e
<1>4. Follows(told, pipe, Len(pipe) + 1, e)
  BY <1>1 DEF Follows
<1>5. Passed(told, pipe, {e}, told', pipe')
  BY <1>1, <1>2, <1>4, EmitOne
<1>6. /\ stage = "open" /\ stage' = "open" /\ session.call = Null /\ session.last = "toolUse"
      /\ tools' = [tools EXCEPT ![t] = "started"]
      /\ UNCHANGED <<mode, execution, session, executions, listening, aborting, calls>>
  BY DEF Timeline!ToolExecutionStart, Timeline!fixed
<1>7. tools' \in ToolStates /\ \A u \in TimelineTool : tools'[u] = IF u = t THEN "started" ELSE tools[u]
  BY <1>6, InvTypes DEF ToolStates
<1>8. CallInv'
  <2>1. \A d \in TimelineCall :
          calls'[d] = "ended" <=> calls[d] = "ended" \/ [type |-> "MODEL_COMPLETED", id |-> d] \in {e}
    BY <1>3, <1>6
  <2> QED  BY <1>5, <1>6, <2>1, InvTypes, CallsKept DEF Passed
<1>9. ToolInv'
  <2>1. \A u \in TimelineTool :
          /\ tools'[u] = "running" => tools[u] = "running"
          /\ tools'[u] = "started" => tools[u] = "started" \/ [type |-> "TOOL_STARTED", id |-> u] \in {e}
    BY <1>3, <1>7
  <2> QED  BY <1>5, <1>6, <1>7, <2>1, ToolsKept
<1>10. StageInv'
  <2>1. session'.last # "settled"
    BY <1>6
  <2> QED  BY <1>5, <1>6, <2>1, StageKept
<1> QED  BY <1>5, <1>8, <1>9, <1>10 DEF TimelineIInv, Passed

LEMMA ToolExecutionEndKeeps ==
  ASSUME Timeline!Configured, TimelineIInv, NEW t \in TimelineTool, Timeline!ToolExecutionEnd(t)
  PROVE  TimelineIInv'
<1>0. PICK type \in {"TOOL_COMPLETED", "TOOL_FAILED"} : Timeline!Emit(<<Timeline!Event(type, t)>>)
  BY DEF Timeline!ToolExecutionEnd
<1> DEFINE e == [type |-> type, id |-> t]
<1>1. e \in Emitted /\ e.type \in {"TOOL_COMPLETED", "TOOL_FAILED"}
  BY DEF Emitted, ToolType
<1>2. Timeline!Emit(<<e>>)
  BY <1>0 DEF Timeline!Event
<1>3. \A type2, id : [type |-> type2, id |-> id] \in {e} => type2 \in {"TOOL_COMPLETED", "TOOL_FAILED"}
  OBVIOUS
<1> HIDE DEF e
<1>4. Follows(told, pipe, Len(pipe) + 1, e)
  BY <1>1 DEF Follows
<1>5. Passed(told, pipe, {e}, told', pipe')
  BY <1>1, <1>2, <1>4, EmitOne
<1>6. /\ stage = "open" /\ stage' = "open"
      /\ tools[t] \in {"asked", "reported", "answered"}
      /\ tools' = [tools EXCEPT ![t] = "ended"]
      /\ UNCHANGED <<mode, execution, session, executions, listening, aborting, calls>>
  BY DEF Timeline!ToolExecutionEnd, Timeline!fixed
<1>7. tools' \in ToolStates /\ \A u \in TimelineTool : tools'[u] = IF u = t THEN "ended" ELSE tools[u]
  BY <1>6, InvTypes DEF ToolStates
<1>8. CallInv'
  <2>1. \A d \in TimelineCall :
          calls'[d] = "ended" <=> calls[d] = "ended" \/ [type |-> "MODEL_COMPLETED", id |-> d] \in {e}
    BY <1>3, <1>6
  <2>2. Brings(told, pipe, {e}, told', pipe')
    BY <1>5 DEF Passed
  <2>3. session.call # Null =>
          /\ calls[session.call] = "begun"
          /\ Coming(told', pipe', "MODEL_STARTED", session.call)
          /\ session.spoken => Coming(told', pipe', "MODEL_FIRST_TOKEN", session.call)
    BY <1>6, <2>2, CurrentCall DEF Brings, Coming, Named, ModelType, Names
  <2>4. session'.call = session.call /\ session'.spoken = session.spoken /\ calls' = calls
    BY <1>6
  <2>5. session' \in SessionType /\ calls' \in CallStates
    BY <1>6, InvTypes
  <2>6. stage' = "open" /\ session'.call # Null =>
          /\ calls'[session'.call] = "begun"
          /\ Coming(told', pipe', "MODEL_STARTED", session'.call)
          /\ session'.spoken => Coming(told', pipe', "MODEL_FIRST_TOKEN", session'.call)
    BY <2>3, <2>4
  <2> QED  BY <2>1, <2>2, <2>5, <2>6, CallsKept
<1>9. ToolInv'
  <2>1. \A u \in TimelineTool :
          /\ tools'[u] = "running" => tools[u] = "running"
          /\ tools'[u] = "started" => tools[u] = "started" \/ [type |-> "TOOL_STARTED", id |-> u] \in {e}
    BY <1>7
  <2> QED  BY <1>5, <1>6, <1>7, <2>1, ToolsKept
<1>10. StageInv'
  <2>1. t \in Timeline!Executing
    BY <1>6 DEF Timeline!Executing
  <2>2. session.last # "settled"
    BY <1>6, <2>1 DEF TimelineIInv, StageInv
  <2> QED  BY <1>5, <1>6, <2>2, StageKept
<1> QED  BY <1>5, <1>8, <1>9, <1>10 DEF TimelineIInv, Passed

LEMMA AgentEndKeeps ==
  ASSUME Timeline!Configured, TimelineIInv, Timeline!AgentEnd
  PROVE  TimelineIInv'
<1>1. /\ stage = "open" /\ stage' = "open" /\ session.call = Null /\ Timeline!Executing = {}
      /\ UNCHANGED <<mode, execution, tools, executions, listening, aborting, calls>>
  BY DEF Timeline!AgentEnd, Timeline!fixed
<1>2. (Timeline!Executing = {})'
  BY <1>1 DEF Timeline!Executing
<1>3. CASE session' = [session EXCEPT !.last = "retry"] /\ UNCHANGED <<told, pipe>>
  <2>1. session' \in SessionType /\ session'.call = Null /\ session'.last = "retry"
    BY <1>1, <1>3, InvTypes DEF SessionType
  <2>2. LogOK(told, pipe)' /\ ToolInv'
    BY <1>1, <1>3 DEF TimelineIInv, LogOK, ToolInv
  <2>3. CallInv'
    BY <1>1, <1>3, <2>1 DEF TimelineIInv, CallInv, SessionType
  <2>4. StageInv'
    BY <1>1, <1>3, <2>1 DEF TimelineIInv, StageInv
  <2> QED  BY <2>2, <2>3, <2>4 DEF TimelineIInv
<1>4. CASE \E type \in EndType : /\ session' = [session EXCEPT !.last = "settled"]
                                 /\ Timeline!Emit(<<Timeline!Event(type, Null)>>)
  <2>0. PICK type \in EndType : Timeline!Emit(<<Timeline!Event(type, Null)>>)
    BY <1>4
  <2> DEFINE e == [type |-> type, id |-> Null]
  <2>1. e \in Emitted /\ e.type \in EndType
    BY DEF Emitted
  <2>2. Timeline!Emit(<<e>>)
    BY <2>0 DEF Timeline!Event
  <2>3. \A type2, id : [type |-> type2, id |-> id] \in {e} => type2 \in EndType
    OBVIOUS
  <2> HIDE DEF e
  <2>4. Follows(told, pipe, Len(pipe) + 1, e)
    BY <2>1 DEF Follows, EndType
  <2>5. Passed(told, pipe, {e}, told', pipe') /\ Quiet(told, pipe, Len(pipe) + 1)'
    BY <2>1, <2>2, <2>4, EmitOne
  <2>6. session' \in SessionType /\ session'.call = Null
    BY <1>1, <1>4, InvTypes DEF SessionType
  <2>7. CallInv'
    <3>1. \A d \in TimelineCall :
            calls'[d] = "ended" <=> calls[d] = "ended" \/ [type |-> "MODEL_COMPLETED", id |-> d] \in {e}
      BY <1>1, <2>3 DEF EndType
    <3> QED  BY <1>1, <2>5, <2>6, <3>1, InvTypes, CallsKept DEF Passed
  <2>8. ToolInv'
    BY <1>1, <2>5, InvTypes, ToolsKept
  <2>9. StageInv'
    BY <1>1, <1>2, <2>5, StageKept
  <2> QED  BY <2>5, <2>7, <2>8, <2>9 DEF TimelineIInv, Passed
<1>5. (\/ session' = [session EXCEPT !.last = "retry"] /\ UNCHANGED <<told, pipe>>
       \/ \E type \in EndType : /\ session' = [session EXCEPT !.last = "settled"]
                                /\ Timeline!Emit(<<Timeline!Event(type, Null)>>))
  BY DEF Timeline!AgentEnd, EndType
<1> QED  BY <1>3, <1>4, <1>5

LEMMA SessionStepsKeep ==
  ASSUME Timeline!Configured, TimelineIInv, Timeline!SessionSteps
  PROVE  TimelineIInv'
<1>1. CASE Timeline!AgentEnd
  BY <1>1, AgentEndKeeps
<1>2. CASE \E c \in TimelineCall : Timeline!MessageStart(c)
  BY <1>2, MessageStartKeeps
<1>3. CASE \E channel \in Channel : Timeline!MessageUpdate(channel)
  BY <1>3, MessageUpdateKeeps
<1>4. CASE \E reason \in {"stop", "toolUse", "aborted", "error"} : Timeline!MessageEnd(reason)
  BY <1>4, MessageEndKeeps
<1>5. CASE \E t \in TimelineTool : Timeline!ToolExecutionStart(t) \/ Timeline!ToolExecutionEnd(t)
  BY <1>5, ToolExecutionStartKeeps, ToolExecutionEndKeeps
<1> QED  BY <1>1, <1>2, <1>3, <1>4, <1>5 DEF Timeline!SessionSteps

-----------------------------------------------------------------------------
(* The governed part of a tool call, and the worker's last words *)

\* A worker writes what is no event of the adapter.
LEMMA RequestWritten ==
  ASSUME TimelineIInv, mode = "worker", NEW m \in Message, m.type \in RequestType \cup ReturnType,
         Follows(told, pipe, Len(pipe) + 1, m),
         m.type = "RUN_RETURNED" => Quiet(told, pipe, Len(pipe) + 1),
         pipe' = Append(pipe, m), told' = told
  PROVE  Passed(told, pipe, {}, told', pipe')
<1> DEFINE q == Append(pipe, m)
<1>0. LogOK(told, pipe) /\ Settles(told, pipe) /\ Len(pipe) \in Nat /\ DOMAIN pipe = 1..Len(pipe)
  BY InvFacts, PipeFacts
<1>1. Wrote(told, pipe, m, q)
  BY <1>0, LogWritten
<1>2. /\ LogOK(told, q) /\ Brings(told, pipe, {m}, told, q)
      /\ Len(q) = Len(pipe) + 1 /\ q[Len(q)] = m
      /\ \A i \in 1..Len(pipe) : q[i] = pipe[i]
      /\ \A i \in 1..(Len(pipe) + 1) : Quiet(told, pipe, i) => Quiet(told, q, i)
  BY <1>1 DEF Wrote
<1> HIDE DEF q
<1>3. DOMAIN q = 1..Len(q)
  BY <1>2, PipeFacts DEF LogOK
<1>4. Settles(told, q)
  <2> SUFFICES ASSUME NEW i \in DOMAIN q, q[i].type = "RUN_RETURNED"
               PROVE  Quiet(told, q, i)
    BY DEF Settles
  <2>1. CASE i \in 1..Len(pipe)
    BY <1>0, <1>2, <2>1 DEF Settles
  <2>2. CASE i = Len(q)
    BY <1>0, <1>2, <2>2
  <2> QED  BY <1>0, <1>2, <1>3, <2>1, <2>2
<1>5. Brings(told, pipe, {}, told, q)
  <2>1. \A type \in Named, id \in Names : [type |-> type, id |-> id] \notin {m}
    BY DEF RequestType, ReturnType, Named, ModelType
  <2> QED  BY <1>2, <2>1 DEF Brings
<1>6. Passed(told, pipe, {}, told, q)
  BY <1>2, <1>4, <1>5 DEF Passed, Ends, HeardStays
<1> QED  BY <1>6 DEF q

LEMMA CallsSame ==
  ASSUME TimelineIInv, SameComing(told, pipe, told', pipe'), UNCHANGED <<session, calls>>,
         stage' = "open" => stage = "open"
  PROVE  CallInv'
<1>1. Brings(told, pipe, {}, told', pipe')
  BY DEF SameComing
<1>2. calls' = calls /\ session'.call = session.call /\ session'.spoken = session.spoken
  OBVIOUS
<1>3. calls' \in CallStates /\ session' \in SessionType
  BY InvTypes
<1>4. \A c \in TimelineCall :
        calls'[c] = "ended" <=> calls[c] = "ended" \/ [type |-> "MODEL_COMPLETED", id |-> c] \in {}
  BY <1>2
<1>5. stage' = "open" /\ session'.call # Null =>
        /\ calls'[session'.call] = "begun"
        /\ Coming(told', pipe', "MODEL_STARTED", session'.call)
        /\ session'.spoken => Coming(told', pipe', "MODEL_FIRST_TOKEN", session'.call)
  <2> SUFFICES ASSUME stage = "open", session.call # Null
               PROVE  /\ calls[session.call] = "begun"
                      /\ Coming(told', pipe', "MODEL_STARTED", session.call)
                      /\ session.spoken => Coming(told', pipe', "MODEL_FIRST_TOKEN", session.call)
    BY <1>2
  <2> QED  BY <1>1, CurrentCall DEF Brings, Coming, Named, ModelType, Names
<1> QED  BY <1>1, <1>3, <1>4, <1>5, CallsKept

\* While a tool executes, the session has not settled.
LEMMA NotSettled ==
  ASSUME TimelineIInv, stage = "open", NEW t \in TimelineTool,
         tools[t] \in {"started", "asked", "running", "reported", "answered"}
  PROVE  session.last # "settled"
<1>1. t \in Timeline!Executing
  BY DEF Timeline!Executing
<1> QED  BY <1>1 DEF TimelineIInv, StageInv

LEMMA PrepareToolKeeps ==
  ASSUME Timeline!Configured, TimelineIInv, NEW t \in TimelineTool, Timeline!PrepareTool(t)
  PROVE  TimelineIInv'
<1>1. /\ stage = "open" /\ stage' = "open" /\ tools[t] = "started"
      /\ UNCHANGED <<mode, execution, session, told, listening, aborting, calls>>
  BY DEF Timeline!PrepareTool, Timeline!fixed
<1>2. session'.last # "settled"
  BY <1>1, NotSettled
<1>3. Coming(told, pipe, "TOOL_STARTED", t)
  BY <1>1 DEF TimelineIInv, ToolInv
<1>4. CASE mode = "worker"
  <2> DEFINE m == [type |-> "TOOL_PREPARE_REQUEST", id |-> t]
  <2>1. /\ m \in Message /\ m.type = "TOOL_PREPARE_REQUEST" /\ m.id = t
        /\ m.type \in RequestType \cup ReturnType
    BY DEF Message, RequestType
  <2>2. /\ pipe' = Append(pipe, m) /\ tools' = [tools EXCEPT ![t] = "asked"]
        /\ UNCHANGED executions
    BY <1>4 DEF Timeline!PrepareTool, Timeline!Event
  <2> HIDE DEF m
  <2>3. Follows(told, pipe, Len(pipe) + 1, m)
    BY <1>3, <2>1 DEF Follows, Coming
  <2>4. Passed(told, pipe, {}, told', pipe')
    BY <1>1, <1>4, <2>1, <2>2, <2>3, RequestWritten
  <2>5. tools' \in ToolStates /\ \A u \in TimelineTool : tools'[u] = IF u = t THEN "asked" ELSE tools[u]
    BY <2>2, InvTypes DEF ToolStates
  <2>6. ToolInv'
    <3>1. \A u \in TimelineTool :
            /\ tools'[u] = "running" => tools[u] = "running"
            /\ tools'[u] = "started" => tools[u] = "started" \/ [type |-> "TOOL_STARTED", id |-> u] \in {}
      BY <2>5
    <3> QED  BY <1>1, <2>2, <2>4, <2>5, <3>1, ToolsKept
  <2>7. CallInv'
    BY <1>1, <2>4, CallsSame DEF Passed, SameComing
  <2>8. StageInv'
    BY <1>1, <1>2, <2>4, StageKept
  <2> QED  BY <2>4, <2>6, <2>7, <2>8 DEF TimelineIInv, Passed
<1>5. CASE mode # "worker"
  <2>1. /\ pipe' = pipe
        /\ \/ /\ executions' = [executions EXCEPT ![t] = "PREPARED"]
              /\ tools' = [tools EXCEPT ![t] = "running"]
           \/ /\ tools' = [tools EXCEPT ![t] = "answered"]
              /\ UNCHANGED executions
    BY <1>5 DEF Timeline!PrepareTool
  <2>2. Heard(told, "TOOL_STARTED", t)
    BY <1>3, <1>5, InvFacts, LogFlushed
  <2>3. told.status # "WAITING_TOOL"
    BY <1>5 DEF TimelineIInv, StageInv
  <2>4. LogOK(told, pipe)' /\ CallInv'
    BY <1>1, <2>1 DEF TimelineIInv, LogOK, CallInv
  <2>5. ToolInv'
    <3>0. ToolInv
      BY DEF TimelineIInv
    <3>1. CASE executions' = [executions EXCEPT ![t] = "PREPARED"] /\ tools' = [tools EXCEPT ![t] = "running"]
      BY <1>1, <2>1, <2>2, <2>3, <3>0, <3>1 DEF ToolInv
    <3>2. CASE tools' = [tools EXCEPT ![t] = "answered"] /\ UNCHANGED executions
      BY <1>1, <2>1, <2>2, <2>3, <3>0, <3>2 DEF ToolInv
    <3> QED  BY <2>1, <3>1, <3>2
  <2>6. StageInv'
    BY <1>1, <1>2, <2>1 DEF TimelineIInv, StageInv
  <2> QED  BY <2>4, <2>5, <2>6 DEF TimelineIInv
<1> QED  BY <1>4, <1>5

LEMMA CompleteToolKeeps ==
  ASSUME Timeline!Configured, TimelineIInv, NEW t \in TimelineTool, Timeline!CompleteTool(t)
  PROVE  TimelineIInv'
<1>1. /\ stage = "open" /\ stage' = "open" /\ tools[t] = "running"
      /\ UNCHANGED <<mode, execution, session, told, listening, aborting, calls>>
  BY DEF Timeline!CompleteTool, Timeline!fixed
<1>2. session'.last # "settled"
  BY <1>1, NotSettled
<1>4. CASE mode = "worker"
  <2> DEFINE m == [type |-> "TOOL_COMPLETE_REQUEST", id |-> t]
  <2>1. /\ m \in Message /\ m.type = "TOOL_COMPLETE_REQUEST"
        /\ m.type \in RequestType \cup ReturnType
    BY DEF Message, RequestType
  <2>2. /\ pipe' = Append(pipe, m) /\ tools' = [tools EXCEPT ![t] = "reported"]
        /\ UNCHANGED executions
    BY <1>4 DEF Timeline!CompleteTool, Timeline!Event
  <2> HIDE DEF m
  <2>3. Follows(told, pipe, Len(pipe) + 1, m)
    BY <2>1 DEF Follows
  <2>4. Passed(told, pipe, {}, told', pipe')
    BY <1>1, <1>4, <2>1, <2>2, <2>3, RequestWritten
  <2>5. tools' \in ToolStates /\ \A u \in TimelineTool : tools'[u] = IF u = t THEN "reported" ELSE tools[u]
    BY <2>2, InvTypes DEF ToolStates
  <2>6. ToolInv'
    <3>1. \A u \in TimelineTool :
            /\ tools'[u] = "running" => tools[u] = "running"
            /\ tools'[u] = "started" => tools[u] = "started" \/ [type |-> "TOOL_STARTED", id |-> u] \in {}
      BY <2>5
    <3> QED  BY <1>1, <2>2, <2>4, <2>5, <3>1, ToolsKept
  <2>7. CallInv'
    BY <1>1, <2>4, CallsSame DEF Passed, SameComing
  <2>8. StageInv'
    BY <1>1, <1>2, <2>4, StageKept
  <2> QED  BY <2>4, <2>6, <2>7, <2>8 DEF TimelineIInv, Passed
<1>5. CASE mode # "worker"
  <2>1. /\ pipe' = pipe
        /\ executions' = [executions EXCEPT ![t] = "SETTLED"]
        /\ tools' = [tools EXCEPT ![t] = "answered"]
    BY <1>5 DEF Timeline!CompleteTool
  <2>2. told.status # "WAITING_TOOL"
    BY <1>5 DEF TimelineIInv, StageInv
  <2>3. LogOK(told, pipe)' /\ CallInv'
    BY <1>1, <2>1 DEF TimelineIInv, LogOK, CallInv
  <2>4. ToolInv'
    BY <1>1, <2>1, <2>2 DEF TimelineIInv, ToolInv
  <2>5. StageInv'
    BY <1>1, <1>2, <2>1 DEF TimelineIInv, StageInv
  <2> QED  BY <2>3, <2>4, <2>5 DEF TimelineIInv
<1> QED  BY <1>4, <1>5

-----------------------------------------------------------------------------
(* The end of an invocation *)

\* The end of a call is on record, or still in the pipe.
LEMMA HeardEnds ==
  ASSUME TimelineIInv, NEW c \in TimelineCall
  PROVE  Heard(told, "MODEL_COMPLETED", c) <=> calls[c] = "ended" /\ c \notin Timeline!EndedIn(pipe)
<1> DEFINE m == [type |-> "MODEL_COMPLETED", id |-> c]
<1>0. /\ pipe \in Seq(Message) /\ DOMAIN pipe = 1..Len(pipe) /\ Len(pipe) \in Nat
      /\ \A i \in 1..Len(pipe) : pipe[i] \in Message /\ Follows(told, pipe, i, pipe[i])
  BY InvFacts, PipeFacts DEF LogOK
<1>1. c \in Timeline!EndedIn(pipe) <=> \E j \in 1..Len(pipe) : pipe[j] = m
  <2>1. \A j \in 1..Len(pipe) : pipe[j] = m <=> pipe[j].type = "MODEL_COMPLETED" /\ pipe[j].id = c
    BY <1>0, NamedEvent
  <2> QED  BY <2>1 DEF Timeline!EndedIn
<1>2. ASSUME NEW j \in 1..Len(pipe), pipe[j] = m
      PROVE  ~Heard(told, "MODEL_COMPLETED", c)
  <2>1. pipe[j].type = "MODEL_COMPLETED" /\ pipe[j].id = c
    BY <1>2
  <2>2. ~Arrived(told, pipe, j, "MODEL_COMPLETED", c)
    BY <1>0, <2>1 DEF Follows
  <2> QED  BY <2>2 DEF Arrived
<1>3. calls[c] = "ended" <=> Heard(told, "MODEL_COMPLETED", c) \/ \E j \in 1..Len(pipe) : pipe[j] = m
  <2>1. calls[c] = "ended" <=> Coming(told, pipe, "MODEL_COMPLETED", c)
    BY DEF TimelineIInv, CallInv
  <2>2. 1..(Len(pipe) + 1 - 1) = 1..Len(pipe)
    BY <1>0
  <2> QED  BY <2>1, <2>2 DEF Coming, Arrived
<1> HIDE DEF m
<1> QED  BY <1>1, <1>2, <1>3

\* What is not heard any more is lost, and the run is left as it is told.
LEMMA UnsubscribeKeeps ==
  ASSUME TimelineIInv, Timeline!Unsubscribe, told' \in Told, RowsOK(told'), SameHeard(told, told'),
         told'.status \in Timeline!Live => aborting' \/ told'.status = "WAITING_TOOL",
         told'.status = "WAITING_TOOL" => told.status = "WAITING_TOOL",
         aborting' \in BOOLEAN, UNCHANGED <<mode, execution, session, tools, executions>>
  PROVE  TimelineIInv'
<1>1. /\ listening' = FALSE /\ stage' = "idle" /\ pipe' = <<>>
      /\ calls' = [c \in TimelineCall |-> IF c \in Timeline!EndedIn(pipe) THEN "lost" ELSE calls[c]]
  BY DEF Timeline!Unsubscribe
<1>2. /\ LogOK(told', <<>>)
      /\ \A type, id : Coming(told', <<>>, type, id) <=> Heard(told', type, id)
  BY LogFlushed
<1>3. /\ pipe \in Seq(Message) /\ DOMAIN pipe = 1..Len(pipe) /\ Len(pipe) \in Nat
      /\ \A i \in 1..Len(pipe) : pipe[i] \in Message /\ Follows(told, pipe, i, pipe[i])
  BY InvFacts, PipeFacts DEF LogOK
<1>4. CallInv /\ ToolInv /\ StageInv
  BY DEF TimelineIInv
<1>5. \A c \in TimelineCall :
        Heard(told, "MODEL_COMPLETED", c) <=> calls[c] = "ended" /\ c \notin Timeline!EndedIn(pipe)
  BY HeardEnds
<1>6. CallInv'
  <2>1. calls' \in CallStates
    BY <1>1, InvTypes DEF CallStates
  <2>2. \A c \in TimelineCall : calls'[c] = "ended" <=> calls[c] = "ended" /\ c \notin Timeline!EndedIn(pipe)
    BY <1>1
  <2>3. \A c \in TimelineCall : Heard(told', "MODEL_COMPLETED", c) <=> Heard(told, "MODEL_COMPLETED", c)
    BY DEF SameHeard, Named, ModelType, Names
  <2>4. \A c \in TimelineCall : Coming(told', pipe', "MODEL_COMPLETED", c) <=> calls'[c] = "ended"
    BY <1>1, <1>2, <1>5, <2>2, <2>3
  <2>5. session' \in SessionType
    BY InvTypes
  <2> QED  BY <1>1, <2>1, <2>4, <2>5 DEF CallInv, CallStates, SessionType
<1>7. ToolInv'
  <2>1. \A t \in TimelineTool : Heard(told', "TOOL_STARTED", t) <=> Heard(told, "TOOL_STARTED", t)
    BY DEF SameHeard, Named, Names
  <2> QED  BY <1>1, <1>4, <2>1 DEF ToolInv
<1>8. StageInv'
  <2>1. DOMAIN pipe' = {}
    BY <1>1, EmptySeq
  <2>2. mode' # "worker" => told'.status # "WAITING_TOOL"
    BY <1>4 DEF StageInv
  <2> QED  BY <1>1, <1>4, <2>1, <2>2 DEF StageInv
<1> QED  BY <1>1, <1>2, <1>6, <1>7, <1>8 DEF TimelineIInv

\* A run is reported FAILED, and INTERRUPTED when that came too late.
LEMMA FailedEffect ==
  ASSUME Timeline!Configured, NEW s \in Told, RowsOK(s),
         NEW r, r = Timeline!InterruptedBy(Timeline!Handle(s, Timeline!Event("agent_failed", Null)))
  PROVE  r \in Told /\ RowsOK(r) /\ SameHeard(s, r) /\ r.status \notin Timeline!Live
<1> DEFINE e == [type |-> "agent_failed", id |-> Null]
           h == Timeline!Handle(s, e)
<1>1. e \in Emitted /\ e.type = "agent_failed" /\ \A type \in Named : \A id : e # [type |-> type, id |-> id]
  BY DEF Emitted, EndType, Named, ModelType
<1>2. r = Timeline!InterruptedBy(h)
  BY DEF Timeline!Event
<1> HIDE DEF e
<1>3. Due(s, e)
  BY <1>1 DEF Due
<1>4. h \in Told /\ RowsOK(h) /\ Learns(s, e, h)
  BY <1>1, <1>3, HandleEffect
<1> HIDE DEF h
<1>5. SameHeard(s, h)
  BY <1>1, <1>4 DEF Learns, SameHeard
<1>6. r \in Told /\ RowsOK(r) /\ SameHeard(h, r) /\ r.status \notin Timeline!Live
  BY <1>2, <1>4, InterruptedEffect
<1> QED  BY <1>5, <1>6 DEF SameHeard

\* An invocation ends with a run that is INTERRUPTED or final.
LEMMA EndedKeeps ==
  ASSUME TimelineIInv, Timeline!Unsubscribe, told' \in Told, RowsOK(told'), SameHeard(told, told'),
         told'.status \notin Timeline!Live,
         aborting' \in BOOLEAN, UNCHANGED <<mode, execution, session, tools, executions>>
  PROVE  TimelineIInv'
<1>1. told'.status # "WAITING_TOOL"
  BY DEF Timeline!Live
<1> QED  BY <1>1, UnsubscribeKeeps

LEMMA FailuresKeep ==
  ASSUME Timeline!Configured, TimelineIInv,
         Timeline!InvocationFails \/ Timeline!ReportCrash \/ Timeline!MasterCrash
  PROVE  TimelineIInv'
<1>0. told \in Told /\ RowsOK(told) /\ aborting \in BOOLEAN
  BY InvFacts DEF TimelineIInv, StageInv
<1>1. CASE Timeline!InvocationFails
  <2>1. /\ told' = Timeline!InterruptedBy(told) /\ Timeline!Unsubscribe
        /\ UNCHANGED <<mode, execution, session, tools, executions, aborting>>
    BY <1>1 DEF Timeline!InvocationFails, Timeline!fixed
  <2>2. told' \in Told /\ RowsOK(told') /\ SameHeard(told, told') /\ told'.status \notin Timeline!Live
    BY <1>0, <2>1, InterruptedEffect
  <2> QED  BY <1>0, <2>1, <2>2, EndedKeeps
<1>2. CASE Timeline!ReportCrash
  <2>1. /\ told' = Timeline!InterruptedBy(Timeline!Handle(told, Timeline!Event("agent_failed", Null)))
        /\ Timeline!Unsubscribe
        /\ UNCHANGED <<mode, execution, session, tools, executions, aborting>>
    BY <1>2 DEF Timeline!ReportCrash, Timeline!fixed
  <2>2. told' \in Told /\ RowsOK(told') /\ SameHeard(told, told') /\ told'.status \notin Timeline!Live
    BY <1>0, <2>1, FailedEffect
  <2> QED  BY <1>0, <2>1, <2>2, EndedKeeps
<1>3. CASE Timeline!MasterCrash
  <2>1. /\ told' = Timeline!InterruptedBy(told) /\ Timeline!Unsubscribe /\ aborting' = FALSE
        /\ UNCHANGED <<mode, execution, session, tools, executions>>
    BY <1>3 DEF Timeline!MasterCrash, Timeline!fixed
  <2>2. told' \in Told /\ RowsOK(told') /\ SameHeard(told, told') /\ told'.status \notin Timeline!Live
    BY <1>0, <2>1, InterruptedEffect
  <2> QED  BY <2>1, <2>2, EndedKeeps
<1> QED  BY <1>1, <1>2, <1>3

LEMMA PromptReturnsKeeps ==
  ASSUME Timeline!Configured, TimelineIInv, Timeline!PromptReturns
  PROVE  TimelineIInv'
<1>1. /\ stage = "open" /\ session.last = "settled"
      /\ UNCHANGED <<mode, execution, session, tools, told, executions, aborting>>
  BY DEF Timeline!PromptReturns, Timeline!fixed
<1>2. Quiet(told, pipe, Len(pipe) + 1) /\ aborting \in BOOLEAN
  BY <1>1 DEF TimelineIInv, StageInv
<1>3. CASE mode = "worker"
  <2> DEFINE m == [type |-> "RUN_RETURNED", id |-> Null]
  <2>1. /\ m \in Message /\ m.type = "RUN_RETURNED" /\ m.type \in RequestType \cup ReturnType
    BY DEF Message, ReturnType
  <2>2. /\ pipe' = Append(pipe, m) /\ stage' = "exited" /\ UNCHANGED <<listening, calls>>
    BY <1>3 DEF Timeline!PromptReturns, Timeline!Event
  <2> HIDE DEF m
  <2>3. Follows(told, pipe, Len(pipe) + 1, m)
    BY <2>1 DEF Follows
  <2>4. Passed(told, pipe, {}, told', pipe')
    BY <1>1, <1>2, <1>3, <2>1, <2>2, <2>3, RequestWritten
  <2>5. CallInv'
    BY <1>1, <2>2, <2>4, CallsSame DEF Passed, SameComing
  <2>6. ToolInv'
    BY <1>1, <2>2 DEF TimelineIInv, ToolInv
  <2>7. StageInv'
    <3>1. Settles(told', pipe')
      BY <2>4 DEF Passed
    <3> QED  BY <1>1, <1>3, <2>2, <3>1 DEF TimelineIInv, StageInv, Settles
  <2> QED  BY <2>4, <2>5, <2>6, <2>7 DEF TimelineIInv, Passed
<1>4. CASE mode # "worker"
  <2>1. Timeline!Unsubscribe
    BY <1>4 DEF Timeline!PromptReturns
  <2>2. told.status # "WAITING_TOOL" /\ pipe = <<>>
    BY <1>4 DEF TimelineIInv, StageInv
  <2>3. \A j \in 1..(Len(pipe) + 1 - 1) : FALSE
    BY <2>2
  <2>4. told.status \notin Timeline!Live
    BY <1>2, <2>2, <2>3 DEF Quiet
  <2>5. told \in Told /\ RowsOK(told) /\ SameHeard(told, told)
    BY InvFacts DEF SameHeard
  <2> QED  BY <1>1, <1>2, <2>1, <2>4, <2>5, EndedKeeps
<1> QED  BY <1>3, <1>4

LEMMA PromptThrowsKeeps ==
  ASSUME Timeline!Configured, TimelineIInv, Timeline!PromptThrows
  PROVE  TimelineIInv'
<1>1. /\ stage = "open" /\ UNCHANGED <<mode, execution, session, tools, executions, aborting>>
  BY DEF Timeline!PromptThrows, Timeline!fixed
<1>2. aborting \in BOOLEAN /\ told \in Told /\ RowsOK(told)
  BY InvFacts DEF TimelineIInv, StageInv
<1>3. CASE mode = "worker"
  <2> DEFINE e == [type |-> "agent_failed", id |-> Null]
             m == [type |-> "RUN_FAILED", id |-> Null]
             q == Append(pipe, e)
  <2>1. /\ e \in Emitted /\ e.type = "agent_failed" /\ m \in Message /\ m.type = "RUN_FAILED"
        /\ e \in Message
    BY DEF Emitted, EndType, Message, ReturnType
  <2>2. pipe' = pipe \o <<e, m>> /\ stage' = "exited" /\ UNCHANGED <<listening, calls, told>>
    BY <1>3 DEF Timeline!PromptThrows, Timeline!Event
  <2>3. \A type \in Named : \A id : [type |-> type, id |-> id] \notin {e}
                             /\ [type |-> type, id |-> id] \notin {m}
    BY DEF Named, ModelType
  <2> HIDE DEF e, m
  <2>4. pipe' = Append(q, m)
    BY <2>1, <2>2, InvFacts
  <2>5. Follows(told, pipe, Len(pipe) + 1, e) /\ Follows(told, q, Len(q) + 1, m)
    BY <2>1 DEF Follows
  <2>6. Passed(told, pipe, {e}, told, q)
    <3>1. Passes(told, pipe, e, told, q)
      BY <1>3 DEF Passes
    <3> QED  BY <2>1, <2>5, <3>1, InvFacts, EventPasses
  <2> HIDE DEF q
  <2>7. LogOK(told, q) /\ Settles(told, q) /\ DOMAIN q = 1..Len(q) /\ Len(q) \in Nat
    BY <2>6, PipeFacts DEF Passed, LogOK
  <2>8. Wrote(told, q, m, pipe')
    BY <2>1, <2>4, <2>5, <2>7, LogWritten
  <2>9. /\ LogOK(told, pipe') /\ Brings(told, q, {m}, told, pipe')
        /\ Len(pipe') = Len(q) + 1 /\ pipe'[Len(pipe')] = m
        /\ \A i \in 1..Len(q) : pipe'[i] = q[i]
        /\ \A i \in 1..(Len(q) + 1) : Quiet(told, q, i) => Quiet(told, pipe', i)
    BY <2>8 DEF Wrote
  <2>10. DOMAIN pipe' = 1..Len(pipe')
    BY <2>9, PipeFacts DEF LogOK
  <2>11. Settles(told, pipe')
    <3> SUFFICES ASSUME NEW i \in DOMAIN pipe', pipe'[i].type = "RUN_RETURNED"
                 PROVE  Quiet(told, pipe', i)
      BY DEF Settles
    <3>1. i \in 1..Len(q)
      BY <2>1, <2>7, <2>9, <2>10
    <3> QED  BY <2>7, <2>9, <3>1 DEF Settles
  <2>12. SameComing(told, pipe, told', pipe')
    BY <2>2, <2>3, <2>6, <2>9 DEF Passed, Brings, SameComing
  <2>13. CallInv'
    BY <1>1, <2>2, <2>12, CallsSame
  <2>14. ToolInv'
    BY <1>1, <2>2 DEF TimelineIInv, ToolInv
  <2>15. StageInv'
    BY <1>1, <1>3, <2>2, <2>11 DEF TimelineIInv, StageInv, Settles
  <2> QED  BY <2>2, <2>9, <2>13, <2>14, <2>15 DEF TimelineIInv
<1>4. CASE mode # "worker"
  <2>1. /\ told' = Timeline!InterruptedBy(Timeline!Handle(told, Timeline!Event("agent_failed", Null)))
        /\ Timeline!Unsubscribe
    BY <1>4 DEF Timeline!PromptThrows
  <2>2. told' \in Told /\ RowsOK(told') /\ SameHeard(told, told') /\ told'.status \notin Timeline!Live
    BY <1>2, <2>1, FailedEffect
  <2> QED  BY <1>1, <1>2, <2>1, <2>2, EndedKeeps
<1> QED  BY <1>3, <1>4

-----------------------------------------------------------------------------
(* The start of an invocation *)

\* The master tells what it does itself, while no session is open.
LEMMA AttemptKeeps ==
  ASSUME Timeline!Configured, TimelineIInv, NEW type \in AttemptType,
         told' = Timeline!Handle(told, Timeline!Event(type, execution)),
         stage \in {"control", "sandbox"}, stage' \in {"sandbox", "opening"},
         UNCHANGED <<mode, execution, session, tools, pipe, executions, listening, aborting, calls>>
  PROVE  TimelineIInv'
<1>0. PICK a \in Nat : a = execution
  BY DEF TimelineIInv, StageInv
<1> DEFINE e == [type |-> type, id |-> a]
<1>1. e \in Emitted /\ e.type \in AttemptType
  BY DEF Emitted
<1>2. told' = Timeline!Handle(told, e)
  BY <1>0 DEF Timeline!Event
<1>3. \A t \in Named : \A id : e # [type |-> t, id |-> id]
  BY DEF AttemptType, Named, ModelType
<1> HIDE DEF e
<1>4. Due(told, e)
  BY <1>1 DEF Due, AttemptType
<1>5. told' \in Told /\ RowsOK(told') /\ Learns(told, e, told') /\ Ends(told, told')
  BY <1>1, <1>2, <1>4, InvFacts, HandleEffect
<1>6. SameHeard(told, told')
  BY <1>3, <1>5 DEF Learns, SameHeard
<1>7. LogOK(told', pipe) /\ SameComing(told, pipe, told', pipe)
  BY <1>5, <1>6, InvFacts, LogTold
<1>8. CallInv'
  BY <1>7, CallsSame
<1>9. ToolInv'
  <2>1. ToolInv
    BY DEF TimelineIInv
  <2>2. \A t \in TimelineTool : Heard(told', "TOOL_STARTED", t) <=> Heard(told, "TOOL_STARTED", t)
    BY <1>6 DEF SameHeard, Named, Names
  <2>3. told'.status = "WAITING_TOOL" => told.status = "WAITING_TOOL"
    BY <1>5 DEF Ends, Timeline!Live
  <2> QED  BY <2>1, <2>2, <2>3 DEF ToolInv
<1>10. StageInv'
  <2>1. StageInv /\ pipe = <<>>
    BY DEF TimelineIInv, StageInv
  <2>2. DOMAIN pipe = {}
    BY <2>1, EmptySeq
  <2>3. told'.status = "WAITING_TOOL" => told.status = "WAITING_TOOL"
    BY <1>5 DEF Ends, Timeline!Live
  <2> QED  BY <2>1, <2>2, <2>3 DEF StageInv
<1> QED  BY <1>7, <1>8, <1>9, <1>10 DEF TimelineIInv

\* A run that was QUEUED or is resumed is told to be RUNNING.
LEMMA StartedEffect ==
  ASSUME Timeline!Configured, NEW s \in Told, RowsOK(s), NEW r,
         \/ r = Timeline!Update(s, "RUNNING", "RUN_STARTED", Null)
         \/ r = Timeline!Update(Timeline!Update(s, "QUEUED", "RUN_QUEUED", Null),
                                "RUNNING", "RUN_RESUMED", Null)
  PROVE  /\ r \in Told /\ RowsOK(r) /\ SameHeard(s, r)
         /\ r.status = "WAITING_TOOL" => s.status = "WAITING_TOOL"
<1>0. /\ {"RUN_STARTED", "RUN_QUEUED", "RUN_RESUMED"} \subseteq RowType \ ModelType /\ Null \in RowId
      /\ {"QUEUED", "RUNNING"} \subseteq Status
  BY DEF RowType, ModelType, RowId, Status
<1>1. CASE r = Timeline!Update(s, "RUNNING", "RUN_STARTED", Null)
  <2>1. /\ r \in Told /\ RowsOK(r) /\ SameHeard(s, r)
        /\ r.status = s.status \/ r.status = "RUNNING"
    BY <1>0, <1>1, UpdateEffect
  <2> QED  BY <2>1
<1>2. ASSUME NEW h, h = Timeline!Update(s, "QUEUED", "RUN_QUEUED", Null),
             r = Timeline!Update(h, "RUNNING", "RUN_RESUMED", Null)
      PROVE  /\ r \in Told /\ RowsOK(r) /\ SameHeard(s, r)
             /\ r.status = "WAITING_TOOL" => s.status = "WAITING_TOOL"
  <2>1. /\ h \in Told /\ RowsOK(h) /\ SameHeard(s, h)
        /\ h.status = s.status \/ h.status = "QUEUED"
    BY <1>0, <1>2, UpdateEffect
  <2>2. /\ r \in Told /\ RowsOK(r) /\ SameHeard(h, r)
        /\ r.status = h.status \/ r.status = "RUNNING"
    BY <1>0, <1>2, <2>1, UpdateEffect
  <2> QED  BY <2>1, <2>2 DEF SameHeard
<1> QED  BY <1>1, <1>2

LEMMA ExecuteKeeps ==
  ASSUME Timeline!Configured, TimelineIInv, Timeline!Execute
  PROVE  TimelineIInv'
<1>1. /\ execution' = execution + 1 /\ stage' = "control" /\ listening' = TRUE
      /\ stage = "idle" /\ session' = Timeline!NoSession
      /\ tools' = [t \in TimelineTool |-> "none"] /\ pipe' = <<>>
      /\ UNCHANGED <<mode, executions, aborting, calls>>
      /\ \/ told' = Timeline!Update(told, "RUNNING", "RUN_STARTED", Null)
         \/ told' = Timeline!Update(Timeline!Update(told, "QUEUED", "RUN_QUEUED", Null),
                                    "RUNNING", "RUN_RESUMED", Null)
  BY DEF Timeline!Execute, Timeline!fixed
<1>2. /\ told' \in Told /\ RowsOK(told') /\ SameHeard(told, told')
      /\ told'.status = "WAITING_TOOL" => told.status = "WAITING_TOOL"
  BY <1>1, InvFacts, StartedEffect
<1>3. pipe = <<>> /\ ToolInv /\ StageInv
  BY <1>1 DEF TimelineIInv, StageInv
<1>4. LogOK(told', pipe) /\ SameComing(told, pipe, told', pipe)
  BY <1>2, InvFacts, LogTold
<1>5. CallInv'
  <2>1. Brings(told, pipe, {}, told', pipe')
    BY <1>1, <1>3, <1>4 DEF SameComing
  <2>2. session' \in SessionType /\ calls' \in CallStates
    BY <1>1, InvTypes DEF Timeline!NoSession, SessionType
  <2>3. \A d \in TimelineCall :
          calls'[d] = "ended" <=> calls[d] = "ended" \/ [type |-> "MODEL_COMPLETED", id |-> d] \in {}
    BY <1>1
  <2> QED  BY <1>1, <2>1, <2>2, <2>3, CallsKept
<1>6. ToolInv'
  <2>1. \A t \in TimelineTool : Heard(told', "TOOL_STARTED", t) <=> Heard(told, "TOOL_STARTED", t)
    BY <1>2 DEF SameHeard, Named, Names
  <2> QED  BY <1>1, <1>2, <1>3, <2>1 DEF ToolInv
<1>7. StageInv'
  <2>1. DOMAIN pipe' = {}
    BY <1>1, EmptySeq
  <2> QED  BY <1>1, <1>2, <1>3, <2>1 DEF StageInv
<1> QED  BY <1>1, <1>3, <1>4, <1>5, <1>6, <1>7 DEF TimelineIInv

-----------------------------------------------------------------------------
(* Interrupts, and a worker that is gone *)

LEMMA InterruptsKeep ==
  ASSUME Timeline!Configured, TimelineIInv,
         Timeline!WorkerDies \/ Timeline!Interrupt \/ Timeline!InterruptReturns
  PROVE  TimelineIInv'
<1>0. LogOK(told, pipe) /\ CallInv /\ ToolInv /\ StageInv
  BY DEF TimelineIInv
<1>1. CASE Timeline!WorkerDies
  <2>1. /\ mode = "worker" /\ stage = "open" /\ stage' = "exited"
        /\ UNCHANGED <<mode, execution, session, tools, pipe, told, executions, listening, aborting, calls>>
    BY <1>1 DEF Timeline!WorkerDies, Timeline!fixed
  <2>2. LogOK(told, pipe)' /\ CallInv'
    BY <1>0, <2>1 DEF LogOK, CallInv
  <2>3. ToolInv'
    BY <1>0, <2>1 DEF ToolInv
  <2>4. StageInv'
    BY <1>0, <2>1 DEF StageInv
  <2> QED  BY <2>2, <2>3, <2>4 DEF TimelineIInv
<1>2. CASE Timeline!Interrupt
  <2>1. /\ aborting' = TRUE
        /\ UNCHANGED <<mode, execution, stage, session, tools, pipe, told, executions, listening, calls>>
    BY <1>2 DEF Timeline!Interrupt, Timeline!fixed
  <2>2. LogOK(told, pipe)' /\ CallInv' /\ ToolInv'
    BY <1>0, <2>1 DEF LogOK, CallInv, ToolInv
  <2>3. StageInv'
    <3>1. (Timeline!Executing)' = Timeline!Executing
      BY <2>1 DEF Timeline!Executing
    <3> QED  BY <1>0, <2>1, <3>1 DEF StageInv
  <2> QED  BY <2>2, <2>3 DEF TimelineIInv
<1>3. CASE Timeline!InterruptReturns
  <2>1. /\ aborting' = FALSE /\ told' = Timeline!InterruptedBy(told)
        /\ UNCHANGED <<mode, execution, stage, session, tools, pipe, executions, listening, calls>>
    BY <1>3 DEF Timeline!InterruptReturns, Timeline!fixed
  <2>2. /\ told' \in Told /\ RowsOK(told') /\ SameHeard(told, told')
        /\ told'.status \notin Timeline!Live
    BY <2>1, InvFacts, InterruptedEffect
  <2>3. LogOK(told', pipe) /\ SameComing(told, pipe, told', pipe)
    BY <2>2, InvFacts, LogTold
  <2>4. CallInv'
    BY <2>1, <2>3, CallsSame
  <2>5. told'.status # "WAITING_TOOL"
    BY <2>2 DEF Timeline!Live
  <2>6. ToolInv'
    <3>1. \A t \in TimelineTool : Heard(told', "TOOL_STARTED", t) <=> Heard(told, "TOOL_STARTED", t)
      BY <2>2 DEF SameHeard, Named, Names
    <3>2. \A t \in TimelineTool : Coming(told', pipe', "TOOL_STARTED", t) <=> Coming(told, pipe, "TOOL_STARTED", t)
      BY <2>1, <2>3 DEF SameComing, Brings, Named, Names
    <3> QED  BY <1>0, <2>1, <2>5, <3>1, <3>2 DEF ToolInv
  <2>7. StageInv'
    <3>1. \A i : Quiet(told', pipe, i)
      BY <2>2 DEF Quiet
    <3>2. (Timeline!Executing)' = Timeline!Executing
      BY <2>1 DEF Timeline!Executing
    <3> QED  BY <1>0, <2>1, <2>2, <2>5, <3>1, <3>2 DEF StageInv
  <2> QED  BY <2>1, <2>3, <2>4, <2>6, <2>7 DEF TimelineIInv
<1> QED  BY <1>1, <1>2, <1>3

-----------------------------------------------------------------------------
(* The reader of the worker's messages *)

\* The head of the pipe has been read, and r is what is told then.
LEMMA Consumed ==
  ASSUME TimelineIInv, pipe # <<>>, NEW e, e = Head(pipe), NEW r \in Told, RowsOK(r),
         Learns(told, e, r),
         told.status \notin Timeline!Live => r.status \notin Timeline!Live,
         told.status = "WAITING_TOOL" /\ e.type # "TOOL_COMPLETE_REQUEST" => r.status # "RUNNING",
         e.type \in EndType => r.status # "RUNNING"
  PROVE  /\ LogOK(r, Tail(pipe)) /\ SameComing(told, pipe, r, Tail(pipe))
         /\ Settles(r, Tail(pipe)) /\ Hushed(told, pipe, r, Tail(pipe))
<1> DEFINE q == Tail(pipe)
<1>1. /\ LogOK(told, pipe) /\ Settles(told, pipe) /\ told \in Told
      /\ pipe \in Seq(Message) /\ q \in Seq(Message) /\ Len(q) \in Nat /\ Len(pipe) = Len(q) + 1
      /\ DOMAIN pipe = 1..Len(pipe) /\ DOMAIN q = 1..Len(q)
      /\ \A i \in 1..Len(q) : q[i] = pipe[i + 1]
  BY InvFacts, HeadTailProperties, PipeFacts
<1>2. LogOK(r, q) /\ SameComing(told, pipe, r, q)
  BY <1>1, LogRead
<1>3. ASSUME NEW i \in 1..(Len(q) + 1), Quiet(told, pipe, i + 1)
      PROVE  Quiet(r, q, i)
  <2> HIDE DEF q
  <2>1. q = Tail(pipe)
    BY DEF q
  <2> QED  BY <1>1, <1>3, <2>1, QuietRead
<1> HIDE DEF q
<1>4. Settles(r, q)
  <2> SUFFICES ASSUME NEW i \in DOMAIN q, q[i].type = "RUN_RETURNED"
               PROVE  Quiet(r, q, i)
    BY DEF Settles
  <2>1. i + 1 \in DOMAIN pipe /\ pipe[i + 1].type = "RUN_RETURNED" /\ i \in 1..(Len(q) + 1)
    BY <1>1
  <2> QED  BY <1>1, <1>3, <2>1 DEF Settles
<1>5. Hushed(told, pipe, r, q)
  <2>1. Len(q) + 1 \in 1..(Len(q) + 1)
    BY <1>1
  <2> QED  BY <1>1, <1>3, <2>1 DEF Hushed
<1> QED  BY <1>2, <1>4, <1>5 DEF q

\* A message that does not end the invocation.
LEMMA ConsumedKeeps ==
  ASSUME TimelineIInv, pipe # <<>>, NEW e, e = Head(pipe), told' \in Told, RowsOK(told'),
         Learns(told, e, told'), pipe' = Tail(pipe),
         told.status \notin Timeline!Live => told'.status \notin Timeline!Live,
         told.status = "WAITING_TOOL" /\ e.type # "TOOL_COMPLETE_REQUEST" => told'.status # "RUNNING",
         e.type \in EndType => told'.status # "RUNNING",
         UNCHANGED <<mode, execution, stage, session, listening, aborting, calls>>,
         (Timeline!Executing)' \subseteq Timeline!Executing
  PROVE  LogOK(told, pipe)' /\ CallInv' /\ StageInv' /\ SameComing(told, pipe, told', pipe')
<1>1. /\ LogOK(told', pipe') /\ SameComing(told, pipe, told', pipe')
      /\ Settles(told', pipe') /\ Hushed(told, pipe, told', pipe')
  BY Consumed
<1>2. CallInv'
  BY <1>1, CallsSame
<1>3. StageInv
  BY DEF TimelineIInv
<1>4. stage \in {"open", "exited"} /\ mode = "worker"
  BY <1>3 DEF StageInv
<1>5. stage' = "open" /\ session'.last = "settled" =>
        (Timeline!Executing)' = {} /\ Quiet(told', pipe', Len(pipe') + 1)
  BY <1>1, <1>3 DEF StageInv, Hushed
<1>6. \A i \in DOMAIN pipe' : pipe'[i].type = "RUN_RETURNED" => Quiet(told', pipe', i)
  BY <1>1 DEF Settles
<1>7. StageInv'
  BY <1>3, <1>4, <1>5, <1>6 DEF StageInv
<1> QED  BY <1>1, <1>2, <1>7

\* What is on record of a tool stays so.
LEMMA LearnsMore ==
  ASSUME NEW s, NEW e, NEW r, Learns(s, e, r), NEW t \in TimelineTool
  PROVE  Heard(s, "TOOL_STARTED", t) => Heard(r, "TOOL_STARTED", t)
BY DEF Learns, Named, Names

LEMMA LearnsNothing ==
  ASSUME NEW s, NEW e, e.type \notin Named, NEW r, SameHeard(s, r)
  PROVE  Learns(s, e, r)
<1>1. \A type \in Named : \A id : e # [type |-> type, id |-> id]
  OBVIOUS
<1> QED  BY <1>1 DEF Learns, SameHeard

LEMMA ReadPrepareKeeps ==
  ASSUME Timeline!Configured, TimelineIInv, pipe # <<>>,
         NEW e, e = Head(pipe), e.type = "TOOL_PREPARE_REQUEST", Timeline!ReadMessage
  PROVE  TimelineIInv'
<1>0. e \in Message /\ Follows(told, pipe, 1, e) /\ LogOK(told, pipe)
  <2>1. LogOK(told, pipe) /\ pipe \in Seq(Message)
    BY InvFacts
  <2>2. e \in Message /\ e = pipe[1] /\ 1 \in DOMAIN pipe
    BY <2>1, HeadTailProperties, PipeFacts, EmptySeq
  <2> QED  BY <2>1, <2>2 DEF LogOK
<1>1. PICK t \in TimelineTool : t = e.id
  BY <1>0 DEF Message, Emitted, ModelType, ToolType, AttemptType, EndType, RequestType, ReturnType
<1>2. /\ Timeline!HandlePrepare(t) /\ pipe' = Tail(pipe)
      /\ UNCHANGED <<mode, execution, stage, session, listening, aborting, calls>>
  BY <1>1 DEF Timeline!ReadMessage, Timeline!fixed
<1>3. Heard(told, "TOOL_STARTED", t)
  <2>1. Arrived(told, pipe, 1, "TOOL_STARTED", t)
    BY <1>0, <1>1 DEF Follows
  <2> QED  BY <2>1 DEF Arrived
<1>4. /\ told' \in Told /\ RowsOK(told') /\ SameHeard(told, told')
      /\ told.status \notin Timeline!Live => told'.status \notin Timeline!Live
      /\ told.status = "WAITING_TOOL" => told'.status = "WAITING_TOOL"
  <2>1. CASE told' = Timeline!MarkToolPhase(told, "STARTED", t)
    BY <2>1, InvFacts, PhaseEffect
  <2>2. CASE told' = told
    BY <2>2, InvFacts DEF SameHeard
  <2> QED  BY <1>2, <2>1, <2>2 DEF Timeline!HandlePrepare
<1>5. Learns(told, e, told')
  BY <1>4, LearnsNothing DEF Named, ModelType
<1>6. \/ tools' = tools /\ executions' = [executions EXCEPT ![t] = "PREPARED"]
      \/ tools[t] = "asked" /\ tools' = [tools EXCEPT ![t] = "running"]
           /\ executions' = [executions EXCEPT ![t] = "PREPARED"]
      \/ tools' = tools /\ executions' = executions /\ told' = told
      \/ tools[t] = "asked" /\ tools' = [tools EXCEPT ![t] = "answered"]
           /\ executions' = executions /\ told' = told
  BY <1>2 DEF Timeline!HandlePrepare
<1>7. (Timeline!Executing)' \subseteq Timeline!Executing
  BY <1>6, InvTypes DEF Timeline!Executing, ToolStates
<1>8. LogOK(told, pipe)' /\ CallInv' /\ StageInv' /\ SameComing(told, pipe, told', pipe')
  <2>1. /\ told.status = "WAITING_TOOL" /\ e.type # "TOOL_COMPLETE_REQUEST" => told'.status # "RUNNING"
        /\ e.type \in EndType => told'.status # "RUNNING"
    BY <1>4 DEF EndType
  <2> QED  BY <1>2, <1>4, <1>5, <1>7, <2>1, ConsumedKeeps
<1>9. ToolInv'
  <2>0. ToolInv /\ stage' = stage
    BY <1>2 DEF TimelineIInv
  <2>1. \A u \in TimelineTool : Heard(told', "TOOL_STARTED", u) <=> Heard(told, "TOOL_STARTED", u)
    BY <1>4 DEF SameHeard, Named, Names
  <2>2. \A u \in TimelineTool : Coming(told', pipe', "TOOL_STARTED", u) <=> Coming(told, pipe, "TOOL_STARTED", u)
    BY <1>8 DEF SameComing, Brings, Named, Names
  <2>3. CASE executions' = [executions EXCEPT ![t] = "PREPARED"] /\ tools' = tools
    BY <1>3, <2>0, <2>1, <2>2, <2>3 DEF ToolInv
  <2>4. CASE /\ executions' = [executions EXCEPT ![t] = "PREPARED"]
             /\ tools[t] = "asked" /\ tools' = [tools EXCEPT ![t] = "running"]
    BY <1>3, <2>0, <2>1, <2>2, <2>4 DEF ToolInv
  <2>5. CASE executions' = executions /\ tools' = tools /\ told' = told
    BY <2>0, <2>1, <2>2, <2>5 DEF ToolInv
  <2>6. CASE /\ executions' = executions /\ told' = told
             /\ tools[t] = "asked" /\ tools' = [tools EXCEPT ![t] = "answered"]
    BY <2>0, <2>1, <2>2, <2>6 DEF ToolInv
  <2> QED  BY <1>6, <2>3, <2>4, <2>5, <2>6
<1> QED  BY <1>8, <1>9 DEF TimelineIInv

LEMMA ReadCompleteKeeps ==
  ASSUME Timeline!Configured, TimelineIInv, pipe # <<>>,
         NEW e, e = Head(pipe), e.type = "TOOL_COMPLETE_REQUEST", Timeline!ReadMessage
  PROVE  TimelineIInv'
<1>0. e \in Message
  BY InvFacts, HeadTailProperties
<1>1. PICK t \in TimelineTool : t = e.id
  BY <1>0 DEF Message, Emitted, ModelType, ToolType, AttemptType, EndType, RequestType, ReturnType
<1>2. /\ Timeline!HandleComplete(t) /\ pipe' = Tail(pipe)
      /\ UNCHANGED <<mode, execution, stage, session, listening, aborting, calls>>
  BY <1>1 DEF Timeline!ReadMessage, Timeline!fixed
<1>3. \/ /\ executions[t] = "PREPARED" /\ executions' = [executions EXCEPT ![t] = "SETTLED"]
         /\ told' = Timeline!MarkToolPhase(told, "ENDED", t)
      \/ executions' = executions /\ told' = told
  BY <1>2 DEF Timeline!HandleComplete
<1>4. /\ told' \in Told /\ RowsOK(told') /\ SameHeard(told, told')
      /\ told.status \notin Timeline!Live => told'.status \notin Timeline!Live
      /\ \/ told' = told /\ executions' = executions
         \/ /\ executions[t] = "PREPARED" /\ executions' = [executions EXCEPT ![t] = "SETTLED"]
            /\ told'.status # "WAITING_TOOL"
  <2>1. CASE told' = Timeline!MarkToolPhase(told, "ENDED", t)
    <3>1. /\ told' \in Told /\ RowsOK(told') /\ SameHeard(told, told')
          /\ told.status \notin Timeline!Live => told'.status \notin Timeline!Live
          /\ told'.status # "WAITING_TOOL"
      BY <2>1, InvFacts, PhaseEffect
    <3> QED  BY <1>3, <3>1
  <2>2. CASE told' = told /\ executions' = executions
    BY <2>2, InvFacts DEF SameHeard
  <2> QED  BY <1>3, <2>1, <2>2
<1>5. Learns(told, e, told')
  BY <1>4, LearnsNothing DEF Named, ModelType
<1>6. \/ tools' = tools
      \/ tools[t] = "reported" /\ tools' = [tools EXCEPT ![t] = "answered"]
  BY <1>2 DEF Timeline!HandleComplete
<1>7. (Timeline!Executing)' \subseteq Timeline!Executing
  BY <1>6, InvTypes DEF Timeline!Executing, ToolStates
<1>8. LogOK(told, pipe)' /\ CallInv' /\ StageInv' /\ SameComing(told, pipe, told', pipe')
  <2>1. e.type \notin EndType
    BY DEF EndType
  <2> QED  BY <1>2, <1>4, <1>5, <1>7, <2>1, ConsumedKeeps
<1>9. ToolInv'
  <2>0. ToolInv /\ stage' = stage
    BY <1>2 DEF TimelineIInv
  <2>1. \A u \in TimelineTool : Heard(told', "TOOL_STARTED", u) <=> Heard(told, "TOOL_STARTED", u)
    BY <1>4 DEF SameHeard, Named, Names
  <2>2. \A u \in TimelineTool : Coming(told', pipe', "TOOL_STARTED", u) <=> Coming(told, pipe, "TOOL_STARTED", u)
    BY <1>8 DEF SameComing, Brings, Named, Names
  <2>3. /\ executions' \in [TimelineTool -> {"none", "PREPARED", "SETTLED"}]
        /\ \A u \in TimelineTool : executions'[u] # "none" <=> executions[u] # "none"
        /\ told'.status = "WAITING_TOOL" => \E u \in TimelineTool : executions'[u] = "PREPARED"
    BY <1>4, <2>0 DEF ToolInv
  <2>4. /\ tools' \in ToolStates
        /\ \A u \in TimelineTool : tools'[u] = tools[u] \/ (tools'[u] = "answered" /\ tools[u] = "reported")
    BY <1>6, InvTypes DEF ToolStates
  <2>5. ASSUME NEW u \in TimelineTool
        PROVE  /\ executions'[u] # "none" => Heard(told', "TOOL_STARTED", u)
               /\ stage' = "open" /\ tools'[u] = "started" => Coming(told', pipe', "TOOL_STARTED", u)
               /\ tools'[u] = "running" => executions'[u] # "none"
               /\ stage' \in {"control", "sandbox", "opening"} => tools'[u] = "none"
    <3>1. /\ executions[u] # "none" => Heard(told, "TOOL_STARTED", u)
          /\ stage = "open" /\ tools[u] = "started" => Coming(told, pipe, "TOOL_STARTED", u)
          /\ tools[u] = "running" => executions[u] # "none"
          /\ stage \in {"control", "sandbox", "opening"} => tools[u] = "none"
      BY <2>0 DEF ToolInv
    <3> QED  BY <2>0, <2>1, <2>2, <2>3, <2>4, <3>1
  <2> QED  BY <2>3, <2>4, <2>5 DEF ToolInv, ToolStates
<1> QED  BY <1>8, <1>9 DEF TimelineIInv

LEMMA ReadEventKeeps ==
  ASSUME Timeline!Configured, TimelineIInv, pipe # <<>>,
         NEW e \in Emitted, e = Head(pipe), Timeline!ReadMessage
  PROVE  TimelineIInv'
<1>0. e \in Message /\ Follows(told, pipe, 1, e)
  <2>1. LogOK(told, pipe) /\ pipe \in Seq(Message)
    BY InvFacts
  <2>2. e = pipe[1] /\ 1 \in DOMAIN pipe
    BY <2>1, HeadTailProperties, PipeFacts, EmptySeq
  <2> QED  BY <2>1, <2>2 DEF LogOK, Message
<1>1. e.type \notin {"TOOL_PREPARE_REQUEST", "TOOL_COMPLETE_REQUEST", "RUN_RETURNED", "RUN_FAILED"}
  BY DEF Emitted, ModelType, ToolType, AttemptType, EndType
<1>2. /\ told' = Timeline!Handle(told, e) /\ pipe' = Tail(pipe)
      /\ UNCHANGED <<mode, execution, stage, session, listening, aborting, calls, executions, tools>>
  BY <1>1 DEF Timeline!ReadMessage, Timeline!fixed
<1>3. Due(told, e)
  <2>1. \A type, id : Arrived(told, pipe, 1, type, id) <=> Heard(told, type, id)
    BY DEF Arrived
  <2> QED  BY <1>0, <2>1 DEF Follows, Due
<1>4. /\ told' \in Told /\ RowsOK(told') /\ Learns(told, e, told') /\ Ends(told, told')
      /\ e.type \in EndType => told'.status # "RUNNING"
      /\ told.status \notin Timeline!Live => told'.status \notin Timeline!Live
  BY <1>2, <1>3, InvFacts, HandleEffect
<1>5. told.status = "WAITING_TOOL" /\ e.type # "TOOL_COMPLETE_REQUEST" => told'.status # "RUNNING"
  BY <1>4 DEF Ends, Timeline!Live
<1>6. LogOK(told, pipe)' /\ CallInv' /\ StageInv' /\ SameComing(told, pipe, told', pipe')
  <2>1. (Timeline!Executing)' \subseteq Timeline!Executing
    BY <1>2 DEF Timeline!Executing
  <2> QED  BY <1>2, <1>4, <1>5, <2>1, ConsumedKeeps
<1>7. ToolInv'
  <2>0. ToolInv
    BY DEF TimelineIInv
  <2>1. \A u \in TimelineTool : Heard(told, "TOOL_STARTED", u) => Heard(told', "TOOL_STARTED", u)
    BY <1>4, LearnsMore
  <2>2. \A u \in TimelineTool : Coming(told', pipe', "TOOL_STARTED", u) <=> Coming(told, pipe, "TOOL_STARTED", u)
    BY <1>6 DEF SameComing, Brings, Named, Names
  <2>3. told'.status = "WAITING_TOOL" => told.status = "WAITING_TOOL"
    BY <1>4 DEF Ends, Timeline!Live
  <2> QED  BY <1>2, <2>0, <2>1, <2>2, <2>3 DEF ToolInv
<1> QED  BY <1>6, <1>7 DEF TimelineIInv

LEMMA ReadMessageKeeps ==
  ASSUME Timeline!Configured, TimelineIInv, Timeline!ReadMessage
  PROVE  TimelineIInv'
<1>0. pipe # <<>> /\ aborting \in BOOLEAN /\ told \in Told /\ RowsOK(told)
  BY InvFacts DEF Timeline!ReadMessage, TimelineIInv, StageInv
<1>1. PICK e \in Message : e = Head(pipe)
  BY <1>0, InvFacts, HeadTailProperties
<1>2. CASE e.type = "TOOL_PREPARE_REQUEST"
  BY <1>0, <1>1, <1>2, ReadPrepareKeeps
<1>3. CASE e.type = "TOOL_COMPLETE_REQUEST"
  BY <1>0, <1>1, <1>3, ReadCompleteKeeps
<1>4. CASE e \in Emitted
  BY <1>0, <1>1, <1>4, ReadEventKeeps
<1>5. CASE e.type = "RUN_RETURNED"
  <2>1. /\ Timeline!Unsubscribe
        /\ UNCHANGED <<mode, execution, session, tools, told, executions, aborting>>
    BY <1>1, <1>5 DEF Timeline!ReadMessage, Timeline!fixed
  <2>2. Quiet(told, pipe, 1)
    <3>1. pipe[1] = e /\ 1 \in DOMAIN pipe
      BY <1>0, <1>1, InvFacts, HeadTailProperties, PipeFacts, EmptySeq
    <3> QED  BY <1>5, <3>1, InvFacts DEF Settles
  <2>3. told.status \in Timeline!Live => told.status = "WAITING_TOOL"
    BY <2>2 DEF Quiet
  <2> QED  BY <1>0, <2>1, <2>3, UnsubscribeKeeps DEF SameHeard
<1>6. CASE e.type = "RUN_FAILED"
  <2>1. /\ told' = Timeline!InterruptedBy(told) /\ Timeline!Unsubscribe
        /\ UNCHANGED <<mode, execution, session, tools, executions, aborting>>
    BY <1>1, <1>6 DEF Timeline!ReadMessage, Timeline!fixed
  <2>2. told' \in Told /\ RowsOK(told') /\ SameHeard(told, told') /\ told'.status \notin Timeline!Live
    BY <1>0, <2>1, InterruptedEffect
  <2> QED  BY <1>0, <2>1, <2>2, EndedKeeps
<1>7. e \in Emitted \/ e.type \in RequestType \cup ReturnType
  BY DEF Message
<1> QED  BY <1>2, <1>3, <1>4, <1>5, <1>6, <1>7 DEF RequestType, ReturnType

-----------------------------------------------------------------------------
(* The property *)

LEMMA TimelineInit == Timeline!Init => TimelineIInv
<1> SUFFICES ASSUME Timeline!Init
             PROVE  TimelineIInv
  OBVIOUS
<1>1. /\ told = [status |-> "QUEUED", events |-> <<>>, output |-> {}] /\ pipe = <<>>
      /\ execution = 0 /\ stage = "idle" /\ session = Timeline!NoSession
      /\ tools = [t \in TimelineTool |-> "none"] /\ executions = [t \in TimelineTool |-> "none"]
      /\ listening = FALSE /\ aborting = FALSE /\ calls = [c \in TimelineCall |-> "fresh"]
  BY DEF Timeline!Init
<1>2. /\ told.events = <<>> /\ told.status = "QUEUED" /\ told.output = {} /\ DOMAIN told.events = {}
  BY <1>1, EmptySeq
<1>3. told \in Told
  <2>1. <<>> \in Seq(Row) /\ "QUEUED" \in Status
    BY EmptySeq DEF Status
  <2> QED  BY <1>1, <2>1 DEF Told
<1>4. \A type, id : ~Heard(told, type, id)
  BY <1>2 DEF Heard
<1>5. RowsOK(told)
  BY <1>2, <1>4 DEF RowsOK, KeysOK, OrderOK, SpokenOK
<1>6. /\ LogOK(told, pipe)
      /\ \A type, id : Coming(told, pipe, type, id) <=> Heard(told, type, id)
  BY <1>1, <1>3, <1>5, LogFlushed
<1>7. CallInv
  BY <1>1, <1>4, <1>6 DEF CallInv, Timeline!NoSession
<1>8. ToolInv
  BY <1>1, <1>2 DEF ToolInv
<1>9. StageInv
  <2>1. DOMAIN pipe = {}
    BY <1>1, EmptySeq
  <2> QED  BY <1>1, <1>2, <2>1 DEF StageInv, Timeline!NoSession, Timeline!Live
<1> QED  BY <1>6, <1>7, <1>8, <1>9 DEF TimelineIInv

LEMMA TimelineStep ==
  ASSUME Timeline!Configured, TimelineIInv, [Timeline!Next]_Timeline!vars
  PROVE  TimelineIInv'
<1>0. TimelineIInv /\ LogOK(told, pipe) /\ CallInv /\ ToolInv /\ StageInv
  BY DEF TimelineIInv
<1>1. CASE UNCHANGED Timeline!vars
  <2>1. UNCHANGED <<mode, execution, stage, session, tools, pipe, told, executions,
                    listening, aborting, calls>>
    BY <1>1 DEF Timeline!vars, Timeline!fixed
  <2>2. LogOK(told, pipe)' /\ CallInv' /\ ToolInv'
    BY <1>0, <2>1 DEF LogOK, CallInv, ToolInv
  <2>3. StageInv'
    <3>1. (Timeline!Executing)' = Timeline!Executing
      BY <2>1 DEF Timeline!Executing
    <3> QED  BY <1>0, <2>1, <3>1 DEF StageInv
  <2> QED  BY <2>2, <2>3 DEF TimelineIInv
<1>2. CASE Timeline!Execute
  BY <1>2, ExecuteKeeps
<1>3. CASE Timeline!PrepareControl
  <2>1. /\ told' = Timeline!Handle(told, Timeline!Event("CONTROL_PREPARED", execution))
        /\ stage = "control" /\ stage' = "sandbox" /\ "CONTROL_PREPARED" \in AttemptType
        /\ UNCHANGED <<mode, execution, session, tools, pipe, executions, listening, aborting, calls>>
    BY <1>3 DEF Timeline!PrepareControl, Timeline!fixed, AttemptType
  <2> QED  BY <2>1, AttemptKeeps
<1>4. CASE Timeline!AcquireSandbox
  <2>1. /\ told' = Timeline!Handle(told, Timeline!Event("SANDBOX_ACQUIRED", execution))
        /\ stage = "sandbox" /\ stage' = "opening" /\ "SANDBOX_ACQUIRED" \in AttemptType
        /\ UNCHANGED <<mode, execution, session, tools, pipe, executions, listening, aborting, calls>>
    BY <1>4 DEF Timeline!AcquireSandbox, Timeline!fixed, AttemptType
  <2> QED  BY <2>1, AttemptKeeps
<1>5. CASE Timeline!InvocationFails \/ Timeline!ReportCrash \/ Timeline!MasterCrash
  BY <1>5, FailuresKeep
<1>6. CASE Timeline!StartSession \/ Timeline!ResumeSession
  BY <1>6, OpenSessionKeeps DEF Timeline!StartSession, Timeline!ResumeSession
<1>7. CASE Timeline!PromptReturns
  BY <1>7, PromptReturnsKeeps
<1>8. CASE Timeline!PromptThrows
  BY <1>8, PromptThrowsKeeps
<1>9. CASE Timeline!SessionSteps
  BY <1>9, SessionStepsKeep
<1>10. CASE \E t \in TimelineTool : Timeline!PrepareTool(t) \/ Timeline!CompleteTool(t)
  BY <1>10, PrepareToolKeeps, CompleteToolKeeps
<1>11. CASE Timeline!ReadMessage
  BY <1>11, ReadMessageKeeps
<1>12. CASE Timeline!WorkerDies \/ Timeline!Interrupt \/ Timeline!InterruptReturns
  BY <1>12, InterruptsKeep
<1> QED  BY <1>1, <1>2, <1>3, <1>4, <1>5, <1>6, <1>7, <1>8, <1>9, <1>10, <1>11, <1>12
         DEF Timeline!Next, Timeline!ResumedSessionSteps

\* A call is counted once when its end is on record.
LEMMA CallCounted ==
  ASSUME Timeline!Configured, NEW s \in Told, RowsOK(s), NEW c \in TimelineCall,
         NEW places, places = {i \in {j \in DOMAIN s.events : s.events[j].type = "MODEL_COMPLETED"} :
                                 s.events[i].id = c}
  PROVE  Cardinality(places) = IF Heard(s, "MODEL_COMPLETED", c) THEN 1 ELSE 0
<1>1. c \in Names /\ "MODEL_COMPLETED" \in Named /\ "MODEL_COMPLETED" \in ModelType
  BY DEF Names, Named, ModelType
<1>2. \A i \in DOMAIN s.events : i \in places <=> s.events[i].key = EventKey("MODEL_COMPLETED", c)
  <2> SUFFICES ASSUME NEW i \in DOMAIN s.events
               PROVE  i \in places <=> s.events[i].key = EventKey("MODEL_COMPLETED", c)
    OBVIOUS
  <2>1. i \in places => s.events[i].key = EventKey("MODEL_COMPLETED", c)
    BY <1>1 DEF RowsOK, KeysOK
  <2>2. s.events[i].key = EventKey("MODEL_COMPLETED", c) => i \in places
    BY <1>1 DEF RowsOK, KeysOK
  <2> QED  BY <2>1, <2>2
<1>3. CASE Heard(s, "MODEL_COMPLETED", c)
  <2>1. PICK i \in DOMAIN s.events : s.events[i].key = EventKey("MODEL_COMPLETED", c)
    BY <1>3 DEF Heard
  <2>2. EventKey("MODEL_COMPLETED", c) # Null => places = {i}
    BY <1>2, <2>1 DEF RowsOK, KeysOK
  <2>3. EventKey("MODEL_COMPLETED", c) # Null
    BY <1>1 DEF Timeline!Configured, ModelType, EventKey
  <2> QED  BY <1>3, <2>2, <2>3, FS_Singleton
<1>4. CASE ~Heard(s, "MODEL_COMPLETED", c)
  <2>1. places = {}
    BY <1>2, <1>4 DEF Heard
  <2> QED  BY <1>4, <2>1, FS_EmptySet
<1> QED  BY <1>3, <1>4

LEMMA StoredIsHeard ==
  ASSUME told \in Told, NEW type, NEW id
  PROVE  Timeline!Stored(<<type, id>>) <=> Heard(told, type, id)
<1>1. DOMAIN told.events = 1..Len(told.events)
  BY ToldEvents
<1> QED  BY <1>1 DEF Timeline!Stored, Heard, EventKey

LEMMA PlaceIsThere ==
  ASSUME told \in Told, NEW type, NEW id, Heard(told, type, id)
  PROVE  /\ Timeline!Place(<<type, id>>) \in DOMAIN told.events
         /\ told.events[Timeline!Place(<<type, id>>)].key = EventKey(type, id)
<1>1. DOMAIN told.events = 1..Len(told.events)
  BY ToldEvents
<1>2. \E i \in 1..Len(told.events) : told.events[i].key = <<type, id>>
  BY <1>1 DEF Heard, EventKey
<1> QED  BY <1>1, <1>2 DEF Timeline!Place, EventKey

LEMMA SameCount ==
  ASSUME NEW X  PROVE Timeline!Cardinality(X) = Cardinality(X)
BY DEF Timeline!Cardinality, Cardinality

\* The invariant says what the tables are asked.
LEMMA TimelineIsTrue ==
  ASSUME Timeline!Configured, TimelineIInv
  PROVE  Timeline!TimelineTellsTheTruth
<1>0. /\ told \in Told /\ RowsOK(told) /\ CallInv /\ ToolInv /\ StageInv
      /\ DOMAIN told.events = 1..Len(told.events) /\ Len(told.events) \in Nat
  <2>1. told \in Told /\ RowsOK(told)
    BY InvFacts
  <2> QED  BY <2>1, ToldEvents DEF TimelineIInv
<1>1. ASSUME NEW c \in TimelineCall
      PROVE  Timeline!RunMetrics.llmUsage[c]
               = IF calls[c] = "ended" /\ c \notin Timeline!EndedIn(pipe) THEN 1 ELSE 0
  <2> DEFINE places == {i \in {j \in DOMAIN told.events : told.events[j].type = "MODEL_COMPLETED"} :
                          told.events[i].id = c}
  <2>1. Timeline!RunMetrics.llmUsage[c] = Timeline!Cardinality(places)
    BY DEF Timeline!RunMetrics, Timeline!Usage, Timeline!Rows
  <2>2. PICK there : there = places
    OBVIOUS
  <2> HIDE DEF places
  <2>3. Cardinality(places) = IF Heard(told, "MODEL_COMPLETED", c) THEN 1 ELSE 0
    BY <1>0, <2>2, CallCounted DEF places
  <2>4. Timeline!Cardinality(places) = Cardinality(places)
    BY SameCount
  <2> QED  BY <2>1, <2>3, <2>4, HeardEnds
<1>2. ASSUME NEW c \in TimelineCall
      PROVE  Timeline!Stored(<<"MODEL_COMPLETED", c>>) => Timeline!Stored(<<"MODEL_STARTED", c>>)
  BY <1>0, StoredIsHeard DEF RowsOK, OrderOK
<1>3. ASSUME NEW c \in TimelineCall, Timeline!Stored(<<"MODEL_FIRST_TOKEN", c>>)
      PROVE  /\ Timeline!Place(<<"MODEL_STARTED", c>>) < Timeline!Place(<<"MODEL_FIRST_TOKEN", c>>)
             /\ Timeline!Stored(<<"MODEL_COMPLETED", c>>) =>
                  Timeline!Place(<<"MODEL_FIRST_TOKEN", c>>) < Timeline!Place(<<"MODEL_COMPLETED", c>>)
  <2> DEFINE P(type) == Timeline!Place(<<type, c>>)
  <2>1. Heard(told, "MODEL_FIRST_TOKEN", c)
    BY <1>0, <1>3, StoredIsHeard
  <2>2. /\ P("MODEL_FIRST_TOKEN") \in DOMAIN told.events
        /\ told.events[P("MODEL_FIRST_TOKEN")].key = EventKey("MODEL_FIRST_TOKEN", c)
    BY <1>0, <2>1, PlaceIsThere
  <2>3. PICK f \in DOMAIN told.events : f = P("MODEL_FIRST_TOKEN")
    BY <2>2
  <2>4. FirstTokenOK(told, c, f)
    BY <1>0, <2>2, <2>3 DEF RowsOK, OrderOK
  <2>5. P("MODEL_STARTED") < f
    <3>1. PICK j \in 1..(f - 1) : told.events[j].key = EventKey("MODEL_STARTED", c)
      BY <2>4 DEF FirstTokenOK
    <3>2. j \in DOMAIN told.events /\ j < f
      BY <1>0, <2>3
    <3>3. Heard(told, "MODEL_STARTED", c)
      BY <3>1, <3>2 DEF Heard
    <3>4. /\ P("MODEL_STARTED") \in DOMAIN told.events
          /\ told.events[P("MODEL_STARTED")].key = EventKey("MODEL_STARTED", c)
      BY <1>0, <3>3, PlaceIsThere
    <3>5. EventKey("MODEL_STARTED", c) # Null
      BY DEF Timeline!Configured, EventKey
    <3>6. P("MODEL_STARTED") = j
      BY <1>0, <3>1, <3>2, <3>4, <3>5 DEF RowsOK, KeysOK
    <3> QED  BY <3>2, <3>6
  <2>6. ASSUME Timeline!Stored(<<"MODEL_COMPLETED", c>>)
        PROVE  f < P("MODEL_COMPLETED")
    <3>1. Heard(told, "MODEL_COMPLETED", c)
      BY <1>0, <2>6, StoredIsHeard
    <3>2. /\ P("MODEL_COMPLETED") \in DOMAIN told.events
          /\ told.events[P("MODEL_COMPLETED")].key = EventKey("MODEL_COMPLETED", c)
      BY <1>0, <3>1, PlaceIsThere
    <3> QED  BY <2>4, <3>2 DEF FirstTokenOK
  <2> QED  BY <2>3, <2>5, <2>6
<1>4. \A t \in Timeline!RunMetrics.toolCalls : Timeline!Stored(<<"TOOL_STARTED", t>>)
  <2>1. Timeline!RunMetrics.toolCalls = {t \in TimelineTool : executions[t] # "none"}
    BY DEF Timeline!RunMetrics
  <2> QED  BY <1>0, <2>1, StoredIsHeard DEF ToolInv
<1>5. Timeline!RunMetrics.hasFinalText => Timeline!Rows("MODEL_FIRST_TOKEN") # {}
  <2> SUFFICES ASSUME told.output # {}
               PROVE  Timeline!Rows("MODEL_FIRST_TOKEN") # {}
    BY DEF Timeline!RunMetrics
  <2>1. PICK c \in TimelineCall, i \in DOMAIN told.events :
          told.events[i].key = EventKey("MODEL_FIRST_TOKEN", c)
    BY <1>0 DEF RowsOK, SpokenOK, Heard
  <2>2. told.events[i].type = "MODEL_FIRST_TOKEN"
    BY <1>0, <2>1 DEF RowsOK, KeysOK, Named, ModelType, Names
  <2> QED  BY <2>2 DEF Timeline!Rows
<1>6. told.status = "WAITING_TOOL" => \E t \in TimelineTool : executions[t] = "PREPARED"
  BY <1>0 DEF ToolInv
<1>7. ~listening /\ told.status \in Timeline!Live => aborting \/ told.status = "WAITING_TOOL"
  BY <1>0 DEF StageInv
<1> QED  BY <1>1, <1>2, <1>3, <1>4, <1>5, <1>6, <1>7 DEF Timeline!TimelineTellsTheTruth

\* For any calls and tools, any number of attempts and any length of the pipe:
\* a model call that ended is counted once, unless its end is in the pipe or
\* was left there; the rows of a call are in order; a governed tool call has its
\* start on record and text a first token; a run that says it waits for a tool
\* has one that is not settled, and no other is left behind by an invocation
\* (the stores behind PiAdapter, RuntimeEventBridge and RunService).
THEOREM TheTimelineIsTrue == Timeline!Configured => (Timeline!Spec => []TimelineTellsTheTruth)
<1> SUFFICES ASSUME Timeline!Configured
             PROVE  Timeline!Spec => []TimelineTellsTheTruth
  OBVIOUS
<1>1. TimelineIInv /\ [Timeline!Next]_Timeline!vars => TimelineIInv'
  BY TimelineStep
<1>2. TimelineIInv => TimelineTellsTheTruth
  BY TimelineIsTrue DEF TimelineTellsTheTruth
<1> QED  BY <1>1, <1>2, TimelineInit, PTL DEF Timeline!Spec

-----------------------------------------------------------------------------
(* WorkspaceResults *)

Manifest == Results!Manifest
Diffs == [changed : SUBSET File, deleted : SUBSET File]

ResultsTypeInv ==
  /\ files \in Manifest
  /\ status \in {"QUEUED", "RUNNING", "INTERRUPTED", "COMPLETED", "FAILED"}
  /\ attempts \in Nat
  /\ capturing \in {"idle", "before", "running", "after", "storing", "copying"}
  /\ retaken \in BOOLEAN /\ ahead \in BOOLEAN
  /\ scan \in [left : SUBSET File, read : Manifest]
  /\ stored \in [before : Manifest \cup {Null}, after : Manifest \cup {Null},
                 diff : Diffs \cup {Null}]
  /\ copy \in [left : SUBSET File, path : File \cup {Null}, body : Content \cup {Null}]
  /\ disk \in [File -> {Null, Results!Torn} \cup Content]
  /\ rows \in Manifest

\* Until a manifest is taken again the one in the store is that of the first
\* start, and the difference is taken from it; a difference that is older than
\* the AFTER manifest is about to be replaced, or the process died.
FirstInv ==
  /\ attempts >= 1 => /\ first \in Manifest /\ stored.before \in Manifest
                      /\ ~retaken => stored.before = first
  /\ capturing \in {"running", "after", "storing", "copying"} => attempts >= 1
  /\ capturing = "storing" => ahead /\ stored.after \in Manifest
  /\ stored.diff # Null => attempts >= 1
  /\ stored.diff # Null /\ ~retaken /\ ~ahead =>
       stored.diff = Results!DiffWorkspace(first, stored.after)

\* Files are copied once, after everything else: a run that has ended never
\* gets another manifest, and one cut short in its copies never copies again.
\* So what is on disk before the copies begin is nothing, and while they last
\* it is what has a row.
CopyInv ==
  /\ \/ \A p \in File : disk[p] = Null /\ rows[p] = Null
     \/ capturing = "copying"
     \/ capturing = "idle" /\ status \in Results!Ended
  /\ capturing # "copying" => copy = Results!NoCopy
  /\ capturing = "copying" =>
       /\ status \in Results!Ended
       /\ stored.after \in Manifest
       /\ stored.diff \in Diffs /\ copy.left \subseteq stored.diff.changed
       /\ copy.path # Null => /\ copy.path \in stored.diff.changed
                              /\ copy.body = stored.after[copy.path]
       /\ stored.diff = Results!DiffWorkspace(stored.before, stored.after)
       /\ \A p \in File : disk[p] = rows[p]
  /\ \A p \in File : rows[p] # Null =>
       /\ disk[p] = rows[p]
       /\ p \in stored.diff.changed /\ stored.after[p] = rows[p]
       /\ stored.diff = Results!DiffWorkspace(stored.before, stored.after)

ResultsIInv == ResultsTypeInv /\ FirstInv /\ CopyInv

LEMMA ResultsInit == Results!Init => ResultsIInv
<1> USE DEF Results!Init, Manifest, Results!Manifest
<1>1. ASSUME Results!Init  PROVE ResultsTypeInv
  <2>1. retaken \in BOOLEAN /\ ahead \in BOOLEAN
    BY <1>1
  <2>2. /\ scan \in [left : SUBSET File, read : Manifest]
        /\ disk \in [File -> {Null, Results!Torn} \cup Content] /\ rows \in Manifest
    BY <1>1 DEF Results!NoScan
  <2>3. /\ files \in Manifest /\ status = "QUEUED" /\ attempts \in Nat /\ capturing = "idle"
        /\ copy \in [left : SUBSET File, path : File \cup {Null}, body : Content \cup {Null}]
    BY <1>1 DEF Results!NoCopy
  <2>4. stored \in [before : Manifest \cup {Null}, after : Manifest \cup {Null},
                   diff : Diffs \cup {Null}]
    BY <1>1
  <2> QED  BY <2>1, <2>2, <2>3, <2>4 DEF ResultsTypeInv
<1>2. Results!Init => FirstInv
  BY DEF FirstInv
<1>3. Results!Init => CopyInv
  BY DEF CopyInv
<1> QED  BY <1>1, <1>2, <1>3 DEF ResultsIInv

\* Every step keeps the three parts of the invariant, most of them because the
\* step belongs to a capturing of its own.
LEMMA ResultsNext ==
  ASSUME ResultsIInv, [Results!Next]_(Results!vars)
  PROVE  ResultsIInv'
<1> USE DEF Manifest, Results!Manifest
<1>1. ResultsTypeInv /\ FirstInv /\ CopyInv
  BY DEF ResultsIInv
<1>2. ASSUME NEW p \in File, Results!ReadFile(p)  PROVE ResultsIInv'
  <2>1. ResultsTypeInv'
    BY <1>1, <1>2 DEF ResultsTypeInv, Results!ReadFile, Results!ghost
  <2>2. FirstInv'
    BY <1>1, <1>2 DEF FirstInv, Results!ReadFile, Results!ghost
  <2>3. CopyInv'
    BY <1>1, <1>2 DEF CopyInv, Results!ReadFile, Results!ghost
  <2> QED  BY <2>1, <2>2, <2>3 DEF ResultsIInv
<1>3. CASE Results!CaptureBefore
  <2>1. ResultsTypeInv'
    BY <1>1, <1>3 DEF ResultsTypeInv, Results!CaptureBefore, Results!ghost, Results!Listing
  <2>2. FirstInv'
    BY <1>1, <1>3 DEF FirstInv, Results!CaptureBefore, Results!ghost
  <2>3. CopyInv'
    BY <1>1, <1>3 DEF CopyInv, Results!CaptureBefore, Results!ghost, Results!Ended
  <2> QED  BY <2>1, <2>2, <2>3 DEF ResultsIInv
<1>4. CASE Results!BeforeCaptured
  <2>1. ResultsTypeInv'
    BY <1>1, <1>4 DEF ResultsTypeInv, Results!BeforeCaptured, Results!NoScan
  <2>2. FirstInv'
    <3>1. /\ attempts \in Nat /\ scan.read \in Manifest
          /\ stored'.before = scan.read /\ stored'.after = stored.after
          /\ stored'.diff = stored.diff /\ ahead' = ahead
          /\ \/ status = "QUEUED" /\ capturing' = "running" /\ attempts' = attempts + 1
                /\ first' = IF attempts = 0 THEN scan.read ELSE first
             \/ capturing' = "idle" /\ attempts' = attempts /\ first' = first
      BY <1>1, <1>4 DEF ResultsTypeInv, Results!BeforeCaptured
    <3>2. attempts >= 1 => retaken'
      <4>1. attempts > 0 => retaken'
        BY <1>4, Zenon DEF Results!BeforeCaptured
      <4> QED  BY <3>1, <4>1
    <3>3. CASE attempts = 0
      BY <1>1, <3>1, <3>3 DEF FirstInv
    <3>4. CASE attempts >= 1
      BY <1>1, <3>1, <3>2, <3>4 DEF FirstInv
    <3> QED  BY <3>1, <3>3, <3>4
  <2>3. CopyInv'
    BY <1>1, <1>4 DEF ResultsTypeInv, CopyInv, Results!BeforeCaptured
  <2> QED  BY <2>1, <2>2, <2>3 DEF ResultsIInv
<1>5. CASE Results!Resume
  <2>1. ResultsTypeInv'
    BY <1>1, <1>5 DEF ResultsTypeInv, Results!Resume, Results!ghost
  <2>2. FirstInv'
    BY <1>1, <1>5 DEF ResultsTypeInv, FirstInv, Results!Resume, Results!ghost
  <2>3. CopyInv'
    BY <1>1, <1>5 DEF CopyInv, Results!Resume, Results!ghost, Results!Ended
  <2> QED  BY <2>1, <2>2, <2>3 DEF ResultsIInv
<1>16. CASE Results!QueueResume
  <2>1. ResultsTypeInv'
    BY <1>1, <1>16 DEF ResultsTypeInv, Results!QueueResume, Results!ghost
  <2>2. FirstInv'
    BY <1>1, <1>16 DEF FirstInv, Results!QueueResume, Results!ghost
  <2>3. CopyInv'
    BY <1>1, <1>16 DEF CopyInv, Results!QueueResume, Results!ghost, Results!Ended
  <2> QED  BY <2>1, <2>2, <2>3 DEF ResultsIInv
<1>6. ASSUME NEW s \in {"COMPLETED", "FAILED", "INTERRUPTED"}, Results!RunReturns(s)
      PROVE  ResultsIInv'
  <2>1. ResultsTypeInv'
    BY <1>1, <1>6 DEF ResultsTypeInv, Results!RunReturns, Results!ghost, Results!Listing
  <2>2. FirstInv'
    BY <1>1, <1>6 DEF FirstInv, Results!RunReturns, Results!ghost
  <2>3. CopyInv'
    BY <1>1, <1>6 DEF CopyInv, Results!RunReturns, Results!ghost
  <2> QED  BY <2>1, <2>2, <2>3 DEF ResultsIInv
<1>7. CASE Results!AfterCaptured
  <2>1. /\ scan.read \in Manifest
        /\ stored' = [stored EXCEPT !.after = scan.read]
        /\ stored'.before = stored.before /\ stored'.after = scan.read
        /\ stored'.diff = stored.diff
    BY <1>1, <1>7 DEF ResultsTypeInv, Results!AfterCaptured
  <2>2. ResultsTypeInv'
    BY <1>1, <1>7, <2>1 DEF ResultsTypeInv, Results!AfterCaptured, Results!NoScan
  <2>3. FirstInv'
    BY <1>1, <1>7, <2>1 DEF FirstInv, Results!AfterCaptured
  <2>4. CopyInv'
    BY <1>1, <1>7, <2>1 DEF CopyInv, Results!AfterCaptured
  <2> QED  BY <2>2, <2>3, <2>4 DEF ResultsIInv
<1>17. CASE Results!DiffStored
  <2> DEFINE diff == Results!DiffWorkspace(stored.before, stored.after)
  <2>1. /\ diff \in Diffs /\ stored.after \in Manifest
        /\ stored' = [stored EXCEPT !.diff = diff]
        /\ stored'.before = stored.before /\ stored'.after = stored.after /\ stored'.diff = diff
    BY <1>1, <1>17 DEF ResultsTypeInv, FirstInv, Results!DiffStored, Results!DiffWorkspace, Diffs
  <2>2. diff.changed \subseteq File
    BY <2>1 DEF Diffs
  <2> HIDE DEF diff
  <2>3. /\ capturing = "storing" /\ status' = status /\ disk' = disk /\ rows' = rows
        /\ attempts' = attempts /\ first' = first /\ files' = files
        /\ scan' = scan /\ retaken' = retaken /\ ahead' = FALSE
        /\ \/ status \in Results!Ended /\ capturing' = "copying"
              /\ copy' = [Results!NoCopy EXCEPT !.left = diff.changed]
           \/ capturing' = "idle" /\ copy' = copy
    BY <1>17 DEF Results!DiffStored, diff
  <2>4. ResultsTypeInv'
    BY <1>1, <2>1, <2>2, <2>3 DEF ResultsTypeInv, Results!NoCopy
  <2>5. FirstInv'
    BY <1>1, <2>1, <2>3 DEF FirstInv, diff
  <2>6. CopyInv'
    <3>1. \A p \in File : disk[p] = Null /\ rows[p] = Null
      BY <1>1, <2>3 DEF CopyInv
    <3>2. copy = Results!NoCopy
      BY <1>1, <2>3 DEF CopyInv
    <3>3. stored'.diff = Results!DiffWorkspace(stored'.before, stored'.after)
      BY <2>1 DEF diff
    <3> QED  BY <2>1, <2>3, <3>1, <3>2, <3>3 DEF CopyInv, Results!NoCopy, Results!Ended
  <2> QED  BY <2>4, <2>5, <2>6 DEF ResultsIInv
<1>8. CASE Results!SnapshotThrows
  <2>1. ResultsTypeInv'
    BY <1>1, <1>8 DEF ResultsTypeInv, Results!SnapshotThrows, Results!ghost, Results!NoScan
  <2>2. FirstInv'
    BY <1>1, <1>8 DEF FirstInv, Results!SnapshotThrows, Results!ghost
  <2>3. CopyInv'
    BY <1>1, <1>8 DEF CopyInv, Results!SnapshotThrows, Results!ghost, Results!Snapshotting
  <2> QED  BY <2>1, <2>2, <2>3 DEF ResultsIInv
<1>9. ASSUME NEW p \in File, Results!ReadSource(p)  PROVE ResultsIInv'
  <2>1. ResultsTypeInv'
    BY <1>1, <1>9 DEF ResultsTypeInv, Results!ReadSource, Results!ghost
  <2>2. FirstInv'
    BY <1>1, <1>9 DEF FirstInv, Results!ReadSource, Results!ghost
  <2>3. CopyInv'
    BY <1>1, <1>9 DEF ResultsTypeInv, CopyInv, Results!ReadSource, Results!ghost
  <2> QED  BY <2>1, <2>2, <2>3 DEF ResultsIInv
<1>10. CASE Results!WriteArtifact
  <2>1. ResultsTypeInv'
    BY <1>1, <1>10 DEF ResultsTypeInv, CopyInv, Results!WriteArtifact, Results!ghost, Diffs
  <2>2. FirstInv'
    BY <1>1, <1>10 DEF FirstInv, Results!WriteArtifact, Results!ghost
  <2>3. CopyInv'
    BY <1>1, <1>10 DEF ResultsTypeInv, CopyInv, Results!WriteArtifact, Results!ghost
  <2> QED  BY <2>1, <2>2, <2>3 DEF ResultsIInv
<1>11. CASE Results!Copied
  <2>1. ResultsTypeInv'
    BY <1>1, <1>11 DEF ResultsTypeInv, Results!Copied, Results!ghost
  <2>2. FirstInv'
    BY <1>1, <1>11 DEF FirstInv, Results!Copied, Results!ghost
  <2>3. CopyInv'
    BY <1>1, <1>11 DEF CopyInv, Results!Copied, Results!ghost
  <2> QED  BY <2>1, <2>2, <2>3 DEF ResultsIInv
<1>18. CASE Results!CopyThrows
  <2>1. ResultsTypeInv'
    BY <1>1, <1>18 DEF ResultsTypeInv, Results!CopyThrows, Results!ghost, Results!NoCopy
  <2>2. FirstInv'
    BY <1>1, <1>18 DEF FirstInv, Results!CopyThrows, Results!ghost
  <2>3. CopyInv'
    BY <1>1, <1>18 DEF CopyInv, Results!CopyThrows, Results!ghost
  <2> QED  BY <2>1, <2>2, <2>3 DEF ResultsIInv
<1>12. ASSUME NEW p \in File, NEW c \in {Null} \cup Content, Results!Write(p, c)
       PROVE  ResultsIInv'
  <2>1. ResultsTypeInv'
    BY <1>1, <1>12 DEF ResultsTypeInv, Results!Write, Results!ghost
  <2>2. FirstInv'
    BY <1>1, <1>12 DEF FirstInv, Results!Write, Results!ghost
  <2>3. CopyInv'
    BY <1>1, <1>12 DEF CopyInv, Results!Write, Results!ghost
  <2> QED  BY <2>1, <2>2, <2>3 DEF ResultsIInv
<1>13. CASE Results!TakeOver
  <2>1. ResultsTypeInv'
    BY <1>1, <1>13 DEF ResultsTypeInv, Results!TakeOver, Results!ghost
  <2>2. FirstInv'
    BY <1>1, <1>13 DEF FirstInv, Results!TakeOver, Results!ghost
  <2>3. CopyInv'
    BY <1>1, <1>13 DEF CopyInv, Results!TakeOver, Results!ghost, Results!Ended
  <2> QED  BY <2>1, <2>2, <2>3 DEF ResultsIInv
<1>14. CASE Results!Crash
  <2>1. /\ capturing' = "idle" /\ scan' = Results!NoScan
        /\ copy' = Results!NoCopy /\ status' \in {"INTERRUPTED", status}
        /\ (status \in Results!Ended => status' = status)
        /\ UNCHANGED <<files, attempts, stored, rows, first, retaken, ahead>>
    BY <1>14 DEF Results!Crash, Results!Ended, Results!ghost
  <2>2. \/ disk' = disk
        \/ /\ copy.path # Null /\ disk[copy.path] = Null
           /\ \E body \in {Null, Results!Torn, copy.body} :
                disk' = [disk EXCEPT ![copy.path] = body]
    BY <1>14 DEF Results!Crash
  <2>3. disk' \in [File -> {Null, Results!Torn} \cup Content]
    BY <1>1, <2>2 DEF ResultsTypeInv
  <2>4. ResultsTypeInv'
    BY <1>1, <2>1, <2>3 DEF ResultsTypeInv, Results!NoScan, Results!NoCopy
  <2>5. FirstInv'
    BY <1>1, <2>1 DEF FirstInv
  <2>6. CopyInv'
    BY <1>1, <2>1, <2>2 DEF ResultsTypeInv, CopyInv, Results!NoCopy
  <2> QED  BY <2>4, <2>5, <2>6 DEF ResultsIInv
<1>15. CASE UNCHANGED Results!vars
  BY <1>1, <1>15 DEF Results!vars, Results!ghost, ResultsIInv, ResultsTypeInv, FirstInv, CopyInv
<1> QED  BY <1>2, <1>3, <1>4, <1>5, <1>6, <1>7, <1>8, <1>9, <1>10, <1>11, <1>12, <1>13,
            <1>14, <1>15, <1>16, <1>17, <1>18 DEF Results!Next

\* ResultsAreWhatWasLeft: however the attempts of a run, the writes of others,
\* interrupts and crashes are interleaved, a listed artifact is complete and
\* is a file of the stored difference.  That is the difference between the run's
\* first start and its AFTER manifest unless a refused resumption took BEFORE
\* again (retaken) or the process died between the two writes of captureAfter
\* (ahead).
THEOREM ArtifactsAreWhatWasLeft == Results!Spec => []ResultsAreWhatWasLeft
<1>1. Results!Init => ResultsIInv
  BY ResultsInit
<1>2. ResultsIInv /\ [Results!Next]_(Results!vars) => ResultsIInv'
  BY ResultsNext
<1>3. ResultsIInv => ResultsAreWhatWasLeft
  BY DEF ResultsIInv, FirstInv, CopyInv, Results!ResultsAreWhatWasLeft, ResultsAreWhatWasLeft
<1> QED  BY <1>1, <1>2, <1>3, PTL DEF Results!Spec

-----------------------------------------------------------------------------
(* Types of the tenants *)

\* What the invariant of the tenants does not need; a login waits for a user.
TenantsTypes ==
  /\ credential \in [Token -> [tenant : Tenant \cup {Null}, scopes : SUBSET Tenants!Scope,
                               state : {"unused", "live", "revoked"}]]
  /\ users \subseteq Tenant
  /\ conversations \in [Session -> [tenant : Tenant, workspace : TenantWorkspace] \cup {Null}]
  /\ Len(runs) =< MaxRuns
  /\ \A q \in Request : request[q].kind = "login" => request[q].tenant \in Tenant

LEMMA TenantsTypesStep ==
  ASSUME Tenants!Configured, TenantsIInv, TenantsTypes, [Tenants!Next]_(Tenants!vars)
  PROVE  TenantsTypes'
<1> DEFINE Credential == [tenant : Tenant \cup {Null}, scopes : SUBSET Tenants!Scope,
                          state : {"unused", "live", "revoked"}]
           Logins(r) == \A q \in Request : r[q].kind = "login" => r[q].tenant \in Tenant
<1>1. /\ credential \in [Token -> Credential] /\ users \subseteq Tenant
      /\ conversations \in [Session -> [tenant : Tenant, workspace : TenantWorkspace] \cup {Null}]
      /\ Len(runs) =< MaxRuns /\ Logins(request)
      /\ runs \in Seq([tenant : Tenant, session : Session, workspace : TenantWorkspace])
      /\ Len(runs) \in Nat /\ MaxRuns \in Nat
      /\ request = [q \in Request |-> request[q]] /\ \A q \in Request : Checked(request[q])
      /\ \A k \in DOMAIN Keys : Keys[k] \in [tenant : Tenant, scopes : SUBSET Tenants!Scope]
  BY LenProperties DEF TenantsIInv, RunInv, RequestInv, TenantsTypes, Tenants!Configured
<1>2. ASSUME NEW q \in Request, NEW x, request' = [request EXCEPT ![q] = x],
             x.kind = "login" => x.tenant \in Tenant
      PROVE  Logins(request')
  <2>1. \A p \in Request : request'[p] = IF p = q THEN x ELSE request[p]
    BY <1>1, <1>2
  <2> QED  BY <1>1, <1>2, <2>1
<1>3. Tenants!Idle.kind # "login"
  BY DEF Tenants!Idle
<1>4. ASSUME \/ \E k \in Token : Tenants!CreateKey(k) \/ Tenants!Logout(k) \/ Tenants!Invalidate(k)
             \/ \E t \in Tenant : Tenants!RevokeAllSessions(t)
             \/ \E q \in Request : Tenants!LoginInserts(q)
      PROVE  credential' \in [Token -> Credential]
  <2>1. ASSUME NEW k \in Token, Tenants!CreateKey(k)  PROVE credential' \in [Token -> Credential]
    <3>1. PICK x : x = [tenant |-> Keys[k].tenant, scopes |-> Keys[k].scopes, state |-> "live"]
      OBVIOUS
    <3>2. Keys[k] \in [tenant : Tenant, scopes : SUBSET Tenants!Scope]
      BY <1>1, <2>1 DEF Tenants!CreateKey
    <3>3. x \in Credential
      BY <3>1, <3>2
    <3>4. credential' = [credential EXCEPT ![k] = x]
      BY <2>1, <3>1 DEF Tenants!CreateKey
    <3> HIDE DEF Credential
    <3> QED  BY <1>1, <3>3, <3>4
  <2>2. ASSUME NEW k \in Token, Tenants!Logout(k) \/ Tenants!Invalidate(k)
        PROVE  credential' \in [Token -> Credential]
    <3>1. PICK x : x = [credential[k] EXCEPT !.state = "revoked"]
      OBVIOUS
    <3>2. x \in Credential
      BY <1>1, <3>1
    <3>3. credential' = [credential EXCEPT ![k] = x]
      BY <2>2, <3>1 DEF Tenants!Logout, Tenants!Invalidate
    <3> HIDE DEF Credential
    <3> QED  BY <1>1, <3>2, <3>3
  <2>3. ASSUME NEW t \in Tenant, Tenants!RevokeAllSessions(t)
        PROVE  credential' \in [Token -> Credential]
    <3>1. credential' = [k \in Token |-> IF k \notin DOMAIN Keys /\ credential[k].tenant = t
                                         THEN [credential[k] EXCEPT !.state = "revoked"]
                                         ELSE credential[k]]
      BY <2>3 DEF Tenants!RevokeAllSessions
    <3>2. \A k \in Token : [credential[k] EXCEPT !.state = "revoked"] \in Credential
      BY <1>1
    <3> QED  BY <1>1, <3>1, <3>2
  <2>4. ASSUME NEW q \in Request, Tenants!LoginInserts(q)
        PROVE  credential' \in [Token -> Credential]
    <3>1. PICK k \in Token :
            credential' = [credential EXCEPT ![k] =
              [tenant |-> request[q].tenant, scopes |-> {"*"}, state |-> "live"]]
      BY <2>4 DEF Tenants!LoginInserts
    <3>2. PICK x : x = [tenant |-> request[q].tenant, scopes |-> {"*"}, state |-> "live"]
      OBVIOUS
    <3>3. request[q].tenant \in Tenant
      BY <1>1, <2>4 DEF Tenants!LoginInserts
    <3>4. x \in Credential
      BY <3>2, <3>3 DEF Tenants!Scope
    <3> HIDE DEF Credential
    <3> QED  BY <1>1, <3>1, <3>2, <3>4
  <2> QED  BY <1>4, <2>1, <2>2, <2>3, <2>4
<1>5. ASSUME NEW t \in Tenant, NEW s \in Session, NEW w \in TenantWorkspace,
             Tenants!SubmitAs(t, s, w)
      PROVE  Len(runs') =< MaxRuns
  <2>1. CASE ~Tenants!Resolved(t, s)
    BY <1>1, <1>5, <2>1 DEF Tenants!SubmitAs
  <2>2. CASE Tenants!Resolved(t, s)
    <3>1. PICK r : r = [tenant |-> t, session |-> s, workspace |-> w]
      OBVIOUS
    <3>2. r \in [tenant : Tenant, session : Session, workspace : TenantWorkspace]
      BY <3>1
    <3>3. runs' = Append(runs, r) /\ Len(runs) < MaxRuns
      BY <1>5, <2>2, <3>1 DEF Tenants!SubmitAs
    <3>4. Len(runs') = Len(runs) + 1
      BY <1>1, <3>2, <3>3, AppendProperties
    <3> QED  BY <1>1, <3>3, <3>4
  <2> QED  BY <2>1, <2>2
<1>6. ASSUME NEW q \in Request, Tenants!CreateConversation(q)
      PROVE  conversations' \in [Session -> [tenant : Tenant, workspace : TenantWorkspace] \cup {Null}]
  <2>1. PICK s \in Session :
          conversations' = [conversations EXCEPT ![s] =
            [tenant |-> request[q].tenant, workspace |-> request[q].workspace]]
    BY <1>6 DEF Tenants!CreateConversation
  <2>2. request[q].tenant \in Tenant /\ request[q].workspace \in TenantWorkspace
    BY <1>1, <1>6 DEF Tenants!CreateConversation, Checked, OwnsWorkspace
  <2> QED  BY <1>1, <2>1, <2>2
<1> HIDE DEF Credential, Logins
<1>7. /\ credential' = credential \/ credential' \in [Token -> Credential]
      /\ users' = users \/ \E t \in Tenant : users' = users \cup {t}
      /\ conversations' = conversations
           \/ conversations' \in [Session -> [tenant : Tenant, workspace : TenantWorkspace] \cup {Null}]
      /\ runs' = runs \/ Len(runs') =< MaxRuns
      /\ request' = request \/ Logins(request')
  <2>1. ASSUME NEW k \in Token, Tenants!CreateKey(k) \/ Tenants!Logout(k) \/ Tenants!Invalidate(k)
        PROVE  /\ UNCHANGED <<users, conversations, runs, request>>
               /\ credential' \in [Token -> Credential]
    BY <1>4, <2>1 DEF Tenants!CreateKey, Tenants!Logout, Tenants!Invalidate
  <2>2. ASSUME NEW t \in Tenant, Tenants!RegisterUser(t) \/ Tenants!RevokeAllSessions(t)
        PROVE  /\ UNCHANGED <<conversations, runs, request>>
               /\ users' = users \/ users' = users \cup {t}
               /\ credential' = credential \/ credential' \in [Token -> Credential]
    BY <1>4, <2>2 DEF Tenants!RegisterUser, Tenants!RevokeAllSessions
  <2>3. ASSUME NEW q \in Request, NEW x, Tenants!Await(q, x),
               x.kind = "login" => x.tenant \in Tenant
        PROVE  Logins(request')
    BY <1>2, <2>3 DEF Tenants!Await
  <2>4. ASSUME NEW q \in Request, NEW t \in Tenant,
               Tenants!LoginVerifies(q, t) \/ Tenants!CreateWorkspaceReads(q, t)
        PROVE  UNCHANGED <<credential, users, conversations, runs>> /\ Logins(request')
    <3>1. CASE Tenants!LoginVerifies(q, t)
      <4>1. [Tenants!Idle EXCEPT !.kind = "login", !.tenant = t].tenant \in Tenant
        BY DEF Tenants!Idle
      <4> QED  BY <2>3, <3>1, <4>1 DEF Tenants!LoginVerifies
    <3>2. CASE Tenants!CreateWorkspaceReads(q, t)
      <4>1. [Tenants!Idle EXCEPT !.kind = "workspace", !.tenant = t].tenant \in Tenant
        BY DEF Tenants!Idle
      <4> QED  BY <2>3, <3>2, <4>1 DEF Tenants!CreateWorkspaceReads
    <3> QED  BY <2>4, <3>1, <3>2
  <2>5. ASSUME NEW q \in Request, NEW t \in Tenant, NEW w \in TenantWorkspace,
               Tenants!CreateConversationReads(q, t, w)
        PROVE  UNCHANGED <<credential, users, conversations, runs>> /\ Logins(request')
    <3>1. [Tenants!Idle EXCEPT !.kind = "conversation", !.tenant = t, !.workspace = w].kind
            = "conversation"
      BY DEF Tenants!Idle
    <3> QED  BY <2>3, <2>5, <3>1 DEF Tenants!CreateConversationReads
  <2>6. ASSUME NEW q \in Request, NEW t \in Tenant, NEW s \in Session, Tenants!MessageReads(q, t, s)
        PROVE  UNCHANGED <<credential, users, conversations, runs>> /\ Logins(request')
    <3>1. [Tenants!Idle EXCEPT !.kind = "message", !.tenant = t, !.session = s,
                               !.workspace = conversations[s].workspace].kind = "message"
      BY DEF Tenants!Idle
    <3> QED  BY <2>3, <2>6, <3>1 DEF Tenants!MessageReads
  <2>7. ASSUME NEW q \in Request, NEW t \in Tenant, NEW i \in 1..Len(runs),
               Tenants!ActionReads(q, t, i)
        PROVE  UNCHANGED <<credential, users, conversations, runs>> /\ Logins(request')
    <3>1. PICK kind \in {"resume", "resolve"} :
            Tenants!Await(q, [Tenants!Idle EXCEPT !.kind = kind, !.tenant = t, !.run = i])
      BY <2>7 DEF Tenants!ActionReads
    <3>2. [Tenants!Idle EXCEPT !.kind = kind, !.tenant = t, !.run = i].tenant \in Tenant
      BY DEF Tenants!Idle
    <3> QED  BY <2>3, <2>7, <3>1, <3>2 DEF Tenants!ActionReads
  <2>8. ASSUME NEW q \in Request, \/ Tenants!LoginInserts(q) \/ Tenants!CreateWorkspace(q)
                                  \/ Tenants!CreateConversation(q) \/ Tenants!ResumeRun(q)
                                  \/ Tenants!ResolveUnknownEffect(q) \/ Tenants!RequestFails(q)
        PROVE  /\ UNCHANGED <<users, runs>> /\ Logins(request')
               /\ credential' = credential \/ credential' \in [Token -> Credential]
               /\ conversations' = conversations
                    \/ conversations' \in [Session -> [tenant : Tenant, workspace : TenantWorkspace] \cup {Null}]
    <3>1. UNCHANGED <<users, runs>> /\ request' = [request EXCEPT ![q] = Tenants!Idle]
      BY <2>8 DEF Tenants!LoginInserts, Tenants!CreateWorkspace, Tenants!CreateConversation,
                  Tenants!ResumeRun, Tenants!ResolveUnknownEffect, Tenants!RequestFails
    <3>2. credential' = credential \/ Tenants!LoginInserts(q)
      BY <2>8 DEF Tenants!CreateWorkspace, Tenants!CreateConversation, Tenants!ResumeRun,
                  Tenants!ResolveUnknownEffect, Tenants!RequestFails
    <3>3. conversations' = conversations \/ Tenants!CreateConversation(q)
      BY <2>8 DEF Tenants!LoginInserts, Tenants!CreateWorkspace, Tenants!ResumeRun,
                  Tenants!ResolveUnknownEffect, Tenants!RequestFails
    <3> QED  BY <1>2, <1>3, <1>4, <1>6, <3>1, <3>2, <3>3
  <2>9. ASSUME NEW q \in Request, Tenants!MessageSubmits(q)
        PROVE  /\ UNCHANGED <<credential, users, conversations>> /\ Logins(request')
               /\ Len(runs') =< MaxRuns
    <3>1. /\ request[q].tenant \in Tenant /\ request[q].session \in Session
          /\ request[q].workspace \in TenantWorkspace
      BY <1>1, <2>9 DEF Tenants!MessageSubmits, Checked, OwnsWorkspace
    <3> QED  BY <1>2, <1>3, <1>5, <2>9, <3>1 DEF Tenants!MessageSubmits
  <2>10. ASSUME NEW t \in Tenant, NEW s \in Session, NEW w \in TenantWorkspace,
                Tenants!SubmitRun(t, s, w)
         PROVE  /\ UNCHANGED <<credential, users, conversations, request>>
                /\ Len(runs') =< MaxRuns
    BY <1>5, <2>10 DEF Tenants!SubmitRun
  <2>11. ASSUME NEW t \in Tenant, NEW i \in 1..Len(runs),
                Tenants!ActionRefused(t, i) \/ Tenants!InterruptRun(t, i)
         PROVE  UNCHANGED <<credential, users, conversations, runs, request>>
    BY <2>11 DEF Tenants!ActionRefused, Tenants!InterruptRun
  <2>12. CASE Tenants!Restart
    <3>1. /\ UNCHANGED <<credential, users, conversations, runs>>
          /\ request' = [q \in Request |-> Tenants!Idle]
      BY <2>12 DEF Tenants!Restart
    <3> QED  BY <1>3, <3>1 DEF Logins
  <2>13. CASE UNCHANGED Tenants!vars
    BY <2>13 DEF Tenants!vars
  <2> QED  BY <2>1, <2>2, <2>4, <2>5, <2>6, <2>7, <2>8, <2>9, <2>10, <2>11, <2>12, <2>13
           DEF Tenants!Next
<1>8. \A q \in Request : request'[q].kind = "login" => request'[q].tenant \in Tenant
  BY <1>1, <1>7 DEF Logins
<1>9. credential' \in [Token -> [tenant : Tenant \cup {Null}, scopes : SUBSET Tenants!Scope,
                                 state : {"unused", "live", "revoked"}]]
  BY <1>1, <1>7 DEF Credential
<1> QED  BY <1>1, <1>7, <1>8, <1>9 DEF TenantsTypes

\* Types of the tenants: a credential, a workspace, a conversation and a run
\* belong to tenants that there are.
THEOREM TenantsTypeCorrect == Tenants!Configured => (Tenants!Spec => []Tenants!TypeOK)
<1> SUFFICES ASSUME Tenants!Configured  PROVE Tenants!Spec => []Tenants!TypeOK
  OBVIOUS
<1>1. Tenants!Init => TenantsIInv /\ TenantsTypes
  <2> SUFFICES ASSUME Tenants!Init  PROVE TenantsTypes
    BY TenantsInit
  <2>1. MaxRuns \in Nat
    BY DEF Tenants!Configured
  <2> QED  BY <2>1, EmptySeq DEF Tenants!Init, Tenants!Unused, Tenants!Idle, TenantsTypes
<1>2. TenantsIInv /\ TenantsTypes /\ [Tenants!Next]_(Tenants!vars) => (TenantsIInv /\ TenantsTypes)'
  BY TenantsNext, TenantsTypesStep
<1>3. TenantsIInv /\ TenantsTypes => Tenants!TypeOK
  BY DEF TenantsIInv, StoreInv, WorkspaceInv, RunInv, TenantsTypes, Tenants!TypeOK
<1> QED  BY <1>1, <1>2, <1>3, PTL DEF Tenants!Spec

-----------------------------------------------------------------------------
(* Types of the timeline *)

TimelineTypes ==
  /\ mode \in {"in process", "worker"} /\ bound \in Bounds
  /\ execution \in 0..bound.attempts /\ Len(pipe) =< MaxPipe

\* What the pipe holds after a write.
LEMMA PipeLength ==
  ASSUME NEW p \in Seq(Message), NEW A, NEW es \in Seq(A)
  PROVE  Len(p) \in Nat /\ Len(es) \in Nat /\ Len(p \o es) = Len(p) + Len(es)
<1>1. p \in Seq(Message \cup A) /\ es \in Seq(Message \cup A)
  BY SeqMonotonic
<1> QED  BY <1>1, ConcatProperties, LenProperties

LEMMA PipeGrows ==
  ASSUME NEW p \in Seq(Message), NEW A, NEW es \in Seq(A), NEW q, NEW n, Len(p) =< n,
         q = p \/ (q = p \o es /\ Len(p) + Len(es) =< n)
  PROVE  Len(q) =< n
<1>1. Len(p \o es) = Len(p) + Len(es)
  BY PipeLength
<1> QED  BY <1>1

LEMMA EmitBounded ==
  ASSUME Timeline!Configured, TimelineIInv, TimelineTypes, NEW A, NEW es \in Seq(A),
         Timeline!Emit(es)
  PROVE  Len(pipe') =< MaxPipe
<1>1. pipe \in Seq(Message) /\ Len(pipe) =< MaxPipe
  BY Zenon DEF TimelineIInv, LogOK, TimelineTypes
<1>2. pipe' = pipe \/ (pipe' = pipe \o es /\ Len(pipe) + Len(es) =< MaxPipe)
  BY Zenon DEF Timeline!Emit
<1> QED  BY <1>1, <1>2, PipeGrows, Zenon

LEMMA OneEvent ==
  ASSUME NEW e
  PROVE  <<e>> \in Seq({e}) /\ Len(<<e>>) = 1
<1>1. <<e>> \in Seq({e})
  BY SeqDef
<1> QED  BY <1>1, LenProperties

LEMMA SessionStepsBounded ==
  ASSUME Timeline!Configured, TimelineIInv, TimelineTypes, Timeline!SessionSteps
  PROVE  UNCHANGED <<mode, bound, execution>> /\ Len(pipe') =< MaxPipe
<1>0. Len(pipe) =< MaxPipe
  BY Zenon DEF TimelineTypes
<1>1. CASE Timeline!AgentEnd
  <2>1. /\ UNCHANGED <<mode, bound, execution>>
        /\ pipe' = pipe \/ \E e : Timeline!Emit(<<e>>)
    BY <1>1, Zenon DEF Timeline!AgentEnd, Timeline!fixed
  <2>2. CASE pipe' = pipe
    BY <1>0, <2>1, <2>2, Zenon
  <2>3. ASSUME NEW e, Timeline!Emit(<<e>>)
        PROVE  Len(pipe') =< MaxPipe
    BY <2>3, OneEvent, EmitBounded, Zenon
  <2> QED  BY <2>1, <2>2, <2>3, Zenon
<1>2. ASSUME NEW c \in TimelineCall, Timeline!MessageStart(c)
      PROVE  UNCHANGED <<mode, bound, execution>> /\ Len(pipe') =< MaxPipe
  <2>1. UNCHANGED <<mode, bound, execution>> /\ \E e : Timeline!Emit(<<e>>)
    BY <1>2, Zenon DEF Timeline!MessageStart, Timeline!fixed
  <2> QED  BY <2>1, OneEvent, EmitBounded
<1>3. ASSUME NEW channel \in Channel, Timeline!MessageUpdate(channel)
      PROVE  UNCHANGED <<mode, bound, execution>> /\ Len(pipe') =< MaxPipe
  <2>1. PICK a, b : a = Timeline!Event("MODEL_FIRST_TOKEN", session.call)
                    /\ b = Timeline!Event("delta", channel)
    OBVIOUS
  <2>2. PICK es : es = (IF session.spoken THEN <<>> ELSE <<a>>) \o <<b>>
    OBVIOUS
  <2>3. UNCHANGED <<mode, bound, execution>> /\ Timeline!Emit(es)
    BY <1>3, <2>1, <2>2, Zenon DEF Timeline!MessageUpdate, Timeline!fixed
  <2>4. es \in Seq({a, b})
    <3>1. <<>> \in Seq({a, b}) /\ <<a>> \in Seq({a, b}) /\ <<b>> \in Seq({a, b})
      BY OneEvent, EmptySeq, SeqMonotonic
    <3>2. (IF session.spoken THEN <<>> ELSE <<a>>) \in Seq({a, b})
      BY <3>1
    <3> QED  BY <2>2, <3>1, <3>2, ConcatProperties
  <2> QED  BY <2>3, <2>4, EmitBounded
<1>4. ASSUME NEW reason \in {"stop", "toolUse", "aborted", "error"}, Timeline!MessageEnd(reason)
      PROVE  UNCHANGED <<mode, bound, execution>> /\ Len(pipe') =< MaxPipe
  <2>1. UNCHANGED <<mode, bound, execution>> /\ \E e : Timeline!Emit(<<e>>)
    BY <1>4, Zenon DEF Timeline!MessageEnd, Timeline!fixed
  <2> QED  BY <2>1, OneEvent, EmitBounded
<1>5. ASSUME NEW t \in TimelineTool,
             Timeline!ToolExecutionStart(t) \/ Timeline!ToolExecutionEnd(t)
      PROVE  UNCHANGED <<mode, bound, execution>> /\ Len(pipe') =< MaxPipe
  <2>1. UNCHANGED <<mode, bound, execution>> /\ \E e : Timeline!Emit(<<e>>)
    BY <1>5, Zenon DEF Timeline!ToolExecutionStart, Timeline!ToolExecutionEnd, Timeline!fixed
  <2> QED  BY <2>1, OneEvent, EmitBounded
<1> QED  BY <1>1, <1>2, <1>3, <1>4, <1>5 DEF Timeline!SessionSteps

LEMMA TimelineTypesStep ==
  ASSUME Timeline!Configured, TimelineIInv, TimelineTypes, [Timeline!Next]_Timeline!vars
  PROVE  TimelineTypes'
<1>0. /\ pipe \in Seq(Message) /\ Len(pipe) \in Nat /\ Len(pipe) =< MaxPipe /\ MaxPipe \in Nat
      /\ bound.attempts \in Nat /\ execution \in 0..bound.attempts /\ Len(<<>>) = 0
  <2>1. /\ pipe \in Seq(Message) /\ Len(pipe) =< MaxPipe
        /\ bound \in Bounds /\ execution \in 0..bound.attempts
    BY Zenon DEF TimelineIInv, LogOK, TimelineTypes
  <2>2. MaxPipe \in Nat /\ bound.attempts \in Nat
    BY <2>1, Zenon DEF Timeline!Configured
  <2>3. Len(pipe) \in Nat /\ Len(<<>>) = 0
    BY <2>1, LenProperties, EmptySeq
  <2> QED  BY <2>1, <2>2, <2>3, Zenon
<1>1. CASE Timeline!Execute
  <2>1. /\ UNCHANGED <<mode, bound>> /\ execution < bound.attempts
        /\ execution' = execution + 1 /\ pipe' = <<>>
    BY <1>1, Zenon DEF Timeline!Execute, Timeline!fixed
  <2>2. execution' \in 0..bound.attempts /\ Len(pipe') =< MaxPipe
    BY <1>0, <2>1
  <2> QED  BY <2>1, <2>2, Zenon DEF TimelineTypes
<1>2. CASE UNCHANGED <<mode, bound, execution>> /\ Len(pipe') =< MaxPipe
  BY <1>2, Zenon DEF TimelineTypes
<1>3. ASSUME UNCHANGED <<mode, bound, execution>>, pipe' = pipe \/ pipe' = <<>>
      PROVE  TimelineTypes'
  <2>1. Len(pipe') =< MaxPipe
    BY <1>0, <1>3
  <2> QED  BY <1>2, <1>3, <2>1
<1>4. ASSUME UNCHANGED <<mode, bound, execution>>, NEW e,
             Len(pipe) < MaxPipe, pipe' = Append(pipe, e)
      PROVE  TimelineTypes'
  <2>1. pipe \in Seq(Message \cup {e}) /\ e \in Message \cup {e}
    BY <1>0, SeqMonotonic
  <2>2. Len(pipe') = Len(pipe) + 1
    BY <1>4, <2>1, AppendProperties
  <2>3. Len(pipe') =< MaxPipe
    BY <1>0, <1>4, <2>2
  <2> QED  BY <1>2, <1>4, <2>3
<1>5. CASE \/ Timeline!PrepareControl \/ Timeline!AcquireSandbox \/ Timeline!InvocationFails
           \/ Timeline!WorkerDies \/ Timeline!ReportCrash \/ Timeline!Interrupt
           \/ Timeline!InterruptReturns \/ Timeline!MasterCrash \/ UNCHANGED Timeline!vars
  <2>1. UNCHANGED <<mode, bound, execution>> /\ (pipe' = pipe \/ pipe' = <<>>)
    BY <1>5, Zenon
       DEF Timeline!PrepareControl, Timeline!AcquireSandbox, Timeline!InvocationFails,
           Timeline!WorkerDies, Timeline!ReportCrash, Timeline!Interrupt,
           Timeline!InterruptReturns, Timeline!MasterCrash, Timeline!Unsubscribe,
           Timeline!fixed, Timeline!vars
  <2> QED  BY <1>3, <2>1
<1>6. CASE Timeline!StartSession \/ Timeline!ResumeSession
  <2>1. UNCHANGED <<mode, bound, execution>> /\ \E e : Timeline!Emit(<<e>>)
    BY <1>6, Zenon DEF Timeline!StartSession, Timeline!ResumeSession, Timeline!OpenSession,
                       Timeline!fixed
  <2>2. Len(pipe') =< MaxPipe
    BY <2>1, OneEvent, EmitBounded
  <2> QED  BY <1>2, <2>1, <2>2
<1>7. CASE Timeline!PromptReturns
  <2>1. /\ UNCHANGED <<mode, bound, execution>>
        /\ pipe' = <<>> \/ \E e : Len(pipe) < MaxPipe /\ pipe' = Append(pipe, e)
    BY <1>7, Zenon DEF Timeline!PromptReturns, Timeline!Unsubscribe, Timeline!fixed
  <2> QED  BY <1>3, <1>4, <2>1
<1>8. CASE Timeline!PromptThrows
  <2>1. PICK a, b : a = Timeline!Event("agent_failed", Null) /\ b = Timeline!Event("RUN_FAILED", Null)
    OBVIOUS
  <2>2. /\ UNCHANGED <<mode, bound, execution>>
        /\ pipe' = <<>> \/ (Len(pipe) + 2 =< MaxPipe /\ pipe' = pipe \o <<a, b>>)
    BY <1>8, <2>1, Zenon DEF Timeline!PromptThrows, Timeline!Unsubscribe, Timeline!fixed
  <2>3. <<a, b>> \in Seq({a, b}) /\ Len(<<a, b>>) = 2
    BY SeqDef
  <2>4. Len(pipe') =< MaxPipe
    BY <1>0, <2>2, <2>3, PipeLength
  <2> QED  BY <1>2, <2>2, <2>4
<1>9. CASE Timeline!SessionSteps
  BY <1>2, <1>9, SessionStepsBounded
<1>10. ASSUME NEW t \in TimelineTool, Timeline!PrepareTool(t) \/ Timeline!CompleteTool(t)
       PROVE  TimelineTypes'
  <2>1. /\ UNCHANGED <<mode, bound, execution>>
        /\ pipe' = pipe \/ \E e : Len(pipe) < MaxPipe /\ pipe' = Append(pipe, e)
    BY <1>10, Zenon DEF Timeline!PrepareTool, Timeline!CompleteTool, Timeline!fixed
  <2> QED  BY <1>3, <1>4, <2>1
<1>11. CASE Timeline!ReadMessage
  <2>1. UNCHANGED <<mode, bound, execution>> /\ pipe # <<>>
    BY <1>11, Zenon DEF Timeline!ReadMessage, Timeline!fixed
  <2>2. pipe' = Tail(pipe) \/ pipe' = <<>>
    BY <1>11 DEF Timeline!ReadMessage, Timeline!Unsubscribe
  <2>3. CASE pipe' = Tail(pipe)
    <3>1. Len(pipe') = Len(pipe) - 1
      BY <1>0, <2>1, <2>3, HeadTailProperties
    <3>2. Len(pipe') =< MaxPipe
      BY <1>0, <3>1
    <3> QED  BY <1>2, <2>1, <3>2
  <2> QED  BY <1>3, <2>1, <2>2, <2>3
<1> QED  BY <1>1, <1>5, <1>6, <1>7, <1>8, <1>9, <1>10, <1>11
         DEF Timeline!Next, Timeline!ResumedSessionSteps

\* Types of the timeline: an execution is one of those that the bounds allow,
\* and the worker never has more unread than the pipe takes.
THEOREM TimelineTypeCorrect == Timeline!Configured => (Timeline!Spec => []Timeline!TypeOK)
<1> SUFFICES ASSUME Timeline!Configured  PROVE Timeline!Spec => []Timeline!TypeOK
  OBVIOUS
<1>1. Timeline!Init => TimelineIInv /\ TimelineTypes
  <2> SUFFICES ASSUME Timeline!Init  PROVE TimelineTypes
    BY TimelineInit
  <2>1. /\ mode \in {"in process", "worker"} /\ bound \in Bounds
        /\ execution = 0 /\ pipe = <<>>
    BY Zenon DEF Timeline!Init
  <2>2. bound.attempts \in Nat /\ MaxPipe \in Nat
    BY <2>1, Zenon DEF Timeline!Configured
  <2>3. 0 \in 0..bound.attempts /\ Len(<<>>) =< MaxPipe
    <3>1. Len(<<>>) = 0
      BY EmptySeq
    <3> QED  BY <2>2, <3>1
  <2>4. execution \in 0..bound.attempts /\ Len(pipe) =< MaxPipe
    BY <2>1, <2>3, Zenon
  <2> QED  BY <2>1, <2>4, Zenon DEF TimelineTypes
<1>2. TimelineIInv /\ TimelineTypes /\ [Timeline!Next]_Timeline!vars
        => (TimelineIInv /\ TimelineTypes)'
  BY TimelineStep, TimelineTypesStep
<1>3. ASSUME TimelineIInv, TimelineTypes  PROVE Timeline!TypeOK
  <2>1. session.call \in TimelineCall \cup {Null}
    BY <1>3 DEF TimelineIInv, CallInv
  <2>2. told.status \in {"QUEUED", "RUNNING", "WAITING_TOOL", "INTERRUPTED", "COMPLETED", "FAILED"}
    BY <1>3 DEF TimelineIInv, LogOK, Told, Status
  <2> QED  BY <1>3, <2>1, <2>2, Zenon
           DEF TimelineIInv, CallInv, ToolInv, StageInv, TimelineTypes, Timeline!TypeOK
<1> QED  BY <1>1, <1>2, <1>3, PTL DEF Timeline!Spec

-----------------------------------------------------------------------------
(* Types of the results *)

\* Types of the results: what is scanned and copied are files of the workspace.
THEOREM ResultsTypeCorrect == Results!Spec => []Results!TypeOK
<1>1. Results!Init => ResultsIInv
  BY ResultsInit
<1>2. ResultsIInv /\ [Results!Next]_(Results!vars) => ResultsIInv'
  BY ResultsNext
<1>3. ASSUME ResultsIInv  PROVE Results!TypeOK
  <2>1. /\ stored.before \in Manifest \cup {Null} /\ stored.after \in Manifest \cup {Null}
        /\ scan.left \subseteq File /\ copy.left \subseteq File
    BY <1>3 DEF ResultsIInv, ResultsTypeInv
  <2> QED  BY <1>3, <2>1, Zenon DEF ResultsIInv, ResultsTypeInv, Manifest, Results!TypeOK
<1> QED  BY <1>1, <1>2, <1>3, PTL DEF Results!Spec

-----------------------------------------------------------------------------
(* ServiceShutdown *)

ShutdownTypeInv ==
  /\ starts \in Nat \ {0}
  /\ phase \in {"starting", "started", "draining", "closing pool", "removing", "closed"}
  /\ run \in [PoolRun -> [at : {"none", "queued", "taking", "claimed", "cold", "executing", "done"},
                      box : Container \cup {Null}]]
  /\ entries \in [Key -> Container \cup {Null}]
  /\ pending \in [Key -> Container \cup {"none", "asked"}]
  /\ pool \in [initialized : {"no", "ok", "failed"}, closed : BOOLEAN,
               leaving : SUBSET Container]
  /\ docker \in [Container -> {"none", "creating", "warm", "renaming", "leased", "gone"}]
  /\ removing \subseteq Container /\ unremoved \subseteq Container /\ late \subseteq Container

\* A container passes from its creation to the pool, and from there to a run
\* or to its removal, and is never in two of these places, because a name is
\* used once: one that docker does not know yet is nowhere.
HolderInv ==
  /\ \A r \in PoolRun :
       /\ run[r].box # Null => run[r].at \in {"claimed", "executing"}
       /\ run[r].at = "claimed" => run[r].box # Null
  /\ \A r, q \in PoolRun : r # q /\ run[r].box # Null => run[r].box # run[q].box
  /\ \A k, l \in Key : k # l /\ entries[k] # Null => entries[k] # entries[l]
  /\ \A k, l \in Key : k # l /\ pending[k] \in Container => pending[k] # pending[l]
  /\ \A k \in Key : entries[k] # Null =>
       /\ \A r \in PoolRun : run[r].box # entries[k]
       /\ \A l \in Key : pending[l] # entries[k]
       /\ entries[k] \notin removing
  /\ \A k \in Key : pending[k] \in Container =>
       /\ \A r \in PoolRun : run[r].box # pending[k]
       /\ pending[k] \notin removing
  /\ \A c \in Container : docker[c] = "none" =>
       /\ \A r \in PoolRun : run[r].box # c
       /\ \A k \in Key : entries[k] # c /\ pending[k] # c
       /\ c \notin removing

\* Whoever answers for c.
Remembered(c) ==
  \/ \E r \in PoolRun : run[r].at = "claimed" /\ run[r].box = c
  \/ \E k \in Key : entries[k] = c \/ pending[k] = c
  \/ c \in pool.leaving \cup removing \cup unremoved \cup late

WarmInv ==
  \A c \in Container : docker[c] \in {"warm", "renaming"} =>
    Remembered(c) \/ (starts > 1 /\ pool.initialized = "no")

\* A docker run under way is the pool's, or an earlier process's.
CreatingInv ==
  \A c \in Container : docker[c] = "creating" => starts > 1 \/ \E k \in Key : pending[k] = c

\* While a container is being created its key keeps the place in the pool.
CapacityInv ==
  /\ \A k \in Key : pending[k] = "none" \/ entries[k] = Null
  /\ Cardinality(Shutdown!Held) + Cardinality(Shutdown!Creating) =< Capacity

\* A drain in flight is why an invocation can go on, and it keeps the process
\* from closing the pool.
CloseInv ==
  /\ Shutdown!InProgress # {} => inFlight
  /\ inFlight => phase \in {"started", "draining"}
  /\ phase \in {"removing", "closed"} => Shutdown!Held = {} /\ Shutdown!Creating = {}
  /\ phase # "removing" => pool.leaving = {}

PoolInv == ShutdownTypeInv /\ HolderInv /\ WarmInv /\ CapacityInv /\ CloseInv

ShutdownIInv == PoolInv /\ CreatingInv

\* The operators of FiniteSets are the same ones in ServiceShutdown.
LEMMA SameCardinality ==
  ASSUME NEW X
  PROVE  /\ Shutdown!Cardinality(X) = Cardinality(X)
         /\ Shutdown!IsFiniteSet(X) <=> IsFiniteSet(X)
BY DEF Shutdown!Cardinality, Cardinality, Shutdown!IsFiniteSet, IsFiniteSet

\* Places taken in the pool are kept by losing some, and by moving one from a
\* creation to an entry; another creation takes one more.
LEMMA Places ==
  ASSUME Shutdown!Configured
  PROVE  /\ \A H, C \in SUBSET Key : Cardinality(H) \in Nat /\ Cardinality(C) \in Nat
         /\ \A H, C \in SUBSET Key : \A H1 \in SUBSET H, C1 \in SUBSET C :
              Cardinality(H1) + Cardinality(C1) =< Cardinality(H) + Cardinality(C)
         /\ \A H, C \in SUBSET Key : \A k \in C :
              Cardinality(H \cup {k}) + Cardinality(C \ {k})
                =< Cardinality(H) + Cardinality(C)
         /\ \A C \in SUBSET Key : \A k \in Key :
              Cardinality(C \cup {k}) =< Cardinality(C) + 1
<1>1. IsFiniteSet(Key)
  BY SameCardinality DEF Shutdown!Configured
<1>2. \A X \in SUBSET Key : IsFiniteSet(X) /\ Cardinality(X) \in Nat
  BY <1>1, FS_Subset, FS_CardinalityType
<1>3. \A X \in SUBSET Key : \A Y \in SUBSET X : Cardinality(Y) =< Cardinality(X)
  BY <1>2, FS_Subset
<1>4. ASSUME NEW X \in SUBSET Key, NEW k \in Key
      PROVE  Cardinality(X \cup {k}) =< Cardinality(X) + 1
  BY <1>2, FS_AddElement
<1>5. ASSUME NEW X \in SUBSET Key, NEW k \in X
      PROVE  Cardinality(X \ {k}) = Cardinality(X) - 1
  BY <1>2, FS_RemoveElement
<1>6. ASSUME NEW H \in SUBSET Key, NEW C \in SUBSET Key, NEW H1 \in SUBSET H, NEW C1 \in SUBSET C
      PROVE  Cardinality(H1) + Cardinality(C1) =< Cardinality(H) + Cardinality(C)
  <2>1. H1 \in SUBSET Key /\ C1 \in SUBSET Key
    OBVIOUS
  <2>2. Cardinality(H1) =< Cardinality(H) /\ Cardinality(C1) =< Cardinality(C)
    BY <1>3
  <2>3. /\ Cardinality(H1) \in Nat /\ Cardinality(C1) \in Nat
        /\ Cardinality(H) \in Nat /\ Cardinality(C) \in Nat
    BY <1>2, <2>1
  <2> QED  BY <2>2, <2>3
<1>7. ASSUME NEW H \in SUBSET Key, NEW C \in SUBSET Key, NEW k \in C
      PROVE  Cardinality(H \cup {k}) + Cardinality(C \ {k})
               =< Cardinality(H) + Cardinality(C)
  <2>1. H \cup {k} \in SUBSET Key /\ C \ {k} \in SUBSET Key
    OBVIOUS
  <2>2. /\ Cardinality(H \cup {k}) =< Cardinality(H) + 1
        /\ Cardinality(C \ {k}) = Cardinality(C) - 1
    BY <1>4, <1>5
  <2>3. /\ Cardinality(H \cup {k}) \in Nat /\ Cardinality(C \ {k}) \in Nat
        /\ Cardinality(H) \in Nat /\ Cardinality(C) \in Nat
    BY <1>2, <2>1
  <2> QED  BY <2>2, <2>3
<1>8. \A C \in SUBSET Key : \A k \in Key : Cardinality(C \cup {k}) =< Cardinality(C) + 1
  BY <1>4
<1>9. \A H, C \in SUBSET Key : \A H1 \in SUBSET H, C1 \in SUBSET C :
        Cardinality(H1) + Cardinality(C1) =< Cardinality(H) + Cardinality(C)
  BY <1>6
<1>10. \A H, C \in SUBSET Key : \A k \in C :
         Cardinality(H \cup {k}) + Cardinality(C \ {k}) =< Cardinality(H) + Cardinality(C)
  BY <1>7
<1>11. \A H, C \in SUBSET Key : Cardinality(H) \in Nat /\ Cardinality(C) \in Nat
  BY <1>2
<1> QED  BY <1>8, <1>9, <1>10, <1>11

LEMMA ShutdownInit == Shutdown!Configured /\ Shutdown!Init => ShutdownIInv
<1> SUFFICES ASSUME Shutdown!Configured, Shutdown!Init  PROVE ShutdownIInv
  OBVIOUS
<1> USE DEF Shutdown!Init
<1>1. ShutdownTypeInv
  <2>1. run \in [PoolRun -> [at : {"none", "queued", "taking", "claimed", "cold", "executing", "done"},
                         box : Container \cup {Null}]]
    BY DEF Shutdown!Idle
  <2>2. pool \in [initialized : {"no", "ok", "failed"}, closed : BOOLEAN,
                  leaving : SUBSET Container]
    BY DEF Shutdown!NewPool
  <2>3. starts \in Nat \ {0}
    OBVIOUS
  <2>5. phase = "starting"
    OBVIOUS
  <2>4. /\ entries \in [Key -> Container \cup {Null}]
        /\ pending \in [Key -> Container \cup {"none", "asked"}]
        /\ docker \in [Container -> {"none", "creating", "warm", "renaming", "leased", "gone"}]
        /\ removing \subseteq Container /\ unremoved \subseteq Container /\ late \subseteq Container
    OBVIOUS
  <2> HIDE DEF Shutdown!Init
  <2> QED  BY <2>1, <2>2, <2>3, <2>4, <2>5 DEF ShutdownTypeInv
<1>2. HolderInv
  BY DEF HolderInv, Shutdown!Idle, Shutdown!Configured
<1>3. WarmInv
  BY DEF WarmInv
<1>4. Shutdown!Held = {} /\ Shutdown!Creating = {} /\ Shutdown!InProgress = {}
  BY DEF Shutdown!Held, Shutdown!Creating, Shutdown!InProgress, Shutdown!Idle
<1>5. CapacityInv
  BY <1>4, FS_EmptySet DEF CapacityInv, Shutdown!Configured
<1>6. CloseInv
  BY <1>4 DEF CloseInv, Shutdown!NewPool
<1>7. CreatingInv
  BY DEF CreatingInv
<1> QED  BY <1>1, <1>2, <1>3, <1>5, <1>6, <1>7 DEF ShutdownIInv, PoolInv

\* The places are kept by a step after which the pool holds and creates for no
\* more keys.
LEMMA NoMorePlaces ==
  ASSUME Shutdown!Configured, CapacityInv,
         Shutdown!Held' \subseteq Shutdown!Held,
         Shutdown!Creating' \subseteq Shutdown!Creating
  PROVE  Cardinality(Shutdown!Held)' + Cardinality(Shutdown!Creating)' =< Capacity
<1>1. Shutdown!Held \subseteq Key /\ Shutdown!Creating \subseteq Key
  BY DEF Shutdown!Held, Shutdown!Creating
<1>2. Shutdown!Held' \subseteq Key /\ Shutdown!Creating' \subseteq Key
  BY <1>1
<1>3. /\ Cardinality(Shutdown!Held)' \in Nat /\ Cardinality(Shutdown!Creating)' \in Nat
      /\ Cardinality(Shutdown!Held) \in Nat /\ Cardinality(Shutdown!Creating) \in Nat
  BY <1>1, <1>2, Places
<1>4. Cardinality(Shutdown!Held)' + Cardinality(Shutdown!Creating)'
        =< Cardinality(Shutdown!Held) + Cardinality(Shutdown!Creating)
  BY <1>1, Places
<1> QED  BY <1>3, <1>4 DEF CapacityInv, Shutdown!Configured

\* rm leaves c gone or among the unremoved, and everything else as it was.
LEMMA RemovalEffect ==
  ASSUME ShutdownTypeInv, NEW c \in Container, NEW succeeds \in BOOLEAN,
         Shutdown!Removed(c, succeeds)
  PROVE  /\ docker' \in [Container -> {"none", "creating", "warm", "renaming", "leased", "gone"}]
         /\ unremoved' \subseteq Container /\ unremoved \subseteq unremoved'
         /\ \A d \in Container : docker'[d] = "none" => docker[d] = "none"
         /\ \A d \in Container : docker'[d] \in {"warm", "renaming"} =>
              docker[d] \in {"warm", "renaming"} /\ (d # c \/ d \in unremoved')
<1>1. CASE succeeds
  BY <1>1 DEF ShutdownTypeInv, Shutdown!Removed
<1>2. CASE ~succeeds
  BY <1>2 DEF ShutdownTypeInv, Shutdown!Removed
<1> QED  BY <1>1, <1>2

LEMMA PoolKept ==
  ASSUME Shutdown!Configured, PoolInv, CreatingInv, [Shutdown!Next]_(Shutdown!vars)
  PROVE  PoolInv'
<1>1. ShutdownTypeInv /\ HolderInv /\ WarmInv /\ CapacityInv /\ CloseInv
  BY DEF PoolInv
<1>2. Null \notin Container /\ "none" \notin Container /\ "asked" \notin Container
  BY DEF Shutdown!Configured
<1>3. CASE Shutdown!Start
  <2> USE <1>3 DEF Shutdown!Start
  <2>1. PICK left \in SUBSET {c \in Container : docker[c] = "leased"} :
          /\ docker' = [c \in Container |->
               IF docker[c] = "leased" /\ c \notin left THEN "gone" ELSE docker[c]]
          /\ unremoved' = unremoved \cup left
    OBVIOUS
  <2>2. ShutdownTypeInv'
    BY <1>1, <2>1 DEF ShutdownTypeInv
  <2>3. HolderInv'
    BY <1>1, <2>1 DEF HolderInv
  <2>4. WarmInv'
    BY <1>1, <2>1 DEF ShutdownTypeInv, WarmInv, Remembered
  <2>5. UNCHANGED <<Shutdown!Held, Shutdown!Creating, Shutdown!InProgress>>
    BY DEF Shutdown!Held, Shutdown!Creating, Shutdown!InProgress
  <2>6. CapacityInv'
    BY <1>1, <2>5, NoMorePlaces DEF CapacityInv
  <2>7. CloseInv'
    BY <1>1, <2>5 DEF CloseInv
  <2> QED  BY <2>2, <2>3, <2>4, <2>6, <2>7 DEF PoolInv
<1>4. ASSUME NEW r \in PoolRun, Shutdown!Submit(r)  PROVE PoolInv'
  <2> USE <1>4 DEF Shutdown!Submit
  <2>1. /\ run' = [run EXCEPT ![r].at = "queued"] /\ run[r].at = "none"
        /\ run'[r].at = "queued" /\ run'[r].box = run[r].box
        /\ \A q \in PoolRun \ {r} : run'[q] = run[q]
    BY <1>1 DEF ShutdownTypeInv
  <2>2. ShutdownTypeInv'
    BY <1>1 DEF ShutdownTypeInv
  <2>3. HolderInv'
    BY <1>1, <2>1 DEF HolderInv
  <2>4. WarmInv'
    BY <1>1, <2>1 DEF ShutdownTypeInv, WarmInv, Remembered
  <2>5. UNCHANGED <<Shutdown!Held, Shutdown!Creating>>
    BY DEF Shutdown!Held, Shutdown!Creating
  <2>6. CapacityInv'
    BY <1>1, <2>5, NoMorePlaces DEF CapacityInv
  <2>7. CloseInv'
    BY <1>1, <2>1, <2>5 DEF CloseInv
  <2> QED  BY <2>2, <2>3, <2>4, <2>6, <2>7 DEF PoolInv
<1>5. CASE Shutdown!Tick
  <2> USE <1>5 DEF Shutdown!Tick
  <2>1. UNCHANGED <<Shutdown!Held, Shutdown!Creating, Shutdown!InProgress>>
    BY DEF Shutdown!Held, Shutdown!Creating, Shutdown!InProgress
  <2>2. ShutdownTypeInv'
    BY <1>1 DEF ShutdownTypeInv
  <2>3. HolderInv'
    BY <1>1 DEF HolderInv
  <2>4. WarmInv'
    BY <1>1 DEF WarmInv, Remembered
  <2>5. CapacityInv'
    BY <1>1, <2>1, NoMorePlaces DEF CapacityInv
  <2>6. CloseInv'
    BY <1>1, <2>1 DEF CloseInv
  <2> QED  BY <2>2, <2>3, <2>4, <2>5, <2>6 DEF PoolInv
<1>6. ASSUME NEW r \in PoolRun, Shutdown!Claim(r)  PROVE PoolInv'
  <2> USE <1>6 DEF Shutdown!Claim
  <2>1. /\ run[r].at = "queued" /\ run'[r].at = "taking" /\ run'[r].box = run[r].box
        /\ \A q \in PoolRun \ {r} : run'[q] = run[q]
    BY <1>1 DEF ShutdownTypeInv
  <2>2. ShutdownTypeInv'
    BY <1>1 DEF ShutdownTypeInv
  <2>3. HolderInv'
    BY <1>1, <2>1 DEF HolderInv
  <2>4. WarmInv'
    <3>1. ASSUME NEW c \in Container, Remembered(c)  PROVE Remembered(c)'
      <4>1. CASE \E q \in PoolRun : run[q].at = "claimed" /\ run[q].box = c
        BY <2>1, <4>1 DEF Remembered
      <4>2. CASE ~\E q \in PoolRun : run[q].at = "claimed" /\ run[q].box = c
        BY <3>1, <4>2 DEF Remembered
      <4> QED  BY <4>1, <4>2
    <3> QED  BY <1>1, <3>1 DEF WarmInv
  <2>5. UNCHANGED <<Shutdown!Held, Shutdown!Creating>>
    BY DEF Shutdown!Held, Shutdown!Creating
  <2>6. CapacityInv'
    BY <1>1, <2>5, NoMorePlaces DEF CapacityInv
  <2>7. CloseInv'
    BY <1>1, <2>1, <2>5 DEF CloseInv
  <2> QED  BY <2>2, <2>3, <2>4, <2>6, <2>7 DEF PoolInv
<1>7. CASE Shutdown!DrainEnds
  <2> USE <1>7 DEF Shutdown!DrainEnds
  <2>1. UNCHANGED <<Shutdown!Held, Shutdown!Creating, Shutdown!InProgress>>
    BY DEF Shutdown!Held, Shutdown!Creating, Shutdown!InProgress
  <2>2. ShutdownTypeInv'
    BY <1>1 DEF ShutdownTypeInv
  <2>3. HolderInv'
    BY <1>1 DEF HolderInv
  <2>4. WarmInv'
    BY <1>1 DEF WarmInv, Remembered
  <2>5. CapacityInv'
    BY <1>1, <2>1, NoMorePlaces DEF CapacityInv
  <2>6. CloseInv'
    BY <1>1, <2>1 DEF CloseInv
  <2> QED  BY <2>2, <2>3, <2>4, <2>5, <2>6 DEF PoolInv
<1>8. CASE Shutdown!Initialize
  <2>1. /\ pool.initialized = "no"
        /\ UNCHANGED <<starts, phase, inFlight, run, entries, pending, removing, late>>
        /\ \E i \in {"ok", "failed"} : pool' = [pool EXCEPT !.initialized = i]
    BY <1>8 DEF Shutdown!Initialize
  <2>2. /\ docker' \in [Container -> {"none", "creating", "warm", "renaming", "leased", "gone"}]
        /\ unremoved' \subseteq Container /\ unremoved \subseteq unremoved'
        /\ \A d \in Container : docker'[d] = "none" => docker[d] = "none"
        /\ \A d \in Container : docker'[d] \in {"warm", "renaming"} => d \in unremoved'
    <3>1. CASE /\ \E renamed \in SUBSET {c \in Container : docker[c] = "renaming"} :
                    docker' = [c \in Container |->
                      IF c \in renamed THEN "leased" ELSE IF c \in Shutdown!Warm THEN "gone" ELSE docker[c]]
               /\ unremoved' = unremoved
      BY <1>1, <3>1 DEF ShutdownTypeInv, Shutdown!Warm
    <3>2. CASE \E left \in SUBSET Shutdown!Warm :
                 /\ docker' = [c \in Container |-> IF c \in Shutdown!Warm \ left THEN "gone" ELSE docker[c]]
                 /\ unremoved' = unremoved \cup left
      BY <1>1, <3>2 DEF ShutdownTypeInv, Shutdown!Warm
    <3> QED  BY <1>8, <3>1, <3>2 DEF Shutdown!Initialize
  <2>3. /\ pool'.leaving = pool.leaving
        /\ pool' \in [initialized : {"no", "ok", "failed"}, closed : BOOLEAN,
                      leaving : SUBSET Container]
    BY <1>1, <2>1 DEF ShutdownTypeInv
  <2>4. ShutdownTypeInv'
    BY <1>1, <2>1, <2>2, <2>3 DEF ShutdownTypeInv
  <2>5. HolderInv'
    BY <1>1, <2>1, <2>2 DEF HolderInv
  <2>6. WarmInv'
    BY <2>2 DEF WarmInv, Remembered
  <2>7. UNCHANGED <<Shutdown!Held, Shutdown!Creating, Shutdown!InProgress>>
    BY <2>1 DEF Shutdown!Held, Shutdown!Creating, Shutdown!InProgress
  <2>8. CapacityInv'
    BY <1>1, <2>1, <2>7, NoMorePlaces DEF CapacityInv
  <2>9. CloseInv'
    BY <1>1, <2>1, <2>3, <2>7 DEF CloseInv
  <2> QED  BY <2>4, <2>5, <2>6, <2>8, <2>9 DEF PoolInv
<1>9. ASSUME NEW r \in PoolRun, Shutdown!Take(r)  PROVE PoolInv'
  <2> DEFINE RunState == [at : {"none", "queued", "taking", "claimed", "cold", "executing", "done"},
                          box : Container \cup {Null}]
  <2>0. PICK k \in Key : k = KeyOf[r]
    BY DEF Shutdown!Configured
  <2>1. /\ run[r].at = "taking" /\ run[r].box = Null
        /\ pool.initialized # "no"
        /\ UNCHANGED <<starts, phase, inFlight, pending, pool, docker, removing, unremoved, late>>
    BY <1>1, <1>9 DEF Shutdown!Take, HolderInv
  <2>2. PICK x : /\ run' = [run EXCEPT ![r] = x]
                 /\ \/ x \in {[at |-> "done", box |-> Null], [at |-> "cold", box |-> Null]}
                       /\ entries' \in {entries, [entries EXCEPT ![k] = Null]}
                       /\ (entries' = entries \/ entries[k] = Null)
                    \/ x = [at |-> "claimed", box |-> entries[k]] /\ entries[k] # Null
                       /\ entries' = [entries EXCEPT ![k] = Null]
    BY <1>9, <2>0 DEF Shutdown!Take
  <2>3. run \in [PoolRun -> RunState] /\ entries \in [Key -> Container \cup {Null}]
    BY <1>1 DEF ShutdownTypeInv
  <2>4. \/ x \in RunState /\ x.at \in {"done", "cold"} /\ x.box = Null
           /\ entries' \in {entries, [entries EXCEPT ![k] = Null]}
           /\ (entries' = entries \/ entries[k] = Null)
        \/ x \in RunState /\ x.at = "claimed" /\ x.box = entries[k] /\ entries[k] # Null
           /\ entries' = [entries EXCEPT ![k] = Null]
    BY <2>2, <2>3
  <2>5. /\ run'[r] = x /\ run' \in [PoolRun -> RunState]
        /\ \A q \in PoolRun \ {r} : run'[q] = run[q]
        /\ entries' \in [Key -> Container \cup {Null}]
        /\ \A l \in Key \ {k} : entries'[l] = entries[l]
        /\ \/ x.at \in {"done", "cold"} /\ x.box = Null /\ entries'[k] = entries[k]
           \/ x.at = "claimed" /\ x.box = entries[k] /\ entries[k] # Null /\ entries'[k] = Null
    <3> HIDE DEF RunState
    <3>1. x \in RunState
      BY <2>4
    <3>2. /\ run'[r] = x /\ run' \in [PoolRun -> RunState]
          /\ \A q \in PoolRun \ {r} : run'[q] = run[q]
      BY <2>2, <2>3, <3>1
    <3>3. /\ entries' \in [Key -> Container \cup {Null}]
          /\ \A l \in Key \ {k} : entries'[l] = entries[l]
      BY <2>3, <2>4
    <3>4. \/ x.at \in {"done", "cold"} /\ x.box = Null /\ entries'[k] = entries[k]
          \/ x.at = "claimed" /\ x.box = entries[k] /\ entries[k] # Null /\ entries'[k] = Null
      <4>1. entries' = entries \/ entries' = [entries EXCEPT ![k] = Null]
        BY <2>4
      <4>2. entries' = [entries EXCEPT ![k] = Null] => entries'[k] = Null
        BY <2>3
      <4>3. CASE x.at \in {"done", "cold"}
        BY <2>4, <4>1, <4>2, <4>3
      <4>4. CASE x.at = "claimed"
        BY <2>4, <4>2, <4>4
      <4> QED  BY <2>4, <4>3, <4>4
    <3> QED  BY <3>2, <3>3, <3>4
  <2>6. ShutdownTypeInv'
    BY <1>1, <2>1, <2>5 DEF ShutdownTypeInv
  <2> HIDE DEF RunState
  <2>7. HolderInv'
    <3>1. CASE x.at \in {"done", "cold"} /\ x.box = Null /\ entries'[k] = entries[k]
      <4>1. \A l \in Key : entries'[l] = entries[l]
        BY <2>5, <3>1
      <4> QED  BY <1>1, <2>1, <2>5, <3>1, <4>1 DEF HolderInv
    <3>2. CASE x.at = "claimed" /\ x.box = entries[k] /\ entries[k] # Null /\ entries'[k] = Null
      <4>1. \A l \in Key : entries'[l] # Null => l # k /\ entries'[l] = entries[l]
        BY <2>5, <3>2
      <4>2. \A c \in Container : docker[c] = "none" => \A l \in Key : entries'[l] # c
        BY <1>1, <1>2, <4>1 DEF HolderInv
      <4> QED  BY <1>1, <1>2, <2>1, <2>3, <2>5, <3>2, <4>1, <4>2 DEF HolderInv
    <3> QED  BY <2>5, <3>1, <3>2
  <2>8. WarmInv'
    <3>1. ASSUME NEW c \in Container, Remembered(c)  PROVE Remembered(c)'
      <4>1. CASE \E q \in PoolRun : run[q].at = "claimed" /\ run[q].box = c
        <5>1. PICK q \in PoolRun : run[q].at = "claimed" /\ run[q].box = c
          BY <4>1
        <5>2. q # r
          BY <2>1, <5>1
        <5> QED  BY <2>5, <5>1, <5>2 DEF Remembered
      <4>2. CASE entries[k] = c
        <5>1. CASE x.at = "claimed" /\ x.box = entries[k]
          <6>1. run'[r].at = "claimed" /\ run'[r].box = c
            BY <2>5, <4>2, <5>1
          <6> QED  BY <6>1 DEF Remembered
        <5>2. CASE entries'[k] = entries[k]
          BY <4>2, <5>2 DEF Remembered
        <5> QED  BY <2>5, <5>1, <5>2
      <4>3. CASE \E l \in Key \ {k} : entries[l] = c
        BY <2>5, <4>3 DEF Remembered
      <4>4. CASE (\E l \in Key : pending[l] = c) \/ c \in pool.leaving \cup removing \cup unremoved \cup late
        BY <2>1, <4>4 DEF Remembered
      <4> QED  BY <3>1, <4>1, <4>2, <4>3, <4>4 DEF Remembered
    <3> QED  BY <1>1, <2>1, <3>1 DEF WarmInv
  <2>9. Shutdown!Held' \subseteq Shutdown!Held /\ Shutdown!Creating' = Shutdown!Creating
    BY <2>1, <2>5 DEF Shutdown!Held, Shutdown!Creating
  <2>10. CapacityInv'
    <3>1. \A l \in Key : pending'[l] = "none" \/ entries'[l] = Null
      BY <1>1, <2>1, <2>5 DEF CapacityInv
    <3> QED  BY <1>1, <2>9, <3>1, NoMorePlaces DEF CapacityInv
  <2>11. CloseInv'
    <3>1. r \in Shutdown!InProgress
      BY <2>1 DEF Shutdown!InProgress
    <3> QED  BY <1>1, <2>1, <2>9, <3>1 DEF CloseInv
  <2> QED  BY <2>6, <2>7, <2>8, <2>10, <2>11 DEF PoolInv
<1>10. ASSUME NEW r \in PoolRun, Shutdown!Lease(r)  PROVE PoolInv'
  <2> DEFINE RunState == [at : {"none", "queued", "taking", "claimed", "cold", "executing", "done"},
                          box : Container \cup {Null}]
  <2>0. run \in [PoolRun -> RunState]
    BY <1>1 DEF ShutdownTypeInv
  <2>1. /\ run[r].at = "claimed" /\ run[r].box \in Container
        /\ UNCHANGED <<starts, phase, inFlight, entries, pending, pool, removing, late>>
    BY <1>1, <1>10 DEF Shutdown!Lease, HolderInv, ShutdownTypeInv
  <2>2. PICK c \in Container : c = run[r].box
    BY <2>1
  <2>3. PICK x \in RunState :
          /\ run' = [run EXCEPT ![r] = x]
          /\ x.at # "claimed" /\ x.box \in {Null, c}
          /\ x.box # Null => x.at = "executing"
    <3>1. CASE run' = [run EXCEPT ![r].at = "executing"]
      <4>1. [at |-> "executing", box |-> c] \in RunState
        OBVIOUS
      <4>2. run[r] \in RunState
        BY <2>0
      <4>3. [run[r] EXCEPT !.at = "executing"] = [at |-> "executing", box |-> c]
        BY <2>2, <4>2
      <4>4. run' = [run EXCEPT ![r] = [at |-> "executing", box |-> c]]
        BY <3>1, <4>3
      <4> QED  BY <4>1, <4>4
    <3>2. CASE \E next \in {"cold", "done"} : run' = [run EXCEPT ![r] = [at |-> next, box |-> Null]]
      <4>1. PICK next \in {"cold", "done"} : run' = [run EXCEPT ![r] = [at |-> next, box |-> Null]]
        BY <3>2
      <4>2. [at |-> next, box |-> Null] \in RunState
        OBVIOUS
      <4> QED  BY <4>1, <4>2
    <3> QED  BY <1>10, <3>1, <3>2 DEF Shutdown!Lease
  <2>4. /\ docker' \in [Container -> {"none", "creating", "warm", "renaming", "leased", "gone"}]
        /\ unremoved' \subseteq Container /\ unremoved \subseteq unremoved'
        /\ \A d \in Container : docker'[d] = "none" => docker[d] = "none"
        /\ \A d \in Container : docker'[d] \in {"warm", "renaming"} =>
             docker[d] \in {"warm", "renaming"} /\ (d # c \/ d \in unremoved')
    <3>1. CASE docker' = [docker EXCEPT ![c] = "leased"] /\ unremoved' = unremoved
      BY <1>1, <3>1 DEF ShutdownTypeInv
    <3>2. CASE \E succeeds \in BOOLEAN : Shutdown!Removed(c, succeeds)
      BY <1>1, <3>2, RemovalEffect
    <3> QED  BY <1>10, <2>2, <3>1, <3>2 DEF Shutdown!Lease
  <2>5. /\ run'[r] = x /\ run' \in [PoolRun -> RunState]
        /\ \A q \in PoolRun \ {r} : run'[q] = run[q]
    <3> HIDE DEF RunState
    <3> QED  BY <2>0, <2>3
  <2>6. ShutdownTypeInv'
    BY <1>1, <2>1, <2>4, <2>5 DEF ShutdownTypeInv
  <2> HIDE DEF RunState
  <2>7. HolderInv'
    <3>0. /\ run'[r].at # "claimed" /\ run'[r].box \in {Null, run[r].box}
          /\ run'[r].box # Null => run'[r].at = "executing"
      BY <2>2, <2>3, <2>5
    <3>1. \A q \in PoolRun : run'[q].box = Null \/ run'[q].box = run[q].box
      BY <2>5, <3>0
    <3>2. \A q \in PoolRun : /\ run'[q].box # Null => run'[q].at \in {"claimed", "executing"}
                             /\ run'[q].at = "claimed" => run'[q].box # Null
      BY <1>1, <2>5, <3>0 DEF HolderInv
    <3>3. \A k \in Key : entries[k] # Null => entries[k] \in Container
      BY <1>1 DEF ShutdownTypeInv
    <3> QED  BY <1>1, <1>2, <2>1, <2>4, <3>1, <3>2, <3>3 DEF HolderInv
  <2>8. WarmInv'
    <3>1. ASSUME NEW d \in Container, docker'[d] \in {"warm", "renaming"}, Remembered(d)  PROVE Remembered(d)'
      <4>1. CASE \E q \in PoolRun : run[q].at = "claimed" /\ run[q].box = d
        <5>1. PICK q \in PoolRun : run[q].at = "claimed" /\ run[q].box = d
          BY <4>1
        <5>2. CASE q = r
          BY <2>2, <2>4, <3>1, <5>1, <5>2 DEF Remembered
        <5>3. CASE q # r
          BY <2>5, <5>1, <5>3 DEF Remembered
        <5> QED  BY <5>2, <5>3
      <4>2. CASE ~\E q \in PoolRun : run[q].at = "claimed" /\ run[q].box = d
        BY <2>1, <2>4, <3>1, <4>2 DEF Remembered
      <4> QED  BY <4>1, <4>2
    <3> QED  BY <1>1, <2>1, <2>4, <3>1 DEF WarmInv
  <2>9. UNCHANGED <<Shutdown!Held, Shutdown!Creating>>
    BY <2>1 DEF Shutdown!Held, Shutdown!Creating
  <2>10. CapacityInv'
    BY <1>1, <2>1, <2>9, NoMorePlaces DEF CapacityInv
  <2>11. CloseInv'
    <3>1. r \in Shutdown!InProgress
      BY <2>1 DEF Shutdown!InProgress
    <3> QED  BY <1>1, <2>1, <2>9, <3>1 DEF CloseInv
  <2> QED  BY <2>6, <2>7, <2>8, <2>10, <2>11 DEF PoolInv
<1>11. ASSUME NEW r \in PoolRun, Shutdown!ColdStart(r)  PROVE PoolInv'
  <2>1. PICK next \in {"executing", "done"} : run' = [run EXCEPT ![r].at = next]
    BY <1>11 DEF Shutdown!ColdStart
  <2>2. /\ run[r].at = "cold" /\ run[r].box = Null
        /\ UNCHANGED <<starts, phase, inFlight, entries, pending, pool, docker, removing, unremoved, late>>
    BY <1>1, <1>11 DEF Shutdown!ColdStart, HolderInv
  <2>3. /\ run'[r].at = next /\ run'[r].box = Null
        /\ \A q \in PoolRun \ {r} : run'[q] = run[q]
    BY <1>1, <2>1, <2>2 DEF ShutdownTypeInv
  <2>4. ShutdownTypeInv'
    <3> DEFINE AtBox == [at  : {"none", "queued", "taking", "claimed", "cold", "executing", "done"},
                         box : Container \cup {Null}]
    <3>1. run \in [PoolRun -> AtBox]
      BY <1>1 DEF ShutdownTypeInv
    <3>2. run' \in [PoolRun -> AtBox]
      BY <2>1, <3>1
    <3> QED  BY <1>1, <2>2, <3>2 DEF ShutdownTypeInv
  <2>5. HolderInv'
    BY <1>1, <2>2, <2>3 DEF HolderInv
  <2>6. WarmInv'
    <3>1. ASSUME NEW c \in Container, Remembered(c)  PROVE Remembered(c)'
      <4>1. CASE \E q \in PoolRun : run[q].at = "claimed" /\ run[q].box = c
        BY <2>2, <2>3, <4>1 DEF Remembered
      <4>2. CASE ~\E q \in PoolRun : run[q].at = "claimed" /\ run[q].box = c
        BY <2>2, <3>1, <4>2 DEF Remembered
      <4> QED  BY <4>1, <4>2
    <3> QED  BY <1>1, <2>2, <3>1 DEF WarmInv
  <2>7. UNCHANGED <<Shutdown!Held, Shutdown!Creating>>
    BY <2>2 DEF Shutdown!Held, Shutdown!Creating
  <2>8. CapacityInv'
    BY <1>1, <2>2, <2>7, NoMorePlaces DEF CapacityInv
  <2>9. CloseInv'
    <3>1. r \in Shutdown!InProgress
      BY <2>2 DEF Shutdown!InProgress
    <3> QED  BY <1>1, <2>2, <2>7, <3>1 DEF CloseInv
  <2> QED  BY <2>4, <2>5, <2>6, <2>8, <2>9 DEF PoolInv
<1>12. ASSUME NEW r \in PoolRun, Shutdown!Terminate(r)  PROVE PoolInv'
  <2>0. PICK k \in Key : k = KeyOf[r]
    BY DEF Shutdown!Configured
  <2>1. /\ run[r].at = "executing"
        /\ UNCHANGED <<starts, phase, inFlight, entries, pool, removing, late>>
        /\ run' = [run EXCEPT ![r] = [at |-> "done", box |-> Null]]
        /\ \/ pending' = pending
           \/ /\ Shutdown!MayWarm(k)
              /\ pending' = [pending EXCEPT ![k] = "asked"]
    BY <1>12, <2>0 DEF Shutdown!Terminate
  <2>2. /\ docker' \in [Container -> {"none", "creating", "warm", "renaming", "leased", "gone"}]
        /\ unremoved' \subseteq Container /\ unremoved \subseteq unremoved'
        /\ \A d \in Container : docker'[d] = "none" => docker[d] = "none"
        /\ \A d \in Container : docker'[d] \in {"warm", "renaming"} => docker[d] \in {"warm", "renaming"}
    <3>1. CASE run[r].box = Null
      BY <1>1, <1>12, <3>1 DEF Shutdown!Terminate, ShutdownTypeInv
    <3>2. CASE run[r].box # Null
      <4>1. PICK c \in Container : c = run[r].box
        BY <1>1, <3>2 DEF ShutdownTypeInv
      <4>2. \E succeeds \in BOOLEAN : Shutdown!Removed(c, succeeds)
        BY <1>12, <3>2, <4>1 DEF Shutdown!Terminate
      <4> QED  BY <1>1, <4>2, RemovalEffect
    <3> QED  BY <3>1, <3>2
  <2>3. /\ run'[r].at = "done" /\ run'[r].box = Null
        /\ \A q \in PoolRun \ {r} : run'[q] = run[q]
    BY <1>1, <2>1 DEF ShutdownTypeInv
  <2>4. \/ pending' = pending
        \/ /\ pending[k] = "none" /\ entries[k] = Null /\ pending'[k] = "asked"
           /\ \A l \in Key \ {k} : pending'[l] = pending[l]
           /\ Cardinality(Shutdown!Held) + Cardinality(Shutdown!Creating) < Capacity
    <3>1. CASE pending' = [pending EXCEPT ![k] = "asked"] /\ Shutdown!MayWarm(k)
      <4>1. /\ Shutdown!Cardinality(Shutdown!Held) = Cardinality(Shutdown!Held)
            /\ Shutdown!Cardinality(Shutdown!Creating) = Cardinality(Shutdown!Creating)
        BY SameCardinality
      <4>2. /\ pending[k] = "none" /\ entries[k] = Null
            /\ Cardinality(Shutdown!Held) + Cardinality(Shutdown!Creating) < Capacity
        BY <3>1, <4>1 DEF Shutdown!MayWarm
      <4>3. pending'[k] = "asked" /\ \A l \in Key \ {k} : pending'[l] = pending[l]
        BY <1>1, <3>1 DEF ShutdownTypeInv
      <4> QED  BY <4>2, <4>3
    <3> QED  BY <2>1, <3>1
  <2>5. /\ pending' \in [Key -> Container \cup {"none", "asked"}]
        /\ \A l \in Key : pending'[l] = pending[l] \/ pending'[l] = "asked"
        /\ \A l \in Key : pending[l] \in Container => pending'[l] = pending[l]
    BY <1>1, <1>2, <2>1, <2>4 DEF ShutdownTypeInv
  <2>6. ShutdownTypeInv'
    <3>1. run' \in [PoolRun -> [at : {"none", "queued", "taking", "claimed", "cold", "executing", "done"},
                            box : Container \cup {Null}]]
      BY <1>1, <2>1 DEF ShutdownTypeInv
    <3> QED  BY <1>1, <2>1, <2>2, <2>5, <3>1 DEF ShutdownTypeInv
  <2>7. HolderInv'
    <3>1. \A q \in PoolRun : run'[q].box = Null \/ (q # r /\ run'[q].box = run[q].box)
      BY <2>3
    <3>2. \A q \in PoolRun : /\ run'[q].box # Null => run'[q].at \in {"claimed", "executing"}
                         /\ run'[q].at = "claimed" => run'[q].box # Null
      BY <1>1, <2>3 DEF HolderInv
    <3>3. \A l \in Key : entries[l] # Null => entries[l] \in Container
      BY <1>1 DEF ShutdownTypeInv
    <3>4. \A l \in Key : pending'[l] \in Container => pending'[l] = pending[l]
      BY <1>2, <2>5
    <3> QED  BY <1>1, <1>2, <2>1, <2>2, <2>5, <3>1, <3>2, <3>3, <3>4 DEF HolderInv
  <2>8. WarmInv'
    <3>1. ASSUME NEW d \in Container, Remembered(d)  PROVE Remembered(d)'
      <4>1. CASE \E q \in PoolRun : run[q].at = "claimed" /\ run[q].box = d
        BY <2>1, <2>3, <4>1 DEF Remembered
      <4>2. CASE ~\E q \in PoolRun : run[q].at = "claimed" /\ run[q].box = d
        BY <2>1, <2>2, <2>5, <3>1, <4>2 DEF Remembered
      <4> QED  BY <4>1, <4>2
    <3> QED  BY <1>1, <2>1, <2>2, <3>1 DEF WarmInv
  <2>9. CapacityInv'
    <3>1. CASE pending' = pending
      <4>1. UNCHANGED <<Shutdown!Held, Shutdown!Creating>>
        BY <2>1, <3>1 DEF Shutdown!Held, Shutdown!Creating
      <4> QED  BY <1>1, <2>1, <3>1, <4>1, NoMorePlaces DEF CapacityInv
    <3>2. CASE pending' # pending
      <4>1. Shutdown!Held' = Shutdown!Held /\ Shutdown!Creating' = Shutdown!Creating \cup {k}
        BY <2>1, <2>4, <3>2 DEF Shutdown!Held, Shutdown!Creating
      <4>2. Shutdown!Held \subseteq Key /\ Shutdown!Creating \subseteq Key
        BY DEF Shutdown!Held, Shutdown!Creating
      <4>3. PICK h, c : h = Shutdown!Held /\ c = Shutdown!Creating
        OBVIOUS
      <4>4. /\ Cardinality(c \cup {k}) =< Cardinality(c) + 1
            /\ Cardinality(c \cup {k}) \in Nat /\ Cardinality(c) \in Nat /\ Cardinality(h) \in Nat
        BY <4>2, <4>3, Places
      <4>5. Cardinality(Shutdown!Held)' = Cardinality(h)
            /\ Cardinality(Shutdown!Creating)' = Cardinality(c \cup {k})
        BY <4>1, <4>3
      <4>6. Cardinality(h) + Cardinality(c) < Capacity
        BY <2>4, <3>2, <4>3
      <4>7. Cardinality(Shutdown!Held)' + Cardinality(Shutdown!Creating)' =< Capacity
        BY <4>4, <4>5, <4>6 DEF Shutdown!Configured
      <4>8. \A l \in Key : pending'[l] = "none" \/ entries'[l] = Null
        BY <1>1, <2>1, <2>4, <3>2 DEF CapacityInv
      <4> QED  BY <4>7, <4>8 DEF CapacityInv
    <3> QED  BY <3>1, <3>2
  <2>10. CloseInv'
    <3>1. r \in Shutdown!InProgress
      BY <2>1 DEF Shutdown!InProgress
    <3>2. phase \in {"started", "draining"}
      BY <1>1, <3>1 DEF CloseInv
    <3> QED  BY <1>1, <2>1, <3>1, <3>2 DEF CloseInv
  <2> QED  BY <2>6, <2>7, <2>8, <2>9, <2>10 DEF PoolInv
<1>13. ASSUME NEW k \in Key, Shutdown!CreateRuns(k)  PROVE PoolInv'
  <2>1. /\ pending[k] = "asked"
        /\ UNCHANGED <<starts, phase, inFlight, run, entries, pool, removing, unremoved, late>>
    BY <1>13 DEF Shutdown!CreateRuns
  <2>2. \/ \E c \in Container : /\ docker[c] = "none"
                                /\ docker' = [docker EXCEPT ![c] = "creating"]
                                /\ pending' = [pending EXCEPT ![k] = c]
        \/ docker' = docker /\ pending' = [pending EXCEPT ![k] = "none"]
    <3>1. CASE \E c \in Container : docker[c] = "none"
      <4>1. PICK c \in Container : c = CHOOSE n \in Container : docker[n] = "none"
        BY <3>1
      <4>2. docker[c] = "none"
        BY <3>1, <4>1
      <4> QED  BY <1>13, <4>1, <4>2 DEF Shutdown!CreateRuns
    <3>2. CASE ~\E c \in Container : docker[c] = "none"
      BY <1>13, <3>2 DEF Shutdown!CreateRuns
    <3> QED  BY <3>1, <3>2
  <2>3. ASSUME NEW c \in Container, docker[c] = "none",
               docker' = [docker EXCEPT ![c] = "creating"], pending' = [pending EXCEPT ![k] = c]
        PROVE  ShutdownTypeInv' /\ HolderInv' /\ WarmInv'
    <3>1. /\ pending'[k] = c /\ \A l \in Key \ {k} : pending'[l] = pending[l]
          /\ docker'[c] = "creating" /\ \A d \in Container \ {c} : docker'[d] = docker[d]
      BY <1>1, <2>3 DEF ShutdownTypeInv
    <3>2. ShutdownTypeInv'
      BY <1>1, <2>1, <2>3 DEF ShutdownTypeInv
    <3>3. /\ \A r \in PoolRun : run[r].box # c
          /\ \A l \in Key : entries[l] # c /\ pending[l] # c
          /\ c \notin removing
      BY <1>1, <2>3 DEF HolderInv
    <3>4. HolderInv'
      BY <1>1, <1>2, <2>1, <3>1, <3>3 DEF HolderInv
    <3>5. ASSUME NEW d \in Container, Remembered(d)  PROVE Remembered(d)'
      BY <1>2, <2>1, <3>1, <3>5 DEF Remembered
    <3>6. Remembered(c)'
      BY <3>1 DEF Remembered
    <3>7. WarmInv'
      BY <1>1, <2>1, <3>1, <3>5, <3>6 DEF WarmInv
    <3> QED  BY <3>2, <3>4, <3>7
  <2>4. ASSUME docker' = docker, pending' = [pending EXCEPT ![k] = "none"]
        PROVE  ShutdownTypeInv' /\ HolderInv' /\ WarmInv'
    <3>1. pending'[k] = "none" /\ \A l \in Key \ {k} : pending'[l] = pending[l]
      BY <1>1, <2>4 DEF ShutdownTypeInv
    <3>2. ShutdownTypeInv'
      BY <1>1, <2>1, <2>4 DEF ShutdownTypeInv
    <3>3. HolderInv'
      <4>1. \A l \in Key : pending'[l] \in Container => l # k /\ pending'[l] = pending[l]
        BY <1>2, <3>1
      <4>2. \A d \in Container, l \in Key : pending[l] # d => pending'[l] # d
        BY <1>2, <3>1
      <4>3. \A l \in Key, j \in Key : entries[l] # Null => pending'[j] # entries[l]
        BY <1>1, <4>2 DEF HolderInv, ShutdownTypeInv
      <4> QED  BY <1>1, <2>1, <2>4, <4>1, <4>2, <4>3 DEF HolderInv
    <3>4. ASSUME NEW d \in Container, Remembered(d)  PROVE Remembered(d)'
      BY <1>2, <2>1, <3>1, <3>4 DEF Remembered
    <3>5. WarmInv'
      BY <1>1, <2>1, <2>4, <3>4 DEF WarmInv
    <3> QED  BY <3>2, <3>3, <3>5
  <2>5. ShutdownTypeInv' /\ HolderInv' /\ WarmInv'
    BY <2>2, <2>3, <2>4
  <2>6. /\ \A l \in Key : pending'[l] # "none" => pending[l] # "none"
        /\ UNCHANGED Shutdown!Held /\ Shutdown!Creating' \subseteq Shutdown!Creating
    <3>1. \A l \in Key : pending'[l] # "none" => pending[l] # "none"
      BY <1>1, <2>1, <2>2 DEF ShutdownTypeInv
    <3> QED  BY <2>1, <3>1 DEF Shutdown!Held, Shutdown!Creating
  <2>7. CapacityInv'
    BY <1>1, <2>1, <2>6, NoMorePlaces DEF CapacityInv
  <2>8. CloseInv'
    <3>1. k \in Shutdown!Creating
      BY <2>1 DEF Shutdown!Creating
    <3>2. UNCHANGED Shutdown!InProgress
      BY <2>1 DEF Shutdown!InProgress
    <3> QED  BY <1>1, <2>1, <3>1, <3>2 DEF CloseInv
  <2> QED  BY <2>5, <2>7, <2>8 DEF PoolInv
<1>14. ASSUME NEW k \in Key, Shutdown!CreateReturns(k)  PROVE PoolInv'
  <2>1. PICK c \in Container : c = pending[k]
    BY <1>14 DEF Shutdown!CreateReturns
  <2>2. /\ UNCHANGED <<starts, phase, inFlight, run, pool, removing, late>>
        /\ pending' = [pending EXCEPT ![k] = "none"]
        /\ \/ /\ entries' = [entries EXCEPT ![k] = c]
              /\ docker' = docker /\ unremoved' = unremoved
           \/ /\ entries' = entries
              /\ \E succeeds \in BOOLEAN : Shutdown!Removed(c, succeeds)
    BY <1>14, <2>1 DEF Shutdown!CreateReturns
  <2>3. entries[k] = Null
    BY <1>1, <1>2, <2>1 DEF CapacityInv
  <2>4. /\ docker' \in [Container -> {"none", "creating", "warm", "renaming", "leased", "gone"}]
        /\ unremoved' \subseteq Container /\ unremoved \subseteq unremoved'
        /\ \A d \in Container : docker'[d] = "none" => docker[d] = "none"
        /\ \A d \in Container : docker'[d] \in {"warm", "renaming"} =>
             docker[d] \in {"warm", "renaming"} /\ (d # c \/ d \in unremoved' \/ entries'[k] = c)
        /\ entries' \in [Key -> Container \cup {Null}]
        /\ \A l \in Key \ {k} : entries'[l] = entries[l]
        /\ entries'[k] \in {Null, c}
    <3>1. CASE entries' = [entries EXCEPT ![k] = c] /\ docker' = docker /\ unremoved' = unremoved
      BY <1>1, <3>1 DEF ShutdownTypeInv
    <3>2. CASE entries' = entries /\ \E succeeds \in BOOLEAN : Shutdown!Removed(c, succeeds)
      <4>1. entries' \in [Key -> Container \cup {Null}] /\ \A l \in Key : entries'[l] = entries[l]
        BY <1>1, <3>2 DEF ShutdownTypeInv
      <4> QED  BY <1>1, <2>3, <3>2, <4>1, RemovalEffect
    <3> QED  BY <2>2, <3>1, <3>2
  <2>5. pending'[k] = "none" /\ \A l \in Key \ {k} : pending'[l] = pending[l]
    BY <1>1, <2>2 DEF ShutdownTypeInv
  <2>6. ShutdownTypeInv'
    <3>1. pending' \in [Key -> Container \cup {"none", "asked"}]
      BY <1>1, <2>2 DEF ShutdownTypeInv
    <3> QED  BY <1>1, <2>2, <2>4, <3>1 DEF ShutdownTypeInv
  <2>7. /\ \A r \in PoolRun : run[r].box # c
        /\ \A l \in Key : entries[l] # c /\ (l # k => pending[l] # c)
        /\ c \notin removing /\ docker[c] # "none"
    BY <1>1, <1>2, <2>1 DEF HolderInv
  <2>8. HolderInv'
    <3>1. \A l \in Key : entries'[l] # Null =>
            \/ l = k /\ entries'[l] = c
            \/ l # k /\ entries'[l] = entries[l]
      BY <2>4
    <3>2. \A l \in Key : pending'[l] # "none" => l # k /\ pending'[l] = pending[l]
      BY <2>5
    <3>3. \A d \in Container : docker'[d] = "none" =>
             d # c /\ \A l \in Key : entries'[l] # d /\ pending'[l] # d
      BY <1>1, <1>2, <2>4, <2>7, <3>1, <3>2 DEF HolderInv
    <3> QED  BY <1>1, <1>2, <2>1, <2>2, <2>4, <2>7, <3>1, <3>2, <3>3 DEF HolderInv
  <2>9. WarmInv'
    <3>1. ASSUME NEW d \in Container, docker'[d] \in {"warm", "renaming"}, Remembered(d)  PROVE Remembered(d)'
      <4>1. CASE d = c
        BY <2>4, <3>1, <4>1 DEF Remembered
      <4>2. CASE d # c
        <5>1. \A l \in Key : entries[l] = d => entries'[l] = d
          BY <1>2, <2>3, <2>4
        <5>2. \A l \in Key : pending[l] = d => pending'[l] = d
          BY <2>1, <2>5, <4>2
        <5> QED  BY <2>2, <2>4, <3>1, <5>1, <5>2 DEF Remembered
      <4> QED  BY <4>1, <4>2
    <3> QED  BY <1>1, <2>2, <2>4, <3>1 DEF WarmInv
  <2>10. /\ Shutdown!Creating' = Shutdown!Creating \ {k} /\ k \in Shutdown!Creating
         /\ Shutdown!Held' \subseteq Shutdown!Held \cup {k}
    BY <1>2, <2>1, <2>4, <2>5 DEF Shutdown!Held, Shutdown!Creating
  <2>11. CapacityInv'
    <3>1. PICK h \in SUBSET Key, c0 \in SUBSET Key :
            h = Shutdown!Held /\ c0 = Shutdown!Creating
      BY DEF Shutdown!Held, Shutdown!Creating
    <3>2. PICK h1 \in SUBSET Key : h1 = Shutdown!Held' /\ h1 \subseteq h \cup {k}
      BY <2>10, <3>1 DEF Shutdown!Held
    <3>3. /\ h \cup {k} \in SUBSET Key /\ c0 \ {k} \in SUBSET Key /\ k \in c0
          /\ h1 \in SUBSET (h \cup {k}) /\ c0 \ {k} \in SUBSET (c0 \ {k})
      BY <2>10, <3>1, <3>2
    <3>4. Cardinality(h1) + Cardinality(c0 \ {k}) =< Cardinality(h \cup {k}) + Cardinality(c0 \ {k})
      BY <3>3, Places
    <3>5. Cardinality(h \cup {k}) + Cardinality(c0 \ {k}) =< Cardinality(h) + Cardinality(c0)
      BY <3>3, Places
    <3>6. /\ Cardinality(h1) \in Nat /\ Cardinality(h \cup {k}) \in Nat /\ Cardinality(h) \in Nat
          /\ Cardinality(c0) \in Nat /\ Cardinality(c0 \ {k}) \in Nat
      BY <3>3, Places
    <3>7. Cardinality(h) + Cardinality(c0) =< Capacity
      BY <1>1, <3>1 DEF CapacityInv
    <3>8. Cardinality(Shutdown!Held)' = Cardinality(h1)
          /\ Cardinality(Shutdown!Creating)' = Cardinality(c0 \ {k})
      BY <2>10, <3>1, <3>2
    <3>9. Cardinality(Shutdown!Held)' + Cardinality(Shutdown!Creating)' =< Capacity
      BY <3>4, <3>5, <3>6, <3>7, <3>8 DEF Shutdown!Configured
    <3>10. \A l \in Key : pending'[l] = "none" \/ entries'[l] = Null
      BY <1>1, <2>4, <2>5 DEF CapacityInv
    <3> QED  BY <3>9, <3>10 DEF CapacityInv
  <2>12. CloseInv'
    <3>1. UNCHANGED Shutdown!InProgress
      BY <2>2 DEF Shutdown!InProgress
    <3> QED  BY <1>1, <2>2, <2>10, <3>1 DEF CloseInv
  <2> QED  BY <2>6, <2>8, <2>9, <2>11, <2>12 DEF PoolInv
<1>15. ASSUME NEW k \in Key, Shutdown!TtlExpires(k)  PROVE PoolInv'
  <2>1. PICK c \in Container : c = entries[k]
    BY <1>1, <1>15 DEF Shutdown!TtlExpires, ShutdownTypeInv
  <2>2. /\ entries[k] = c /\ c # Null /\ entries' = [entries EXCEPT ![k] = Null]
        /\ removing' = removing \cup {c}
        /\ UNCHANGED <<starts, phase, inFlight, run, pending, pool, docker, unremoved, late>>
    BY <1>15, <2>1 DEF Shutdown!TtlExpires
  <2>3. entries'[k] = Null /\ \A l \in Key \ {k} : entries'[l] = entries[l]
    BY <1>1, <2>2 DEF ShutdownTypeInv
  <2>4. ShutdownTypeInv'
    BY <1>1, <2>2 DEF ShutdownTypeInv
  <2>5. \A l \in Key : entries'[l] # Null => l # k /\ entries'[l] = entries[l]
    BY <2>3
  <2>6. /\ \A r \in PoolRun : run[r].box # c
        /\ \A l \in Key : pending[l] # c /\ (l # k => entries[l] # c)
        /\ docker[c] # "none"
    BY <1>1, <1>2, <2>2 DEF HolderInv
  <2>7. \A d \in Container, l \in Key : entries'[l] = d => entries[l] = d
    BY <1>2, <2>5
  <2>8. HolderInv'
    BY <1>1, <1>2, <2>2, <2>5, <2>6, <2>7 DEF HolderInv
  <2>9. WarmInv'
    <3>1. ASSUME NEW d \in Container, Remembered(d)  PROVE Remembered(d)'
      <4>1. CASE d = c
        BY <2>2, <4>1 DEF Remembered
      <4>2. CASE d # c
        <5>1. \A l \in Key : entries[l] = d => entries'[l] = d
          BY <2>2, <2>3, <4>2
        <5> QED  BY <2>2, <3>1, <5>1 DEF Remembered
      <4> QED  BY <4>1, <4>2
    <3> QED  BY <1>1, <2>2, <3>1 DEF WarmInv
  <2>10. Shutdown!Held' \subseteq Shutdown!Held /\ Shutdown!Creating' = Shutdown!Creating
    BY <2>2, <2>5 DEF Shutdown!Held, Shutdown!Creating
  <2>11. CapacityInv'
    <3>1. \A l \in Key : pending'[l] = "none" \/ entries'[l] = Null
      BY <1>1, <2>2, <2>3 DEF CapacityInv
    <3> QED  BY <1>1, <2>10, <3>1, NoMorePlaces DEF CapacityInv
  <2>12. CloseInv'
    <3>1. UNCHANGED Shutdown!InProgress
      BY <2>2 DEF Shutdown!InProgress
    <3> QED  BY <1>1, <2>2, <2>10, <3>1 DEF CloseInv
  <2> QED  BY <2>4, <2>8, <2>9, <2>11, <2>12 DEF PoolInv
<1>16. ASSUME NEW c \in Container, Shutdown!RemoveReturns(c)  PROVE PoolInv'
  <2>1. /\ c \in removing /\ removing' = removing \ {c}
        /\ \E succeeds \in BOOLEAN : Shutdown!Removed(c, succeeds)
        /\ UNCHANGED <<starts, phase, inFlight, run, entries, pending, pool, late>>
    BY <1>16 DEF Shutdown!RemoveReturns
  <2>2. /\ docker' \in [Container -> {"none", "creating", "warm", "renaming", "leased", "gone"}]
        /\ unremoved' \subseteq Container /\ unremoved \subseteq unremoved'
        /\ \A d \in Container : docker'[d] = "none" => docker[d] = "none"
        /\ \A d \in Container : docker'[d] \in {"warm", "renaming"} =>
             docker[d] \in {"warm", "renaming"} /\ (d # c \/ d \in unremoved')
    BY <1>1, <2>1, RemovalEffect
  <2>3. ShutdownTypeInv'
    BY <1>1, <2>1, <2>2 DEF ShutdownTypeInv
  <2>4. HolderInv'
    BY <1>1, <2>1, <2>2 DEF HolderInv
  <2>5. WarmInv'
    <3>1. ASSUME NEW d \in Container, docker'[d] \in {"warm", "renaming"}, Remembered(d)  PROVE Remembered(d)'
      BY <2>1, <2>2, <3>1 DEF Remembered
    <3> QED  BY <1>1, <2>1, <2>2, <3>1 DEF WarmInv
  <2>6. UNCHANGED <<Shutdown!Held, Shutdown!Creating, Shutdown!InProgress>>
    BY <2>1 DEF Shutdown!Held, Shutdown!Creating, Shutdown!InProgress
  <2>7. CapacityInv'
    BY <1>1, <2>1, <2>6, NoMorePlaces DEF CapacityInv
  <2>8. CloseInv'
    BY <1>1, <2>1, <2>6 DEF CloseInv
  <2> QED  BY <2>3, <2>4, <2>5, <2>7, <2>8 DEF PoolInv
<1>17. CASE Shutdown!Stop
  <2>1. /\ phase = "started" /\ phase' = "draining"
        /\ UNCHANGED <<starts, inFlight, run, entries, pending, pool, docker, removing, unremoved, late>>
    BY <1>17 DEF Shutdown!Stop
  <2>2. ShutdownTypeInv' /\ HolderInv'
    BY <1>1, <2>1 DEF ShutdownTypeInv, HolderInv
  <2>3. WarmInv'
    BY <1>1, <2>1 DEF WarmInv, Remembered
  <2>4. UNCHANGED <<Shutdown!Held, Shutdown!Creating, Shutdown!InProgress>>
    BY <2>1 DEF Shutdown!Held, Shutdown!Creating, Shutdown!InProgress
  <2>5. CapacityInv'
    BY <1>1, <2>1, <2>4, NoMorePlaces DEF CapacityInv
  <2>6. CloseInv'
    BY <1>1, <2>1, <2>4 DEF CloseInv
  <2> QED  BY <2>2, <2>3, <2>5, <2>6 DEF PoolInv
<1>18. CASE Shutdown!StopReturns
  <2>1. /\ phase = "draining" /\ ~inFlight /\ phase' = "closing pool"
        /\ pool' = [pool EXCEPT !.closed = TRUE]
        /\ UNCHANGED <<starts, inFlight, run, entries, pending, docker, removing, unremoved, late>>
    BY <1>18 DEF Shutdown!StopReturns
  <2>2. /\ pool' \in [initialized : {"no", "ok", "failed"}, closed : BOOLEAN,
                      leaving : SUBSET Container]
        /\ pool'.initialized = pool.initialized /\ pool'.leaving = pool.leaving
    BY <1>1, <2>1 DEF ShutdownTypeInv
  <2>3. ShutdownTypeInv'
    BY <1>1, <2>1, <2>2 DEF ShutdownTypeInv
  <2>4. HolderInv'
    BY <1>1, <2>1 DEF HolderInv
  <2>5. WarmInv'
    BY <1>1, <2>1, <2>2 DEF WarmInv, Remembered
  <2>6. UNCHANGED <<Shutdown!Held, Shutdown!Creating, Shutdown!InProgress>>
    BY <2>1 DEF Shutdown!Held, Shutdown!Creating, Shutdown!InProgress
  <2>7. CapacityInv'
    BY <1>1, <2>1, <2>6, NoMorePlaces DEF CapacityInv
  <2>8. CloseInv'
    BY <1>1, <2>1, <2>2, <2>6 DEF CloseInv
  <2> QED  BY <2>3, <2>4, <2>5, <2>7, <2>8 DEF PoolInv
<1>19. CASE Shutdown!ClosePool
  <2>1. /\ phase = "closing pool" /\ Shutdown!Creating = {} /\ phase' = "removing"
        /\ pool' = [pool EXCEPT !.leaving = {entries[k] : k \in Shutdown!Held}]
        /\ entries' = [k \in Key |-> Null]
        /\ UNCHANGED <<starts, inFlight, run, pending, docker, removing, unremoved, late>>
    BY <1>19 DEF Shutdown!ClosePool
  <2>2. {entries[k] : k \in Shutdown!Held} \subseteq Container
    <3>1. ASSUME NEW k \in Shutdown!Held  PROVE entries[k] \in Container
      BY <1>1 DEF ShutdownTypeInv, Shutdown!Held
    <3> QED  BY <3>1
  <2>3. /\ pool' \in [initialized : {"no", "ok", "failed"}, closed : BOOLEAN,
                      leaving : SUBSET Container]
        /\ pool'.initialized = pool.initialized
        /\ pool'.leaving = {entries[k] : k \in Shutdown!Held}
    BY <1>1, <2>1, <2>2 DEF ShutdownTypeInv
  <2>4. entries' \in [Key -> Container \cup {Null}] /\ \A k \in Key : entries'[k] = Null
    BY <2>1
  <2>5. ShutdownTypeInv'
    BY <1>1, <2>1, <2>3, <2>4 DEF ShutdownTypeInv
  <2>6. HolderInv'
    BY <1>1, <1>2, <2>1, <2>4 DEF HolderInv
  <2>7. pool.leaving = {}
    BY <1>1, <2>1 DEF CloseInv
  <2>8. WarmInv'
    <3>1. ASSUME NEW c \in Container, Remembered(c)  PROVE Remembered(c)'
      <4>1. CASE \E k \in Key : entries[k] = c
        <5>1. c \in pool'.leaving
          BY <1>2, <2>3, <4>1 DEF Shutdown!Held
        <5> QED  BY <5>1 DEF Remembered
      <4>2. CASE ~\E k \in Key : entries[k] = c
        BY <2>1, <2>7, <3>1, <4>2 DEF Remembered
      <4> QED  BY <4>1, <4>2
    <3> QED  BY <1>1, <2>1, <2>3, <3>1 DEF WarmInv
  <2>9. /\ Shutdown!Held' = {} /\ Shutdown!Creating' = {}
        /\ UNCHANGED Shutdown!InProgress
    BY <2>1, <2>4 DEF Shutdown!Held, Shutdown!Creating, Shutdown!InProgress
  <2>10. CapacityInv'
    <3>1. /\ Shutdown!Held' \subseteq Shutdown!Held
          /\ Shutdown!Creating' \subseteq Shutdown!Creating
      BY <2>9
    <3> QED  BY <1>1, <2>4, <3>1, NoMorePlaces DEF CapacityInv
  <2>11. CloseInv'
    BY <1>1, <2>1, <2>9 DEF CloseInv
  <2> QED  BY <2>5, <2>6, <2>8, <2>10, <2>11 DEF PoolInv
<1>20. ASSUME NEW c \in Container, Shutdown!CloseRemoves(c)  PROVE PoolInv'
  <2>1. /\ phase = "removing" /\ c \in pool.leaving
        /\ UNCHANGED <<starts, inFlight, run, entries, pending, removing, late>>
        /\ \/ /\ pool' = [pool EXCEPT !.leaving = pool.leaving \ {c}]
              /\ docker' = [docker EXCEPT ![c] = "gone"]
              /\ phase' = phase /\ unremoved' = unremoved
           \/ /\ pool' = [pool EXCEPT !.leaving = {}]
              /\ unremoved' = unremoved \cup pool.leaving
              /\ phase' = "closed" /\ docker' = docker
    BY <1>20 DEF Shutdown!CloseRemoves
  <2>2. /\ pool' \in [initialized : {"no", "ok", "failed"}, closed : BOOLEAN,
                      leaving : SUBSET Container]
        /\ pool'.initialized = pool.initialized
    BY <1>1, <2>1 DEF ShutdownTypeInv
  <2>3. /\ docker' \in [Container -> {"none", "creating", "warm", "renaming", "leased", "gone"}]
        /\ unremoved' \subseteq Container /\ unremoved \subseteq unremoved'
        /\ \A d \in Container : docker'[d] = "none" => docker[d] = "none"
        /\ \A d \in Container : docker'[d] \in {"warm", "renaming"} =>
             /\ docker[d] \in {"warm", "renaming"}
             /\ d \in pool.leaving => d \in pool'.leaving \/ d \in unremoved'
        /\ phase' = "closed" => pool'.leaving = {}
        /\ phase' \in {"removing", "closed"}
    <3>1. CASE /\ pool' = [pool EXCEPT !.leaving = pool.leaving \ {c}]
               /\ docker' = [docker EXCEPT ![c] = "gone"]
               /\ phase' = phase /\ unremoved' = unremoved
      BY <1>1, <2>1, <3>1 DEF ShutdownTypeInv
    <3>2. CASE /\ pool' = [pool EXCEPT !.leaving = {}]
               /\ unremoved' = unremoved \cup pool.leaving
               /\ phase' = "closed" /\ docker' = docker
      BY <1>1, <2>1, <3>2 DEF ShutdownTypeInv
    <3> QED  BY <2>1, <3>1, <3>2
  <2>4. ShutdownTypeInv'
    BY <1>1, <2>1, <2>2, <2>3 DEF ShutdownTypeInv
  <2>5. HolderInv'
    BY <1>1, <2>1, <2>3 DEF HolderInv
  <2>6. WarmInv'
    <3>1. ASSUME NEW d \in Container, docker'[d] \in {"warm", "renaming"}, Remembered(d)  PROVE Remembered(d)'
      BY <2>1, <2>3, <3>1 DEF Remembered
    <3> QED  BY <1>1, <2>1, <2>2, <2>3, <3>1 DEF WarmInv
  <2>7. UNCHANGED <<Shutdown!Held, Shutdown!Creating, Shutdown!InProgress>>
    BY <2>1 DEF Shutdown!Held, Shutdown!Creating, Shutdown!InProgress
  <2>8. CapacityInv'
    BY <1>1, <2>1, <2>7, NoMorePlaces DEF CapacityInv
  <2>9. CloseInv'
    BY <1>1, <2>1, <2>3, <2>7 DEF CloseInv
  <2> QED  BY <2>4, <2>5, <2>6, <2>8, <2>9 DEF PoolInv
<1>21. CASE Shutdown!CloseReturns
  <2>1. /\ phase = "removing" /\ pool.leaving = {} /\ phase' = "closed"
        /\ UNCHANGED <<starts, inFlight, run, entries, pending, pool, docker, removing, unremoved, late>>
    BY <1>21 DEF Shutdown!CloseReturns
  <2>2. ShutdownTypeInv' /\ HolderInv'
    BY <1>1, <2>1 DEF ShutdownTypeInv, HolderInv
  <2>3. WarmInv'
    BY <1>1, <2>1 DEF WarmInv, Remembered
  <2>4. UNCHANGED <<Shutdown!Held, Shutdown!Creating, Shutdown!InProgress>>
    BY <2>1 DEF Shutdown!Held, Shutdown!Creating, Shutdown!InProgress
  <2>5. CapacityInv'
    BY <1>1, <2>1, <2>4, NoMorePlaces DEF CapacityInv
  <2>6. CloseInv'
    BY <1>1, <2>1, <2>4 DEF CloseInv
  <2> QED  BY <2>2, <2>3, <2>5, <2>6 DEF PoolInv
<1>22. CASE Shutdown!Restart
  <2>1. /\ starts' = starts + 1 /\ phase' = "starting" /\ ~inFlight'
        /\ run' = [r \in PoolRun |-> IF r \in Shutdown!InProgress
                                 THEN [at |-> "done", box |-> Null] ELSE run[r]]
        /\ entries' = [k \in Key |-> Null]
        /\ pending' = [k \in Key |-> "none"]
        /\ pool' = [initialized |-> "no", closed |-> FALSE, leaving |-> {}]
        /\ UNCHANGED <<removing, unremoved, late>>
        /\ \E renaming \in SUBSET Shutdown!Claimed :
             docker' = [c \in Container |-> IF c \in renaming THEN "renaming" ELSE docker[c]]
    BY <1>22 DEF Shutdown!Restart, Shutdown!NewPool
  <2>2. /\ run' \in [PoolRun -> [at : {"none", "queued", "taking", "claimed", "cold", "executing", "done"},
                             box : Container \cup {Null}]]
        /\ \A r \in PoolRun : run'[r].box = Null /\ run'[r].at \in {"none", "queued", "done"}
    <3>1. run' \in [PoolRun -> [at : {"none", "queued", "taking", "claimed", "cold", "executing", "done"},
                            box : Container \cup {Null}]]
      BY <1>1, <2>1 DEF ShutdownTypeInv
    <3>2. ASSUME NEW r \in PoolRun  PROVE run'[r].box = Null /\ run'[r].at \in {"none", "queued", "done"}
      <4>1. CASE r \in Shutdown!InProgress
        BY <2>1, <4>1
      <4>2. CASE r \notin Shutdown!InProgress
        <5>1. run[r].at \in {"none", "queued", "done"}
          BY <1>1, <4>2 DEF ShutdownTypeInv, Shutdown!InProgress
        <5> QED  BY <1>1, <2>1, <4>2, <5>1 DEF HolderInv
      <4> QED  BY <4>1, <4>2
    <3> QED  BY <3>1, <3>2
  <2>3. /\ \A k \in Key : entries'[k] = Null /\ pending'[k] = "none"
        /\ pool'.initialized = "no" /\ pool'.leaving = {}
    BY <2>1
  <2>4. starts' \in Nat \ {0} /\ starts' > 1
    <3>1. starts \in Nat \ {0}
      BY <1>1 DEF ShutdownTypeInv
    <3> QED  BY <2>1, <3>1
  <2>11. /\ docker' \in [Container -> {"none", "creating", "warm", "renaming", "leased", "gone"}]
         /\ \A d \in Container : docker'[d] = "none" => docker[d] = "none"
    BY <1>1, <2>1 DEF ShutdownTypeInv
  <2>5. ShutdownTypeInv'
    <3>1. /\ entries' \in [Key -> Container \cup {Null}]
          /\ pending' \in [Key -> Container \cup {"none", "asked"}]
          /\ pool' \in [initialized : {"no", "ok", "failed"}, closed : BOOLEAN,
                        leaving : SUBSET Container]
      BY <2>1
    <3> QED  BY <1>1, <2>1, <2>2, <2>4, <2>11, <3>1 DEF ShutdownTypeInv
  <2>6. HolderInv'
    BY <1>1, <1>2, <2>1, <2>2, <2>3, <2>11 DEF HolderInv
  <2>7. WarmInv'
    BY <2>3, <2>4 DEF WarmInv
  <2>8. Shutdown!Held' = {} /\ Shutdown!Creating' = {} /\ Shutdown!InProgress' = {}
    BY <2>2, <2>3 DEF Shutdown!Held, Shutdown!Creating, Shutdown!InProgress
  <2>9. CapacityInv'
    <3>1. /\ Shutdown!Held' \subseteq Shutdown!Held
          /\ Shutdown!Creating' \subseteq Shutdown!Creating
      BY <2>8
    <3> QED  BY <1>1, <2>3, <3>1, NoMorePlaces DEF CapacityInv
  <2>10. CloseInv'
    BY <2>1, <2>3, <2>8 DEF CloseInv
  <2> QED  BY <2>5, <2>6, <2>7, <2>9, <2>10 DEF PoolInv
<1>23. CASE UNCHANGED Shutdown!vars
  <2>1. UNCHANGED <<starts, phase, inFlight, run, entries, pending, pool, docker, removing, unremoved, late>>
    BY <1>23 DEF Shutdown!vars
  <2>2. ShutdownTypeInv' /\ HolderInv'
    BY <1>1, <2>1 DEF ShutdownTypeInv, HolderInv
  <2>3. WarmInv'
    BY <1>1, <2>1 DEF WarmInv, Remembered
  <2>4. UNCHANGED <<Shutdown!Held, Shutdown!Creating, Shutdown!InProgress>>
    BY <2>1 DEF Shutdown!Held, Shutdown!Creating, Shutdown!InProgress
  <2>5. CapacityInv'
    BY <1>1, <2>1, <2>4, NoMorePlaces DEF CapacityInv
  <2>6. CloseInv'
    BY <1>1, <2>1, <2>4 DEF CloseInv
  <2> QED  BY <2>2, <2>3, <2>5, <2>6 DEF PoolInv
<1>24. ASSUME NEW c \in Container, Shutdown!ContainerAppears(c)  PROVE PoolInv'
  <2>1. /\ docker[c] = "creating" /\ docker' = [docker EXCEPT ![c] = "warm"]
        /\ late' = late \/ late' = late \cup {c}
        /\ c \in late' \/ c \in Shutdown!Made \/ pool.initialized = "no"
        /\ UNCHANGED <<starts, phase, inFlight, run, entries, pending, pool, removing, unremoved>>
    BY <1>24 DEF Shutdown!ContainerAppears
  <2>2. /\ docker' \in [Container -> {"none", "creating", "warm", "renaming", "leased", "gone"}]
        /\ docker'[c] = "warm" /\ \A d \in Container \ {c} : docker'[d] = docker[d]
    BY <1>1, <2>1 DEF ShutdownTypeInv
  <2>3. ShutdownTypeInv'
    BY <1>1, <2>1, <2>2 DEF ShutdownTypeInv
  <2>4. HolderInv'
    <3>1. \A d \in Container : docker'[d] = "none" => docker[d] = "none"
      BY <2>2
    <3> QED  BY <1>1, <2>1, <3>1 DEF HolderInv
  <2>5. WarmInv'
    <3>1. ASSUME NEW d \in Container, Remembered(d)  PROVE Remembered(d)'
      BY <2>1, <3>1 DEF Remembered
    <3>2. Remembered(c)' \/ (starts > 1 /\ pool.initialized = "no")'
      <4>1. CASE \E k \in Key : pending[k] = c
        BY <2>1, <4>1 DEF Remembered
      <4>2. CASE ~\E k \in Key : pending[k] = c
        <5>1. c \notin Shutdown!Made /\ starts > 1
          BY <2>1, <4>2 DEF Shutdown!Made, CreatingInv
        <5> QED  BY <2>1, <5>1 DEF Remembered
      <4> QED  BY <4>1, <4>2
    <3> QED  BY <1>1, <2>1, <2>2, <3>1, <3>2 DEF WarmInv
  <2>6. UNCHANGED <<Shutdown!Held, Shutdown!Creating, Shutdown!InProgress>>
    BY <2>1 DEF Shutdown!Held, Shutdown!Creating, Shutdown!InProgress
  <2>7. CapacityInv'
    BY <1>1, <2>1, <2>6, NoMorePlaces DEF CapacityInv
  <2>8. CloseInv'
    BY <1>1, <2>1, <2>6 DEF CloseInv
  <2> QED  BY <2>3, <2>4, <2>5, <2>7, <2>8 DEF PoolInv
<1>25. ASSUME NEW c \in Container, Shutdown!LateRename(c)  PROVE PoolInv'
  <2>1. /\ docker[c] = "renaming" /\ docker' = [docker EXCEPT ![c] = "leased"]
        /\ UNCHANGED <<starts, phase, inFlight, run, entries, pending, pool, removing, unremoved, late>>
    BY <1>25 DEF Shutdown!LateRename
  <2>2. /\ docker' \in [Container -> {"none", "creating", "warm", "renaming", "leased", "gone"}]
        /\ \A d \in Container : docker'[d] = docker[d] \/ docker'[d] = "leased"
    BY <1>1, <2>1 DEF ShutdownTypeInv
  <2>3. ShutdownTypeInv'
    BY <1>1, <2>1, <2>2 DEF ShutdownTypeInv
  <2>4. HolderInv'
    <3>1. \A d \in Container : docker'[d] = "none" => docker[d] = "none"
      BY <2>2
    <3> QED  BY <1>1, <2>1, <3>1 DEF HolderInv
  <2>5. WarmInv'
    <3>1. ASSUME NEW d \in Container, Remembered(d)  PROVE Remembered(d)'
      BY <2>1, <3>1 DEF Remembered
    <3> QED  BY <1>1, <2>1, <2>2, <3>1 DEF WarmInv
  <2>6. UNCHANGED <<Shutdown!Held, Shutdown!Creating, Shutdown!InProgress>>
    BY <2>1 DEF Shutdown!Held, Shutdown!Creating, Shutdown!InProgress
  <2>7. CapacityInv'
    BY <1>1, <2>1, <2>6, NoMorePlaces DEF CapacityInv
  <2>8. CloseInv'
    BY <1>1, <2>1, <2>6 DEF CloseInv
  <2> QED  BY <2>3, <2>4, <2>5, <2>7, <2>8 DEF PoolInv
<1> QED  BY <1>3, <1>4, <1>5, <1>6, <1>7, <1>8, <1>9, <1>10, <1>11, <1>12, <1>13, <1>14,
            <1>15, <1>16, <1>17, <1>18, <1>19, <1>20, <1>21, <1>22, <1>23, <1>24, <1>25
         DEF Shutdown!Next

LEMMA CreatingKept ==
  ASSUME Shutdown!Configured, PoolInv, CreatingInv, [Shutdown!Next]_(Shutdown!vars)
  PROVE  CreatingInv'
<1>1. /\ docker \in [Container -> {"none", "creating", "warm", "renaming", "leased", "gone"}]
      /\ pending \in [Key -> Container \cup {"none", "asked"}]
      /\ starts \in Nat \ {0}
      /\ "none" \notin Container /\ "asked" \notin Container
  BY Zenon DEF PoolInv, ShutdownTypeInv, Shutdown!Configured
<1> DEFINE Fewer == \A c \in Container : docker'[c] = "creating" => docker[c] = "creating"
<1>2. ASSUME NEW c \in Container, NEW succeeds \in BOOLEAN, Shutdown!Removed(c, succeeds)
      PROVE  Fewer
  BY <1>1, <1>2 DEF Shutdown!Removed
<1>3. CASE /\ Fewer /\ starts' = starts
           /\ \A k \in Key : pending[k] \in Container =>
                pending'[k] = pending[k] \/ docker'[pending[k]] # "creating"
  BY <1>3 DEF CreatingInv
<1>4. CASE \/ Shutdown!Start \/ Shutdown!Initialize
           \/ \E c \in Container : Shutdown!RemoveReturns(c) \/ Shutdown!CloseRemoves(c)
                                   \/ Shutdown!ContainerAppears(c) \/ Shutdown!LateRename(c)
           \/ \E r \in PoolRun : Shutdown!Lease(r)
  <2>1. starts' = starts /\ pending' = pending
    BY <1>4, Zenon DEF Shutdown!Start, Shutdown!Initialize, Shutdown!RemoveReturns,
         Shutdown!CloseRemoves, Shutdown!ContainerAppears, Shutdown!LateRename, Shutdown!Lease
  <2>2. Fewer
    <3>1. CASE Shutdown!Start
      BY <1>1, <3>1 DEF Shutdown!Start
    <3>2. CASE Shutdown!Initialize
      BY <1>1, <3>2 DEF Shutdown!Initialize
    <3>3. ASSUME NEW c \in Container, Shutdown!RemoveReturns(c)  PROVE Fewer
      BY <1>2, <3>3, Zenon DEF Shutdown!RemoveReturns
    <3>4. ASSUME NEW c \in Container,
                 Shutdown!CloseRemoves(c) \/ Shutdown!ContainerAppears(c) \/ Shutdown!LateRename(c)
          PROVE  Fewer
      BY <1>1, <3>4 DEF Shutdown!CloseRemoves, Shutdown!ContainerAppears, Shutdown!LateRename
    <3>5. ASSUME NEW r \in PoolRun, Shutdown!Lease(r)  PROVE Fewer
      <4>1. run[r].at = "claimed" /\ run[r].box \in Container
        BY <3>5 DEF Shutdown!Lease, PoolInv, HolderInv, ShutdownTypeInv
      <4>2. CASE docker' = [docker EXCEPT ![run[r].box] = "leased"]
        BY <1>1, <4>1, <4>2
      <4>3. CASE \E succeeds \in BOOLEAN : Shutdown!Removed(run[r].box, succeeds)
        BY <1>2, <4>1, <4>3
      <4> QED  BY <3>5, <4>2, <4>3 DEF Shutdown!Lease
    <3> QED  BY <1>4, <3>1, <3>2, <3>3, <3>4, <3>5
  <2> QED  BY <1>3, <2>1, <2>2
<1>5. CASE \/ Shutdown!Tick \/ Shutdown!DrainEnds \/ Shutdown!Stop \/ Shutdown!StopReturns
           \/ Shutdown!ClosePool \/ Shutdown!CloseReturns \/ UNCHANGED Shutdown!vars
           \/ \E r \in PoolRun : Shutdown!Submit(r) \/ Shutdown!Claim(r) \/ Shutdown!Take(r)
                                 \/ Shutdown!ColdStart(r)
           \/ \E k \in Key : Shutdown!TtlExpires(k)
  <2>1. starts' = starts /\ pending' = pending /\ docker' = docker
    BY <1>5, Zenon DEF Shutdown!Tick, Shutdown!DrainEnds, Shutdown!Stop, Shutdown!StopReturns,
         Shutdown!ClosePool, Shutdown!CloseReturns, Shutdown!vars, Shutdown!Submit,
         Shutdown!Claim, Shutdown!Take, Shutdown!ColdStart, Shutdown!TtlExpires
  <2> QED  BY <1>3, <2>1
<1>6. ASSUME NEW r \in PoolRun, Shutdown!Terminate(r)  PROVE CreatingInv'
  <2>1. starts' = starts /\ KeyOf[r] \in Key
    BY <1>6 DEF Shutdown!Terminate, Shutdown!Configured
  <2>2. Fewer
    <3>1. CASE docker' = docker
      BY <3>1
    <3>2. CASE run[r].box # Null
      <4>1. run[r].box \in Container
        BY <3>2 DEF PoolInv, ShutdownTypeInv
      <4>2. \E succeeds \in BOOLEAN : Shutdown!Removed(run[r].box, succeeds)
        BY <1>6, <3>2 DEF Shutdown!Terminate
      <4> QED  BY <1>2, <4>1, <4>2
    <3> QED  BY <1>6, <3>1, <3>2 DEF Shutdown!Terminate
  <2>3. \A k \in Key : pending[k] \in Container => pending'[k] = pending[k]
    <3>1. CASE pending' = pending
      BY <3>1
    <3>2. CASE Shutdown!MayWarm(KeyOf[r]) /\ pending' = [pending EXCEPT ![KeyOf[r]] = "asked"]
      BY <1>1, <2>1, <3>2 DEF Shutdown!MayWarm
    <3> QED  BY <1>6, <3>1, <3>2 DEF Shutdown!Terminate
  <2> QED  BY <1>3, <2>1, <2>2, <2>3
<1>7. ASSUME NEW k \in Key, Shutdown!CreateRuns(k)  PROVE CreatingInv'
  <2>1. starts' = starts /\ pending[k] = "asked"
    BY <1>7 DEF Shutdown!CreateRuns
  <2>2. CASE docker' = docker /\ pending' = [pending EXCEPT ![k] = "none"]
    BY <1>1, <1>3, <2>1, <2>2
  <2>3. CASE \E c \in Container : docker' = [docker EXCEPT ![c] = "creating"]
                                  /\ pending' = [pending EXCEPT ![k] = c]
    <3>1. PICK c \in Container : docker' = [docker EXCEPT ![c] = "creating"]
                                 /\ pending' = [pending EXCEPT ![k] = c]
      BY <2>3
    <3>2. /\ pending'[k] = c /\ \A l \in Key \ {k} : pending'[l] = pending[l]
          /\ \A d \in Container \ {c} : docker'[d] = docker[d]
      BY <1>1, <3>1
    <3> QED  BY <1>1, <2>1, <3>2 DEF CreatingInv
  <2>4. (\E c \in Container : docker[c] = "none") => (CHOOSE n \in Container : docker[n] = "none") \in Container
    OBVIOUS
  <2> QED  BY <1>7, <2>2, <2>3, <2>4 DEF Shutdown!CreateRuns
<1>8. ASSUME NEW k \in Key, Shutdown!CreateReturns(k)  PROVE CreatingInv'
  <2>1. PICK c \in Container : c = pending[k] /\ docker[c] # "creating"
    BY <1>8 DEF Shutdown!CreateReturns
  <2>2. Fewer
    <3>1. CASE docker' = docker
      BY <3>1
    <3>2. CASE \E succeeds \in BOOLEAN : Shutdown!Removed(c, succeeds)
      BY <1>2, <3>2
    <3> QED  BY <1>8, <2>1, <3>1, <3>2 DEF Shutdown!CreateReturns
  <2>3. starts' = starts /\ \A l \in Key \ {k} : pending'[l] = pending[l]
    BY <1>1, <1>8 DEF Shutdown!CreateReturns
  <2> QED  BY <1>3, <2>1, <2>2, <2>3
<1>9. CASE Shutdown!Restart
  <2>1. starts' = starts + 1
    BY <1>9, Zenon DEF Shutdown!Restart
  <2> QED  BY <1>1, <2>1 DEF CreatingInv
<1> QED  BY <1>4, <1>5, <1>6, <1>7, <1>8, <1>9, Zenon DEF Shutdown!Next

LEMMA ShutdownNext ==
  ASSUME Shutdown!Configured, ShutdownIInv, [Shutdown!Next]_(Shutdown!vars)
  PROVE  ShutdownIInv'
BY PoolKept, CreatingKept, Zenon DEF ShutdownIInv

\* PoolIsDrained: a warm container has one holder that answers for it, unless
\* docker did not remove it (unremoved) or made it for a process that died, after
\* the next one had looked (late); the pool stays within its capacity, and the
\* process closes it when nobody uses it any more.
THEOREM ThePoolIsDrained == Shutdown!Configured => (Shutdown!Spec => []PoolIsDrained)
<1> SUFFICES ASSUME Shutdown!Configured  PROVE Shutdown!Spec => []PoolIsDrained
  OBVIOUS
<1>1. ShutdownIInv => Shutdown!PoolIsDrained
  <2> SUFFICES ASSUME ShutdownIInv  PROVE Shutdown!PoolIsDrained
    OBVIOUS
  <2> DEFINE Claimed == Shutdown!Claimed
             Made    == Shutdown!Made
             Kept    == {entries[k] : k \in Shutdown!Held}
  <2>1. ShutdownTypeInv /\ HolderInv /\ WarmInv /\ CapacityInv /\ CloseInv
    BY DEF ShutdownIInv, PoolInv
  <2>2. Null \notin Container /\ "none" \notin Container
    BY DEF Shutdown!Configured
  <2>3. ASSUME NEW c \in Shutdown!Warm
        PROVE  \/ c \in Claimed \cup Kept \cup Made \cup pool.leaving \cup removing
                        \cup unremoved \cup late
               \/ starts > 1 /\ pool.initialized = "no"
    <3>1. CASE Remembered(c)
      <4>1. CASE \E r \in PoolRun : run[r].at = "claimed" /\ run[r].box = c
        <5>1. c \in Claimed
          BY <4>1 DEF Shutdown!Claimed
        <5> QED  BY <5>1
      <4>2. CASE \E k \in Key : entries[k] = c
        <5>1. c \in Kept
          BY <2>2, <4>2 DEF Shutdown!Held, Shutdown!Warm
        <5> QED  BY <5>1
      <4>3. CASE \E k \in Key : pending[k] = c
        <5>1. c \in Made
          BY <4>3 DEF Shutdown!Made, Shutdown!Warm
        <5> QED  BY <5>1
      <4>4. CASE c \in pool.leaving \cup removing \cup unremoved \cup late
        BY <4>4
      <4> QED  BY <3>1, <4>1, <4>2, <4>3, <4>4 DEF Remembered
    <3>2. CASE starts > 1 /\ pool.initialized = "no"
      BY <3>2
    <3> QED  BY <2>1, <2>3, <3>1, <3>2 DEF WarmInv, Shutdown!Warm
  <2>4. Claimed \cap Kept = {} /\ Made \cap Kept = {} /\ removing \cap Kept = {}
    BY <2>1 DEF HolderInv, Shutdown!Held, Shutdown!Claimed, Shutdown!Made
  <2>5. \A r, q \in PoolRun : r # q /\ run[r].box # Null => run[r].box # run[q].box
    BY <2>1 DEF HolderInv
  <2>6. Shutdown!Cardinality(Shutdown!Held) + Shutdown!Cardinality(Shutdown!Creating) =< Capacity
    BY <2>1, SameCardinality DEF CapacityInv
  <2>7. phase \in {"closing pool", "removing", "closed"} => ~inFlight /\ Shutdown!InProgress = {}
    BY <2>1 DEF CloseInv
  <2>8. phase = "closed" => Shutdown!Held = {} /\ Shutdown!Creating = {}
    BY <2>1 DEF CloseInv
  <2> HIDE DEF Claimed, Kept, Made
  <2>9. /\ \A c \in Shutdown!Warm :
             \/ c \in Claimed \cup Kept \cup Made \cup pool.leaving \cup removing
                      \cup unremoved \cup late
             \/ starts > 1 /\ pool.initialized = "no"
        /\ Claimed \cap Kept = {} /\ Made \cap Kept = {} /\ removing \cap Kept = {}
        /\ \A r, q \in PoolRun : r # q /\ run[r].box # Null => run[r].box # run[q].box
        /\ Shutdown!Cardinality(Shutdown!Held) + Shutdown!Cardinality(Shutdown!Creating) =< Capacity
        /\ phase \in {"closing pool", "removing", "closed"} => ~inFlight /\ Shutdown!InProgress = {}
        /\ phase = "closed" => Shutdown!Held = {} /\ Shutdown!Creating = {}
    BY <2>3, <2>4, <2>5, <2>6, <2>7, <2>8
  <2> QED  BY <2>9 DEF Shutdown!PoolIsDrained, Claimed, Kept, Made
<1>2. Shutdown!Init => ShutdownIInv
  BY ShutdownInit
<1>3. ShutdownIInv /\ [Shutdown!Next]_Shutdown!vars => ShutdownIInv'
  BY ShutdownNext
<1>4. Shutdown!PoolIsDrained => PoolIsDrained
  BY DEF PoolIsDrained
<1> QED  BY <1>1, <1>2, <1>3, <1>4, PTL DEF Shutdown!Spec

-----------------------------------------------------------------------------
(* LlmGateway *)
\* A failure is counted for a backend and charged to the request that had it.
\* The invariant says for which backends a request at some point may have been
\* charged and how often, so that the two counts agree: a request charges the
\* one it is at only when it ends there, or when its line is cut.

GatewayCallState ==
  [pc : Gateway!Point, tried : Seq(Gateway!Backend), rest : Seq(Gateway!Backend),
   content : {"none", "stream", "json"},
   finished : BOOLEAN, broke : BOOLEAN, cut : BOOLEAN]

GatewayTypeInv ==
  /\ failures \in [Gateway!Backend -> Nat]
  /\ circuit \in [Gateway!Backend -> {"closed", "cooling", "cooled"}]
  /\ active \in [Gateway!Backend -> Int]
  /\ call \in [GatewayCall -> GatewayCallState]
  /\ decisions \in [GatewayCall -> Seq({"SUCCESS", "FAILED"})]
  /\ charges \in [Gateway!Backend -> [GatewayCall -> Nat]]

Distinct(s) == \A i, j \in DOMAIN s : s[i] = s[j] => i = j

\* Only a stream can be seen to finish, and one that was not broke.
Relayed(x) ==
  /\ x.content = "json" => ~prefixCache /\ ~x.finished
  /\ x.content # "none" /\ x.tried # <<>>

\* What a request knows at each point.
PathOK(x) ==
  /\ Distinct(x.tried) /\ Distinct(x.rest)
  /\ \A i \in DOMAIN x.tried, j \in DOMAIN x.rest : x.tried[i] # x.rest[j]
  /\ x.pc = "new" => x = Gateway!NewCall
  /\ x.pc \in {"headers", "body", "relay"} => x.tried # <<>> /\ ~x.broke /\ ~x.cut
  /\ x.pc = "headers" => x.content = "none" /\ ~x.finished
  /\ x.pc = "body" => x.content = "json" /\ prefixCache
  /\ x.pc \in {"relay", "tail"} => Relayed(x)
  /\ x.pc = "tail" => x.cut /\ (x.content = "stream" /\ ~x.finished => x.broke)

\* What b may have been charged with for a request.
ChargeOK(x, b, n) ==
  /\ n > 0 => \/ b \in Gateway!ToSet(x.tried) /\ b # Gateway!Last(x.tried)
              \/ /\ x.tried # <<>> /\ b = Gateway!Last(x.tried)
                 /\ x.broke \/ (x.content = "json" /\ ~prefixCache)
  /\ n =< IF x.cut THEN 2 ELSE 1
  /\ x.pc = "relay" /\ b = Gateway!Last(x.tried) => n = 0
  /\ x.pc = "tail" => n =< 1

Charged(b, n) == {c \in GatewayCall : charges[b][c] > n}
Load(b) == {c \in GatewayCall : call[c].pc = "headers" /\ Gateway!At(c) = b}

Decided(x) ==
  /\ x.pc \in {"relay", "tail", "over"}
  /\ ~(prefixCache /\ x.content = "json" /\ x.broke)

FailuresOK(b) ==
  /\ failures[b] = Cardinality(Charged(b, 0)) + Cardinality(Charged(b, 1))
  /\ circuit[b] # "closed" => Threshold =< failures[b]

GatewayIInv ==
  /\ GatewayTypeInv
  /\ \A c \in GatewayCall :
       /\ PathOK(call[c])
       /\ \A b \in Gateway!Backend : ChargeOK(call[c], b, charges[b][c])
       /\ Len(decisions[c]) = IF Decided(call[c]) THEN 1 ELSE 0
  /\ \A b \in Gateway!Backend : FailuresOK(b) /\ active[b] = Cardinality(Load(b))

LEMMA GatewaySets ==
  /\ \A X : Gateway!Cardinality(X) = Cardinality(X)
  /\ \A X : Gateway!IsFiniteSet(X) <=> IsFiniteSet(X)
BY DEF Gateway!Cardinality, Cardinality, Gateway!IsFiniteSet, IsFiniteSet

LEMMA LastOfSeq ==
  ASSUME NEW B, NEW s \in Seq(B), s # <<>>
  PROVE  /\ Len(s) \in Nat \ {0} /\ DOMAIN s = 1..Len(s)
         /\ Gateway!Last(s) = s[Len(s)] /\ Gateway!Last(s) \in B
         /\ Gateway!ToSet(s) = {s[i] : i \in 1..Len(s)}
<1>1. Len(s) \in Nat \ {0} /\ DOMAIN s = 1..Len(s)
  BY EmptySeq, LenProperties
<1>2. Len(s) \in DOMAIN s
  BY <1>1
<1>3. s[Len(s)] \in B
  BY <1>2, ElementOfSeq
<1> QED  BY <1>1, <1>3 DEF Gateway!Last, Gateway!ToSet

\* The subsets of the requests that the counts are about.
LEMMA GatewayCounts ==
  ASSUME Gateway!Configured, NEW X \in SUBSET GatewayCall, NEW c \in GatewayCall
  PROVE  /\ IsFiniteSet(X) /\ Cardinality(X) \in Nat
         /\ Cardinality(X \cup {c}) = IF c \in X THEN Cardinality(X) ELSE Cardinality(X) + 1
         /\ Cardinality(X \ {c}) = IF c \in X THEN Cardinality(X) - 1 ELSE Cardinality(X)
<1>1. IsFiniteSet(GatewayCall)
  BY GatewaySets DEF Gateway!Configured
<1>2. IsFiniteSet(X) /\ Cardinality(X) \in Nat
  BY <1>1, FS_Subset, FS_CardinalityType
<1> QED  BY <1>2, FS_AddElement, FS_RemoveElement

\* The list of a request names every usable backend at most once.
LEMMA CandidatesDiffer ==
  ASSUME Gateway!Configured, Gateway!Usable # {}, NEW list \in Gateway!CandidatesFor,
         active \in [Gateway!Backend -> Int], cursor \in Int
  PROVE  list \in Seq(Gateway!Backend) /\ list # <<>> /\ Distinct(list)
<1> DEFINE U == Gateway!Usable
           n == Cardinality(U)
<1>1. U \subseteq Gateway!Backend
  BY DEF Gateway!Usable, Gateway!CircuitOk
<1>2. \A X \in SUBSET Gateway!Backend : IsFiniteSet(X) /\ Cardinality(X) \in Nat
  <2>1. IsFiniteSet(Gateway!Backend)
    BY FS_Interval DEF Gateway!Configured, Gateway!Backend
  <2> QED  BY <2>1, FS_Subset, FS_CardinalityType
<1>3. n \in Nat \ {0}
  BY <1>1, <1>2, FS_EmptySet
<1>4. list \in [1..n -> U] /\ \A i, j \in 1..n : i < j => Gateway!Before(list[i], list[j])
  BY GatewaySets DEF Gateway!CandidatesFor
<1>5. ASSUME NEW a \in U, Gateway!Before(a, a)
      PROVE  FALSE
  <2>1. Gateway!Turn(a) \in Int
    <3> DEFINE k == Gateway!Cardinality({b \in U : b < a})
    <3>1. k \in Nat
      <4>1. {b \in U : b < a} \in SUBSET Gateway!Backend
        BY <1>1
      <4> QED  BY <4>1, <1>2, GatewaySets
    <3>2. Gateway!Turn(a) = (k - cursor) % n
      BY GatewaySets DEF Gateway!Turn
    <3> HIDE DEF k, n
    <3> QED  BY <1>3, <3>1, <3>2
  <2>2. a \in Int /\ active[a] \in Int
    BY <1>1 DEF Gateway!Backend, Gateway!Configured
  <2> QED  BY <1>5, <2>1, <2>2 DEF Gateway!Before
<1> HIDE DEF n, U
<1>6. Distinct(list)
  <2> SUFFICES ASSUME NEW i \in 1..n, NEW j \in 1..n, list[i] = list[j], i # j
               PROVE  FALSE
    BY <1>4 DEF Distinct
  <2>1. list[i] \in U
    BY <1>4
  <2>2. i < j \/ j < i
    BY <1>3
  <2> QED  BY <1>4, <1>5, <2>1, <2>2
<1>7. list \in Seq(Gateway!Backend) /\ list # <<>>
  <2>1. list \in [1..n -> Gateway!Backend] /\ n \in Nat
    BY <1>1, <1>3, <1>4
  <2>2. list \in Seq(Gateway!Backend)
    BY <2>1, SeqDef
  <2>3. 1 \in DOMAIN list
    BY <1>3, <2>1
  <2> QED  BY <2>2, <2>3, EmptySeq
<1> QED  BY <1>6, <1>7

\* A request is sent to the next backend of its list.
LEMMA SendNext ==
  ASSUME NEW x \in GatewayCallState, x.rest # <<>>, Distinct(x.tried), Distinct(x.rest),
         \A i \in DOMAIN x.tried, j \in DOMAIN x.rest : x.tried[i] # x.rest[j],
         NEW y, y = Gateway!Send(x)
  PROVE  /\ y \in GatewayCallState /\ y.pc = "headers"
         /\ y.content = x.content /\ y.finished = x.finished /\ y.broke = x.broke /\ y.cut = x.cut
         /\ Distinct(y.tried) /\ Distinct(y.rest) /\ y.tried # <<>>
         /\ \A i \in DOMAIN y.tried, j \in DOMAIN y.rest : y.tried[i] # y.rest[j]
         /\ Head(x.rest) \in Gateway!Backend /\ Gateway!Last(y.tried) = Head(x.rest)
         /\ Gateway!ToSet(y.tried) = Gateway!ToSet(x.tried) \cup {Head(x.rest)}
         /\ Head(x.rest) \notin Gateway!ToSet(x.tried)
<1> DEFINE B == Gateway!Backend
<1>1. x.tried \in Seq(B) /\ x.rest \in Seq(B)
  BY DEF GatewayCallState
<1>2. PICK h : h = Head(x.rest)
  OBVIOUS
<1>3. PICK t : t = Append(x.tried, h)
  OBVIOUS
<1>4. PICK r : r = Tail(x.rest)
  OBVIOUS
<1>5. h \in B /\ h = x.rest[1] /\ 1 \in DOMAIN x.rest
  BY <1>1, <1>2, HeadTailProperties, EmptySeq, LenProperties
<1>6. /\ r \in Seq(B) /\ Len(r) = Len(x.rest) - 1 /\ Len(x.rest) \in Nat /\ Len(x.rest) > 0
      /\ DOMAIN r = 1..Len(r) /\ DOMAIN x.rest = 1..Len(x.rest)
      /\ \A j \in 1..Len(r) : r[j] = x.rest[j + 1]
  BY <1>1, <1>4, HeadTailProperties, EmptySeq, LenProperties
<1>7. /\ t \in Seq(B) /\ Len(t) = Len(x.tried) + 1 /\ Len(x.tried) \in Nat
      /\ DOMAIN t = 1..Len(t) /\ DOMAIN x.tried = 1..Len(x.tried)
      /\ t[Len(t)] = h /\ \A i \in 1..Len(x.tried) : t[i] = x.tried[i]
  BY <1>1, <1>3, <1>5, AppendProperties, LenProperties
<1>8. /\ y \in GatewayCallState /\ y.pc = "headers" /\ y.tried = t /\ y.rest = r
      /\ y.content = x.content /\ y.finished = x.finished /\ y.broke = x.broke /\ y.cut = x.cut
  <2>1. y = [x EXCEPT !.pc = "headers", !.tried = t, !.rest = r]
    BY <1>2, <1>3, <1>4 DEF Gateway!Send
  <2>2. "headers" \in Gateway!Point
    BY DEF Gateway!Point
  <2> QED  BY <1>6, <1>7, <2>1, <2>2 DEF GatewayCallState
<1>9. \A i \in 1..Len(x.tried) : x.tried[i] # h
  BY <1>5, <1>7
<1>10. Distinct(t) /\ t # <<>>
  <2>1. Distinct(t)
    BY <1>7, <1>9 DEF Distinct
  <2> QED  BY <2>1, <1>7, EmptySeq
<1>11. Distinct(r)
  <2> SUFFICES ASSUME NEW i \in 1..Len(r), NEW j \in 1..Len(r), r[i] = r[j]
               PROVE  i = j
    BY <1>6 DEF Distinct
  <2>1. i + 1 \in DOMAIN x.rest /\ j + 1 \in DOMAIN x.rest /\ x.rest[i + 1] = x.rest[j + 1]
    BY <1>6
  <2>2. i + 1 = j + 1
    BY <2>1 DEF Distinct
  <2> QED  BY <2>2, <1>6
<1>12. ASSUME NEW i \in DOMAIN t, NEW j \in DOMAIN r
       PROVE  t[i] # r[j]
  <2>1. j + 1 \in DOMAIN x.rest /\ r[j] = x.rest[j + 1] /\ j + 1 # 1
    BY <1>6
  <2>2. CASE i = Len(t)
    BY <1>5, <1>7, <2>1, <2>2 DEF Distinct
  <2>3. CASE i # Len(t)
    BY <1>7, <2>1, <2>3
  <2> QED  BY <2>2, <2>3
<1>13. Gateway!ToSet(t) = Gateway!ToSet(x.tried) \cup {h} /\ h \notin Gateway!ToSet(x.tried)
  <2>1. Gateway!ToSet(t) = {t[i] : i \in 1..Len(t)}
    BY <1>7 DEF Gateway!ToSet
  <2>2. Gateway!ToSet(x.tried) = {x.tried[i] : i \in 1..Len(x.tried)}
    BY <1>7 DEF Gateway!ToSet
  <2> QED  BY <1>7, <1>9, <2>1, <2>2
<1>14. Gateway!Last(t) = h
  BY <1>7 DEF Gateway!Last
<1> QED  BY <1>2, <1>5, <1>8, <1>10, <1>11, <1>12, <1>13, <1>14

\* A verdict on a backend leaves the counts of failures right and charges no
\* other request.
JudgedOK(c) ==
  /\ failures' \in [Gateway!Backend -> Nat]
  /\ circuit' \in [Gateway!Backend -> {"closed", "cooling", "cooled"}]
  /\ charges' \in [Gateway!Backend -> [GatewayCall -> Nat]]
  /\ \A b \in Gateway!Backend : FailuresOK(b)'
  /\ \A b \in Gateway!Backend, d \in GatewayCall : d # c => charges'[b][d] =< charges[b][d]

LEMMA CircuitsChange ==
  ASSUME Gateway!Configured, GatewayIInv, NEW c \in GatewayCall,
         UNCHANGED <<failures, charges>>,
         circuit' \in [Gateway!Backend -> {"closed", "cooling", "cooled"}],
         \A b \in Gateway!Backend : circuit'[b] # "closed" => circuit[b] # "closed"
  PROVE  JudgedOK(c)
<1>1. \A b \in Gateway!Backend, n \in {0, 1} : Charged(b, n)' = Charged(b, n)
  BY DEF Charged
<1>2. ASSUME NEW b \in Gateway!Backend
      PROVE  FailuresOK(b)'
  BY <1>1 DEF GatewayIInv, FailuresOK
<1>3. ASSUME NEW b \in Gateway!Backend, NEW d \in GatewayCall
      PROVE  charges'[b][d] =< charges[b][d]
  BY DEF GatewayIInv, GatewayTypeInv
<1> QED  BY <1>2, <1>3 DEF JudgedOK, GatewayIInv, GatewayTypeInv

LEMMA NoVerdictJudges ==
  ASSUME Gateway!Configured, GatewayIInv, NEW c \in GatewayCall, Gateway!NoVerdict
  PROVE  JudgedOK(c)
BY CircuitsChange DEF Gateway!NoVerdict, GatewayIInv, GatewayTypeInv

LEMMA SuccessJudges ==
  ASSUME Gateway!Configured, GatewayIInv, NEW c \in GatewayCall, NEW b \in Gateway!Backend,
         Gateway!RecordSuccess(b)
  PROVE  /\ JudgedOK(c)
         /\ \A d \in Gateway!Backend : charges'[d][c] = IF d = b THEN 0 ELSE charges[d][c]
<1>1. /\ failures' = [failures EXCEPT ![b] = 0] /\ circuit' = [circuit EXCEPT ![b] = "closed"]
      /\ charges' = [charges EXCEPT ![b] = [d \in GatewayCall |-> 0]]
  BY DEF Gateway!RecordSuccess
<1>2. /\ failures \in [Gateway!Backend -> Nat]
      /\ circuit \in [Gateway!Backend -> {"closed", "cooling", "cooled"}]
      /\ charges \in [Gateway!Backend -> [GatewayCall -> Nat]]
  BY DEF GatewayIInv, GatewayTypeInv
<1>3. ASSUME NEW a \in Gateway!Backend
      PROVE  FailuresOK(a)'
  <2>1. CASE a = b
    <3>1. Charged(a, 0)' = {} /\ Charged(a, 1)' = {}
      BY <1>1, <1>2, <2>1 DEF Charged
    <3>2. failures'[a] = 0 /\ circuit'[a] = "closed"
      BY <1>1, <1>2, <2>1
    <3>3. Cardinality(Charged(a, 0))' = 0 /\ Cardinality(Charged(a, 1))' = 0
      BY <3>1, FS_EmptySet
    <3> QED  BY <3>2, <3>3 DEF FailuresOK
  <2>2. CASE a # b
    <3>1. Charged(a, 0)' = Charged(a, 0) /\ Charged(a, 1)' = Charged(a, 1)
      BY <1>1, <1>2, <2>2 DEF Charged
    <3>2. failures'[a] = failures[a] /\ circuit'[a] = circuit[a]
      BY <1>1, <1>2, <2>2
    <3> QED  BY <3>1, <3>2 DEF FailuresOK, GatewayIInv
  <2> QED  BY <2>1, <2>2
<1>4. ASSUME NEW a \in Gateway!Backend, NEW d \in GatewayCall
      PROVE  charges'[a][d] =< charges[a][d] /\ charges'[a][d] = IF a = b THEN 0 ELSE charges[a][d]
  BY <1>1, <1>2
<1>5. /\ failures' \in [Gateway!Backend -> Nat]
      /\ circuit' \in [Gateway!Backend -> {"closed", "cooling", "cooled"}]
      /\ charges' \in [Gateway!Backend -> [GatewayCall -> Nat]]
  BY <1>1, <1>2
<1> QED  BY <1>3, <1>4, <1>5 DEF JudgedOK

LEMMA FailureJudges ==
  ASSUME Gateway!Configured, GatewayIInv, NEW c \in GatewayCall, NEW b \in Gateway!Backend,
         Gateway!RecordFailure(b, c), charges[b][c] < 2
  PROVE  /\ JudgedOK(c)
         /\ \A d \in Gateway!Backend :
              charges'[d][c] = IF d = b THEN charges[d][c] + 1 ELSE charges[d][c]
<1>1. /\ failures' = [failures EXCEPT ![b] = failures[b] + 1]
      /\ circuit' = [circuit EXCEPT ![b] =
                       IF failures[b] + 1 >= Threshold THEN "cooling" ELSE circuit[b]]
      /\ charges' = [charges EXCEPT ![b][c] = charges[b][c] + 1]
  BY DEF Gateway!RecordFailure
<1>2. /\ failures \in [Gateway!Backend -> Nat]
      /\ circuit \in [Gateway!Backend -> {"closed", "cooling", "cooled"}]
      /\ charges \in [Gateway!Backend -> [GatewayCall -> Nat]]
  BY DEF GatewayIInv, GatewayTypeInv
<1>3. \A a \in Gateway!Backend, d \in GatewayCall :
        charges'[a][d] = IF a = b /\ d = c THEN charges[a][d] + 1 ELSE charges[a][d]
  BY <1>1, <1>2
<1>4. ASSUME NEW a \in Gateway!Backend
      PROVE  FailuresOK(a)'
  <2>0. failures[a] = Cardinality(Charged(a, 0)) + Cardinality(Charged(a, 1))
        /\ (circuit[a] # "closed" => Threshold =< failures[a])
    BY DEF GatewayIInv, FailuresOK
  <2>1. CASE a = b
    <3>1. failures'[a] = failures[a] + 1 /\ (circuit'[a] # "closed" => Threshold =< failures'[a])
      <4>1. failures'[a] = failures[a] + 1 /\ failures[a] \in Nat /\ Threshold \in Nat
        BY <1>1, <1>2, <2>1 DEF Gateway!Configured
      <4>2. circuit'[a] = IF failures[a] + 1 >= Threshold THEN "cooling" ELSE circuit[a]
        BY <1>1, <1>2, <2>1
      <4> QED  BY <2>0, <4>1, <4>2
    <3>2. CASE charges[b][c] = 0
      <4>1. Charged(a, 0)' = Charged(a, 0) \cup {c} /\ c \notin Charged(a, 0)
        BY <1>2, <1>3, <2>1, <3>2 DEF Charged
      <4>2. Charged(a, 1)' = Charged(a, 1)
        BY <1>2, <1>3, <2>1, <3>2 DEF Charged
      <4>3. Charged(a, 0) \in SUBSET GatewayCall /\ Charged(a, 1) \in SUBSET GatewayCall
        BY DEF Charged
      <4>4. Cardinality(Charged(a, 0) \cup {c}) = Cardinality(Charged(a, 0)) + 1
        BY <4>1, <4>3, GatewayCounts
      <4>5. Cardinality(Charged(a, 0)) \in Nat /\ Cardinality(Charged(a, 1)) \in Nat
        BY <4>3, GatewayCounts
      <4>6. /\ Cardinality(Charged(a, 0))' = Cardinality(Charged(a, 0)) + 1
            /\ Cardinality(Charged(a, 1))' = Cardinality(Charged(a, 1))
        BY <4>1, <4>2, <4>4
      <4>7. failures'[a] = Cardinality(Charged(a, 0))' + Cardinality(Charged(a, 1))'
        BY <2>0, <3>1, <4>5, <4>6
      <4> QED  BY <3>1, <4>7 DEF FailuresOK
    <3>3. CASE charges[b][c] = 1
      <4>1. Charged(a, 1)' = Charged(a, 1) \cup {c} /\ c \notin Charged(a, 1)
        BY <1>2, <1>3, <2>1, <3>3 DEF Charged
      <4>2. Charged(a, 0)' = Charged(a, 0)
        BY <1>2, <1>3, <2>1, <3>3 DEF Charged
      <4>3. Charged(a, 0) \in SUBSET GatewayCall /\ Charged(a, 1) \in SUBSET GatewayCall
        BY DEF Charged
      <4>4. Cardinality(Charged(a, 1) \cup {c}) = Cardinality(Charged(a, 1)) + 1
        BY <4>1, <4>3, GatewayCounts
      <4>5. Cardinality(Charged(a, 0)) \in Nat /\ Cardinality(Charged(a, 1)) \in Nat
        BY <4>3, GatewayCounts
      <4>6. /\ Cardinality(Charged(a, 1))' = Cardinality(Charged(a, 1)) + 1
            /\ Cardinality(Charged(a, 0))' = Cardinality(Charged(a, 0))
        BY <4>1, <4>2, <4>4
      <4>7. failures'[a] = Cardinality(Charged(a, 0))' + Cardinality(Charged(a, 1))'
        BY <2>0, <3>1, <4>5, <4>6
      <4> QED  BY <3>1, <4>7 DEF FailuresOK
    <3>4. charges[b][c] = 0 \/ charges[b][c] = 1
      <4>1. charges[b][c] \in Nat
        BY <1>2
      <4> QED  BY <4>1
    <3> QED  BY <3>2, <3>3, <3>4
  <2>2. CASE a # b
    <3>1. Charged(a, 0)' = Charged(a, 0) /\ Charged(a, 1)' = Charged(a, 1)
      BY <1>3, <2>2 DEF Charged
    <3>2. failures'[a] = failures[a] /\ circuit'[a] = circuit[a]
      BY <1>1, <1>2, <2>2
    <3> QED  BY <2>0, <3>1, <3>2 DEF FailuresOK
  <2> QED  BY <2>1, <2>2
<1>5. ASSUME NEW a \in Gateway!Backend, NEW d \in GatewayCall, d # c
      PROVE  charges'[a][d] =< charges[a][d]
  BY <1>2, <1>3, <1>5
<1>6. /\ failures' \in [Gateway!Backend -> Nat]
      /\ circuit' \in [Gateway!Backend -> {"closed", "cooling", "cooled"}]
      /\ charges' \in [Gateway!Backend -> [GatewayCall -> Nat]]
  <2>1. failures[b] + 1 \in Nat /\ charges[b][c] + 1 \in Nat
    BY <1>2
  <2> QED  BY <1>1, <1>2, <2>1
<1> QED  BY <1>3, <1>4, <1>5, <1>6 DEF JudgedOK

-----------------------------------------------------------------------------
\* The load of a backend follows the requests that wait for its answer.
LoadsOK ==
  /\ active' \in [Gateway!Backend -> Int]
  /\ \A b \in Gateway!Backend : active'[b] = Cardinality(Load(b))'

Waits(x, b) == x.pc = "headers" /\ Gateway!Last(x.tried) = b

LEMMA LoadMoves ==
  ASSUME GatewayIInv, NEW c \in GatewayCall, NEW y, call' = [call EXCEPT ![c] = y],
         NEW b
  PROVE  /\ c \in Load(b) <=> Waits(call[c], b)
         /\ Load(b)' = IF Waits(y, b) THEN Load(b) \cup {c} ELSE Load(b) \ {c}
<1>1. call \in [GatewayCall -> GatewayCallState]
  BY DEF GatewayIInv, GatewayTypeInv
<1>2. \A d \in GatewayCall : call'[d] = IF d = c THEN y ELSE call[d]
  BY <1>1
<1>3. Load(b)' = {d \in GatewayCall : Waits(call'[d], b)}
  BY DEF Load, Waits, Gateway!At
<1>4. Load(b) = {d \in GatewayCall : Waits(call[d], b)}
  BY DEF Load, Waits, Gateway!At
<1> QED  BY <1>2, <1>3, <1>4

LEMMA LoadsFollow ==
  ASSUME Gateway!Configured, GatewayIInv, NEW c \in GatewayCall,
         NEW y, call' = [call EXCEPT ![c] = y],
         active' \in [Gateway!Backend -> Int],
         \A b \in Gateway!Backend :
           active'[b] = active[b] + (IF Waits(y, b) /\ ~Waits(call[c], b) THEN 1 ELSE
                                     IF Waits(call[c], b) /\ ~Waits(y, b) THEN -1 ELSE 0)
  PROVE  LoadsOK
<1> SUFFICES ASSUME NEW b \in Gateway!Backend
             PROVE  active'[b] = Cardinality(Load(b))'
  BY DEF LoadsOK
<1>1. active[b] = Cardinality(Load(b)) /\ active[b] \in Int
  BY DEF GatewayIInv, GatewayTypeInv
<1>2. Load(b) \in SUBSET GatewayCall
  BY DEF Load
<1>3. PICK X \in SUBSET GatewayCall : X = Load(b)
  BY <1>2
<1>4. /\ Cardinality(X \cup {c}) = IF c \in X THEN Cardinality(X) ELSE Cardinality(X) + 1
      /\ Cardinality(X \ {c}) = IF c \in X THEN Cardinality(X) - 1 ELSE Cardinality(X)
  BY GatewayCounts
<1>5. /\ c \in X <=> Waits(call[c], b)
      /\ Load(b)' = IF Waits(y, b) THEN X \cup {c} ELSE X \ {c}
  BY <1>3, LoadMoves
<1> QED  BY <1>1, <1>3, <1>4, <1>5

LEMMA LoadsKept ==
  ASSUME Gateway!Configured, GatewayIInv, NEW c \in GatewayCall,
         NEW y, call' = [call EXCEPT ![c] = y],
         call[c].pc # "headers", y.pc # "headers", active' = active
  PROVE  LoadsOK
<1>1. \A b \in Gateway!Backend : active[b] \in Int
  BY DEF GatewayIInv, GatewayTypeInv
<1>2. active' \in [Gateway!Backend -> Int]
  BY DEF GatewayIInv, GatewayTypeInv
<1>3. \A b : ~Waits(call[c], b) /\ ~Waits(y, b)
  BY DEF Waits
<1>4. ASSUME NEW b \in Gateway!Backend
      PROVE  active'[b] = active[b] + (IF Waits(y, b) /\ ~Waits(call[c], b) THEN 1 ELSE
                                       IF Waits(call[c], b) /\ ~Waits(y, b) THEN -1 ELSE 0)
  BY <1>1, <1>3
<1> QED  BY <1>2, <1>4, LoadsFollow

\* The backend a request waits for has a load.
LEMMA LoadReleased ==
  ASSUME Gateway!Configured, GatewayIInv, NEW c \in GatewayCall, call[c].pc = "headers"
  PROVE  /\ Gateway!At(c) \in Gateway!Backend /\ Gateway!At(c) = Gateway!Last(call[c].tried)
         /\ Gateway!Released(Gateway!At(c)) =
              [active EXCEPT ![Gateway!At(c)] = active[Gateway!At(c)] - 1]
<1>1. call[c] \in GatewayCallState /\ PathOK(call[c])
  BY DEF GatewayIInv, GatewayTypeInv
<1>2. call[c].tried \in Seq(Gateway!Backend) /\ call[c].tried # <<>>
  BY <1>1 DEF GatewayCallState, PathOK
<1>3. Gateway!At(c) = Gateway!Last(call[c].tried) /\ Gateway!At(c) \in Gateway!Backend
  BY <1>2, LastOfSeq DEF Gateway!At
<1>4. PICK b \in Gateway!Backend : b = Gateway!At(c)
  BY <1>3
<1>5. active[b] > 0
  <2>1. c \in Load(b) /\ Load(b) \in SUBSET GatewayCall
    BY <1>4 DEF Load
  <2>2. Cardinality(Load(b)) \in Nat /\ Cardinality(Load(b) \ {c}) = Cardinality(Load(b)) - 1
    BY <2>1, GatewayCounts
  <2>3. Cardinality(Load(b) \ {c}) \in Nat
    <3>1. Load(b) \ {c} \in SUBSET GatewayCall
      BY <2>1
    <3> QED  BY <3>1, GatewayCounts
  <2>4. active[b] = Cardinality(Load(b))
    BY DEF GatewayIInv
  <2> QED  BY <2>2, <2>3, <2>4
<1> QED  BY <1>3, <1>4, <1>5 DEF Gateway!Released

-----------------------------------------------------------------------------
\* A step of one request keeps what is known of the others.
LEMMA ChargesFall ==
  ASSUME NEW x, NEW b, NEW n \in Nat, NEW m \in Nat, m =< n, ChargeOK(x, b, n)
  PROVE  ChargeOK(x, b, m)
<1>1. m > 0 => n > 0
  OBVIOUS
<1>2. \A k \in Nat : n =< k => m =< k
  OBVIOUS
<1>3. n = 0 => m = 0
  OBVIOUS
<1> QED  BY <1>1, <1>2, <1>3 DEF ChargeOK

LEMMA GatewayKeeps ==
  ASSUME Gateway!Configured, GatewayIInv, NEW c \in GatewayCall,
         NEW y \in GatewayCallState, call' = [call EXCEPT ![c] = y], prefixCache' = prefixCache,
         PathOK(y), JudgedOK(c), LoadsOK,
         \A b \in Gateway!Backend : ChargeOK(y, b, charges'[b][c]),
         NEW k \in Seq({"SUCCESS", "FAILED"}), decisions' = [decisions EXCEPT ![c] = k],
         Len(k) = IF Decided(y) THEN 1 ELSE 0
  PROVE  GatewayIInv'
<1>1. /\ call \in [GatewayCall -> GatewayCallState]
      /\ decisions \in [GatewayCall -> Seq({"SUCCESS", "FAILED"})]
      /\ charges \in [Gateway!Backend -> [GatewayCall -> Nat]]
  BY DEF GatewayIInv, GatewayTypeInv
<1>2. GatewayTypeInv'
  <2>1. /\ call' \in [GatewayCall -> GatewayCallState]
        /\ decisions' \in [GatewayCall -> Seq({"SUCCESS", "FAILED"})]
    BY <1>1
  <2> QED  BY <2>1 DEF GatewayTypeInv, JudgedOK, LoadsOK
<1>3. ASSUME NEW d \in GatewayCall
      PROVE  /\ PathOK(call[d])'
             /\ \A b \in Gateway!Backend : ChargeOK(call[d], b, charges[b][d])'
             /\ Len(decisions[d])' = IF Decided(call[d])' THEN 1 ELSE 0
  <2>1. CASE d = c
    <3>1. call'[d] = y /\ decisions'[d] = k
      BY <1>1, <2>1
    <3>2. PathOK(call[d])' /\ (Decided(call[d])' <=> Decided(y))
      BY <3>1 DEF PathOK, Relayed, Decided
    <3>3. ASSUME NEW b \in Gateway!Backend
          PROVE  ChargeOK(call[d], b, charges[b][d])'
      <4>1. ChargeOK(y, b, charges'[b][c])
        OBVIOUS
      <4> QED  BY <2>1, <3>1, <4>1 DEF ChargeOK
    <3> QED  BY <3>1, <3>2, <3>3
  <2>2. CASE d # c
    <3>1. call'[d] = call[d] /\ decisions'[d] = decisions[d]
      BY <1>1, <2>2
    <3>2. /\ PathOK(call[d]) /\ Len(decisions[d]) = IF Decided(call[d]) THEN 1 ELSE 0
          /\ \A b \in Gateway!Backend : ChargeOK(call[d], b, charges[b][d])
      BY DEF GatewayIInv
    <3>3. PathOK(call[d])' /\ (Decided(call[d])' <=> Decided(call[d]))
      BY <3>1, <3>2 DEF PathOK, Relayed, Decided
    <3>4. ASSUME NEW b \in Gateway!Backend
          PROVE  ChargeOK(call[d], b, charges[b][d])'
      <4>1. charges'[b][d] =< charges[b][d] /\ charges'[b][d] \in Nat /\ charges[b][d] \in Nat
        BY <1>1, <2>2 DEF JudgedOK
      <4>2. PICK x, n : x = call[d] /\ n = charges'[b][d]
        OBVIOUS
      <4>3. ChargeOK(x, b, n)
        BY <3>2, <4>1, <4>2, ChargesFall
      <4> QED  BY <3>1, <4>2, <4>3 DEF ChargeOK
    <3> QED  BY <3>1, <3>2, <3>3, <3>4
  <2> QED  BY <2>1, <2>2
<1>4. \A b \in Gateway!Backend : FailuresOK(b)' /\ active'[b] = Cardinality(Load(b))'
  BY DEF JudgedOK, LoadsOK
<1> QED  BY <1>2, <1>3, <1>4 DEF GatewayIInv

\* What is known of a request.
LEMMA CallFacts ==
  ASSUME GatewayIInv, NEW c \in GatewayCall
  PROVE  /\ call[c] \in GatewayCallState /\ PathOK(call[c])
         /\ \A b \in Gateway!Backend : charges[b][c] \in Nat /\ ChargeOK(call[c], b, charges[b][c])
         /\ decisions \in [GatewayCall -> Seq({"SUCCESS", "FAILED"})]
         /\ Len(decisions[c]) = IF Decided(call[c]) THEN 1 ELSE 0
BY DEF GatewayIInv, GatewayTypeInv

\* A request's decision is its first.
LEMMA DecidedOnce ==
  ASSUME GatewayIInv, NEW c \in GatewayCall, ~Decided(call[c]),
         NEW verdict \in {"SUCCESS", "FAILED"}, Gateway!Decide(c, verdict)
  PROVE  \E k \in Seq({"SUCCESS", "FAILED"}) :
           decisions' = [decisions EXCEPT ![c] = k] /\ Len(k) = 1
<1>1. decisions[c] \in Seq({"SUCCESS", "FAILED"}) /\ Len(decisions[c]) = 0
  BY CallFacts
<1>2. PICK k : k = Append(decisions[c], verdict)
  OBVIOUS
<1>3. k \in Seq({"SUCCESS", "FAILED"}) /\ Len(k) = 1
  BY <1>1, <1>2, AppendProperties
<1> QED  BY <1>2, <1>3 DEF Gateway!Decide

LEMMA SameDecisions ==
  ASSUME GatewayIInv, NEW c \in GatewayCall, UNCHANGED decisions
  PROVE  \E k \in Seq({"SUCCESS", "FAILED"}) :
           /\ decisions' = [decisions EXCEPT ![c] = k]
           /\ Len(k) = IF Decided(call[c]) THEN 1 ELSE 0
<1>1. /\ decisions \in [GatewayCall -> Seq({"SUCCESS", "FAILED"})]
      /\ Len(decisions[c]) = IF Decided(call[c]) THEN 1 ELSE 0
  BY CallFacts
<1>2. decisions' = [decisions EXCEPT ![c] = decisions[c]]
  BY <1>1
<1> QED  BY <1>1, <1>2

LEMMA RouteKeeps ==
  ASSUME Gateway!Configured, GatewayIInv, NEW c \in GatewayCall, cursor \in Int, Gateway!Route(c)
  PROVE  GatewayIInv'
<1>0. active \in [Gateway!Backend -> Int] /\ call[c].pc = "new" /\ Gateway!Usable # {}
  BY DEF GatewayIInv, GatewayTypeInv, Gateway!Route
<1>1. PICK list \in Gateway!CandidatesFor :
        /\ call' = [call EXCEPT ![c] = Gateway!Send([call[c] EXCEPT !.rest = list])]
        /\ active' = Gateway!Acquired(Head(list))
  BY DEF Gateway!Route
<1>2. /\ circuit' = Gateway!HalfOpen
      /\ UNCHANGED <<strategy, prefixCache, failures, healthy, decisions, charges>>
  BY DEF Gateway!Route
<1>3. list \in Seq(Gateway!Backend) /\ list # <<>> /\ Distinct(list)
  BY <1>0, CandidatesDiffer
<1>4. call[c] = Gateway!NewCall
  BY <1>0, CallFacts DEF PathOK
<1>5. PICK x : x = [Gateway!NewCall EXCEPT !.rest = list]
  OBVIOUS
<1>6. /\ x \in GatewayCallState /\ x.rest = list /\ x.tried = <<>> /\ x.pc = "new"
      /\ x.content = "none" /\ ~x.finished /\ ~x.broke /\ ~x.cut
  <2>1. <<>> \in Seq(Gateway!Backend)
    BY EmptySeq
  <2> QED  BY <1>3, <1>5, <2>1 DEF Gateway!NewCall, GatewayCallState, Gateway!Point
<1>7. DOMAIN x.tried = {} /\ Distinct(x.tried)
  BY <1>6 DEF Distinct
<1>8. PICK y : y = Gateway!Send(x)
  OBVIOUS
<1>9. /\ y \in GatewayCallState /\ y.pc = "headers"
      /\ y.content = "none" /\ ~y.finished /\ ~y.broke /\ ~y.cut
      /\ Distinct(y.tried) /\ Distinct(y.rest) /\ y.tried # <<>>
      /\ \A i \in DOMAIN y.tried, j \in DOMAIN y.rest : y.tried[i] # y.rest[j]
      /\ Head(list) \in Gateway!Backend /\ Gateway!Last(y.tried) = Head(list)
  BY <1>3, <1>6, <1>7, <1>8, SendNext
<1>10. call' = [call EXCEPT ![c] = y]
  BY <1>1, <1>4, <1>5, <1>8
<1>11. PathOK(y)
  BY <1>9 DEF PathOK
<1>12. JudgedOK(c)
  <2>1. circuit \in [Gateway!Backend -> {"closed", "cooling", "cooled"}]
    BY DEF GatewayIInv, GatewayTypeInv
  <2>2. /\ circuit' \in [Gateway!Backend -> {"closed", "cooling", "cooled"}]
        /\ \A b \in Gateway!Backend : circuit'[b] # "closed" => circuit[b] # "closed"
    BY <1>2, <2>1 DEF Gateway!HalfOpen
  <2> QED  BY <1>2, <2>2, CircuitsChange
<1>13. LoadsOK
  <2>1. PICK h \in Gateway!Backend : h = Head(list)
    BY <1>9
  <2>2. active' = [active EXCEPT ![h] = active[h] + 1]
    BY <1>1, <2>1 DEF Gateway!Acquired
  <2>3. \A b : ~Waits(call[c], b) /\ (Waits(y, b) <=> b = h)
    BY <1>0, <1>9, <2>1 DEF Waits
  <2>4. active' \in [Gateway!Backend -> Int]
    BY <1>0, <2>2
  <2>5. ASSUME NEW b \in Gateway!Backend
        PROVE  active'[b] = active[b] + (IF Waits(y, b) /\ ~Waits(call[c], b) THEN 1 ELSE
                                         IF Waits(call[c], b) /\ ~Waits(y, b) THEN -1 ELSE 0)
    <3>1. CASE b = h
      BY <1>0, <2>2, <2>3, <3>1
    <3>2. CASE b # h
      BY <1>0, <2>2, <2>3, <3>2
    <3> QED  BY <3>1, <3>2
  <2> QED  BY <1>10, <2>4, <2>5, LoadsFollow
<1>14. ASSUME NEW b \in Gateway!Backend
       PROVE  ChargeOK(y, b, charges'[b][c])
  <2>1. charges[b][c] \in Nat /\ ChargeOK(call[c], b, charges[b][c])
    BY CallFacts
  <2>2. charges[b][c] = 0
    BY <1>4, <2>1 DEF ChargeOK, Gateway!NewCall, Gateway!ToSet
  <2> QED  BY <1>2, <1>9, <2>2 DEF ChargeOK
<1>15. PICK k \in Seq({"SUCCESS", "FAILED"}) :
         decisions' = [decisions EXCEPT ![c] = k] /\ Len(k) = 0
  BY <1>0, <1>2, SameDecisions DEF Decided
<1>16. ~Decided(y)
  BY <1>9 DEF Decided
<1> QED  BY <1>2, <1>9, <1>10, <1>11, <1>12, <1>13, <1>14, <1>15, <1>16, GatewayKeeps

\* A request that is at the same backend is charged as before.
LEMMA ChargeStays ==
  ASSUME NEW x, NEW y, NEW b, NEW n \in Nat, ChargeOK(x, b, n),
         y.tried = x.tried, x.broke => y.broke, x.cut => y.cut,
         y.content = x.content \/ x.content = "none",
         y.pc = "relay" => x.pc = "relay" \/ b # Gateway!Last(x.tried), y.pc = "tail" => n =< 1
  PROVE  ChargeOK(y, b, n)
<1>1. n =< IF y.cut THEN 2 ELSE 1
  BY DEF ChargeOK
<1>2. n > 0 => \/ b \in Gateway!ToSet(y.tried) /\ b # Gateway!Last(y.tried)
               \/ /\ y.tried # <<>> /\ b = Gateway!Last(y.tried)
                  /\ y.broke \/ (y.content = "json" /\ ~prefixCache)
  BY DEF ChargeOK
<1> QED  BY <1>1, <1>2 DEF ChargeOK

\* While its answer has not begun a request charges only those tried before.
LEMMA NotYetCharged ==
  ASSUME GatewayIInv, NEW c \in GatewayCall, call[c].pc \in {"headers", "body", "relay"}
  PROVE  /\ Gateway!At(c) \in Gateway!Backend /\ Gateway!At(c) = Gateway!Last(call[c].tried)
         /\ charges[Gateway!At(c)][c] = 0
<1>1. call[c] \in GatewayCallState /\ PathOK(call[c])
  BY CallFacts
<1>2. call[c].tried \in Seq(Gateway!Backend) /\ call[c].tried # <<>>
  BY <1>1 DEF GatewayCallState, PathOK
<1>3. Gateway!At(c) = Gateway!Last(call[c].tried) /\ Gateway!At(c) \in Gateway!Backend
  BY <1>2, LastOfSeq DEF Gateway!At
<1>4. PICK b \in Gateway!Backend : b = Gateway!At(c)
  BY <1>3
<1>5. charges[b][c] \in Nat /\ ChargeOK(call[c], b, charges[b][c])
  BY CallFacts
<1>6. charges[b][c] = 0
  <2>1. CASE call[c].pc = "relay"
    BY <1>3, <1>4, <1>5, <2>1 DEF ChargeOK
  <2>2. CASE call[c].pc # "relay"
    <3>1. ~call[c].broke /\ (call[c].content = "json" => prefixCache)
      BY <1>1, <2>2 DEF PathOK
    <3> QED  BY <1>3, <1>4, <1>5, <3>1 DEF ChargeOK
  <2> QED  BY <2>1, <2>2
<1> QED  BY <1>3, <1>4, <1>6

\* The backend is released when the request's answer begins, or it has none.
LEMMA ReleaseLoads ==
  ASSUME Gateway!Configured, GatewayIInv, NEW c \in GatewayCall, call[c].pc = "headers",
         NEW y, call' = [call EXCEPT ![c] = y], y.pc # "headers", Gateway!Release(c)
  PROVE  LoadsOK
<1>1. PICK h \in Gateway!Backend : h = Gateway!At(c) /\ h = Gateway!Last(call[c].tried)
  BY LoadReleased
<1>2. active \in [Gateway!Backend -> Int]
  BY DEF GatewayIInv, GatewayTypeInv
<1>3. active' = [active EXCEPT ![h] = active[h] - 1]
  BY <1>1, LoadReleased DEF Gateway!Release
<1>4. \A b : ~Waits(y, b) /\ (Waits(call[c], b) <=> b = h)
  BY <1>1 DEF Waits
<1>5. active' \in [Gateway!Backend -> Int]
  BY <1>2, <1>3
<1>6. ASSUME NEW b \in Gateway!Backend
      PROVE  active'[b] = active[b] + (IF Waits(y, b) /\ ~Waits(call[c], b) THEN 1 ELSE
                                       IF Waits(call[c], b) /\ ~Waits(y, b) THEN -1 ELSE 0)
  <2>1. CASE b = h
    BY <1>2, <1>3, <1>4, <2>1
  <2>2. CASE b # h
    BY <1>2, <1>3, <1>4, <2>2
  <2> QED  BY <2>1, <2>2
<1> QED  BY <1>5, <1>6, LoadsFollow

LEMMA ClientErrorKeeps ==
  ASSUME Gateway!Configured, GatewayIInv, NEW c \in GatewayCall, Gateway!ClientError(c)
  PROVE  GatewayIInv'
<1>1. PICK x \in GatewayCallState : x = call[c]
  BY CallFacts
<1>2. PICK y : y = [x EXCEPT !.pc = "over"]
  OBVIOUS
<1>3. /\ x.pc = "headers" /\ call' = [call EXCEPT ![c] = y] /\ prefixCache' = prefixCache
      /\ Gateway!Release(c) /\ Gateway!Decide(c, "FAILED") /\ Gateway!NoVerdict
  BY <1>1, <1>2 DEF Gateway!ClientError
<1>4. PathOK(x)
  BY <1>1, CallFacts
<1>5. /\ y \in GatewayCallState /\ y.pc = "over" /\ y.tried = x.tried /\ y.rest = x.rest
      /\ y.content = "none" /\ y.broke = x.broke /\ y.cut = x.cut
  BY <1>2, <1>3, <1>4 DEF GatewayCallState, Gateway!Point, PathOK
<1>6. PathOK(y)
  BY <1>4, <1>5 DEF PathOK
<1>7. LoadsOK
  BY <1>1, <1>3, <1>5, ReleaseLoads
<1>8. JudgedOK(c) /\ charges' = charges
  BY <1>3, NoVerdictJudges DEF Gateway!NoVerdict
<1>9. ASSUME NEW b \in Gateway!Backend
      PROVE  ChargeOK(y, b, charges'[b][c])
  <2>1. charges[b][c] \in Nat /\ ChargeOK(x, b, charges[b][c])
    BY <1>1, CallFacts
  <2>2. x.cut \in BOOLEAN /\ x.content = "none"
    BY <1>3, <1>4 DEF GatewayCallState, PathOK
  <2> QED  BY <1>5, <1>8, <2>1, <2>2, ChargeStays
<1>10. PICK k \in Seq({"SUCCESS", "FAILED"}) : decisions' = [decisions EXCEPT ![c] = k] /\ Len(k) = 1
  BY <1>1, <1>3, DecidedOnce DEF Decided
<1>11. Decided(y)
  BY <1>5 DEF Decided
<1> QED  BY <1>3, <1>5, <1>6, <1>7, <1>8, <1>9, <1>10, <1>11, GatewayKeeps

LEMMA HeadersKeeps ==
  ASSUME Gateway!Configured, GatewayIInv, NEW c \in GatewayCall, Gateway!Headers(c)
  PROVE  GatewayIInv'
<1>1. PICK x \in GatewayCallState : x = call[c]
  BY CallFacts
<1>2. PICK content \in {"stream", "json"} :
        IF content = "json" /\ prefixCache
        THEN /\ call' = [call EXCEPT ![c] = [x EXCEPT !.pc = "body", !.content = content]]
             /\ UNCHANGED decisions
        ELSE /\ call' = [call EXCEPT ![c] = [x EXCEPT !.pc = "relay", !.content = content]]
             /\ Gateway!Decide(c, "SUCCESS")
  BY <1>1, CallFacts DEF Gateway!Headers, GatewayIInv, GatewayTypeInv
<1>3. /\ x.pc = "headers" /\ prefixCache' = prefixCache
      /\ Gateway!Release(c) /\ Gateway!NoVerdict
  BY <1>1 DEF Gateway!Headers
<1>4. PathOK(x)
  BY <1>1, CallFacts
<1>5. PICK pc : pc = IF content = "json" /\ prefixCache THEN "body" ELSE "relay"
  OBVIOUS
<1>6. PICK y : y = [x EXCEPT !.pc = pc, !.content = content]
  OBVIOUS
<1>7. call' = [call EXCEPT ![c] = y]
  BY <1>2, <1>5, <1>6
<1>8. /\ y \in GatewayCallState /\ y.pc = pc /\ pc \in {"body", "relay"} /\ y.tried = x.tried
      /\ y.rest = x.rest /\ y.content = content /\ ~y.broke /\ ~y.cut /\ ~y.finished
      /\ x.tried # <<>> /\ ~x.broke /\ ~x.cut /\ x.content = "none"
  <2>1. /\ ~x.finished /\ x.tried # <<>> /\ ~x.broke /\ ~x.cut /\ x.content = "none"
    BY <1>3, <1>4 DEF PathOK
  <2>2. pc \in {"body", "relay"} /\ pc \in Gateway!Point
    BY <1>5 DEF Gateway!Point
  <2> QED  BY <1>6, <2>1, <2>2 DEF GatewayCallState
<1>9. PathOK(y)
  BY <1>4, <1>5, <1>8 DEF PathOK, Relayed
<1>10. LoadsOK
  BY <1>1, <1>3, <1>7, <1>8, ReleaseLoads
<1>11. JudgedOK(c) /\ charges' = charges
  BY <1>3, NoVerdictJudges DEF Gateway!NoVerdict
<1>12. ASSUME NEW b \in Gateway!Backend
       PROVE  ChargeOK(y, b, charges'[b][c])
  <2>1. charges[b][c] \in Nat /\ ChargeOK(x, b, charges[b][c])
    BY <1>1, CallFacts
  <2>2. CASE b = Gateway!Last(x.tried)
    <3>1. charges[b][c] = 0
      BY <1>1, <1>3, <2>2, NotYetCharged
    <3> QED  BY <1>8, <1>11, <3>1 DEF ChargeOK
  <2>3. CASE b # Gateway!Last(x.tried)
    <3>1. charges[b][c] =< 1
      BY <1>8, <2>1 DEF ChargeOK
    <3>2. ChargeOK(y, b, charges[b][c])
      BY <1>8, <2>1, <2>3, <3>1, ChargeStays
    <3> QED  BY <1>11, <3>2 DEF ChargeOK
  <2> QED  BY <2>2, <2>3
<1>13. \E k \in Seq({"SUCCESS", "FAILED"}) :
         decisions' = [decisions EXCEPT ![c] = k] /\ Len(k) = IF Decided(y) THEN 1 ELSE 0
  <2>1. ~Decided(x)
    BY <1>3 DEF Decided
  <2>2. CASE pc = "body"
    <3>1. UNCHANGED decisions
      BY <1>2, <1>5, <2>2
    <3>2. ~Decided(y)
      BY <1>8, <2>2 DEF Decided
    <3> QED  BY <1>1, <2>1, <3>1, <3>2, SameDecisions
  <2>3. CASE pc = "relay"
    <3>1. Gateway!Decide(c, "SUCCESS")
      BY <1>2, <1>5, <2>3
    <3>2. Decided(y)
      BY <1>8, <2>3 DEF Decided
    <3> QED  BY <1>1, <2>1, <3>1, <3>2, DecidedOnce
  <2> QED  BY <1>8, <2>2, <2>3
<1>14. PICK k \in Seq({"SUCCESS", "FAILED"}) :
         decisions' = [decisions EXCEPT ![c] = k] /\ Len(k) = IF Decided(y) THEN 1 ELSE 0
  BY <1>13
<1> QED  BY <1>3, <1>7, <1>8, <1>9, <1>10, <1>11, <1>12, <1>14, GatewayKeeps

LEMMA RetryableKeeps ==
  ASSUME Gateway!Configured, GatewayIInv, NEW c \in GatewayCall, Gateway!Retryable(c)
  PROVE  GatewayIInv'
<1>1. PICK x \in GatewayCallState : x = call[c]
  BY CallFacts
<1>2. PICK h \in Gateway!Backend : h = Gateway!At(c) /\ h = Gateway!Last(x.tried)
  BY <1>1, LoadReleased DEF Gateway!Retryable
<1>3. /\ x.pc = "headers" /\ prefixCache' = prefixCache /\ Gateway!RecordFailure(h, c)
  BY <1>1, <1>2 DEF Gateway!Retryable
<1>4. /\ PathOK(x) /\ x.tried # <<>> /\ ~x.broke /\ ~x.cut /\ ~x.finished /\ x.content = "none"
      /\ ~Decided(x)
  <2>1. PathOK(x)
    BY <1>1, CallFacts
  <2> QED  BY <1>3, <2>1 DEF PathOK, Decided
<1>5. charges[h][c] = 0
  BY <1>1, <1>2, <1>3, NotYetCharged
<1>6. /\ JudgedOK(c)
      /\ \A d \in Gateway!Backend :
           charges'[d][c] = IF d = h THEN charges[d][c] + 1 ELSE charges[d][c]
  BY <1>3, <1>5, FailureJudges
<1>7. \A b \in Gateway!Backend : charges[b][c] \in Nat /\ ChargeOK(x, b, charges[b][c])
  BY <1>1, CallFacts
<1>8. CASE x.rest = <<>>
  <2>1. PICK y : y = [x EXCEPT !.pc = "over", !.broke = TRUE]
    OBVIOUS
  <2>2. call' = [call EXCEPT ![c] = y] /\ Gateway!Release(c) /\ Gateway!Decide(c, "FAILED")
    BY <1>1, <1>8, <2>1 DEF Gateway!Retryable
  <2>3. /\ y \in GatewayCallState /\ y.pc = "over" /\ y.tried = x.tried /\ y.rest = x.rest
        /\ y.content = "none" /\ y.broke /\ ~y.cut
    BY <1>4, <2>1 DEF GatewayCallState, Gateway!Point
  <2>4. PathOK(y) /\ Decided(y)
    BY <1>4, <2>3 DEF PathOK, Decided
  <2>5. LoadsOK
    BY <1>1, <1>3, <2>2, <2>3, ReleaseLoads
  <2>6. ASSUME NEW b \in Gateway!Backend
        PROVE  ChargeOK(y, b, charges'[b][c])
    <3>1. CASE b = h
      <4>1. charges'[b][c] = 1
        BY <1>5, <1>6, <3>1
      <4> QED  BY <1>2, <1>4, <2>3, <3>1, <4>1 DEF ChargeOK
    <3>2. CASE b # h
      <4>1. charges'[b][c] = charges[b][c]
        BY <1>6, <3>2
      <4>2. ChargeOK(y, b, charges[b][c])
        BY <1>4, <1>7, <2>3, ChargeStays
      <4> QED  BY <4>1, <4>2 DEF ChargeOK
    <3> QED  BY <3>1, <3>2
  <2>7. PICK k \in Seq({"SUCCESS", "FAILED"}) : decisions' = [decisions EXCEPT ![c] = k] /\ Len(k) = 1
    BY <1>1, <1>4, <2>2, DecidedOnce
  <2> QED  BY <1>3, <1>6, <2>2, <2>3, <2>4, <2>5, <2>6, <2>7, GatewayKeeps
<1>9. CASE x.rest # <<>>
  <2>1. PICK y : y = Gateway!Send(x)
    OBVIOUS
  <2>2. PICK g : g = Head(x.rest)
    OBVIOUS
  <2>3. /\ call' = [call EXCEPT ![c] = y] /\ UNCHANGED decisions
        /\ active' = [Gateway!Released(h) EXCEPT ![g] = Gateway!Released(h)[g] + 1]
    BY <1>1, <1>2, <1>9, <2>1, <2>2 DEF Gateway!Retryable
  <2>4. /\ Distinct(x.tried) /\ Distinct(x.rest)
        /\ \A i \in DOMAIN x.tried, j \in DOMAIN x.rest : x.tried[i] # x.rest[j]
    BY <1>4 DEF PathOK
  <2>5. /\ y \in GatewayCallState /\ y.pc = "headers"
        /\ y.content = "none" /\ ~y.finished /\ ~y.broke /\ ~y.cut
        /\ Distinct(y.tried) /\ Distinct(y.rest) /\ y.tried # <<>>
        /\ \A i \in DOMAIN y.tried, j \in DOMAIN y.rest : y.tried[i] # y.rest[j]
        /\ g \in Gateway!Backend /\ Gateway!Last(y.tried) = g
        /\ Gateway!ToSet(y.tried) = Gateway!ToSet(x.tried) \cup {g}
        /\ g \notin Gateway!ToSet(x.tried)
    BY <1>4, <1>9, <2>1, <2>2, <2>4, SendNext
  <2>6. PathOK(y) /\ ~Decided(y)
    BY <2>5 DEF PathOK, Decided
  <2>7. h \in Gateway!ToSet(x.tried)
    <3>1. x.tried \in Seq(Gateway!Backend)
      BY DEF GatewayCallState
    <3> QED  BY <1>2, <1>4, <3>1, LastOfSeq
  <2>8. h # g
    BY <2>5, <2>7
  <2>9. LoadsOK
    <3>1. active \in [Gateway!Backend -> Int]
      BY DEF GatewayIInv, GatewayTypeInv
    <3>2. Gateway!Released(h) = [active EXCEPT ![h] = active[h] - 1]
      BY <1>1, <1>2, <1>3, LoadReleased
    <3>3. /\ active' \in [Gateway!Backend -> Int]
          /\ \A b \in Gateway!Backend :
               active'[b] = IF b = h THEN active[b] - 1 ELSE IF b = g THEN active[b] + 1 ELSE active[b]
      BY <2>3, <2>5, <2>8, <3>1, <3>2
    <3>4. \A b : (Waits(call[c], b) <=> b = h) /\ (Waits(y, b) <=> b = g)
      BY <1>1, <1>2, <1>3, <2>5 DEF Waits
    <3>5. ASSUME NEW b \in Gateway!Backend
          PROVE  active'[b] = active[b] + (IF Waits(y, b) /\ ~Waits(call[c], b) THEN 1 ELSE
                                           IF Waits(call[c], b) /\ ~Waits(y, b) THEN -1 ELSE 0)
      <4>1. active[b] \in Int
        BY <3>1
      <4>2. CASE b = h
        BY <2>8, <3>3, <3>4, <4>1, <4>2
      <4>3. CASE b = g
        BY <2>8, <3>3, <3>4, <4>1, <4>3
      <4>4. CASE b # h /\ b # g
        BY <3>3, <3>4, <4>1, <4>4
      <4> QED  BY <4>2, <4>3, <4>4
    <3> QED  BY <2>3, <3>3, <3>5, LoadsFollow
  <2>10. ASSUME NEW b \in Gateway!Backend
         PROVE  ChargeOK(y, b, charges'[b][c])
    <3>1. CASE b = h
      <4>1. charges'[b][c] = 1
        BY <1>5, <1>6, <3>1
      <4> QED  BY <2>5, <2>7, <2>8, <3>1, <4>1 DEF ChargeOK
    <3>2. CASE b # h
      <4>1. charges'[b][c] = charges[b][c] /\ charges[b][c] \in Nat
        BY <1>6, <1>7, <3>2
      <4>2. charges[b][c] > 0 => b \in Gateway!ToSet(x.tried)
        BY <1>4, <1>7 DEF ChargeOK
      <4>3. charges[b][c] =< 1
        BY <1>4, <1>7 DEF ChargeOK
      <4> QED  BY <2>5, <4>1, <4>2, <4>3 DEF ChargeOK
    <3> QED  BY <3>1, <3>2
  <2>11. PICK k \in Seq({"SUCCESS", "FAILED"}) : decisions' = [decisions EXCEPT ![c] = k] /\ Len(k) = 0
    BY <1>1, <1>4, <2>3, SameDecisions
  <2> QED  BY <1>3, <1>6, <2>3, <2>5, <2>6, <2>9, <2>10, <2>11, GatewayKeeps
<1> QED  BY <1>8, <1>9

\* Steps that leave router, charges and decisions alone.
LEMMA CallMoves ==
  ASSUME Gateway!Configured, GatewayIInv, NEW c \in GatewayCall,
         NEW y \in GatewayCallState, call' = [call EXCEPT ![c] = y],
         UNCHANGED <<prefixCache, failures, circuit, active, charges, decisions>>,
         call[c].pc # "headers", y.pc # "headers", PathOK(y),
         y.tried = call[c].tried, call[c].broke => y.broke, y.cut = call[c].cut,
         y.content = call[c].content, y.pc = "relay" => call[c].pc = "relay", y.pc # "tail",
         Decided(y) <=> Decided(call[c])
  PROVE  GatewayIInv'
<1>1. LoadsOK
  BY LoadsKept
<1>2. JudgedOK(c)
  BY NoVerdictJudges DEF Gateway!NoVerdict
<1>3. ASSUME NEW b \in Gateway!Backend
      PROVE  ChargeOK(y, b, charges'[b][c])
  <2>1. PICK x \in GatewayCallState : x = call[c]
    BY CallFacts
  <2>2. charges[b][c] \in Nat /\ ChargeOK(x, b, charges[b][c])
    BY <2>1, CallFacts
  <2>3. x.cut \in BOOLEAN /\ y.cut \in BOOLEAN
    BY DEF GatewayCallState
  <2> QED  BY <2>1, <2>2, <2>3, ChargeStays
<1>4. PICK k \in Seq({"SUCCESS", "FAILED"}) :
        decisions' = [decisions EXCEPT ![c] = k] /\ Len(k) = IF Decided(y) THEN 1 ELSE 0
  BY SameDecisions
<1> QED  BY <1>1, <1>2, <1>3, <1>4, GatewayKeeps

LEMMA RefuseKeeps ==
  ASSUME Gateway!Configured, GatewayIInv, NEW c \in GatewayCall, Gateway!Refuse(c)
  PROVE  GatewayIInv'
<1>1. PICK x \in GatewayCallState : x = call[c]
  BY CallFacts
<1>2. PICK y : y = [x EXCEPT !.pc = "over"]
  OBVIOUS
<1>3. /\ x.pc = "new" /\ call' = [call EXCEPT ![c] = y] /\ Gateway!Decide(c, "FAILED")
      /\ UNCHANGED <<prefixCache, failures, circuit, active, charges>>
  BY <1>1, <1>2 DEF Gateway!Refuse, Gateway!router
<1>4. PathOK(x) /\ ~Decided(x) /\ x.content = "none" /\ ~x.cut
  <2>1. PathOK(x)
    BY <1>1, CallFacts
  <2> QED  BY <1>3, <2>1 DEF PathOK, Gateway!NewCall, Decided
<1>5. /\ y \in GatewayCallState /\ y.pc = "over" /\ y.tried = x.tried /\ y.rest = x.rest
      /\ y.content = "none" /\ y.broke = x.broke /\ ~y.cut
  BY <1>2, <1>4 DEF GatewayCallState, Gateway!Point
<1>6. PathOK(y) /\ Decided(y)
  BY <1>4, <1>5 DEF PathOK, Decided
<1>7. LoadsOK
  BY <1>1, <1>3, <1>5, LoadsKept
<1>8. JudgedOK(c)
  BY <1>3, NoVerdictJudges DEF Gateway!NoVerdict
<1>9. ASSUME NEW b \in Gateway!Backend
      PROVE  ChargeOK(y, b, charges'[b][c])
  <2>1. charges[b][c] \in Nat /\ ChargeOK(x, b, charges[b][c])
    BY <1>1, CallFacts
  <2>2. ChargeOK(y, b, charges[b][c])
    BY <1>4, <1>5, <2>1, ChargeStays
  <2> QED  BY <1>3, <2>2 DEF ChargeOK
<1>10. PICK k \in Seq({"SUCCESS", "FAILED"}) : decisions' = [decisions EXCEPT ![c] = k] /\ Len(k) = 1
  BY <1>1, <1>3, <1>4, DecidedOnce
<1> QED  BY <1>3, <1>5, <1>6, <1>7, <1>8, <1>9, <1>10, GatewayKeeps

LEMMA BodyReadKeeps ==
  ASSUME Gateway!Configured, GatewayIInv, NEW c \in GatewayCall, Gateway!BodyRead(c)
  PROVE  GatewayIInv'
<1>1. PICK x \in GatewayCallState : x = call[c]
  BY CallFacts
<1>2. PICK y : y = [x EXCEPT !.pc = "over", !.finished = TRUE]
  OBVIOUS
<1>3. /\ x.pc = "body" /\ call' = [call EXCEPT ![c] = y] /\ Gateway!Decide(c, "SUCCESS")
      /\ UNCHANGED <<prefixCache, active>>
  BY <1>1, <1>2 DEF Gateway!BodyRead
<1>4. PICK h \in Gateway!Backend : h = Gateway!At(c) /\ h = Gateway!Last(x.tried)
  BY <1>1, <1>3, NotYetCharged
<1>5. Gateway!RecordSuccess(h)
  BY <1>4 DEF Gateway!BodyRead
<1>6. /\ JudgedOK(c)
      /\ \A d \in Gateway!Backend : charges'[d][c] = IF d = h THEN 0 ELSE charges[d][c]
  BY <1>5, SuccessJudges
<1>7. PathOK(x) /\ ~Decided(x) /\ ~x.broke /\ ~x.cut
  <2>1. PathOK(x)
    BY <1>1, CallFacts
  <2> QED  BY <1>3, <2>1 DEF PathOK, Decided
<1>8. /\ y \in GatewayCallState /\ y.pc = "over" /\ y.tried = x.tried /\ y.rest = x.rest
      /\ y.content = x.content /\ ~y.broke /\ ~y.cut
  BY <1>2, <1>7 DEF GatewayCallState, Gateway!Point
<1>9. PathOK(y) /\ Decided(y)
  BY <1>7, <1>8 DEF PathOK, Decided
<1>10. LoadsOK
  BY <1>1, <1>3, <1>8, LoadsKept
<1>11. ASSUME NEW b \in Gateway!Backend
       PROVE  ChargeOK(y, b, charges'[b][c])
  <2>1. charges[b][c] \in Nat /\ ChargeOK(x, b, charges[b][c])
    BY <1>1, CallFacts
  <2>2. CASE b = h
    <3>1. charges'[b][c] = 0
      BY <1>6, <2>2
    <3> QED  BY <1>8, <3>1 DEF ChargeOK
  <2>3. CASE b # h
    <3>1. ChargeOK(y, b, charges[b][c])
      BY <1>7, <1>8, <2>1, ChargeStays
    <3>2. charges'[b][c] = charges[b][c]
      BY <1>6, <2>3
    <3> QED  BY <3>1, <3>2 DEF ChargeOK
  <2> QED  BY <2>2, <2>3
<1>12. PICK k \in Seq({"SUCCESS", "FAILED"}) : decisions' = [decisions EXCEPT ![c] = k] /\ Len(k) = 1
  BY <1>1, <1>3, <1>7, DecidedOnce
<1> QED  BY <1>3, <1>6, <1>8, <1>9, <1>10, <1>11, <1>12, GatewayKeeps

LEMMA BodyBreaksKeeps ==
  ASSUME Gateway!Configured, GatewayIInv, NEW c \in GatewayCall, Gateway!BodyBreaks(c)
  PROVE  GatewayIInv'
<1>1. PICK x \in GatewayCallState : x = call[c]
  BY CallFacts
<1>2. PICK y : y = [x EXCEPT !.pc = "over", !.broke = TRUE]
  OBVIOUS
<1>3. /\ x.pc = "body" /\ call' = [call EXCEPT ![c] = y]
      /\ UNCHANGED <<prefixCache, failures, circuit, active, charges, decisions>>
  BY <1>1, <1>2 DEF Gateway!BodyBreaks, Gateway!router
<1>4. PathOK(x) /\ ~Decided(x) /\ x.content = "json" /\ prefixCache
  <2>1. PathOK(x)
    BY <1>1, CallFacts
  <2> QED  BY <1>3, <2>1 DEF PathOK, Decided
<1>5. /\ y \in GatewayCallState /\ y.pc = "over" /\ y.tried = x.tried /\ y.rest = x.rest
      /\ y.content = x.content /\ y.broke /\ y.cut = x.cut
  BY <1>2 DEF GatewayCallState, Gateway!Point
<1>6. PathOK(y) /\ ~Decided(y)
  BY <1>4, <1>5 DEF PathOK, Decided
<1> QED  BY <1>1, <1>3, <1>4, <1>5, <1>6, CallMoves

LEMMA StreamFinishesKeeps ==
  ASSUME Gateway!Configured, GatewayIInv, NEW c \in GatewayCall, Gateway!StreamFinishes(c)
  PROVE  GatewayIInv'
<1>1. PICK x \in GatewayCallState : x = call[c]
  BY CallFacts
<1>2. PICK y : y = [x EXCEPT !.finished = TRUE]
  OBVIOUS
<1>3. /\ x.pc = "relay" /\ x.content = "stream" /\ call' = [call EXCEPT ![c] = y]
      /\ UNCHANGED <<prefixCache, failures, circuit, active, charges, decisions>>
  BY <1>1, <1>2 DEF Gateway!StreamFinishes, Gateway!router
<1>4. PathOK(x)
  BY <1>1, CallFacts
<1>5. /\ y \in GatewayCallState /\ y.pc = "relay" /\ y.tried = x.tried /\ y.rest = x.rest
      /\ y.content = "stream" /\ y.broke = x.broke /\ y.cut = x.cut
  BY <1>2, <1>3 DEF GatewayCallState
<1>6. PathOK(y) /\ (Decided(y) <=> Decided(x))
  BY <1>3, <1>4, <1>5 DEF PathOK, Decided, Relayed
<1> QED  BY <1>1, <1>3, <1>5, <1>6, CallMoves

LEMMA CancelKeeps ==
  ASSUME Gateway!Configured, GatewayIInv, NEW c \in GatewayCall, Gateway!Cancel(c)
  PROVE  GatewayIInv'
<1>1. PICK x \in GatewayCallState : x = call[c]
  BY CallFacts
<1>2. PICK y : y = [x EXCEPT !.pc = "over"]
  OBVIOUS
<1>3. /\ x.pc \in {"relay", "tail"} /\ call' = [call EXCEPT ![c] = y]
      /\ UNCHANGED <<prefixCache, failures, circuit, active, charges, decisions>>
  BY <1>1, <1>2 DEF Gateway!Cancel, Gateway!router
<1>4. PathOK(x)
  BY <1>1, CallFacts
<1>5. /\ y \in GatewayCallState /\ y.pc = "over" /\ y.tried = x.tried /\ y.rest = x.rest
      /\ y.content = x.content /\ y.broke = x.broke /\ y.cut = x.cut
  BY <1>2 DEF GatewayCallState, Gateway!Point
<1>6. PathOK(y) /\ (Decided(y) <=> Decided(x))
  BY <1>3, <1>4, <1>5 DEF PathOK, Decided
<1> QED  BY <1>1, <1>3, <1>5, <1>6, CallMoves

\* The verdict on a relayed answer, when there is one for the first time or,
\* for the rest of a line, for the second.
LEMMA VerdictKeeps ==
  ASSUME Gateway!Configured, GatewayIInv, NEW c \in GatewayCall, call[c].pc \in {"relay", "tail"},
         NEW y \in GatewayCallState, call' = [call EXCEPT ![c] = y],
         UNCHANGED <<prefixCache, active, decisions>>,
         PathOK(y), y.pc \in {"tail", "over"}, y.pc = "tail" => call[c].pc = "relay",
         y.tried = call[c].tried, y.content = call[c].content,
         call[c].broke => y.broke, call[c].cut => y.cut, Decided(y),
         \/ Gateway!RecordSuccess(Gateway!At(c))
         \/ Gateway!RecordFailure(Gateway!At(c), c) /\ (y.content = "stream" => y.broke)
  PROVE  GatewayIInv'
<1>1. PICK x \in GatewayCallState : x = call[c]
  BY CallFacts
<1>2. PathOK(x) /\ x.tried # <<>> /\ (x.content = "json" => ~prefixCache) /\ x.content # "none"
  <2>1. PathOK(x)
    BY <1>1, CallFacts
  <2> QED  BY <1>1, <2>1 DEF PathOK, Relayed
<1>3. PICK h \in Gateway!Backend : h = Gateway!At(c) /\ h = Gateway!Last(x.tried)
  <2>1. x.tried \in Seq(Gateway!Backend)
    BY DEF GatewayCallState
  <2> QED  BY <1>1, <1>2, <2>1, LastOfSeq DEF Gateway!At
<1>4. LoadsOK
  BY LoadsKept
<1>5. \A b \in Gateway!Backend : charges[b][c] \in Nat /\ ChargeOK(x, b, charges[b][c])
  BY <1>1, CallFacts
<1>6. charges[h][c] =< (IF x.pc = "relay" THEN 0 ELSE 1)
  BY <1>1, <1>3, <1>5 DEF ChargeOK
<1>7. \A b \in Gateway!Backend : charges[b][c] =< 1
  <2>1. x.pc = "relay" => ~x.cut
    BY <1>2 DEF PathOK
  <2> QED  BY <1>1, <1>5, <2>1 DEF ChargeOK
<1>8. x.cut \in BOOLEAN /\ y.cut \in BOOLEAN /\ (x.pc = "tail" => x.cut) /\ (y.pc = "tail" => y.cut)
  BY <1>2 DEF GatewayCallState, PathOK
<1>9. ASSUME NEW b \in Gateway!Backend
      PROVE  ChargeOK(y, b, charges[b][c])
  BY <1>1, <1>5, <1>7, <1>8, ChargeStays
<1>10. JudgedOK(c) /\ \A b \in Gateway!Backend : ChargeOK(y, b, charges'[b][c])
  <2>1. CASE Gateway!RecordSuccess(h)
    <3>1. /\ JudgedOK(c)
          /\ \A d \in Gateway!Backend : charges'[d][c] = IF d = h THEN 0 ELSE charges[d][c]
      BY <2>1, SuccessJudges
    <3>2. ASSUME NEW b \in Gateway!Backend
          PROVE  ChargeOK(y, b, charges'[b][c])
      <4>1. charges'[b][c] = 0 \/ charges'[b][c] = charges[b][c]
        BY <3>1
      <4> QED  BY <1>8, <1>9, <4>1 DEF ChargeOK
    <3> QED  BY <3>1, <3>2
  <2>2. CASE Gateway!RecordFailure(h, c) /\ (y.content = "stream" => y.broke)
    <3>0. charges[h][c] \in Nat /\ charges[h][c] < 2
      BY <1>5, <1>7
    <3>1. /\ JudgedOK(c)
          /\ \A d \in Gateway!Backend :
               charges'[d][c] = IF d = h THEN charges[d][c] + 1 ELSE charges[d][c]
      BY <2>2, <3>0, FailureJudges
    <3>2. ASSUME NEW b \in Gateway!Backend
          PROVE  ChargeOK(y, b, charges'[b][c])
      <4>1. CASE b = h
        <5>1. PICK n \in Nat : n = charges[h][c]
          BY <3>0
        <5>2. charges'[b][c] = n + 1 /\ n =< (IF x.pc = "relay" THEN 0 ELSE 1)
          BY <1>6, <3>1, <4>1, <5>1
        <5>3. y.broke \/ (y.content = "json" /\ ~prefixCache)
          BY <1>1, <1>2, <2>2 DEF GatewayCallState
        <5>4. n + 1 =< (IF y.cut THEN 2 ELSE 1) /\ (y.pc = "tail" => n + 1 =< 1)
          BY <1>1, <1>8, <5>2
        <5>5. ChargeOK(y, b, n + 1)
          BY <1>1, <1>2, <1>3, <4>1, <5>3, <5>4 DEF ChargeOK
        <5> QED  BY <5>2, <5>5 DEF ChargeOK
      <4>2. CASE b # h
        <5>1. charges'[b][c] = charges[b][c]
          BY <3>1, <4>2
        <5> QED  BY <1>9, <5>1 DEF ChargeOK
      <4> QED  BY <4>1, <4>2
    <3> QED  BY <3>1, <3>2
  <2> QED  BY <1>3, <2>1, <2>2
<1>11. Decided(x)
  BY <1>1, <1>2 DEF Decided
<1>12. PICK k \in Seq({"SUCCESS", "FAILED"}) :
         decisions' = [decisions EXCEPT ![c] = k] /\ Len(k) = 1
  BY <1>1, <1>11, SameDecisions
<1> QED  BY <1>4, <1>10, <1>12, GatewayKeeps

LEMMA StreamEndsKeeps ==
  ASSUME Gateway!Configured, GatewayIInv, NEW c \in GatewayCall, Gateway!StreamEnds(c)
  PROVE  GatewayIInv'
<1>1. PICK x \in GatewayCallState : x = call[c]
  BY CallFacts
<1>2. PICK cut \in BOOLEAN :
        call' = [call EXCEPT ![c].pc = IF cut THEN "tail" ELSE "over", ![c].cut = cut,
                             ![c].broke = call[c].content = "stream" /\ ~call[c].finished]
  BY DEF Gateway!StreamEnds
<1>3. PICK pc : pc = IF cut THEN "tail" ELSE "over"
  OBVIOUS
<1>4. PICK broke \in BOOLEAN : broke <=> x.content = "stream" /\ ~x.finished
  OBVIOUS
<1>5. PICK y : y = [x EXCEPT !.pc = pc, !.cut = cut, !.broke = broke]
  OBVIOUS
<1>6. call' = [call EXCEPT ![c] = y]
  <2>1. call[c] = x /\ call \in [GatewayCall -> GatewayCallState]
    BY <1>1 DEF GatewayIInv, GatewayTypeInv
  <2>2. broke = (x.content = "stream" /\ ~x.finished)
    BY <1>4
  <2> QED  BY <1>2, <1>3, <1>5, <2>1, <2>2
<1>7. /\ x.pc = "relay" /\ Gateway!Verdict(c) /\ UNCHANGED <<prefixCache, active, decisions>>
  BY <1>1 DEF Gateway!StreamEnds
<1>8. PathOK(x) /\ Relayed(x) /\ ~x.broke /\ ~x.cut
  <2>1. PathOK(x)
    BY <1>1, CallFacts
  <2> QED  BY <1>7, <2>1 DEF PathOK
<1>9. /\ y \in GatewayCallState /\ y.pc = pc /\ y.cut = cut /\ y.broke = broke /\ y.tried = x.tried
      /\ y.rest = x.rest /\ y.content = x.content /\ y.finished = x.finished
  <2>1. pc \in Gateway!Point
    BY <1>3 DEF Gateway!Point
  <2> QED  BY <1>5, <2>1 DEF GatewayCallState
<1>10. /\ y.pc \in {"tail", "over"} /\ (y.pc = "tail" => y.cut)
       /\ (y.content = "stream" /\ ~y.finished => y.broke)
  BY <1>3, <1>4, <1>9
<1>11. PathOK(y)
  BY <1>8, <1>9, <1>10 DEF PathOK, Relayed
<1>12. Decided(y)
  BY <1>8, <1>9, <1>10 DEF Decided, Relayed
<1>13. \/ Gateway!RecordSuccess(Gateway!At(c))
       \/ Gateway!RecordFailure(Gateway!At(c), c) /\ (y.content = "stream" => y.broke)
  BY <1>1, <1>7, <1>9, <1>10 DEF Gateway!Verdict
<1> QED  BY <1>1, <1>6, <1>7, <1>8, <1>9, <1>10, <1>11, <1>12, <1>13, VerdictKeeps

LEMMA TailPulledKeeps ==
  ASSUME Gateway!Configured, GatewayIInv, NEW c \in GatewayCall, Gateway!TailPulled(c)
  PROVE  GatewayIInv'
<1>1. PICK x \in GatewayCallState : x = call[c]
  BY CallFacts
<1>2. PICK y : y = [x EXCEPT !.pc = "over"]
  OBVIOUS
<1>3. /\ x.pc = "tail" /\ call' = [call EXCEPT ![c] = y]
      /\ Gateway!Verdict(c) /\ UNCHANGED <<prefixCache, active, decisions>>
  BY <1>1, <1>2 DEF Gateway!TailPulled
<1>4. PathOK(x) /\ Relayed(x) /\ (x.content = "stream" /\ ~x.finished => x.broke)
  <2>1. PathOK(x)
    BY <1>1, CallFacts
  <2> QED  BY <1>3, <2>1 DEF PathOK
<1>5. /\ y \in GatewayCallState /\ y.pc = "over" /\ y.tried = x.tried /\ y.rest = x.rest
      /\ y.content = x.content /\ y.broke = x.broke /\ y.cut = x.cut
  BY <1>2 DEF GatewayCallState, Gateway!Point
<1>6. PathOK(y)
  BY <1>4, <1>5 DEF PathOK
<1>7. Decided(y)
  BY <1>4, <1>5 DEF Decided, Relayed
<1>8. \/ Gateway!RecordSuccess(Gateway!At(c))
      \/ Gateway!RecordFailure(Gateway!At(c), c) /\ (y.content = "stream" => y.broke)
  BY <1>1, <1>3, <1>4, <1>5 DEF Gateway!Verdict
<1> QED  BY <1>1, <1>3, <1>5, <1>6, <1>7, <1>8, VerdictKeeps

LEMMA StreamBreaksKeeps ==
  ASSUME Gateway!Configured, GatewayIInv, NEW c \in GatewayCall, Gateway!StreamBreaks(c)
  PROVE  GatewayIInv'
<1>1. PICK x \in GatewayCallState : x = call[c]
  BY CallFacts
<1>2. PICK y : y = [x EXCEPT !.pc = "over", !.broke = TRUE]
  OBVIOUS
<1>3. /\ x.pc = "relay" /\ call' = [call EXCEPT ![c] = y]
      /\ Gateway!RecordFailure(Gateway!At(c), c) /\ UNCHANGED <<prefixCache, active, decisions>>
  BY <1>1, <1>2 DEF Gateway!StreamBreaks
<1>4. PathOK(x) /\ Relayed(x)
  <2>1. PathOK(x)
    BY <1>1, CallFacts
  <2> QED  BY <1>3, <2>1 DEF PathOK
<1>5. /\ y \in GatewayCallState /\ y.pc = "over" /\ y.tried = x.tried /\ y.rest = x.rest
      /\ y.content = x.content /\ y.broke /\ y.cut = x.cut
  BY <1>2 DEF GatewayCallState, Gateway!Point
<1>6. PathOK(y)
  BY <1>4, <1>5 DEF PathOK
<1>7. Decided(y)
  BY <1>4, <1>5 DEF Decided, Relayed
<1> QED  BY <1>1, <1>3, <1>5, <1>6, <1>7, VerdictKeeps

\* Cooldowns, probes and stuttering.
LEMMA RouterMoves ==
  ASSUME Gateway!Configured, GatewayIInv,
         UNCHANGED <<prefixCache, failures, active, call, decisions, charges>>,
         circuit' \in [Gateway!Backend -> {"closed", "cooling", "cooled"}],
         \A b \in Gateway!Backend : circuit'[b] # "closed" => circuit[b] # "closed"
  PROVE  GatewayIInv'
<1>1. GatewayTypeInv'
  BY DEF GatewayIInv, GatewayTypeInv
<1>2. ASSUME NEW d \in GatewayCall
      PROVE  /\ PathOK(call[d])'
             /\ \A b \in Gateway!Backend : ChargeOK(call[d], b, charges[b][d])'
             /\ Len(decisions[d])' = IF Decided(call[d])' THEN 1 ELSE 0
  <2>1. /\ PathOK(call[d]) /\ Len(decisions[d]) = IF Decided(call[d]) THEN 1 ELSE 0
        /\ \A b \in Gateway!Backend : ChargeOK(call[d], b, charges[b][d])
    BY DEF GatewayIInv
  <2>2. PathOK(call[d])' /\ (Decided(call[d])' <=> Decided(call[d]))
    BY <2>1 DEF PathOK, Relayed, Decided
  <2>3. \A b \in Gateway!Backend : ChargeOK(call[d], b, charges[b][d])'
    BY <2>1 DEF ChargeOK
  <2> QED  BY <2>1, <2>2, <2>3
<1>3. ASSUME NEW b \in Gateway!Backend
      PROVE  FailuresOK(b)' /\ active'[b] = Cardinality(Load(b))'
  <2>1. Charged(b, 0)' = Charged(b, 0) /\ Charged(b, 1)' = Charged(b, 1) /\ Load(b)' = Load(b)
    BY DEF Charged, Load, Gateway!At
  <2> QED  BY <2>1 DEF GatewayIInv, FailuresOK
<1> QED  BY <1>1, <1>2, <1>3 DEF GatewayIInv

LEMMA GatewayInit == ASSUME Gateway!Configured, Gateway!Init  PROVE GatewayIInv
<1>1. PICK x : x = Gateway!NewCall
  OBVIOUS
<1>2. /\ x \in GatewayCallState /\ x.pc = "new" /\ x.tried = <<>> /\ x.rest = <<>>
      /\ x.content = "none" /\ ~x.broke /\ ~x.cut
  <2>1. <<>> \in Seq(Gateway!Backend)
    BY EmptySeq
  <2> QED  BY <1>1, <2>1 DEF Gateway!NewCall, GatewayCallState, Gateway!Point
<1>3. /\ call = [c \in GatewayCall |-> x] /\ decisions = [c \in GatewayCall |-> <<>>]
      /\ failures = [b \in Gateway!Backend |-> 0] /\ active = [b \in Gateway!Backend |-> 0]
      /\ circuit = [b \in Gateway!Backend |-> "closed"]
      /\ charges = [b \in Gateway!Backend |-> [c \in GatewayCall |-> 0]]
  BY <1>1 DEF Gateway!Init
<1>4. <<>> \in Seq({"SUCCESS", "FAILED"}) /\ Len(<<>>) = 0
  BY EmptySeq
<1>5. GatewayTypeInv
  BY <1>2, <1>3, <1>4 DEF GatewayTypeInv
<1>6. PathOK(x) /\ ~Decided(x)
  BY <1>1, <1>2 DEF PathOK, Distinct, Decided
<1>7. \A b : ChargeOK(x, b, 0)
  BY <1>2 DEF ChargeOK
<1>8. ASSUME NEW c \in GatewayCall
      PROVE  /\ PathOK(call[c]) /\ Len(decisions[c]) = IF Decided(call[c]) THEN 1 ELSE 0
             /\ \A b \in Gateway!Backend : ChargeOK(call[c], b, charges[b][c])
  BY <1>3, <1>4, <1>6, <1>7
<1>9. ASSUME NEW b \in Gateway!Backend
      PROVE  FailuresOK(b) /\ active[b] = Cardinality(Load(b))
  <2>1. Charged(b, 0) = {} /\ Charged(b, 1) = {}
    BY <1>3 DEF Charged
  <2>2. Load(b) = {}
    BY <1>2, <1>3 DEF Load
  <2>3. failures[b] = 0 /\ active[b] = 0 /\ circuit[b] = "closed"
    BY <1>3
  <2> QED  BY <2>1, <2>2, <2>3, FS_EmptySet DEF FailuresOK
<1> QED  BY <1>5, <1>8, <1>9 DEF GatewayIInv

LEMMA GatewayStep ==
  ASSUME Gateway!Configured, GatewayIInv, cursor \in Nat, [Gateway!Next]_Gateway!vars
  PROVE  GatewayIInv' /\ cursor' \in Nat
<1>1. ASSUME NEW c \in GatewayCall,
             Gateway!Route(c) \/ Gateway!NoAvailableBackend(c) \/ Gateway!ModelNotFound(c)
      PROVE  GatewayIInv' /\ cursor' \in Nat
  <2>1. CASE Gateway!Route(c)
    <3>1. cursor' = cursor \/ cursor' = cursor + 1
      BY <2>1 DEF Gateway!Route, Gateway!AdvanceCursor
    <3> QED  BY <2>1, <3>1, RouteKeeps
  <2>2. CASE Gateway!NoAvailableBackend(c) \/ Gateway!ModelNotFound(c)
    <3>1. Gateway!Refuse(c)
      BY <2>2 DEF Gateway!NoAvailableBackend, Gateway!ModelNotFound
    <3>2. cursor' = cursor
      BY <3>1 DEF Gateway!Refuse, Gateway!router
    <3> QED  BY <3>1, <3>2, RefuseKeeps
  <2> QED  BY <1>1, <2>1, <2>2
<1>2. ASSUME NEW c \in GatewayCall, Gateway!Upstream(c)
      PROVE  GatewayIInv' /\ cursor' \in Nat
  <2>1. CASE Gateway!Retryable(c)
    BY <2>1, RetryableKeeps DEF Gateway!Retryable
  <2>2. CASE Gateway!ClientError(c)
    BY <2>2, ClientErrorKeeps DEF Gateway!ClientError
  <2>3. CASE Gateway!Headers(c)
    BY <2>3, HeadersKeeps DEF Gateway!Headers
  <2>4. CASE Gateway!BodyRead(c)
    BY <2>4, BodyReadKeeps DEF Gateway!BodyRead
  <2>5. CASE Gateway!BodyBreaks(c)
    BY <2>5, BodyBreaksKeeps DEF Gateway!BodyBreaks, Gateway!router
  <2> QED  BY <1>2, <2>1, <2>2, <2>3, <2>4, <2>5 DEF Gateway!Upstream
<1>3. ASSUME NEW c \in GatewayCall, Gateway!Relay(c)
      PROVE  GatewayIInv' /\ cursor' \in Nat
  <2>1. CASE Gateway!StreamFinishes(c)
    BY <2>1, StreamFinishesKeeps DEF Gateway!StreamFinishes, Gateway!router
  <2>2. CASE Gateway!StreamEnds(c)
    BY <2>2, StreamEndsKeeps DEF Gateway!StreamEnds
  <2>3. CASE Gateway!TailPulled(c)
    BY <2>3, TailPulledKeeps DEF Gateway!TailPulled
  <2>4. CASE Gateway!StreamBreaks(c)
    BY <2>4, StreamBreaksKeeps DEF Gateway!StreamBreaks
  <2>5. CASE Gateway!Cancel(c)
    BY <2>5, CancelKeeps DEF Gateway!Cancel, Gateway!router
  <2> QED  BY <1>3, <2>1, <2>2, <2>3, <2>4, <2>5 DEF Gateway!Relay
<1>4. circuit \in [Gateway!Backend -> {"closed", "cooling", "cooled"}]
  BY DEF GatewayIInv, GatewayTypeInv
<1>5. ASSUME NEW b \in Gateway!Backend, Gateway!Cool(b) \/ Gateway!ProbeBackend(b)
      PROVE  GatewayIInv' /\ cursor' \in Nat
  <2>1. CASE Gateway!Cool(b)
    <3>1. /\ UNCHANGED <<prefixCache, failures, active, call, decisions, charges, cursor>>
          /\ circuit[b] = "cooling" /\ circuit' = [circuit EXCEPT ![b] = "cooled"]
      BY <2>1 DEF Gateway!Cool
    <3>2. /\ circuit' \in [Gateway!Backend -> {"closed", "cooling", "cooled"}]
          /\ \A a \in Gateway!Backend : circuit'[a] # "closed" => circuit[a] # "closed"
      BY <1>4, <3>1
    <3> QED  BY <3>1, <3>2, RouterMoves
  <2>2. CASE Gateway!ProbeBackend(b)
    <3>1. UNCHANGED <<prefixCache, failures, circuit, active, call, decisions, charges, cursor>>
      BY <2>2 DEF Gateway!ProbeBackend
    <3> QED  BY <1>4, <3>1, RouterMoves
  <2> QED  BY <1>5, <2>1, <2>2
<1>6. CASE UNCHANGED Gateway!vars
  <2>1. UNCHANGED <<prefixCache, failures, circuit, active, call, decisions, charges, cursor>>
    BY <1>6 DEF Gateway!vars, Gateway!router
  <2> QED  BY <1>4, <2>1, RouterMoves
<1> QED  BY <1>1, <1>2, <1>3, <1>5, <1>6 DEF Gateway!Next

LEMMA RoutingFollows == ASSUME GatewayIInv PROVE RoutingIsFair
<1>1. ASSUME NEW b \in Gateway!Backend
      PROVE  /\ \A c \in GatewayCall :
                  charges[b][c] > 0 =>
                    Gateway!Failed(c, b) /\ charges[b][c] =< IF call[c].cut THEN 2 ELSE 1
             /\ circuit[b] # "closed" =>
                  Threshold =< Gateway!Cardinality({c \in GatewayCall : charges[b][c] > 0})
                                 + Gateway!Cardinality({c \in GatewayCall : charges[b][c] > 1})
  <2>1. ASSUME NEW c \in GatewayCall, charges[b][c] > 0
        PROVE  Gateway!Failed(c, b) /\ charges[b][c] =< IF call[c].cut THEN 2 ELSE 1
    <3>1. ChargeOK(call[c], b, charges[b][c])
      BY CallFacts
    <3> QED  BY <2>1, <3>1 DEF ChargeOK, Gateway!Failed
  <2>2. circuit[b] # "closed" => Threshold =< Cardinality(Charged(b, 0)) + Cardinality(Charged(b, 1))
    BY DEF GatewayIInv, FailuresOK
  <2>3. /\ Gateway!Cardinality({c \in GatewayCall : charges[b][c] > 0}) = Cardinality(Charged(b, 0))
        /\ Gateway!Cardinality({c \in GatewayCall : charges[b][c] > 1}) = Cardinality(Charged(b, 1))
    BY GatewaySets DEF Charged
  <2> QED  BY <2>1, <2>2, <2>3
<1>2. ASSUME NEW b \in Gateway!Backend
      PROVE  active[b] = Gateway!Cardinality({c \in GatewayCall : call[c].pc = "headers" /\ Gateway!At(c) = b})
  BY GatewaySets DEF GatewayIInv, Load
<1>3. ASSUME NEW c \in GatewayCall
      PROVE  /\ Gateway!IsInjective(call[c].tried)
             /\ Len(decisions[c]) =
                  IF /\ call[c].pc \in {"relay", "tail", "over"}
                     /\ ~(prefixCache /\ call[c].content = "json" /\ call[c].broke)
                  THEN 1 ELSE 0
  <2>1. Distinct(call[c].tried)
    BY CallFacts DEF PathOK
  <2>2. Gateway!IsInjective(call[c].tried)
    BY <2>1 DEF Distinct, Gateway!IsInjective
  <2> QED  BY <2>2, CallFacts DEF Decided
<1> QED  BY <1>1, <1>2, <1>3
         DEF RoutingIsFair, Gateway!BackendsAreJudgedFairly, Gateway!RequestsAreAccounted

\* For every number of requests and backends and every threshold: a circuit is
\* open only after as many failures of distinct requests, a stream that was cut
\* counting twice, and nobody is charged who did not fail; a request has one
\* decision, tries no backend twice, and the load of a backend is the requests
\* that wait for its answer (handleChatCompletions, wrapUpstreamStream and
\* ModelRouter).
THEOREM TheRoutingIsFair == Gateway!Configured => (Gateway!Spec => []RoutingIsFair)
<1> SUFFICES ASSUME Gateway!Configured
             PROVE  Gateway!Spec => []RoutingIsFair
  OBVIOUS
<1>1. Gateway!Init => GatewayIInv /\ cursor \in Nat
  BY GatewayInit DEF Gateway!Init
<1>2. GatewayIInv /\ cursor \in Nat /\ [Gateway!Next]_Gateway!vars => (GatewayIInv /\ cursor \in Nat)'
  BY GatewayStep
<1>3. GatewayIInv => RoutingIsFair
  BY RoutingFollows
<1> QED  BY <1>1, <1>2, <1>3, PTL DEF Gateway!Spec

-----------------------------------------------------------------------------
(* Types of the gateway and of the pool *)

\* What the invariant of the gateway does not need.
GatewayTypes ==
  /\ strategy \in {"priority", "round-robin", "least-active"} /\ prefixCache \in BOOLEAN
  /\ healthy \in [Gateway!Backend -> BOOLEAN] /\ cursor \in Nat

LEMMA GatewayTypesStep ==
  ASSUME GatewayTypes, [Gateway!Next]_Gateway!vars
  PROVE  GatewayTypes'
<1>1. ASSUME NEW c \in GatewayCall,
             Gateway!Route(c) \/ Gateway!NoAvailableBackend(c) \/ Gateway!ModelNotFound(c)
      PROVE  GatewayTypes'
  <2>1. /\ UNCHANGED <<strategy, prefixCache, healthy>>
        /\ cursor' = cursor \/ cursor' = cursor + 1
    BY <1>1 DEF Gateway!Route, Gateway!AdvanceCursor, Gateway!NoAvailableBackend,
                Gateway!ModelNotFound, Gateway!Refuse, Gateway!router
  <2> QED  BY <2>1 DEF GatewayTypes
<1>2. ASSUME NEW c \in GatewayCall, Gateway!Upstream(c) \/ Gateway!Relay(c)
      PROVE  GatewayTypes'
  <2>1. CASE Gateway!Upstream(c)
    <3>1. UNCHANGED <<strategy, prefixCache, healthy, cursor>>
      BY <2>1, Zenon DEF Gateway!Upstream, Gateway!Retryable, Gateway!ClientError,
                         Gateway!Headers, Gateway!BodyRead, Gateway!BodyBreaks, Gateway!router
    <3> QED  BY <3>1 DEF GatewayTypes
  <2>2. CASE Gateway!Relay(c)
    <3>1. UNCHANGED <<strategy, prefixCache, healthy, cursor>>
      BY <2>2, Zenon DEF Gateway!Relay, Gateway!StreamFinishes, Gateway!StreamEnds,
                         Gateway!TailPulled, Gateway!StreamBreaks, Gateway!Cancel, Gateway!router
    <3> QED  BY <3>1 DEF GatewayTypes
  <2> QED  BY <1>2, <2>1, <2>2
<1>3. ASSUME NEW b \in Gateway!Backend, Gateway!Cool(b) \/ Gateway!ProbeBackend(b)
      PROVE  GatewayTypes'
  <2>1. /\ UNCHANGED <<strategy, prefixCache, cursor>>
        /\ healthy' = healthy \/ \E up \in BOOLEAN : healthy' = [healthy EXCEPT ![b] = up]
    BY <1>3 DEF Gateway!Cool, Gateway!ProbeBackend
  <2> QED  BY <2>1 DEF GatewayTypes
<1>4. CASE UNCHANGED Gateway!vars
  BY <1>4 DEF Gateway!vars, Gateway!router, GatewayTypes
<1> QED  BY <1>1, <1>2, <1>3, <1>4 DEF Gateway!Next

\* Types of the gateway: the requests that load a backend are counted, so the
\* load is a natural number although it is counted down.
THEOREM GatewayTypeCorrect == Gateway!Configured => (Gateway!Spec => []Gateway!TypeOK)
<1> SUFFICES ASSUME Gateway!Configured  PROVE Gateway!Spec => []Gateway!TypeOK
  OBVIOUS
<1>1. Gateway!Init => GatewayIInv /\ GatewayTypes
  BY GatewayInit DEF Gateway!Init, GatewayTypes
<1>2. GatewayIInv /\ GatewayTypes /\ [Gateway!Next]_Gateway!vars => (GatewayIInv /\ GatewayTypes)'
  <2>1. GatewayTypes => cursor \in Nat
    BY DEF GatewayTypes
  <2> QED  BY <2>1, GatewayStep, GatewayTypesStep
<1>3. ASSUME GatewayIInv, GatewayTypes  PROVE Gateway!TypeOK
  <2>1. active \in [Gateway!Backend -> Nat]
    <3>1. ASSUME NEW b \in Gateway!Backend  PROVE active[b] \in Nat
      <4>1. IsFiniteSet(GatewayCall) /\ Load(b) \subseteq GatewayCall
        BY GatewaySets DEF Gateway!Configured, Load
      <4>2. Cardinality(Load(b)) \in Nat
        BY <4>1, FS_Subset, FS_CardinalityType
      <4> QED  BY <1>3, <4>2 DEF GatewayIInv
    <3> QED  BY <1>3, <3>1 DEF GatewayIInv, GatewayTypeInv
  <2>2. call \in [GatewayCall -> Gateway!CallState]
    BY <1>3 DEF GatewayIInv, GatewayTypeInv, GatewayCallState, Gateway!CallState
  <2> QED  BY <1>3, <2>1, <2>2 DEF GatewayIInv, GatewayTypeInv, GatewayTypes, Gateway!TypeOK
<1> QED  BY <1>1, <1>2, <1>3, PTL DEF Gateway!Spec

ShutdownTypes == starts \in 1..MaxStarts /\ inFlight \in BOOLEAN

LEMMA ShutdownTypesStep ==
  ASSUME Shutdown!Configured, ShutdownTypes, [Shutdown!Next]_(Shutdown!vars)
  PROVE  ShutdownTypes'
<1>1. CASE Shutdown!Start \/ Shutdown!Tick \/ Shutdown!DrainEnds \/ Shutdown!Initialize
  <2>1. starts' = starts /\ inFlight' \in {inFlight, TRUE, FALSE}
    BY <1>1 DEF Shutdown!Start, Shutdown!Tick, Shutdown!DrainEnds, Shutdown!Initialize
  <2> QED  BY <2>1 DEF ShutdownTypes
<1>2. ASSUME NEW r \in PoolRun, \/ Shutdown!Submit(r) \/ Shutdown!Claim(r) \/ Shutdown!Take(r)
                                \/ Shutdown!Lease(r) \/ Shutdown!ColdStart(r)
                                \/ Shutdown!Terminate(r)
      PROVE  ShutdownTypes'
  <2>1. starts' = starts /\ (inFlight' = inFlight \/ inFlight' = TRUE)
    BY <1>2, Zenon DEF Shutdown!Submit, Shutdown!Claim, Shutdown!Take, Shutdown!Lease,
                       Shutdown!ColdStart, Shutdown!Terminate
  <2> QED  BY <2>1 DEF ShutdownTypes
<1>3. ASSUME NEW k \in Key,
             Shutdown!CreateRuns(k) \/ Shutdown!CreateReturns(k) \/ Shutdown!TtlExpires(k)
      PROVE  ShutdownTypes'
  <2>1. UNCHANGED <<starts, inFlight>>
    BY <1>3, Zenon DEF Shutdown!CreateRuns, Shutdown!CreateReturns, Shutdown!TtlExpires
  <2> QED  BY <2>1 DEF ShutdownTypes
<1>4. ASSUME NEW c \in Container, \/ Shutdown!RemoveReturns(c) \/ Shutdown!CloseRemoves(c)
                                  \/ Shutdown!ContainerAppears(c) \/ Shutdown!LateRename(c)
      PROVE  ShutdownTypes'
  <2>1. UNCHANGED <<starts, inFlight>>
    BY <1>4, Zenon DEF Shutdown!RemoveReturns, Shutdown!CloseRemoves,
                       Shutdown!ContainerAppears, Shutdown!LateRename
  <2> QED  BY <2>1 DEF ShutdownTypes
<1>5. CASE Shutdown!Stop \/ Shutdown!StopReturns \/ Shutdown!ClosePool \/ Shutdown!CloseReturns
  <2>1. UNCHANGED <<starts, inFlight>>
    BY <1>5, Zenon DEF Shutdown!Stop, Shutdown!StopReturns, Shutdown!ClosePool,
                       Shutdown!CloseReturns
  <2> QED  BY <2>1 DEF ShutdownTypes
<1>6. CASE Shutdown!Restart
  <2>1. starts < MaxStarts /\ starts' = starts + 1 /\ inFlight' = FALSE
    BY <1>6, Zenon DEF Shutdown!Restart
  <2>2. starts \in 1..MaxStarts /\ MaxStarts \in Nat
    BY DEF Shutdown!Configured, ShutdownTypes
  <2>3. starts' \in 1..MaxStarts
    BY <2>1, <2>2
  <2> QED  BY <2>1, <2>3, Zenon DEF ShutdownTypes
<1>7. CASE UNCHANGED Shutdown!vars
  BY <1>7 DEF Shutdown!vars, ShutdownTypes
<1> QED  BY <1>1, <1>2, <1>3, <1>4, <1>5, <1>6, <1>7 DEF Shutdown!Next

\* Types of the process and its pool.
THEOREM ShutdownTypeCorrect == Shutdown!Configured => (Shutdown!Spec => []Shutdown!TypeOK)
<1> SUFFICES ASSUME Shutdown!Configured  PROVE Shutdown!Spec => []Shutdown!TypeOK
  OBVIOUS
<1>1. Shutdown!Init => ShutdownIInv /\ ShutdownTypes
  <2> SUFFICES ASSUME Shutdown!Init  PROVE ShutdownTypes
    BY ShutdownInit
  <2>1. starts = 1 /\ inFlight = FALSE
    BY Zenon DEF Shutdown!Init
  <2>2. MaxStarts \in Nat \ {0}
    BY Zenon DEF Shutdown!Configured
  <2>3. starts \in 1..MaxStarts
    BY <2>1, <2>2
  <2> QED  BY <2>1, <2>3, Zenon DEF ShutdownTypes
<1>2. ShutdownIInv /\ ShutdownTypes /\ [Shutdown!Next]_(Shutdown!vars)
        => (ShutdownIInv /\ ShutdownTypes)'
  BY ShutdownNext, ShutdownTypesStep
<1>3. ShutdownIInv /\ ShutdownTypes => Shutdown!TypeOK
  <2> SUFFICES ASSUME ShutdownTypeInv, ShutdownTypes  PROVE Shutdown!TypeOK
    BY DEF ShutdownIInv, PoolInv
  <2>1. pool \in [initialized : {"no", "ok", "failed"}, closed : BOOLEAN,
                  leaving : SUBSET Container]
    BY Zenon DEF ShutdownTypeInv
  <2>2. pool.initialized \in {"no", "ok", "failed"} /\ pool.leaving \subseteq Container
    BY <2>1
  <2> QED  BY <2>2, Zenon DEF ShutdownTypeInv, ShutdownTypes, Shutdown!TypeOK, Shutdown!DockerState
<1> QED  BY <1>1, <1>2, <1>3, PTL DEF Shutdown!Spec
==============================================================================
