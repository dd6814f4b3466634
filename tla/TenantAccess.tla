---------------------------- MODULE TenantAccess ----------------------------
(***************************************************************************)
(* From an HTTP request to a stored run: authentication by API key or      *)
(* login session, ownership of workspaces, conversations, sessions and     *)
(* runs, and the control plane that lazily makes a tenant's template,      *)
(* version, instance and session.  A handler that awaits the body after it *)
(* authenticated holds its principal meanwhile; everything between two     *)
(* awaits is one step, but every store write is a transaction of its own,  *)
(* so a crash leaves any prefix of them.                                   *)
(*                                                                         *)
(* A user's tenant is the user; ids of templates, versions and instances   *)
(* are functions of the tenant, so they are represented by it.             *)
(***************************************************************************)
EXTENDS Integers, Sequences, FiniteSets, SequencesExt

CONSTANTS
  Tenant,     \* users and the tenants of API keys
  Token,      \* raw keys and session tokens
  Keys,       \* [token |-> [tenant, scopes]]: the API keys that get created
  Session,    \* ids of sessions; a conversation is one of them
  Workspace,
  Request,    \* handlers that may be waiting at once
  Config,     \* deployment configurations: [deployment, supported, tools]
  MaxRuns,    \* bound on submitted runs
  Null

\* Of the API keys; a login has "*".
Scope == {"*", "tasks:write", "workspaces:write", "auth:revoke"}

\* What the proofs use of the constants: nothing that stands for a tenant, a
\* deployment, its declaration or an instance stands for its absence, and keys
\* are a tenant's.
Configured ==
  /\ \A k \in DOMAIN Keys : Keys[k] \in [tenant : Tenant, scopes : SUBSET Scope]
  /\ MaxRuns \in Nat
  /\ \A c \in Config : c.deployment # Null /\ c.supported # Null
  /\ Null \notin Tenant
  /\ Null \notin [state : {"PROVISIONING", "READY"}, profile : {c.deployment : c \in Config}]

VARIABLES
  config,         \* the configuration of this process
  credential,     \* Token -> [tenant, scopes, state]
  users,          \* the registered users
  store,          \* what the control plane has stored
  workspaces,     \* Workspace -> its tenant, or Null
  conversations,  \* Session -> [tenant, workspace], or Null
  runs,           \* the stored runs, in order
  request,        \* Request -> the handler's local state
  action          \* whose run the last step was let through to, as audited

vars == <<config, credential, users, store, workspaces, conversations, runs, request, action>>

Deployment == {c.deployment : c \in Config}

Idle == [kind |-> "idle", tenant |-> Null, session |-> Null, workspace |-> Null, run |-> 0]
Unused == [tenant |-> Null, scopes |-> {}, state |-> "unused"]
NoAction == "none"
Unaudited == action' = NoAction

Init ==
  /\ config \in Config
  /\ credential = [k \in Token |-> Unused]
  /\ users = {}
  /\ store = [profiles |-> [d \in Deployment |-> Null], templates |-> {},
              versions |-> [t \in Tenant |-> Null], instances |-> [t \in Tenant |-> Null],
              sessions |-> [s \in Session |-> Null]]
  /\ workspaces = [w \in Workspace |-> Null]
  /\ conversations = [s \in Session |-> Null]
  /\ runs = <<>>
  /\ request = [q \in Request |-> Idle]
  /\ action = NoAction

-----------------------------------------------------------------------------
(* ApiCredentialStore *)

\* requirePrincipal, for a tenant.
Principal(tenant, scope) ==
  \E k \in Token : /\ credential[k].state = "live" /\ credential[k].tenant = tenant
                   /\ credential[k].scopes \cap {"*", scope} # {}

\* The bootstrap keys, or an embedder's call.  A digest is stored once, so a
\* revoked key stays revoked.
CreateKey(k) ==
  /\ k \in DOMAIN Keys /\ credential[k].state = "unused"
  /\ credential' = [credential EXCEPT ![k] =
       [tenant |-> Keys[k].tenant, scopes |-> Keys[k].scopes, state |-> "live"]]
  /\ UNCHANGED <<config, users, store, workspaces, conversations, runs, request>> /\ Unaudited

\* POST /auth/logout; a revoked session answers 401.
Logout(k) ==
  /\ k \notin DOMAIN Keys /\ credential[k].state = "live"
  /\ credential' = [credential EXCEPT ![k].state = "revoked"]
  /\ UNCHANGED <<config, users, store, workspaces, conversations, runs, request>> /\ Unaudited

\* The end of a session's seven days, or an API key that is revoked.
Invalidate(k) ==
  /\ credential[k].state = "live"
  /\ credential' = [credential EXCEPT ![k].state = "revoked"]
  /\ UNCHANGED <<config, users, store, workspaces, conversations, runs, request>> /\ Unaudited

\* A login whose password is being verified is not among the revoked.
RevokeAllSessions(t) ==
  /\ Principal(t, "auth:revoke")
  /\ credential' = [k \in Token |->
       IF k \notin DOMAIN Keys /\ credential[k].tenant = t
       THEN [credential[k] EXCEPT !.state = "revoked"] ELSE credential[k]]
  /\ UNCHANGED <<config, users, store, workspaces, conversations, runs, request>> /\ Unaudited

Await(q, handler) ==
  /\ request[q].kind = "idle"
  /\ request' = [request EXCEPT ![q] = handler]

\* The hash is awaited before anything is read; the unique e-mail refuses the
\* second of two.  A user's id is new, so it is no API key's tenant.
RegisterUser(t) ==
  /\ t \notin users /\ \A k \in DOMAIN Keys : Keys[k].tenant # t
  /\ users' = users \cup {t}
  /\ UNCHANGED <<config, credential, store, workspaces, conversations, runs, request>> /\ Unaudited

LoginVerifies(q, t) ==
  /\ t \in users
  /\ Await(q, [Idle EXCEPT !.kind = "login", !.tenant = t])
  /\ UNCHANGED <<config, credential, users, store, workspaces, conversations, runs>> /\ Unaudited

LoginInserts(q) ==
  /\ request[q].kind = "login"
  /\ \E k \in Token \ DOMAIN Keys :
       /\ credential[k].state = "unused"
       /\ credential' = [credential EXCEPT ![k] =
            [tenant |-> request[q].tenant, scopes |-> {"*"}, state |-> "live"]]
  /\ request' = [request EXCEPT ![q] = Idle]
  /\ UNCHANGED <<config, users, store, workspaces, conversations, runs>> /\ Unaudited

-----------------------------------------------------------------------------
(* Workspaces and conversations *)

\* WorkspaceStore.getForTenant; somebody else's workspace is as good as none.
GetForTenant(w, t) == workspaces[w] = t

CreateWorkspaceReads(q, t) ==
  /\ Principal(t, "workspaces:write")
  /\ Await(q, [Idle EXCEPT !.kind = "workspace", !.tenant = t])
  /\ UNCHANGED <<config, credential, users, store, workspaces, conversations, runs>> /\ Unaudited

CreateWorkspace(q) ==
  /\ request[q].kind = "workspace"
  /\ \E w \in Workspace :
       /\ workspaces[w] = Null
       /\ workspaces' = [workspaces EXCEPT ![w] = request[q].tenant]
  /\ request' = [request EXCEPT ![q] = Idle]
  /\ UNCHANGED <<config, credential, users, store, conversations, runs>> /\ Unaudited

CreateConversationReads(q, t, w) ==
  /\ Principal(t, "tasks:write") /\ GetForTenant(w, t)
  /\ Await(q, [Idle EXCEPT !.kind = "conversation", !.tenant = t, !.workspace = w])
  /\ UNCHANGED <<config, credential, users, store, workspaces, conversations, runs>> /\ Unaudited

CreateConversation(q) ==
  /\ request[q].kind = "conversation"
  /\ \E s \in Session :
       /\ conversations[s] = Null
       /\ conversations' = [conversations EXCEPT ![s] =
            [tenant |-> request[q].tenant, workspace |-> request[q].workspace]]
  /\ request' = [request EXCEPT ![q] = Idle]
  /\ UNCHANGED <<config, credential, users, store, workspaces, runs>> /\ Unaudited

-----------------------------------------------------------------------------
(* DefaultPiControlPlane.resolve *)

\* Mutant of OwnsSession: whoever uses a session may have it.
OwnsSessionAlways(d, t, s) == TRUE

OwnsSession(d, t, s) == d.sessions[s] \in {Null, t}

\* RuntimeCapabilityStore: one declaration for each deployment, never replaced.
GetByDeployment(d) == d.profiles[config.deployment]
ProfileAgrees(d) == GetByDeployment(d) \in {Null, config.supported}
SaveProfile(d) == [d EXCEPT !.profiles[config.deployment] = config.supported]

\* HarnessTemplateStore.createTemplate.
CreateTemplate(d, t) == [d EXCEPT !.templates = @ \cup {t}]

\* createPiTemplateVersion refuses an empty or a repeated list of tools; it is
\* called when the template is stored already.
ValidVersion == config.tools

\* publishVersion in one transaction: version 1, for there was none.
PublishVersion(d, t) == [d EXCEPT !.versions[t] = config.deployment]

NewInstance == [state |-> "PROVISIONING", profile |-> config.deployment]

\* HarnessInstanceStore.create; the version it names is a foreign key.
CreateInstance(d, t) == [d EXCEPT !.instances[t] = NewInstance]

TransitionInstance(d, t, state) == [d EXCEPT !.instances[t].state = state]

\* HarnessSessionStore.create.
CreateSession(d, s, t) == [d EXCEPT !.sessions[s] = t]

\* The writes in order, each a transaction, as far as they get.  A version is
\* only made together with its template: a template found without one is
\* never mended.
Writes(t, s) ==
  LET made     == t \in store.templates
      instance == store.instances[t] # Null
      d1 == SaveProfile(store)
      d2 == IF made THEN d1 ELSE CreateTemplate(d1, t)
      d3 == IF made THEN d2 ELSE PublishVersion(d2, t)
      d4 == IF instance THEN d3 ELSE CreateInstance(d3, t)
      d5 == IF instance THEN d4 ELSE TransitionInstance(d4, t, "READY")
      d6 == IF d5.sessions[s] = Null THEN CreateSession(d5, s, t) ELSE d5
      reached ==
        IF ~ProfileAgrees(store) THEN 0
        ELSE IF ~made /\ ~ValidVersion THEN 2
        ELSE IF ~instance /\ d3.versions[t] = Null THEN 3
        ELSE IF ~OwnsSession(d5, t, s) THEN 5
        ELSE 6
  IN  SubSeq(<<d1, d2, d3, d4, d5, d6>>, 1, reached)

Resolved(t, s) == Len(Writes(t, s)) = 6

\* createQueuedRun.  A refusal (409) keeps what was written before it.
SubmitAs(t, s, w) ==
  /\ store' = Last(<<store>> \o Writes(t, s))
  /\ IF Resolved(t, s)
     THEN /\ Len(runs) < MaxRuns
          /\ runs' = Append(runs, [tenant |-> t, session |-> s, workspace |-> w])
     ELSE UNCHANGED runs

SessionOwner(s) ==
  LET used == {i \in 1..Len(runs) : runs[i].session = s}
  IN  IF used = {} THEN Null ELSE runs[Min(used)].tenant

\* auditResource: who was let through to which run.
Audit(outcome, t, i) ==
  action' = IF outcome = "DENY" THEN NoAction ELSE IF runs'[i].tenant = t THEN "own" ELSE "foreign"

\* POST /runs: the body is read before the caller is known.
SubmitRun(t, s, w) ==
  /\ Principal(t, "tasks:write") /\ GetForTenant(w, t)
  /\ SessionOwner(s) \in {Null, t}
  /\ SubmitAs(t, s, w)
  /\ IF Resolved(t, s) THEN Audit("ALLOW", t, Len(runs) + 1) ELSE Unaudited
  /\ UNCHANGED <<config, credential, users, workspaces, conversations, request>>

\* POST /conversations/:id/messages: conversation and workspace are looked up,
\* then the body is awaited.  The submission is not audited.
MessageReads(q, t, s) ==
  /\ Principal(t, "tasks:write")
  /\ conversations[s] # Null /\ conversations[s].tenant = t
  /\ GetForTenant(conversations[s].workspace, t)
  /\ Await(q, [Idle EXCEPT !.kind = "message", !.tenant = t, !.session = s,
                           !.workspace = conversations[s].workspace])
  /\ UNCHANGED <<config, credential, users, store, workspaces, conversations, runs>> /\ Unaudited

MessageSubmits(q) ==
  /\ request[q].kind = "message"
  /\ SubmitAs(request[q].tenant, request[q].session, request[q].workspace)
  /\ request' = [request EXCEPT ![q] = Idle]
  /\ UNCHANGED <<config, credential, users, workspaces, conversations>> /\ Unaudited

-----------------------------------------------------------------------------
(* Actions on a run *)

Owned(i, t) == runs[i].tenant = t

\* The 404 for a run of another tenant.
ActionRefused(t, i) ==
  /\ Principal(t, "tasks:write") /\ ~Owned(i, t)
  /\ UNCHANGED <<config, credential, users, store, workspaces, conversations, runs, request>>
  /\ Audit("DENY", t, i)

InterruptRun(t, i) ==
  /\ Principal(t, "tasks:write") /\ Owned(i, t)
  /\ UNCHANGED <<config, credential, users, store, workspaces, conversations, runs, request>>
  /\ Audit("ALLOW", t, i)

\* resume and resolve-unknown-effect await their body after the check.
ActionReads(q, t, i) ==
  /\ Principal(t, "tasks:write") /\ Owned(i, t)
  /\ \E kind \in {"resume", "resolve"} :
       Await(q, [Idle EXCEPT !.kind = kind, !.tenant = t, !.run = i])
  /\ UNCHANGED <<config, credential, users, store, workspaces, conversations, runs>> /\ Unaudited

ResumeRun(q) ==
  /\ request[q].kind = "resume"
  /\ request' = [request EXCEPT ![q] = Idle]
  /\ UNCHANGED <<config, credential, users, store, workspaces, conversations, runs>>
  /\ Audit("ALLOW", request[q].tenant, request[q].run)

\* The ruling may be rejected, which is audited too.
ResolveUnknownEffect(q) ==
  /\ request[q].kind = "resolve"
  /\ request' = [request EXCEPT ![q] = Idle]
  /\ UNCHANGED <<config, credential, users, store, workspaces, conversations, runs>>
  /\ \E outcome \in {"ALLOW", "DENY"} :
       Audit(outcome, request[q].tenant, request[q].run)

\* A body that is not JSON, an input that is too long, a lost connection.
RequestFails(q) ==
  /\ request[q].kind # "idle"
  /\ request' = [request EXCEPT ![q] = Idle]
  /\ UNCHANGED <<config, credential, users, store, workspaces, conversations, runs>> /\ Unaudited

-----------------------------------------------------------------------------
(* Process *)

\* reconcileAfterRestart makes an instance that was being provisioned READY.
Reconciled(d) ==
  [d EXCEPT !.instances = [t \in Tenant |->
     IF d.instances[t] = Null THEN Null ELSE [d.instances[t] EXCEPT !.state = "READY"]]]

\* A stop or a crash, perhaps between two writes of a submission, and a start
\* with another configuration.
Restart ==
  /\ \/ store' = Reconciled(store)
     \/ \E t \in Tenant, s \in Session :
          /\ Principal(t, "tasks:write") /\ t \in Range(workspaces)
          /\ \E d \in ToSet(Writes(t, s)) : store' = Reconciled(d)
  /\ config' \in Config
  /\ request' = [q \in Request |-> Idle]
  /\ UNCHANGED <<credential, users, workspaces, conversations, runs>> /\ Unaudited

Next ==
  \/ \E k \in Token : CreateKey(k) \/ Logout(k) \/ Invalidate(k)
  \/ \E t \in Tenant : RegisterUser(t) \/ RevokeAllSessions(t)
  \/ \E q \in Request, t \in Tenant :
       LoginVerifies(q, t) \/ CreateWorkspaceReads(q, t)
  \/ \E q \in Request :
       \/ LoginInserts(q) \/ CreateWorkspace(q)
       \/ CreateConversation(q) \/ MessageSubmits(q) \/ ResumeRun(q)
       \/ ResolveUnknownEffect(q) \/ RequestFails(q)
  \/ \E q \in Request, t \in Tenant, w \in Workspace : CreateConversationReads(q, t, w)
  \/ \E q \in Request, t \in Tenant, s \in Session : MessageReads(q, t, s)
  \/ \E t \in Tenant, s \in Session, w \in Workspace : SubmitRun(t, s, w)
  \/ \E t \in Tenant, i \in 1..Len(runs) : ActionRefused(t, i) \/ InterruptRun(t, i)
  \/ \E q \in Request, t \in Tenant, i \in 1..Len(runs) : ActionReads(q, t, i)
  \/ Restart

Spec == Init /\ [][Next]_vars

-----------------------------------------------------------------------------
(* Properties *)

\* Mentions only what TLC can enumerate cheaply; the rest is in TenantsStayApart.
TypeOK ==
  /\ config \in Config
  /\ credential \in [Token -> [tenant : Tenant \cup {Null}, scopes : SUBSET Scope,
                          state : {"unused", "live", "revoked"}]]
  /\ users \subseteq Tenant
  /\ workspaces \in [Workspace -> Tenant \cup {Null}]
  /\ conversations \in [Session -> [tenant : Tenant, workspace : Workspace] \cup {Null}]
  /\ runs \in Seq([tenant : Tenant, session : Session, workspace : Workspace])
  /\ Len(runs) =< MaxRuns

\* Everything a run is bound to belongs to its tenant and exists, so execute
\* can never find it inconsistent: its workspace, its session, its version and
\* its instance.  No session mixes the runs of two tenants, whoever claimed it
\* first and however its conversation came to be; nobody acts on another
\* tenant's run; and a tenant that was left half made by a crash or by a bad
\* configuration has nothing that depends on the missing part.
TenantsStayApart ==
  /\ \A i \in 1..Len(runs) : LET r == runs[i] IN
       /\ workspaces[r.workspace] = r.tenant
       /\ store.sessions[r.session] = r.tenant
  /\ \A s \in Session :
       /\ store.sessions[s] # Null => store.instances[store.sessions[s]] # Null
       /\ conversations[s] # Null => workspaces[conversations[s].workspace] = conversations[s].tenant
  /\ \A t \in Tenant :
       /\ store.instances[t] # Null =>
            /\ store.versions[t] # Null
            /\ store.profiles[store.instances[t].profile] # Null
            /\ store.instances[t].state = "READY"
       /\ store.versions[t] # Null => t \in store.templates
  /\ action # "foreign"
=============================================================================
