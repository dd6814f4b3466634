------------------------------ MODULE Services ------------------------------
(***************************************************************************)
(* All services around the scheduler, explored one at a time: the first    *)
(* state picks one, and the variables of the others stay idle.             *)
(***************************************************************************)
EXTENDS RunServices

CONSTANTS
  \* admission
  AdmissionRun, TenantOf, MaxActiveRuns, MaxActiveRunsPerTenant, Budgets,
  Thresholds, VllmAnswers, GpuAnswers,
  \* console
  Conversation, MaxVersion, MaxInFlight,
  \* traffic
  Budget, NoticeTokens, ToolsTokens, Sizes, Documents, MaxMessages

VARIABLES
  \* admission
  evaluation, admissions,
  \* console
  S, server, post, leaving, seen,
  \* traffic
  history, forwarded, document, arguments, delivered

Admission == INSTANCE ResourceAdmission WITH Run <- AdmissionRun, decisions <- admissions
Console == INSTANCE UserConsole
Traffic == INSTANCE GatewayTraffic

\* What the proofs use of the constants is what each module says of its own.
ServicesConfigured ==
  /\ Gateway!Configured /\ Admission!Configured /\ Tenants!Configured
  /\ Timeline!Configured /\ Shutdown!Configured /\ Console!Configured
  /\ Traffic!Configured

-----------------------------------------------------------------------------
(* One component at a time: the variables of the others stay idle *)

gatewayVars ==
  <<strategy, prefixCache, failures, circuit, active, healthy, cursor,
    call, decisions, charges>>
admissionVars == <<evaluation, admissions>>
policyVars ==
  <<sandboxProfile, provider, platform, tenant, runPolicy, attempt>>
tenantVars ==
  <<config, credential, users, store, workspaces, conversations, runs,
    request, action>>
timelineVars ==
  <<mode, bound, execution, stage, session, tools, pipe, told, executions,
    listening, aborting, calls>>
shutdownVars ==
  <<starts, phase, inFlight, run, entries, pending, pool, docker, removing,
    unremoved, late>>
consoleVars == <<S, server, post, leaving, seen>>
trafficVars == <<history, forwarded, document, arguments, delivered>>
resultsVars ==
  <<files, writes, status, attempts, capturing, scan, memory, stored, copy,
    disk, rows, first, retaken, ahead>>

GatewayIdle ==
  /\ strategy = Null /\ prefixCache = Null /\ failures = Null /\ circuit = Null
  /\ active = Null /\ healthy = Null /\ cursor = Null
  /\ call = Null /\ decisions = Null /\ charges = Null

AdmissionIdle ==
  /\ evaluation = Null /\ admissions = Null

PoliciesIdle ==
  /\ provider = "local" /\ sandboxProfile = "development"
  /\ platform = UnrestrictedPolicy /\ tenant = Null
  /\ runPolicy = [r \in Run |-> Null] /\ attempt = [r \in Run |-> NoAttempt]

TenantsIdle ==
  /\ config = Null /\ credential = Null /\ users = Null /\ store = Null
  /\ workspaces = Null /\ conversations = Null /\ runs = Null /\ request = Null
  /\ action = Null

TimelineIdle ==
  /\ mode = Null /\ bound = Null /\ execution = Null /\ stage = Null /\ session = Null
  /\ tools = Null /\ pipe = Null /\ told = Null /\ executions = Null
  /\ listening = Null /\ aborting = Null /\ calls = Null

ShutdownIdle ==
  /\ starts = Null /\ phase = Null /\ inFlight = Null /\ run = Null
  /\ entries = Null /\ pending = Null /\ pool = Null /\ docker = Null
  /\ removing = Null /\ unremoved = Null /\ late = Null

ConsoleIdle ==
  /\ S = Null /\ server = Null /\ post = Null /\ leaving = Null /\ seen = Null

TrafficIdle ==
  /\ history = Null /\ forwarded = Null /\ document = Null /\ arguments = Null
  /\ delivered = Null

ResultsIdle ==
  /\ files = Null /\ writes = Null /\ status = Null /\ attempts = Null
  /\ capturing = Null /\ scan = Null /\ memory = Null /\ stored = Null
  /\ copy = Null /\ disk = Null /\ rows = Null /\ first = Null
  /\ retaken = Null /\ ahead = Null

ServicesInit ==
  \/ /\ component = "gateway" /\ Gateway!Init
     /\ AdmissionIdle /\ PoliciesIdle /\ TenantsIdle /\ TimelineIdle /\ ShutdownIdle
     /\ ConsoleIdle /\ TrafficIdle /\ ResultsIdle
  \/ /\ component = "admission" /\ Admission!Init
     /\ GatewayIdle /\ PoliciesIdle /\ TenantsIdle /\ TimelineIdle /\ ShutdownIdle
     /\ ConsoleIdle /\ TrafficIdle /\ ResultsIdle
  \/ /\ component = "policies" /\ Init
     /\ GatewayIdle /\ AdmissionIdle /\ TenantsIdle /\ TimelineIdle /\ ShutdownIdle
     /\ ConsoleIdle /\ TrafficIdle /\ ResultsIdle
  \/ /\ component = "tenants" /\ Tenants!Init
     /\ GatewayIdle /\ AdmissionIdle /\ PoliciesIdle /\ TimelineIdle /\ ShutdownIdle
     /\ ConsoleIdle /\ TrafficIdle /\ ResultsIdle
  \/ /\ component = "timeline" /\ Timeline!Init
     /\ GatewayIdle /\ AdmissionIdle /\ PoliciesIdle /\ TenantsIdle /\ ShutdownIdle
     /\ ConsoleIdle /\ TrafficIdle /\ ResultsIdle
  \/ /\ component = "shutdown" /\ Shutdown!Init
     /\ GatewayIdle /\ AdmissionIdle /\ PoliciesIdle /\ TenantsIdle /\ TimelineIdle
     /\ ConsoleIdle /\ TrafficIdle /\ ResultsIdle
  \/ /\ component = "console" /\ Console!Init
     /\ GatewayIdle /\ AdmissionIdle /\ PoliciesIdle /\ TenantsIdle /\ TimelineIdle
     /\ ShutdownIdle /\ TrafficIdle /\ ResultsIdle
  \/ /\ component = "traffic" /\ Traffic!Init
     /\ GatewayIdle /\ AdmissionIdle /\ PoliciesIdle /\ TenantsIdle /\ TimelineIdle
     /\ ShutdownIdle /\ ConsoleIdle /\ ResultsIdle
  \/ /\ component = "results" /\ Results!Init
     /\ GatewayIdle /\ AdmissionIdle /\ PoliciesIdle /\ TenantsIdle /\ TimelineIdle
     /\ ShutdownIdle /\ ConsoleIdle /\ TrafficIdle

GatewaySteps ==
  /\ component = "gateway" /\ Gateway!Next
  /\ UNCHANGED <<component, admissionVars, policyVars, tenantVars, timelineVars,
                  shutdownVars, consoleVars, trafficVars, resultsVars>>

AdmissionSteps ==
  /\ component = "admission" /\ Admission!Next
  /\ UNCHANGED <<component, gatewayVars, policyVars, tenantVars, timelineVars,
                  shutdownVars, consoleVars, trafficVars, resultsVars>>

PoliciesSteps ==
  /\ component = "policies" /\ Next
  /\ UNCHANGED <<component, gatewayVars, admissionVars, tenantVars, timelineVars,
                  shutdownVars, consoleVars, trafficVars, resultsVars>>

TenantsSteps ==
  /\ component = "tenants" /\ Tenants!Next
  /\ UNCHANGED <<component, gatewayVars, admissionVars, policyVars, timelineVars,
                  shutdownVars, consoleVars, trafficVars, resultsVars>>

TimelineSteps ==
  /\ component = "timeline" /\ Timeline!Next
  /\ UNCHANGED <<component, gatewayVars, admissionVars, policyVars, tenantVars,
                  shutdownVars, consoleVars, trafficVars, resultsVars>>

ShutdownSteps ==
  /\ component = "shutdown" /\ Shutdown!Next
  /\ UNCHANGED <<component, gatewayVars, admissionVars, policyVars, tenantVars,
                  timelineVars, consoleVars, trafficVars, resultsVars>>

ConsoleSteps ==
  /\ component = "console" /\ Console!Next
  /\ UNCHANGED <<component, gatewayVars, admissionVars, policyVars, tenantVars,
                  timelineVars, shutdownVars, trafficVars, resultsVars>>

TrafficSteps ==
  /\ component = "traffic" /\ Traffic!Next
  /\ UNCHANGED <<component, gatewayVars, admissionVars, policyVars, tenantVars,
                  timelineVars, shutdownVars, consoleVars, resultsVars>>

ResultsSteps ==
  /\ component = "results" /\ Results!Next
  /\ UNCHANGED <<component, gatewayVars, admissionVars, policyVars, tenantVars,
                  timelineVars, shutdownVars, consoleVars, trafficVars>>

ServicesNext ==
  \/ GatewaySteps \/ AdmissionSteps \/ PoliciesSteps \/ TenantsSteps
  \/ TimelineSteps \/ ShutdownSteps
  \/ ConsoleSteps \/ TrafficSteps \/ ResultsSteps

servicesVars ==
  <<component, gatewayVars, admissionVars, policyVars, tenantVars, timelineVars,
    shutdownVars, consoleVars, trafficVars, resultsVars>>

ServicesSpec == ServicesInit /\ [][ServicesNext]_servicesVars

-----------------------------------------------------------------------------
(* The properties of the one that was picked *)

\* Every component keeps its types, whatever it is asked to do.
ServicesTypeOK ==
  /\ component = "gateway" => Gateway!TypeOK
  /\ component = "admission" => Admission!TypeOK
  /\ component = "policies" => TypeOK
  /\ component = "tenants" => Tenants!TypeOK
  /\ component = "timeline" => Timeline!TypeOK
  /\ component = "shutdown" => Shutdown!TypeOK
  /\ component = "console" => Console!TypeOK
  /\ component = "traffic" => Traffic!TypeOK
  /\ component = "results" => Results!TypeOK

\* Starts are justified by what was observed and stay within the budgets.
AdmissionsAreSound == component = "admission" => Admission!AdmissionsAreSound

\* The page shows the open conversation, never an older answer over a newer one.
PageFollowsConversation == component = "console" => Console!PageFollowsConversation

\* Compacted requests and repaired arguments can be used.
TrafficStaysUsable == component = "traffic" => Traffic!TrafficStaysUsable
=============================================================================
