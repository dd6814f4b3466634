------------------------- MODULE ResourceAdmission -------------------------
(***************************************************************************)
(* Whether a claimed run may start: the metrics of the inference server    *)
(* and of the GPUs are probed, classified against thresholds, and the      *)
(* policy (concurrency, tenant budgets) decides.  The facts a decision     *)
(* uses are read when the scheduler hands out the slot, before the probes  *)
(* are awaited; several runs are evaluated at once.  Every decision is     *)
(* stored with the snapshot it is based on.  Percentages are exact here,   *)
(* floating point in the code.                                             *)
(***************************************************************************)
EXTENDS Integers, Sequences, FiniteSets, SequencesExt

CONSTANTS
  Run, Tenant,
  TenantOf,       \* [Run -> Tenant]
  MaxActiveRuns,  \* of the scheduler and of the policy
  MaxActiveRunsPerTenant,
  Budgets,        \* tenants with a budget -> [weight, maxUnits]
  Thresholds,     \* ResourceThresholds
  VllmAnswers,    \* what /metrics may hold: the samples of each metric
  GpuAnswers,     \* what nvidia-smi may print: one row per GPU
  Null

VARIABLES
  evaluation,  \* Run -> where its attempt is, with the facts read for it
  decisions    \* Run -> its last decision, with the snapshot stored with it

vars == <<evaluation, decisions>>

Failure == {"TIMEOUT", "INVALID_RESPONSE", "UNAVAILABLE"}

Waiting == [pc |-> "waiting", all |-> 0, own |-> 0]
NoDecision == [action |-> "none", reasonCode |-> "none", snapshot |-> Null]

-----------------------------------------------------------------------------
(* The probes.  A metric with no sample is Null. *)

SumMetric(samples) == IF samples = <<>> THEN Null ELSE FoldSeq(+, 0, samples)
MaxMetric(samples) == IF samples = <<>> THEN Null ELSE Max(ToSet(samples))

Negative(x) == x # Null /\ x < 0

VllmInvalid(answer) ==
  \/ \A metric \in {"running", "waiting", "kv", "tokens"} : answer[metric] = <<>>
  \/ Negative(SumMetric(answer.running)) \/ Negative(SumMetric(answer.waiting))
  \/ Negative(SumMetric(answer.tokens))
  \/ MaxMetric(answer.kv) # Null /\ MaxMetric(answer.kv) \notin 0..100

ParseVllmMetrics(answer) ==
  IF VllmInvalid(answer) THEN [reason |-> "INVALID_RESPONSE"]
  ELSE [reason |-> "ok", running |-> SumMetric(answer.running),
        waiting |-> SumMetric(answer.waiting), kv |-> MaxMetric(answer.kv)]

SumColumn(rows, column) == FoldSeq(LAMBDA row, sum : row[column] + sum, 0, rows)

ParseNvidiaSmiCsv(rows) ==
  IF rows = <<>> \/ \E g \in ToSet(rows) : g.total < 0 \/ g.used < 0
  THEN [reason |-> "INVALID_RESPONSE"]
  ELSE [reason |-> "ok", total |-> SumColumn(rows, "total"), used |-> SumColumn(rows, "used")]

\* HTTP and the command end in time with an answer, or they do not.
NoAnswer == {[reason |-> f] : f \in {"TIMEOUT", "UNAVAILABLE"}}

ReadVllmMetrics == NoAnswer \cup {ParseVllmMetrics(answer) : answer \in VllmAnswers}

ReadNvidiaGpu == NoAnswer \cup {ParseNvidiaSmiCsv(rows) : rows \in GpuAnswers}

CombineFailureReasons(first, second) ==
  IF "TIMEOUT" \in {first, second} THEN "TIMEOUT"
  ELSE IF "INVALID_RESPONSE" \in {first, second} THEN "INVALID_RESPONSE" ELSE "UNAVAILABLE"

\* One probe may fail: its signals are Null.
Observe ==
  {IF v.reason # "ok" /\ n.reason # "ok"
   THEN [ok |-> FALSE, reason |-> CombineFailureReasons(v.reason, n.reason)]
   ELSE [ok |-> TRUE,
         snapshot |-> [gpu     |-> IF n.reason = "ok" THEN <<n.used, n.total>> ELSE Null,
                       kv      |-> IF v.reason = "ok" THEN v.kv ELSE Null,
                       running |-> IF v.reason = "ok" THEN v.running ELSE Null,
                       waiting |-> IF v.reason = "ok" THEN v.waiting ELSE Null]]
   : v \in ReadVllmMetrics, n \in ReadNvidiaGpu}

Snapshot == [gpu : {Null} \cup (Int \X Int), kv : {Null} \cup Int,
             running : {Null} \cup Int, waiting : {Null} \cup Int]

-----------------------------------------------------------------------------
(* classifyResource *)

Known(gpu) == gpu # Null /\ gpu[2] > 0

\* The share of GPU memory used above the baseline, compared with a limit.
GpuReaches(gpu, limit) ==
  LET used == gpu[1] * 100
      base == Thresholds.gpuMemoryBaselinePercent
  IN  IF base \in 1..99
      THEN Max({0, used - base * gpu[2]}) * 100 >= limit * (100 - base) * gpu[2]
      ELSE used >= limit * gpu[2]

Reaches(value, limit) == value # Null /\ value >= limit

Reasons(s, level) ==
  LET limit == Thresholds[level] IN
  {signal \in {"gpu", "kv", "running", "waiting"} :
     IF signal = "gpu" THEN Known(s.gpu) /\ GpuReaches(s.gpu, limit.gpu)
     ELSE Reaches(s[signal], limit[signal])}

ClassifyResource(s) ==
  IF ~Known(s.gpu) /\ s.kv = Null /\ s.running = Null /\ s.waiting = Null THEN "UNKNOWN"
  ELSE IF Reasons(s, "critical") # {} THEN "CRITICAL"
  ELSE IF Reasons(s, "busy") # {} THEN "BUSY" ELSE "NORMAL"

-----------------------------------------------------------------------------
(* DeterministicExecutionPolicy, BudgetAwareExecutionPolicy *)

Decision(action, reason) == [action |-> action, reasonCode |-> reason]

BaseDecision(pressure, all, own) ==
  CASE pressure = "CRITICAL"                          -> Decision("QUEUE", "RESOURCE_CRITICAL")
    [] pressure = "UNKNOWN"                           -> Decision("QUEUE", "RESOURCE_UNKNOWN")
    [] pressure \in {"BUSY", "NORMAL"} /\ all >= MaxActiveRuns ->
         Decision("QUEUE", "GLOBAL_CONCURRENCY_LIMIT")
    [] pressure = "BUSY" /\ all < MaxActiveRuns /\ own > 0  ->
         Decision("QUEUE", "RESOURCE_BUSY_TENANT_LIMIT")
    [] pressure = "BUSY" /\ all < MaxActiveRuns /\ own = 0  ->
         Decision("START", "RESOURCE_BUSY_TENANT_AVAILABLE")
    [] OTHER                                          -> Decision("START", "RESOURCE_NORMAL")

Weight(t) == IF t \in DOMAIN Budgets THEN Budgets[t].weight ELSE 1

TotalWeight == FoldSet(LAMBDA u, sum : Budgets[u].weight + sum, 0, DOMAIN Budgets)

\* A tenant without a budget counts with weight 1, but not in the total.
FairShareUnits(t) == (MaxActiveRuns * Weight(t)) \div TotalWeight

Ceiling(t) ==
  IF t \in DOMAIN Budgets THEN Min({FairShareUnits(t), Budgets[t].maxUnits}) ELSE FairShareUnits(t)

\* Mutant of Decide: the budget is checked before the run is counted.
DecideOneOver(t, pressure, all, own) ==
  LET base == BaseDecision(pressure, all, own) IN
  IF base.action = "START" /\ Budgets # <<>> /\ Ceiling(t) - own < 0
  THEN Decision("QUEUE", "TENANT_BUDGET_EXCEEDED") ELSE base

\* Without any budget the base policy decides alone.
Decide(t, pressure, all, own) ==
  LET base == BaseDecision(pressure, all, own) IN
  IF base.action = "START" /\ Budgets # <<>> /\ Ceiling(t) - own < 1
  THEN Decision("QUEUE", "TENANT_BUDGET_EXCEEDED") ELSE base

\* What the proofs use of the constants: samples and what is configured are
\* numbers, and what stands for the absence of a value is none of them.  The
\* constructors and parseTenantBudgets check the configuration.
Configured ==
  /\ IsFiniteSet(Run) /\ TenantOf \in [Run -> Tenant]
  /\ MaxActiveRuns \in Nat /\ MaxActiveRunsPerTenant \in Nat
  /\ IsFiniteSet(DOMAIN Budgets)
  /\ Budgets \in [DOMAIN Budgets -> [weight : Nat \ {0}, maxUnits : Nat \ {0}]]
  /\ Thresholds \in [busy     : [gpu : Int, kv : Int, running : Int, waiting : Int],
                    critical : [gpu : Int, kv : Int, running : Int, waiting : Int],
                    gpuMemoryBaselinePercent : Int]
  /\ VllmAnswers \subseteq [running : Seq(Int), waiting : Seq(Int), kv : Seq(Int), tokens : Seq(Int)]
  /\ GpuAnswers \subseteq Seq([total : Int, used : Int])
  /\ Null \notin Int /\ Null \notin Int \X Int /\ Null \notin Snapshot

-----------------------------------------------------------------------------
(* The attempts of the coordinator around ResourceAdmissionService.evaluate *)

Init ==
  /\ evaluation = [r \in Run |-> Waiting]
  /\ decisions = [r \in Run |-> NoDecision]

Active == {r \in Run : evaluation[r].pc # "waiting"}
ActiveOf(t) == {r \in Active : TenantOf[r] = t}

\* The slot is taken, then the facts are read without it.
Claim(r) ==
  /\ evaluation[r].pc = "waiting"
  /\ Cardinality(Active) < MaxActiveRuns
  /\ Cardinality(ActiveOf(TenantOf[r])) < MaxActiveRunsPerTenant
  /\ evaluation' = [evaluation EXCEPT ![r] =
       [pc |-> "observing", all |-> Cardinality(Active),
        own |-> Cardinality(ActiveOf(TenantOf[r]))]]
  /\ UNCHANGED decisions

\* PolicyDecisionStore: a decision is stored with the snapshot it names, or
\* with the reason why there is none.  The evidence of a refusal is not kept
\* in the model.
EvidenceMatchesDecision(d, o) ==
  IF d.reasonCode = "RESOURCE_OBSERVATION_FAILED" THEN ~o.ok /\ d.action = "QUEUE" ELSE o.ok

Save(r, d, o) ==
  /\ EvidenceMatchesDecision(d, o)
  /\ decisions' = [decisions EXCEPT ![r] =
       [action |-> d.action, reasonCode |-> d.reasonCode,
        snapshot |-> IF d.action = "START" THEN o.snapshot ELSE Null]]

\* evaluate: the decision and its evidence are stored together.
Evaluate(r) ==
  /\ evaluation[r].pc = "observing"
  /\ \E o \in Observe :
       LET d == IF ~o.ok THEN Decision("QUEUE", "RESOURCE_OBSERVATION_FAILED")
                ELSE Decide(TenantOf[r], ClassifyResource(o.snapshot), evaluation[r].all,
                            evaluation[r].own)
       IN  /\ Save(r, d, o)
           /\ evaluation' = [evaluation EXCEPT ![r] =
                IF d.action = "START" THEN [@ EXCEPT !.pc = "running"] ELSE Waiting]

\* The probes or the store throw: the slot is given back.
EvaluateThrows(r) ==
  /\ evaluation[r].pc = "observing"
  /\ evaluation' = [evaluation EXCEPT ![r] = Waiting]
  /\ UNCHANGED decisions

Finish(r) ==
  /\ evaluation[r].pc = "running"
  /\ evaluation' = [evaluation EXCEPT ![r] = Waiting]
  /\ decisions' = [decisions EXCEPT ![r] = NoDecision]

Next == \E r \in Run : Claim(r) \/ Evaluate(r) \/ EvaluateThrows(r) \/ Finish(r)

Spec == Init /\ [][Next]_vars

-----------------------------------------------------------------------------
(* Properties *)

TypeOK ==
  /\ evaluation \in [Run -> [pc : {"waiting", "observing", "running"},
                             all : 0..MaxActiveRuns, own : 0..MaxActiveRunsPerTenant]]
  /\ \A r \in Run :
       /\ decisions[r].action \in {"none", "START", "QUEUE"}
       /\ decisions[r].snapshot = Null \/ decisions[r].snapshot \in Snapshot

Running == {r \in Run : evaluation[r].pc = "running"}

Observed(s) == s.gpu # Null \/ s.kv # Null \/ s.running # Null \/ s.waiting # Null

\* What a person would accept as evidence: something was observed, nothing
\* observed is critical, and of the runs of a tenant at most one was started
\* while the machine was busy.  The memory the inference server holds from
\* the start does not count, when what is configured can be a share of it.
Busy(s, level) ==
  LET limit == Thresholds[level]
      base  == IF Thresholds.gpuMemoryBaselinePercent \in 1..99
               THEN Thresholds.gpuMemoryBaselinePercent ELSE 0
  IN  \/ s.kv # Null /\ s.kv >= limit.kv
      \/ s.running # Null /\ s.running >= limit.running
      \/ s.waiting # Null /\ s.waiting >= limit.waiting
      \/ /\ s.gpu # Null /\ s.gpu[2] > 0
         /\ \E more \in 0..s.gpu[1] :  \* MiB above the baseline
              /\ base * s.gpu[2] + more * 100 =< s.gpu[1] * 100 \/ more = 0
              /\ more * 10000 >= limit.gpu * (100 - base) * s.gpu[2]

StartsAreJustified ==
  /\ \A r \in Running :
       LET s == decisions[r].snapshot IN
       s # Null /\ ~Busy(s, "critical") /\ Observed(s)
  /\ \A r1, r2 \in Running :
       /\ r1 # r2 /\ TenantOf[r1] = TenantOf[r2]
       => ~(Busy(decisions[r1].snapshot, "busy") /\ Busy(decisions[r2].snapshot, "busy"))

\* However the evaluations overlap, no tenant runs more than its budget and
\* its share, although every decision is made from facts read before the
\* probes were awaited.
BudgetsAreKept ==
  Budgets # <<>> => \A t \in Tenant :
    Cardinality({r \in Running : TenantOf[r] = t}) =< Ceiling(t)

\* Both of what an admission promises, to the machine and to the tenants.
AdmissionsAreSound == StartsAreJustified /\ BudgetsAreKept
=============================================================================
