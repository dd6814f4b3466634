----------------------------- MODULE LlmGateway -----------------------------
(***************************************************************************)
(* LlmGateway, ModelRouter and BackendHealthMonitor: requests for one      *)
(* logical model are routed to its backends, fall back from one to the     *)
(* next, and every outcome feeds the circuit breakers.  The verdict on a   *)
(* relayed stream is given when the client has pulled it to its end, long  *)
(* after the request was decided.  Everything between two awaits is one    *)
(* step.  Time is seen only through the cooldown of a circuit.             *)
(***************************************************************************)
EXTENDS Integers, Sequences, FiniteSets, SequencesExt

CONSTANTS
  Call,      \* requests
  Backends,  \* how many backends the logical model has
  Threshold  \* circuitBreakerThreshold

\* What the proofs use of the constants.
Configured == IsFiniteSet(Call) /\ Backends \in Nat /\ Threshold \in Nat

VARIABLES
  strategy,     \* loadBalancing
  prefixCache,  \* prefixCacheEnabled
  failures,     \* BackendState.consecutiveFailures
  circuit,      \* circuitOpenUntil: 0, in the future, or in the past
  active,       \* activeRequests
  healthy,      \* the last probe's finding
  cursor,       \* roundRobinCursor
  call,         \* the requests
  decisions,    \* Call -> the decisions recorded for it
  charges       \* Backend -> Call -> failures charged since its last success (history)

router == <<strategy, prefixCache, failures, circuit, active, healthy, cursor>>
vars == <<router, call, decisions, charges>>

\* In configured order.
Backend == 1..Backends

\* headers: fetch has been called.  body: a JSON answer is being read.  relay:
\* the response is with the client, who pulls the stream.  tail: the stream
\* has ended, but the last lines are still to be pulled.
Point == {"new", "headers", "body", "relay", "tail", "over"}

\* rest: candidates not tried yet.  content: what is relayed.  finished: the
\* end of the answer was seen.  broke: it will never be.  cut: bytes were left
\* to deliver when the upstream ended.
CallState == [pc : Point, tried : Seq(Backend), rest : Seq(Backend),
              content : {"none", "stream", "json"},
              finished : BOOLEAN, broke : BOOLEAN, cut : BOOLEAN]

NewCall == [pc |-> "new", tried |-> <<>>, rest |-> <<>>, content |-> "none",
            finished |-> FALSE, broke |-> FALSE, cut |-> FALSE]

TypeOK ==
  /\ strategy \in {"priority", "round-robin", "least-active"}
  /\ prefixCache \in BOOLEAN
  /\ failures \in [Backend -> Nat]
  /\ circuit \in [Backend -> {"closed", "cooling", "cooled"}]
  /\ active \in [Backend -> Nat]
  /\ healthy \in [Backend -> BOOLEAN]
  /\ cursor \in Nat
  /\ call \in [Call -> CallState]
  /\ decisions \in [Call -> Seq({"SUCCESS", "FAILED"})]
  /\ charges \in [Backend -> [Call -> Nat]]

Init ==
  /\ strategy \in {"priority", "round-robin", "least-active"}
  /\ prefixCache \in BOOLEAN
  /\ failures = [b \in Backend |-> 0]
  /\ circuit = [b \in Backend |-> "closed"]
  /\ active = [b \in Backend |-> 0]
  /\ healthy = [b \in Backend |-> TRUE]
  /\ cursor = 0
  /\ call = [c \in Call |-> NewCall]
  /\ decisions = [c \in Call |-> <<>>]
  /\ charges = [b \in Backend |-> [c \in Call |-> 0]]

-----------------------------------------------------------------------------
(* ModelRouter *)

CircuitOk == {b \in Backend : circuit[b] # "cooling"}

\* When no probe succeeds the probes are ignored.
Usable ==
  LET up == {b \in CircuitOk : healthy[b]}
  IN  IF up = {} THEN CircuitOk ELSE up

\* How far the place of b in their list is behind the cursor, around its end.
Turn(b) == (Cardinality({a \in Usable : a < b}) - cursor) % Cardinality(Usable)

Before(a, b) ==
  \/ strategy = "priority" /\ a < b
  \/ strategy = "round-robin" /\ Turn(a) < Turn(b)
  \/ strategy = "least-active" /\ active[a] < active[b]
  \/ strategy = "least-active" /\ active[a] = active[b] /\ a < b

\* The one list of those that are usable, in the order of the strategy.
CandidatesFor ==
  {list \in [1..Cardinality(Usable) -> Usable] :
     \A i, j \in DOMAIN list : i < j => Before(list[i], list[j])}

AdvanceCursor ==
  cursor' = IF strategy = "round-robin" /\ Cardinality(Usable) > 1 THEN cursor + 1 ELSE cursor

\* Asking for candidates closes every circuit whose cooldown is over; the
\* failures that opened it stay, so the next one opens it again.
HalfOpen == [b \in Backend |-> IF circuit[b] = "cooled" THEN "closed" ELSE circuit[b]]

\* Mutant of RecordSuccess: a success takes one failure off the count, also
\* when there is none.
RecordSuccessForgiving(b) ==
  /\ failures' = [failures EXCEPT ![b] = @ - 1]
  /\ circuit' = [circuit EXCEPT ![b] = "closed"]
  /\ charges' = [charges EXCEPT ![b] = [c \in Call |-> 0]]

RecordSuccess(b) ==
  /\ failures' = [failures EXCEPT ![b] = 0]
  /\ circuit' = [circuit EXCEPT ![b] = "closed"]
  /\ charges' = [charges EXCEPT ![b] = [c \in Call |-> 0]]

RecordFailure(b, c) ==
  /\ failures' = [failures EXCEPT ![b] = @ + 1]
  /\ circuit' = [circuit EXCEPT ![b] = IF failures[b] + 1 >= Threshold THEN "cooling" ELSE @]
  /\ charges' = [charges EXCEPT ![b][c] = @ + 1]

NoVerdict == UNCHANGED <<failures, circuit, charges>>

\* Cooldowns and probes are read only when a request is routed: after the last
\* one they change nothing.
MoreToRoute == \E c \in Call : call[c].pc = "new"

Cool(b) ==
  /\ circuit[b] = "cooling" /\ MoreToRoute
  /\ circuit' = [circuit EXCEPT ![b] = "cooled"]
  /\ UNCHANGED <<strategy, prefixCache, failures, active, healthy, cursor, call,
                 decisions, charges>>

-----------------------------------------------------------------------------
(* BackendHealthMonitor *)

\* A new round starts when the last one has ended, so a probe of any backend
\* may be in flight, and each probe ends on its own.
ProbeBackend(b) ==
  /\ MoreToRoute
  /\ \E up \in BOOLEAN : healthy' = [healthy EXCEPT ![b] = up]
  /\ UNCHANGED <<strategy, prefixCache, failures, circuit, active, cursor, call, decisions,
                 charges>>

-----------------------------------------------------------------------------
(* LlmGateway.handleChatCompletions *)

At(c) == Last(call[c].tried)

Decide(c, status) == decisions' = [decisions EXCEPT ![c] = Append(@, status)]

\* Acquires the next candidate.
Send(x) == [x EXCEPT !.pc = "headers", !.tried = Append(@, Head(x.rest)), !.rest = Tail(@)]

Acquired(b) == [active EXCEPT ![b] = @ + 1]

Route(c) ==
  /\ call[c].pc = "new" /\ Usable # {}
  /\ circuit' = HalfOpen
  /\ AdvanceCursor
  /\ \E list \in CandidatesFor :
       /\ call' = [call EXCEPT ![c] = Send([@ EXCEPT !.rest = list])]
       /\ active' = Acquired(Head(list))
  /\ UNCHANGED <<strategy, prefixCache, failures, healthy, decisions, charges>>

\* Answered without a backend: with 503 when every circuit is open, with 404
\* for a model that has none.
Refuse(c) ==
  /\ call[c].pc = "new"
  /\ call' = [call EXCEPT ![c].pc = "over"]
  /\ Decide(c, "FAILED")
  /\ UNCHANGED <<router, charges>>

NoAvailableBackend(c) == CircuitOk = {} /\ Refuse(c)
ModelNotFound(c) == Refuse(c)

\* The finally block of tryBackend.
Released(b) == [active EXCEPT ![b] = IF @ > 0 THEN @ - 1 ELSE @]
Release(c) == active' = Released(At(c))

\* Network error, timeout, 429 or 5xx: the failure is recorded and the next
\* candidate of the list is tried, whatever its circuit is by now.
Retryable(c) ==
  /\ call[c].pc = "headers"
  /\ RecordFailure(At(c), c)
  /\ IF call[c].rest = <<>>
     THEN /\ call' = [call EXCEPT ![c].pc = "over", ![c].broke = TRUE]
          /\ Release(c)
          /\ Decide(c, "FAILED")
     ELSE /\ call' = [call EXCEPT ![c] = Send(@)]
          /\ active' = [Released(At(c)) EXCEPT ![Head(call[c].rest)] = @ + 1]
          /\ UNCHANGED decisions
  /\ UNCHANGED <<strategy, prefixCache, healthy, cursor>>

\* Mutant of ClientError: the backend is blamed for the request.
ClientErrorBlamed(c) ==
  /\ call[c].pc = "headers"
  /\ call' = [call EXCEPT ![c].pc = "over"]
  /\ Release(c) /\ Decide(c, "FAILED") /\ RecordFailure(At(c), c)
  /\ UNCHANGED <<strategy, prefixCache, healthy, cursor>>

\* Any other 4xx is the request's own fault: no fallback and no verdict.
ClientError(c) ==
  /\ call[c].pc = "headers"
  /\ call' = [call EXCEPT ![c].pc = "over"]
  /\ Release(c) /\ Decide(c, "FAILED") /\ NoVerdict
  /\ UNCHANGED <<strategy, prefixCache, healthy, cursor>>

\* 2xx.  With prefix caching a JSON answer is read here; everything else is
\* relayed, decided as a success at once, and judged when it ends.
Headers(c) ==
  /\ call[c].pc = "headers"
  /\ Release(c) /\ NoVerdict
  /\ \E content \in {"stream", "json"} :
       IF content = "json" /\ prefixCache
       THEN /\ call' = [call EXCEPT ![c].pc = "body", ![c].content = content]
            /\ UNCHANGED decisions
       ELSE /\ call' = [call EXCEPT ![c].pc = "relay", ![c].content = content]
            /\ Decide(c, "SUCCESS")
  /\ UNCHANGED <<strategy, prefixCache, healthy, cursor>>

BodyRead(c) ==
  /\ call[c].pc = "body"
  /\ call' = [call EXCEPT ![c].pc = "over", ![c].finished = TRUE]
  /\ RecordSuccess(At(c)) /\ Decide(c, "SUCCESS")
  /\ UNCHANGED <<strategy, prefixCache, active, healthy, cursor>>

\* upstream.text() throws outside of every try block: the handler fails
\* without a decision, a verdict or a fallback.
BodyBreaks(c) ==
  /\ call[c].pc = "body"
  /\ call' = [call EXCEPT ![c].pc = "over", ![c].broke = TRUE]
  /\ UNCHANGED <<router, decisions, charges>>

-----------------------------------------------------------------------------
(* wrapUpstreamStream *)

\* finish_reason or [DONE] passes by; a JSON body has neither.
StreamFinishes(c) ==
  /\ call[c].pc = "relay" /\ call[c].content = "stream" /\ ~call[c].finished
  /\ call' = [call EXCEPT ![c].finished = TRUE]
  /\ UNCHANGED <<router, decisions, charges>>

Verdict(c) ==
  IF call[c].finished THEN RecordSuccess(At(c)) ELSE RecordFailure(At(c), c)

\* The upstream has ended.  If lines are left to deliver (the held tail, or a
\* last line without a newline) the client pulls again, the ended upstream is
\* read again, and the verdict is given a second time.
StreamEnds(c) ==
  /\ call[c].pc = "relay"
  /\ Verdict(c)
  /\ \E cut \in BOOLEAN :
       call' = [call EXCEPT ![c].pc = IF cut THEN "tail" ELSE "over", ![c].cut = cut,
                            ![c].broke = call[c].content = "stream" /\ ~call[c].finished]
  /\ UNCHANGED <<strategy, prefixCache, active, healthy, cursor, decisions>>

TailPulled(c) ==
  /\ call[c].pc = "tail"
  /\ Verdict(c)
  /\ call' = [call EXCEPT ![c].pc = "over"]
  /\ UNCHANGED <<strategy, prefixCache, active, healthy, cursor, decisions>>

\* The connection breaks, or the timeout of the request aborts the stream.
StreamBreaks(c) ==
  /\ call[c].pc = "relay"
  /\ RecordFailure(At(c), c)
  /\ call' = [call EXCEPT ![c].pc = "over", ![c].broke = TRUE]
  /\ UNCHANGED <<strategy, prefixCache, active, healthy, cursor, decisions>>

\* The client disconnects: no verdict.
Cancel(c) ==
  /\ call[c].pc \in {"relay", "tail"}
  /\ call' = [call EXCEPT ![c].pc = "over"]
  /\ UNCHANGED <<router, decisions, charges>>

-----------------------------------------------------------------------------
\* Headers arrive or the timeout expires; bodies end the same way.  Relayed
\* streams move only as fast as the client pulls.
Upstream(c) ==
  Retryable(c) \/ ClientError(c) \/ Headers(c) \/ BodyRead(c) \/ BodyBreaks(c)

Relay(c) == StreamFinishes(c) \/ StreamEnds(c) \/ TailPulled(c) \/ StreamBreaks(c) \/ Cancel(c)

Next ==
  \/ \E c \in Call : Route(c) \/ NoAvailableBackend(c) \/ ModelNotFound(c)
  \/ \E c \in Call : Upstream(c) \/ Relay(c)
  \/ \E b \in Backend : Cool(b) \/ ProbeBackend(b)

Spec == Init /\ [][Next]_vars

-----------------------------------------------------------------------------
(* Properties *)

\* Whom a call may be charged to: a backend that failed it.  The exception is
\* named: without prefix caching a JSON answer is relayed as if it were a
\* stream, is never seen to finish, and counts as a failure.
Failed(c, b) ==
  LET x == call[c] IN
  \/ b \in ToSet(x.tried) /\ b # Last(x.tried)
  \/ x.tried # <<>> /\ b = Last(x.tried) /\ (x.broke \/ (x.content = "json" /\ ~prefixCache))

\* A circuit opens for the failures of distinct requests, never for what the
\* client did (a 4xx, a disconnect) nor for an answer that arrived.  A stream
\* that ends in the middle of a line counts twice.
BackendsAreJudgedFairly ==
  \A b \in Backend :
    /\ \A c \in Call :
         charges[b][c] > 0 => Failed(c, b) /\ charges[b][c] =< IF call[c].cut THEN 2 ELSE 1
    /\ circuit[b] # "closed" =>
         Threshold =< Cardinality({c \in Call : charges[b][c] > 0})
                        + Cardinality({c \in Call : charges[b][c] > 1})

\* Every request ends with exactly one decision, made when its answer began,
\* unless the body of a JSON answer broke; no backend is tried twice, and the
\* load of a backend is the requests whose answer has not begun.
RequestsAreAccounted ==
  /\ \A b \in Backend :
       active[b] = Cardinality({c \in Call : call[c].pc = "headers" /\ At(c) = b})
  /\ \A c \in Call :
       /\ IsInjective(call[c].tried)
       /\ Len(decisions[c]) =
            IF call[c].pc \in {"relay", "tail", "over"} /\ ~(prefixCache /\ call[c].content = "json" /\ call[c].broke)
            THEN 1 ELSE 0
=============================================================================
