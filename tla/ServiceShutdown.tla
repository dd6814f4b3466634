--------------------------- MODULE ServiceShutdown --------------------------
(***************************************************************************)
(* The life of the process around its runs: start, the pump's ticks, the   *)
(* drain in flight, an orderly stop, and the pool of warm containers that  *)
(* runs lease from, that is replenished behind them and that is closed     *)
(* last.  A container is one the pool made: a cold one is its sandbox's    *)
(* own affair (ManagedRuntime).  Any docker command may fail.              *)
(***************************************************************************)
EXTENDS Integers, FiniteSets

CONSTANTS
  Run,
  Key,         \* tenant and creation arguments
  KeyOf,       \* [Run -> Key]
  Container,   \* names of warm containers, each used once
  Capacity,    \* warmPoolSize
  MaxStarts,   \* bound on starts of the process
  Null

\* What the proofs use of the constants: warmPoolSize is a number, the pool's
\* map has finitely many keys, and the name of a container is none of the words
\* that stand for its absence.
Configured ==
  /\ KeyOf \in [Run -> Key]
  /\ IsFiniteSet(Key)
  /\ Capacity \in Nat /\ MaxStarts \in Nat \ {0}
  /\ Null \notin Container /\ "none" \notin Container /\ "asked" \notin Container

VARIABLES
  starts,      \* starts of the process so far
  phase,       \* "starting", "started", then the steps of close
  inFlight,    \* RunQueuePump.inFlight: a drain is running
  run,         \* Run -> [at, box]: the progress of its invocation
  entries,     \* Key -> the idle container, or Null
  pending,     \* Key -> "none", "asked", or the container being created
  pool,        \* [initialized, closed, leaving]
  docker,      \* Container -> see DockerState
  removing,    \* containers whose removal runs in the background
  unremoved,   \* history: those whose removal failed or was never reached
  late         \* history: those that came after the pool had looked

vars ==
  <<starts, phase, inFlight, run, entries, pending, pool, docker, removing, unremoved, late>>

\* creating: docker run is on its way.  renaming: warm, and the docker rename
\* of a process that died may still turn it into the container of a sandbox.
DockerState == {"none", "creating", "warm", "renaming", "leased", "gone"}

NewPool == [initialized |-> "no", closed |-> FALSE, leaving |-> {}]
Idle == [at |-> "none", box |-> Null]

Init ==
  /\ starts = 1
  /\ phase = "starting"
  /\ inFlight = FALSE
  /\ run = [r \in Run |-> Idle]
  /\ entries = [k \in Key |-> Null]
  /\ pending = [k \in Key |-> "none"]
  /\ pool = NewPool
  /\ docker = [c \in Container |-> "none"]
  /\ removing = {}
  /\ unremoved = {} /\ late = {}

InProgress == {r \in Run : run[r].at \in {"taking", "claimed", "cold", "executing"}}
Creating == {k \in Key : pending[k] # "none"}
Held == {k \in Key : entries[k] # Null}
Made == {pending[k] : k \in Key} \cap Container
Claimed == {run[r].box : r \in {q \in Run : run[q].at = "claimed"}}
Warm == {c \in Container : docker[c] \in {"warm", "renaming"}}

\* rm --force of c; its exit status tells, or is ignored.
Removed(c, succeeds) ==
  /\ docker' = IF succeeds THEN [docker EXCEPT ![c] = "gone"] ELSE docker
  /\ unremoved' = IF succeeds THEN unremoved ELSE unremoved \cup {c}

-----------------------------------------------------------------------------
(* Start, ticks and drains *)

\* startOnce: recovery removes what sandboxes of an earlier process left, as
\* far as docker lets it; the pump ticks at once.
Start ==
  /\ phase = "starting"
  /\ phase' = "started"
  /\ inFlight' = TRUE
  /\ \E left \in SUBSET {c \in Container : docker[c] = "leased"} :
       /\ docker' = [c \in Container |->
            IF docker[c] = "leased" /\ c \notin left THEN "gone" ELSE docker[c]]
       /\ unremoved' = unremoved \cup left
  /\ UNCHANGED <<starts, run, entries, pending, pool, removing, late>>

Submit(r) ==
  /\ phase = "started" /\ run[r].at = "none"
  /\ run' = [run EXCEPT ![r].at = "queued"]
  /\ inFlight' = TRUE
  /\ UNCHANGED <<starts, phase, entries, pending, pool, docker, removing, unremoved, late>>

Tick ==
  /\ phase = "started" /\ ~inFlight
  /\ inFlight' = TRUE
  /\ UNCHANGED <<starts, phase, run, entries, pending, pool, docker, removing, unremoved, late>>

\* A pass that was asked for goes on claiming after stop was called.
Claim(r) ==
  /\ inFlight /\ run[r].at = "queued"
  /\ run' = [run EXCEPT ![r].at = "taking"]
  /\ UNCHANGED <<starts, phase, inFlight, entries, pending, pool, docker, removing, unremoved, late>>

\* The drain's promise settles with the last of its invocations.
DrainEnds ==
  /\ inFlight /\ InProgress = {}
  /\ inFlight' = FALSE
  /\ UNCHANGED <<starts, phase, run, entries, pending, pool, docker, removing, unremoved, late>>

-----------------------------------------------------------------------------
(* ContainerWarmPool *)

\* initialize, shared by all callers and never tried again: it removes what an
\* earlier process kept warm, and refuses a container that was leased since.  It
\* lists them once: what is renamed before its turn comes is not found by the
\* name in the list, which counts as removed.
Initialize ==
  /\ pool.initialized = "no"
  /\ (\E r \in Run : run[r].at = "taking") \/ Creating # {}
  /\ \/ /\ \A c \in Container : docker[c] # "leased"
        /\ pool' = [pool EXCEPT !.initialized = "ok"]
        /\ \E renamed \in SUBSET {c \in Container : docker[c] = "renaming"} :
             docker' = [c \in Container |->
               IF c \in renamed THEN "leased" ELSE IF c \in Warm THEN "gone" ELSE docker[c]]
        /\ UNCHANGED unremoved
     \/ /\ pool' = [pool EXCEPT !.initialized = "failed"]
        /\ \E left \in SUBSET Warm :
             /\ docker' = [c \in Container |-> IF c \in Warm \ left THEN "gone" ELSE docker[c]]
             /\ unremoved' = unremoved \cup left
  /\ UNCHANGED <<starts, phase, inFlight, run, entries, pending, removing, late>>

\* take up to its first command: the claim is made before any I/O.
Take(r) ==
  /\ run[r].at = "taking" /\ pool.initialized # "no"
  /\ LET k == KeyOf[r] IN
       \/ /\ pool.initialized = "failed" \/ pool.closed
          /\ run' = [run EXCEPT ![r] = [at |-> "done", box |-> Null]]
          /\ UNCHANGED entries
       \/ /\ pool.initialized = "ok" /\ ~pool.closed
          /\ run' = [run EXCEPT ![r] =
               IF entries[k] = Null THEN [at |-> "cold", box |-> Null]
                                    ELSE [at |-> "claimed", box |-> entries[k]]]
          /\ entries' = [entries EXCEPT ![k] = Null]
  /\ UNCHANGED <<starts, phase, inFlight, pending, pool, docker, removing, unremoved, late>>

\* inspect and rename.  One that died is replaced by a cold start, unless it
\* cannot be removed; one that cannot be renamed fails the run.
Lease(r) ==
  /\ run[r].at = "claimed"
  /\ LET c == run[r].box IN
       \/ /\ docker' = [docker EXCEPT ![c] = "leased"]
          /\ run' = [run EXCEPT ![r].at = "executing"]
          /\ UNCHANGED unremoved
       \/ \E succeeds \in BOOLEAN, next \in {"cold", "done"} :
            /\ ~succeeds => next = "done"
            /\ Removed(c, succeeds)
            /\ run' = [run EXCEPT ![r] = [at |-> next, box |-> Null]]
  /\ UNCHANGED <<starts, phase, inFlight, entries, pending, pool, removing, late>>

ColdStart(r) ==
  /\ run[r].at = "cold"
  /\ \E next \in {"executing", "done"} : run' = [run EXCEPT ![r].at = next]
  /\ UNCHANGED <<starts, phase, inFlight, entries, pending, pool, docker, removing, unremoved, late>>

MayWarm(k) ==
  /\ ~pool.closed /\ entries[k] = Null /\ pending[k] = "none"
  /\ Cardinality(Held) + Cardinality(Creating) < Capacity

\* terminate: what rm says is ignored; the replenishment is not awaited.
Terminate(r) ==
  /\ run[r].at = "executing"
  /\ LET c == run[r].box IN
       IF c = Null THEN UNCHANGED <<docker, unremoved>>
       ELSE \E succeeds \in BOOLEAN : Removed(c, succeeds)
  /\ run' = [run EXCEPT ![r] = [at |-> "done", box |-> Null]]
  /\ pending' = IF MayWarm(KeyOf[r]) THEN [pending EXCEPT ![KeyOf[r]] = "asked"] ELSE pending
  /\ UNCHANGED <<starts, phase, inFlight, entries, pool, removing, late>>

\* create: docker run is issued, or fails without a container.
CreateRuns(k) ==
  /\ pending[k] = "asked" /\ pool.initialized # "no"
  /\ \/ /\ pool.initialized = "ok"
        /\ \E c \in Container : docker[c] = "none"
        /\ LET c == CHOOSE n \in Container : docker[n] = "none" IN
             /\ docker' = [docker EXCEPT ![c] = "creating"]
             /\ pending' = [pending EXCEPT ![k] = c]
     \/ /\ pending' = [pending EXCEPT ![k] = "none"]
        /\ UNCHANGED docker
  /\ UNCHANGED <<starts, phase, inFlight, run, entries, pool, removing, unremoved, late>>

\* docker has made the container, for the pool or for a process that died:
\* then only a pool that has not looked yet will find it.
ContainerAppears(c) ==
  /\ docker[c] = "creating"
  /\ docker' = [docker EXCEPT ![c] = "warm"]
  /\ late' = IF c \in Made \/ pool.initialized = "no" THEN late ELSE late \cup {c}
  /\ UNCHANGED <<starts, phase, inFlight, run, entries, pending, pool, removing, unremoved>>

\* The command's result: the container is kept with its timer, or removed.
CreateReturns(k) ==
  /\ pending[k] \in Container /\ docker[pending[k]] # "creating"
  /\ LET c == pending[k] IN
       \/ /\ entries' = [entries EXCEPT ![k] = c]
          /\ UNCHANGED <<docker, unremoved>>
       \/ /\ \E succeeds \in BOOLEAN : Removed(c, succeeds)
          /\ UNCHANGED entries
  /\ pending' = [pending EXCEPT ![k] = "none"]
  /\ UNCHANGED <<starts, phase, inFlight, run, pool, removing, late>>

\* The timer of an idle container; a claim has cleared it.
TtlExpires(k) ==
  /\ entries[k] # Null
  /\ entries' = [entries EXCEPT ![k] = Null]
  /\ removing' = removing \cup {entries[k]}
  /\ UNCHANGED <<starts, phase, inFlight, run, pending, pool, docker, unremoved, late>>

RemoveReturns(c) ==
  /\ c \in removing
  /\ removing' = removing \ {c}
  /\ \E succeeds \in BOOLEAN : Removed(c, succeeds)
  /\ UNCHANGED <<starts, phase, inFlight, run, entries, pending, pool, late>>

-----------------------------------------------------------------------------
(* HarnessProcess.close *)

\* HarnessApplication.stop: no new runs, no ticks.
Stop ==
  /\ phase = "started"
  /\ phase' = "draining"
  /\ UNCHANGED <<starts, inFlight, run, entries, pending, pool, docker, removing, unremoved, late>>

\* stopAndDrain returns.  The interrupts that follow find no invocation left
\* to interrupt; then the pool is closed.
StopReturns ==
  /\ phase = "draining" /\ ~inFlight
  /\ phase' = "closing pool"
  /\ pool' = [pool EXCEPT !.closed = TRUE]
  /\ UNCHANGED <<starts, inFlight, run, entries, pending, docker, removing, unremoved, late>>

\* Mutant of ClosePool: what is being created is not waited for.
ClosePoolAtOnce ==
  /\ phase = "closing pool"
  /\ phase' = "removing"
  /\ pool' = [pool EXCEPT !.leaving = {entries[k] : k \in Held}]
  /\ entries' = [k \in Key |-> Null]
  /\ UNCHANGED <<starts, inFlight, run, pending, docker, removing, unremoved, late>>

\* close, past Promise.allSettled(pending): the entries are taken down.
ClosePool ==
  /\ phase = "closing pool" /\ Creating = {}
  /\ phase' = "removing"
  /\ pool' = [pool EXCEPT !.leaving = {entries[k] : k \in Held}]
  /\ entries' = [k \in Key |-> Null]
  /\ UNCHANGED <<starts, inFlight, run, pending, docker, removing, unremoved, late>>

\* One after the other; a removal that fails ends the loop and the close, and
\* leaves the others to the next process.
CloseRemoves(c) ==
  /\ phase = "removing" /\ c \in pool.leaving
  /\ \/ /\ pool' = [pool EXCEPT !.leaving = @ \ {c}]
        /\ docker' = [docker EXCEPT ![c] = "gone"]
        /\ UNCHANGED <<phase, unremoved>>
     \/ /\ pool' = [pool EXCEPT !.leaving = {}]
        /\ unremoved' = unremoved \cup pool.leaving
        /\ phase' = "closed"
        /\ UNCHANGED docker
  /\ UNCHANGED <<starts, inFlight, run, entries, pending, removing, late>>

\* database.close
CloseReturns ==
  /\ phase = "removing" /\ pool.leaving = {}
  /\ phase' = "closed"
  /\ UNCHANGED <<starts, inFlight, run, entries, pending, pool, docker, removing, unremoved, late>>

\* Another process, after an orderly close or at any moment after a crash.  The
\* docker commands that were under way outlive the process that issued them:
\* removals, the docker run of a creation, the rename of a lease.
Restart ==
  /\ starts < MaxStarts
  /\ starts' = starts + 1
  /\ phase' = "starting"
  /\ inFlight' = FALSE
  /\ run' = [r \in Run |-> IF r \in InProgress THEN [at |-> "done", box |-> Null] ELSE run[r]]
  /\ entries' = [k \in Key |-> Null]
  /\ pending' = [k \in Key |-> "none"]
  /\ pool' = NewPool
  /\ \E renaming \in SUBSET Claimed :
       docker' = [c \in Container |-> IF c \in renaming THEN "renaming" ELSE docker[c]]
  /\ UNCHANGED <<removing, unremoved, late>>

LateRename(c) ==
  /\ docker[c] = "renaming"
  /\ docker' = [docker EXCEPT ![c] = "leased"]
  /\ UNCHANGED <<starts, phase, inFlight, run, entries, pending, pool, removing, unremoved, late>>

Next ==
  \/ Start \/ Tick \/ DrainEnds \/ Initialize
  \/ \E r \in Run : Submit(r) \/ Claim(r) \/ Take(r) \/ Lease(r) \/ ColdStart(r) \/ Terminate(r)
  \/ \E k \in Key : CreateRuns(k) \/ CreateReturns(k) \/ TtlExpires(k)
  \/ \E c \in Container : RemoveReturns(c) \/ CloseRemoves(c)
                        \/ ContainerAppears(c) \/ LateRename(c)
  \/ Stop \/ StopReturns \/ ClosePool \/ CloseReturns \/ Restart

Spec == Init /\ [][Next]_vars

-----------------------------------------------------------------------------
(* Properties *)

TypeOK ==
  /\ starts \in 1..MaxStarts
  /\ phase \in {"starting", "started", "draining", "closing pool", "removing", "closed"}
  /\ inFlight \in BOOLEAN
  /\ run \in [Run -> [at : {"none", "queued", "taking", "claimed", "cold", "executing", "done"},
                      box : Container \cup {Null}]]
  /\ entries \in [Key -> Container \cup {Null}]
  /\ pending \in [Key -> Container \cup {"none", "asked"}]
  /\ pool.initialized \in {"no", "ok", "failed"} /\ pool.leaving \subseteq Container
  /\ docker \in [Container -> DockerState]
  /\ removing \subseteq Container /\ unremoved \subseteq Container /\ late \subseteq Container

\* A warm container has one holder: the pool, its creation, the run that
\* claimed it, or its removal.  Forgotten are only those docker refused to
\* remove, those of an earlier process while the pool has not looked yet, and
\* those its docker run made after the pool had looked (late).
\* Entries and creations stay within the capacity.  Once the pool is being
\* closed no invocation is left that could still write or take, and after
\* the close nothing is being created and nothing is kept.
PoolIsDrained ==
  LET Kept == {entries[k] : k \in Held}
  IN  /\ \A c \in Warm :
           \/ c \in Claimed \cup Kept \cup Made \cup pool.leaving \cup removing
                    \cup unremoved \cup late
           \/ starts > 1 /\ pool.initialized = "no"
      /\ Claimed \cap Kept = {} /\ Made \cap Kept = {} /\ removing \cap Kept = {}
      /\ \A r, q \in Run : r # q /\ run[r].box # Null => run[r].box # run[q].box
      /\ Cardinality(Held) + Cardinality(Creating) =< Capacity
      /\ phase \in {"closing pool", "removing", "closed"} => ~inFlight /\ InProgress = {}
      /\ phase = "closed" => Held = {} /\ Creating = {}
=============================================================================
