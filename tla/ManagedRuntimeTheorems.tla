------------------------ MODULE ManagedRuntimeTheorems ------------------------
(***************************************************************************)
(* The safety of ManagedRuntime for every set of runs and instances and    *)
(* every bound.  The slot count, the rows and the containers are kept by   *)
(* different callers of terminate that overtake each other, so none of the *)
(* properties is inductive alone: that a settled row has no container      *)
(* depends on who holds the container's name, a slot on which call is      *)
(* waiting for docker, and the state of an instance on what a crash and    *)
(* the reconciliation leave.  The inductive invariant has a part for each  *)
(* attempt, each run, each removal, each instance, and one for the phases  *)
(* of the service.                                                         *)
(***************************************************************************)
EXTENDS ManagedRuntime, FiniteSetTheorems, TLAPS

Preparing == {"creating", "verifying", "discarding"}

\* The name of a container and its removal exclude each other, and a RUNNING
\* attempt is supervised and watched unless a crash cut it off.
AttemptInv(a) ==
  /\ attempt[a] = "none" <=> a[2] > tries[a[1]]
  /\ a[2] > tries[a[1]] => record[a] = "none"
  /\ a \in container \cup unreturned => record[a] # "none"
  /\ a \in named => record[a] = "ACTIVE" /\ a \notin BeingRemoved
  /\ a \in BeingRemoved => \/ record[a] \in {"ACTIVE", "TERMINATED", "LOST"}
                           \/ record[a] = "PROVISIONING" /\ life # "up"
  /\ a \in unreturned => a \notin Executing
  /\ attempt[a] = "RUNNING" =>
       /\ record[a] \in {"ACTIVE", "TERMINATED"}
       /\ \/ a \in Executing /\ call[a[1]] \in Supervised /\ a \in watched
          \/ crashes > 0 /\ (life = "up" => record[a] = "TERMINATED")

\* A container that nobody is removing and that is not left behind has an
\* unsettled row, and a name while the service that started it is up.  What a
\* dead service launched is executed by nobody.
ContainerInv(a) ==
  /\ a \in container => a \in BeingRemoved \cup leaked \/ record[a] \in Unsettled
  /\ life = "up" /\ a \in container /\ record[a] = "ACTIVE" =>
       a \in named \cup BeingRemoved \cup leaked
  /\ a \in launching => record[a] \in {"PROVISIONING", "LOST"} /\ a \notin Executing

RunInv(r) ==
  /\ call[r] # "idle" => tries[r] > 0
  /\ call[r] \in Preparing => record[Current(r)] = "PROVISIONING"
  /\ call[r] = "creating" => Current(r) \notin container

\* A removal that a call waits for is the one of its attempt.
RemovalInv(q) ==
  /\ q.by = "finally" => q.of = Current(q.of[1]) /\ call[q.of[1]] = "closing"
  /\ q.by = "timeout" => q.of = Current(q.of[1]) /\ call[q.of[1]] = "sweeping"
  /\ q.by # "nobody" => life = "up"

HoldersOf(i) == {a \in Executing \cup unreturned : InstanceOf[a[1]] = i}

InstanceInv(i) ==
  /\ inst[i].actual \in {"READY", "ACTIVE", "FAILED"}
  /\ inst[i].actual = "READY" => inst[i].count = 0
  /\ inst[i].actual = "ACTIVE" => inst[i].count > 0
  /\ inst[i].actual = "FAILED" =>
       isolation = "none" /\ \E a \in Attempt : InstanceOf[a[1]] = i /\ record[a] = "LOST"
  /\ life # "down" => inst[i].count = Cardinality(HoldersOf(i))
  /\ life = "starting" => inst[i] = NewInstance

\* Without a service nothing is remembered.
LifeInv ==
  life # "up" =>
    /\ crashes > 0
    /\ named = {} /\ watched = {} /\ unreturned = {}
    /\ call = [r \in Run |-> "idle"]
    /\ inner = [r \in Run |-> NoInner]
    /\ asking = [r \in Run |-> NoAsking]

IInv ==
  /\ TypeOK
  /\ \A a \in Attempt : AttemptInv(a)
  /\ \A a \in Attempt : ContainerInv(a)
  /\ \A r \in Run : RunInv(r)
  /\ \A q \in removal : RemovalInv(q)
  /\ \A i \in Instances : InstanceInv(i)
  /\ LifeInv

-----------------------------------------------------------------------------
(* Lemmas about the data *)

LEMMA AttemptsAre ==
  /\ IsFiniteSet(Attempt)
  /\ \A a \in Attempt : a[1] \in Run /\ a[2] \in 1..MaxAttempts /\ a[2] \in Nat /\ a = <<a[1], a[2]>>
  /\ \A r \in Run : \A n \in 1..MaxAttempts : <<r, n>> \in Attempt
<1>1. IsFiniteSet(Run) /\ IsFiniteSet(1..MaxAttempts)
  BY FS_Interval, RuntimeAssumption
<1>2. IsFiniteSet(Attempt)
  BY <1>1, FS_Product DEF Attempt
<1> QED  BY <1>2, RuntimeAssumption DEF Attempt

LEMMA CurrentIs ==
  ASSUME NEW r
  PROVE  Current(r)[1] = r /\ Current(r)[2] = tries[r]
BY DEF Current

LEMMA ExecutingIs ==
  ASSUME NEW a \in Attempt
  PROVE  a \in Executing <=> call[a[1]] # "idle" /\ a[2] = tries[a[1]]
BY AttemptsAre DEF Executing, Current

LEMMA BeingRemovedIs ==
  ASSUME TypeOK
  PROVE  /\ BeingRemoved \subseteq Attempt
         /\ \A q \in removal : q.of \in BeingRemoved /\ q.of \in Attempt /\ q.by \in Caller
         /\ \A a \in BeingRemoved : \E q \in removal : q.of = a
BY DEF BeingRemoved, TypeOK

LEMMA HoldersAreFinite ==
  ASSUME TypeOK, NEW i
  PROVE  IsFiniteSet(HoldersOf(i)) /\ HoldersOf(i) \subseteq Attempt
<1>1. HoldersOf(i) \subseteq Attempt
  BY DEF HoldersOf, Executing, TypeOK
<1> QED  BY <1>1, AttemptsAre, FS_Subset

\* There is room for the attempt that NextTry makes.
LEMMA NextTryFits ==
  ASSUME IInv, NEW r \in Run, NextTry(r)
  PROVE  /\ tries[r] + 1 \in 1..MaxAttempts
         /\ <<r, tries[r] + 1>> \in Attempt
         /\ tries' \in [Run -> 0..MaxAttempts]
         /\ tries'[r] = tries[r] + 1
         /\ \A q \in Run \ {r} : tries'[q] = tries[q]
<1> DEFINE Made == {a \in Attempt : attempt[a] # "none"}
           n == tries[r]
           f == [k \in 1..n |-> <<r, k>>]
<1>1. tries \in [Run -> 0..MaxAttempts] /\ n \in Nat /\ n \in 0..MaxAttempts /\ MaxAttempts \in Nat
  BY RuntimeAssumption DEF IInv, TypeOK
<1>2. IsFiniteSet(Made)
  BY AttemptsAre, FS_Subset
<1>3. \A k \in 1..n : <<r, k>> \in Made
  <2> SUFFICES ASSUME NEW k \in 1..n  PROVE <<r, k>> \in Made
    OBVIOUS
  <2>1. k \in 1..MaxAttempts /\ ~(k > n)
    BY <1>1
  <2>2. <<r, k>> \in Attempt /\ <<r, k>>[1] = r /\ <<r, k>>[2] = k
    BY <2>1, AttemptsAre
  <2>3. AttemptInv(<<r, k>>)
    BY <2>2 DEF IInv
  <2> QED  BY <2>1, <2>2, <2>3 DEF AttemptInv
<1>4. f \in Injection(1..n, Made)
  BY <1>3 DEF Injection, IsInjective
<1>5. Cardinality(1..n) =< Cardinality(Made) /\ Cardinality(1..n) = n
  BY <1>1, <1>2, <1>4, FS_Injection, FS_Interval
<1>6. n < MaxAttempts
  <2>1. Cardinality(Made) \in Nat /\ Cardinality(Made) < MaxAttempts
    BY <1>2, FS_CardinalityType DEF NextTry
  <2> QED  BY <1>1, <1>5, <2>1
<1>7. tries' = [tries EXCEPT ![r] = n + 1]
  BY DEF NextTry
<1> HIDE DEF n
<1>8. n + 1 \in 1..MaxAttempts /\ n + 1 \in 0..MaxAttempts
  BY <1>1, <1>6
<1> QED  BY <1>1, <1>7, <1>8, AttemptsAre DEF n

\* The operators on the state of the inner runtime keep its type.
LEMMA InnerOps ==
  ASSUME NEW x \in InnerState
  PROVE  /\ AskInner(x) \in InnerState
         /\ KillInner(x) \in InnerState
         /\ Gone(x) \in InnerState
         /\ \A n : ForceStop(x, n) \in InnerState
         /\ \A p \in {"ok", "error"} :
              \A t \in {"open", "SUCCEEDED", "FAILED", "INTERRUPTED"} : Settle(x, p, t) \in InnerState
         /\ NoInner \in InnerState
<1>1. AskInner(x) \in InnerState
  BY DEF AskInner, InnerState
<1>2. KillInner(x) \in InnerState
  BY DEF KillInner, InnerState
<1>3. Gone(x) \in InnerState /\ NoInner \in InnerState
  BY DEF Gone, InnerState, NoInner
<1>4. \A n : ForceStop(x, n) \in InnerState
  BY DEF ForceStop, InnerState
<1>5. ASSUME NEW p \in {"ok", "error"}, NEW t \in {"open", "SUCCEEDED", "FAILED", "INTERRUPTED"}
      PROVE  Settle(x, p, t) \in InnerState
  BY DEF Settle, InnerState
<1> QED  BY <1>1, <1>2, <1>3, <1>4, <1>5

-----------------------------------------------------------------------------
(* What every step has to keep, part by part *)

\* Nothing that the invariant says of an attempt changes, except that its
\* container may go.
Still(a) ==
  /\ attempt'[a] = attempt[a] /\ record'[a] = record[a]
  /\ a[2] > tries'[a[1]] <=> a[2] > tries[a[1]]
  /\ a \in Executing' <=> a \in Executing
  /\ a \in Executing /\ call[a[1]] \in Supervised => call'[a[1]] \in Supervised
  /\ a \in container' => a \in container
  /\ a \in leaked /\ a \in container' => a \in leaked'
  /\ a \in launching' => a \in launching
  /\ a \in named' <=> a \in named
  /\ a \in watched' <=> a \in watched
  /\ a \in unreturned' <=> a \in unreturned
  /\ a \in BeingRemoved' <=> a \in BeingRemoved

LEMMA StillKeeps ==
  ASSUME NEW a \in Attempt, AttemptInv(a), Still(a), UNCHANGED <<life, crashes>>
  PROVE  AttemptInv(a)' /\ (ContainerInv(a) => ContainerInv(a)')
<1>1. AttemptInv(a)'
  BY DEF Still, AttemptInv
<1>2. ContainerInv(a) => ContainerInv(a)'
  BY DEF Still, ContainerInv
<1> QED  BY <1>1, <1>2

\* A step of the running service concerns one attempt, c.
LEMMA StepKeeps ==
  ASSUME IInv, TypeOK', life = "up", UNCHANGED service, NEW c \in Attempt,
         \A a \in Attempt \ {c} : Still(a),
         \A r \in Run \ {c[1]} : tries'[r] = tries[r] /\ call'[r] = call[r],
         \A i \in Instances \ {InstanceOf[c[1]]} : inst'[i] = inst[i],
         \A q \in removal' : q \in removal \/ q.of = c,
         AttemptInv(c)',
         ContainerInv(c)',
         RunInv(c[1])',
         InstanceInv(InstanceOf[c[1]])',
         \A q \in removal' : q.of[1] = c[1] => RemovalInv(q)'
  PROVE  IInv'
<1>1. ASSUME NEW a \in Attempt  PROVE AttemptInv(a)' /\ ContainerInv(a)'
  <2>1. CASE a = c
    BY <2>1
  <2>2. CASE a # c
    BY <2>2, StillKeeps DEF IInv, service
  <2> QED  BY <2>1, <2>2
<1>2. ASSUME NEW r \in Run  PROVE RunInv(r)'
  <2>1. CASE r = c[1]
    BY <2>1
  <2>2. CASE r # c[1]
    <3>1. tries'[r] = tries[r] /\ call'[r] = call[r] /\ RunInv(r) /\ tries[r] \in 0..MaxAttempts
      BY <2>2 DEF IInv, TypeOK
    <3>2. CASE tries[r] > 0
      <4>1. <<r, tries[r]>> \in Attempt
        BY <3>1, <3>2, AttemptsAre, RuntimeAssumption
      <4>2. Still(<<r, tries[r]>>)
        BY <2>2, <4>1
      <4> QED  BY <3>1, <4>2 DEF Still, RunInv, Current
    <3>3. CASE ~(tries[r] > 0)
      BY <3>1, <3>3 DEF RunInv, Preparing
    <3> QED  BY <3>2, <3>3
  <2> QED  BY <2>1, <2>2
<1>3. ASSUME NEW q \in removal'  PROVE RemovalInv(q)'
  <2>1. CASE q.of[1] = c[1]
    BY <2>1
  <2>2. CASE q.of[1] # c[1]
    <3>1. q \in removal /\ q.of \in Attempt
      BY <2>2, BeingRemovedIs DEF IInv
    <3>2. q.of[1] \in Run /\ RemovalInv(q)
      BY <3>1, AttemptsAre DEF IInv
    <3>3. tries'[q.of[1]] = tries[q.of[1]] /\ call'[q.of[1]] = call[q.of[1]] /\ life' = "up"
      BY <2>2, <3>2 DEF service
    <3> QED  BY <3>2, <3>3 DEF RemovalInv, Current
  <2> QED  BY <2>1, <2>2
<1>4. ASSUME NEW i \in Instances  PROVE InstanceInv(i)'
  <2>1. CASE i = InstanceOf[c[1]]
    BY <2>1
  <2>2. CASE i # InstanceOf[c[1]]
    <3>1. HoldersOf(i)' = HoldersOf(i)
      <4>1. HoldersOf(i)' \subseteq Attempt /\ HoldersOf(i) \subseteq Attempt
        BY DEF HoldersOf, Executing, IInv, TypeOK
      <4>2. \A a \in Attempt : a \in HoldersOf(i)' <=> a \in HoldersOf(i)
        BY <2>2 DEF HoldersOf, Still
      <4> QED  BY <4>1, <4>2
    <3>2. \A a \in Attempt : InstanceOf[a[1]] = i => record'[a] = record[a]
      BY <2>2 DEF Still
    <3>3. inst'[i] = inst[i] /\ InstanceInv(i)
      BY <2>2 DEF IInv
    <3> QED  BY <3>1, <3>2, <3>3 DEF InstanceInv, service
  <2> QED  BY <2>1, <2>2
<1>5. LifeInv'
  BY DEF LifeInv, service
<1> QED  BY <1>1, <1>2, <1>3, <1>4, <1>5 DEF IInv

\* The holders of an instance when one attempt changes.
LEMMA HoldersMove ==
  ASSUME IInv, TypeOK', NEW c \in Attempt, \A a \in Attempt \ {c} : Still(a), NEW i, i = InstanceOf[c[1]]
  PROVE  /\ c \in (Executing \cup unreturned)' => HoldersOf(i)' = HoldersOf(i) \cup {c}
         /\ c \notin (Executing \cup unreturned)' => HoldersOf(i)' = HoldersOf(i) \ {c}
         /\ c \in HoldersOf(i) <=> c \in Executing \cup unreturned
<1>1. HoldersOf(i)' \subseteq Attempt /\ HoldersOf(i) \subseteq Attempt
  BY DEF HoldersOf, Executing, IInv, TypeOK
<1>2. \A a \in Attempt \ {c} : a \in HoldersOf(i)' <=> a \in HoldersOf(i)
  BY DEF HoldersOf, Still
<1>3. c \in HoldersOf(i)' <=> c \in (Executing \cup unreturned)'
  BY DEF HoldersOf
<1>4. c \in HoldersOf(i) <=> c \in Executing \cup unreturned
  BY DEF HoldersOf
<1> QED  BY <1>1, <1>2, <1>3, <1>4

\* The row of an instance is left alone, and so are its holders.
LEMMA InstanceStays ==
  ASSUME IInv, TypeOK', UNCHANGED service, NEW c \in Attempt, \A a \in Attempt \ {c} : Still(a),
         inst'[InstanceOf[c[1]]] = inst[InstanceOf[c[1]]],
         c \in (Executing \cup unreturned)' <=> c \in Executing \cup unreturned,
         record[c] = "LOST" => record'[c] = "LOST"
  PROVE  InstanceInv(InstanceOf[c[1]])'
<1> DEFINE i == InstanceOf[c[1]]
<1>1. i \in Instances /\ InstanceInv(i) /\ inst'[i] = inst[i]
  BY AttemptsAre, RuntimeAssumption DEF IInv
<1>2. HoldersOf(i)' = HoldersOf(i)
  <2>1. CASE c \in Executing \cup unreturned
    <3>1. HoldersOf(i)' = HoldersOf(i) \cup {c} /\ c \in HoldersOf(i)
      BY <2>1, HoldersMove
    <3> QED  BY <3>1
  <2>2. CASE c \notin Executing \cup unreturned
    <3>1. HoldersOf(i)' = HoldersOf(i) \ {c} /\ c \notin HoldersOf(i)
      BY <2>2, HoldersMove
    <3> QED  BY <3>1
  <2> QED  BY <2>1, <2>2
<1>3. \A a \in Attempt : record[a] = "LOST" => record'[a] = "LOST"
  BY DEF Still
<1> HIDE DEF i
<1>4. InstanceInv(i)'
  BY <1>1, <1>2, <1>3 DEF InstanceInv, service
<1> QED  BY <1>4 DEF i

\* releaseRun when a holder leaves.
LEMMA InstanceIsFreed ==
  ASSUME IInv, TypeOK', UNCHANGED service, life = "up",
         NEW c \in Attempt, \A a \in Attempt \ {c} : Still(a),
         GiveBack(c[1]),
         c \in Executing \cup unreturned, c \notin (Executing \cup unreturned)',
         record[c] = "LOST" => record'[c] = "LOST"
  PROVE  InstanceInv(InstanceOf[c[1]])'
<1> DEFINE i == InstanceOf[c[1]]
           x == inst[i]
<1>1. i \in Instances /\ InstanceInv(i) /\ inst \in [Instances -> HarnessInstance]
  BY AttemptsAre, RuntimeAssumption DEF IInv, TypeOK
<1>2. inst'[i] = IF CanRelease(x) THEN ReleaseRun(x) ELSE x
  BY <1>1 DEF GiveBack
<1>3. HoldersOf(i)' = HoldersOf(i) \ {c} /\ c \in HoldersOf(i) /\ IsFiniteSet(HoldersOf(i))
  BY HoldersMove, HoldersAreFinite DEF IInv
<1>4. /\ Cardinality(HoldersOf(i)') = Cardinality(HoldersOf(i)) - 1
      /\ Cardinality(HoldersOf(i)) \in Nat /\ Cardinality(HoldersOf(i)) # 0
  BY <1>3, FS_RemoveElement, FS_CardinalityType, FS_EmptySet
<1>5. \A a \in Attempt : record[a] = "LOST" => record'[a] = "LOST"
  BY DEF Still
<1>6. x.count = Cardinality(HoldersOf(i)) /\ x.actual \in {"READY", "ACTIVE", "FAILED"} /\ x.count > 0
  BY <1>1, <1>4 DEF InstanceInv
<1>7. x.actual # "READY"
  BY <1>1, <1>6 DEF InstanceInv
<1>8. inst'[i].count = x.count - 1
  BY <1>2, <1>6, <1>7 DEF CanRelease, ReleaseRun
<1>9. inst'[i].actual = IF x.actual = "FAILED" THEN "FAILED" ELSE IF x.count =< 1 THEN "READY" ELSE "ACTIVE"
  BY <1>2, <1>6, <1>7 DEF CanRelease, ReleaseRun
<1>10. x.actual = "FAILED" => isolation = "none" /\ \E a \in Attempt : InstanceOf[a[1]] = i /\ record[a] = "LOST"
  BY <1>1 DEF InstanceInv
<1>11. Cardinality(HoldersOf(i))' = Cardinality(HoldersOf(i)')
  OBVIOUS
<1> HIDE DEF i, x
<1>12. InstanceInv(i)'
  BY <1>4, <1>5, <1>6, <1>7, <1>8, <1>9, <1>10, <1>11 DEF InstanceInv, service
<1> QED  BY <1>12 DEF i

\* Only the attempt c, its container and what is remembered of it change.
OthersStay(c) ==
  \A a \in Attempt \ {c} :
    /\ attempt'[a] = attempt[a] /\ record'[a] = record[a]
    /\ a \in container' => a \in container
    /\ a \in leaked /\ a \in container' => a \in leaked'
    /\ a \in named' <=> a \in named
    /\ a \in watched' <=> a \in watched
    /\ a \in unreturned' <=> a \in unreturned

\* The usual frame of a step that concerns the attempt c.
LEMMA OneAttemptMoves ==
  ASSUME IInv, TypeOK', NEW c \in Attempt, tries' = tries, launching' = launching,
         \/ call' = call
         \/ Current(c[1]) = c /\ \E p \in CallPoint : call' = [call EXCEPT ![c[1]] = p],
         OthersStay(c),
         \/ removal' = removal
         \/ \E w \in Caller : removal' = removal \cup {[of |-> c, by |-> w]}
         \/ \E q \in removal : q.of = c /\ removal' = removal \ {q}
  PROVE  /\ \A a \in Attempt \ {c} : Still(a)
         /\ \A r \in Run \ {c[1]} : tries'[r] = tries[r] /\ call'[r] = call[r]
         /\ \A q \in removal' : q \in removal \/ q.of = c
<1>1. \A r \in Run \ {c[1]} : tries'[r] = tries[r] /\ call'[r] = call[r]
  BY DEF IInv, TypeOK
<1>2. \A q \in removal' : q \in removal \/ q.of = c
  OBVIOUS
<1>3. ASSUME NEW a \in Attempt \ {c}  PROVE Still(a)
  <2>1. a \in BeingRemoved' <=> a \in BeingRemoved
    <3>1. a \in BeingRemoved <=> \E q \in removal : q.of = a
      BY DEF BeingRemoved
    <3>2. a \in BeingRemoved' <=> \E q \in removal' : q.of = a
      BY DEF BeingRemoved
    <3> QED  BY <3>1, <3>2
  <2>2. a[1] \in Run /\ c[1] \in Run /\ (a[1] = c[1] => a[2] # c[2])
    BY AttemptsAre
  <2>3. a \in Executing' <=> call'[a[1]] # "idle" /\ a[2] = tries'[a[1]]
    BY AttemptsAre DEF Executing, Current
  <2>4. a \in Executing <=> call[a[1]] # "idle" /\ a[2] = tries[a[1]]
    BY ExecutingIs
  <2>5. call'[a[1]] = call[a[1]] \/ a[2] # tries[a[1]]
    <3>1. CASE a[1] = c[1] /\ Current(c[1]) = c
      BY <2>2, <3>1, CurrentIs
    <3>2. CASE a[1] # c[1]
      BY <1>1, <2>2, <3>2
    <3>3. CASE call' = call
      BY <3>3
    <3> QED  BY <3>1, <3>2, <3>3
  <2> QED  BY <2>1, <2>3, <2>4, <2>5 DEF Still, OthersStay
<1> QED  BY <1>1, <1>2, <1>3

-----------------------------------------------------------------------------
(* The actions *)

\* The inner runtime, the timers and the requests of the user.
LEMMA InnerMoves ==
  ASSUME IInv, NEW r \in Run, life = "up",
         UNCHANGED <<service, durable, docker, named, watched, unreturned>>,
         inner' \in [Run -> InnerState], asking' \in [Run -> AskingState],
         \/ call' = call
         \/ /\ call[r] \in {"invoking", "stopping"}
            /\ \E p \in {"stopping", "killing"} : call' = [call EXCEPT ![r] = p]
  PROVE  IInv'
<1>1. call \in [Run -> CallPoint] /\ call' \in [Run -> CallPoint]
  BY DEF IInv, TypeOK, CallPoint
<1>2. TypeOK'
  BY <1>1 DEF IInv, TypeOK, service, durable, docker
<1>3. \A q \in Run :
        /\ call'[q] = "idle" <=> call[q] = "idle"
        /\ call[q] \in Supervised => call'[q] \in Supervised
        /\ call'[q] \in Preparing \cup {"closing", "sweeping"} \/ call[q] \in Preparing \cup {"closing", "sweeping"} =>
             call'[q] = call[q]
  BY <1>1 DEF Supervised, Preparing
<1>4. Executing' = Executing /\ BeingRemoved' = BeingRemoved
  BY <1>3, AttemptsAre DEF Executing, Current, durable, docker, BeingRemoved
<1>5. ASSUME NEW a \in Attempt  PROVE AttemptInv(a)' /\ ContainerInv(a)'
  <2>1. Still(a)
    BY <1>3, <1>4, AttemptsAre DEF Still, durable, docker
  <2> QED  BY <2>1, StillKeeps DEF IInv, service
<1>6. ASSUME NEW q \in Run  PROVE RunInv(q)'
  BY <1>3 DEF IInv, RunInv, Preparing, Current, durable, docker
<1>7. ASSUME NEW q \in removal'  PROVE RemovalInv(q)'
  <2>1. q \in removal /\ q.of[1] \in Run
    BY BeingRemovedIs, AttemptsAre DEF docker, IInv
  <2> QED  BY <1>3, <2>1 DEF IInv, RemovalInv, Current, durable, service
<1>8. ASSUME NEW i \in Instances  PROVE InstanceInv(i)'
  <2>1. HoldersOf(i)' = HoldersOf(i)
    BY <1>4 DEF HoldersOf
  <2> QED  BY <2>1 DEF IInv, InstanceInv, durable, service
<1> QED  BY <1>2, <1>5, <1>6, <1>7, <1>8 DEF IInv, LifeInv, service

\* Only a service that is up calls, asks or listens.
LEMMA ServiceIsUp ==
  ASSUME IInv, NEW r \in Run,
         call[r] # "idle" \/ asking[r].pc # "none" \/ inner[r].stage # "none"
  PROVE  life = "up"
BY DEF IInv, LifeInv, NoInner, NoAsking

LEMMA InnerTypes ==
  ASSUME IInv, NEW r \in Run
  PROVE  /\ inner \in [Run -> InnerState] /\ inner[r] \in InnerState
         /\ asking \in [Run -> AskingState] /\ asking[r] \in AskingState
         /\ tries[r] \in Nat
         /\ \A x \in InnerState : [inner EXCEPT ![r] = x] \in [Run -> InnerState]
         /\ \A x \in AskingState : [asking EXCEPT ![r] = x] \in [Run -> AskingState]
BY DEF IInv, TypeOK

LEMMA InnerEventKeeps ==
  ASSUME IInv, NEW r \in Run,
         \/ WorkerReady(r) \/ SessionReady(r) \/ WorkerReports(r) \/ SessionReports(r)
         \/ InnerExits(r)
  PROVE  IInv'
<1>1. life = "up"
  BY ServiceIsUp DEF WorkerReady, SessionReady, WorkerReports, SessionReports, InnerExits
<1>2. UNCHANGED <<service, durable, docker, named, watched, call, asking, unreturned>>
  BY DEF WorkerReady, SessionReady, WorkerReports, SessionReports, InnerExits
<1>3. inner' \in [Run -> InnerState]
  <2>1. \A x \in InnerState :
          /\ \A s \in {"none", "booting", "deaf", "working", "ended"} : [x EXCEPT !.stage = s] \in InnerState
          /\ \A e \in Ends(x) : e[1] \in {"ok", "error"} /\ e[2] \in {"open", "SUCCEEDED", "FAILED", "INTERRUPTED"}
    BY DEF InnerState, Ends
  <2>2. CASE WorkerReady(r)
    BY <2>1, <2>2, InnerTypes DEF WorkerReady
  <2>3. CASE SessionReady(r)
    BY <2>1, <2>3, InnerTypes DEF SessionReady
  <2>4. CASE WorkerReports(r)
    <3>1. PICK e \in (IF inner[r].stage = "working" THEN Ends(inner[r]) ELSE {})
                      \cup (IF inner[r].asked THEN {<<"ok", "open">>} ELSE {}) :
            inner' = [inner EXCEPT ![r] = [Settle(@, e[1], e[2]) EXCEPT !.stage = "ended"]]
      BY <2>4 DEF WorkerReports
    <3>2. e[1] \in {"ok", "error"} /\ e[2] \in {"open", "SUCCEEDED", "FAILED", "INTERRUPTED"}
      <4>1. e \in Ends(inner[r]) \/ e = <<"ok", "open">>
        BY <3>1
      <4>2. CASE e \in Ends(inner[r])
        BY <2>1, <4>2, InnerTypes
      <4>3. CASE e = <<"ok", "open">>
        BY <4>3
      <4> QED  BY <4>1, <4>2, <4>3
    <3>3. Settle(inner[r], e[1], e[2]) \in InnerState
      BY <3>2, InnerTypes, InnerOps
    <3>4. [Settle(inner[r], e[1], e[2]) EXCEPT !.stage = "ended"] \in InnerState
      BY <2>1, <3>3
    <3> QED  BY <3>1, <3>4, InnerTypes
  <2>5. CASE SessionReports(r)
    <3>1. PICK e \in Ends(inner[r]) :
            inner' = [inner EXCEPT ![r] = [Settle(@, e[1], e[2]) EXCEPT !.stage = "none"]]
      BY <2>5 DEF SessionReports
    <3>2. e[1] \in {"ok", "error"} /\ e[2] \in {"open", "SUCCEEDED", "FAILED", "INTERRUPTED"}
      BY <2>1, <3>1, InnerTypes
    <3>3. Settle(inner[r], e[1], e[2]) \in InnerState
      BY <3>2, InnerTypes, InnerOps
    <3>4. [Settle(inner[r], e[1], e[2]) EXCEPT !.stage = "none"] \in InnerState
      BY <2>1, <3>3
    <3> QED  BY <3>1, <3>4, InnerTypes
  <2>6. CASE InnerExits(r)
    BY <2>6, InnerTypes, InnerOps DEF InnerExits
  <2> QED  BY <2>2, <2>3, <2>4, <2>5, <2>6
<1> QED  BY <1>1, <1>2, <1>3, InnerMoves, InnerTypes

LEMMA BeginAskingTypes ==
  ASSUME IInv, NEW r \in Run, BeginAsking(r)
  PROVE  inner' \in [Run -> InnerState] /\ asking' \in [Run -> AskingState]
<1>1. [pc |-> "grace", of |-> IF call[r] \in Supervised THEN tries[r] ELSE 0] \in AskingState
  BY InnerTypes DEF AskingState
<1> QED  BY <1>1, InnerTypes, InnerOps DEF BeginAsking

LEMMA TimersKeep ==
  ASSUME IInv, NEW r \in Run,
         \/ InvokeTimesOut(r) \/ TimeoutKills(r)
         \/ Interrupt(r) \/ InterruptReturns(r) \/ InterruptKills(r)
  PROVE  IInv'
<1>1. life = "up"
  BY ServiceIsUp DEF InvokeTimesOut, TimeoutKills, Interrupt, InterruptReturns, InterruptKills
<1>2. UNCHANGED <<service, durable, docker, named, watched, unreturned>>
  BY DEF InvokeTimesOut, TimeoutKills, Interrupt, InterruptReturns, InterruptKills
<1>3. inner' \in [Run -> InnerState]
  BY InnerTypes, InnerOps, BeginAskingTypes
    DEF InvokeTimesOut, TimeoutKills, Interrupt, InterruptReturns, InterruptKills
<1>4. asking' \in [Run -> AskingState]
  <2>1. NoAsking \in AskingState /\ \A x \in AskingState : [x EXCEPT !.pc = "killing"] \in AskingState
    BY DEF AskingState, NoAsking
  <2> QED  BY <2>1, InnerTypes, BeginAskingTypes
      DEF InvokeTimesOut, TimeoutKills, Interrupt, InterruptReturns, InterruptKills
<1>5. \/ call' = call
      \/ /\ call[r] \in {"invoking", "stopping"}
         /\ \E p \in {"stopping", "killing"} : call' = [call EXCEPT ![r] = p]
  BY DEF InvokeTimesOut, TimeoutKills, Interrupt, InterruptReturns, InterruptKills
<1> QED  BY <1>1, <1>2, <1>3, <1>4, <1>5, InnerMoves

\* A new attempt is made by a run that executes none.
LEMMA NewAttempt ==
  ASSUME IInv, NEW r \in Run, NextTry(r), NEW c, c = <<r, tries[r] + 1>>
  PROVE  /\ c \in Attempt /\ c[1] = r /\ c[2] = tries[r] + 1 /\ c[2] = tries'[r] /\ tries[r] \in Nat
         /\ life = "up" /\ call[r] = "idle"
         /\ attempt[c] = "none" /\ record[c] = "none"
         /\ c \notin container \cup unreturned \cup named \cup BeingRemoved \cup Executing
         /\ \A a \in Attempt \ {c} : a[1] = r => a[2] # tries[r] + 1
         /\ \A a \in Attempt \ {c} : a[1] = r => (a[2] > tries[r] <=> a[2] > tries'[r])
         /\ \A a \in Attempt : a[1] = r => a \notin Executing
         /\ \A q \in removal : q.of[1] = r => q.by \notin {"finally", "timeout"}
<1>1. c \in Attempt /\ c[1] = r /\ c[2] = tries[r] + 1 /\ c[2] = tries'[r] /\ tries[r] \in Nat
  BY NextTryFits DEF IInv, TypeOK
<1>2. life = "up" /\ call[r] = "idle"
  BY DEF NextTry
<1>3. AttemptInv(c) /\ c[2] > tries[r]
  BY <1>1 DEF IInv
<1>4. attempt[c] = "none" /\ record[c] = "none"
  BY <1>1, <1>3 DEF AttemptInv
<1>5. c \notin container \cup unreturned \cup named \cup BeingRemoved
  BY <1>3, <1>4 DEF AttemptInv
<1>6. ASSUME NEW a \in Attempt, a[1] = r  PROVE a \notin Executing
  BY <1>2, <1>6, ExecutingIs
<1>7. ASSUME NEW a \in Attempt \ {c}, a[1] = r
      PROVE  a[2] # tries[r] + 1 /\ (a[2] > tries[r] <=> a[2] > tries'[r])
  BY <1>1, <1>7, AttemptsAre
<1>8. ASSUME NEW q \in removal, q.of[1] = r  PROVE q.by \notin {"finally", "timeout"}
  BY <1>2, <1>8 DEF IInv, RemovalInv
<1> QED  BY <1>1, <1>2, <1>4, <1>5, <1>6, <1>7, <1>8

\* The attempts that end before the sandbox is asked for.
LEMMA TryEndsKeeps ==
  ASSUME IInv, NEW r \in Run, NextTry(r), NEW s \in {"REJECTED", "PENDING", "FAILED"},
         attempt' = [attempt EXCEPT ![<<r, tries[r] + 1>>] = s],
         inst' = inst, UNCHANGED <<service, record, docker, memory>>
  PROVE  IInv'
<1>1. PICK c : c = <<r, tries[r] + 1>>
  OBVIOUS
<1>2. /\ c \in Attempt /\ c[1] = r /\ c[2] = tries[r] + 1 /\ c[2] = tries'[r] /\ tries[r] \in Nat
      /\ life = "up" /\ call[r] = "idle"
      /\ attempt[c] = "none" /\ record[c] = "none"
      /\ c \notin container \cup unreturned \cup named \cup BeingRemoved \cup Executing
  BY <1>1, NewAttempt
<1>3. /\ \A a \in Attempt \ {c} : a[1] = r => a[2] # tries[r] + 1
      /\ \A a \in Attempt \ {c} : a[1] = r => (a[2] > tries[r] <=> a[2] > tries'[r])
      /\ \A a \in Attempt : a[1] = r => a \notin Executing
      /\ \A q \in removal : q.of[1] = r => q.by \notin {"finally", "timeout"}
  BY <1>1, NewAttempt
<1>4. /\ tries' \in [Run -> 0..MaxAttempts]
      /\ \A q \in Run \ {r} : tries'[q] = tries[q]
  BY NextTryFits
<1>5. attempt' = [attempt EXCEPT ![c] = s] /\ attempt' \in [Attempt -> AttemptStatus]
  BY <1>1, <1>2 DEF IInv, TypeOK, AttemptStatus
<1>6. TypeOK'
  BY <1>4, <1>5 DEF IInv, TypeOK, service, docker, memory
<1>7. BeingRemoved' = BeingRemoved
  BY DEF BeingRemoved, docker
<1>8. \A a \in Attempt : a \in Executing' <=> call[a[1]] # "idle" /\ a[2] = tries'[a[1]]
  BY AttemptsAre DEF Executing, Current, memory
<1>9. ASSUME NEW a \in Attempt \ {c}  PROVE Still(a)
  <2>1. attempt'[a] = attempt[a]
    BY <1>5 DEF IInv, TypeOK
  <2>2. CASE a[1] = r
    <3>1. a \notin Executing /\ a \notin Executing'
      BY <1>2, <1>3, <1>8, <2>2
    <3>2. a[2] > tries'[a[1]] <=> a[2] > tries[a[1]]
      BY <1>3, <2>2
    <3> QED  BY <1>7, <2>1, <3>1, <3>2 DEF Still, memory, docker
  <2>3. CASE a[1] # r
    BY <1>4, <1>7, <1>8, <2>1, <2>3, AttemptsAre, ExecutingIs DEF Still, memory, docker
  <2> QED  BY <2>2, <2>3
<1>10. c \notin Executing' /\ c \notin unreturned' /\ c \notin BeingRemoved'
  BY <1>2, <1>7, <1>8 DEF memory
<1>11. attempt'[c] = s /\ record'[c] = "none" /\ ~(c[2] > tries'[c[1]])
  BY <1>2, <1>5 DEF IInv, TypeOK
<1>12. AttemptInv(c)' /\ ContainerInv(c)'
  <2>1. c \notin launching'
    BY <1>2 DEF IInv, ContainerInv, docker
  <2> QED  BY <1>2, <1>10, <1>11, <2>1 DEF AttemptInv, ContainerInv, memory, docker
<1>13. RunInv(r)'
  BY <1>2 DEF RunInv, Preparing, memory
<1>14. InstanceInv(InstanceOf[c[1]])'
  BY <1>2, <1>6, <1>9, <1>10, InstanceStays
<1>15. \A q \in removal' : q.of[1] = c[1] => RemovalInv(q)'
  BY <1>2, <1>3 DEF RemovalInv, docker, service
<1> QED  BY <1>2, <1>4, <1>6, <1>9, <1>12, <1>13, <1>14, <1>15, StepKeeps DEF memory, docker

LEMMA PrepareKeeps ==
  ASSUME IInv, NEW r \in Run, RejectAttempt(r) \/ NoSlot(r) \/ SandboxRefused(r)
  PROVE  IInv'
<1>1. CASE RejectAttempt(r)
  BY <1>1, TryEndsKeeps DEF RejectAttempt
<1>2. CASE NoSlot(r)
  BY <1>2, TryEndsKeeps DEF NoSlot
<1>3. CASE SandboxRefused(r)
  <2> DEFINE i == InstanceOf[r]
             x == inst[i]
  <2>1. i \in Instances /\ InstanceInv(i) /\ inst \in [Instances -> HarnessInstance] /\ x \in HarnessInstance
    BY RuntimeAssumption DEF IInv, TypeOK
  <2>2. /\ x.actual = "READY" => x.count = 0
        /\ x.actual = "ACTIVE" => x.count > 0
        /\ x.actual \in {"READY", "ACTIVE"}
    BY <1>3, <2>1 DEF InstanceInv, SandboxRefused, CanAcquire
  <2>3. x = [actual |-> x.actual, count |-> x.count] /\ x.count \in Nat
    BY <2>1 DEF HarnessInstance
  <2>4. inst' = [inst EXCEPT ![i] = ReleaseRun(AcquireRun(x))]
    BY <1>3 DEF SandboxRefused
  <2> HIDE DEF x
  <2>5. PICK y : y = AcquireRun(x)
    OBVIOUS
  <2>6. PICK z : z = ReleaseRun(y)
    OBVIOUS
  <2>7. z = x
    <3>1. y.actual = "ACTIVE" /\ y.count = x.count + 1
      BY <2>5 DEF AcquireRun
    <3>2. /\ z.actual = IF y.count =< 1 THEN "READY" ELSE "ACTIVE"
          /\ z.count = y.count - 1
          /\ z = [actual |-> z.actual, count |-> z.count]
      BY <2>6, <3>1 DEF ReleaseRun
    <3>3. z.actual = x.actual /\ z.count = x.count
      BY <2>2, <2>3, <3>1, <3>2
    <3> QED  BY <2>3, <3>2, <3>3
  <2>8. inst' = inst
    BY <2>1, <2>4, <2>5, <2>6, <2>7 DEF x
  <2> QED  BY <1>3, <2>8, TryEndsKeeps DEF SandboxRefused
<1> QED  BY <1>1, <1>2, <1>3

\* The attempt of an invocation in progress.
LEMMA CurrentAttempt ==
  ASSUME IInv, NEW r \in Run, call[r] # "idle", NEW c, c = Current(r)
  PROVE  /\ c \in Attempt /\ c[1] = r /\ c[2] = tries[r] /\ tries[r] \in Nat
         /\ c \in Executing /\ c \notin unreturned /\ life = "up"
         /\ attempt[c] # "none"
         /\ AttemptInv(c) /\ RunInv(r)
         /\ ContainerInv(c)
         /\ InstanceOf[r] \in Instances
<1>1. tries[r] \in 1..MaxAttempts /\ tries[r] \in Nat
  BY RuntimeAssumption DEF IInv, TypeOK, RunInv
<1>2. c \in Attempt /\ c[1] = r /\ c[2] = tries[r]
  BY <1>1, AttemptsAre DEF Current
<1>3. AttemptInv(c) /\ RunInv(r) /\ ContainerInv(c) /\ life = "up"
  BY <1>2, ServiceIsUp DEF IInv
<1>4. c \in Executing
  BY <1>2, ExecutingIs
<1>5. c \notin unreturned /\ attempt[c] # "none"
  BY <1>1, <1>2, <1>3, <1>4 DEF AttemptInv
<1> QED  BY <1>1, <1>2, <1>3, <1>4, <1>5, RuntimeAssumption

LEMMA RemovalsMove ==
  ASSUME NEW c
  PROVE  /\ removal' = removal => BeingRemoved' = BeingRemoved
         /\ \A w : removal' = removal \cup {[of |-> c, by |-> w]} => BeingRemoved' = BeingRemoved \cup {c}
         /\ \A q : removal' = removal \ {q} => BeingRemoved' \subseteq BeingRemoved
<1>1. \A a : a \in BeingRemoved <=> \E q \in removal : q.of = a
  BY DEF BeingRemoved
<1>2. \A a : a \in BeingRemoved' <=> \E q \in removal' : q.of = a
  BY DEF BeingRemoved
<1>3. removal' = removal => BeingRemoved' = BeingRemoved
  BY DEF BeingRemoved
<1>4. ASSUME NEW w, removal' = removal \cup {[of |-> c, by |-> w]}
      PROVE  BeingRemoved' = BeingRemoved \cup {c}
  <2>1. PICK n : n = [of |-> c, by |-> w]
    OBVIOUS
  <2>2. n.of = c /\ removal' = removal \cup {n}
    BY <1>4, <2>1
  <2>3. \A a : a \in BeingRemoved' <=> a \in BeingRemoved \/ a = c
    BY <1>1, <1>2, <2>2
  <2> QED  BY <2>3
<1>5. ASSUME NEW q, removal' = removal \ {q}
      PROVE  BeingRemoved' \subseteq BeingRemoved
  BY <1>1, <1>2, <1>5
<1> QED  BY <1>3, <1>4, <1>5

\* What the invariant asks of the attempt of an invocation at the point p.
Fits(c, p) ==
  /\ p \in Preparing => record'[c] = "PROVISIONING"
  /\ p = "creating" => c \notin container'
  /\ attempt'[c] # "none"
  /\ c \in container' \cup unreturned' => record'[c] # "none"
  /\ c \in unreturned' => p = "idle"
  /\ c \in named' => record'[c] = "ACTIVE" /\ c \notin BeingRemoved'
  /\ c \in BeingRemoved' => record'[c] \in {"ACTIVE", "TERMINATED", "LOST"}
  /\ attempt'[c] = "RUNNING" =>
       /\ record'[c] \in {"ACTIVE", "TERMINATED"}
       /\ \/ p \in Supervised /\ c \in watched'
          \/ crashes > 0 /\ record'[c] = "TERMINATED"
  /\ c \in container' => c \in BeingRemoved' \cup leaked' \/ record'[c] \in Unsettled
  /\ c \in container' /\ record'[c] = "ACTIVE" => c \in named' \cup BeingRemoved' \cup leaked'

AwaitedAt(q, c, p) ==
  /\ q.of[1] = c[1] /\ q.by = "finally" => q.of = c /\ p = "closing"
  /\ q.of[1] = c[1] /\ q.by = "timeout" => q.of = c /\ p = "sweeping"

\* A step that moves the invocation of a run to the point p.
LEMMA CallStep ==
  ASSUME IInv, TypeOK', UNCHANGED service, tries' = tries, launching' = launching,
         NEW r \in Run, call[r] # "idle", NEW c, c = Current(r),
         NEW p \in CallPoint, call' = [call EXCEPT ![r] = p],
         OthersStay(c),
         \/ removal' = removal
         \/ \E w \in Caller : removal' = removal \cup {[of |-> c, by |-> w]}
         \/ \E q \in removal : q.of = c /\ removal' = removal \ {q},
         \A q \in removal' : AwaitedAt(q, c, p),
         \/ inst' = inst /\ (p # "idle" \/ c \in unreturned')
         \/ GiveBack(r) /\ p = "idle" /\ c \notin unreturned',
         record[c] = "LOST" => record'[c] = "LOST",
         Fits(c, p)
  PROVE  IInv'
<1>1. /\ c \in Attempt /\ c[1] = r /\ c[2] = tries[r] /\ tries[r] \in Nat
      /\ c \in Executing /\ c \notin unreturned /\ life = "up"
      /\ AttemptInv(c) /\ ContainerInv(c) /\ RunInv(r) /\ InstanceOf[r] \in Instances
  BY CurrentAttempt
<1>2. Current(c[1]) = c /\ call' = [call EXCEPT ![c[1]] = p]
  BY <1>1
<1>3. /\ \A a \in Attempt \ {c} : Still(a)
      /\ \A q \in Run \ {c[1]} : tries'[q] = tries[q] /\ call'[q] = call[q]
      /\ \A q \in removal' : q \in removal \/ q.of = c
  BY <1>1, <1>2, OneAttemptMoves
<1>4. call'[r] = p
  BY DEF IInv, TypeOK
<1>5. c \in Executing' <=> p # "idle"
  BY <1>1, <1>4 DEF Executing, Current
<1>6. AttemptInv(c)'
  <2>1. ~(c[2] > tries'[c[1]]) /\ call'[c[1]] = p /\ UNCHANGED <<life, crashes>>
    BY <1>1, <1>4 DEF service
  <2>2. p \in Supervised => c \in Executing'
    BY <1>5 DEF Supervised
  <2>3. c \in unreturned' => c \notin Executing'
    BY <1>5 DEF Fits
  <2> QED  BY <2>1, <2>2, <2>3 DEF AttemptInv, Fits
<1>7. ContainerInv(c)'
  BY <1>1 DEF ContainerInv, Fits
<1>8. RunInv(r)'
  <2>1. Current(r)' = c
    BY DEF Current
  <2>2. tries'[r] > 0
    BY <1>1 DEF RunInv
  <2> QED  BY <1>4, <2>1, <2>2 DEF RunInv, Fits
<1>9. InstanceInv(InstanceOf[c[1]])'
  <2>1. CASE inst' = inst /\ (p # "idle" \/ c \in unreturned')
    BY <1>1, <1>3, <1>5, <2>1, InstanceStays
  <2>2. CASE GiveBack(r) /\ p = "idle" /\ c \notin unreturned'
    BY <1>1, <1>3, <1>5, <2>2, InstanceIsFreed
  <2> QED  BY <2>1, <2>2
<1>10. \A i \in Instances \ {InstanceOf[c[1]]} : inst'[i] = inst[i]
  BY <1>1 DEF GiveBack, IInv, TypeOK
<1>11. ASSUME NEW q \in removal', q.of[1] = c[1]  PROVE RemovalInv(q)'
  <2>1. Current(q.of[1])' = c
    BY <1>1, <1>11 DEF Current
  <2>2. life' = "up"
    BY <1>1 DEF service
  <2> QED  BY <1>1, <1>4, <1>11, <2>1, <2>2 DEF RemovalInv, AwaitedAt
<1> QED  BY <1>1, <1>3, <1>6, <1>7, <1>8, <1>9, <1>10, <1>11, StepKeeps

\* releaseRun never takes a count below zero.
LEMMA GiveBackTypes ==
  ASSUME IInv, NEW r \in Run, GiveBack(r)
  PROVE  inst' \in [Instances -> HarnessInstance]
<1> DEFINE x == inst[InstanceOf[r]]
<1>1. x \in HarnessInstance /\ inst \in [Instances -> HarnessInstance]
  BY RuntimeAssumption DEF IInv, TypeOK
<1>2. CanRelease(x) => ReleaseRun(x) \in HarnessInstance
  BY <1>1 DEF CanRelease, ReleaseRun, HarnessInstance, InstanceState
<1> QED  BY <1>1, <1>2 DEF GiveBack

\* The sandbox of an attempt that is being prepared: nobody else knows it.
LEMMA Prepared ==
  ASSUME IInv, NEW r \in Run, call[r] \in Preparing, NEW c, c = Current(r)
  PROVE  /\ c \in Attempt /\ record[c] = "PROVISIONING" /\ attempt[c] \notin {"none", "RUNNING"}
         /\ c \notin named /\ c \notin BeingRemoved /\ c \notin unreturned /\ call[r] # "idle"
         /\ call[r] = "creating" => c \notin container
         /\ c[1] = r /\ \A q \in removal : \A p : AwaitedAt(q, c, p)
<1>1. call[r] # "idle"
  BY DEF Preparing
<1>2. c \in Attempt /\ AttemptInv(c) /\ RunInv(r) /\ c \notin unreturned /\ attempt[c] # "none" /\ c[1] = r
  BY <1>1, CurrentAttempt
<1>3. record[c] = "PROVISIONING" /\ (call[r] = "creating" => c \notin container)
  BY <1>2 DEF RunInv
<1>4. attempt[c] # "RUNNING" /\ c \notin named /\ c \notin BeingRemoved
  BY <1>2, <1>3, <1>1, ServiceIsUp DEF AttemptInv, Executing
<1>5. \A q \in removal : \A p : AwaitedAt(q, c, p)
  BY <1>2 DEF IInv, RemovalInv, Preparing, AwaitedAt
<1> QED  BY <1>1, <1>2, <1>3, <1>4, <1>5

LEMMA ContainerStartedKeeps ==
  ASSUME IInv, NEW r \in Run, ContainerStarted(r) \/ VerifyFails(r)
  PROVE  IInv'
<1>1. PICK c : c = Current(r)
  OBVIOUS
<1>2. call[r] \in Preparing
  BY DEF ContainerStarted, VerifyFails, Preparing
<1>3. PICK p \in {"verifying", "discarding"} :
        /\ call' = [call EXCEPT ![r] = p]
        /\ container' = container \cup {c} \/ container' = container
  BY <1>1 DEF ContainerStarted, VerifyFails, docker
<1>4. UNCHANGED <<service, durable, removal, launching, leaked, named, watched, inner, asking, unreturned>>
  BY DEF ContainerStarted, VerifyFails, docker
<1>5. /\ c \in Attempt /\ record[c] = "PROVISIONING" /\ attempt[c] \notin {"none", "RUNNING"}
      /\ c \notin named /\ c \notin BeingRemoved /\ c \notin unreturned /\ call[r] # "idle"
      /\ \A q \in removal : \A x : AwaitedAt(q, c, x)
  BY <1>1, <1>2, Prepared
<1>6. p \in CallPoint /\ p # "idle" /\ p # "creating"
  BY DEF CallPoint
<1>7. TypeOK'
  BY <1>3, <1>4, <1>5, <1>6 DEF IInv, TypeOK, service, durable
<1>8. BeingRemoved' = BeingRemoved
  BY <1>4, RemovalsMove
<1>9. OthersStay(c)
  BY <1>3, <1>4 DEF OthersStay, durable
<1>10. Fits(c, p)
  BY <1>3, <1>4, <1>5, <1>6, <1>8 DEF Fits, durable, Unsettled
<1>11. inst' = inst /\ tries' = tries /\ record' = record /\ \A q \in removal' : AwaitedAt(q, c, p)
  BY <1>4, <1>5 DEF durable
<1> QED  BY <1>1, <1>3, <1>4, <1>5, <1>6, <1>7, <1>9, <1>10, <1>11, CallStep

LEMMA CreateFailsKeeps ==
  ASSUME IInv, NEW r \in Run, DockerRunFails(r) \/ WarmLeaseFails(r) \/ Discard(r)
  PROVE  IInv'
<1>1. PICK c : c = Current(r)
  OBVIOUS
<1>2. call[r] \in Preparing
  BY DEF DockerRunFails, WarmLeaseFails, Discard, Preparing
<1>3. /\ GiveBack(r)
      /\ attempt' = [attempt EXCEPT ![c] = "FAILED"]
      /\ call' = [call EXCEPT ![r] = "idle"]
      /\ UNCHANGED <<service, tries, named, watched, inner, asking, unreturned, removal, launching>>
  BY <1>1 DEF DockerRunFails, WarmLeaseFails, Discard, CreateFails, RmReturns, docker
<1>4. /\ c \in Attempt /\ record[c] = "PROVISIONING" /\ attempt[c] \notin {"none", "RUNNING"}
      /\ c \notin named /\ c \notin BeingRemoved /\ c \notin unreturned /\ call[r] # "idle"
      /\ call[r] = "creating" => c \notin container
      /\ \A q \in removal : \A x : AwaitedAt(q, c, x)
  BY <1>1, <1>2, Prepared
<1>5. /\ record' = [record EXCEPT ![c] = "FAILED"] \/ record' = record
      /\ container' \subseteq container /\ leaked' \subseteq Attempt
      /\ c \in container' => c \in leaked'
      /\ \A a \in Attempt \ {c} : a \in leaked => a \in leaked'
  BY <1>1, <1>4 DEF DockerRunFails, WarmLeaseFails, Discard, RmReturns, docker, IInv, TypeOK
<1>6. inst' \in [Instances -> HarnessInstance]
  BY <1>1, <1>3, <1>4, GiveBackTypes
<1>7. TypeOK'
  <2>1. attempt' \in [Attempt -> AttemptStatus] /\ record' \in [Attempt -> RecordStatus]
    BY <1>3, <1>4, <1>5 DEF IInv, TypeOK, AttemptStatus, RecordStatus
  <2>2. call' \in [Run -> CallPoint]
    BY <1>3 DEF IInv, TypeOK, CallPoint
  <2> QED  BY <1>3, <1>5, <1>6, <2>1, <2>2 DEF IInv, TypeOK, service
<1>8. BeingRemoved' = BeingRemoved
  BY <1>3, RemovalsMove
<1>9. /\ attempt'[c] = "FAILED" /\ record'[c] \in {"FAILED", "PROVISIONING"}
      /\ \A a \in Attempt \ {c} : attempt'[a] = attempt[a] /\ record'[a] = record[a]
  BY <1>3, <1>4, <1>5 DEF IInv, TypeOK
<1>10. OthersStay(c)
  BY <1>3, <1>5, <1>9 DEF OthersStay
<1>11. Fits(c, "idle")
  BY <1>3, <1>4, <1>5, <1>8, <1>9 DEF Fits, Preparing, Unsettled
<1>12. /\ \A q \in removal' : AwaitedAt(q, c, "idle")
       /\ c \notin unreturned' /\ record[c] # "LOST" /\ "idle" \in CallPoint
  BY <1>3, <1>4 DEF CallPoint
<1> QED  BY <1>1, <1>3, <1>4, <1>7, <1>10, <1>11, <1>12, CallStep

LEMMA EnterRunningKeeps ==
  ASSUME IInv, NEW r \in Run, StillOccupied(r) \/ StartInner(r)
  PROVE  IInv'
<1>1. PICK c : c = Current(r)
  OBVIOUS
<1>2. /\ call[r] \in Preparing /\ record' = [record EXCEPT ![c] = "ACTIVE"]
      /\ UNCHANGED <<service, inst, tries, container, launching, leaked, asking, unreturned>>
  BY <1>1 DEF StillOccupied, StartInner, EnterRunning, Preparing, docker
<1>3. /\ c \in Attempt /\ record[c] = "PROVISIONING" /\ attempt[c] \notin {"none", "RUNNING"}
      /\ c \notin named /\ c \notin BeingRemoved /\ c \notin unreturned /\ call[r] # "idle"
      /\ c[1] = r /\ \A q \in removal : \A x : AwaitedAt(q, c, x)
  BY <1>1, <1>2, Prepared
<1>4. record'[c] = "ACTIVE" /\ \A a \in Attempt \ {c} : record'[a] = record[a]
  BY <1>2, <1>3 DEF IInv, TypeOK
<1>5. record' \in [Attempt -> RecordStatus]
  BY <1>2 DEF IInv, TypeOK, RecordStatus
<1>6. CASE StillOccupied(r)
  <2>1. /\ attempt' = [attempt EXCEPT ![c] = "FAILED"]
        /\ removal' = removal \cup {[of |-> c, by |-> "finally"]}
        /\ call' = [call EXCEPT ![r] = "closing"]
        /\ UNCHANGED <<named, watched, inner>>
    BY <1>1, <1>6 DEF StillOccupied
  <2>2. attempt'[c] = "FAILED" /\ \A a \in Attempt \ {c} : attempt'[a] = attempt[a]
    BY <1>3, <2>1 DEF IInv, TypeOK
  <2>3. /\ "finally" \in Caller /\ "closing" \in CallPoint
        /\ removal' \subseteq [of : Attempt, by : Caller]
    BY <1>3, <2>1 DEF Caller, CallPoint, IInv, TypeOK
  <2>4. TypeOK'
    BY <1>2, <1>5, <2>1, <2>3 DEF IInv, TypeOK, AttemptStatus, CallPoint, service
  <2>5. BeingRemoved' = BeingRemoved \cup {c}
    BY <2>1, RemovalsMove
  <2>6. OthersStay(c)
    BY <1>2, <1>4, <2>1, <2>2 DEF OthersStay
  <2>7. Fits(c, "closing")
    BY <1>2, <1>3, <1>4, <2>1, <2>2, <2>5 DEF Fits, Preparing, Unsettled
  <2>8. \A q \in removal' : AwaitedAt(q, c, "closing")
    BY <1>3, <2>1 DEF AwaitedAt
  <2>9. \E w \in Caller : removal' = removal \cup {[of |-> c, by |-> w]}
    BY <2>1, <2>3
  <2> QED  BY <1>1, <1>2, <1>3, <2>1, <2>3, <2>4, <2>6, <2>7, <2>8, <2>9, CallStep
<1>7. CASE StartInner(r)
  <2>1. /\ attempt' = [attempt EXCEPT ![c] = "RUNNING"]
        /\ named' = named \cup {c} /\ watched' = watched \cup {c}
        /\ call' = [call EXCEPT ![r] = "invoking"] /\ removal' = removal
    BY <1>1, <1>7 DEF StartInner, docker
  <2>2. attempt'[c] = "RUNNING" /\ \A a \in Attempt \ {c} : attempt'[a] = attempt[a]
    BY <1>3, <2>1 DEF IInv, TypeOK
  <2>3. inner' \in [Run -> InnerState]
    <3>1. [NoInner EXCEPT !.of = tries[r], !.promise = "pending",
                          !.stage = "booting", !.flagged = inner[r].flagged] \in InnerState
      BY InnerTypes DEF NoInner, InnerState
    <3> QED  BY <1>7, <3>1, InnerTypes DEF StartInner
  <2>4. TypeOK'
    BY <1>2, <1>3, <1>5, <2>1, <2>3 DEF IInv, TypeOK, AttemptStatus, CallPoint, service
  <2>5. BeingRemoved' = BeingRemoved
    BY <2>1, RemovalsMove
  <2>6. OthersStay(c)
    BY <1>2, <1>4, <2>1, <2>2 DEF OthersStay
  <2>7. Fits(c, "invoking")
    BY <1>2, <1>3, <1>4, <2>1, <2>2, <2>5 DEF Fits, Preparing, Supervised, Unsettled
  <2>8. /\ \A q \in removal' : AwaitedAt(q, c, "invoking")
        /\ "invoking" \in CallPoint
    BY <1>3, <2>1 DEF CallPoint
  <2> QED  BY <1>1, <1>2, <1>3, <2>1, <2>4, <2>6, <2>7, <2>8, CallStep
<1> QED  BY <1>6, <1>7

LEMMA CloseRecordEffect ==
  ASSUME IInv, NEW a, CloseRecord(a)
  PROVE  /\ record' \in [Attempt -> RecordStatus]
         /\ \A x \in Attempt \ {a} : record'[x] = record[x]
         /\ a \in Attempt => record'[a] = IF record[a] = "ACTIVE" THEN "TERMINATED" ELSE record[a]
         /\ a \notin Attempt => record' = record
<1>1. record \in [Attempt -> RecordStatus]
  BY DEF IInv, TypeOK
<1>2. record' = [record EXCEPT ![a] = IF record[a] = "ACTIVE" THEN "TERMINATED" ELSE record[a]]
  BY DEF CloseRecord
<1> QED  BY <1>1, <1>2 DEF RecordStatus

LEMMA FinishAttemptEffect ==
  ASSUME IInv, NEW a \in Attempt, NEW s \in {"SUCCEEDED", "FAILED", "INTERRUPTED"}, FinishAttempt(a, s)
  PROVE  /\ attempt' \in [Attempt -> AttemptStatus]
         /\ \A x \in Attempt \ {a} : attempt'[x] = attempt[x]
         /\ attempt'[a] = IF attempt[a] = "RUNNING" THEN s ELSE attempt[a]
<1>1. attempt \in [Attempt -> AttemptStatus]
  BY DEF IInv, TypeOK
<1>2. attempt' = [attempt EXCEPT ![a] = IF attempt[a] = "RUNNING" THEN s ELSE attempt[a]]
  BY DEF FinishAttempt
<1> QED  BY <1>1, <1>2 DEF AttemptStatus

LEMMA ReturnedTypes ==
  ASSUME IInv, NEW r \in Run, Returned(r)
  PROVE  call' = [call EXCEPT ![r] = "idle"] /\ inner' \in [Run -> InnerState]
<1> DEFINE n == IF inner[r].stage = "none" THEN 0 ELSE inner[r].of
<1>1. inner \in [Run -> InnerState] /\ n \in Nat
  BY InnerTypes DEF InnerState
<1>2. inner' = [inner EXCEPT ![r].promise = "none", ![r].terminal = "open",
                             ![r].forced = FALSE, ![r].of = n]
  BY DEF Returned
<1> HIDE DEF n
<1>3. inner' \in [Run -> InnerState]
  <2>1. PICK i1 : i1 = [inner EXCEPT ![r].promise = "none"]
    OBVIOUS
  <2>2. PICK i2 : i2 = [i1 EXCEPT ![r].terminal = "open"]
    OBVIOUS
  <2>3. PICK i3 : i3 = [i2 EXCEPT ![r].forced = FALSE]
    OBVIOUS
  <2>4. inner' = [i3 EXCEPT ![r].of = n]
    BY <1>2, <2>1, <2>2, <2>3
  <2>5. i1 \in [Run -> InnerState]
    BY <1>1, <2>1 DEF InnerState
  <2>6. i2 \in [Run -> InnerState]
    BY <2>2, <2>5 DEF InnerState
  <2>7. i3 \in [Run -> InnerState]
    BY <2>3, <2>6 DEF InnerState
  <2> QED  BY <1>1, <2>4, <2>7 DEF InnerState
<1> QED  BY <1>3 DEF Returned

\* A supervised invocation: no call waits for docker on its behalf.
LEMMA Watched ==
  ASSUME IInv, NEW r \in Run, call[r] \in {"invoking", "stopping", "killing"}, NEW c, c = Current(r)
  PROVE  /\ c \in Attempt /\ c[1] = r /\ call[r] # "idle" /\ life = "up"
         /\ c \notin unreturned /\ attempt[c] # "none"
         /\ AttemptInv(c) /\ ContainerInv(c)
         /\ \A q \in removal : \A x : AwaitedAt(q, c, x)
<1>1. call[r] # "idle"
  OBVIOUS
<1>2. /\ c \in Attempt /\ c[1] = r /\ life = "up" /\ c \notin unreturned /\ attempt[c] # "none"
      /\ AttemptInv(c) /\ ContainerInv(c)
  BY <1>1, CurrentAttempt
<1>3. \A q \in removal : \A x : AwaitedAt(q, c, x)
  BY <1>2 DEF IInv, RemovalInv, AwaitedAt
<1> QED  BY <1>1, <1>2, <1>3

\* The finally block begins; the attempt is over.
LEMMA FinallyKeeps ==
  ASSUME IInv, NEW r \in Run, call[r] \in {"invoking", "stopping", "killing"}, Finally(r),
         NEW s \in {"SUCCEEDED", "FAILED", "INTERRUPTED"}, FinishAttempt(Current(r), s),
         UNCHANGED <<service, tries, container, launching, leaked, asking, unreturned>>
  PROVE  IInv'
<1>1. PICK c : c = Current(r)
  OBVIOUS
<1>2. /\ c \in Attempt /\ c[1] = r /\ call[r] # "idle" /\ life = "up"
      /\ c \notin unreturned /\ attempt[c] # "none"
      /\ AttemptInv(c) /\ ContainerInv(c)
      /\ \A q \in removal : \A x : AwaitedAt(q, c, x)
  BY <1>1, Watched
<1>3. /\ attempt' \in [Attempt -> AttemptStatus]
      /\ \A x \in Attempt \ {c} : attempt'[x] = attempt[x]
      /\ attempt'[c] = IF attempt[c] = "RUNNING" THEN s ELSE attempt[c]
  BY <1>1, <1>2, FinishAttemptEffect
<1>4. attempt'[c] \notin {"none", "RUNNING"}
  BY <1>2, <1>3
<1>5. watched' = watched \ {c}
  BY <1>1 DEF Finally
<1>6. CASE NeedsRm(c)
  <2>1. /\ named' = named \ {c} /\ c \in named
        /\ removal' = removal \cup {[of |-> c, by |-> "finally"]}
        /\ call' = [call EXCEPT ![r] = "closing"]
        /\ UNCHANGED <<inst, record, inner>>
    BY <1>1, <1>6 DEF Finally, BeginRm, NeedsRm
  <2>2. /\ "finally" \in Caller /\ "closing" \in CallPoint
        /\ removal' \subseteq [of : Attempt, by : Caller]
    BY <1>2, <2>1 DEF Caller, CallPoint, IInv, TypeOK
  <2>3. TypeOK'
    BY <1>3, <1>5, <2>1, <2>2 DEF IInv, TypeOK, CallPoint, service
  <2>4. BeingRemoved' = BeingRemoved \cup {c}
    BY <2>1, RemovalsMove
  <2>5. OthersStay(c)
    BY <1>3, <1>5, <2>1 DEF OthersStay
  <2>6. Fits(c, "closing")
    BY <1>2, <1>4, <2>1, <2>4 DEF Fits, AttemptInv, ContainerInv, Preparing
  <2>7. \A q \in removal' : AwaitedAt(q, c, "closing")
    BY <1>2, <2>1 DEF AwaitedAt
  <2>8. \E w \in Caller : removal' = removal \cup {[of |-> c, by |-> w]}
    BY <2>1, <2>2
  <2> QED  BY <1>1, <1>2, <2>1, <2>2, <2>3, <2>5, <2>6, <2>7, <2>8, CallStep
<1>7. CASE ~NeedsRm(c)
  <2>1. CloseRecord(c) /\ GiveBack(r) /\ Returned(r) /\ c \notin named /\ UNCHANGED <<named, removal>>
    BY <1>1, <1>7 DEF Finally, NeedsRm
  <2>2. /\ call' = [call EXCEPT ![r] = "idle"]
        /\ inner' \in [Run -> InnerState] /\ inst' \in [Instances -> HarnessInstance]
    BY <2>1, ReturnedTypes, GiveBackTypes
  <2>3. /\ record' \in [Attempt -> RecordStatus]
        /\ \A x \in Attempt \ {c} : record'[x] = record[x]
        /\ record'[c] = IF record[c] = "ACTIVE" THEN "TERMINATED" ELSE record[c]
    BY <1>2, <2>1, CloseRecordEffect
  <2>4. TypeOK'
    BY <1>3, <1>5, <2>1, <2>2, <2>3 DEF IInv, TypeOK, CallPoint, service
  <2>5. BeingRemoved' = BeingRemoved
    BY <2>1, RemovalsMove
  <2>6. OthersStay(c)
    BY <1>3, <1>5, <2>1, <2>3 DEF OthersStay
  <2>7. Fits(c, "idle")
    BY <1>2, <1>4, <2>1, <2>3, <2>5 DEF Fits, AttemptInv, ContainerInv, Preparing, Unsettled
  <2>8. /\ \A q \in removal' : AwaitedAt(q, c, "idle")
        /\ c \notin unreturned' /\ "idle" \in CallPoint
        /\ record[c] = "LOST" => record'[c] = "LOST"
    BY <1>2, <2>1, <2>3 DEF CallPoint
  <2> QED  BY <1>1, <1>2, <2>1, <2>2, <2>4, <2>6, <2>7, <2>8, CallStep
<1> QED  BY <1>6, <1>7

LEMMA InvokeEndsKeeps ==
  ASSUME IInv, NEW r \in Run, InvokeSettles(r) \/ TimeoutSweeps(r)
  PROVE  IInv'
<1>1. CASE InvokeSettles(r)
  <2> DEFINE s == IF inner[r].promise # "ok" THEN "FAILED"
                  ELSE IF inner[r].terminal = "open" THEN "SUCCEEDED" ELSE inner[r].terminal
  <2>1. s \in {"SUCCEEDED", "FAILED", "INTERRUPTED"}
    BY InnerTypes DEF InnerState
  <2>2. /\ FinishAttempt(Current(r), s) /\ Finally(r) /\ call[r] = "invoking"
        /\ UNCHANGED <<service, tries, container, launching, leaked, asking, unreturned>>
    BY <1>1 DEF InvokeSettles
  <2> HIDE DEF s
  <2> QED  BY <2>1, <2>2, FinallyKeeps
<1>2. CASE TimeoutSweeps(r) /\ ~NeedsRm(Current(r))
  BY <1>2, FinallyKeeps DEF TimeoutSweeps
<1>3. CASE TimeoutSweeps(r) /\ NeedsRm(Current(r))
  <2>1. PICK c : c = Current(r)
    OBVIOUS
  <2>2. call[r] \in {"invoking", "stopping", "killing"}
    BY <1>3 DEF TimeoutSweeps
  <2>3. /\ c \in Attempt /\ c[1] = r /\ call[r] # "idle" /\ life = "up"
        /\ c \notin unreturned /\ attempt[c] # "none"
        /\ AttemptInv(c) /\ ContainerInv(c)
        /\ \A q \in removal : \A x : AwaitedAt(q, c, x)
    BY <2>1, <2>2, Watched
  <2>4. /\ named' = named \ {c} /\ c \in named
        /\ removal' = removal \cup {[of |-> c, by |-> "timeout"]}
        /\ call' = [call EXCEPT ![r] = "sweeping"]
        /\ UNCHANGED <<inst, attempt, record, watched, inner>>
        /\ UNCHANGED <<service, tries, container, launching, leaked, asking, unreturned>>
    BY <1>3, <2>1 DEF TimeoutSweeps, BeginRm, NeedsRm
  <2>5. /\ "timeout" \in Caller /\ "sweeping" \in CallPoint
        /\ removal' \subseteq [of : Attempt, by : Caller]
    BY <2>3, <2>4 DEF Caller, CallPoint, IInv, TypeOK
  <2>6. TypeOK'
    BY <2>4, <2>5 DEF IInv, TypeOK, CallPoint, service
  <2>7. BeingRemoved' = BeingRemoved \cup {c}
    BY <2>4, RemovalsMove
  <2>8. OthersStay(c)
    BY <2>4 DEF OthersStay
  <2>9. Fits(c, "sweeping")
    BY <2>3, <2>4, <2>7 DEF Fits, AttemptInv, ContainerInv, Preparing, Supervised
  <2>10. \A q \in removal' : AwaitedAt(q, c, "sweeping")
    BY <2>3, <2>4 DEF AwaitedAt
  <2>11. \E w \in Caller : removal' = removal \cup {[of |-> c, by |-> w]}
    BY <2>4, <2>5
  <2> QED  BY <2>1, <2>3, <2>4, <2>5, <2>6, <2>8, <2>9, <2>10, <2>11, CallStep
<1> QED  BY <1>1, <1>2, <1>3

\* docker answers: this removal is over, and its container is gone or left
\* behind.
LEMMA RmAnswersEffect ==
  ASSUME IInv, NEW q \in removal, RmAnswers(q), NEW c, c = q.of
  PROVE  /\ removal' = removal \ {q} /\ removal' \subseteq [of : Attempt, by : Caller]
         /\ c \in Attempt /\ AttemptInv(c) /\ ContainerInv(c)
         /\ c \notin named /\ record[c] \in {"PROVISIONING", "ACTIVE", "TERMINATED", "LOST"}
         /\ life = "up" => record[c] # "PROVISIONING"
         /\ BeingRemoved' \subseteq BeingRemoved
         /\ container' \subseteq container /\ leaked' \subseteq Attempt /\ launching' = launching
         /\ c \in container' => c \in leaked'
         /\ \A a \in Attempt \ {c} : a \in leaked => a \in leaked'
         /\ \E p \in removal : p.of = c /\ removal' = removal \ {p}
<1>1. removal' = removal \ {q} /\ removal \subseteq [of : Attempt, by : Caller]
  BY DEF RmAnswers, IInv, TypeOK
<1>2. c \in Attempt /\ AttemptInv(c) /\ ContainerInv(c) /\ c \in BeingRemoved
  BY BeingRemovedIs DEF IInv
<1>3. /\ c \notin named /\ record[c] \in {"PROVISIONING", "ACTIVE", "TERMINATED", "LOST"}
      /\ life = "up" => record[c] # "PROVISIONING"
  BY <1>2 DEF AttemptInv
<1>4. /\ container' \subseteq container /\ leaked' \subseteq Attempt /\ launching' = launching
      /\ c \in container' => c \in leaked'
      /\ \A a \in Attempt \ {c} : a \in leaked => a \in leaked'
  BY <1>2 DEF RmAnswers, RmReturns, IInv, TypeOK
<1>5. BeingRemoved' \subseteq BeingRemoved
  BY <1>1, RemovalsMove
<1> QED  BY <1>1, <1>2, <1>3, <1>4, <1>5

LEMMA TimeoutEndsKeeps ==
  ASSUME IInv, NEW q \in removal, TimeoutEnds(q)
  PROVE  IInv'
<1>1. PICK c : c = q.of
  OBVIOUS
<1>2. PICK r : r = c[1]
  OBVIOUS
<1>3. /\ q.by = "timeout" /\ RmAnswers(q) /\ CloseRecord(c) /\ FinishAttempt(c, "FAILED")
      /\ watched' = watched \ {c} /\ GiveBack(r) /\ Returned(r)
      /\ UNCHANGED <<service, tries, named, asking, unreturned>>
  BY <1>1, <1>2 DEF TimeoutEnds
<1>4. /\ removal' = removal \ {q} /\ removal' \subseteq [of : Attempt, by : Caller]
      /\ c \in Attempt /\ AttemptInv(c)
      /\ c \notin named /\ record[c] \in {"ACTIVE", "TERMINATED", "LOST"}
      /\ BeingRemoved' \subseteq BeingRemoved
      /\ container' \subseteq container /\ leaked' \subseteq Attempt /\ launching' = launching
      /\ c \in container' => c \in leaked'
      /\ \A a \in Attempt \ {c} : a \in leaked => a \in leaked'
      /\ \E p \in removal : p.of = c /\ removal' = removal \ {p}
  <2>1. life = "up"
    BY <1>3 DEF IInv, RemovalInv
  <2> QED  BY <1>1, <1>3, <2>1, RmAnswersEffect
<1>5. r \in Run /\ c = Current(r) /\ call[r] = "sweeping" /\ call[r] # "idle"
  BY <1>1, <1>2, <1>3, <1>4, AttemptsAre DEF IInv, RemovalInv
<1>6. c \notin unreturned /\ attempt[c] # "none"
  BY <1>5, CurrentAttempt
<1>7. /\ record' \in [Attempt -> RecordStatus]
      /\ \A x \in Attempt \ {c} : record'[x] = record[x]
      /\ record'[c] = IF record[c] = "ACTIVE" THEN "TERMINATED" ELSE record[c]
  BY <1>3, <1>4, CloseRecordEffect
<1>8. /\ attempt' \in [Attempt -> AttemptStatus]
      /\ \A x \in Attempt \ {c} : attempt'[x] = attempt[x]
      /\ attempt'[c] = IF attempt[c] = "RUNNING" THEN "FAILED" ELSE attempt[c]
  BY <1>3, <1>4, FinishAttemptEffect
<1>9. /\ call' = [call EXCEPT ![r] = "idle"]
      /\ inner' \in [Run -> InnerState] /\ inst' \in [Instances -> HarnessInstance]
  BY <1>3, <1>5, ReturnedTypes, GiveBackTypes
<1>10. TypeOK'
  BY <1>3, <1>4, <1>7, <1>8, <1>9 DEF IInv, TypeOK, CallPoint, service
<1>11. OthersStay(c)
  BY <1>3, <1>4, <1>7, <1>8 DEF OthersStay
<1>12. Fits(c, "idle")
  BY <1>3, <1>4, <1>6, <1>7, <1>8 DEF Fits, Preparing
<1>13. ASSUME NEW p \in removal'  PROVE AwaitedAt(p, c, "idle")
  <2>1. p \in removal /\ p # q /\ RemovalInv(p)
    BY <1>4, <1>13 DEF IInv
  <2>2. p = [of |-> p.of, by |-> p.by] /\ q = [of |-> q.of, by |-> q.by]
    BY <2>1 DEF IInv, TypeOK
  <2> QED  BY <1>1, <1>2, <1>3, <1>5, <2>1, <2>2 DEF RemovalInv, AwaitedAt
<1>14. c \notin unreturned' /\ "idle" \in CallPoint /\ (record[c] = "LOST" => record'[c] = "LOST")
  BY <1>3, <1>6, <1>7 DEF CallPoint
<1> QED  BY <1>3, <1>4, <1>5, <1>9, <1>10, <1>11, <1>12, <1>13, <1>14, CallStep

LEMMA FinallyEndsKeeps ==
  ASSUME IInv, NEW q \in removal, FinallyEnds(q)
  PROVE  IInv'
<1>1. PICK c : c = q.of
  OBVIOUS
<1>2. PICK r : r = c[1]
  OBVIOUS
<1>3. /\ q.by = "finally" /\ RmAnswers(q) /\ CloseRecord(c) /\ Returned(r)
      /\ \/ GiveBack(r) /\ unreturned' = unreturned
         \/ inst' = inst /\ unreturned' = unreturned \cup {c}
      /\ UNCHANGED <<service, tries, attempt, named, watched, asking>>
  BY <1>1, <1>2 DEF FinallyEnds
<1>4. /\ removal' = removal \ {q} /\ removal' \subseteq [of : Attempt, by : Caller]
      /\ c \in Attempt /\ AttemptInv(c)
      /\ c \notin named /\ record[c] \in {"ACTIVE", "TERMINATED", "LOST"}
      /\ BeingRemoved' \subseteq BeingRemoved
      /\ container' \subseteq container /\ leaked' \subseteq Attempt /\ launching' = launching
      /\ c \in container' => c \in leaked'
      /\ \A a \in Attempt \ {c} : a \in leaked => a \in leaked'
      /\ \E p \in removal : p.of = c /\ removal' = removal \ {p}
  <2>1. life = "up"
    BY <1>3 DEF IInv, RemovalInv
  <2> QED  BY <1>1, <1>3, <2>1, RmAnswersEffect
<1>5. r \in Run /\ c = Current(r) /\ call[r] = "closing" /\ call[r] # "idle"
  BY <1>1, <1>2, <1>3, <1>4, AttemptsAre DEF IInv, RemovalInv
<1>6. c \notin unreturned /\ attempt[c] # "none" /\ life = "up"
  BY <1>5, CurrentAttempt
<1>7. /\ record' \in [Attempt -> RecordStatus]
      /\ \A x \in Attempt \ {c} : record'[x] = record[x]
      /\ record'[c] = IF record[c] = "ACTIVE" THEN "TERMINATED" ELSE record[c]
  BY <1>3, <1>4, CloseRecordEffect
<1>8. /\ call' = [call EXCEPT ![r] = "idle"]
      /\ inner' \in [Run -> InnerState] /\ inst' \in [Instances -> HarnessInstance]
  BY <1>3, <1>5, ReturnedTypes, GiveBackTypes DEF IInv, TypeOK
<1>9. TypeOK'
  BY <1>3, <1>4, <1>7, <1>8 DEF IInv, TypeOK, CallPoint, service
<1>10. OthersStay(c)
  BY <1>3, <1>4, <1>7 DEF OthersStay
<1>11. attempt[c] = "RUNNING" => crashes > 0 /\ record[c] = "TERMINATED"
  BY <1>2, <1>4, <1>5, <1>6 DEF AttemptInv, Supervised
<1>12. Fits(c, "idle")
  BY <1>3, <1>4, <1>6, <1>7, <1>11 DEF Fits, Preparing
<1>13. ASSUME NEW p \in removal'  PROVE AwaitedAt(p, c, "idle")
  <2>1. p \in removal /\ p # q /\ RemovalInv(p)
    BY <1>4, <1>13 DEF IInv
  <2>2. p = [of |-> p.of, by |-> p.by] /\ q = [of |-> q.of, by |-> q.by]
    BY <2>1 DEF IInv, TypeOK
  <2> QED  BY <1>1, <1>2, <1>3, <1>5, <2>1, <2>2 DEF RemovalInv, AwaitedAt
<1>14. "idle" \in CallPoint /\ (record[c] = "LOST" => record'[c] = "LOST")
  BY <1>7 DEF CallPoint
<1>15. \/ inst' = inst /\ c \in unreturned'
       \/ GiveBack(r) /\ c \notin unreturned'
  BY <1>3, <1>6
<1> QED  BY <1>3, <1>4, <1>5, <1>8, <1>9, <1>10, <1>12, <1>13, <1>14, <1>15, CallStep

\* A step beside the invocations: it terminates the sandbox of any attempt.
LEMMA SideStep ==
  ASSUME IInv, TypeOK', life = "up", UNCHANGED <<service, tries, call, unreturned, watched, launching>>,
         NEW c \in Attempt, OthersStay(c),
         \/ removal' = removal
         \/ \E w \in Caller \ {"finally", "timeout"} : removal' = removal \cup {[of |-> c, by |-> w]}
         \/ \E q \in removal : q.of = c /\ removal' = removal \ {q},
         record'[c] = record[c] \/ (record[c] = "ACTIVE" /\ record'[c] \in {"TERMINATED", "LOST"}),
         container' \subseteq container, named' \subseteq named,
         c \in named' => record'[c] = "ACTIVE" /\ c \notin BeingRemoved',
         c \in BeingRemoved' => record'[c] \in {"ACTIVE", "TERMINATED", "LOST"},
         attempt'[c] = attempt[c] \/ (attempt[c] = "RUNNING" /\ attempt'[c] = "INTERRUPTED"),
         attempt'[c] = "RUNNING" => record'[c] \in {"ACTIVE", "TERMINATED"},
         c \in container' => c \in BeingRemoved' \cup leaked' \/ record'[c] \in Unsettled,
         c \in container' /\ record'[c] = "ACTIVE" => c \in named' \cup BeingRemoved' \cup leaked',
         InstanceInv(InstanceOf[c[1]])',
         \A i \in Instances \ {InstanceOf[c[1]]} : inst'[i] = inst[i]
  PROVE  IInv'
<1>1. /\ \A a \in Attempt \ {c} : Still(a)
      /\ \A r \in Run \ {c[1]} : tries'[r] = tries[r] /\ call'[r] = call[r]
      /\ \A q \in removal' : q \in removal \/ q.of = c
  BY OneAttemptMoves
<1>2. c \in Executing' <=> c \in Executing
  BY DEF Executing, Current
<1>3. AttemptInv(c) /\ ContainerInv(c) /\ c[1] \in Run /\ RunInv(c[1])
  BY AttemptsAre DEF IInv
<1>4. AttemptInv(c)'
  <2>1. ~(c[2] > tries'[c[1]]) \/ (attempt'[c] = "none" /\ record'[c] = "none")
    BY <1>3 DEF AttemptInv
  <2>2. attempt'[c] = "none" <=> c[2] > tries'[c[1]]
    BY <1>3 DEF AttemptInv
  <2>3. c \in container' \cup unreturned' => record'[c] # "none"
    BY <1>3 DEF AttemptInv
  <2>4. c \in unreturned' => c \notin Executing'
    BY <1>2, <1>3 DEF AttemptInv
  <2>5. attempt'[c] = "RUNNING" =>
          \/ c \in Executing' /\ call'[c[1]] \in Supervised /\ c \in watched'
          \/ crashes' > 0 /\ record'[c] = "TERMINATED"
    BY <1>2, <1>3 DEF AttemptInv, service
  <2> QED  BY <2>1, <2>2, <2>3, <2>4, <2>5 DEF AttemptInv
<1>5. ContainerInv(c)'
  BY <1>2, <1>3 DEF ContainerInv
<1>6. RunInv(c[1])'
  <2> DEFINE d == Current(c[1])
  <2>1. Current(c[1])' = d
    BY DEF Current
  <2>2. CASE call[c[1]] = "idle"
    BY <2>2 DEF RunInv, Preparing
  <2>3. CASE call[c[1]] # "idle"
    <3>1. d \in Attempt
      BY <1>3, <2>3, CurrentAttempt
    <3>2. record[d] = "PROVISIONING" => record'[d] = "PROVISIONING"
      BY <3>1 DEF OthersStay
    <3> QED  BY <1>3, <2>1, <3>1, <3>2 DEF RunInv
  <2> QED  BY <2>2, <2>3
<1>7. ASSUME NEW q \in removal', q.of[1] = c[1]  PROVE RemovalInv(q)'
  <2>1. CASE q \in removal
    BY <2>1 DEF IInv, RemovalInv, Current, service
  <2>2. CASE q \notin removal
    <3>1. PICK w \in Caller \ {"finally", "timeout"} : removal' = removal \cup {[of |-> c, by |-> w]}
      BY <1>7, <2>2
    <3>2. q = [of |-> c, by |-> w]
      BY <1>7, <2>2, <3>1
    <3>3. q.by = w
      BY <3>2
    <3> QED  BY <3>3 DEF RemovalInv, service
  <2> QED  BY <2>1, <2>2
<1> QED  BY <1>1, <1>4, <1>5, <1>6, <1>7, StepKeeps

\* The instance when a side step leaves it alone.
LEMMA SideStepInstance ==
  ASSUME IInv, TypeOK', UNCHANGED <<service, tries, call, unreturned, inst, launching>>,
         NEW c \in Attempt, OthersStay(c),
         \/ removal' = removal
         \/ \E w \in Caller : removal' = removal \cup {[of |-> c, by |-> w]}
         \/ \E q \in removal : q.of = c /\ removal' = removal \ {q},
         record[c] = "LOST" => record'[c] = "LOST"
  PROVE  InstanceInv(InstanceOf[c[1]])'
<1>1. \A a \in Attempt \ {c} : Still(a)
  BY OneAttemptMoves
<1>2. c \in Executing' <=> c \in Executing
  BY DEF Executing, Current
<1> QED  BY <1>1, <1>2, InstanceStays

\* terminate up to its first await, by a caller that is not the invocation.
LEMMA TerminateBegins ==
  ASSUME IInv, life = "up", UNCHANGED <<service, tries, call, unreturned, watched, inst, attempt, container, launching, leaked>>,
         NEW r \in Run, inner' \in [Run -> InnerState], asking' \in [Run -> AskingState],
         NEW c, NEW w \in {"cleaner", "interrupt"},
         \/ NeedsRm(c) /\ BeginRm(c, w) /\ record' = record
         \/ ~NeedsRm(c) /\ CloseRecord(c) /\ UNCHANGED <<named, removal>>
  PROVE  IInv'
<1>1. CASE NeedsRm(c)
  <2>1. /\ c \in named /\ named' = named \ {c} /\ record' = record
        /\ removal' = removal \cup {[of |-> c, by |-> w]}
    BY <1>1 DEF NeedsRm, BeginRm
  <2>2. c \in Attempt
    BY <2>1 DEF IInv, TypeOK
  <2>3. AttemptInv(c) /\ ContainerInv(c)
    BY <2>2 DEF IInv
  <2>4. removal' \subseteq [of : Attempt, by : Caller] /\ w \in Caller \ {"finally", "timeout"}
    BY <2>1, <2>2 DEF Caller, IInv, TypeOK
  <2>5. TypeOK'
    BY <2>1, <2>4 DEF IInv, TypeOK, service
  <2>6. BeingRemoved' = BeingRemoved \cup {c}
    BY <2>1, RemovalsMove
  <2>7. OthersStay(c)
    BY <2>1 DEF OthersStay
  <2>8. record[c] = "ACTIVE" /\ c \in container' => c \in container
    BY <2>1, <2>3 DEF AttemptInv
  <2>9. InstanceInv(InstanceOf[c[1]])'
    BY <2>1, <2>2, <2>4, <2>5, <2>7, SideStepInstance
  <2>10. attempt[c] = "RUNNING" => record[c] \in {"ACTIVE", "TERMINATED"}
    BY <2>3 DEF AttemptInv
  <2>11. \E x \in Caller \ {"finally", "timeout"} : removal' = removal \cup {[of |-> c, by |-> x]}
    BY <2>1, <2>4
  <2>12. record[c] = "ACTIVE"
    BY <2>1, <2>3 DEF AttemptInv
  <2> QED  BY <2>1, <2>2, <2>5, <2>6, <2>7, <2>9, <2>10, <2>11, <2>12, SideStep
<1>2. CASE ~NeedsRm(c) /\ c \in Attempt
  <2>1. c \notin named /\ named' = named /\ removal' = removal
    BY <1>2 DEF NeedsRm
  <2>2. AttemptInv(c) /\ ContainerInv(c)
    BY <1>2 DEF IInv
  <2>3. /\ record' \in [Attempt -> RecordStatus]
        /\ \A x \in Attempt \ {c} : record'[x] = record[x]
        /\ record'[c] = IF record[c] = "ACTIVE" THEN "TERMINATED" ELSE record[c]
    BY <1>2, CloseRecordEffect
  <2>4. TypeOK'
    BY <2>1, <2>3 DEF IInv, TypeOK, service
  <2>5. BeingRemoved' = BeingRemoved
    BY <2>1, RemovalsMove
  <2>6. OthersStay(c)
    BY <2>1, <2>3 DEF OthersStay
  <2>7. InstanceInv(InstanceOf[c[1]])'
    BY <1>2, <2>1, <2>3, <2>4, <2>6, SideStepInstance
  <2>8. /\ attempt[c] = "RUNNING" => record'[c] \in {"ACTIVE", "TERMINATED"}
        /\ c \in BeingRemoved' => record'[c] \in {"ACTIVE", "TERMINATED", "LOST"}
    BY <2>2, <2>3, <2>5 DEF AttemptInv
  <2>9. /\ c \in container' => c \in BeingRemoved' \cup leaked' \/ record'[c] \in Unsettled
        /\ c \in container' /\ record'[c] = "ACTIVE" => c \in named' \cup BeingRemoved' \cup leaked'
    BY <2>1, <2>2, <2>3, <2>5 DEF ContainerInv, Unsettled
  <2> QED  BY <1>2, <2>1, <2>3, <2>4, <2>5, <2>6, <2>7, <2>8, <2>9, SideStep
<1>3. CASE ~NeedsRm(c) /\ c \notin Attempt
  <2>1. record' = record /\ UNCHANGED <<named, removal>>
    BY <1>3, CloseRecordEffect
  <2>2. UNCHANGED durable /\ UNCHANGED docker
    BY <2>1 DEF durable, docker
  <2>3. call' = call
    OBVIOUS
  <2> QED  BY <2>1, <2>2, <2>3, InnerMoves
<1> QED  BY <1>1, <1>2, <1>3

\* The worker dies, or the user's interrupt gives up on the invocation.
LEMMA SweepsKeep ==
  ASSUME IInv, NEW r \in Run, InnerDies(r) \/ InterruptSweeps(r)
  PROVE  IInv'
<1>1. CASE InnerDies(r)
  <2>1. PICK c : c = <<r, inner[r].of>>
    OBVIOUS
  <2>2. life = "up"
    BY <1>1, ServiceIsUp DEF InnerDies
  <2>3. Gone(inner[r]) \in InnerState /\ Settle(Gone(inner[r]), "error", "FAILED") \in InnerState
    BY InnerTypes, InnerOps
  <2>4. inner' \in [Run -> InnerState] /\ asking' \in [Run -> AskingState]
    BY <1>1, <2>3, InnerTypes DEF InnerDies
  <2>5. \/ NeedsRm(c) /\ BeginRm(c, "cleaner") /\ record' = record
        \/ ~NeedsRm(c) /\ CloseRecord(c) /\ UNCHANGED <<named, removal>>
    BY <1>1, <2>1 DEF InnerDies
  <2>6. UNCHANGED <<service, tries, call, unreturned, watched, inst, attempt, container, launching, leaked>>
    BY <1>1 DEF InnerDies
  <2> QED  BY <2>2, <2>4, <2>5, <2>6, TerminateBegins
<1>2. CASE InterruptSweeps(r)
  <2>1. PICK c : c = <<r, asking[r].of>>
    OBVIOUS
  <2>2. life = "up"
    BY <1>2, ServiceIsUp DEF InterruptSweeps
  <2>3. /\ ForceStop(inner[r], asking[r].of) \in InnerState /\ NoAsking \in AskingState
        /\ \A x \in AskingState : [x EXCEPT !.pc = "sweeping"] \in AskingState
    BY InnerTypes, InnerOps DEF AskingState, NoAsking
  <2>4. inner' \in [Run -> InnerState] /\ asking' \in [Run -> AskingState]
    BY <1>2, <2>3, InnerTypes DEF InterruptSweeps
  <2>5. \/ NeedsRm(c) /\ BeginRm(c, "interrupt") /\ record' = record
        \/ ~NeedsRm(c) /\ CloseRecord(c) /\ UNCHANGED <<named, removal>>
    BY <1>2, <2>1 DEF InterruptSweeps
  <2>6. UNCHANGED <<service, tries, call, unreturned, watched, inst, attempt, container, launching, leaked>>
    BY <1>2 DEF InterruptSweeps
  <2> QED  BY <2>2, <2>4, <2>5, <2>6, TerminateBegins
<1> QED  BY <1>1, <1>2

\* docker has answered the cleaner or the interrupt.
LEMMA SideRmEndsKeeps ==
  ASSUME IInv, NEW q \in removal, CleanerEnds(q) \/ InterruptEnds(q)
  PROVE  IInv'
<1>1. PICK c : c = q.of
  OBVIOUS
<1>2. PICK r : r = c[1]
  OBVIOUS
<1>3. /\ q.by \in {"cleaner", "interrupt"} /\ RmAnswers(q) /\ CloseRecord(c)
      /\ UNCHANGED <<service, inst, tries, attempt, named, watched, call, unreturned>>
  BY <1>1 DEF CleanerEnds, InterruptEnds
<1>4. /\ removal' = removal \ {q} /\ removal' \subseteq [of : Attempt, by : Caller]
      /\ c \in Attempt /\ AttemptInv(c)
      /\ c \notin named /\ record[c] \in {"ACTIVE", "TERMINATED", "LOST"}
      /\ BeingRemoved' \subseteq BeingRemoved
      /\ container' \subseteq container /\ leaked' \subseteq Attempt /\ launching' = launching
      /\ c \in container' => c \in leaked'
      /\ \A a \in Attempt \ {c} : a \in leaked => a \in leaked'
      /\ \E p \in removal : p.of = c /\ removal' = removal \ {p}
  <2>1. life = "up"
    BY <1>3 DEF IInv, RemovalInv
  <2> QED  BY <1>1, <1>3, <2>1, RmAnswersEffect
<1>5. r \in Run /\ c[2] \in Nat /\ life = "up"
  BY <1>2, <1>3, <1>4, AttemptsAre DEF IInv, RemovalInv
<1>6. /\ record' \in [Attempt -> RecordStatus]
      /\ \A x \in Attempt \ {c} : record'[x] = record[x]
      /\ record'[c] = IF record[c] = "ACTIVE" THEN "TERMINATED" ELSE record[c]
  BY <1>3, <1>4, CloseRecordEffect
<1>7. inner' \in [Run -> InnerState] /\ asking' \in [Run -> AskingState]
  <2>1. Settle(inner[r], "error", "FAILED") \in InnerState /\ NoAsking \in AskingState
    BY <1>5, InnerTypes, InnerOps DEF AskingState, NoAsking
  <2>2. ForceStop(inner[r], q.of[2]) \in InnerState
    BY <1>5, InnerTypes, InnerOps
  <2> QED  BY <1>1, <1>2, <1>5, <2>1, <2>2, InnerTypes DEF CleanerEnds, InterruptEnds
<1>8. TypeOK'
  BY <1>3, <1>4, <1>6, <1>7 DEF IInv, TypeOK, service
<1>9. OthersStay(c)
  BY <1>3, <1>4, <1>6 DEF OthersStay
<1>10. InstanceInv(InstanceOf[c[1]])'
  <2>1. \/ removal' = removal
        \/ \E w \in Caller : removal' = removal \cup {[of |-> c, by |-> w]}
        \/ \E p \in removal : p.of = c /\ removal' = removal \ {p}
    BY <1>4
  <2>2. record[c] = "LOST" => record'[c] = "LOST"
    BY <1>6
  <2> QED  BY <1>3, <1>4, <1>8, <1>9, <2>1, <2>2, SideStepInstance
<1>11. record'[c] = record[c] \/ (record[c] = "ACTIVE" /\ record'[c] \in {"TERMINATED", "LOST"})
  BY <1>6
<1>12. /\ c \notin named' /\ record'[c] \in {"ACTIVE", "TERMINATED", "LOST"}
       /\ attempt'[c] = attempt[c]
       /\ attempt'[c] = "RUNNING" => record'[c] \in {"ACTIVE", "TERMINATED"}
  BY <1>3, <1>4, <1>6 DEF AttemptInv
<1> QED  BY <1>3, <1>4, <1>5, <1>8, <1>9, <1>10, <1>11, <1>12, SideStep

LEMMA SandboxLostKeeps ==
  ASSUME IInv, NEW r \in Run, SandboxLost(r)
  PROVE  IInv'
<1>1. PICK c : c = <<r, inner[r].of>>
  OBVIOUS
<1>2. /\ isolation = "none" /\ c \in named \ container /\ record[c] = "ACTIVE"
      /\ named' = named \ {c}
      /\ record' = [record EXCEPT ![c] = "LOST"]
      /\ UNCHANGED <<service, tries, docker, watched, call, unreturned>>
      /\ \/ /\ c \in watched
            /\ inst' = [inst EXCEPT ![InstanceOf[r]] = MarkFailed(inst[InstanceOf[r]])]
            /\ FinishAttempt(c, "INTERRUPTED")
         \/ c \notin watched /\ inst' = inst /\ attempt' = attempt
  BY <1>1 DEF SandboxLost
<1>3. life = "up"
  BY ServiceIsUp DEF SandboxLost
<1>4. inner' \in [Run -> InnerState] /\ asking' \in [Run -> AskingState]
  BY BeginAskingTypes, InnerTypes DEF SandboxLost
<1>5. c \in Attempt /\ c[1] = r /\ AttemptInv(c) /\ InstanceOf[r] \in Instances
  BY <1>1, <1>2, RuntimeAssumption DEF IInv, TypeOK
<1>6. /\ record' \in [Attempt -> RecordStatus] /\ record'[c] = "LOST"
      /\ \A x \in Attempt \ {c} : record'[x] = record[x]
  BY <1>2, <1>5 DEF IInv, TypeOK, RecordStatus
<1>7. /\ attempt' \in [Attempt -> AttemptStatus]
      /\ \A x \in Attempt \ {c} : attempt'[x] = attempt[x]
      /\ attempt'[c] = attempt[c] \/ (attempt[c] = "RUNNING" /\ attempt'[c] = "INTERRUPTED")
      /\ attempt'[c] # "RUNNING"
  <2>1. CASE c \in watched
    <3>1. "INTERRUPTED" \in {"SUCCEEDED", "FAILED", "INTERRUPTED"} /\ FinishAttempt(c, "INTERRUPTED")
      BY <1>2, <2>1
    <3>2. /\ attempt' \in [Attempt -> AttemptStatus]
          /\ \A x \in Attempt \ {c} : attempt'[x] = attempt[x]
          /\ attempt'[c] = IF attempt[c] = "RUNNING" THEN "INTERRUPTED" ELSE attempt[c]
      BY <1>5, <3>1, FinishAttemptEffect
    <3> QED  BY <3>2
  <2>2. CASE c \notin watched
    <3>1. attempt' = attempt
      BY <1>2, <2>2
    <3>2. attempt[c] # "RUNNING"
      BY <1>2, <1>3, <1>5, <2>2 DEF AttemptInv
    <3> QED  BY <3>1, <3>2 DEF IInv, TypeOK
  <2> QED  BY <2>1, <2>2
<1>8. inst' \in [Instances -> HarnessInstance]
  <2>1. \A x \in HarnessInstance : MarkFailed(x) \in HarnessInstance
    BY DEF MarkFailed, HarnessInstance, InstanceState
  <2> QED  BY <1>2, <1>5, <2>1 DEF IInv, TypeOK
<1>9. TypeOK'
  BY <1>2, <1>4, <1>6, <1>7, <1>8 DEF IInv, TypeOK, service, docker
<1>10. OthersStay(c)
  BY <1>2, <1>6, <1>7 DEF OthersStay, docker
<1>11. /\ removal' = removal /\ container' = container /\ BeingRemoved' = BeingRemoved
       /\ launching' = launching /\ leaked' = leaked /\ tries' = tries /\ call' = call
       /\ UNCHANGED service /\ unreturned' = unreturned /\ watched' = watched
  BY <1>2, RemovalsMove DEF docker
<1>12. InstanceInv(InstanceOf[c[1]])'
  <2> DEFINE i == InstanceOf[c[1]]
             x == inst[i]
  <2>1. i \in Instances /\ InstanceInv(i) /\ x \in HarnessInstance
    BY <1>5 DEF IInv, TypeOK
  <2>2. HoldersOf(i)' = HoldersOf(i)
    <3>1. \A a \in Attempt \ {c} : Still(a)
      BY <1>5, <1>9, <1>10, <1>11, OneAttemptMoves
    <3>2. c \in (Executing \cup unreturned)' <=> c \in Executing \cup unreturned
      BY <1>2 DEF Executing, Current
    <3>3. CASE c \in Executing \cup unreturned
      <4>1. HoldersOf(i)' = HoldersOf(i) \cup {c} /\ c \in HoldersOf(i)
        BY <1>5, <1>9, <3>1, <3>2, <3>3, HoldersMove
      <4> QED  BY <4>1
    <3>4. CASE c \notin Executing \cup unreturned
      <4>1. HoldersOf(i)' = HoldersOf(i) \ {c} /\ c \notin HoldersOf(i)
        BY <1>5, <1>9, <3>1, <3>2, <3>4, HoldersMove
      <4> QED  BY <4>1
    <3> QED  BY <3>3, <3>4
  <2>3. /\ inst'[i].count = x.count
        /\ inst'[i].actual = x.actual \/ (x.actual = "ACTIVE" /\ inst'[i].actual = "FAILED")
    <3>1. inst'[i] = x \/ inst'[i] = MarkFailed(x)
      BY <1>2, <1>5 DEF IInv, TypeOK
    <3>2. MarkFailed(x).count = x.count /\ (MarkFailed(x).actual = x.actual \/ (x.actual = "ACTIVE" /\ MarkFailed(x).actual = "FAILED"))
      BY <2>1 DEF MarkFailed, HarnessInstance
    <3> QED  BY <3>1, <3>2
  <2>4. \E a \in Attempt : InstanceOf[a[1]] = i /\ record'[a] = "LOST"
    BY <1>5, <1>6
  <2>5. isolation' = "none" /\ life' = "up" /\ life = "up"
    BY <1>2, <1>3 DEF service
  <2>6. inst'[i].actual \in {"READY", "ACTIVE", "FAILED"}
    BY <2>1, <2>3 DEF InstanceInv
  <2>7. /\ inst'[i].actual = "READY" => inst'[i].count = 0
        /\ inst'[i].actual = "ACTIVE" => inst'[i].count > 0
    BY <2>1, <2>3 DEF InstanceInv
  <2>8. inst'[i].count = Cardinality(HoldersOf(i)')
    BY <2>1, <2>2, <2>3, <2>5 DEF InstanceInv
  <2>9. Cardinality(HoldersOf(i))' = Cardinality(HoldersOf(i)')
    OBVIOUS
  <2> HIDE DEF i, x
  <2>10. InstanceInv(i)'
    BY <2>4, <2>5, <2>6, <2>7, <2>8, <2>9 DEF InstanceInv
  <2> QED  BY <2>10 DEF i
<1>13. \A i \in Instances \ {InstanceOf[c[1]]} : inst'[i] = inst[i]
  BY <1>2, <1>5 DEF IInv, TypeOK
<1>14. c \notin named' /\ named' \subseteq named /\ c \notin container' /\ container' \subseteq container
  BY <1>2, <1>11
<1>15. c \in BeingRemoved' => record'[c] \in {"ACTIVE", "TERMINATED", "LOST"}
  BY <1>6
<1> QED  BY <1>2, <1>3, <1>5, <1>6, <1>7, <1>9, <1>10, <1>11, <1>12, <1>13, <1>14, <1>15, SideStep

\* A slot is taken for an attempt that nobody has heard of.
LEMMA AcquireSandboxKeeps ==
  ASSUME IInv, NEW r \in Run, AcquireSandbox(r)
  PROVE  IInv'
<1>1. PICK c : c = <<r, tries[r] + 1>>
  OBVIOUS
<1>2. PICK i : i = InstanceOf[r]
  OBVIOUS
<1>3. /\ NextTry(r) /\ CanAcquire(inst[i])
      /\ inst' = [inst EXCEPT ![i] = AcquireRun(inst[i])]
      /\ attempt' = [attempt EXCEPT ![c] = "PENDING"]
      /\ record' = [record EXCEPT ![c] = "PROVISIONING"]
      /\ call' = [call EXCEPT ![r] = "creating"]
      /\ UNCHANGED <<service, docker, named, watched, inner, asking, unreturned>>
  BY <1>1, <1>2 DEF AcquireSandbox
<1>4. /\ c \in Attempt /\ c[1] = r /\ c[2] = tries[r] + 1 /\ c[2] = tries'[r] /\ tries[r] \in Nat
      /\ life = "up" /\ call[r] = "idle"
      /\ attempt[c] = "none" /\ record[c] = "none"
      /\ c \notin container \cup unreturned \cup named \cup BeingRemoved \cup Executing
  BY <1>1, <1>3, NewAttempt
<1>5. /\ \A a \in Attempt \ {c} : a[1] = r => a[2] # tries[r] + 1
      /\ \A a \in Attempt \ {c} : a[1] = r => (a[2] > tries[r] <=> a[2] > tries'[r])
      /\ \A a \in Attempt : a[1] = r => a \notin Executing
      /\ \A q \in removal : q.of[1] = r => q.by \notin {"finally", "timeout"}
  BY <1>1, <1>3, NewAttempt
<1>6. /\ tries' \in [Run -> 0..MaxAttempts]
      /\ \A q \in Run \ {r} : tries'[q] = tries[q] /\ call'[q] = call[q]
  BY <1>3, NextTryFits DEF IInv, TypeOK
<1>7. /\ attempt' \in [Attempt -> AttemptStatus] /\ record' \in [Attempt -> RecordStatus]
      /\ attempt'[c] = "PENDING" /\ record'[c] = "PROVISIONING"
      /\ \A a \in Attempt \ {c} : attempt'[a] = attempt[a] /\ record'[a] = record[a]
  BY <1>3, <1>4 DEF IInv, TypeOK, AttemptStatus, RecordStatus
<1>8. call' \in [Run -> CallPoint] /\ call'[r] = "creating"
  BY <1>3 DEF IInv, TypeOK, CallPoint
<1>9. /\ i \in Instances /\ InstanceInv(i) /\ inst[i] \in HarnessInstance
      /\ inst' \in [Instances -> HarnessInstance]
      /\ inst'[i].actual = "ACTIVE" /\ inst'[i].count = inst[i].count + 1
      /\ \A j \in Instances \ {i} : inst'[j] = inst[j]
  <2>1. i \in Instances /\ InstanceInv(i) /\ inst[i] \in HarnessInstance
    BY <1>2, RuntimeAssumption DEF IInv, TypeOK
  <2>2. PICK y : y = AcquireRun(inst[i])
    OBVIOUS
  <2>3. y \in HarnessInstance /\ y.actual = "ACTIVE" /\ y.count = inst[i].count + 1
    BY <2>1, <2>2 DEF AcquireRun, HarnessInstance, InstanceState
  <2> QED  BY <1>3, <2>1, <2>2, <2>3 DEF IInv, TypeOK
<1>10. TypeOK'
  BY <1>3, <1>6, <1>7, <1>8, <1>9 DEF IInv, TypeOK, service, docker
<1>11. BeingRemoved' = BeingRemoved
  BY <1>3 DEF BeingRemoved, docker
<1>12. \A a \in Attempt : a \in Executing' <=> call'[a[1]] # "idle" /\ a[2] = tries'[a[1]]
  BY AttemptsAre DEF Executing, Current
<1>13. ASSUME NEW a \in Attempt \ {c}  PROVE Still(a)
  <2>1. CASE a[1] = r
    <3>1. a \notin Executing /\ a \notin Executing'
      BY <1>4, <1>5, <1>12, <2>1
    <3>2. a[2] > tries'[a[1]] <=> a[2] > tries[a[1]]
      BY <1>5, <2>1
    <3> QED  BY <1>3, <1>7, <1>11, <3>1, <3>2 DEF Still, docker
  <2>2. CASE a[1] # r
    <3>1. a[1] \in Run
      BY AttemptsAre
    <3> QED  BY <1>3, <1>6, <1>7, <1>11, <1>12, <2>2, <3>1, ExecutingIs DEF Still, docker
  <2> QED  BY <2>1, <2>2
<1>14. c \in Executing' /\ c \notin unreturned' /\ c \notin BeingRemoved' /\ c \notin container' /\ c \notin named'
  BY <1>3, <1>4, <1>8, <1>11, <1>12 DEF docker
<1>15. AttemptInv(c)' /\ ContainerInv(c)'
  <2>1. ~(c[2] > tries'[c[1]])
    BY <1>4
  <2>2. c \notin launching'
    BY <1>3, <1>4 DEF IInv, ContainerInv, docker
  <2> QED  BY <1>7, <1>14, <2>1, <2>2 DEF AttemptInv, ContainerInv
<1>16. RunInv(r)'
  <2>1. Current(r)' = c
    BY <1>1, <1>4 DEF Current
  <2> QED  BY <1>4, <1>7, <1>8, <1>14, <2>1 DEF RunInv
<1>17. InstanceInv(i)'
  <2>1. /\ HoldersOf(i)' = HoldersOf(i) \cup {c} /\ c \notin HoldersOf(i)
        /\ IsFiniteSet(HoldersOf(i))
    BY <1>2, <1>4, <1>10, <1>13, <1>14, HoldersMove, HoldersAreFinite DEF IInv
  <2>2. Cardinality(HoldersOf(i)') = Cardinality(HoldersOf(i)) + 1
    BY <2>1, FS_AddElement
  <2>3. inst[i].count = Cardinality(HoldersOf(i)) /\ inst[i].count \in Nat
    BY <1>4, <1>9 DEF InstanceInv, HarnessInstance
  <2>4. Cardinality(HoldersOf(i))' = Cardinality(HoldersOf(i)') /\ life' = "up"
    BY <1>3, <1>4 DEF service
  <2> QED  BY <1>9, <2>2, <2>3, <2>4 DEF InstanceInv
<1>18. \A q \in removal' : q.of[1] = c[1] => RemovalInv(q)'
  BY <1>3, <1>4, <1>5 DEF RemovalInv, docker, service
<1> QED  BY <1>2, <1>3, <1>4, <1>6, <1>9, <1>10, <1>13, <1>15, <1>16, <1>17, <1>18, StepKeeps DEF docker

\* A container stops, or docker answers a removal nobody waits for.
LEMMA DockerMoves ==
  ASSUME IInv, UNCHANGED <<service, durable, memory>>,
         container' \subseteq container, removal' \subseteq removal,
         leaked' \subseteq Attempt, launching' = launching,
         \A a \in (BeingRemoved \ BeingRemoved') \cup leaked : a \in container' => a \in leaked'
  PROVE  IInv'
<1>1. TypeOK'
  BY DEF IInv, TypeOK, service, durable, memory
<1>2. BeingRemoved' \subseteq BeingRemoved /\ Executing' = Executing
  BY DEF BeingRemoved, Executing, Current, durable, memory
<1>3. ASSUME NEW a \in Attempt  PROVE AttemptInv(a)' /\ ContainerInv(a)'
  <2>1. AttemptInv(a) /\ ContainerInv(a)
    BY DEF IInv
  <2>2. AttemptInv(a)'
    BY <1>2, <2>1 DEF AttemptInv, service, durable, memory
  <2>3. ContainerInv(a)'
    BY <1>2, <2>1 DEF ContainerInv, service, durable, memory
  <2> QED  BY <2>2, <2>3
<1>4. ASSUME NEW r \in Run  PROVE RunInv(r)'
  BY DEF IInv, RunInv, Current, durable, memory
<1>5. ASSUME NEW q \in removal'  PROVE RemovalInv(q)'
  BY DEF IInv, RemovalInv, Current, service, durable, memory
<1>6. ASSUME NEW i \in Instances  PROVE InstanceInv(i)'
  <2>1. HoldersOf(i)' = HoldersOf(i)
    BY <1>2 DEF HoldersOf, memory
  <2> QED  BY <2>1 DEF IInv, InstanceInv, durable, service
<1> QED  BY <1>1, <1>3, <1>4, <1>5, <1>6 DEF IInv, LifeInv, service, memory

LEMMA DockerKeeps ==
  ASSUME IInv, \/ \E a \in Attempt : ContainerDies(a)
               \/ \E q \in removal : OrphanRmEnds(q)
  PROVE  IInv'
<1>1. ASSUME NEW a \in Attempt, ContainerDies(a)  PROVE IInv'
  <2>1. BeingRemoved' = BeingRemoved /\ UNCHANGED <<service, durable, memory>>
    BY <1>1, RemovalsMove DEF ContainerDies
  <2>2. /\ container' \subseteq container /\ removal' \subseteq removal
        /\ leaked' \subseteq Attempt /\ launching' = launching
        /\ \A b \in leaked : b \in container' => b \in leaked'
    BY <1>1 DEF ContainerDies, IInv, TypeOK
  <2> QED  BY <2>1, <2>2, DockerMoves
<1>2. ASSUME NEW q \in removal, OrphanRmEnds(q)  PROVE IInv'
  <2>1. /\ UNCHANGED <<service, durable, memory>> /\ removal' = removal \ {q}
        /\ container' \subseteq container /\ leaked' \subseteq Attempt /\ launching' = launching
        /\ q.of \in container' => q.of \in leaked'
        /\ \A a \in Attempt \ {q.of} : a \in leaked => a \in leaked'
    BY <1>2, RmAnswersEffect DEF OrphanRmEnds
  <2>2. ASSUME NEW a \in BeingRemoved \ BeingRemoved'  PROVE a = q.of
    BY <2>1, <2>2 DEF BeingRemoved
  <2> QED  BY <2>1, <2>2, DockerMoves DEF IInv, TypeOK
<1> QED  BY <1>1, <1>2

\* A docker run of a dead service makes its container, which no invocation
\* knows.
LEMMA LateContainerKeeps ==
  ASSUME IInv, NEW c \in launching, LateContainer(c)
  PROVE  IInv'
<1>1. /\ launching' = launching \ {c} /\ container' = container \cup {c}
      /\ leaked' = IF record[c] \in Unsettled THEN leaked ELSE leaked \cup {c}
      /\ UNCHANGED <<service, durable, removal, memory>>
  BY DEF LateContainer
<1>2. c \in Attempt /\ AttemptInv(c) /\ ContainerInv(c)
  BY DEF IInv, TypeOK
<1>3. record[c] \in {"PROVISIONING", "LOST"} /\ c \notin Executing
  BY <1>2 DEF ContainerInv
<1>4. TypeOK'
  BY <1>1, <1>2 DEF IInv, TypeOK, service, durable, memory
<1>5. BeingRemoved' = BeingRemoved /\ Executing' = Executing
  BY <1>1, RemovalsMove DEF Executing, Current, durable, memory
<1>6. ASSUME NEW a \in Attempt  PROVE AttemptInv(a)' /\ ContainerInv(a)'
  <2>1. AttemptInv(a) /\ ContainerInv(a)
    BY DEF IInv
  <2>2. a \in container' \cup unreturned' => record'[a] # "none"
    BY <1>1, <1>3, <2>1 DEF AttemptInv, durable, memory
  <2>3. AttemptInv(a)'
    BY <1>1, <1>5, <2>1, <2>2 DEF AttemptInv, service, durable, memory
  <2>4. ContainerInv(a)'
    BY <1>1, <1>3, <1>5, <2>1 DEF ContainerInv, service, durable, memory
  <2> QED  BY <2>3, <2>4
<1>7. ASSUME NEW r \in Run  PROVE RunInv(r)'
  <2>1. call[r] # "idle" => Current(r) # c
    BY <1>3, CurrentAttempt
  <2> QED  BY <1>1, <2>1 DEF IInv, RunInv, Preparing, Current, durable, memory
<1>8. ASSUME NEW q \in removal'  PROVE RemovalInv(q)'
  BY <1>1 DEF IInv, RemovalInv, Current, service, durable, memory
<1>9. ASSUME NEW i \in Instances  PROVE InstanceInv(i)'
  <2>1. HoldersOf(i)' = HoldersOf(i)
    BY <1>1, <1>5 DEF HoldersOf, memory
  <2> QED  BY <1>1, <2>1 DEF IInv, InstanceInv, durable, service
<1> QED  BY <1>1, <1>4, <1>6, <1>7, <1>8, <1>9 DEF IInv, LifeInv, service, memory

\* create is removing a container whose row it has not settled yet.
LEMMA DiscardingIs ==
  ASSUME IInv, NEW a \in Discarding
  PROVE  /\ a \in Attempt /\ record[a] = "PROVISIONING" /\ a \notin BeingRemoved
         /\ \E r \in Run : call[r] = "discarding" /\ a = Current(r)
<1>1. PICK r \in Run : call[r] = "discarding" /\ a = Current(r)
  BY DEF Discarding
<1> QED  BY <1>1, Prepared DEF Preparing

LEMMA LeftRemovals ==
  ASSUME removal' = {[of |-> a, by |-> "nobody"] : a \in Doomed}
  PROVE  BeingRemoved' = Doomed
<1>1. \A a : a \in BeingRemoved' <=> \E q \in removal' : q.of = a
  BY DEF BeingRemoved
<1>2. ASSUME NEW a \in Doomed  PROVE \E q \in removal' : q.of = a
  <2>1. [of |-> a, by |-> "nobody"] \in removal' /\ [of |-> a, by |-> "nobody"].of = a
    OBVIOUS
  <2> QED  BY <2>1
<1>3. \A q \in removal' : q.of \in Doomed
  OBVIOUS
<1> QED  BY <1>1, <1>2, <1>3

\* What a crash leaves is durable, and docker finishes what it was told.
LEMMA CrashKeeps ==
  ASSUME IInv, Crash
  PROVE  IInv'
<1>1. /\ life' = "down" /\ crashes' = crashes + 1 /\ crashes' \in 0..MaxCrashes /\ crashes' > 0
      /\ named' = {} /\ watched' = {} /\ unreturned' = {}
      /\ call' = [r \in Run |-> "idle"]
      /\ inner' = [r \in Run |-> NoInner]
      /\ asking' = [r \in Run |-> NoAsking]
      /\ UNCHANGED <<isolation, inst, tries, attempt, record, container>>
  BY RuntimeAssumption DEF Crash, IInv, TypeOK, durable
<1>2. /\ removal' = {[of |-> a, by |-> "nobody"] : a \in Doomed}
      /\ launching' = launching \cup {Current(r) : r \in {q \in Run : call[q] = "creating"}}
      /\ leaked' = leaked
  BY DEF Crash
<1>3. Doomed \subseteq Attempt /\ \A a \in Doomed : a \in BeingRemoved \/ record[a] = "PROVISIONING"
  BY BeingRemovedIs, DiscardingIs DEF Doomed, IInv
<1>4. /\ \A q \in removal' : q.by = "nobody"
      /\ removal' \subseteq [of : Attempt, by : Caller]
      /\ BeingRemoved' = Doomed
  <2>1. (\A q \in removal' : q.by = "nobody") /\ removal' \subseteq [of : Attempt, by : Caller]
    BY <1>2, <1>3 DEF Caller
  <2> QED  BY <1>2, <2>1, LeftRemovals
<1>5. ASSUME NEW a \in launching' \ launching  PROVE a \in Attempt /\ record[a] = "PROVISIONING"
  <2>1. PICK r \in Run : call[r] = "creating" /\ a = Current(r)
    BY <1>2, <1>5
  <2> QED  BY <2>1, Prepared DEF Preparing
<1>6. TypeOK'
  <2>1. NoInner \in InnerState /\ NoAsking \in AskingState
    BY DEF NoInner, InnerState, NoAsking, AskingState
  <2>2. launching' \subseteq Attempt
    BY <1>2, <1>5 DEF IInv, TypeOK
  <2> QED  BY <1>1, <1>2, <1>4, <2>1, <2>2 DEF IInv, TypeOK, CallPoint
<1>7. ASSUME NEW a \in Attempt  PROVE AttemptInv(a)' /\ ContainerInv(a)'
  <2>1. AttemptInv(a) /\ ContainerInv(a)
    BY DEF IInv
  <2>2. /\ a \in BeingRemoved' => a \in BeingRemoved \/ record[a] = "PROVISIONING"
        /\ a \in BeingRemoved => a \in BeingRemoved'
    BY <1>3, <1>4 DEF Doomed
  <2>3. AttemptInv(a)'
    BY <1>1, <2>1, <2>2 DEF AttemptInv
  <2>4. a \notin Executing'
    BY <1>1, AttemptsAre DEF Executing
  <2>5. ContainerInv(a)'
    BY <1>1, <1>2, <1>5, <2>1, <2>2, <2>4 DEF ContainerInv
  <2> QED  BY <2>3, <2>5
<1>8. ASSUME NEW r \in Run  PROVE RunInv(r)'
  BY <1>1 DEF RunInv, Preparing
<1>9. ASSUME NEW q \in removal'  PROVE RemovalInv(q)'
  BY <1>4 DEF RemovalInv
<1>10. ASSUME NEW i \in Instances  PROVE InstanceInv(i)'
  BY <1>1 DEF IInv, InstanceInv
<1> QED  BY <1>1, <1>6, <1>7, <1>8, <1>9, <1>10 DEF IInv, LifeInv

\* Before the service is open every instance is as new, and the rows can only
\* be settled.
LEMMA StartUpStep ==
  ASSUME IInv, TypeOK', life # "up", UNCHANGED <<crashes, isolation, tries, removal, launching, memory>>,
         container' \subseteq container, \A a \in leaked : a \in container' => a \in leaked',
         \A a \in Attempt :
           \/ attempt'[a] = attempt[a]
           \/ attempt[a] = "RUNNING" /\ attempt'[a] = "INTERRUPTED",
         \A a \in Attempt :
           \/ record'[a] = record[a]
           \/ /\ record[a] \in Unsettled /\ record'[a] = "LOST"
              /\ attempt'[a] # "RUNNING" /\ a \notin container',
         life' = "up" => \A a \in Attempt : record'[a] \notin Unsettled,
         \A i \in Instances : inst'[i] = NewInstance
  PROVE  IInv'
<1>1. /\ crashes > 0 /\ named = {} /\ watched = {} /\ unreturned = {}
      /\ call = [r \in Run |-> "idle"]
      /\ inner = [r \in Run |-> NoInner]
      /\ asking = [r \in Run |-> NoAsking]
  BY DEF IInv, LifeInv
<1>2. /\ crashes' > 0 /\ named' = {} /\ watched' = {} /\ unreturned' = {}
      /\ call' = [r \in Run |-> "idle"]
      /\ inner' = [r \in Run |-> NoInner]
      /\ asking' = [r \in Run |-> NoAsking]
  BY <1>1 DEF memory
<1>3. BeingRemoved' = BeingRemoved
  BY RemovalsMove
<1>4. Executing' = {}
  BY <1>2, AttemptsAre DEF Executing
<1>5. ASSUME NEW a \in Attempt  PROVE AttemptInv(a)' /\ ContainerInv(a)'
  <2>1. AttemptInv(a) /\ ContainerInv(a)
    BY DEF IInv
  <2>2. /\ attempt'[a] = "none" <=> attempt[a] = "none"
        /\ record'[a] = "none" <=> record[a] = "none"
    BY DEF Unsettled
  <2>3. attempt'[a] = "RUNNING" => attempt[a] = "RUNNING" /\ record'[a] = record[a]
    OBVIOUS
  <2>4. a \in BeingRemoved' => \/ record'[a] \in {"ACTIVE", "TERMINATED", "LOST"}
                               \/ record'[a] = "PROVISIONING" /\ life' # "up"
    BY <1>3, <2>1 DEF AttemptInv, Unsettled
  <2>5. attempt'[a] = "RUNNING" =>
          record'[a] \in {"ACTIVE", "TERMINATED"} /\ (life' = "up" => record'[a] = "TERMINATED")
    BY <2>1, <2>3 DEF AttemptInv, Unsettled
  <2>6. AttemptInv(a)'
    BY <1>2, <1>4, <2>1, <2>2, <2>4, <2>5 DEF AttemptInv
  <2>7. ContainerInv(a)'
    BY <1>3, <1>4, <2>1 DEF ContainerInv, Unsettled
  <2> QED  BY <2>6, <2>7
<1>6. ASSUME NEW r \in Run  PROVE RunInv(r)'
  BY <1>2 DEF RunInv, Preparing
<1>7. ASSUME NEW q \in removal'  PROVE RemovalInv(q)'
  BY <1>7 DEF IInv, RemovalInv
<1>8. ASSUME NEW i \in Instances  PROVE InstanceInv(i)'
  <2>1. HoldersOf(i)' = {}
    BY <1>2, <1>4 DEF HoldersOf
  <2>2. Cardinality(HoldersOf(i))' = 0
    BY <2>1, FS_EmptySet
  <2> QED  BY <2>2 DEF InstanceInv, NewInstance
<1> QED  BY <1>2, <1>5, <1>6, <1>7, <1>8 DEF IInv, LifeInv

LEMMA StartUpKeeps ==
  ASSUME IInv, Restart \/ Open \/ \E a \in Attempt : ReconcileSandbox(a) \/ ReconcileFails(a)
  PROVE  IInv'
<1>1. MarkFailed(NewInstance) = NewInstance /\ NewInstance \in HarnessInstance
  BY DEF MarkFailed, NewInstance, HarnessInstance, InstanceState
<1>2. inst \in [Instances -> HarnessInstance]
  BY DEF IInv, TypeOK
<1>3. CASE Restart
  <2>1. ASSUME NEW i \in Instances  PROVE ReconcileStaleSlot(inst[i]) = NewInstance
    <3>1. InstanceInv(i) /\ inst[i] \in HarnessInstance
      BY <1>2 DEF IInv
    <3>2. Stale(inst[i]) \/ (inst[i].actual = "READY" /\ inst[i].count = 0)
      BY <3>1 DEF InstanceInv, Stale
    <3> QED  BY <3>1, <3>2 DEF ReconcileStaleSlot, HarnessInstance, NewInstance
  <2>2. /\ inst' \in [Instances -> HarnessInstance]
        /\ \A i \in Instances : inst'[i] = NewInstance
    BY <1>1, <1>3, <2>1 DEF Restart
  <2>3. TypeOK'
    BY <1>3, <2>2 DEF Restart, IInv, TypeOK, docker, memory
  <2> QED  BY <1>3, <2>2, <2>3, StartUpStep DEF Restart, docker
<1>4. CASE Open
  <2>1. \A i \in Instances : inst'[i] = NewInstance
    BY <1>4 DEF Open, IInv, InstanceInv, durable
  <2>2. TypeOK'
    BY <1>4 DEF Open, IInv, TypeOK, durable, docker, memory
  <2> QED  BY <1>4, <2>1, <2>2, StartUpStep DEF Open, durable, docker
<1>5. ASSUME NEW a \in Attempt, ReconcileSandbox(a) \/ ReconcileFails(a)  PROVE IInv'
  <2>1. PICK i : i = InstanceOf[a[1]]
    OBVIOUS
  <2>2. /\ life = "starting" /\ record[a] \in Unsettled /\ FinishAttempt(a, "INTERRUPTED")
        /\ inst' = [inst EXCEPT ![i] = MarkFailed(inst[i])]
        /\ UNCHANGED <<crashes, isolation, tries, removal, launching, memory>>
        /\ container' \subseteq container /\ leaked' \subseteq leaked
        /\ \A x \in leaked : x \in container' => x \in leaked'
        /\ \/ /\ record' = [record EXCEPT ![a] = "LOST"] /\ a \notin container'
              /\ life' = "starting"
           \/ record' = record /\ life' = "down"
    BY <1>5, <2>1 DEF ReconcileSandbox, ReconcileFails, service, docker
  <2>3. i \in Instances /\ \A j \in Instances : inst[j] = NewInstance
    BY <2>1, <2>2, AttemptsAre, RuntimeAssumption DEF IInv, InstanceInv
  <2>4. inst' \in [Instances -> HarnessInstance] /\ \A j \in Instances : inst'[j] = NewInstance
    BY <1>1, <1>2, <2>2, <2>3
  <2>5. /\ attempt' \in [Attempt -> AttemptStatus]
        /\ \A x \in Attempt \ {a} : attempt'[x] = attempt[x]
        /\ attempt'[a] = IF attempt[a] = "RUNNING" THEN "INTERRUPTED" ELSE attempt[a]
    BY <2>2, FinishAttemptEffect
  <2>6. /\ record' \in [Attempt -> RecordStatus]
        /\ \A x \in Attempt \ {a} : record'[x] = record[x]
        /\ record'[a] = record[a] \/ (record'[a] = "LOST" /\ a \notin container')
    BY <2>2 DEF IInv, TypeOK, RecordStatus
  <2>7. TypeOK'
    BY <2>2, <2>4, <2>5, <2>6 DEF IInv, TypeOK, memory
  <2>8. \A x \in Attempt : \/ attempt'[x] = attempt[x]
                           \/ attempt[x] = "RUNNING" /\ attempt'[x] = "INTERRUPTED"
    BY <2>5
  <2>9. \A x \in Attempt :
          \/ record'[x] = record[x]
          \/ /\ record[x] \in Unsettled /\ record'[x] = "LOST"
             /\ attempt'[x] # "RUNNING" /\ x \notin container'
    BY <2>2, <2>5, <2>6
  <2>10. life # "up" /\ life' # "up"
    BY <2>2
  <2> QED  BY <2>2, <2>4, <2>7, <2>8, <2>9, <2>10, StartUpStep
<1> QED  BY <1>3, <1>4, <1>5

-----------------------------------------------------------------------------
(* The invariant *)

LEMMA IInvInit == Init => IInv
<1> SUFFICES ASSUME Init  PROVE IInv
  OBVIOUS
<1>1. NoInner \in InnerState /\ NoAsking \in AskingState /\ NewInstance \in HarnessInstance
  BY DEF NoInner, InnerState, NoAsking, AskingState, NewInstance, HarnessInstance, InstanceState
<1>2. TypeOK
  BY <1>1, RuntimeAssumption DEF Init, TypeOK, AttemptStatus, RecordStatus, CallPoint
<1>3. BeingRemoved = {} /\ Executing = {}
  BY AttemptsAre DEF Init, BeingRemoved, Executing
<1>4. ASSUME NEW a \in Attempt  PROVE AttemptInv(a) /\ ContainerInv(a)
  <2>1. tries[a[1]] = 0 /\ a[2] > 0
    BY AttemptsAre DEF Init
  <2> QED  BY <1>3, <2>1 DEF Init, AttemptInv, ContainerInv
<1>5. ASSUME NEW i \in Instances  PROVE InstanceInv(i)
  <2>1. HoldersOf(i) = {}
    BY <1>3 DEF HoldersOf, Init
  <2> QED  BY <2>1, FS_EmptySet DEF Init, InstanceInv, NewInstance
<1> QED  BY <1>2, <1>4, <1>5 DEF Init, IInv, RunInv, Preparing, LifeInv

LEMMA IInvNext == IInv /\ [Next]_vars => IInv'
<1> SUFFICES ASSUME IInv, [Next]_vars  PROVE IInv'
  OBVIOUS
<1>1. ASSUME NEW r \in Run, Prepare(r)  PROVE IInv'
  BY <1>1, PrepareKeeps, AcquireSandboxKeeps DEF Prepare
<1>2. ASSUME NEW r \in Run, Provision(r)  PROVE IInv'
  BY <1>2, ContainerStartedKeeps, CreateFailsKeeps, EnterRunningKeeps DEF Provision
<1>3. ASSUME NEW r \in Run, Inner(r)  PROVE IInv'
  BY <1>3, InnerEventKeeps, SweepsKeep, SandboxLostKeeps DEF Inner
<1>4. ASSUME NEW r \in Run, Supervise(r)  PROVE IInv'
  BY <1>4, InvokeEndsKeeps, TimersKeep DEF Supervise
<1>5. ASSUME NEW r \in Run, Asking(r)  PROVE IInv'
  BY <1>5, TimersKeep, SweepsKeep DEF Asking
<1>6. ASSUME NEW q \in removal, RmEnds(q)  PROVE IInv'
  BY <1>6, SideRmEndsKeeps, TimeoutEndsKeeps, FinallyEndsKeeps, DockerKeeps DEF RmEnds
<1>7. ASSUME NEW a \in Attempt, ContainerDies(a) \/ ReconcileSandbox(a) \/ ReconcileFails(a)  PROVE IInv'
  BY <1>7, DockerKeeps, StartUpKeeps
<1>8. CASE Crash \/ \E a \in launching : LateContainer(a)
  BY <1>8, CrashKeeps, LateContainerKeeps
<1>9. CASE Restart \/ Open
  BY <1>9, StartUpKeeps
<1>10. CASE UNCHANGED vars
  <2>1. UNCHANGED <<service, durable, memory, docker>>
    BY <1>10 DEF vars
  <2>2. /\ BeingRemoved' = BeingRemoved /\ container' = container /\ removal' = removal
        /\ leaked' = leaked /\ launching' = launching /\ leaked \subseteq Attempt
    BY <2>1, RemovalsMove DEF docker, IInv, TypeOK
  <2> QED  BY <2>1, <2>2, DockerMoves
<1> QED  BY <1>1, <1>2, <1>3, <1>4, <1>5, <1>6, <1>7, <1>8, <1>9, <1>10 DEF Next

-----------------------------------------------------------------------------
(* The theorems *)

\* The inductive invariant holds throughout.
THEOREM AlwaysConsistent == Spec => []IInv
BY IInvInit, IInvNext, PTL DEF Spec

\* TypeOK for every set of runs and every bound: no count goes below zero, and
\* every attempt, removal and request is one the program can be in.
THEOREM TypeCorrect == Spec => []TypeOK
<1>1. IInv => TypeOK
  BY DEF IInv
<1> QED  BY <1>1, AlwaysConsistent, PTL

\* SlotsAreReturned: whatever ends an attempt, its instance counts exactly the
\* invocations in progress and the named exception, across crashes.
THEOREM SlotsComeBack == Spec => []SlotsAreReturned
<1>1. ASSUME IInv  PROVE SlotsAreReturned
  <2> SUFFICES ASSUME life # "down", NEW i \in Instances
               PROVE  /\ inst[i].count = Cardinality({a \in Executing \cup unreturned : InstanceOf[a[1]] = i})
                      /\ inst[i].actual = "READY" => inst[i].count = 0
                      /\ inst[i].actual = "ACTIVE" => inst[i].count > 0
                      /\ inst[i].actual = "FAILED" =>
                           isolation = "none" /\ \E a \in Attempt : InstanceOf[a[1]] = i /\ record[a] = "LOST"
    BY DEF SlotsAreReturned
  <2> QED  BY <1>1 DEF IInv, InstanceInv, HoldersOf
<1> QED  BY <1>1, AlwaysConsistent, PTL

\* NoForgottenContainer, whatever becomes of the docker commands that outlive
\* the service or fail unnoticed: nothing else leaves a container behind.
THEOREM ContainersAreRemembered == Spec => []NoForgottenContainer
<1>1. ASSUME IInv  PROVE NoForgottenContainer
  <2> SUFFICES ASSUME NEW a \in container
               PROVE  a \in BeingRemoved \cup leaked \/ (a \in Attempt /\ record[a] \in Unsettled)
    BY DEF NoForgottenContainer
  <2>1. a \in Attempt /\ ContainerInv(a)
    BY <1>1 DEF IInv, TypeOK
  <2> QED  BY <2>1 DEF ContainerInv
<1> QED  BY <1>1, AlwaysConsistent, PTL

\* RunningIsExecuting: an attempt left RUNNING by a crash is found at start-up
\* unless its sandbox had been terminated already.
THEOREM RunningAttemptsExecute == Spec => []RunningIsExecuting
<1>1. ASSUME IInv  PROVE RunningIsExecuting
  <2> SUFFICES ASSUME life = "up", NEW a \in Attempt, attempt[a] = "RUNNING"
               PROVE  a \in Executing \/ (crashes > 0 /\ record[a] = "TERMINATED")
    BY DEF RunningIsExecuting
  <2>1. AttemptInv(a)
    BY <1>1 DEF IInv
  <2> QED  BY <2>1 DEF AttemptInv
<1> QED  BY <1>1, AlwaysConsistent, PTL

-----------------------------------------------------------------------------
(* The refinement of SandboxLifecycle: each step moves one sandbox or none *)

\* What the promise allows to happen to the sandbox c.
LEMMA Advances ==
  ASSUME NEW c \in Attempt, record \in [Attempt -> RecordStatus], record' \in [Attempt -> RecordStatus],
         \A a \in Attempt \ {c} : record'[a] = record[a],
         \/ record'[c] = record[c]
         \/ record[c] = "none" /\ record'[c] = "PROVISIONING"
         \/ record[c] = "PROVISIONING" /\ record'[c] \in {"ACTIVE", "FAILED", "LOST"}
         \/ record[c] = "ACTIVE" /\ record'[c] \in {"TERMINATED", "LOST"},
         container' = container \/ container' = container \ {c},
         Doomed' = Doomed \/ Doomed' = Doomed \cup {c} \/ Doomed' = Doomed \ {c},
         leaked' = leaked \/ leaked' = leaked \cup {c} \/ leaked' = leaked \ {c},
         c \in Doomed' => record'[c] # "none",
         record'[c] \in {"FAILED", "TERMINATED", "LOST"} /\ record'[c] # record[c] /\ c \in container' =>
           c \in Doomed' \cup leaked',
         c \in Doomed /\ c \notin Doomed' /\ c \in container' => c \in leaked',
         c \in leaked' /\ c \notin leaked => c \in Doomed,
         c \in leaked /\ c \notin leaked' => c \notin container'
  PROVE  [Lifecycle!Next]_(Lifecycle!vars)
<1> DEFINE to == record'[c]
           Targets == {record[c]} \cup {m[2] : m \in {n \in Lifecycle!Moves : n[1] = record[c]}}
<1>1. record' = [record EXCEPT ![c] = to]
  OBVIOUS
<1>2. to \in Targets
  <2>1. CASE record'[c] = record[c]
    BY <2>1
  <2>2. CASE record'[c] # record[c]
    <3>1. <<record[c], to>> \in Lifecycle!Moves
      BY <2>2 DEF Lifecycle!Moves
    <3>2. <<record[c], to>>[1] = record[c] /\ <<record[c], to>>[2] = to
      OBVIOUS
    <3> QED  BY <3>1, <3>2
  <2> QED  BY <2>1, <2>2
<1>3. /\ c \in (Doomed \ Doomed') /\ c \in container' => c \in leaked'
      /\ c \in (leaked' \ leaked) => c \in Doomed
      /\ c \in (leaked \ leaked') => c \notin container'
  OBVIOUS
<1>4. Lifecycle!Advance(c)
  BY <1>1, <1>2, <1>3 DEF Lifecycle!Advance, Lifecycle!Settled
<1> QED  BY <1>4 DEF Lifecycle!Next

LEMMA NothingMoves ==
  ASSUME UNCHANGED <<record, container, Doomed, leaked>>
  PROVE  [Lifecycle!Next]_(Lifecycle!vars)
BY DEF Lifecycle!vars

\* Only create itself begins and ends the removal of what it could not verify.
LEMMA DiscardingStays ==
  ASSUME IInv,
         \A r \in Run : call'[r] = "discarding" <=> call[r] = "discarding",
         \A r \in Run : call[r] = "discarding" => tries'[r] = tries[r]
  PROVE  /\ Discarding' = Discarding
         /\ removal' = removal => Doomed' = Doomed
<1>1. \A r \in Run : call[r] = "discarding" => Current(r)' = Current(r)
  BY DEF Current
<1>2. \A a : a \in Discarding <=> \E r \in Run : call[r] = "discarding" /\ a = Current(r)
  BY DEF Discarding
<1>3. \A a : a \in Discarding' <=> \E r \in Run : call'[r] = "discarding" /\ a = Current(r)'
  BY DEF Discarding
<1>4. \A a : a \in Discarding' <=> a \in Discarding
  BY <1>1, <1>2, <1>3
<1>5. Discarding' = Discarding
  BY <1>4
<1>6. removal' = removal => BeingRemoved' = BeingRemoved
  BY DEF BeingRemoved
<1> QED  BY <1>5, <1>6 DEF Doomed

\* The call of one run moves, and not into or out of that removal.
LEMMA CallMovesOn ==
  ASSUME IInv, NEW r \in Run, tries' = tries, call[r] # "discarding",
         call' = call \/ \E p \in CallPoint \ {"discarding"} : call' = [call EXCEPT ![r] = p]
  PROVE  Discarding' = Discarding /\ (removal' = removal => Doomed' = Doomed)
<1>1. \A q \in Run : call'[q] = "discarding" <=> call[q] = "discarding"
  BY DEF IInv, TypeOK
<1> QED  BY <1>1, DiscardingStays

\* terminate up to its first await, by anybody.
LEMMA TerminateRefines ==
  ASSUME IInv, life = "up", container' = container, leaked' = leaked, Discarding' = Discarding,
         NEW c, NEW w,
         \/ NeedsRm(c) /\ BeginRm(c, w) /\ record' = record
         \/ ~NeedsRm(c) /\ CloseRecord(c) /\ removal' = removal
  PROVE  [Lifecycle!Next]_(Lifecycle!vars)
<1>1. record \in [Attempt -> RecordStatus]
  BY DEF IInv, TypeOK
<1>2. CASE NeedsRm(c)
  <2>1. BeingRemoved' = BeingRemoved \cup {c} /\ record' = record
    BY <1>2, RemovalsMove DEF NeedsRm, BeginRm
  <2>2. c \in Attempt /\ record[c] = "ACTIVE"
    BY <1>2 DEF NeedsRm, IInv, TypeOK, AttemptInv
  <2>3. Doomed' = Doomed \cup {c}
    BY <2>1 DEF Doomed
  <2> QED  BY <1>1, <2>1, <2>2, <2>3, Advances
<1>3. CASE ~NeedsRm(c) /\ c \in Attempt
  <2>1. /\ record' \in [Attempt -> RecordStatus]
        /\ \A x \in Attempt \ {c} : record'[x] = record[x]
        /\ record'[c] = IF record[c] = "ACTIVE" THEN "TERMINATED" ELSE record[c]
    BY <1>3, CloseRecordEffect
  <2>2. BeingRemoved' = BeingRemoved /\ Doomed' = Doomed
    BY <1>3, RemovalsMove DEF Doomed
  <2>3. record'[c] # record[c] /\ c \in container' => c \in Doomed' \cup leaked'
    BY <1>3, <2>1, <2>2 DEF IInv, ContainerInv, NeedsRm, Doomed
  <2>4. c \in Doomed' => record'[c] # "none"
    BY <1>3, <2>1, <2>2, DiscardingIs DEF IInv, AttemptInv, Doomed
  <2> QED  BY <1>1, <1>3, <2>1, <2>2, <2>3, <2>4, Advances
<1>4. CASE ~NeedsRm(c) /\ c \notin Attempt
  <2>1. record' = record /\ BeingRemoved' = BeingRemoved
    BY <1>4, CloseRecordEffect, RemovalsMove
  <2> QED  BY <2>1, NothingMoves DEF Doomed
<1> QED  BY <1>2, <1>3, <1>4

\* docker has answered: the removal ends with nothing left to remove, or with
\* a container left behind.
LEMMA RmEndsRefines ==
  ASSUME IInv, NEW q \in removal, RmAnswers(q), CloseRecord(q.of) \/ record' = record,
         Discarding' = Discarding
  PROVE  [Lifecycle!Next]_(Lifecycle!vars)
<1>1. PICK c : c = q.of
  OBVIOUS
<1>2. /\ removal' = removal \ {q}
      /\ \/ container' = container \ {c} /\ leaked' = leaked \ {c}
         \/ container' = container /\ leaked' = leaked \cup ({c} \cap container)
  BY <1>1 DEF RmAnswers, RmReturns
<1>3. /\ c \in Attempt /\ record[c] \in {"PROVISIONING", "ACTIVE", "TERMINATED", "LOST"}
      /\ c \in BeingRemoved /\ c \in Doomed /\ c \notin Discarding
  BY <1>1, RmAnswersEffect, BeingRemovedIs, DiscardingIs DEF IInv, Doomed
<1>4. \A a : a \in BeingRemoved <=> \E p \in removal : p.of = a
  BY DEF BeingRemoved
<1>5. \A a : a \in BeingRemoved' <=> \E p \in removal' : p.of = a
  BY DEF BeingRemoved
<1>6. Doomed' = Doomed \/ Doomed' = Doomed \ {c}
  <2>1. BeingRemoved' = BeingRemoved \/ BeingRemoved' = BeingRemoved \ {c}
    <3>1. \A a : a # c => (a \in BeingRemoved' <=> a \in BeingRemoved)
      BY <1>1, <1>2, <1>4, <1>5
    <3>2. CASE c \in BeingRemoved'
      BY <1>3, <3>1, <3>2
    <3>3. CASE c \notin BeingRemoved'
      BY <1>3, <3>1, <3>3
    <3> QED  BY <3>2, <3>3
  <2> QED  BY <1>3, <2>1 DEF Doomed
<1>7. /\ record \in [Attempt -> RecordStatus] /\ record' \in [Attempt -> RecordStatus]
      /\ \A a \in Attempt \ {c} : record'[a] = record[a]
      /\ record'[c] = record[c] \/ (record[c] = "ACTIVE" /\ record'[c] = "TERMINATED")
  <2>1. CASE record' = record
    BY <2>1 DEF IInv, TypeOK
  <2>2. CASE CloseRecord(c)
    BY <1>3, <2>2, CloseRecordEffect DEF IInv, TypeOK
  <2> QED  BY <1>1, <2>1, <2>2
<1>8. (c \in container' => c \in leaked') /\ record'[c] # "none"
  BY <1>2, <1>3, <1>7
<1>9. /\ container' = container \/ container' = container \ {c}
      /\ leaked' = leaked \/ leaked' = leaked \cup {c} \/ leaked' = leaked \ {c}
      /\ c \in leaked /\ c \notin leaked' => c \notin container'
  BY <1>2
<1> QED  BY <1>3, <1>6, <1>7, <1>8, <1>9, Advances

\* The sandbox of an invocation that is being prepared.
LEMMA ProvisionRefines ==
  ASSUME IInv, NEW r \in Run, Provision(r)
  PROVE  [Lifecycle!Next]_(Lifecycle!vars)
<1>1. PICK c : c = Current(r)
  OBVIOUS
<1>2. call[r] \in Preparing
  BY DEF Provision, ContainerStarted, DockerRunFails, WarmLeaseFails, VerifyFails, Discard,
         StillOccupied, StartInner, EnterRunning, Preparing
<1>3. /\ c \in Attempt /\ record[c] = "PROVISIONING" /\ c \notin BeingRemoved
      /\ call[r] = "creating" => c \notin container
  BY <1>1, <1>2, Prepared
<1>4. record \in [Attempt -> RecordStatus] /\ call \in [Run -> CallPoint]
  BY DEF IInv, TypeOK
<1>5. tries' = tries
  BY DEF Provision, ContainerStarted, DockerRunFails, WarmLeaseFails, VerifyFails, Discard,
         StillOccupied, StartInner, CreateFails, durable
<1>6. \A q \in Run : Current(q)' = Current(q) /\ (q # r => Current(q) # c)
  BY <1>1, <1>5, CurrentIs DEF Current
<1>7. CASE ContainerStarted(r)
  <2>1. /\ record' = record /\ container' = container \cup {c} /\ removal' = removal /\ leaked' = leaked
        /\ call[r] = "creating" /\ call' = [call EXCEPT ![r] = "verifying"]
    BY <1>1, <1>7 DEF ContainerStarted, durable
  <2>2. Doomed' = Doomed
    BY <1>5, <2>1, CallMovesOn DEF CallPoint
  <2>3. Lifecycle!Launch(c)
    BY <1>3, <2>1, <2>2 DEF Lifecycle!Launch
  <2> QED  BY <1>3, <2>3 DEF Lifecycle!Next
<1>8. CASE WarmLeaseFails(r)
  <2>1. /\ record' = record /\ container' = container /\ removal' = removal /\ leaked' = leaked
        /\ call[r] = "creating" /\ call' = [call EXCEPT ![r] = "idle"]
    BY <1>8 DEF WarmLeaseFails, CreateFails, docker
  <2>2. Doomed' = Doomed
    BY <1>5, <2>1, CallMovesOn DEF CallPoint
  <2> QED  BY <2>1, <2>2, NothingMoves
<1>9. CASE VerifyFails(r)
  <2>1. /\ record' = record /\ container' = container /\ removal' = removal /\ leaked' = leaked
        /\ call' = [call EXCEPT ![r] = "discarding"]
    BY <1>9 DEF VerifyFails, durable, docker
  <2>2. \A q \in Run : call'[q] = "discarding" <=> call[q] = "discarding" \/ q = r
    BY <1>4, <2>1
  <2>3. \A a : a \in Discarding' <=> a \in Discarding \/ a = c
    BY <1>1, <1>6, <2>2 DEF Discarding
  <2>4. BeingRemoved' = BeingRemoved
    BY <2>1, RemovalsMove
  <2>5. Doomed' = Doomed \cup {c}
    BY <2>3, <2>4 DEF Doomed
  <2> QED  BY <1>3, <1>4, <2>1, <2>5, Advances
<1>10. CASE DockerRunFails(r)
  <2>1. /\ record' = [record EXCEPT ![c] = "FAILED"] /\ removal' = removal
        /\ container' = container /\ leaked' = leaked /\ c \notin container
        /\ call[r] = "creating" /\ call' = [call EXCEPT ![r] = "idle"]
    BY <1>1, <1>3, <1>10 DEF DockerRunFails, CreateFails, docker
  <2>2. Doomed' = Doomed
    BY <1>5, <2>1, CallMovesOn DEF CallPoint
  <2>3. /\ record' \in [Attempt -> RecordStatus] /\ record'[c] = "FAILED"
        /\ \A a \in Attempt \ {c} : record'[a] = record[a]
    BY <1>3, <1>4, <2>1 DEF RecordStatus
  <2> QED  BY <1>3, <1>4, <2>1, <2>2, <2>3, Advances
<1>11. CASE Discard(r)
  <2>1. /\ record' = [record EXCEPT ![c] = "FAILED"] /\ removal' = removal
        /\ \/ container' = container \ {c} /\ leaked' = leaked \ {c}
           \/ container' = container /\ leaked' = leaked \cup ({c} \cap container)
        /\ call[r] = "discarding" /\ call' = [call EXCEPT ![r] = "idle"]
    BY <1>1, <1>11 DEF Discard, CreateFails, RmReturns
  <2>2. \A q \in Run : call'[q] = "discarding" <=> call[q] = "discarding" /\ q # r
    BY <1>4, <2>1
  <2>3. \A a : a \in Discarding' <=> a \in Discarding /\ a # c
    BY <1>1, <1>6, <2>2 DEF Discarding
  <2>4. BeingRemoved' = BeingRemoved
    BY <2>1, RemovalsMove
  <2>5. Doomed' = Doomed \ {c} /\ c \in Doomed
    BY <1>1, <1>3, <2>1, <2>3, <2>4 DEF Doomed, Discarding
  <2>6. /\ record' \in [Attempt -> RecordStatus] /\ record'[c] = "FAILED"
        /\ \A a \in Attempt \ {c} : record'[a] = record[a]
    BY <1>3, <1>4, <2>1 DEF RecordStatus
  <2>7. /\ container' = container \/ container' = container \ {c}
        /\ leaked' = leaked \/ leaked' = leaked \cup {c} \/ leaked' = leaked \ {c}
        /\ c \in container' => c \in leaked'
        /\ c \in leaked /\ c \notin leaked' => c \notin container'
    BY <2>1
  <2> QED  BY <1>3, <1>4, <2>5, <2>6, <2>7, Advances
<1>12. CASE StillOccupied(r) \/ StartInner(r)
  <2>1. /\ record' = [record EXCEPT ![c] = "ACTIVE"] /\ container' = container /\ leaked' = leaked
        /\ removal' = removal \/ removal' = removal \cup {[of |-> c, by |-> "finally"]}
        /\ call[r] = "verifying"
        /\ \E p \in {"closing", "invoking"} : call' = [call EXCEPT ![r] = p]
    BY <1>1, <1>12 DEF StillOccupied, StartInner, EnterRunning, docker
  <2>2. BeingRemoved' = BeingRemoved \/ BeingRemoved' = BeingRemoved \cup {c}
    BY <2>1, RemovalsMove
  <2>3. Discarding' = Discarding
    BY <1>5, <2>1, CallMovesOn DEF CallPoint
  <2>4. Doomed' = Doomed \/ Doomed' = Doomed \cup {c}
    BY <2>2, <2>3 DEF Doomed
  <2>5. /\ record' \in [Attempt -> RecordStatus] /\ record'[c] = "ACTIVE"
        /\ \A a \in Attempt \ {c} : record'[a] = record[a]
    BY <1>3, <1>4, <2>1 DEF RecordStatus
  <2> QED  BY <1>3, <1>4, <2>1, <2>4, <2>5, Advances
<1> QED  BY <1>7, <1>8, <1>9, <1>10, <1>11, <1>12 DEF Provision

LEMMA PrepareRefines ==
  ASSUME IInv, NEW r \in Run, Prepare(r)
  PROVE  [Lifecycle!Next]_(Lifecycle!vars)
<1>1. /\ call[r] = "idle" /\ removal' = removal /\ container' = container /\ leaked' = leaked
      /\ call' = call \/ call' = [call EXCEPT ![r] = "creating"]
      /\ tries' = [tries EXCEPT ![r] = tries[r] + 1]
  BY DEF Prepare, RejectAttempt, NoSlot, SandboxRefused, AcquireSandbox, NextTry, docker, memory
<1>2. Doomed' = Doomed
  <2>1. /\ \A q \in Run : call'[q] = "discarding" <=> call[q] = "discarding"
        /\ \A q \in Run : call[q] = "discarding" => tries'[q] = tries[q]
    BY <1>1 DEF IInv, TypeOK
  <2> QED  BY <1>1, <2>1, DiscardingStays
<1>3. CASE RejectAttempt(r) \/ NoSlot(r) \/ SandboxRefused(r)
  <2>1. record' = record
    BY <1>3 DEF RejectAttempt, NoSlot, SandboxRefused
  <2> QED  BY <1>1, <1>2, <2>1, NothingMoves
<1>4. CASE AcquireSandbox(r)
  <2>1. PICK c : c = <<r, tries[r] + 1>>
    OBVIOUS
  <2>2. c \in Attempt /\ record[c] = "none" /\ c \notin BeingRemoved
    BY <1>4, <2>1, NewAttempt DEF AcquireSandbox
  <2>3. record' = [record EXCEPT ![c] = "PROVISIONING"]
    BY <1>4, <2>1 DEF AcquireSandbox
  <2>4. /\ record \in [Attempt -> RecordStatus] /\ record' \in [Attempt -> RecordStatus]
        /\ record'[c] = "PROVISIONING"
        /\ \A a \in Attempt \ {c} : record'[a] = record[a]
    BY <2>2, <2>3 DEF IInv, TypeOK, RecordStatus
  <2> QED  BY <1>1, <1>2, <2>2, <2>4, Advances
<1> QED  BY <1>3, <1>4 DEF Prepare

LEMMA InnerRefines ==
  ASSUME IInv, NEW r \in Run, Inner(r)
  PROVE  [Lifecycle!Next]_(Lifecycle!vars)
<1>1. call' = call /\ tries' = tries
  BY DEF Inner, WorkerReady, SessionReady, WorkerReports, SessionReports, InnerExits, InnerDies,
         SandboxLost, durable
<1>2. Discarding' = Discarding /\ (removal' = removal => Doomed' = Doomed)
  BY <1>1, DiscardingStays
<1>3. CASE WorkerReady(r) \/ SessionReady(r) \/ WorkerReports(r) \/ SessionReports(r) \/ InnerExits(r)
  <2>1. record' = record /\ container' = container /\ removal' = removal /\ leaked' = leaked
    BY <1>3 DEF WorkerReady, SessionReady, WorkerReports, SessionReports, InnerExits, durable, docker
  <2> QED  BY <1>2, <2>1, NothingMoves
<1>4. CASE InnerDies(r)
  <2>1. life = "up" /\ container' = container /\ leaked' = leaked
    BY <1>4, ServiceIsUp DEF InnerDies
  <2>2. PICK c : c = <<r, inner[r].of>>
    OBVIOUS
  <2>3. \/ NeedsRm(c) /\ BeginRm(c, "cleaner") /\ record' = record
        \/ ~NeedsRm(c) /\ CloseRecord(c) /\ removal' = removal
    BY <1>4, <2>2 DEF InnerDies
  <2> QED  BY <1>2, <2>1, <2>3, TerminateRefines
<1>5. CASE SandboxLost(r)
  <2>1. PICK c : c = <<r, inner[r].of>>
    OBVIOUS
  <2>2. /\ c \in named /\ c \notin container /\ record[c] = "ACTIVE"
        /\ record' = [record EXCEPT ![c] = "LOST"]
        /\ container' = container /\ removal' = removal /\ leaked' = leaked
    BY <1>5, <2>1 DEF SandboxLost, docker
  <2>3. /\ c \in Attempt /\ record'[c] = "LOST"
        /\ record \in [Attempt -> RecordStatus] /\ record' \in [Attempt -> RecordStatus]
        /\ \A a \in Attempt \ {c} : record'[a] = record[a]
    BY <2>2 DEF IInv, TypeOK, RecordStatus
  <2> QED  BY <1>2, <2>2, <2>3, Advances
<1> QED  BY <1>3, <1>4, <1>5 DEF Inner

LEMMA SuperviseRefines ==
  ASSUME IInv, NEW r \in Run, Supervise(r) \/ Asking(r)
  PROVE  [Lifecycle!Next]_(Lifecycle!vars)
<1>1. /\ tries' = tries
      /\ call' = call \/ ( /\ call[r] \in {"invoking", "stopping", "killing"}
                           /\ \E p \in CallPoint \ {"discarding"} : call' = [call EXCEPT ![r] = p] )
  BY DEF Supervise, Asking, InvokeSettles, InvokeTimesOut, TimeoutKills, TimeoutSweeps, Finally, Returned,
         Interrupt, InterruptReturns, InterruptKills, InterruptSweeps, durable, CallPoint
<1>2. Discarding' = Discarding /\ (removal' = removal => Doomed' = Doomed)
  <2>1. CASE call' = call
    BY <1>1, <2>1, DiscardingStays
  <2>2. CASE call' # call
    BY <1>1, <2>2, CallMovesOn
  <2> QED  BY <2>1, <2>2
<1>3. CASE InvokeTimesOut(r) \/ TimeoutKills(r) \/ Interrupt(r) \/ InterruptReturns(r) \/ InterruptKills(r)
  <2>1. record' = record /\ container' = container /\ removal' = removal /\ leaked' = leaked
    BY <1>3 DEF InvokeTimesOut, TimeoutKills, Interrupt, InterruptReturns, InterruptKills, durable, docker
  <2> QED  BY <1>2, <2>1, NothingMoves
<1>4. CASE InvokeSettles(r) \/ TimeoutSweeps(r)
  <2>1. PICK c : c = Current(r)
    OBVIOUS
  <2>2. /\ life = "up" /\ container' = container /\ leaked' = leaked
        /\ \E w : \/ NeedsRm(c) /\ BeginRm(c, w) /\ record' = record
                  \/ ~NeedsRm(c) /\ CloseRecord(c) /\ removal' = removal
    BY <1>4, <2>1, ServiceIsUp DEF InvokeSettles, TimeoutSweeps, Finally
  <2> QED  BY <1>2, <2>2, TerminateRefines
<1>5. CASE InterruptSweeps(r)
  <2>1. PICK c : c = <<r, asking[r].of>>
    OBVIOUS
  <2>2. life = "up" /\ container' = container /\ leaked' = leaked
    BY <1>5, ServiceIsUp DEF InterruptSweeps
  <2>3. \/ NeedsRm(c) /\ BeginRm(c, "interrupt") /\ record' = record
        \/ ~NeedsRm(c) /\ CloseRecord(c) /\ removal' = removal
    BY <1>5, <2>1 DEF InterruptSweeps
  <2> QED  BY <1>2, <2>2, <2>3, TerminateRefines
<1> QED  BY <1>3, <1>4, <1>5 DEF Supervise, Asking

\* A container dies by itself, or the reconciliation of the next start finds
\* its row.
LEMMA SandboxRefines ==
  ASSUME IInv, NEW a \in Attempt, ContainerDies(a) \/ ReconcileSandbox(a) \/ ReconcileFails(a)
  PROVE  [Lifecycle!Next]_(Lifecycle!vars)
<1>1. record \in [Attempt -> RecordStatus] /\ AttemptInv(a)
  BY DEF IInv, TypeOK
<1>2. Doomed' = Doomed
  <2>1. call' = call /\ tries' = tries /\ removal' = removal
    BY DEF ContainerDies, ReconcileSandbox, ReconcileFails, docker, durable, memory
  <2> QED  BY <2>1, DiscardingStays
<1>3. CASE ContainerDies(a)
  <2>1. record' = record /\ container' = container \ {a} /\ leaked' = leaked \ {a}
    BY <1>3 DEF ContainerDies, durable
  <2>2. a \in Doomed' => record'[a] # "none"
    BY <1>1, <1>2, <2>1, DiscardingIs DEF AttemptInv, Doomed
  <2> QED  BY <1>1, <1>2, <2>1, <2>2, Advances
<1>4. CASE ReconcileSandbox(a)
  <2>1. /\ record[a] \in Unsettled /\ record' = [record EXCEPT ![a] = "LOST"]
        /\ container' = container \ {a} /\ leaked' = leaked \ {a}
    BY <1>4 DEF ReconcileSandbox
  <2>2. /\ record' \in [Attempt -> RecordStatus] /\ record'[a] = "LOST"
        /\ \A b \in Attempt \ {a} : record'[b] = record[b]
    BY <1>1, <2>1 DEF RecordStatus
  <2> QED  BY <1>1, <1>2, <2>1, <2>2, Advances DEF Unsettled
<1>5. CASE ReconcileFails(a)
  BY <1>2, <1>5, NothingMoves DEF ReconcileFails, docker
<1> QED  BY <1>3, <1>4, <1>5

\* A crash leaves the removals in flight as they are.
LEMMA CrashRefines ==
  ASSUME IInv, Crash
  PROVE  [Lifecycle!Next]_(Lifecycle!vars)
<1>1. /\ removal' = {[of |-> a, by |-> "nobody"] : a \in Doomed}
      /\ record' = record /\ container' = container /\ leaked' = leaked
      /\ call' = [r \in Run |-> "idle"]
  BY DEF Crash, durable
<1>2. BeingRemoved' = Doomed
  BY <1>1, LeftRemovals
<1>3. Discarding' = {}
  BY <1>1 DEF Discarding
<1>4. Doomed' = BeingRemoved' \cup Discarding'
  BY DEF Doomed
<1> QED  BY <1>1, <1>2, <1>3, <1>4, NothingMoves

\* What a dead service launched arrives before or after its row is settled.
LEMMA LateContainerRefines ==
  ASSUME IInv, NEW c \in launching, LateContainer(c)
  PROVE  [Lifecycle!Next]_(Lifecycle!vars)
<1>1. c \in Attempt /\ record[c] \in {"PROVISIONING", "LOST"}
  BY DEF IInv, TypeOK, ContainerInv
<1>2. /\ record' = record /\ container' = container \cup {c}
      /\ leaked' = IF record[c] \in Unsettled THEN leaked ELSE leaked \cup {c}
      /\ call' = call /\ tries' = tries /\ removal' = removal
  BY DEF LateContainer, durable, memory
<1>3. Doomed' = Doomed
  BY <1>2, DiscardingStays
<1>4. Lifecycle!Launch(c) \/ Lifecycle!LateLaunch(c)
  BY <1>1, <1>2, <1>3 DEF Lifecycle!Launch, Lifecycle!LateLaunch, Unsettled
<1> QED  BY <1>1, <1>4 DEF Lifecycle!Next

LEMMA NextRefines ==
  ASSUME IInv, [Next]_vars
  PROVE  [Lifecycle!Next]_(Lifecycle!vars)
<1>1. ASSUME NEW r \in Run, Prepare(r) \/ Provision(r) \/ Inner(r) \/ Supervise(r) \/ Asking(r)
      PROVE  [Lifecycle!Next]_(Lifecycle!vars)
  BY <1>1, PrepareRefines, ProvisionRefines, InnerRefines, SuperviseRefines
<1>2. ASSUME NEW q \in removal, RmEnds(q)  PROVE [Lifecycle!Next]_(Lifecycle!vars)
  <2>1. RmAnswers(q) /\ (CloseRecord(q.of) \/ record' = record) /\ tries' = tries
    BY <1>2 DEF RmEnds, CleanerEnds, TimeoutEnds, InterruptEnds, FinallyEnds, OrphanRmEnds, durable
  <2>2. Discarding' = Discarding
    <3>1. CASE TimeoutEnds(q) \/ FinallyEnds(q)
      <4>1. PICK r : r = q.of[1]
        OBVIOUS
      <4>2. call' = [call EXCEPT ![r] = "idle"]
        BY <3>1, <4>1 DEF TimeoutEnds, FinallyEnds, Returned
      <4>3. r \in Run /\ call[r] # "discarding"
        BY <3>1, <4>1, BeingRemovedIs, AttemptsAre DEF TimeoutEnds, FinallyEnds, IInv, RemovalInv
      <4> QED  BY <2>1, <4>2, <4>3, CallMovesOn DEF CallPoint
    <3>2. CASE CleanerEnds(q) \/ InterruptEnds(q) \/ OrphanRmEnds(q)
      <4>1. call' = call
        BY <3>2 DEF CleanerEnds, InterruptEnds, OrphanRmEnds, memory
      <4> QED  BY <2>1, <4>1, DiscardingStays
    <3> QED  BY <1>2, <3>1, <3>2 DEF RmEnds
  <2> QED  BY <2>1, <2>2, RmEndsRefines
<1>3. ASSUME NEW a \in Attempt, ContainerDies(a) \/ ReconcileSandbox(a) \/ ReconcileFails(a)
      PROVE  [Lifecycle!Next]_(Lifecycle!vars)
  BY <1>3, SandboxRefines
<1>4. CASE Crash \/ \E a \in launching : LateContainer(a)
  BY <1>4, CrashRefines, LateContainerRefines
<1>5. CASE Restart \/ Open \/ UNCHANGED vars
  <2>1. /\ record' = record /\ container' = container /\ removal' = removal /\ leaked' = leaked
        /\ call' = call /\ tries' = tries
    BY <1>5 DEF Restart, Open, vars, durable, docker, memory
  <2> QED  BY <2>1, DiscardingStays, NothingMoves
<1> QED  BY <1>1, <1>2, <1>3, <1>4, <1>5 DEF Next

LEMMA InitRefines == Init => Lifecycle!Init
BY DEF Init, Lifecycle!Init, Doomed, BeingRemoved, Discarding

\* KeepsSandboxLifecycle for every number of runs, attempts and crashes: each
\* step of the service, of docker and of the start-up is one the sandbox layer
\* promises, those of the docker commands that outlive the service included.
THEOREM ImplementsSandboxLifecycle == Spec => KeepsSandboxLifecycle
<1>1. []IInv /\ [][Next]_vars => [][Lifecycle!Next]_(Lifecycle!vars)
  BY NextRefines, PTL
<1> QED  BY <1>1, InitRefines, AlwaysConsistent, PTL DEF Spec, KeepsSandboxLifecycle, Lifecycle!Spec

=============================================================================
