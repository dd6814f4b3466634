------------------------ MODULE ToolGovernanceTheorems ------------------------
(***************************************************************************)
(* The promises of ToolGovernance for every set of calls, every assignment *)
(* of effects and any number of workers.  A permission to perform a call   *)
(* is in one place only: in the pipe to the worker, with a worker that     *)
(* lost its master, or spent.  That is the inductive invariant.            *)
(***************************************************************************)
EXTENDS ToolGovernance, TLAPS, SequenceTheorems

\* Where a pipe holds a permission for c.
Permits(q, c) == {i \in DOMAIN q : q[i].type = "ALLOWED" /\ q[i].call = c}

\* Whatever may still be performed, or was, is recorded.
Recorded ==
  \A c \in Call : performed[c] > 0 \/ c \in stray \/ Permits(toWorker, c) # {} => ledger[c] # "NONE"

\* A call that may not be replayed has one permission, and one use of it.
OnePermission ==
  \A c \in Unsafe :
    /\ \A i, j \in Permits(toWorker, c) : i = j
    /\ Permits(toWorker, c) # {} => c \notin stray
    /\ Permits(toWorker, c) # {} \/ c \in stray => performed[c] = 0
    /\ performed[c] =< 1

\* A call that has a result, or is about to, was performed.
ResultsAreReal ==
  /\ \A c \in Call :
       tool[c] \in {"running", "reporting_ok", "reporting_failed"} \/ ledger[c] = "SUCCEEDED"
         => performed[c] > 0
  /\ \A i \in DOMAIN toMaster : toMaster[i].type = "COMPLETE" => performed[toMaster[i].call] > 0
  /\ ckpt # NoCall => ledger[ckpt] = "SUCCEEDED"

IInv == TypeOK /\ Recorded /\ OnePermission /\ ResultsAreReal

ToMaster == Request \cup Result \cup End
ToWorker == Decision \cup Receipt

-----------------------------------------------------------------------------
(* The pipes *)

\* Reading a message shifts the permissions that are left.
LEMMA TailPermits ==
  ASSUME NEW q \in Seq(ToWorker), q # <<>>, NEW c
  PROVE  /\ Tail(q) \in Seq(ToWorker)
         /\ Permits(Tail(q), c) = {i \in 1 .. Len(q) - 1 : i + 1 \in Permits(q, c)}
<1>1. /\ Tail(q) \in Seq(ToWorker) /\ Len(Tail(q)) = Len(q) - 1 /\ Len(q) \in Nat
      /\ \A i \in 1 .. Len(Tail(q)) : Tail(q)[i] = q[i + 1]
  BY HeadTailProperties, LenProperties
<1>2. DOMAIN Tail(q) = 1 .. Len(q) - 1 /\ DOMAIN q = 1 .. Len(q)
  BY <1>1, LenProperties
<1>3. \A i \in 1 .. Len(q) - 1 : i + 1 \in 1 .. Len(q) /\ Tail(q)[i] = q[i + 1]
  BY <1>1
<1> QED  BY <1>1, <1>2, <1>3 DEF Permits

\* Writing one adds at most its own.
LEMMA AppendPermits ==
  ASSUME NEW q \in Seq(ToWorker), NEW m \in ToWorker, NEW c
  PROVE  /\ Append(q, m) \in Seq(ToWorker)
         /\ Permits(Append(q, m), c) =
              Permits(q, c) \cup (IF m.type = "ALLOWED" /\ m.call = c THEN {Len(q) + 1} ELSE {})
<1>1. /\ Append(q, m) \in Seq(ToWorker) /\ Len(Append(q, m)) = Len(q) + 1 /\ Len(q) \in Nat
      /\ \A i \in 1 .. Len(q) : Append(q, m)[i] = q[i]
      /\ Append(q, m)[Len(q) + 1] = m
  BY AppendProperties, LenProperties
<1>2. DOMAIN Append(q, m) = 1 .. Len(q) + 1 /\ DOMAIN q = 1 .. Len(q)
  BY <1>1, LenProperties
<1>3. 1 .. Len(q) + 1 = 1 .. Len(q) \cup {Len(q) + 1}
  BY <1>1
<1> QED  BY <1>1, <1>2, <1>3 DEF Permits

LEMMA EmptyPermits ==
  ASSUME NEW c
  PROVE  <<>> \in Seq(ToWorker) /\ <<>> \in Seq(ToMaster) /\ Permits(<<>>, c) = {}
BY DEF Permits

\* The same for the pipe to the master, whose messages satisfy P: the
\* results in it are results of calls that were performed.
RealResults(q, p) == \A i \in DOMAIN q : q[i].type = "COMPLETE" => p[q[i].call] > 0

LEMMA TailResults ==
  ASSUME NEW q \in Seq(ToMaster), q # <<>>, NEW p, RealResults(q, p)
  PROVE  /\ Tail(q) \in Seq(ToMaster) /\ RealResults(Tail(q), p)
         /\ Head(q) \in ToMaster
         /\ Head(q).type = "COMPLETE" => p[Head(q).call] > 0
<1>1. /\ Tail(q) \in Seq(ToMaster) /\ Len(Tail(q)) = Len(q) - 1 /\ Len(q) \in Nat
      /\ \A i \in 1 .. Len(Tail(q)) : Tail(q)[i] = q[i + 1]
      /\ Head(q) \in ToMaster /\ Head(q) = q[1]
  BY HeadTailProperties, LenProperties, EmptySeq
<1>2. /\ DOMAIN Tail(q) = 1 .. Len(q) - 1 /\ DOMAIN q = 1 .. Len(q)
      /\ Len(q) > 0
  BY <1>1, LenProperties, EmptySeq
<1>3. \A i \in 1 .. Len(q) - 1 : i + 1 \in 1 .. Len(q) /\ Tail(q)[i] = q[i + 1]
  BY <1>1
<1>4. 1 \in DOMAIN q
  BY <1>1, <1>2
<1> QED  BY <1>1, <1>2, <1>3, <1>4 DEF RealResults

LEMMA AppendResults ==
  ASSUME NEW q \in Seq(ToMaster), NEW m \in ToMaster, NEW p, RealResults(q, p),
         m.type = "COMPLETE" => p[m.call] > 0
  PROVE  Append(q, m) \in Seq(ToMaster) /\ RealResults(Append(q, m), p)
<1>1. /\ Append(q, m) \in Seq(ToMaster) /\ Len(Append(q, m)) = Len(q) + 1 /\ Len(q) \in Nat
      /\ \A i \in 1 .. Len(q) : Append(q, m)[i] = q[i]
      /\ Append(q, m)[Len(q) + 1] = m
  BY AppendProperties, LenProperties
<1>2. DOMAIN Append(q, m) = 1 .. Len(q) + 1 /\ DOMAIN q = 1 .. Len(q)
  BY <1>1, LenProperties
<1>3. 1 .. Len(q) + 1 = 1 .. Len(q) \cup {Len(q) + 1}
  BY <1>1
<1> QED  BY <1>1, <1>2, <1>3 DEF RealResults

-----------------------------------------------------------------------------
(* One lemma for each group of actions that touch the same part of IInv *)

LEMMA IInvInit == Init => IInv
<1> SUFFICES ASSUME Init
             PROVE  IInv
  OBVIOUS
<1>1. 0 \in 0 .. MaxWorkers
  BY WorkerAssumption
<1>2. toWorker = <<>> /\ toMaster = <<>>
  BY DEF Init
<1>3. toWorker \in Seq(ToWorker) /\ toMaster \in Seq(ToMaster)
  BY <1>2, EmptyPermits
<1>4. TypeOK
  BY <1>1, <1>3 DEF Init, TypeOK, NoTools, Tool, Worker, Executing, Terminal, ToMaster, ToWorker
<1>5. \A c : Permits(toWorker, c) = {}
  BY <1>2, EmptyPermits
<1>6. Recorded /\ OnePermission
  BY <1>5 DEF Init, Recorded, OnePermission, Unsafe
<1>7. ResultsAreReal
  BY <1>2 DEF Init, ResultsAreReal, NoTools
<1> QED  BY <1>4, <1>6, <1>7 DEF IInv

\* Permissions are undisturbed as long as the pipe, the records and the world are.
LEMMA PermissionsKept ==
  ASSUME Recorded, OnePermission, UNCHANGED <<ledger, performed, stray, toWorker>>
  PROVE  Recorded' /\ OnePermission'
BY DEF Recorded, OnePermission, Permits

\* A pipe from which permissions only disappear.
LEMMA PermissionsDropped ==
  ASSUME Recorded, OnePermission, UNCHANGED <<ledger, performed, stray>>,
         \A c \in Call : Permits(toWorker', c) = {}
  PROVE  Recorded' /\ OnePermission'
BY DEF Recorded, OnePermission, Unsafe

\* Ask, ToolEnds and WorkerEnds write to the master; what they report was
\* performed.
LEMMA SendingStep ==
  ASSUME IInv, NEW m \in ToMaster, WorkerSends(m),
         m.type = "COMPLETE" => performed[m.call] > 0,
         UNCHANGED <<store, master, prepares, ended, toWorker, world>>,
         worker' \in Worker, tool' \in [Call -> Tool],
         \A c \in Call : tool'[c] \in {"running", "reporting_ok", "reporting_failed"}
            => tool[c] \in {"running", "reporting_ok", "reporting_failed"}
  PROVE  IInv'
<1>1. toMaster \in Seq(ToMaster) /\ RealResults(toMaster, performed)
  BY DEF IInv, TypeOK, ToMaster, ResultsAreReal, RealResults
<1>2. toMaster' \in Seq(ToMaster) /\ RealResults(toMaster', performed)
  BY <1>1, AppendResults DEF WorkerSends
<1>3. TypeOK'
  BY <1>2 DEF IInv, TypeOK, ToMaster, store, world
<1>4. Recorded' /\ OnePermission'
  BY PermissionsKept DEF IInv, store, world
<1>5. ResultsAreReal'
  BY <1>2 DEF IInv, ResultsAreReal, RealResults, store, world
<1> QED  BY <1>3, <1>4, <1>5 DEF IInv

LEMMA AskStep ==
  ASSUME IInv, NEW c \in Call, Ask(c)
  PROVE  IInv'
<1> DEFINE m == [type |-> "PREPARE", call |-> c]
<1>1. m \in ToMaster /\ m.type # "COMPLETE" /\ WorkerSends(m)
  BY DEF Ask, ToMaster, Request
<1>2. /\ worker' \in Worker /\ tool' \in [Call -> Tool]
      /\ \A d \in Call : tool'[d] \in {"running", "reporting_ok", "reporting_failed"}
           => tool[d] \in {"running", "reporting_ok", "reporting_failed"}
  BY DEF Ask, IInv, TypeOK, Tool
<1>3. UNCHANGED <<store, master, prepares, ended, toWorker, world>>
  BY DEF Ask
<1> HIDE DEF m
<1> QED  BY <1>1, <1>2, <1>3, SendingStep

LEMMA ToolEndsStep ==
  ASSUME IInv, NEW c \in Call, NEW ok \in BOOLEAN, ToolEnds(c, ok)
  PROVE  IInv'
<1> DEFINE m == [type |-> "COMPLETE", call |-> c, ok |-> ok]
<1>1. m \in ToMaster /\ WorkerSends(m)
  BY DEF ToolEnds, ToMaster, Result
<1>2. performed[m.call] > 0
  BY DEF ToolEnds, IInv, ResultsAreReal
<1>3. /\ worker' \in Worker /\ tool' \in [Call -> Tool]
      /\ \A d \in Call : tool'[d] \in {"running", "reporting_ok", "reporting_failed"}
           => tool[d] \in {"running", "reporting_ok", "reporting_failed"}
  BY DEF ToolEnds, IInv, TypeOK, Tool
<1>4. UNCHANGED <<store, master, prepares, ended, toWorker, world>>
  BY DEF ToolEnds
<1> HIDE DEF m
<1> QED  BY <1>1, <1>2, <1>3, <1>4, SendingStep

LEMMA WorkerEndsStep ==
  ASSUME IInv, NEW to \in Terminal \cup {"INTERRUPTED"}, WorkerEnds(to)
  PROVE  IInv'
<1> DEFINE m == [type |-> "END", to |-> to]
<1>1. m \in ToMaster /\ m.type # "COMPLETE" /\ WorkerSends(m)
  BY DEF WorkerEnds, ToMaster, End
<1>2. worker' \in Worker /\ tool' \in [Call -> Tool] /\ tool' = tool
  BY DEF WorkerEnds, IInv, TypeOK, Worker
<1>3. UNCHANGED <<store, master, prepares, ended, toWorker, world>>
  BY DEF WorkerEnds
<1> HIDE DEF m
<1> QED  BY <1>1, <1>2, <1>3, SendingStep

LEMMA TimeoutStep ==
  ASSUME IInv, NEW c \in Call, Timeout(c)
  PROVE  IInv'
<1>1. TypeOK'
  BY DEF Timeout, IInv, TypeOK, Tool, store, pipes, world
<1>2. Recorded' /\ OnePermission'
  BY PermissionsKept DEF Timeout, IInv, store, pipes, world
<1>3. ResultsAreReal'
  BY DEF Timeout, IInv, TypeOK, ResultsAreReal, store, pipes, world
<1> QED  BY <1>1, <1>2, <1>3 DEF IInv

\* The worker reads a message.  A permission leaves the pipe, and is used at
\* the same time or not at all.
LEMMA ReceiveStep ==
  ASSUME IInv, Receive
  PROVE  IInv'
<1> DEFINE m == Head(toWorker)
           start == tool'[m.call] = "running" /\ tool[m.call] = "asking"
<1>1. toWorker \in Seq(ToWorker) /\ toWorker # <<>>
  BY DEF Receive, IInv, TypeOK, ToWorker
<1>2. /\ m \in ToWorker /\ m = toWorker[1] /\ 1 \in DOMAIN toWorker
      /\ toWorker' = Tail(toWorker) /\ toWorker' \in Seq(ToWorker)
  BY <1>1, HeadTailProperties, LenProperties, EmptySeq DEF Receive
<1>3. m.call \in Call
  BY <1>2 DEF ToWorker, Decision, Receipt
<1>4. /\ tool' \in [Call -> Tool]
      /\ \A c \in Call : c # m.call => tool'[c] = tool[c]
      /\ tool'[m.call] \in {"running", "reporting_ok", "reporting_failed"} =>
           start \/ tool'[m.call] = tool[m.call]
      /\ start => m.type = "ALLOWED" /\ performed' = [performed EXCEPT ![m.call] = @ + 1]
      /\ ~start => performed' = performed
  BY <1>3 DEF Receive, IInv, TypeOK, Tool
<1>5. UNCHANGED <<store, master, prepares, ended, worker, toMaster, stray, workers>>
  BY DEF Receive
<1>6. /\ performed' \in [Call -> Nat]
      /\ \A c \in Call : performed'[c] >= performed[c]
      /\ start => performed'[m.call] > 0
      /\ \A c \in Call : performed'[c] # performed[c] =>
           c = m.call /\ start /\ performed'[c] = performed[c] + 1
  <2>1. performed \in [Call -> Nat]
    BY DEF IInv, TypeOK
  <2>2. CASE start
    <3>1. performed' = [performed EXCEPT ![m.call] = @ + 1]
      BY <1>4, <2>2
    <3> HIDE DEF m, start
    <3>2. /\ performed' \in [Call -> Nat]
          /\ performed'[m.call] = performed[m.call] + 1
          /\ \A c \in Call : c # m.call => performed'[c] = performed[c]
      BY <1>3, <2>1, <3>1
    <3> QED  BY <1>3, <2>1, <2>2, <3>2
  <2>3. CASE ~start
    BY <1>3, <1>4, <2>1, <2>3
  <2> QED  BY <2>2, <2>3
<1>7. TypeOK'
  BY <1>2, <1>4, <1>5, <1>6 DEF IInv, TypeOK, ToWorker, store
<1>8. ASSUME NEW c \in Call
      PROVE  /\ \A i \in Permits(toWorker', c) : i + 1 \in Permits(toWorker, c) /\ i >= 1 /\ i \in Nat
             /\ start /\ c = m.call => 1 \in Permits(toWorker, c)
  <2>1. Permits(toWorker', c) = {i \in 1 .. Len(toWorker) - 1 : i + 1 \in Permits(toWorker, c)}
    BY <1>1, <1>2, TailPermits
  <2>2. Len(toWorker) \in Nat
    BY <1>1, LenProperties
  <2>3. start /\ c = m.call => 1 \in Permits(toWorker, c)
    BY <1>2, <1>4 DEF Permits
  <2> QED  BY <2>1, <2>2, <2>3
<1> HIDE DEF m, start
<1>9. Recorded'
  <2> SUFFICES ASSUME NEW c \in Call,
                      performed'[c] > 0 \/ c \in stray \/ Permits(toWorker', c) # {}
               PROVE  ledger[c] # "NONE"
    BY <1>5 DEF Recorded, store
  <2>1. performed[c] > 0 \/ c \in stray \/ Permits(toWorker, c) # {}
    BY <1>6, <1>8 DEF IInv, TypeOK
  <2> QED  BY <2>1 DEF IInv, Recorded
<1>10. OnePermission'
  <2> SUFFICES ASSUME NEW c \in Unsafe
               PROVE  /\ \A i, j \in Permits(toWorker', c) : i = j
                      /\ Permits(toWorker', c) # {} => c \notin stray
                      /\ Permits(toWorker', c) # {} \/ c \in stray => performed'[c] = 0
                      /\ performed'[c] =< 1
    BY <1>5 DEF OnePermission, Unsafe
  <2>1. c \in Call
    BY DEF Unsafe
  <2>2. /\ \A i, j \in Permits(toWorker, c) : i = j
        /\ Permits(toWorker, c) # {} => c \notin stray
        /\ Permits(toWorker, c) # {} \/ c \in stray => performed[c] = 0
        /\ performed[c] =< 1
    BY DEF IInv, OnePermission
  <2>3. \A i, j \in Permits(toWorker', c) : i = j
    BY <2>1, <2>2, <1>8
  <2>4. Permits(toWorker', c) # {} => Permits(toWorker, c) # {}
    BY <2>1, <1>8
  <2>5. CASE start /\ c = m.call
    <3>1. 1 \in Permits(toWorker, c) /\ performed[c] = 0
      BY <2>1, <2>2, <2>5, <1>8
    <3>2. Permits(toWorker', c) = {}
      BY <3>1, <2>1, <2>2, <1>8
    <3>3. performed'[c] =< 1 /\ c \notin stray
      BY <3>1, <2>1, <2>2, <1>6
    <3> QED  BY <2>3, <3>2, <3>3
  <2>6. CASE ~(start /\ c = m.call)
    BY <2>1, <2>2, <2>3, <2>4, <2>6, <1>6
  <2> QED  BY <2>5, <2>6
<1>11. ResultsAreReal'
  <2>1. ASSUME NEW c \in Call,
               tool'[c] \in {"running", "reporting_ok", "reporting_failed"} \/ ledger[c] = "SUCCEEDED"
        PROVE  performed'[c] > 0
    BY <2>1, <1>4, <1>6 DEF IInv, TypeOK, ResultsAreReal
  <2>2. ASSUME NEW i \in DOMAIN toMaster, toMaster[i].type = "COMPLETE"
        PROVE  performed'[toMaster[i].call] > 0
    <3>1. performed[toMaster[i].call] > 0
      BY <2>2 DEF IInv, ResultsAreReal
    <3>2. toMaster[i].call \in Call
      <4>1. toMaster[i] \in ToMaster
        BY ElementOfSeq DEF IInv, TypeOK, ToMaster
      <4> QED  BY <4>1, <2>2 DEF ToMaster, Request, Result, End
    <3> QED  BY <3>1, <3>2, <1>6 DEF IInv, TypeOK
  <2> QED  BY <2>1, <2>2, <1>5 DEF IInv, ResultsAreReal, store
<1> QED  BY <1>7, <1>9, <1>10, <1>11 DEF IInv

\* Steps about the run and the processes that leave records, pipes and the
\* world alone.
LEMMA QuietStep ==
  ASSUME IInv, TypeOK', UNCHANGED <<ledger, ckpt, pipes, tool, performed, stray>>
  PROVE  IInv'
<1>1. Recorded' /\ OnePermission'
  BY PermissionsKept DEF IInv, pipes
<1>2. ResultsAreReal'
  BY DEF IInv, ResultsAreReal, pipes
<1> QED  BY <1>1, <1>2 DEF IInv

\* Reported and the tool phases keep the status a status.
RunStatus == Executing \cup Terminal \cup {"QUEUED", "INTERRUPTED"}

LEMMA ReportedType ==
  ASSUME run \in RunStatus, NEW to \in Terminal \cup {"INTERRUPTED"}, Reported(to)
  PROVE  run' \in RunStatus
BY DEF Reported, RunStatus, Terminal, Executing

LEMMA LifeStep ==
  ASSUME IInv, WorkerExitNoticed \/ StartWorker \/ Startup \/ Interrupt \/ Resume
  PROVE  IInv'
<1>1. CASE WorkerExitNoticed
  <2>1. run' \in RunStatus
    BY <1>1, ReportedType DEF WorkerExitNoticed, IInv, TypeOK, RunStatus, Terminal
  <2>2. TypeOK'
    BY <1>1, <2>1 DEF WorkerExitNoticed, IInv, TypeOK, RunStatus, Worker, pipes, world
  <2> QED  BY <1>1, <2>2, QuietStep DEF WorkerExitNoticed, world
<1>2. CASE StartWorker
  <2>1. workers' \in 0 .. MaxWorkers
    BY <1>2, WorkerAssumption DEF StartWorker, IInv, TypeOK
  <2>2. TypeOK'
    BY <1>2, <2>1 DEF StartWorker, IInv, TypeOK, Executing, Worker, pipes
  <2> QED  BY <1>2, <2>2, QuietStep DEF StartWorker
<1>3. CASE Startup
  <2>1. TypeOK'
    BY <1>3 DEF Startup, IInv, TypeOK, pipes, world
  <2> QED  BY <1>3, <2>1, QuietStep DEF Startup, world
<1>4. CASE Interrupt
  <2>1. TypeOK'
    BY <1>4 DEF Interrupt, IInv, TypeOK, pipes, world
  <2> QED  BY <1>4, <2>1, QuietStep DEF Interrupt, world
<1>5. CASE Resume
  <2>1. TypeOK'
    BY <1>5 DEF Resume, IInv, TypeOK, pipes, world
  <2> QED  BY <1>5, <2>1, QuietStep DEF Resume, world
<1> QED  BY <1>1, <1>2, <1>3, <1>4, <1>5

LEMMA WorkerDiesStep ==
  ASSUME IInv, WorkerDies
  PROVE  IInv'
<1>1. TypeOK'
  BY EmptyPermits DEF WorkerDies, IInv, TypeOK, Worker, Tool, NoTools, ToWorker, store, world
<1>2. Recorded' /\ OnePermission'
  BY EmptyPermits, PermissionsDropped DEF WorkerDies, IInv, store, world
<1>3. ResultsAreReal'
  BY DEF WorkerDies, IInv, ResultsAreReal, NoTools, store, world
<1> QED  BY <1>1, <1>2, <1>3 DEF IInv

\* What the master takes out of the pipe.
LEMMA ReadMessage ==
  ASSUME IInv, NEW type, Read(type)
  PROVE  /\ toMaster' \in Seq(ToMaster) /\ RealResults(toMaster', performed)
         /\ Head(toMaster) \in ToMaster /\ Head(toMaster).type = type
         /\ type = "COMPLETE" => performed[Head(toMaster).call] > 0
<1>1. toMaster \in Seq(ToMaster) /\ toMaster # <<>> /\ RealResults(toMaster, performed)
  BY DEF Read, IInv, TypeOK, ToMaster, ResultsAreReal, RealResults
<1> QED  BY <1>1, TailResults DEF Read

LEMMA HandleEndStep ==
  ASSUME IInv, HandleEnd
  PROVE  IInv'
<1>1. /\ toMaster' \in Seq(ToMaster) /\ RealResults(toMaster', performed)
      /\ Head(toMaster) \in ToMaster /\ Head(toMaster).type = "END"
  BY ReadMessage DEF HandleEnd
<1>2. Head(toMaster).to \in Terminal \cup {"INTERRUPTED"}
  BY <1>1 DEF ToMaster, Request, Result, End
<1>3. run' \in RunStatus
  BY <1>2, ReportedType DEF HandleEnd, IInv, TypeOK, RunStatus
<1>4. TypeOK'
  BY <1>1, <1>3 DEF HandleEnd, IInv, TypeOK, RunStatus, ToMaster, world
<1>5. Recorded' /\ OnePermission'
  BY PermissionsKept DEF HandleEnd, IInv, world
<1>6. ResultsAreReal'
  BY <1>1 DEF HandleEnd, IInv, ResultsAreReal, RealResults, world
<1> QED  BY <1>4, <1>5, <1>6 DEF IInv

\* An answer without a permission changes no permission.
LEMMA AnswerKeeps ==
  ASSUME IInv, NEW a \in ToWorker, Answer(a), a.type # "ALLOWED"
  PROVE  /\ toWorker' \in Seq(ToWorker)
         /\ \A c : Permits(toWorker', c) = Permits(toWorker, c)
<1>1. toWorker \in Seq(ToWorker)
  BY DEF IInv, TypeOK, ToWorker
<1>2. CASE toWorker' = toWorker
  BY <1>1, <1>2
<1>3. CASE toWorker' = Append(toWorker, a)
  <2>1. \A c : Permits(Append(toWorker, a), c) = Permits(toWorker, c) \cup {}
    BY <1>1, AppendPermits
  <2> QED  BY <1>1, <1>3, <2>1, AppendPermits
<1> QED  BY <1>2, <1>3 DEF Answer

\* Permissions stay the only ones when records are only ever added or settled.
LEMMA PermissionsStay ==
  ASSUME Recorded, OnePermission, UNCHANGED <<performed, stray>>,
         \A c \in Call : Permits(toWorker', c) = Permits(toWorker, c),
         \A c \in Call : ledger[c] # "NONE" => ledger'[c] # "NONE"
  PROVE  Recorded' /\ OnePermission'
BY DEF Recorded, OnePermission, Unsafe

\* The permission for a call that may be performed is the first one, or the
\* call may be replayed.
LEMMA HandlePrepareStep ==
  ASSUME IInv, HandlePrepare
  PROVE  IInv'
<1> DEFINE c == Head(toMaster).call
<1>1. /\ toMaster' \in Seq(ToMaster) /\ RealResults(toMaster', performed)
      /\ Head(toMaster) \in ToMaster /\ Head(toMaster).type = "PREPARE"
  BY ReadMessage DEF HandlePrepare
<1>2. c \in Call
  BY <1>1 DEF ToMaster, Request, Result, End
<1>3. UNCHANGED <<ckpt, master, ended, worker, tool, world>>
  BY DEF HandlePrepare
<1> HIDE DEF c
<1>4. ASSUME NEW kind \in {"DENIED", "REUSE"}, Answer([type |-> kind, call |-> c]),
             UNCHANGED <<run, ledger, prepares>>
      PROVE  IInv'
  <2> DEFINE a == [type |-> kind, call |-> c]
  <2>1. a \in ToWorker /\ a.type # "ALLOWED" /\ Answer(a)
    BY <1>2, <1>4 DEF ToWorker, Decision
  <2> HIDE DEF a
  <2>2. toWorker' \in Seq(ToWorker) /\ \A d : Permits(toWorker', d) = Permits(toWorker, d)
    BY <2>1, AnswerKeeps
  <2>3. TypeOK'
    BY <1>1, <1>3, <1>4, <2>2 DEF IInv, TypeOK, ToMaster, ToWorker, world
  <2>4. Recorded' /\ OnePermission'
    BY <1>3, <1>4, <2>2, PermissionsStay DEF IInv, world
  <2>5. ResultsAreReal'
    BY <1>1, <1>3, <1>4 DEF IInv, ResultsAreReal, RealResults, world
  <2> QED  BY <2>3, <2>4, <2>5 DEF IInv
<1>5. ASSUME MayPerform(c), ledger' = [ledger EXCEPT ![c] = "PREPARED"],
             prepares' = prepares \cup {c}, ToolPhaseStarted,
             Answer([type |-> "ALLOWED", call |-> c])
      PROVE  IInv'
  <2> DEFINE a == [type |-> "ALLOWED", call |-> c]
  <2>1. a \in ToWorker /\ a.type = "ALLOWED" /\ a.call = c /\ Answer(a)
    BY <1>2, <1>5 DEF ToWorker, Decision
  <2>2. toWorker \in Seq(ToWorker)
    BY DEF IInv, TypeOK, ToWorker
  <2> HIDE DEF a
  <2>3. toWorker' \in Seq(ToWorker) /\ \A d \in Call \ {c} : Permits(toWorker', d) = Permits(toWorker, d)
    <3>1. CASE toWorker' = toWorker
      BY <2>2, <3>1
    <3>2. CASE toWorker' = Append(toWorker, a)
      <4>1. \A d \in Call \ {c} : Permits(Append(toWorker, a), d) = Permits(toWorker, d) \cup {}
        BY <2>1, <2>2, AppendPermits
      <4> QED  BY <2>1, <2>2, <3>2, <4>1, AppendPermits
    <3> QED  BY <2>1, <3>1, <3>2 DEF Answer
  <2>4. run' \in RunStatus
    BY <1>5 DEF ToolPhaseStarted, IInv, TypeOK, RunStatus, Executing
  <2>5. ledger' \in [Call -> {"NONE", "PREPARED", "SUCCEEDED", "FAILED"}] /\ ledger'[c] = "PREPARED"
        /\ \A d \in Call \ {c} : ledger'[d] = ledger[d]
    BY <1>2, <1>5 DEF IInv, TypeOK
  <2>6. TypeOK'
    BY <1>1, <1>2, <1>3, <1>5, <2>3, <2>4, <2>5 DEF IInv, TypeOK, RunStatus, ToMaster, ToWorker, world
  <2>7. Recorded'
    BY <1>3, <2>3, <2>5 DEF IInv, Recorded, world
  <2>8. OnePermission'
    <3> SUFFICES ASSUME NEW d \in Unsafe
                 PROVE  /\ \A i, j \in Permits(toWorker', d) : i = j
                        /\ Permits(toWorker', d) # {} => d \notin stray
                        /\ Permits(toWorker', d) # {} \/ d \in stray => performed[d] = 0
                        /\ performed[d] =< 1
      BY <1>3 DEF OnePermission, Unsafe, world
    <3>1. CASE d # c
      BY <2>3, <3>1 DEF IInv, OnePermission, Unsafe
    <3>2. CASE d = c
      <4>1. ledger[c] = "NONE"
        BY <1>5, <3>2 DEF MayPerform, CanAutomaticallyReplay, Unsafe
      <4>2. performed[c] = 0 /\ c \notin stray /\ Permits(toWorker, c) = {}
        BY <1>2, <4>1 DEF IInv, Recorded, TypeOK
      <4>3. \A i, j \in Permits(toWorker', c) : i = j
        BY <2>1, <2>2, <4>2, AppendPermits DEF Answer
      <4> QED  BY <3>2, <4>2, <4>3
    <3> QED  BY <3>1, <3>2
  <2>9. ResultsAreReal'
    <3>1. ledger[c] # "SUCCEEDED"
      BY <1>5 DEF MayPerform, CanAutomaticallyReplay
    <3> QED  BY <1>1, <1>3, <2>5, <3>1 DEF IInv, TypeOK, ResultsAreReal, RealResults, world
  <2> QED  BY <2>6, <2>7, <2>8, <2>9 DEF IInv
<1>6. \/ /\ Answer([type |-> "DENIED", call |-> c])
         /\ UNCHANGED <<run, ledger, prepares>>
      \/ /\ Answer([type |-> "REUSE", call |-> c])
         /\ UNCHANGED <<run, ledger, prepares>>
      \/ /\ MayPerform(c) /\ ledger' = [ledger EXCEPT ![c] = "PREPARED"]
         /\ prepares' = prepares \cup {c} /\ ToolPhaseStarted
         /\ Answer([type |-> "ALLOWED", call |-> c])
  BY DEF HandlePrepare, c
<1> QED  BY <1>4, <1>5, <1>6

\* A result is recorded only over PREPARED, and of a call that was performed.
LEMMA HandleCompleteStep ==
  ASSUME IInv, HandleComplete
  PROVE  IInv'
<1> DEFINE m == Head(toMaster)
           confirmed == m.call \in prepares /\ ledger[m.call] = "PREPARED"
           a == [type |-> "RECEIPT", call |-> m.call, ok |-> confirmed]
<1>1. /\ toMaster' \in Seq(ToMaster) /\ RealResults(toMaster', performed)
      /\ m \in ToMaster /\ m.type = "COMPLETE" /\ performed[m.call] > 0
  BY ReadMessage DEF HandleComplete
<1>2. m.call \in Call /\ m.ok \in BOOLEAN
  BY <1>1 DEF ToMaster, Request, Result, End
<1>3. a \in ToWorker /\ a.type # "ALLOWED" /\ Answer(a)
  BY <1>2 DEF HandleComplete, ToWorker, Receipt
<1>4. /\ UNCHANGED <<master, ended, worker, tool, world>>
      /\ prepares' = prepares \ {m.call}
      /\ \/ /\ confirmed
            /\ ledger' = [ledger EXCEPT ![m.call] = IF m.ok THEN "SUCCEEDED" ELSE "FAILED"]
            /\ ckpt' = IF m.ok THEN m.call ELSE ckpt
            /\ ToolPhaseEnded
         \/ UNCHANGED store
  BY DEF HandleComplete
<1> HIDE DEF a
<1>5. toWorker' \in Seq(ToWorker) /\ \A c : Permits(toWorker', c) = Permits(toWorker, c)
  BY <1>3, AnswerKeeps
<1> HIDE DEF m
<1>6. /\ run' \in RunStatus
      /\ ledger' \in [Call -> {"NONE", "PREPARED", "SUCCEEDED", "FAILED"}]
      /\ ckpt' \in Call \cup {NoCall}
      /\ \A c \in Call : ledger[c] # "NONE" => ledger'[c] # "NONE"
      /\ \A c \in Call : ledger'[c] = "SUCCEEDED" => performed[c] > 0
      /\ ckpt' # NoCall => ledger'[ckpt'] = "SUCCEEDED"
  <2>1. CASE UNCHANGED store
    BY <2>1 DEF IInv, TypeOK, ResultsAreReal, RunStatus, store
  <2>2. CASE /\ confirmed
             /\ ledger' = [ledger EXCEPT ![m.call] = IF m.ok THEN "SUCCEEDED" ELSE "FAILED"]
             /\ ckpt' = IF m.ok THEN m.call ELSE ckpt
             /\ ToolPhaseEnded
    <3>1. run' \in RunStatus
      BY <2>2 DEF ToolPhaseEnded, IInv, TypeOK, RunStatus, Executing
    <3>2. /\ ledger' \in [Call -> {"NONE", "PREPARED", "SUCCEEDED", "FAILED"}]
          /\ ledger'[m.call] = IF m.ok THEN "SUCCEEDED" ELSE "FAILED"
          /\ \A c \in Call : c # m.call => ledger'[c] = ledger[c]
      BY <1>2, <2>2 DEF IInv, TypeOK
    <3>3. ckpt # NoCall => ckpt \in Call /\ ckpt # m.call /\ ledger[ckpt] = "SUCCEEDED"
      BY <2>2 DEF IInv, TypeOK, ResultsAreReal
    <3>4. \A c \in Call : ledger'[c] = "SUCCEEDED" => performed[c] > 0
      BY <1>1, <3>2 DEF IInv, ResultsAreReal
    <3>5. ckpt' # NoCall => ledger'[ckpt'] = "SUCCEEDED"
      BY <2>2, <3>2, <3>3
    <3>6. ckpt' \in Call \cup {NoCall}
      BY <1>2, <2>2 DEF IInv, TypeOK
    <3> QED  BY <3>1, <3>2, <3>4, <3>5, <3>6
  <2> QED  BY <1>4, <2>1, <2>2
<1>7. TypeOK'
  BY <1>1, <1>4, <1>5, <1>6 DEF IInv, TypeOK, RunStatus, ToMaster, ToWorker, world
<1>8. Recorded' /\ OnePermission'
  BY <1>4, <1>5, <1>6, PermissionsStay DEF IInv, world
<1>9. ResultsAreReal'
  BY <1>1, <1>4, <1>6 DEF IInv, ResultsAreReal, RealResults, world
<1> QED  BY <1>7, <1>8, <1>9 DEF IInv

LEMMA ResolveStep ==
  ASSUME IInv, NEW occurred \in BOOLEAN, ResolveUnknownEffect(occurred)
  PROVE  IInv'
<1>1. /\ ledger' \in [Call -> {"NONE", "PREPARED", "SUCCEEDED", "FAILED"}]
      /\ \A c \in Call : ledger[c] # "NONE" => ledger'[c] # "NONE"
      /\ \A c \in Call : ledger'[c] = "SUCCEEDED" <=> ledger[c] = "SUCCEEDED"
  BY DEF ResolveUnknownEffect, InDoubt, IInv, TypeOK
<1>2. UNCHANGED <<ckpt, master, prepares, ended, worker, pipes, tool, world>>
  BY DEF ResolveUnknownEffect
<1>3. TypeOK'
  BY <1>1, <1>2 DEF ResolveUnknownEffect, IInv, TypeOK, Terminal, pipes, world
<1>4. Recorded' /\ OnePermission'
  BY <1>1, <1>2, PermissionsStay DEF IInv, pipes, world
<1>5. ResultsAreReal'
  BY <1>1, <1>2 DEF IInv, TypeOK, ResultsAreReal, pipes, world
<1> QED  BY <1>3, <1>4, <1>5 DEF IInv

\* The permissions in the pipe pass to the worker without a master.
LEMMA CrashStep ==
  ASSUME IInv, Crash
  PROVE  IInv'
<1>1. toWorker' = <<>> /\ toMaster' = <<>> /\ UNCHANGED <<store, performed, workers>>
  BY DEF Crash
<1>2. toWorker' \in Seq(ToWorker) /\ toMaster' \in Seq(ToMaster) /\ \A c : Permits(toWorker', c) = {}
  BY <1>1, EmptyPermits
<1>3. TypeOK'
  BY <1>1, <1>2 DEF Crash, IInv, TypeOK, NoTools, Tool, Worker, ToMaster, ToWorker, store
<1>4. \A c \in Call : c \in stray' => c \in stray \/ Permits(toWorker, c) # {}
  <2> SUFFICES ASSUME NEW c \in Call, c \in stray', c \notin stray
               PROVE  Permits(toWorker, c) # {}
    OBVIOUS
  <2>1. PICK i \in DOMAIN toWorker : toWorker[i] = [type |-> "ALLOWED", call |-> c]
    BY DEF Crash
  <2>2. i \in Permits(toWorker, c)
    BY <2>1 DEF Permits
  <2> QED  BY <2>2
<1>5. Recorded'
  BY <1>1, <1>2, <1>4 DEF IInv, Recorded, store
<1>6. OnePermission'
  BY <1>1, <1>2, <1>4 DEF IInv, OnePermission, Unsafe
<1>7. ResultsAreReal'
  BY <1>1, <1>3 DEF Crash, IInv, ResultsAreReal, NoTools, store
<1> QED  BY <1>3, <1>5, <1>6, <1>7 DEF IInv

LEMMA StrayStep ==
  ASSUME IInv, NEW c \in Call, Stray(c)
  PROVE  IInv'
<1>1. UNCHANGED <<store, master, prepares, ended, worker, pipes, tool, workers>>
  BY DEF Stray
<1>2. c \in stray /\ stray' = stray \ {c}
  BY DEF Stray
<1>3. /\ performed' \in [Call -> Nat]
      /\ \A d \in Call : d # c => performed'[d] = performed[d]
      /\ performed'[c] \in {performed[c], performed[c] + 1}
  <2>1. performed \in [Call -> Nat]
    BY DEF IInv, TypeOK
  <2>2. CASE performed' = [performed EXCEPT ![c] = @ + 1]
    BY <2>1, <2>2
  <2>3. CASE UNCHANGED performed
    BY <2>1, <2>3
  <2> QED  BY <2>2, <2>3 DEF Stray
<1>4. performed \in [Call -> Nat]
  BY DEF IInv, TypeOK
<1>5. TypeOK'
  BY <1>1, <1>2, <1>3 DEF IInv, TypeOK, store, pipes
<1>6. Recorded'
  BY <1>1, <1>2, <1>3, <1>4 DEF IInv, Recorded, Permits, store, pipes
<1>7. OnePermission'
  BY <1>1, <1>2, <1>3, <1>4 DEF IInv, OnePermission, Permits, Unsafe, pipes
<1>8. ResultsAreReal'
  <2>1. \A d \in Call : performed[d] > 0 => performed'[d] > 0
    BY <1>3, <1>4
  <2>2. \A i \in DOMAIN toMaster : toMaster[i].type = "COMPLETE" => toMaster[i].call \in Call
    <3>1. \A i \in DOMAIN toMaster : toMaster[i] \in ToMaster
      BY ElementOfSeq DEF IInv, TypeOK, ToMaster
    <3> QED  BY <3>1 DEF ToMaster, Request, Result, End
  <2> QED  BY <1>1, <2>1, <2>2 DEF IInv, ResultsAreReal, store, pipes
<1> QED  BY <1>5, <1>6, <1>7, <1>8 DEF IInv

LEMMA IInvNext == IInv /\ [Next]_vars => IInv'
<1> SUFFICES ASSUME IInv, [Next]_vars
             PROVE  IInv'
  OBVIOUS
<1>1. CASE WorkerStep
  BY <1>1, AskStep, TimeoutStep, ToolEndsStep, ReceiveStep, WorkerEndsStep, WorkerDiesStep
     DEF WorkerStep
<1>2. CASE MasterStep
  BY <1>2, HandlePrepareStep, HandleCompleteStep, HandleEndStep, LifeStep DEF MasterStep
<1>3. CASE Person
  BY <1>3, LifeStep, ResolveStep DEF Person
<1>4. CASE Crash
  BY <1>4, CrashStep
<1>5. CASE \E c \in Call : Stray(c)
  BY <1>5, StrayStep
<1>6. CASE UNCHANGED vars
  <2>1. TypeOK'
    BY <1>6 DEF IInv, TypeOK, vars, store, pipes, world
  <2> QED  BY <1>6, <2>1, QuietStep DEF vars, store, world
<1> QED  BY <1>1, <1>2, <1>3, <1>4, <1>5, <1>6 DEF Next

-----------------------------------------------------------------------------
(* What holds of every behaviour *)

\* A permission is in one place, and results are of what was performed.
THEOREM AlwaysInvariant == Spec => []IInv
BY IInvInit, IInvNext, PTL DEF Spec

\* TypeOK: records, status, messages and processes stay what they are.
THEOREM TypeCorrect == Spec => []TypeOK
<1>1. IInv => TypeOK
  BY DEF IInv
<1> QED  BY <1>1, AlwaysInvariant, PTL

\* UnsafeAtMostOnce: ToolGateway.prepare lets no call that may have had an
\* effect start again, across timeouts, deaths, restarts and resumptions.
THEOREM UnsafeCallsAtMostOnce == Spec => []UnsafeAtMostOnce
<1>1. IInv => UnsafeAtMostOnce
  BY DEF IInv, OnePermission, UnsafeAtMostOnce
<1> QED  BY <1>1, AlwaysInvariant, PTL

\* NothingUnrecorded: the row is written before the permission is sent.
THEOREM EffectsAreRecorded == Spec => []NothingUnrecorded
<1>1. IInv => NothingUnrecorded
  BY DEF IInv, Recorded, NothingUnrecorded
<1> QED  BY <1>1, AlwaysInvariant, PTL

\* CheckpointIsSettled: checkpoint and result are written in one transaction.
THEOREM CheckpointsAreSettled == Spec => []CheckpointIsSettled
<1>1. IInv => CheckpointIsSettled
  BY DEF IInv, TypeOK, ResultsAreReal, CheckpointIsSettled
<1> QED  BY <1>1, AlwaysInvariant, PTL

\* AutoResumeIsSafe: decideRecovery resumes a run only if whatever may have
\* had an effect has an outcome.
THEOREM AutoResumesAreSafe == Spec => AutoResumeIsSafe
<1> DEFINE Safe == \A c \in Unsafe :
      performed[c] > 0 \/ c \in stray => ledger[c] \in {"SUCCEEDED", "FAILED"}
           Resumes == master = "down" /\ run \in Executing /\ run' = "QUEUED"
<1>1. IInv /\ [Next]_vars => [Resumes => Safe]_vars
  <2> SUFFICES ASSUME IInv, Next, Resumes
               PROVE  Safe
    OBVIOUS
  <2>1. Startup
    <3>1. \A to : ~Reported(to)
      BY DEF Reported, Executing, Terminal
    <3>2. ~WorkerStep
      BY DEF WorkerStep, Ask, Timeout, ToolEnds, Receive, WorkerEnds, WorkerDies, store, Executing
    <3>3. ~HandlePrepare /\ ~HandleComplete
      BY DEF HandlePrepare, HandleComplete, ToolPhaseStarted, ToolPhaseEnded, store, Executing
    <3>4. ~HandleEnd /\ ~WorkerExitNoticed
      BY <3>1 DEF HandleEnd, WorkerExitNoticed, Executing
    <3>5. ~StartWorker /\ ~Person /\ ~Crash /\ \A c \in Call : ~Stray(c)
      BY DEF StartWorker, Person, Interrupt, Resume, ResolveUnknownEffect, Crash, Stray, store, Executing
    <3> QED  BY <3>2, <3>3, <3>4, <3>5 DEF Next, MasterStep
  <2>2. DecideRecovery = "AUTO_RESUME"
    BY <2>1 DEF Startup
  <2>3. \A c \in Call : ledger[c] = "PREPARED" => EffectOf[c] = "READ_ONLY"
    BY <2>2 DEF DecideRecovery, InDoubt, CanAutomaticallyReplay
  <2> QED  BY <2>3 DEF IInv, TypeOK, Recorded, Unsafe
<1> QED  BY <1>1, AlwaysInvariant, PTL DEF Spec, AutoResumeIsSafe

-----------------------------------------------------------------------------
(* ToolGovernance implements ToolLedger *)

\* A permission that is used is recorded, and the only one of its call.
LEMMA UseIsAllowed ==
  ASSUME IInv, NEW c \in Call, c \in stray \/ Permits(toWorker, c) # {},
         performed' = [performed EXCEPT ![c] = @ + 1], UNCHANGED ledger
  PROVE  Effects!Perform(c)
<1>1. ledger[c] # "NONE"
  BY DEF IInv, Recorded
<1>2. performed[c] = 0 \/ EffectOf[c] = "READ_ONLY"
  BY DEF IInv, OnePermission, Unsafe
<1> QED  BY <1>1, <1>2 DEF Effects!Perform, Effects!Replayable

\* Promise: every step records, performs or settles as ToolLedger allows, or
\* does none of it.
THEOREM ImplementsToolLedger == Spec => Promise
<1>1. Init => Effects!Init
  BY DEF Init, Effects!Init
<1>2. IInv /\ [Next]_vars => [Effects!Next]_(Effects!vars)
  <2> SUFFICES ASSUME IInv, [Next]_vars, ~UNCHANGED <<ledger, performed>>
               PROVE  Effects!Next
    BY DEF Effects!vars
  <2>1. CASE Receive
    <3> DEFINE c == Head(toWorker).call
    <3>1. toWorker \in Seq(ToWorker) /\ toWorker # <<>> /\ UNCHANGED ledger
      BY <2>1 DEF Receive, IInv, TypeOK, ToWorker, store
    <3>2. Head(toWorker) \in ToWorker /\ Head(toWorker) = toWorker[1] /\ 1 \in DOMAIN toWorker
      BY <3>1, HeadTailProperties, LenProperties, EmptySeq
    <3>3. c \in Call
      BY <3>2 DEF ToWorker, Decision, Receipt
    <3>4. Head(toWorker).type = "ALLOWED" /\ performed' = [performed EXCEPT ![c] = @ + 1]
      BY <2>1, <3>1 DEF Receive
    <3>5. 1 \in Permits(toWorker, c)
      BY <3>2, <3>4 DEF Permits
    <3> HIDE DEF c
    <3> QED  BY <3>1, <3>3, <3>4, <3>5, UseIsAllowed DEF Effects!Next
  <2>2. CASE \E c \in Call : Stray(c)
    <3>1. PICK c \in Call : Stray(c)
      BY <2>2
    <3>2. c \in stray /\ UNCHANGED ledger /\ performed' = [performed EXCEPT ![c] = @ + 1]
      BY <3>1 DEF Stray, store
    <3> QED  BY <3>2, UseIsAllowed DEF Effects!Next
  <2>3. CASE HandlePrepare
    <3> DEFINE c == Head(toMaster).call
    <3>1. Head(toMaster) \in ToMaster /\ Head(toMaster).type = "PREPARE"
      BY <2>3, ReadMessage DEF HandlePrepare
    <3>2. c \in Call
      BY <3>1 DEF ToMaster, Request, Result, End
    <3>3. UNCHANGED performed /\ ledger' = [ledger EXCEPT ![c] = "PREPARED"] /\ MayPerform(c)
      BY <2>3 DEF HandlePrepare, world
    <3> HIDE DEF c
    <3>4. ledger[c] = "NONE"
      <4>1. ledger[c] # "PREPARED"
        BY <3>2, <3>3 DEF IInv, TypeOK
      <4> QED  BY <3>3, <4>1 DEF MayPerform, CanAutomaticallyReplay
    <3>5. Effects!Record(c)
      BY <3>3, <3>4 DEF Effects!Record
    <3> QED  BY <3>2, <3>5 DEF Effects!Next
  <2>4. CASE HandleComplete
    <3> DEFINE m == Head(toMaster)
    <3>1. m \in ToMaster /\ m.type = "COMPLETE" /\ performed[m.call] > 0
      BY <2>4, ReadMessage DEF HandleComplete
    <3>2. m.call \in Call
      BY <3>1 DEF ToMaster, Request, Result, End
    <3>3. /\ UNCHANGED performed /\ ledger[m.call] = "PREPARED"
          /\ ledger' = [ledger EXCEPT ![m.call] = IF m.ok THEN "SUCCEEDED" ELSE "FAILED"]
      BY <2>4 DEF HandleComplete, store, world
    <3> HIDE DEF m
    <3>4. ledger' = [c \in Call |-> IF c \in {m.call} THEN (IF m.ok THEN "SUCCEEDED" ELSE "FAILED") ELSE ledger[c]]
      BY <3>2, <3>3 DEF IInv, TypeOK
    <3>5. Effects!Settle({m.call})
      <4>1. CASE m.ok
        BY <3>1, <3>3, <3>4, <4>1 DEF Effects!Settle
      <4>2. CASE ~m.ok
        BY <3>3, <3>4, <4>2 DEF Effects!Settle
      <4> QED  BY <4>1, <4>2
    <3>6. {m.call} \in SUBSET Call
      BY <3>2
    <3> QED  BY <3>5, <3>6 DEF Effects!Next
  <2>5. CASE Person
    <3>1. PICK occurred \in BOOLEAN : ResolveUnknownEffect(occurred)
      BY <2>5 DEF Person, Interrupt, Resume, world
    <3>2. Effects!Settle(InDoubt)
      BY <3>1 DEF ResolveUnknownEffect, InDoubt, Effects!Settle, world
    <3>3. InDoubt \in SUBSET Call
      BY DEF InDoubt
    <3> QED  BY <3>2, <3>3 DEF Effects!Next
  <2>6. ~WorkerStep \/ Receive
    BY DEF WorkerStep, Ask, Timeout, ToolEnds, WorkerEnds, WorkerDies, store, world
  <2>7. ~MasterStep \/ HandlePrepare \/ HandleComplete
    BY DEF MasterStep, HandleEnd, WorkerExitNoticed, StartWorker, Startup, world
  <2>8. ~Crash /\ ~UNCHANGED vars
    BY DEF Crash, vars, store, world
  <2> QED  BY <2>1, <2>2, <2>3, <2>4, <2>5, <2>6, <2>7, <2>8 DEF Next
<1> QED  BY <1>1, <1>2, AlwaysInvariant, PTL DEF Spec, Promise, Effects!Spec
=============================================================================
