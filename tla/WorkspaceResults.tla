-------------------------- MODULE WorkspaceResults --------------------------
(***************************************************************************)
(* What a run leaves behind in its workspace: RunWorkspaceResultCoordinator*)
(* takes a manifest of the files when a run starts and after every         *)
(* attempt, stores the difference, and copies the changed files of a run   *)
(* that has ended.  The workspace is shared: the run's own tools, other    *)
(* conversations and people change files at any time, also while they are  *)
(* read one by one.  A content stands for its hash and size; a file that   *)
(* is ignored or too large is like one that is not there.  Whether a       *)
(* queued run that was executed before still has its resume input is for   *)
(* RunQueueCoordinator to say; here it may or may not.                     *)
(***************************************************************************)
EXTENDS Integers, FiniteSets

CONSTANTS
  Path,
  Content,      \* of files
  MaxWrites,    \* bound on changes of the workspace
  MaxAttempts,  \* bound on a start and its resumptions
  Null          \* no file, no row, nothing stored

VARIABLES
  files,     \* Path -> content
  writes,    \* changes so far
  status,    \* of the run
  attempts,  \* executions of the run so far
  stage,     \* where executeQueuedRun or executeQueuedResume is; "storing" between
             \* the two writes of captureAfter
  scan,      \* [left : paths to be read, read : Path -> content]
  memory,    \* beforeByRun has the run
  stored,    \* [before, after, diff], each a manifest or Null
  copy,      \* [left : paths to be copied, path, body : the one being written]
  disk,      \* Path -> the artifact's file
  rows,      \* Path -> hash in run_artifacts
  first,     \* history: what was read before the run first became RUNNING
  retaken,   \* history: the BEFORE manifest was taken again after that
  ahead      \* history: the AFTER manifest is newer than the difference

ghost == <<first, retaken, ahead>>
vars == <<files, writes, status, attempts, stage, scan, memory, stored, copy, disk,
          rows, ghost>>

Torn == "torn"
NoScan == [left |-> {}, read |-> [p \in Path |-> Null]]
NoCopy == [left |-> {}, path |-> Null, body |-> Null]

Init ==
  /\ files \in [Path -> {Null} \cup Content] /\ writes = 0
  /\ status = "QUEUED" /\ attempts = 0 /\ stage = "idle"
  /\ scan = NoScan /\ memory = FALSE
  /\ stored = [before |-> Null, after |-> Null, diff |-> Null]
  /\ copy = NoCopy
  /\ disk = [p \in Path |-> Null] /\ rows = [p \in Path |-> Null]
  /\ first = Null /\ retaken = FALSE /\ ahead = FALSE

-----------------------------------------------------------------------------
(* workspace-snapshot.ts *)

\* readdir: the names are known, the files are read one after the other.
Listing == [left |-> {p \in Path : files[p] # Null}, read |-> [p \in Path |-> Null]]

Snapshotting == stage \in {"before", "after"}

ReadFile(p) ==
  /\ Snapshotting /\ p \in scan.left /\ files[p] # Null
  /\ scan' = [left |-> scan.left \ {p}, read |-> [scan.read EXCEPT ![p] = files[p]]]
  /\ UNCHANGED <<files, writes, status, attempts, stage, memory, stored, copy, disk, rows, ghost>>

\* diffWorkspace: what the second manifest has that the first had not, or had
\* otherwise, and what it has no more.
DiffWorkspace(before, after) ==
  [changed |-> {p \in Path : after[p] # Null /\ after[p] # before[p]},
   deleted |-> {p \in Path : after[p] = Null /\ before[p] # Null}]

-----------------------------------------------------------------------------
(* RunService around the coordinator *)

Ended == {"COMPLETED", "FAILED"}

\* executeQueuedRun: of a run that starts, of one restored whose process died
\* before it was RUNNING, and of one whose resumption was refused or forgotten.
CaptureBefore ==
  /\ stage = "idle" /\ status = "QUEUED"
  /\ stage' = "before"
  /\ scan' = Listing
  /\ UNCHANGED <<files, writes, status, attempts, memory, stored, copy, disk, rows, ghost>>

\* Two writes, the manifest and the run's row: the run starts, unless it was
\* taken over in the meantime, or the process dies between the two.
BeforeCaptured ==
  /\ stage = "before" /\ scan.left = {}
  /\ stored' = [stored EXCEPT !.before = scan.read]
  /\ scan' = NoScan
  /\ retaken' = (retaken \/ attempts > 0)
  /\ \/ /\ status = "QUEUED"
        /\ status' = "RUNNING" /\ stage' = "running" /\ memory' = TRUE
        /\ attempts' = attempts + 1
        /\ first' = IF attempts = 0 THEN scan.read ELSE first
     \/ /\ stage' = "idle" /\ memory' = (status # "QUEUED")
        /\ UNCHANGED <<status, attempts, first>>
  /\ UNCHANGED <<files, writes, copy, disk, rows, ahead>>

\* queueResume: the run has a checkpoint, so it was executed; its last attempt
\* need not have returned yet.
QueueResume ==
  /\ status = "INTERRUPTED"
  /\ attempts \in 1..(MaxAttempts - 1)
  /\ status' = "QUEUED"
  /\ UNCHANGED <<files, writes, attempts, stage, scan, memory, stored, copy, disk, rows, ghost>>

\* executeQueuedResume takes no manifest: the one there is stays.
Resume ==
  /\ stage = "idle" /\ status = "QUEUED" /\ attempts > 0
  /\ status' = "RUNNING" /\ stage' = "running"
  /\ attempts' = attempts + 1
  /\ UNCHANGED <<files, writes, scan, memory, stored, copy, disk, rows, ghost>>

\* The invocation is over, with whatever it or somebody else made of the run,
\* and captureAfter begins; what it compares with is in memory or, after a
\* restart, in the store.
RunReturns(s) ==
  /\ stage = "running"
  /\ status' = IF status = "RUNNING" THEN s ELSE status
  /\ memory' = FALSE
  /\ IF memory \/ stored.before # Null
     THEN stage' = "after" /\ scan' = Listing
     ELSE stage' = "idle" /\ UNCHANGED scan
  /\ UNCHANGED <<files, writes, attempts, stored, copy, disk, rows, ghost>>

\* The first of two writes.
AfterCaptured ==
  /\ stage = "after" /\ scan.left = {}
  /\ stored' = [stored EXCEPT !.after = scan.read]
  /\ stage' = "storing" /\ ahead' = TRUE
  /\ scan' = NoScan
  /\ UNCHANGED <<files, writes, status, attempts, memory, copy, disk, rows, first, retaken>>

\* The second, and captureArtifacts of a run that has ended.
DiffStored ==
  /\ stage = "storing"
  /\ LET diff == DiffWorkspace(stored.before, stored.after) IN
       /\ stored' = [stored EXCEPT !.diff = diff]
       /\ IF status \in Ended
          THEN stage' = "copying" /\ copy' = [NoCopy EXCEPT !.left = diff.changed]
          ELSE stage' = "idle" /\ UNCHANGED copy
  /\ ahead' = FALSE
  /\ UNCHANGED <<files, writes, status, attempts, scan, memory, disk, rows, first, retaken>>

\* A file listed and gone when it is its turn: the attempt fails with that.
SnapshotThrows ==
  /\ Snapshotting /\ \E p \in scan.left : files[p] = Null
  /\ stage' = "idle"
  /\ scan' = NoScan
  /\ UNCHANGED <<files, writes, status, attempts, memory, stored, copy, disk, rows, ghost>>

-----------------------------------------------------------------------------
(* RunArtifactStore.capture *)

\* Mutant of ReadSource: what is there now is taken.
ReadSourceBlindly(p) ==
  /\ stage = "copying" /\ copy.path = Null /\ p \in copy.left
  /\ copy' = IF files[p] # Null
             THEN [left |-> copy.left \ {p}, path |-> p, body |-> files[p]]
             ELSE [copy EXCEPT !.left = @ \ {p}]
  /\ UNCHANGED <<files, writes, status, attempts, stage, scan, memory, stored, disk, rows, ghost>>

\* A file that has changed since the manifest is left out.
ReadSource(p) ==
  /\ stage = "copying" /\ copy.path = Null /\ p \in copy.left
  /\ copy' = IF files[p] = stored.after[p]
             THEN [left |-> copy.left \ {p}, path |-> p, body |-> files[p]]
             ELSE [copy EXCEPT !.left = @ \ {p}]
  /\ UNCHANGED <<files, writes, status, attempts, stage, scan, memory, stored, disk, rows, ghost>>

\* writeFile with "wx", and the row when it has returned.
WriteArtifact ==
  /\ stage = "copying" /\ copy.path # Null
  /\ LET p == copy.path IN
       /\ disk' = [disk EXCEPT ![p] = IF @ = Null THEN copy.body ELSE @]
       /\ rows' = [rows EXCEPT ![p] = IF @ = Null THEN stored.after[p] ELSE @]
  /\ copy' = [copy EXCEPT !.path = Null, !.body = Null]
  /\ UNCHANGED <<files, writes, status, attempts, stage, scan, memory, stored, ghost>>

\* A file that is gone between the look at it and its reading ends the copying,
\* with the attempt's error.
CopyThrows ==
  /\ stage = "copying" /\ copy.path = Null
  /\ \E p \in copy.left : files[p] = Null
  /\ copy' = NoCopy /\ stage' = "idle"
  /\ UNCHANGED <<files, writes, status, attempts, scan, memory, stored, disk, rows, ghost>>

Copied ==
  /\ stage = "copying" /\ copy = NoCopy
  /\ stage' = "idle"
  /\ UNCHANGED <<files, writes, status, attempts, scan, memory, stored, copy, disk, rows, ghost>>

-----------------------------------------------------------------------------
(* Everybody else *)

\* A tool of the run, another run, or a person.
Write(p, c) ==
  /\ writes < MaxWrites /\ files[p] # c
  /\ files' = [files EXCEPT ![p] = c]
  /\ writes' = writes + 1
  /\ UNCHANGED <<status, attempts, stage, scan, memory, stored, copy, disk, rows, ghost>>

\* An interrupt, the limit on the time in the queue, or a ruling on an
\* interrupted run.
TakeOver ==
  /\ \/ status \in {"QUEUED", "RUNNING"} /\ status' = "INTERRUPTED"
     \/ status \in {"QUEUED", "INTERRUPTED"} /\ status' = "FAILED"
  /\ UNCHANGED <<files, writes, attempts, stage, scan, memory, stored, copy, disk, rows, ghost>>

\* An artifact that is being written may be there in part, or not at all; what
\* the store has been given stays.
Crash ==
  /\ stage # "idle" \/ memory
  /\ stage' = "idle" /\ scan' = NoScan /\ memory' = FALSE /\ copy' = NoCopy
  /\ status' = IF status = "RUNNING" THEN "INTERRUPTED" ELSE status
  /\ IF copy.path # Null /\ disk[copy.path] = Null
     THEN \E body \in {Null, Torn, copy.body} : disk' = [disk EXCEPT ![copy.path] = body]
     ELSE UNCHANGED disk
  /\ UNCHANGED <<files, writes, attempts, stored, rows, ghost>>

Next ==
  \/ CaptureBefore \/ BeforeCaptured \/ QueueResume \/ Resume
  \/ AfterCaptured \/ DiffStored \/ SnapshotThrows
  \/ WriteArtifact \/ CopyThrows \/ Copied \/ TakeOver \/ Crash
  \/ \E s \in {"COMPLETED", "FAILED", "INTERRUPTED"} : RunReturns(s)
  \/ \E p \in Path : ReadFile(p) \/ ReadSource(p) \/ \E c \in {Null} \cup Content : Write(p, c)

Spec == Init /\ [][Next]_vars

-----------------------------------------------------------------------------
(* Properties *)

Manifest == [Path -> {Null} \cup Content]

TypeOK ==
  /\ files \in Manifest
  /\ stored.before \in Manifest \cup {Null} /\ stored.after \in Manifest \cup {Null}
  /\ rows \in Manifest
  /\ disk \in [Path -> {Null, Torn} \cup Content]
  /\ scan.left \subseteq Path /\ copy.left \subseteq Path

\* A listed artifact can be read, has the content that its hash and the AFTER
\* manifest say, and is a file of the stored difference, which then is that of
\* the stored manifests; nothing is copied before the run has ended.
\* Through interrupts, resumptions and restarts the stored difference is that
\* between the first start of the run and the AFTER manifest, with two exceptions
\* of the code: a refused resumption goes through executeQueuedRun again, which
\* overwrites the BEFORE manifest; and a death of the process between the two
\* writes of captureAfter leaves the older difference, or none, beside the newer
\* manifest until the run is resumed, and for ever once it has ended.
ResultsAreWhatWasLeft ==
  /\ \A p \in Path : rows[p] # Null =>
       /\ disk[p] = rows[p] /\ stored.after[p] = rows[p]
       /\ p \in stored.diff.changed
       /\ stored.diff = DiffWorkspace(stored.before, stored.after)
  /\ stage = "copying" => status \in Ended
  /\ stored.diff # Null /\ ~retaken /\ ~ahead =>
       stored.diff = DiffWorkspace(first, stored.after)
=============================================================================
