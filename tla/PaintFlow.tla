----------------------------- MODULE PaintFlow ------------------------------
(***************************************************************************)
(* One submitted project as BullMQ and the three workers run it: a project *)
(* job whose children are gather jobs, one per task, whose children are    *)
(* paint jobs, one per part.                                               *)
(*                                                                         *)
(* A run is one process() call on a job; it goes on until its worker dies, *)
(* also when BullMQ has given the job to another worker since: only the    *)
(* run that holds the job's lock decides how the job ends, but the files a *)
(* run writes are written either way.  Steps end where the code awaits.    *)
(*                                                                         *)
(* BullMQ is external, modelled as src/ configures it: one attempt per job *)
(* and no failParentOnFailure, so a parent waits for failed children too;  *)
(* a job whose lock expires is given out again, MaxStalled times.          *)
(*                                                                         *)
(* Bounds: MaxCrashes, MaxSpurious (locks lost by a live worker), MaxTime. *)
(***************************************************************************)
EXTENDS Messages, FiniteSets

CONSTANTS
  Project,       \* the project job
  Tasks,         \* the gather jobs (a taskId is the gather job's messageId)
  Parts,         \* the paint jobs
  TaskOf,        \* paint job -> its task
  SeedOf,        \* task -> its genSeed
  Workers,       \* the worker processes
  RolesOf,       \* worker -> the roles it was started with
  ReleaseOf,     \* worker -> the CURRENT_RELEASE of its code
  OriginRelease, \* the release of the process that submits
  MaxStalled,    \* BullMQ's maxStalledCount
  MaxCrashes, MaxSpurious, MaxTime

NoWorker == "no_worker"
Job == {Project} \cup Tasks \cup Parts
Roles == {"mainApp", "stageWorker", "paintWorker"}

ASSUME JobsAssumption ==
  /\ Project \notin Tasks \cup Parts
  /\ Tasks \cap Parts = {}
  /\ IsFiniteSet(Tasks)
  /\ TaskOf \in [Parts -> Tasks]
ASSUME WorkersAssumption ==
  /\ NoWorker \notin Workers
  /\ RolesOf \in [Workers -> SUBSET Roles]
  /\ ReleaseOf \in [Workers -> Version]
  /\ OriginRelease \in Version
ASSUME BoundsAssumption ==
  /\ MaxStalled \in Nat /\ MaxCrashes \in Nat /\ MaxSpurious \in Nat /\ MaxTime \in Nat

VARIABLES
  job,       \* job -> its state in BullMQ
  attempt,   \* job -> the number of runs it was given to
  pc,        \* job -> run number -> where that run is
  by,        \* job -> run number -> the worker, while the run goes on
  write,     \* task or Project -> run number -> the file that run writes, and how far
  collected, \* run number of the project job -> the entries it collected
  painted,   \* part -> what its paint job returned
  gathered,  \* task -> what its gather job returned
  answer,    \* what the project job returned
  files,     \* file name -> the task whose whole image it holds, Partial, or NoTask
  manifest,  \* project-manifest.json
  now, crashes, spurious

runVars == <<attempt, pc, by, write, collected>>
returns == <<painted, gathered, answer>>
bounds == <<now, crashes, spurious>>
vars == <<job, runVars, returns, files, manifest, bounds>>

JobStates == {"absent", "waiting-children", "waiting", "active", "completed", "failed"}
RunStates ==
  {"none", "fresh", "named", "storing", "staged", "collected", "writing", "written", "done", "dead"}
Runs == 1 .. (MaxStalled + 1)
NoTask == "no_task"
Partial == "partial"  \* no task's whole image: empty, cut off, or mixed

FileName == {SeedOf[t] : t \in Tasks} \X (0 .. MaxTime)
NoFile == << >>
ManifestName == <<Project>>
Writers == Tasks \cup {Project}

\* How far a run is with its file: it has the name, has opened it, has had what it
\* wrote so far cut off by a later opener, or has written all of it.
Extents == {"none", "named", "open", "cut", "whole"}
Opened == {"open", "cut", "whole"}
NoWrite == [file |-> NoFile, at |-> "none"]
TaskResult == [outcome : {"OK", "FATAL_ERROR"}, file : FileName \cup {NoFile}]
NoResult == [outcome |-> "none", file |-> NoFile]
SemanticFailure == [outcome |-> "SEMANTIC_ERROR", file |-> NoFile]  \* mutant
Failure == [outcome |-> "FATAL_ERROR", file |-> NoFile]
Entries == UNION {[S -> TaskResult] : S \in SUBSET Tasks}
NoEntries == << >>

Kinds == {"none", "message", "error"}
NoAnswer ==
  [kind |-> "none", entries |-> NoEntries, numCompleted |-> 0, numFatalErrors |-> 0]

Children(j) ==
  IF j = Project THEN Tasks ELSE {p \in Parts : TaskOf[p] = j}
RoleFor(j) ==
  IF j = Project THEN "mainApp" ELSE IF j \in Tasks THEN "stageWorker" ELSE "paintWorker"

\* isMessage of a memento the submitting release sent, in the worker of run k of j:
\* replies keep the version of the request they answer.
IsMessage(j, k, isError) ==
  LET w == [version |-> OriginRelease, isError |-> isError]
  IN AcceptedState(ReleaseOf[by[j][k]], w, TRUE) = "DECODED_MESSAGE"

-----------------------------------------------------------------------------
(***************************************************************************)
(* BullMQ (external).                                                      *)
(***************************************************************************)

Holds(j, k) == job[j] = "active" /\ attempt[j] = k

\* j completes: its parent becomes ready when this was the last child it awaited.
Completed(j) ==
  [i \in Job |->
     IF i = j THEN "completed"
     ELSE IF /\ job[i] = "waiting-children"
             /\ j \in Children(i)
             /\ \A c \in Children(i) \ {j} : job[c] = "completed"
       THEN "waiting" ELSE job[i]]

\* The run ends; what it returned counts only while it holds the lock.
End(j, k) ==
  /\ pc' = [pc EXCEPT ![j][k] = "done"]
  /\ by' = [by EXCEPT ![j][k] = NoWorker]
ReturnUnlocked(j, k) ==  \* mutant: a run that lost the lock completes the job
  /\ End(j, k)
  /\ job' = Completed(j)
Return(j, k) ==
  /\ End(j, k)
  /\ job' = IF Holds(j, k) THEN Completed(j) ELSE job
Throw(j, k) ==
  /\ End(j, k)
  /\ job' = IF Holds(j, k) THEN [job EXCEPT ![j] = "failed"] ELSE job

\* A worker with the role of j's queue fetches j.
Take(j, w) ==
  /\ job[j] = "waiting"
  /\ RoleFor(j) \in RolesOf[w]
  /\ job' = [job EXCEPT ![j] = "active"]
  /\ attempt' = [attempt EXCEPT ![j] = @ + 1]
  /\ pc' = [pc EXCEPT ![j][attempt[j] + 1] = "fresh"]
  /\ by' = [by EXCEPT ![j][attempt[j] + 1] = w]
  /\ UNCHANGED <<write, collected, returns, files, manifest, bounds>>

\* The lock of the active run has expired: the job is given out again, or fails for
\* having stalled too often.
Stall(j) ==
  /\ job' = [job EXCEPT ![j] = IF attempt[j] > MaxStalled THEN "failed" ELSE "waiting"]
  /\ UNCHANGED <<runVars, returns, files, manifest, now, crashes>>

\* It expired because its worker died, or because a live worker did not renew it in
\* time (painting and encoding block the event loop).
DeadWorkerStalls(j) ==
  /\ job[j] = "active"
  /\ pc[j][attempt[j]] = "dead"
  /\ Stall(j)
  /\ UNCHANGED spurious
LiveWorkerStalls(j) ==
  /\ job[j] = "active"
  /\ pc[j][attempt[j]] # "dead"
  /\ spurious < MaxSpurious
  /\ Stall(j)
  /\ spurious' = spurious + 1

\* A worker process dies with all its runs.
Crash(w) ==
  /\ crashes < MaxCrashes
  /\ crashes' = crashes + 1
  /\ pc' = [j \in Job |-> [k \in Runs |-> IF by[j][k] = w THEN "dead" ELSE pc[j][k]]]
  /\ by' = [j \in Job |-> [k \in Runs |-> IF by[j][k] = w THEN NoWorker ELSE by[j][k]]]
  /\ UNCHANGED <<job, attempt, write, collected, returns, files, manifest, now, spurious>>

-----------------------------------------------------------------------------
(***************************************************************************)
(* The producer and the workers.                                           *)
(***************************************************************************)

Init ==
  /\ job = [j \in Job |-> "absent"]
  /\ attempt = [j \in Job |-> 0]
  /\ pc = [j \in Job |-> [k \in Runs |-> "none"]]
  /\ by = [j \in Job |-> [k \in Runs |-> NoWorker]]
  /\ write = [i \in Writers |-> [k \in Runs |-> NoWrite]]
  /\ collected = [k \in Runs |-> NoEntries]
  /\ painted = [p \in Parts |-> "none"]
  /\ gathered = [t \in Tasks |-> [kind |-> "none", result |-> NoResult]]
  /\ answer = NoAnswer
  /\ files = [n \in FileName |-> NoTask]
  /\ manifest = [kind |-> "absent", entries |-> NoEntries]
  /\ now = 0 /\ crashes = 0 /\ spurious = 0

\* Opening a file to write it truncates it: what other runs have written to it so
\* far is gone, and they go on where they were.
Opens(i, k, name) ==
  write' = [u \in Writers |-> [m \in Runs |->
    IF u = i /\ m = k THEN [file |-> name, at |-> "open"]
    ELSE IF write[u][m] = [file |-> name, at |-> "open"] THEN [file |-> name, at |-> "cut"]
    ELSE write[u][m]]]
WritesAll(i, k) == write' = [write EXCEPT ![i][k].at = "whole"]

\* submitProject: flowProducer.add makes the whole tree in one transaction.
SubmitProject ==
  /\ job[Project] = "absent"
  /\ job' = [j \in Job |-> IF Children(j) = {} THEN "waiting" ELSE "waiting-children"]
  /\ UNCHANGED <<runVars, returns, files, manifest, bounds>>

\* RandomArtPaintingWorker.process: an envelope it cannot read makes it throw;
\* whatever painting throws becomes an error reply.
Paint(p, k) ==
  /\ pc[p][k] = "fresh"
  /\ \/ /\ ~IsMessage(p, k, FALSE)
        /\ Throw(p, k)
        /\ UNCHANGED painted
     \/ /\ IsMessage(p, k, FALSE)
        /\ Return(p, k)
        /\ \E r \in {"painted", "error"} :
             painted' = IF Holds(p, k) THEN [painted EXCEPT ![p] = r] ELSE painted
  /\ UNCHANGED <<attempt, write, collected, gathered, answer, files, manifest, bounds>>

GatherNeverSettles(t, k) ==  \* mutant: the promise of process() is lost
  /\ End(t, k)
  /\ UNCHANGED <<job, gathered>>

\* What handleWith makes of a gather handler that threw.
GatherError(t, k) ==
  /\ Return(t, k)
  /\ gathered' = IF Holds(t, k)
                   THEN [gathered EXCEPT ![t] = [kind |-> "error", result |-> NoResult]]
                   ELSE gathered

\* stager.stage up to its first await: the file name is made of the seed and of the
\* time it is now.
NameImage(t, k) ==
  /\ pc' = [pc EXCEPT ![t][k] = "named"]
  /\ \E time \in now .. MaxTime :
       /\ now' = time
       /\ write' = [write EXCEPT ![t][k] = [file |-> <<SeedOf[t], time>>, at |-> "named"]]

\* RandomArtGatheringWorker.process up to the first await of the stager.
\* createErrorResult calls beginHandling on an envelope that is no message, so it
\* throws.
MergeParts(t, k) ==
  /\ pc[t][k] = "fresh"
  /\ \/ /\ ~IsMessage(t, k, FALSE)
        /\ Throw(t, k)
        /\ UNCHANGED <<gathered, write, now>>
     \/ /\ IsMessage(t, k, FALSE)
        /\ GatherError(t, k)  \* a child that is no message, none at all, or updateProgress,
                              \* the pixel check or the encoder throwing
        /\ UNCHANGED <<write, now>>
     \/ /\ IsMessage(t, k, FALSE)
        /\ Children(t) # {}
        /\ \A p \in Children(t) : IsMessage(t, k, painted[p] = "error")
        /\ NameImage(t, k)
        /\ UNCHANGED <<job, by, gathered>>
  /\ UNCHANGED <<attempt, collected, painted, answer, files, manifest, crashes, spurious>>

\* The directory is there and createWriteStream has opened, and so truncated, the
\* file; or one of them fails, which stage catches.
OpenImage(t, k) ==
  /\ pc[t][k] = "named"
  /\ LET name == write[t][k].file
     IN \/ /\ pc' = [pc EXCEPT ![t][k] = "storing"]
           /\ Opens(t, k, name)
           /\ files' = [files EXCEPT ![name] = Partial]
        \/ /\ pc' = [pc EXCEPT ![t][k] = "staged"]
           /\ UNCHANGED <<write, files>>
  /\ UNCHANGED <<job, attempt, by, collected, returns, manifest, bounds>>

\* What a file may hold when run k of task t has written all its bytes: the image,
\* unless those written before it was cut are missing, or a run of another task has
\* the file open too.  All runs of a task write the same bytes.
ImageAfter(t, k) ==
  LET name == write[t][k].file
      alone == \A u \in Tasks \ {t} : \A m \in Runs :
                 write[u][m].file = name => write[u][m].at \notin {"open", "cut"}
  IN IF alone /\ (write[t][k].at = "open" \/ files[name] = t) THEN {t} ELSE {t, Partial}

StoreImageUnchecked(t, k) ==  \* mutant: a failed write is reported as staged
  /\ pc[t][k] = "storing"
  /\ pc' = [pc EXCEPT ![t][k] = "staged"]
  /\ WritesAll(t, k)
  /\ files' \in {files} \cup {[files EXCEPT ![write[t][k].file] = c] : c \in ImageAfter(t, k)}
  /\ UNCHANGED <<job, attempt, by, collected, returns, manifest, bounds>>

\* All bytes are written, or the stream fails half-way, which stage catches too: the
\* file stays as it is.
StoreImage(t, k) ==
  /\ pc[t][k] = "storing"
  /\ pc' = [pc EXCEPT ![t][k] = "staged"]
  /\ \/ /\ WritesAll(t, k)
        /\ \E c \in ImageAfter(t, k) : files' = [files EXCEPT ![write[t][k].file] = c]
     \/ UNCHANGED <<write, files>>
  /\ UNCHANGED <<job, attempt, by, collected, returns, manifest, bounds>>

\* What stage returns to a run.
StageResult(t, k) ==
  IF write[t][k].at = "whole" THEN [outcome |-> "OK", file |-> write[t][k].file] ELSE Failure

\* The last updateProgress may throw although the image is staged.
ReplyGathered(t, k) ==
  /\ pc[t][k] = "staged"
  /\ \/ GatherError(t, k)
     \/ /\ Return(t, k)
        /\ gathered' = IF Holds(t, k)
                         THEN [gathered EXCEPT ![t] = [kind |-> "message", result |-> StageResult(t, k)]]
                         ELSE gathered
  /\ UNCHANGED <<attempt, write, collected, painted, answer, files, manifest, bounds>>

ProjectThrows(k) ==  \* mutant: handleWith without its catch
  /\ Throw(Project, k)
  /\ UNCHANGED answer

\* What handleWith makes of a project handler that threw.
ProjectError(k) ==
  /\ Return(Project, k)
  /\ answer' = IF Holds(Project, k) THEN [NoAnswer EXCEPT !.kind = "error"] ELSE answer

CollectUnchecked(k) ==  \* mutant: no isMessage check on the children
  /\ pc[Project][k] = "fresh"
  /\ Tasks # {}
  /\ collected' = [collected EXCEPT ![k] = [t \in Tasks |-> gathered[t].result]]
  /\ pc' = [pc EXCEPT ![Project][k] = "collected"]
  /\ UNCHANGED <<job, answer, attempt, by, write, painted, gathered, files, manifest, bounds>>

\* RandomArtProjectGatheringWorker.process up to the manifest: a child that is no
\* message is counted as a fatal error and has no entry.
Collect(k) ==
  /\ pc[Project][k] = "fresh"
  /\ \/ /\ ~IsMessage(Project, k, FALSE)
        /\ Throw(Project, k)
        /\ UNCHANGED <<collected, answer>>
     \/ /\ IsMessage(Project, k, FALSE)
        /\ ProjectError(k)  \* no children, or updateProgress throwing
        /\ UNCHANGED collected
     \/ /\ IsMessage(Project, k, FALSE)
        /\ Tasks # {}
        /\ LET messages == {t \in Tasks : IsMessage(Project, k, gathered[t].kind = "error")}
           IN collected' = [collected EXCEPT ![k] = [t \in messages |-> gathered[t].result]]
        /\ pc' = [pc EXCEPT ![Project][k] = "collected"]
        /\ UNCHANGED <<job, by, answer>>
  /\ UNCHANGED <<attempt, write, painted, gathered, files, manifest, bounds>>

\* fileStore.write makes the directory and opens, and so truncates, the manifest; or
\* one of them throws.
OpenManifest(k) ==
  /\ pc[Project][k] = "collected"
  /\ \/ /\ pc' = [pc EXCEPT ![Project][k] = "writing"]
        /\ Opens(Project, k, ManifestName)
        /\ manifest' = [kind |-> "partial", entries |-> NoEntries]
        /\ UNCHANGED <<job, by, answer>>
     \/ /\ ProjectError(k)
        /\ UNCHANGED <<write, manifest>>
  /\ UNCHANGED <<attempt, collected, painted, gathered, files, bounds>>

\* What the manifest may hold when run k has written all its bytes.
ManifestAfter(k) ==
  LET new == [kind |-> "whole", entries |-> collected[k]]
  IN IF write[Project][k].at = "open" \/ manifest = new
       THEN {new} ELSE {new, [kind |-> "partial", entries |-> NoEntries]}

\* The bytes are written, or the write fails on the way.
WriteManifest(k) ==
  /\ pc[Project][k] = "writing"
  /\ \/ /\ pc' = [pc EXCEPT ![Project][k] = "written"]
        /\ WritesAll(Project, k)
        /\ manifest' \in ManifestAfter(k)
        /\ UNCHANGED <<job, by, answer>>
     \/ /\ ProjectError(k)
        /\ UNCHANGED <<write, manifest>>
  /\ UNCHANGED <<attempt, collected, painted, gathered, files, bounds>>

\* counters as updateCounters and the skipped children leave them: every staged
\* result is OK or FATAL_ERROR.
NumCompleted(entries) == Cardinality({t \in DOMAIN entries : entries[t].outcome = "OK"})
NumFatalResults(entries) ==  \* mutant: skipped children are not counted
  Cardinality({t \in DOMAIN entries : entries[t].outcome = "FATAL_ERROR"})
NumFatalErrors(entries) ==
  Cardinality({t \in DOMAIN entries : entries[t].outcome = "FATAL_ERROR"})
    + Cardinality(Tasks \ DOMAIN entries)

ReplyProject(k) ==
  /\ pc[Project][k] = "written"
  /\ \/ ProjectError(k)
     \/ /\ Return(Project, k)
        /\ answer' = IF Holds(Project, k)
                       THEN [kind |-> "message", entries |-> collected[k],
                             numCompleted |-> NumCompleted(collected[k]),
                             numFatalErrors |-> NumFatalErrors(collected[k])]
                       ELSE answer
  /\ UNCHANGED <<attempt, write, collected, painted, gathered, files, manifest, bounds>>

-----------------------------------------------------------------------------

\* A step of run k of job j.
RunStep(j, k) ==
  \/ j \in Parts /\ Paint(j, k)
  \/ /\ j \in Tasks
     /\ MergeParts(j, k) \/ OpenImage(j, k) \/ StoreImage(j, k) \/ ReplyGathered(j, k)
  \/ /\ j = Project
     /\ Collect(k) \/ OpenManifest(k) \/ WriteManifest(k) \/ ReplyProject(k)

Next ==
  \/ SubmitProject
  \/ \E j \in Job : \/ \E w \in Workers : Take(j, w)
                    \/ \E k \in Runs : RunStep(j, k)
                    \/ DeadWorkerStalls(j)
                    \/ LiveWorkerStalls(j)
  \/ \E w \in Workers : Crash(w)

\* Workers keep fetching, a run on a live worker goes on, and BullMQ notices the
\* lock of a dead one; nothing makes a worker die or lose a lock.
Fairness ==
  \A j \in Job :
    /\ WF_vars(\E w \in Workers : Take(j, w))
    /\ \A k \in Runs : WF_vars(RunStep(j, k))
    /\ WF_vars(DeadWorkerStalls(j))

Spec == Init /\ [][Next]_vars /\ Fairness

-----------------------------------------------------------------------------
(***************************************************************************)
(* Properties.                                                             *)
(***************************************************************************)

\* The types of the variables.
TypeOK ==
  /\ job \in [Job -> JobStates]
  /\ attempt \in [Job -> 0 .. (MaxStalled + 1)]
  /\ pc \in [Job -> [Runs -> RunStates]]
  /\ by \in [Job -> [Runs -> Workers \cup {NoWorker}]]
  /\ write \in [Writers -> [Runs -> [file : FileName \cup {ManifestName, NoFile}, at : Extents]]]
  /\ collected \in [Runs -> Entries]
  /\ painted \in [Parts -> {"none", "painted", "error"}]
  /\ gathered \in [Tasks -> [kind : Kinds, result : TaskResult \cup {NoResult}]]
  /\ answer \in [kind : Kinds, entries : Entries, numCompleted : Nat, numFatalErrors : Nat]
  /\ files \in [FileName -> Tasks \cup {NoTask, Partial}]
  /\ manifest \in [kind : {"absent", "partial", "whole"}, entries : Entries]
  /\ now \in 0 .. MaxTime /\ crashes \in 0 .. MaxCrashes /\ spurious \in 0 .. MaxSpurious

\* A whole manifest is true of the project although any number of runs of the
\* project job may be writing it: all tasks had ended, and its entries are what
\* the gather jobs returned, for all of them that returned a message.  And when the
\* project is answered it is whole, unless the run that opened it last is still
\* writing it or broke off: neither a run that was cut by a later one nor one that
\* died before the last leaves a part of it behind.
ManifestFaithful ==
  /\ manifest.kind = "whole" =>
       /\ \A t \in Tasks : job[t] = "completed"
       /\ DOMAIN manifest.entries = {t \in Tasks : gathered[t].kind = "message"}
       /\ \A t \in DOMAIN manifest.entries : manifest.entries[t] = gathered[t].result
  /\ answer.kind = "message" =>
       manifest.kind = "whole" \/ \E k \in Runs : write[Project][k].at = "open"

\* A run of another task has opened the file, or the run of t that opened it last is
\* still writing it or broke off.
Disturbed(t, name) ==
  \/ \E u \in Tasks \ {t} : \E m \in Runs :
       write[u][m].file = name /\ write[u][m].at \in Opened
  \/ \E m \in Runs : write[t][m] = [file |-> name, at |-> "open"]

\* Each file a manifest or an answer refers to holds the whole image of that task,
\* although any number of runs of the gather job may have opened and so truncated it,
\* been cut by one another, failed half-way or died: what leaves a part of it behind is
\* the last of them not finishing, and nothing else but another task under its name.
StagedFilesHold ==
  \A e \in {manifest.entries, answer.entries} :
    \A t \in DOMAIN e :
      e[t].outcome = "OK" => files[e[t].file] = t \/ Disturbed(t, e[t].file)

\* The counters of an answer account for every task of the project, the skipped
\* children included: what CountersAlwaysAddUp proves, and ContractSpec implies.
CountersAddUp ==
  answer.kind = "message" =>
    answer.numCompleted + answer.numFatalErrors = Cardinality(Tasks)

\* What the submitter was promised.
Contract == INSTANCE ProjectContract WITH
  status <- IF job[Project] = "absent" THEN "idle"
            ELSE IF job[Project] = "completed" THEN "answered"
            ELSE IF \E j \in Job : job[j] = "failed" THEN "lost" ELSE "running",
  outcome <- [t \in Tasks |-> IF gathered[t].kind = "none" THEN "pending"
                              ELSE IF gathered[t].result.outcome = "OK" THEN "staged"
                              ELSE "failed"],
  report <- [kind |-> answer.kind, numCompleted |-> answer.numCompleted,
             numFatalErrors |-> answer.numFatalErrors]
ContractSpec == Contract!Spec

\* A submitted project is answered or one of its jobs failed: nothing else, no
\* error in any handler and no death of a worker, leaves it waiting for ever.
AnsweredOrFailed ==
  job[Project] # "absent" ~> (job[Project] = "completed" \/ \E j \in Job : job[j] = "failed")

\* Where a run of j can be between its steps.
StepsOf(j) ==
  IF j = Project THEN {"fresh", "collected", "writing", "written"}
  ELSE IF j \in Tasks THEN {"fresh", "named", "storing", "staged"} ELSE {"fresh"}

\* A project is never at a standstill, with every job waiting for another: while it
\* is not answered and no job of it failed, a job of it waits for a worker, or is
\* active in a run that is at a step of its worker or whose worker died.
NeverAtAStandstill ==
  job[Project] \notin {"absent", "completed"} /\ (\A j \in Job : job[j] # "failed") =>
    \E j \in Job : \/ job[j] = "waiting"
                   \/ job[j] = "active" /\ pc[j][attempt[j]] \in StepsOf(j) \cup {"dead"}

\* How far a job has come, and a run of it: a job given out again is further.
JobRank(j) ==
  CASE job[j] = "absent" -> 0
    [] job[j] = "waiting-children" -> 1
    [] job[j] = "waiting" -> 2 * attempt[j] + 2
    [] job[j] = "active" -> 2 * attempt[j] + 1
    [] job[j] \in {"completed", "failed"} -> 2 * MaxStalled + 4
RunRank ==
  [none |-> 0, fresh |-> 1, named |-> 2, storing |-> 3, staged |-> 4, collected |-> 2,
   writing |-> 3, written |-> 4, done |-> 5, dead |-> 5]

\* Every step takes a job or a run of one further, or is a crash, and none is ever
\* taken back: what a run that lost its job still does, and how it ends, changes
\* nothing of how the job ended.  With NeverAtAStandstill this is why a project is
\* answered or one of its jobs fails.
FlowGoesForward ==
  [][/\ \A j \in Job : /\ JobRank(j) <= JobRank(j)'
                       /\ job[j] \in {"completed", "failed"} => job'[j] = job[j]
     /\ \A j \in Job, k \in Runs :
          pc'[j][k] = pc[j][k] \/ RunRank[pc[j][k]] < RunRank[pc'[j][k]]
     /\ \/ crashes < crashes'
        \/ \E j \in Job : JobRank(j) < JobRank(j)'
        \/ \E j \in Job, k \in Runs : pc'[j][k] # pc[j][k]]_vars

\* Nothing a handler throws, no death of a worker and no lost lock makes a job fail,
\* as long as all workers read the submitter's release and the job stalls no more
\* than MaxStalled times: with AnsweredOrFailed, such a project is answered.
FailsOnlyForCause ==
  \A j \in Job :
    job[j] = "failed" =>
      attempt[j] > MaxStalled \/ \E w \in Workers : ~CanHandle(ReleaseOf[w], OriginRelease)

-----------------------------------------------------------------------------
(***************************************************************************)
(* What the repository says, and the code does not do.                     *)
(***************************************************************************)

\* RandomArtGatheringWorker.ts:195 "For error cases, we still need to create a
\* reply": a gather job whose request is no message is answered, not failed.
ErrorCasesReply == \A t \in Tasks : job[t] # "failed"

\* ProjectManifest.ts:71 "File location where the image was staged": the file an
\* entry names holds the image of its task.
EntryNamesItsImage ==
  \A t \in DOMAIN manifest.entries :
    manifest.entries[t].outcome = "OK" => files[manifest.entries[t].file] = t

=============================================================================
