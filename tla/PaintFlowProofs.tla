--------------------------- MODULE PaintFlowProofs --------------------------
(***************************************************************************)
(* Proofs about PaintFlow: its invariants, and that it implements          *)
(* ProjectContract, for any number of tasks, parts, workers and runs.      *)
(***************************************************************************)
EXTENDS PaintFlow, FiniteSetTheorems, SequenceTheorems, TLAPS

Live == {"fresh", "named", "storing", "staged", "collected", "writing", "written"}
Naming == {"named", "storing", "staged"}
Begun == {"waiting", "active", "completed", "failed"}

\* A run that goes on is one of a job's attempts, on a worker; a job is given
\* out again only while it has runs left.
RunsInv ==
  /\ \A j \in Job : \A k \in Runs : pc[j][k] \in Live => by[j][k] \in Workers /\ k <= attempt[j]
  /\ \A j \in Job : job[j] \notin Begun => attempt[j] = 0
  /\ \A j \in Job : job[j] = "waiting" => attempt[j] <= MaxStalled

\* The tree is added at once, and a parent begins after its children.
TreeInv ==
  /\ job[Project] = "absent" => \A j \in Job : job[j] = "absent"
  /\ \A j \in Job : job[j] \in Begun => \A c \in Children(j) : job[c] = "completed"

\* What a gather job returned is there if and only if the job is completed, and
\* is in a message what the stager returned to some run.
GatherInv ==
  \A t \in Tasks :
    /\ \A k \in Runs : pc[t][k] \in Naming => write[t][k].file \in FileName
    /\ job[t] # "completed" => gathered[t].kind = "none"
    /\ job[t] = "completed" => gathered[t].kind \in {"message", "error"}
    /\ gathered[t].kind = "message" => gathered[t].result \in TaskResult
    /\ gathered[t].kind # "message" => gathered[t].result = NoResult

\* What the project worker collects: the messages of the gather jobs.
Answers == [t \in {u \in Tasks : gathered[u].kind = "message"} |-> gathered[t].result]

ProjectInv ==
  /\ \A k \in Runs :
       pc[Project][k] \in {"collected", "writing", "written"} => collected[k] = Answers
  /\ manifest.kind = "whole" =>
       job[Project] \in Begun /\ manifest.entries = Answers
  /\ manifest.kind # "whole" => manifest.entries = NoEntries
  /\ job[Project] # "completed" => answer = NoAnswer
  /\ answer.kind = "message" => answer.entries = Answers
  /\ answer.kind # "message" => answer.entries = NoEntries

FlowInv ==
  TypeOK /\ RunsInv /\ TreeInv /\ GatherInv /\ ProjectInv /\ FailsOnlyForCause /\ CountersAddUp

-----------------------------------------------------------------------------
(* Jobs, runs and entries.                                                 *)

\* The tree of jobs.
LEMMA TreeOfJobs ==
  /\ Project \in Job /\ Tasks \subseteq Job /\ Parts \subseteq Job
  /\ Project \notin Tasks /\ Project \notin Parts
  /\ Children(Project) = Tasks
  /\ \A t \in Tasks : t \notin Parts /\ Children(t) = {p \in Parts : TaskOf[p] = t}
  /\ \A p \in Parts : Children(p) = {} /\ TaskOf[p] \in Tasks /\ p \in Children(TaskOf[p])
  /\ \A j \in Job : Children(j) \subseteq Job /\ j \notin Children(j)
  BY JobsAssumption DEF Children, Job

\* The empty tuple is the function with no entries.
LEMMA NoEntriesIsEmpty == NoEntries \in Entries /\ DOMAIN NoEntries = {}
<1>1. << >> \in Seq(TaskResult) /\ Len(<< >>) = 0
  OBVIOUS
<1>2. << >> \in [1 .. 0 -> TaskResult]
  BY <1>1, LenProperties
<1>3. 1 .. 0 = {}
  OBVIOUS
<1> QED
  BY <1>2, <1>3 DEF NoEntries, Entries

\* A worker's run of a job reads the job's request if its release can, and never
\* takes an error for a message.
LEMMA WhatIsMessage ==
  ASSUME NEW j \in Job, NEW k \in Runs, NEW isError \in BOOLEAN
  PROVE  IsMessage(j, k, isError) <=>
           CanHandle(ReleaseOf[by[j][k]], OriginRelease) /\ ~isError
<1>1. CanHandle(ReleaseOf[by[j][k]], OriginRelease) \in BOOLEAN
  BY DEF CanHandle
<1> DEFINE can == CanHandle(ReleaseOf[by[j][k]], OriginRelease)
<1> HIDE DEF can
<1>2. IsMessage(j, k, isError) <=>
        AcceptedState(ReleaseOf[by[j][k]],
                      [version |-> OriginRelease, isError |-> isError], TRUE) = "DECODED_MESSAGE"
  BY DEF IsMessage
<1>3. CASE ~can
  BY <1>2, <1>3 DEF AcceptedState, can
<1>4. CASE can /\ isError
  BY <1>2, <1>4 DEF AcceptedState, can
<1>5. CASE can /\ ~isError
  BY <1>2, <1>5 DEF AcceptedState, can
<1> QED
  BY <1>3, <1>4, <1>5 DEF can

\* While a run of a job goes on, the job's children have completed.
LEMMA LiveMeansBegun ==
  ASSUME FlowInv, NEW j \in Job, NEW k \in Runs, pc[j][k] \in Live
  PROVE  /\ by[j][k] \in Workers
         /\ job[j] \in Begun
         /\ \A c \in Children(j) : job[c] = "completed"
<1>1. by[j][k] \in Workers /\ k <= attempt[j]
  BY DEF FlowInv, RunsInv
<1>2. k \in Nat /\ k > 0
  BY BoundsAssumption DEF Runs
<1>3. attempt[j] \in Nat
  BY BoundsAssumption DEF FlowInv, TypeOK
<1>4. job[j] \in Begun
  BY <1>1, <1>2, <1>3 DEF FlowInv, RunsInv
<1> QED
  BY <1>1, <1>4 DEF FlowInv, TreeInv

-----------------------------------------------------------------------------
(* How a run or a lock ends.                                               *)

\* Completing a job keeps the tree in order, and completes no other job.
LEMMA CompletedKeeps ==
  ASSUME FlowInv, NEW j \in Job, job[j] = "active", job' = Completed(j), UNCHANGED attempt
  PROVE  /\ job' \in [Job -> JobStates] /\ job'[j] = "completed"
         /\ TreeInv'
         /\ \A i \in Job \ {j} : \/ job'[i] = job[i]
                                 \/ (job[i] = "waiting-children" /\ job'[i] = "waiting")
<1> USE DEF FlowInv, TypeOK
<1>1. /\ DOMAIN job' = Job /\ job'[j] = "completed"
      /\ \A i \in Job \ {j} :
           \/ job'[i] = job[i]
           \/ /\ job[i] = "waiting-children" /\ job'[i] = "waiting" /\ j \in Children(i)
              /\ \A c \in Children(i) \ {j} : job[c] = "completed"
  BY DEF Completed
<1>2. job' \in [Job -> JobStates]
  BY DEF Completed, JobStates
<1>3. job'[Project] # "absent"
  BY <1>1, TreeOfJobs DEF TreeInv
<1>4. ASSUME NEW i \in Job, job'[i] \in Begun, NEW c \in Children(i)
      PROVE  job'[c] = "completed"
  <2>1. c \in Job
    BY TreeOfJobs
  <2>2. c = j \/ job[c] = "completed"
    BY <1>1, <1>4, <2>1 DEF TreeInv, Begun
  <2> QED
    BY <1>1, <2>1, <2>2
<1> QED
  BY <1>1, <1>2, <1>3, <1>4 DEF TreeInv

\* A job that begins again or fails keeps the tree in order.
LEMMA MovedKeeps ==
  ASSUME FlowInv, NEW j \in Job, job[j] \in {"waiting", "active"},
         NEW s \in {"waiting", "active", "failed"}, job' = [job EXCEPT ![j] = s]
  PROVE  /\ job' \in [Job -> JobStates] /\ job'[j] = s
         /\ TreeInv'
         /\ \A i \in Job \ {j} : job'[i] = job[i]
<1> USE DEF FlowInv, TypeOK
<1>1. job'[j] = s /\ \A i \in Job \ {j} : job'[i] = job[i]
  OBVIOUS
<1>2. job' \in [Job -> JobStates]
  BY DEF JobStates
<1>3. job'[Project] # "absent"
  BY <1>1, TreeOfJobs DEF TreeInv
<1>4. ASSUME NEW i \in Job, job'[i] \in Begun, NEW c \in Children(i)
      PROVE  job'[c] = "completed"
  <2>1. c \in Job
    BY TreeOfJobs
  <2>2. job[c] = "completed"
    BY <1>1, <1>4 DEF TreeInv, Begun
  <2> QED
    BY <1>1, <2>1, <2>2
<1> QED
  BY <1>1, <1>2, <1>3, <1>4 DEF TreeInv

\* What a step may do to the jobs outside of S, and to the runs: none ends but those
\* of S complete, and no run goes further.
OnlyCompletes(S) ==
  /\ \A i \in Job : job[i] \in Begun => job'[i] \in Begun
  /\ \A i \in Job : job[i] = "completed" => job'[i] = "completed"
  /\ \A i \in Job \ S : job'[i] = "completed" => job[i] = "completed"
RunsGoNoFurther ==
  \A i \in Job : \A m \in Runs : pc'[i][m] \in Live => pc'[i][m] = pc[i][m]

\* What returning, throwing and stalling keep.
JobsKept ==
  /\ job' \in [Job -> JobStates]
  /\ pc' \in [Job -> [Runs -> RunStates]]
  /\ by' \in [Job -> [Runs -> Workers \cup {NoWorker}]]
  /\ RunsInv' /\ TreeInv' /\ FailsOnlyForCause'
  /\ RunsGoNoFurther

\* The run that ends is the only one that changes.
LEMMA EndKeeps ==
  ASSUME FlowInv, NEW j \in Job, NEW k \in Runs, End(j, k)
  PROVE  /\ pc' \in [Job -> [Runs -> RunStates]]
         /\ by' \in [Job -> [Runs -> Workers \cup {NoWorker}]]
         /\ RunsGoNoFurther
         /\ \A i \in Job : \A m \in Runs : pc'[i][m] \in Live => by'[i][m] = by[i][m]
<1> USE DEF FlowInv, TypeOK
<1>1. /\ pc' \in [Job -> [Runs -> RunStates]]
      /\ \A i \in Job : \A m \in Runs :
           pc'[i][m] = IF i = j /\ m = k THEN "done" ELSE pc[i][m]
  BY DEF End, RunStates
<1>2. /\ by' \in [Job -> [Runs -> Workers \cup {NoWorker}]]
      /\ \A i \in Job : \A m \in Runs :
           by'[i][m] = IF i = j /\ m = k THEN NoWorker ELSE by[i][m]
  BY DEF End
<1>3. "done" \notin Live
  BY DEF Live
<1> QED
  BY <1>1, <1>2, <1>3 DEF RunsGoNoFurther

\* A run returns: its job completes when the run holds the lock.
LEMMA ReturnKeeps ==
  ASSUME FlowInv, NEW j \in Job, NEW k \in Runs, Return(j, k), UNCHANGED attempt
  PROVE  /\ JobsKept
         /\ Holds(j, k) => job[j] = "active" /\ job'[j] = "completed" /\ OnlyCompletes({j})
         /\ ~Holds(j, k) => job' = job
<1> USE DEF Return
<1>1. /\ pc' \in [Job -> [Runs -> RunStates]]
      /\ by' \in [Job -> [Runs -> Workers \cup {NoWorker}]]
      /\ RunsGoNoFurther
      /\ \A i \in Job : \A m \in Runs : pc'[i][m] \in Live => by'[i][m] = by[i][m]
  BY EndKeeps
<1>2. \A i \in Job : \A m \in Runs :
        pc'[i][m] \in Live => by'[i][m] \in Workers /\ m <= attempt'[i]
  BY <1>1 DEF RunsGoNoFurther, FlowInv, RunsInv
<1>3. CASE ~Holds(j, k)
  <2>1. job' = job
    BY <1>3
  <2>2. RunsInv'
    BY <2>1, <1>2 DEF FlowInv, RunsInv
  <2>3. TreeInv' /\ FailsOnlyForCause'
    BY <2>1 DEF FlowInv, TreeInv, FailsOnlyForCause
  <2> QED
    BY <1>1, <1>3, <2>1, <2>2, <2>3 DEF JobsKept, FlowInv, TypeOK
<1>4. CASE Holds(j, k)
  <2>1. job[j] = "active" /\ job' = Completed(j)
    BY <1>4 DEF Holds
  <2>2. /\ job' \in [Job -> JobStates] /\ job'[j] = "completed" /\ TreeInv'
        /\ \A i \in Job \ {j} : \/ job'[i] = job[i]
                                \/ (job[i] = "waiting-children" /\ job'[i] = "waiting")
    BY <2>1, CompletedKeeps
  <2>3. RunsInv'
    <3>1. \A i \in Job : job'[i] \notin Begun => attempt[i] = 0
      BY <2>1, <2>2 DEF FlowInv, RunsInv, Begun
    <3>2. \A i \in Job : job'[i] = "waiting" => attempt[i] <= MaxStalled
      BY <2>1, <2>2, BoundsAssumption DEF FlowInv, RunsInv, Begun
    <3> QED
      BY <1>2, <3>1, <3>2 DEF RunsInv
  <2>4. FailsOnlyForCause'
    BY <2>2 DEF FlowInv, FailsOnlyForCause
  <2>5. OnlyCompletes({j})
    BY <2>1, <2>2 DEF OnlyCompletes, Begun
  <2> QED
    BY <1>1, <1>4, <2>1, <2>2, <2>3, <2>4, <2>5 DEF JobsKept
<1> QED
  BY <1>3, <1>4

\* The active job of a run that throws, or whose lock is lost, fails with a cause
\* or waits with a run left.
LEMMA GivenUpKeeps ==
  ASSUME FlowInv, NEW j \in Job, job[j] = "active",
         NEW s \in {"waiting", "failed"}, job' = [job EXCEPT ![j] = s], UNCHANGED attempt,
         s = "waiting" => attempt[j] <= MaxStalled,
         s = "failed" => \/ attempt[j] > MaxStalled
                         \/ \E w \in Workers : ~CanHandle(ReleaseOf[w], OriginRelease),
         pc' \in [Job -> [Runs -> RunStates]],
         by' \in [Job -> [Runs -> Workers \cup {NoWorker}]],
         RunsGoNoFurther,
         \A i \in Job : \A m \in Runs : pc'[i][m] \in Live => by'[i][m] = by[i][m]
  PROVE  JobsKept /\ OnlyCompletes({}) /\ job'[j] = s /\ \A i \in Job \ {j} : job'[i] = job[i]
<1>1. /\ job' \in [Job -> JobStates] /\ job'[j] = s /\ TreeInv'
      /\ \A i \in Job \ {j} : job'[i] = job[i]
  BY MovedKeeps
<1>2. RunsInv'
  <2>1. \A i \in Job : \A m \in Runs :
          pc'[i][m] \in Live => by'[i][m] \in Workers /\ m <= attempt'[i]
    BY DEF RunsGoNoFurther, FlowInv, RunsInv
  <2>2. \A i \in Job : job'[i] \notin Begun => attempt[i] = 0
    BY <1>1 DEF FlowInv, RunsInv, Begun
  <2>3. \A i \in Job : job'[i] = "waiting" => attempt[i] <= MaxStalled
    BY <1>1 DEF FlowInv, RunsInv
  <2> QED
    BY <2>1, <2>2, <2>3 DEF RunsInv
<1>3. FailsOnlyForCause'
  BY <1>1 DEF FlowInv, FailsOnlyForCause
<1>4. OnlyCompletes({})
  BY <1>1 DEF OnlyCompletes, Begun
<1> QED
  BY <1>1, <1>2, <1>3, <1>4 DEF JobsKept

\* A run throws only when its worker cannot read the request.
LEMMA ThrowKeeps ==
  ASSUME FlowInv, NEW j \in Job, NEW k \in Runs, pc[j][k] = "fresh", ~IsMessage(j, k, FALSE),
         Throw(j, k), UNCHANGED attempt
  PROVE  /\ JobsKept /\ OnlyCompletes({})
         /\ \A i \in Job \ {j} : job'[i] = job[i]
         /\ job' = job \/ (job[j] = "active" /\ job'[j] = "failed")
<1> USE DEF Throw
<1>1. /\ pc' \in [Job -> [Runs -> RunStates]]
      /\ by' \in [Job -> [Runs -> Workers \cup {NoWorker}]]
      /\ RunsGoNoFurther
      /\ \A i \in Job : \A m \in Runs : pc'[i][m] \in Live => by'[i][m] = by[i][m]
  BY EndKeeps
<1>2. CASE ~Holds(j, k)
  <2>1. job' = job
    BY <1>2
  <2>2. RunsInv'
    BY <2>1, <1>1 DEF FlowInv, RunsInv, RunsGoNoFurther
  <2>3. TreeInv' /\ FailsOnlyForCause'
    BY <2>1 DEF FlowInv, TreeInv, FailsOnlyForCause
  <2> QED
    BY <1>1, <2>1, <2>2, <2>3 DEF JobsKept, OnlyCompletes, FlowInv, TypeOK
<1>3. CASE Holds(j, k)
  <2>1. job[j] = "active" /\ job' = [job EXCEPT ![j] = "failed"]
    BY <1>3 DEF Holds
  <2>2. by[j][k] \in Workers
    BY LiveMeansBegun DEF Live
  <2>3. ~CanHandle(ReleaseOf[by[j][k]], OriginRelease)
    BY WhatIsMessage
  <2>4. \E w \in Workers : ~CanHandle(ReleaseOf[w], OriginRelease)
    BY <2>2, <2>3
  <2> QED
    BY <1>1, <2>1, <2>4, GivenUpKeeps
<1> QED
  BY <1>2, <1>3

-----------------------------------------------------------------------------
(* What steps of other jobs leave alone.                                   *)

\* What the gather jobs returned stays in order.
LEMMA GatherStays ==
  ASSUME FlowInv, UNCHANGED <<write, gathered>>, RunsGoNoFurther,
         NEW S, S \cap Tasks = {}, OnlyCompletes(S)
  PROVE  GatherInv'
<1> SUFFICES ASSUME NEW t \in Tasks
             PROVE  /\ \A k \in Runs : pc'[t][k] \in Naming => write'[t][k].file \in FileName
                    /\ job'[t] # "completed" => gathered'[t].kind = "none"
                    /\ job'[t] = "completed" => gathered'[t].kind \in {"message", "error"}
                    /\ gathered'[t].kind = "message" => gathered'[t].result \in TaskResult
                    /\ gathered'[t].kind # "message" => gathered'[t].result = NoResult
  BY DEF GatherInv
<1>1. job'[t] = "completed" <=> job[t] = "completed"
  BY TreeOfJobs DEF OnlyCompletes
<1>2. \A k \in Runs : pc'[t][k] \in Naming => pc[t][k] \in Naming
  BY TreeOfJobs DEF RunsGoNoFurther, Live, Naming
<1> QED
  BY <1>1, <1>2 DEF FlowInv, GatherInv

\* What the project job made of them stays in order.
LEMMA ProjectStays ==
  ASSUME FlowInv, UNCHANGED <<gathered, collected, manifest, answer>>, RunsGoNoFurther,
         NEW S, Project \notin S, OnlyCompletes(S)
  PROVE  ProjectInv' /\ CountersAddUp'
<1>1. Answers' = Answers
  BY DEF Answers
<1>2. /\ job[Project] \in Begun => job'[Project] \in Begun
      /\ job'[Project] # "completed" => job[Project] # "completed"
  BY TreeOfJobs DEF OnlyCompletes
<1>3. \A k \in Runs : pc'[Project][k] \in {"collected", "writing", "written"} =>
        pc[Project][k] \in {"collected", "writing", "written"}
  BY TreeOfJobs DEF RunsGoNoFurther, Live
<1>4. ProjectInv'
  BY <1>1, <1>2, <1>3 DEF FlowInv, ProjectInv
<1> QED
  BY <1>4 DEF FlowInv, CountersAddUp

\* Before the project job begins there is nothing to keep in order.
LEMMA ProjectHasNotBegun ==
  ASSUME FlowInv, job[Project] \notin Begun, RunsGoNoFurther,
         UNCHANGED <<collected, manifest, answer>>
  PROVE  ProjectInv' /\ CountersAddUp'
<1>1. \A k \in Runs : pc'[Project][k] \notin Live
  BY LiveMeansBegun, TreeOfJobs DEF RunsGoNoFurther
<1>2. manifest.kind # "whole" /\ answer = NoAnswer
  BY DEF FlowInv, ProjectInv, Begun
<1>3. answer.kind # "message" /\ answer.entries = NoEntries
  BY <1>2 DEF NoAnswer
<1>4. ProjectInv'
  BY <1>1, <1>2, <1>3 DEF FlowInv, ProjectInv, Live
<1> QED
  BY <1>3, <1>4 DEF CountersAddUp

\* Once the project job has begun, no gather job can return any more.
LEMMA AnswersAreFinal ==
  ASSUME FlowInv, job[Project] \in Begun
  PROVE  \A t \in Tasks : job[t] = "completed" /\ gathered[t].kind \in {"message", "error"}
  BY TreeOfJobs DEF FlowInv, TreeInv, GatherInv

-----------------------------------------------------------------------------
(* The steps of BullMQ and of the paint jobs.                              *)

\* Nothing is there at first.
LEMMA FlowInit == Init => FlowInv
<1> SUFFICES ASSUME Init PROVE FlowInv
  OBVIOUS
<1> USE DEF Init
<1>1. TypeOK
  <2>1. NoAnswer \in [kind : Kinds, entries : Entries, numCompleted : Nat, numFatalErrors : Nat]
    BY NoEntriesIsEmpty DEF NoAnswer, Kinds
  <2>2. manifest \in [kind : {"absent", "partial", "whole"}, entries : Entries]
    BY NoEntriesIsEmpty
  <2>3. gathered \in [Tasks -> [kind : Kinds, result : TaskResult \cup {NoResult}]]
    BY DEF Kinds
  <2>4. write \in [Writers -> [Runs -> [file : FileName \cup {ManifestName, NoFile}, at : Extents]]]
    BY DEF NoWrite, Extents
  <2> QED
    BY <2>1, <2>2, <2>3, <2>4, NoEntriesIsEmpty, BoundsAssumption DEF TypeOK, JobStates, RunStates
<1>2. RunsInv /\ TreeInv
  BY DEF RunsInv, TreeInv, Live, Begun
<1>3. GatherInv
  <2>1. \A t \in Tasks : gathered[t].kind = "none" /\ gathered[t].result = NoResult
    OBVIOUS
  <2>2. \A t \in Tasks : job[t] = "absent" /\ \A k \in Runs : pc[t][k] = "none"
    BY TreeOfJobs
  <2> QED
    BY <2>1, <2>2 DEF GatherInv, Naming
<1>4. ProjectInv
  BY TreeOfJobs DEF ProjectInv, NoAnswer
<1>5. FailsOnlyForCause /\ CountersAddUp
  BY DEF FailsOnlyForCause, CountersAddUp, NoAnswer
<1> QED
  BY <1>1, <1>2, <1>3, <1>4, <1>5 DEF FlowInv

\* All jobs are added, and none has begun that has children.
LEMMA SubmitKeeps == FlowInv /\ SubmitProject => FlowInv'
<1> SUFFICES ASSUME FlowInv, SubmitProject PROVE FlowInv'
  OBVIOUS
<1> USE DEF SubmitProject, runVars, returns, bounds
<1>1. \A j \in Job : job[j] = "absent" /\ attempt[j] = 0
  BY DEF FlowInv, TreeInv, RunsInv, Begun
<1>2. \A j \in Job : /\ job'[j] \in {"waiting", "waiting-children"}
                     /\ job'[j] = "waiting" => Children(j) = {}
  OBVIOUS
<1>3. TypeOK'
  BY DEF FlowInv, TypeOK, JobStates
<1>4. RunsInv'
  BY <1>1, <1>2, BoundsAssumption DEF FlowInv, RunsInv, Begun
<1>5. TreeInv'
  BY <1>2, TreeOfJobs DEF TreeInv, Begun
<1>6. RunsGoNoFurther /\ OnlyCompletes({})
  BY <1>1, <1>2 DEF RunsGoNoFurther, OnlyCompletes, Begun
<1>7. GatherInv' /\ ProjectInv' /\ CountersAddUp'
  BY <1>6, GatherStays, ProjectStays
<1>8. FailsOnlyForCause'
  BY <1>2 DEF FailsOnlyForCause
<1> QED
  BY <1>3, <1>4, <1>5, <1>7, <1>8 DEF FlowInv

\* A worker is given a job that has a run left.
LEMMA TakeKeeps ==
  ASSUME FlowInv, NEW j \in Job, NEW w \in Workers, Take(j, w)
  PROVE  FlowInv'
<1> DEFINE k == attempt[j] + 1
<1>1. k \in Runs /\ attempt[j] \in Nat
  BY BoundsAssumption DEF FlowInv, TypeOK, RunsInv, Runs, Take
<1>2. pc' = [pc EXCEPT ![j][k] = "fresh"] /\ by' = [by EXCEPT ![j][k] = w]
  BY DEF Take
<1>3. attempt' = [attempt EXCEPT ![j] = k]
  BY DEF Take
<1> UNCHANGED <<write, collected, returns, files, manifest, bounds>>
  BY DEF Take
<1>0. job[j] = "waiting" /\ job' = [job EXCEPT ![j] = "active"]
  BY DEF Take
<1> HIDE DEF k
<1>4. /\ job' \in [Job -> JobStates] /\ job'[j] = "active"
      /\ TreeInv'
      /\ \A i \in Job \ {j} : job'[i] = job[i]
  BY <1>0, MovedKeeps
<1>5. /\ pc' \in [Job -> [Runs -> RunStates]]
      /\ \A i \in Job : \A m \in Runs :
           pc'[i][m] = IF i = j /\ m = k THEN "fresh" ELSE pc[i][m]
  BY <1>1, <1>2 DEF FlowInv, TypeOK, RunStates
<1>6. /\ by' \in [Job -> [Runs -> Workers \cup {NoWorker}]]
      /\ \A i \in Job : \A m \in Runs :
           by'[i][m] = IF i = j /\ m = k THEN w ELSE by[i][m]
  BY <1>1, <1>2 DEF FlowInv, TypeOK
<1>7. /\ attempt' \in [Job -> 0 .. (MaxStalled + 1)]
      /\ \A i \in Job : attempt'[i] = IF i = j THEN k ELSE attempt[i]
  BY <1>1, <1>3, BoundsAssumption DEF FlowInv, TypeOK, Runs
<1>8. TypeOK'
  BY <1>4, <1>5, <1>6, <1>7 DEF FlowInv, TypeOK, returns, bounds
<1>9. RunsInv'
  <2>1. ASSUME NEW i \in Job, NEW m \in Runs, pc'[i][m] \in Live
        PROVE  by'[i][m] \in Workers /\ m <= attempt'[i]
    <3>1. m \in Nat /\ attempt[i] \in Nat /\ k = attempt[j] + 1
      BY BoundsAssumption DEF FlowInv, TypeOK, Runs, k
    <3>2. CASE i = j /\ m = k
      BY <1>6, <1>7, <3>1, <3>2
    <3>3. CASE ~(i = j /\ m = k)
      <4>1. by[i][m] \in Workers /\ m <= attempt[i]
        BY <1>5, <2>1, <3>3 DEF FlowInv, RunsInv
      <4> QED
        BY <1>6, <1>7, <3>1, <3>3, <4>1
    <3> QED
      BY <3>2, <3>3
  <2>2. \A i \in Job : job'[i] \notin Begun => attempt'[i] = 0
    BY <1>4, <1>7, <1>0 DEF FlowInv, RunsInv, Begun
  <2>3. \A i \in Job : job'[i] = "waiting" => attempt'[i] <= MaxStalled
    BY <1>4, <1>7 DEF FlowInv, RunsInv
  <2> QED
    BY <2>1, <2>2, <2>3 DEF RunsInv
<1>10. OnlyCompletes({})
  BY <1>4, <1>0 DEF OnlyCompletes, Begun
<1>11. GatherInv'
  <2> SUFFICES ASSUME NEW t \in Tasks
               PROVE  /\ \A m \in Runs : pc'[t][m] \in Naming => write'[t][m].file \in FileName
                      /\ job'[t] # "completed" => gathered'[t].kind = "none"
                      /\ job'[t] = "completed" => gathered'[t].kind \in {"message", "error"}
                      /\ gathered'[t].kind = "message" => gathered'[t].result \in TaskResult
                      /\ gathered'[t].kind # "message" => gathered'[t].result = NoResult
    BY DEF GatherInv
  <2>1. job'[t] = "completed" <=> job[t] = "completed"
    BY <1>10, TreeOfJobs DEF OnlyCompletes
  <2>2. \A m \in Runs : pc'[t][m] \in Naming => pc[t][m] \in Naming
    BY <1>5, TreeOfJobs DEF Naming
  <2> QED
    BY <2>1, <2>2 DEF FlowInv, GatherInv, returns
<1>12. ProjectInv'
  <2>1. Answers' = Answers
    BY DEF Answers, returns
  <2>2. /\ job[Project] \in Begun => job'[Project] \in Begun
        /\ job'[Project] # "completed" => job[Project] # "completed"
    BY <1>10, TreeOfJobs DEF OnlyCompletes
  <2>3. \A m \in Runs : pc'[Project][m] \in {"collected", "writing", "written"} =>
          pc[Project][m] \in {"collected", "writing", "written"}
    BY <1>5, TreeOfJobs
  <2> QED
    BY <2>1, <2>2, <2>3 DEF FlowInv, ProjectInv, returns
<1>13. FailsOnlyForCause' /\ CountersAddUp'
  BY <1>4, <1>7, <1>0 DEF FlowInv, FailsOnlyForCause, CountersAddUp, returns
<1> QED
  BY <1>4, <1>8, <1>9, <1>11, <1>12, <1>13 DEF FlowInv

\* A lock that has expired makes its job fail only after its last run.
LEMMA StallKeeps ==
  ASSUME FlowInv, NEW j \in Job, job[j] = "active", Stall(j), spurious' \in 0 .. MaxSpurious
  PROVE  FlowInv'
<1> UNCHANGED <<runVars, returns, files, manifest, now, crashes>>
  BY DEF Stall
<1> DEFINE s == IF attempt[j] > MaxStalled THEN "failed" ELSE "waiting"
<1>1. attempt[j] \in Nat /\ MaxStalled \in Nat
  BY BoundsAssumption DEF FlowInv, TypeOK
<1>2. /\ s \in {"waiting", "failed"}
      /\ s = "waiting" => attempt[j] <= MaxStalled
      /\ s = "failed" => attempt[j] > MaxStalled
  BY <1>1
<1>3. job' = [job EXCEPT ![j] = s]
  BY DEF Stall
<1> HIDE DEF s
<1>4. /\ pc' \in [Job -> [Runs -> RunStates]]
      /\ by' \in [Job -> [Runs -> Workers \cup {NoWorker}]]
      /\ RunsGoNoFurther
      /\ \A i \in Job : \A m \in Runs : pc'[i][m] \in Live => by'[i][m] = by[i][m]
  BY DEF FlowInv, TypeOK, RunsGoNoFurther, runVars
<1>5. UNCHANGED attempt
  BY DEF runVars
<1>6. JobsKept /\ OnlyCompletes({})
  BY <1>2, <1>3, <1>4, <1>5, GivenUpKeeps
<1>7. GatherInv' /\ ProjectInv' /\ CountersAddUp'
  BY <1>6, GatherStays, ProjectStays DEF JobsKept, runVars, returns
<1>8. TypeOK'
  BY <1>6 DEF JobsKept, FlowInv, TypeOK, runVars, returns
<1> QED
  BY <1>6, <1>7, <1>8 DEF JobsKept, FlowInv

\* A worker that dies takes its runs with it, and nothing else.
LEMMA CrashKeeps ==
  ASSUME FlowInv, NEW w \in Workers, Crash(w)
  PROVE  FlowInv'
<1> UNCHANGED <<job, attempt, write, collected, returns, files, manifest, now, spurious>>
  BY DEF Crash
<1>1. /\ pc' \in [Job -> [Runs -> RunStates]]
      /\ \A i \in Job : \A m \in Runs :
           pc'[i][m] = IF by[i][m] = w THEN "dead" ELSE pc[i][m]
  BY DEF Crash, FlowInv, TypeOK, RunStates
<1>2. /\ by' \in [Job -> [Runs -> Workers \cup {NoWorker}]]
      /\ \A i \in Job : \A m \in Runs :
           by'[i][m] = IF by[i][m] = w THEN NoWorker ELSE by[i][m]
  BY DEF Crash, FlowInv, TypeOK
<1>3. RunsGoNoFurther
  BY <1>1 DEF RunsGoNoFurther, Live
<1>4. OnlyCompletes({})
  BY DEF OnlyCompletes
<1>5. TypeOK'
  <2>1. crashes' \in 0 .. MaxCrashes
    BY BoundsAssumption DEF Crash, FlowInv, TypeOK
  <2> QED
    BY <1>1, <1>2, <2>1 DEF FlowInv, TypeOK, returns
<1>6. RunsInv'
  BY <1>1, <1>2 DEF FlowInv, RunsInv, Live
<1>7. TreeInv' /\ FailsOnlyForCause'
  BY DEF FlowInv, TreeInv, FailsOnlyForCause
<1>8. GatherInv' /\ ProjectInv' /\ CountersAddUp'
  BY <1>3, <1>4, GatherStays, ProjectStays DEF returns
<1> QED
  BY <1>5, <1>6, <1>7, <1>8 DEF FlowInv

\* A paint job ends, with an image, with an error, or because its request is unread.
LEMMA PaintKeeps ==
  ASSUME FlowInv, NEW p \in Parts, NEW k \in Runs, Paint(p, k)
  PROVE  FlowInv'
<1> UNCHANGED <<attempt, write, collected, gathered, answer, files, manifest, bounds>>
  BY DEF Paint
<1>1. p \in Job /\ {p} \cap Tasks = {} /\ Project \notin {p}
  BY TreeOfJobs
<1>2. painted' \in [Parts -> {"none", "painted", "error"}]
  BY DEF Paint, FlowInv, TypeOK
<1>3. JobsKept /\ (OnlyCompletes({}) \/ OnlyCompletes({p}))
  <2>1. CASE Throw(p, k) /\ ~IsMessage(p, k, FALSE)
    BY <1>1, <2>1, ThrowKeeps DEF Paint
  <2>2. CASE Return(p, k)
    <3>1. JobsKept /\ (OnlyCompletes({p}) \/ job' = job)
      BY <1>1, <2>2, ReturnKeeps
    <3> QED
      BY <3>1 DEF OnlyCompletes
  <2> QED
    BY <2>1, <2>2 DEF Paint
<1>4. OnlyCompletes({p})
  BY <1>3 DEF OnlyCompletes
<1>5. GatherInv' /\ ProjectInv' /\ CountersAddUp'
  BY <1>1, <1>3, <1>4, GatherStays, ProjectStays DEF JobsKept
<1>6. TypeOK'
  BY <1>2, <1>3 DEF JobsKept, FlowInv, TypeOK, bounds
<1> QED
  BY <1>3, <1>5, <1>6 DEF JobsKept, FlowInv

-----------------------------------------------------------------------------
(* The steps of the gather jobs.                                           *)

\* A gather job returns r, an error or a message with a result, if its run holds
\* the lock, and else returns nothing.
LEMMA GatherReturnKeeps ==
  ASSUME FlowInv, NEW t \in Tasks, NEW k \in Runs, Return(t, k),
         NEW r \in [kind : {"message", "error"}, result : TaskResult \cup {NoResult}],
         r.kind = "message" => r.result \in TaskResult,
         r.kind = "error" => r.result = NoResult,
         gathered' = IF Holds(t, k) THEN [gathered EXCEPT ![t] = r] ELSE gathered,
         UNCHANGED <<attempt, write, collected, painted, answer, files, manifest, bounds>>
  PROVE  FlowInv'
<1>1. t \in Job /\ t # Project
  BY TreeOfJobs
<1>2. /\ JobsKept
      /\ Holds(t, k) => job[t] = "active" /\ job'[t] = "completed" /\ OnlyCompletes({t})
      /\ ~Holds(t, k) => job' = job
  BY <1>1, ReturnKeeps
<1>3. TypeOK'
  <2>1. gathered' \in [Tasks -> [kind : Kinds, result : TaskResult \cup {NoResult}]]
    BY DEF FlowInv, TypeOK, Kinds
  <2> QED
    BY <1>2, <2>1 DEF JobsKept, FlowInv, TypeOK, bounds
<1>4. CASE ~Holds(t, k)
  <2>1. OnlyCompletes({}) /\ UNCHANGED gathered
    BY <1>2, <1>4 DEF OnlyCompletes
  <2> QED
    BY <1>2, <1>3, <2>1, GatherStays, ProjectStays DEF JobsKept, FlowInv
<1>5. CASE Holds(t, k)
  <2>1. /\ job[t] = "active" /\ job'[t] = "completed" /\ OnlyCompletes({t})
        /\ gathered' = [gathered EXCEPT ![t] = r]
    BY <1>2, <1>5
  <2>2. gathered'[t] = r /\ \A u \in Tasks \ {t} : gathered'[u] = gathered[u]
    BY <2>1 DEF FlowInv, TypeOK
  <2>3. \A u \in Tasks \ {t} : job'[u] = "completed" <=> job[u] = "completed"
    BY <2>1, TreeOfJobs DEF OnlyCompletes
  <2>4. GatherInv'
    <3> SUFFICES ASSUME NEW u \in Tasks
                 PROVE  /\ \A m \in Runs : pc'[u][m] \in Naming => write'[u][m].file \in FileName
                        /\ job'[u] # "completed" => gathered'[u].kind = "none"
                        /\ job'[u] = "completed" => gathered'[u].kind \in {"message", "error"}
                        /\ gathered'[u].kind = "message" => gathered'[u].result \in TaskResult
                        /\ gathered'[u].kind # "message" => gathered'[u].result = NoResult
      BY DEF GatherInv
    <3>1. \A m \in Runs : pc'[u][m] \in Naming => write[u][m].file \in FileName
      <4>1. \A m \in Runs : pc'[u][m] \in Naming => pc[u][m] \in Naming
        BY <1>2, TreeOfJobs DEF JobsKept, RunsGoNoFurther, Live, Naming
      <4> QED
        BY <4>1 DEF FlowInv, GatherInv
    <3>2. CASE u = t
      BY <2>1, <2>2, <3>1, <3>2
    <3>3. CASE u # t
      BY <2>2, <2>3, <3>1, <3>3 DEF FlowInv, GatherInv
    <3> QED
      BY <3>2, <3>3
  <2>5. job[Project] \notin Begun
    BY <2>1, AnswersAreFinal
  <2>6. ProjectInv' /\ CountersAddUp'
    BY <1>2, <2>5, ProjectHasNotBegun DEF JobsKept
  <2> QED
    BY <1>2, <1>3, <2>4, <2>6 DEF JobsKept, FlowInv
<1> QED
  BY <1>4, <1>5

\* A gather handler that throws makes its job answer with an error.
LEMMA GatherErrorKeeps ==
  ASSUME FlowInv, NEW t \in Tasks, NEW k \in Runs, GatherError(t, k),
         UNCHANGED <<attempt, write, collected, painted, answer, files, manifest, bounds>>
  PROVE  FlowInv'
<1> DEFINE r == [kind |-> "error", result |-> NoResult]
<1>1. /\ r \in [kind : {"message", "error"}, result : TaskResult \cup {NoResult}]
      /\ r.kind = "error" /\ r.result = NoResult
  OBVIOUS
<1>2. /\ Return(t, k)
      /\ gathered' = IF Holds(t, k) THEN [gathered EXCEPT ![t] = r] ELSE gathered
  BY DEF GatherError
<1> HIDE DEF r
<1> QED
  BY <1>1, <1>2, GatherReturnKeeps

\* A run that goes on from a to b, both of them steps of a worker.
LEMMA RunGoesOn ==
  ASSUME FlowInv, NEW j \in Job, NEW k \in Runs, pc[j][k] \in Live, NEW b \in Live,
         pc' = [pc EXCEPT ![j][k] = b], UNCHANGED <<job, attempt, by>>
  PROVE  /\ pc' \in [Job -> [Runs -> RunStates]]
         /\ \A i \in Job : \A m \in Runs :
              pc'[i][m] = IF i = j /\ m = k THEN b ELSE pc[i][m]
         /\ RunsInv' /\ TreeInv' /\ FailsOnlyForCause'
<1>1. /\ pc' \in [Job -> [Runs -> RunStates]]
      /\ \A i \in Job : \A m \in Runs :
           pc'[i][m] = IF i = j /\ m = k THEN b ELSE pc[i][m]
  BY DEF FlowInv, TypeOK, RunStates, Live
<1>2. RunsInv'
  BY <1>1 DEF FlowInv, RunsInv
<1>3. TreeInv' /\ FailsOnlyForCause'
  BY DEF FlowInv, TreeInv, FailsOnlyForCause
<1> QED
  BY <1>1, <1>2, <1>3

\* What opening a file, and writing all of it, do to what the runs have written.
LEMMA OpensWhat ==
  ASSUME FlowInv, NEW i \in Writers, NEW k \in Runs,
         NEW name \in FileName \cup {ManifestName, NoFile}, Opens(i, k, name)
  PROVE  /\ write' \in [Writers -> [Runs -> [file : FileName \cup {ManifestName, NoFile},
                                             at : Extents]]]
         /\ write'[i][k] = [file |-> name, at |-> "open"]
         /\ \A u \in Writers : \A m \in Runs :
              ~(u = i /\ m = k) =>
                \/ write'[u][m] = write[u][m]
                \/ /\ write[u][m] = [file |-> name, at |-> "open"]
                   /\ write'[u][m] = [file |-> name, at |-> "cut"]
<1> USE DEF FlowInv, TypeOK, Opens
<1>1. "open" \in Extents /\ "cut" \in Extents
  BY DEF Extents
<1>2. write' \in [Writers -> [Runs -> [file : FileName \cup {ManifestName, NoFile}, at : Extents]]]
  BY <1>1
<1> QED
  BY <1>2
LEMMA WritesAllWhat ==
  ASSUME FlowInv, NEW i \in Writers, NEW k \in Runs, WritesAll(i, k)
  PROVE  /\ write' \in [Writers -> [Runs -> [file : FileName \cup {ManifestName, NoFile},
                                             at : Extents]]]
         /\ write'[i][k] = [file |-> write[i][k].file, at |-> "whole"]
         /\ \A u \in Writers : \A m \in Runs : ~(u = i /\ m = k) => write'[u][m] = write[u][m]
<1> USE DEF FlowInv, TypeOK, WritesAll
<1>1. "whole" \in Extents
  BY DEF Extents
<1>2. write[i][k] \in [file : FileName \cup {ManifestName, NoFile}, at : Extents]
  OBVIOUS
<1>3. [write[i][k] EXCEPT !.at = "whole"] = [file |-> write[i][k].file, at |-> "whole"]
  <2>1. PICK f \in FileName \cup {ManifestName, NoFile}, e \in Extents :
          write[i][k] = [file |-> f, at |-> e]
    BY <1>2
  <2> QED
    BY <2>1
<1>4. /\ write'[i][k] = [write[i][k] EXCEPT !.at = "whole"]
      /\ \A u \in Writers : \A m \in Runs : ~(u = i /\ m = k) => write'[u][m] = write[u][m]
  OBVIOUS
<1>5. write' \in [Writers -> [Runs -> [file : FileName \cup {ManifestName, NoFile}, at : Extents]]]
  BY <1>1, <1>2, <1>3
<1> QED
  BY <1>3, <1>4, <1>5

\* A run of a gather job that goes on keeps the name of its file, and changes nothing
\* but what is written to it.
LEMMA GatherGoesOn ==
  ASSUME FlowInv, NEW t \in Tasks, NEW k \in Runs, pc[t][k] \in Live,
         NEW b \in Naming, pc' = [pc EXCEPT ![t][k] = b],
         write' \in [Writers -> [Runs -> [file : FileName \cup {ManifestName, NoFile}, at : Extents]]],
         write'[t][k].file \in FileName,
         \A u \in Tasks : \A m \in Runs :
           ~(u = t /\ m = k) => write'[u][m].file = write[u][m].file,
         files' \in [FileName -> Tasks \cup {NoTask, Partial}], now' \in 0 .. MaxTime,
         UNCHANGED <<job, by, attempt, collected, returns, manifest, crashes, spurious>>
  PROVE  FlowInv'
<1>1. t \in Job /\ t # Project /\ b \in Live
  BY TreeOfJobs DEF Naming, Live
<1>2. /\ pc' \in [Job -> [Runs -> RunStates]]
      /\ \A i \in Job : \A m \in Runs : pc'[i][m] = IF i = t /\ m = k THEN b ELSE pc[i][m]
      /\ RunsInv' /\ TreeInv' /\ FailsOnlyForCause'
  BY <1>1, RunGoesOn
<1>3. TypeOK'
  BY <1>2 DEF FlowInv, TypeOK, returns
<1>4. GatherInv'
  <2>1. \A u \in Tasks : \A m \in Runs : pc'[u][m] \in Naming => write'[u][m].file \in FileName
    BY <1>2, TreeOfJobs DEF FlowInv, GatherInv
  <2> QED
    BY <2>1 DEF FlowInv, GatherInv, returns
<1>5. ProjectInv'
  <2>1. \A m \in Runs : pc'[Project][m] = pc[Project][m]
    BY <1>1, <1>2, TreeOfJobs
  <2>2. UNCHANGED <<gathered, answer, Answers>>
    BY DEF returns, Answers
  <2> QED
    BY <2>1, <2>2 DEF FlowInv, ProjectInv
<1> QED
  BY <1>2, <1>3, <1>4, <1>5 DEF FlowInv, CountersAddUp, returns

\* The parts are merged and the image is named, or the job fails or answers with an
\* error.
LEMMA MergePartsKeeps ==
  ASSUME FlowInv, NEW t \in Tasks, NEW k \in Runs, MergeParts(t, k)
  PROVE  FlowInv'
<1> UNCHANGED <<attempt, collected, painted, answer, files, manifest, crashes, spurious>>
  BY DEF MergeParts
<1>1. t \in Job /\ t # Project /\ pc[t][k] = "fresh" /\ t \in Writers
  BY TreeOfJobs DEF MergeParts, Writers
<1>2. CASE ~IsMessage(t, k, FALSE) /\ Throw(t, k) /\ UNCHANGED <<gathered, write, now>>
  <2>1. JobsKept /\ OnlyCompletes({})
    BY <1>1, <1>2, ThrowKeeps
  <2>2. GatherInv' /\ ProjectInv' /\ CountersAddUp'
    BY <1>2, <2>1, GatherStays, ProjectStays DEF JobsKept
  <2>3. TypeOK'
    BY <1>2, <2>1 DEF JobsKept, FlowInv, TypeOK
  <2> QED
    BY <2>1, <2>2, <2>3 DEF JobsKept, FlowInv
<1>3. CASE GatherError(t, k) /\ UNCHANGED <<write, now>>
  BY <1>3, GatherErrorKeeps DEF bounds
<1>4. CASE NameImage(t, k) /\ UNCHANGED <<job, by, gathered>>
  <2>1. PICK time \in now .. MaxTime :
          /\ now' = time
          /\ write' = [write EXCEPT ![t][k] = [file |-> <<SeedOf[t], time>>, at |-> "named"]]
    BY <1>4 DEF NameImage
  <2>2. time \in 0 .. MaxTime
    BY BoundsAssumption DEF FlowInv, TypeOK
  <2> DEFINE name == <<SeedOf[t], time>>
  <2>3. name \in FileName
    BY <2>2 DEF FileName
  <2>4. write' = [write EXCEPT ![t][k] = [file |-> name, at |-> "named"]]
    BY <2>1
  <2> HIDE DEF name
  <2>5. /\ write' \in [Writers -> [Runs -> [file : FileName \cup {ManifestName, NoFile},
                                            at : Extents]]]
        /\ write'[t][k] = [file |-> name, at |-> "named"]
        /\ \A u \in Tasks : \A m \in Runs :
             ~(u = t /\ m = k) => write'[u][m] = write[u][m]
    BY <1>1, <2>3, <2>4 DEF FlowInv, TypeOK, Extents, Writers
  <2>6. pc[t][k] \in Live /\ "named" \in Naming /\ pc' = [pc EXCEPT ![t][k] = "named"]
    BY <1>1, <1>4 DEF Live, Naming, NameImage
  <2>7. files' \in [FileName -> Tasks \cup {NoTask, Partial}] /\ now' \in 0 .. MaxTime
    BY <2>1, <2>2 DEF FlowInv, TypeOK
  <2>8. /\ write'[t][k].file \in FileName
        /\ \A u \in Tasks : \A m \in Runs :
             ~(u = t /\ m = k) => write'[u][m].file = write[u][m].file
    BY <2>3, <2>5
  <2>9. UNCHANGED <<job, by, attempt, collected, returns, manifest, crashes, spurious>>
    BY <1>4 DEF returns
  <2> QED
    BY <2>5, <2>6, <2>7, <2>8, <2>9, GatherGoesOn
<1> QED
  BY <1>2, <1>3, <1>4 DEF MergeParts

\* The file is truncated, or the stager reports a fatal error, for the run only.
LEMMA OpenImageKeeps ==
  ASSUME FlowInv, NEW t \in Tasks, NEW k \in Runs, OpenImage(t, k)
  PROVE  FlowInv'
<1>1. /\ t \in Job /\ t \in Writers /\ pc[t][k] = "named"
      /\ UNCHANGED <<job, attempt, by, collected, returns, manifest, bounds>>
  BY TreeOfJobs DEF OpenImage, Writers
<1>2. pc[t][k] \in Live /\ pc[t][k] \in Naming /\ {"storing", "staged"} \subseteq Naming
  BY <1>1 DEF Live, Naming
<1>3. write[t][k].file \in FileName
  BY <1>2 DEF FlowInv, GatherInv
<1>4. now' \in 0 .. MaxTime /\ UNCHANGED <<crashes, spurious>>
  BY <1>1 DEF FlowInv, TypeOK, bounds
<1> DEFINE name == write[t][k].file
<1>5. CASE /\ pc' = [pc EXCEPT ![t][k] = "storing"] /\ Opens(t, k, name)
           /\ files' = [files EXCEPT ![name] = Partial]
  <2>1. files' \in [FileName -> Tasks \cup {NoTask, Partial}]
    BY <1>3, <1>5 DEF FlowInv, TypeOK
  <2> HIDE DEF name
  <2>2. /\ write' \in [Writers -> [Runs -> [file : FileName \cup {ManifestName, NoFile},
                                            at : Extents]]]
        /\ write'[t][k] = [file |-> name, at |-> "open"]
        /\ \A u \in Writers : \A m \in Runs :
             ~(u = t /\ m = k) => \/ write'[u][m] = write[u][m]
                                 \/ /\ write[u][m] = [file |-> name, at |-> "open"]
                                    /\ write'[u][m] = [file |-> name, at |-> "cut"]
    BY <1>1, <1>3, <1>5, OpensWhat DEF name
  <2>3. /\ write'[t][k].file \in FileName
        /\ \A u \in Tasks : \A m \in Runs :
             ~(u = t /\ m = k) => write'[u][m].file = write[u][m].file
    BY <1>3, <2>2 DEF name, Writers
  <2> QED
    BY <1>1, <1>2, <1>4, <1>5, <2>1, <2>2, <2>3, GatherGoesOn
<1>6. CASE pc' = [pc EXCEPT ![t][k] = "staged"] /\ UNCHANGED <<write, files>>
  <2>1. /\ files' \in [FileName -> Tasks \cup {NoTask, Partial}]
        /\ write' \in [Writers -> [Runs -> [file : FileName \cup {ManifestName, NoFile},
                                            at : Extents]]]
    BY <1>6 DEF FlowInv, TypeOK
  <2> QED
    BY <1>1, <1>2, <1>3, <1>4, <1>6, <2>1, GatherGoesOn
<1> QED
  BY <1>5, <1>6 DEF OpenImage

\* The file is written, or the stager reports a fatal error, for the run only.
LEMMA StoreImageKeeps ==
  ASSUME FlowInv, NEW t \in Tasks, NEW k \in Runs, StoreImage(t, k)
  PROVE  FlowInv'
<1>1. /\ t \in Job /\ t \in Writers /\ pc[t][k] = "storing"
      /\ pc' = [pc EXCEPT ![t][k] = "staged"]
      /\ UNCHANGED <<job, attempt, by, collected, returns, manifest, bounds>>
  BY TreeOfJobs DEF StoreImage, Writers
<1>2. pc[t][k] \in Live /\ pc[t][k] \in Naming /\ "staged" \in Naming
  BY <1>1 DEF Live, Naming
<1>3. write[t][k].file \in FileName
  BY <1>2 DEF FlowInv, GatherInv
<1>4. now' \in 0 .. MaxTime /\ UNCHANGED <<crashes, spurious>>
  BY <1>1 DEF FlowInv, TypeOK, bounds
<1>5. CASE /\ WritesAll(t, k)
           /\ \E c \in ImageAfter(t, k) : files' = [files EXCEPT ![write[t][k].file] = c]
  <2>1. ImageAfter(t, k) \subseteq Tasks \cup {NoTask, Partial}
    BY DEF ImageAfter
  <2>2. files' \in [FileName -> Tasks \cup {NoTask, Partial}]
    BY <1>5, <2>1 DEF FlowInv, TypeOK
  <2>3. /\ write' \in [Writers -> [Runs -> [file : FileName \cup {ManifestName, NoFile},
                                            at : Extents]]]
        /\ write'[t][k] = [file |-> write[t][k].file, at |-> "whole"]
        /\ \A u \in Writers : \A m \in Runs : ~(u = t /\ m = k) => write'[u][m] = write[u][m]
    BY <1>1, <1>5, WritesAllWhat
  <2>4. /\ write'[t][k].file \in FileName
        /\ \A u \in Tasks : \A m \in Runs :
             ~(u = t /\ m = k) => write'[u][m].file = write[u][m].file
    BY <1>3, <2>3 DEF Writers
  <2> QED
    BY <1>1, <1>2, <1>4, <2>2, <2>3, <2>4, GatherGoesOn
<1>6. CASE UNCHANGED <<write, files>>
  <2>1. /\ files' \in [FileName -> Tasks \cup {NoTask, Partial}]
        /\ write' \in [Writers -> [Runs -> [file : FileName \cup {ManifestName, NoFile},
                                            at : Extents]]]
    BY <1>6 DEF FlowInv, TypeOK
  <2> QED
    BY <1>1, <1>2, <1>3, <1>4, <1>6, <2>1, GatherGoesOn
<1> QED
  BY <1>5, <1>6 DEF StoreImage

\* The job answers with what the stager returned, or with an error.
LEMMA ReplyGatheredKeeps ==
  ASSUME FlowInv, NEW t \in Tasks, NEW k \in Runs, ReplyGathered(t, k)
  PROVE  FlowInv'
<1>1. UNCHANGED <<attempt, write, collected, painted, answer, files, manifest, bounds>>
  BY DEF ReplyGathered
<1>2. CASE GatherError(t, k)
  BY <1>1, <1>2, GatherErrorKeeps
<1>3. CASE /\ Return(t, k)
           /\ gathered' = IF Holds(t, k)
                            THEN [gathered EXCEPT ![t] = [kind |-> "message", result |-> StageResult(t, k)]]
                            ELSE gathered
  <2> DEFINE r == [kind |-> "message", result |-> StageResult(t, k)]
  <2>1. StageResult(t, k) \in TaskResult
    BY DEF ReplyGathered, FlowInv, GatherInv, Naming, StageResult, Failure, TaskResult
  <2>2. /\ r \in [kind : {"message", "error"}, result : TaskResult \cup {NoResult}]
        /\ r.kind = "message" /\ r.result \in TaskResult
    BY <2>1
  <2>3. gathered' = IF Holds(t, k) THEN [gathered EXCEPT ![t] = r] ELSE gathered
    BY <1>3
  <2> HIDE DEF r
  <2> QED
    BY <1>1, <1>3, <2>2, <2>3, GatherReturnKeeps
<1> QED
  BY <1>2, <1>3 DEF ReplyGathered

-----------------------------------------------------------------------------
(* The steps of the project job.                                           *)

\* What is collected is the messages of the gather jobs.
LEMMA AnswersAreEntries ==
  ASSUME FlowInv
  PROVE  /\ Answers \in Entries
         /\ DOMAIN Answers = {t \in Tasks : gathered[t].kind = "message"}
         /\ \A t \in DOMAIN Answers : Answers[t] = gathered[t].result /\ Answers[t] \in TaskResult
<1> DEFINE D == {t \in Tasks : gathered[t].kind = "message"}
<1>1. Answers = [t \in D |-> gathered[t].result]
  BY DEF Answers
<1>2. \A t \in D : gathered[t].result \in TaskResult
  BY DEF FlowInv, GatherInv
<1>3. D \in SUBSET Tasks
  OBVIOUS
<1>4. Answers \in [D -> TaskResult]
  BY <1>1, <1>2
<1>5. Answers \in Entries
  BY <1>3, <1>4 DEF Entries
<1> QED
  BY <1>1, <1>2, <1>5

\* The counters of the answers account for all tasks.
LEMMA AnswersAddUp ==
  ASSUME FlowInv
  PROVE  /\ NumCompleted(Answers) \in Nat /\ NumFatalErrors(Answers) \in Nat
         /\ NumCompleted(Answers) + NumFatalErrors(Answers) = Cardinality(Tasks)
<1> DEFINE D == DOMAIN Answers
           Done == {t \in D : Answers[t].outcome = "OK"}
           Fatal == {t \in D : Answers[t].outcome = "FATAL_ERROR"}
<1>1. D \subseteq Tasks /\ IsFiniteSet(Tasks)
  BY AnswersAreEntries, JobsAssumption
<1>2. \A t \in D : Answers[t].outcome \in {"OK", "FATAL_ERROR"}
  BY AnswersAreEntries DEF TaskResult
<1>3. /\ NumCompleted(Answers) = Cardinality(Done)
      /\ NumFatalErrors(Answers) = Cardinality(Fatal) + Cardinality(Tasks \ D)
  BY DEF NumCompleted, NumFatalErrors
<1>4. Done \cap Fatal = {} /\ Done \cup Fatal = D
  BY <1>2
<1>5. Done \subseteq Tasks /\ Fatal \subseteq Tasks /\ (Tasks \ D) \subseteq Tasks
  BY <1>1
<1> HIDE DEF D, Done, Fatal
<1>6. /\ IsFiniteSet(Done) /\ IsFiniteSet(Fatal) /\ IsFiniteSet(D) /\ IsFiniteSet(Tasks \ D)
  BY <1>1, <1>5, FS_Subset
<1>7. Cardinality(D) = Cardinality(Done) + Cardinality(Fatal)
  <2>1. Cardinality(Done \cup Fatal) =
          Cardinality(Done) + Cardinality(Fatal) - Cardinality(Done \cap Fatal)
    BY <1>6, FS_Union
  <2>2. Cardinality(Done \cap Fatal) = 0
    BY <1>4, FS_EmptySet
  <2>3. Cardinality(Done) \in Nat /\ Cardinality(Fatal) \in Nat
    BY <1>6, FS_CardinalityType
  <2>4. Cardinality(Done \cup Fatal) = Cardinality(D)
    BY <1>4, Zenon
  <2> QED
    BY <2>1, <2>2, <2>3, <2>4
<1>8. Cardinality(Tasks \ D) = Cardinality(Tasks) - Cardinality(D)
  <2>1. Cardinality(Tasks \ D) = Cardinality(Tasks) - Cardinality(Tasks \cap D)
    BY <1>1, FS_Difference
  <2>2. Tasks \cap D = D
    BY <1>1
  <2> QED
    BY <2>1, <2>2
<1>9. /\ Cardinality(Done) \in Nat /\ Cardinality(Fatal) \in Nat /\ Cardinality(Tasks \ D) \in Nat
      /\ Cardinality(Tasks) \in Nat /\ Cardinality(D) \in Nat
  BY <1>1, <1>6, FS_CardinalityType
<1> QED
  BY <1>3, <1>7, <1>8, <1>9

\* The project job returns the answer a if its run holds the lock.
LEMMA ProjectReturnKeeps ==
  ASSUME FlowInv, NEW k \in Runs, Return(Project, k),
         NEW a \in [kind : {"message", "error"}, entries : Entries,
                    numCompleted : Nat, numFatalErrors : Nat],
         a.kind = "message" =>
           a.entries = Answers /\ a.numCompleted + a.numFatalErrors = Cardinality(Tasks),
         a.kind # "message" => a.entries = NoEntries,
         answer' = IF Holds(Project, k) THEN a ELSE answer,
         UNCHANGED <<attempt, write, collected, painted, gathered, files, manifest, bounds>>
  PROVE  FlowInv'
<1>1. Project \in Job /\ {Project} \cap Tasks = {}
  BY TreeOfJobs
<1>2. /\ JobsKept
      /\ Holds(Project, k) => job[Project] = "active" /\ job'[Project] = "completed"
                              /\ OnlyCompletes({Project})
      /\ ~Holds(Project, k) => job' = job
  BY <1>1, ReturnKeeps
<1>3. TypeOK'
  <2>1. answer' \in [kind : Kinds, entries : Entries, numCompleted : Nat, numFatalErrors : Nat]
    BY DEF FlowInv, TypeOK, Kinds
  <2> QED
    BY <1>2, <2>1 DEF JobsKept, FlowInv, TypeOK, bounds
<1>4. OnlyCompletes({Project})
  BY <1>2 DEF OnlyCompletes
<1>5. GatherInv'
  BY <1>1, <1>2, <1>4, GatherStays DEF JobsKept
<1>6. CASE ~Holds(Project, k)
  <2>1. OnlyCompletes({}) /\ UNCHANGED answer
    BY <1>2, <1>6 DEF OnlyCompletes
  <2> QED
    BY <1>2, <1>3, <1>5, <2>1, ProjectStays DEF JobsKept, FlowInv
<1>7. CASE Holds(Project, k)
  <2>1. answer' = a /\ job'[Project] = "completed"
    BY <1>2, <1>7
  <2>2. Answers' = Answers
    BY DEF Answers
  <2>3. \A m \in Runs : pc'[Project][m] \in {"collected", "writing", "written"} =>
          pc[Project][m] \in {"collected", "writing", "written"}
    BY <1>1, <1>2 DEF JobsKept, RunsGoNoFurther, Live
  <2>4. ProjectInv'
    BY <2>1, <2>2, <2>3 DEF FlowInv, ProjectInv, Begun
  <2>5. CountersAddUp'
    BY <2>1 DEF CountersAddUp
  <2> QED
    BY <1>2, <1>3, <1>5, <2>4, <2>5 DEF JobsKept, FlowInv
<1> QED
  BY <1>6, <1>7

\* A project handler that throws makes its job answer with an error.
LEMMA ProjectErrorKeeps ==
  ASSUME FlowInv, NEW k \in Runs, ProjectError(k),
         UNCHANGED <<attempt, write, collected, painted, gathered, files, manifest, bounds>>
  PROVE  FlowInv'
<1> DEFINE a == [NoAnswer EXCEPT !.kind = "error"]
<1>1. /\ a \in [kind : {"message", "error"}, entries : Entries,
                numCompleted : Nat, numFatalErrors : Nat]
      /\ a.kind = "error" /\ a.entries = NoEntries
  BY NoEntriesIsEmpty DEF NoAnswer
<1>2. Return(Project, k) /\ answer' = IF Holds(Project, k) THEN a ELSE answer
  BY DEF ProjectError
<1> HIDE DEF a
<1> QED
  BY <1>1, <1>2, ProjectReturnKeeps

\* A run of the project job that goes on has collected the answers of the gather
\* jobs, and writes these and nothing else.
LEMMA ProjectGoesOn ==
  ASSUME FlowInv, NEW k \in Runs, pc[Project][k] \in Live,
         NEW b \in {"collected", "writing", "written"}, pc' = [pc EXCEPT ![Project][k] = b],
         NEW c \in {collected[k], Answers}, collected' = [collected EXCEPT ![k] = c],
         pc[Project][k] = "fresh" => c = Answers,
         pc[Project][k] # "fresh" => pc[Project][k] \in {"collected", "writing"},
         manifest' \in {manifest, [kind |-> "partial", entries |-> NoEntries],
                        [kind |-> "whole", entries |-> Answers]},
         write' \in [Writers -> [Runs -> [file : FileName \cup {ManifestName, NoFile}, at : Extents]]],
         \A t \in Tasks : \A m \in Runs : write'[t][m].file = write[t][m].file,
         UNCHANGED <<job, by, attempt, painted, gathered, answer, files, bounds>>
  PROVE  FlowInv'
<1>1. Project \in Job /\ b \in Live
  BY TreeOfJobs DEF Live
<1>2. job[Project] \in Begun
  BY <1>1, LiveMeansBegun
<1>3. c = Answers
  BY DEF FlowInv, ProjectInv
<1>4. /\ pc' \in [Job -> [Runs -> RunStates]]
      /\ \A i \in Job : \A m \in Runs :
           pc'[i][m] = IF i = Project /\ m = k THEN b ELSE pc[i][m]
      /\ RunsInv' /\ TreeInv' /\ FailsOnlyForCause'
  BY <1>1, RunGoesOn
<1>5. /\ collected' \in [Runs -> Entries]
      /\ \A m \in Runs : collected'[m] = IF m = k THEN Answers ELSE collected[m]
  BY <1>3, AnswersAreEntries DEF FlowInv, TypeOK
<1>6. manifest' \in [kind : {"absent", "partial", "whole"}, entries : Entries]
  BY AnswersAreEntries, NoEntriesIsEmpty DEF FlowInv, TypeOK
<1>7. TypeOK'
  <2>1. TypeOK
    BY DEF FlowInv
  <2>2. UNCHANGED <<job, by, attempt, painted, gathered, answer, files, now, crashes, spurious>>
    BY DEF bounds
  <2> QED
    BY <1>4, <1>5, <1>6, <2>1, <2>2 DEF TypeOK
<1>8. GatherInv'
  <2>1. \A t \in Tasks : \A m \in Runs : pc'[t][m] = pc[t][m]
    BY <1>4, TreeOfJobs
  <2>2. GatherInv
    BY DEF FlowInv
  <2> QED
    BY <2>1, <2>2 DEF GatherInv
<1>9. Answers' = Answers
  BY DEF Answers
<1>10. ProjectInv'
  <2>1. \A m \in Runs : pc'[Project][m] \in {"collected", "writing", "written"} =>
          collected'[m] = Answers
    BY <1>1, <1>4, <1>5 DEF FlowInv, ProjectInv
  <2>2. /\ manifest'.kind = "whole" => manifest'.entries = Answers
        /\ manifest'.kind # "whole" => manifest'.entries = NoEntries
    BY DEF FlowInv, ProjectInv
  <2> QED
    BY <1>2, <1>9, <2>1, <2>2 DEF FlowInv, ProjectInv
<1> QED
  BY <1>4, <1>7, <1>8, <1>10 DEF FlowInv, CountersAddUp

\* The children are collected, or the job fails or answers with an error.
LEMMA CollectKeeps ==
  ASSUME FlowInv, NEW k \in Runs, Collect(k)
  PROVE  FlowInv'
<1>1. UNCHANGED <<attempt, write, painted, gathered, files, manifest, bounds>>
  BY DEF Collect
<1>2. pc[Project][k] = "fresh" /\ Project \in Job
  BY TreeOfJobs DEF Collect
<1>3. CASE ~IsMessage(Project, k, FALSE) /\ Throw(Project, k) /\ UNCHANGED <<collected, answer>>
  <2>1. JobsKept /\ OnlyCompletes({})
    BY <1>1, <1>2, <1>3, ThrowKeeps
  <2>2. GatherInv' /\ ProjectInv' /\ CountersAddUp'
    BY <1>1, <1>3, <2>1, GatherStays, ProjectStays DEF JobsKept
  <2>3. TypeOK'
    BY <1>1, <1>3, <2>1 DEF JobsKept, FlowInv, TypeOK, bounds
  <2> QED
    BY <2>1, <2>2, <2>3 DEF JobsKept, FlowInv
<1>4. CASE ProjectError(k) /\ UNCHANGED collected
  BY <1>1, <1>4, ProjectErrorKeeps
<1> DEFINE messages == {t \in Tasks : IsMessage(Project, k, gathered[t].kind = "error")}
<1>5. CASE /\ IsMessage(Project, k, FALSE)
           /\ collected' = [collected EXCEPT ![k] = [t \in messages |-> gathered[t].result]]
           /\ pc' = [pc EXCEPT ![Project][k] = "collected"]
           /\ UNCHANGED <<job, by, answer>>
  <2>1. pc[Project][k] \in Live
    BY <1>2 DEF Live
  <2>2. \A t \in Tasks : gathered[t].kind \in {"message", "error"}
    BY <1>2, <2>1, LiveMeansBegun, AnswersAreFinal
  <2>3. CanHandle(ReleaseOf[by[Project][k]], OriginRelease)
    BY <1>2, <1>5, WhatIsMessage
  <2>4. messages = {t \in Tasks : gathered[t].kind = "message"}
    <3>1. ASSUME NEW t \in Tasks
          PROVE  IsMessage(Project, k, gathered[t].kind = "error") <=> gathered[t].kind = "message"
      <4>1. CASE gathered[t].kind = "error"
        <5>1. (gathered[t].kind = "error") = TRUE
          BY <4>1
        <5>2. ~IsMessage(Project, k, TRUE)
          BY <1>2, WhatIsMessage
        <5> QED
          BY <4>1, <5>1, <5>2
      <4>2. CASE gathered[t].kind = "message"
        <5>1. (gathered[t].kind = "error") = FALSE
          BY <4>2
        <5> QED
          BY <1>5, <4>2, <5>1
      <4> QED
        BY <2>2, <4>1, <4>2
    <3> QED
      BY <3>1
  <2>5. collected' = [collected EXCEPT ![k] = Answers]
    BY <1>5, <2>4 DEF Answers
  <2> HIDE DEF messages
  <2>6. UNCHANGED <<job, by, attempt, write, painted, gathered, answer, files, manifest, bounds>>
    BY <1>1, <1>5
  <2>7. write' \in [Writers -> [Runs -> [file : FileName \cup {ManifestName, NoFile}, at : Extents]]]
    BY <2>6 DEF FlowInv, TypeOK
  <2> QED
    BY <1>2, <1>5, <2>1, <2>5, <2>6, <2>7, ProjectGoesOn
<1> QED
  BY <1>3, <1>4, <1>5 DEF Collect

\* The manifest is truncated, or the job answers with an error.
LEMMA OpenManifestKeeps ==
  ASSUME FlowInv, NEW k \in Runs, OpenManifest(k)
  PROVE  FlowInv'
<1>1. UNCHANGED <<attempt, collected, painted, gathered, files, bounds>>
  BY DEF OpenManifest
<1>2. CASE ProjectError(k) /\ UNCHANGED <<write, manifest>>
  BY <1>1, <1>2, ProjectErrorKeeps
<1>3. CASE /\ pc' = [pc EXCEPT ![Project][k] = "writing"]
           /\ Opens(Project, k, ManifestName)
           /\ manifest' = [kind |-> "partial", entries |-> NoEntries]
           /\ UNCHANGED <<job, by, answer>>
  <2>1. pc[Project][k] = "collected" /\ pc[Project][k] \in Live
    BY DEF OpenManifest, Live
  <2>2. collected' = [collected EXCEPT ![k] = collected[k]]
    BY <1>1 DEF FlowInv, TypeOK
  <2>3. /\ write' \in [Writers -> [Runs -> [file : FileName \cup {ManifestName, NoFile},
                                            at : Extents]]]
        /\ \A u \in Writers : \A m \in Runs :
             ~(u = Project /\ m = k) =>
               \/ write'[u][m] = write[u][m]
               \/ /\ write[u][m] = [file |-> ManifestName, at |-> "open"]
                  /\ write'[u][m] = [file |-> ManifestName, at |-> "cut"]
    <3>1. Project \in Writers /\ ManifestName \in FileName \cup {ManifestName, NoFile}
      BY DEF Writers
    <3> QED
      BY <1>3, <3>1, OpensWhat
  <2>4. \A t \in Tasks : \A m \in Runs : write'[t][m].file = write[t][m].file
    BY <2>3, TreeOfJobs DEF Writers
  <2> QED
    BY <1>1, <1>3, <2>1, <2>2, <2>3, <2>4, ProjectGoesOn
<1> QED
  BY <1>2, <1>3 DEF OpenManifest

\* The manifest is written, or the job answers with an error.
LEMMA WriteManifestKeeps ==
  ASSUME FlowInv, NEW k \in Runs, WriteManifest(k)
  PROVE  FlowInv'
<1>1. UNCHANGED <<attempt, collected, painted, gathered, files, bounds>>
  BY DEF WriteManifest
<1>2. CASE ProjectError(k) /\ UNCHANGED <<write, manifest>>
  BY <1>1, <1>2, ProjectErrorKeeps
<1>3. CASE /\ pc' = [pc EXCEPT ![Project][k] = "written"]
           /\ WritesAll(Project, k)
           /\ manifest' \in ManifestAfter(k)
           /\ UNCHANGED <<job, by, answer>>
  <2>1. pc[Project][k] = "writing" /\ pc[Project][k] \in Live
    BY DEF WriteManifest, Live
  <2>2. collected[k] = Answers
    BY <2>1 DEF FlowInv, ProjectInv
  <2>3. collected' = [collected EXCEPT ![k] = collected[k]]
    BY <1>1 DEF FlowInv, TypeOK
  <2>4. manifest' \in {manifest, [kind |-> "partial", entries |-> NoEntries],
                       [kind |-> "whole", entries |-> Answers]}
    BY <1>3, <2>2 DEF ManifestAfter
  <2>5. /\ write' \in [Writers -> [Runs -> [file : FileName \cup {ManifestName, NoFile},
                                            at : Extents]]]
        /\ \A u \in Writers : \A m \in Runs :
             ~(u = Project /\ m = k) => write'[u][m] = write[u][m]
    BY <1>3, WritesAllWhat DEF Writers
  <2>6. \A t \in Tasks : \A m \in Runs : write'[t][m].file = write[t][m].file
    BY <2>5, TreeOfJobs DEF Writers
  <2> QED
    BY <1>1, <1>3, <2>1, <2>2, <2>3, <2>4, <2>5, <2>6, ProjectGoesOn
<1> QED
  BY <1>2, <1>3 DEF WriteManifest

\* The project is answered with what was collected, or with an error.
LEMMA ReplyProjectKeeps ==
  ASSUME FlowInv, NEW k \in Runs, ReplyProject(k)
  PROVE  FlowInv'
<1>1. UNCHANGED <<attempt, write, collected, painted, gathered, files, manifest, bounds>>
  BY DEF ReplyProject
<1>2. CASE ProjectError(k)
  BY <1>1, <1>2, ProjectErrorKeeps
<1> DEFINE a == [kind |-> "message", entries |-> collected[k],
                 numCompleted |-> NumCompleted(collected[k]),
                 numFatalErrors |-> NumFatalErrors(collected[k])]
<1>3. CASE Return(Project, k) /\ answer' = IF Holds(Project, k) THEN a ELSE answer
  <2>1. collected[k] = Answers
    BY DEF ReplyProject, FlowInv, ProjectInv
  <2>2. /\ a.kind = "message" /\ a.entries = Answers
        /\ a.numCompleted = NumCompleted(Answers) /\ a.numFatalErrors = NumFatalErrors(Answers)
    BY <2>1
  <2>3. /\ a \in [kind : {"message", "error"}, entries : Entries,
                  numCompleted : Nat, numFatalErrors : Nat]
        /\ a.numCompleted + a.numFatalErrors = Cardinality(Tasks)
    BY <2>1, <2>2, AnswersAddUp, AnswersAreEntries
  <2> HIDE DEF a
  <2> QED
    BY <1>1, <1>3, <2>2, <2>3, ProjectReturnKeeps
<1> QED
  BY <1>2, <1>3 DEF ReplyProject

-----------------------------------------------------------------------------
(* The invariants.                                                         *)

\* Every step keeps the invariant.
LEMMA FlowStep == FlowInv /\ [Next]_vars => FlowInv'
<1> SUFFICES ASSUME FlowInv, [Next]_vars PROVE FlowInv'
  OBVIOUS
<1>1. CASE SubmitProject
  BY <1>1, SubmitKeeps
<1>2. ASSUME NEW j \in Job, NEW w \in Workers, Take(j, w) PROVE FlowInv'
  BY <1>2, TakeKeeps
<1>3. ASSUME NEW j \in Job, NEW k \in Runs, RunStep(j, k) PROVE FlowInv'
  <2>1. CASE j \in Parts /\ Paint(j, k)
    BY <2>1, PaintKeeps
  <2>2. CASE j \in Tasks /\ MergeParts(j, k)
    BY <2>2, MergePartsKeeps
  <2>3. CASE j \in Tasks /\ OpenImage(j, k)
    BY <2>3, OpenImageKeeps
  <2>9. CASE j \in Tasks /\ StoreImage(j, k)
    BY <2>9, StoreImageKeeps
  <2>4. CASE j \in Tasks /\ ReplyGathered(j, k)
    BY <2>4, ReplyGatheredKeeps
  <2>5. CASE Collect(k)
    BY <2>5, CollectKeeps
  <2>6. CASE OpenManifest(k)
    BY <2>6, OpenManifestKeeps
  <2>7. CASE WriteManifest(k)
    BY <2>7, WriteManifestKeeps
  <2>8. CASE ReplyProject(k)
    BY <2>8, ReplyProjectKeeps
  <2> QED
    BY <1>3, <2>1, <2>2, <2>3, <2>4, <2>5, <2>6, <2>7, <2>8, <2>9 DEF RunStep
<1>4. ASSUME NEW j \in Job, DeadWorkerStalls(j) PROVE FlowInv'
  <2>1. spurious' \in 0 .. MaxSpurious
    BY <1>4 DEF DeadWorkerStalls, FlowInv, TypeOK
  <2> QED
    BY <1>4, <2>1, StallKeeps DEF DeadWorkerStalls
<1>5. ASSUME NEW j \in Job, LiveWorkerStalls(j) PROVE FlowInv'
  <2>1. spurious' \in 0 .. MaxSpurious
    BY <1>5, BoundsAssumption DEF LiveWorkerStalls, FlowInv, TypeOK
  <2> QED
    BY <1>5, <2>1, StallKeeps DEF LiveWorkerStalls
<1>6. ASSUME NEW w \in Workers, Crash(w) PROVE FlowInv'
  BY <1>6, CrashKeeps
<1>7. CASE UNCHANGED vars
  <2>1. /\ UNCHANGED <<job, attempt, pc, by, write, collected, painted, gathered, answer>>
        /\ UNCHANGED <<files, manifest, now, crashes, spurious>>
    BY <1>7 DEF vars, runVars, returns, bounds
  <2>2. TypeOK'
    BY <2>1 DEF FlowInv, TypeOK
  <2>3. RunsInv' /\ TreeInv' /\ FailsOnlyForCause'
    BY <2>1 DEF FlowInv, RunsInv, TreeInv, FailsOnlyForCause
  <2>4. RunsGoNoFurther /\ OnlyCompletes({})
    BY <2>1 DEF RunsGoNoFurther, OnlyCompletes
  <2>5. GatherInv' /\ ProjectInv' /\ CountersAddUp'
    BY <2>1, <2>4, GatherStays, ProjectStays
  <2> QED
    BY <2>2, <2>3, <2>5 DEF FlowInv
<1> QED
  BY <1>1, <1>2, <1>3, <1>4, <1>5, <1>6, <1>7 DEF Next

\* The invariant holds in every state that is reached.
LEMMA FlowAlways == Spec => []FlowInv
  BY FlowInit, FlowStep, PTL DEF Spec

\* The variables have their types: no run gets past the runs BullMQ gives a job, and
\* every result that is returned, collected or written is one the stager made.
THEOREM TypeCorrect == Spec => []TypeOK
<1>1. FlowInv => TypeOK
  BY DEF FlowInv
<1> QED
  BY <1>1, FlowAlways, PTL

\* A job fails only for having stalled too often or because some worker cannot read
\* the submitter's release; nothing a handler throws, no crash and no lost lock does it.
THEOREM FailsOnlyForACause == Spec => []FailsOnlyForCause
<1>1. FlowInv => FailsOnlyForCause
  BY DEF FlowInv
<1> QED
  BY <1>1, FlowAlways, PTL

\* The counters of the project's answer account for each task, whatever became of it.
THEOREM CountersAlwaysAddUp == Spec => []CountersAddUp
<1>1. FlowInv => CountersAddUp
  BY DEF FlowInv
<1> QED
  BY <1>1, FlowAlways, PTL

-----------------------------------------------------------------------------
(* What the files and the manifest hold.                                   *)

\* A run that has not named its file has opened none; the extent of the others follows
\* their steps, and each writer keeps to files of its own.
NamesOf(i) == IF i = Project THEN {ManifestName} ELSE FileName
WriteInv ==
  \A i \in Writers : \A k \in Runs :
    /\ write[i][k].at # "none" => k <= attempt[i] /\ write[i][k].file \in NamesOf(i)
    /\ pc[i][k] = "fresh" => write[i][k].at = "none"
    /\ pc[i][k] = "named" => write[i][k].at = "named"
    /\ pc[i][k] \in {"storing", "writing"} => write[i][k].at \in {"open", "cut"}
    /\ pc[i][k] = "written" => write[i][k].at = "whole"

\* A file that a run of t opened holds t's image, unless it was disturbed; and what is
\* returned as staged was written to the end by some run.
Held(t, k) == files[write[t][k].file] = t \/ Disturbed(t, write[t][k].file)
FilesInv ==
  /\ \A t \in Tasks : \A k \in Runs : write[t][k].at \in Opened => Held(t, k)
  /\ \A t \in Tasks :
       gathered[t].result.outcome = "OK" =>
         \E k \in Runs : write[t][k].at = "whole" /\ write[t][k].file = gathered[t].result.file

\* A manifest that was opened is whole, unless its last opener has not written it all;
\* and no message is returned before it was opened.
ManifestInv ==
  /\ (\E k \in Runs : write[Project][k].at \in Opened) =>
       manifest.kind = "whole" \/ \E k \in Runs : write[Project][k].at = "open"
  /\ answer.kind = "message" => \E k \in Runs : write[Project][k].at \in Opened

StoresInv == WriteInv /\ FilesInv /\ ManifestInv

\* The steps of the runs that no write depends on.
Tracked == {"fresh", "named", "storing", "writing", "written"}
RunsMove ==
  /\ \A i \in Writers : \A m \in Runs :
       pc'[i][m] \in Tracked => pc'[i][m] = pc[i][m] \/ (pc'[i][m] = "fresh" /\ m > attempt[i])
  /\ \A i \in Writers : attempt'[i] \in Nat /\ attempt[i] <= attempt'[i]
ReturnsStaged ==
  \A t \in Tasks : \/ gathered'[t].result \in {gathered[t].result, NoResult}
                   \/ \E k \in Runs : gathered'[t].result = StageResult(t, k)
AnswersWritten ==
  answer'.kind = "message" => answer.kind = "message" \/ \E k \in Runs : pc[Project][k] = "written"
Quiet == UNCHANGED <<write, files, manifest>> /\ RunsMove /\ ReturnsStaged /\ AnswersWritten

\* The steps that name, open or write a file to the end.
Names(t, k) ==
  /\ pc[t][k] = "fresh" /\ NameImage(t, k)
  /\ UNCHANGED <<attempt, returns, files, manifest>>
OpensFile(t, k) ==
  /\ pc[t][k] = "named" /\ pc' = [pc EXCEPT ![t][k] = "storing"]
  /\ Opens(t, k, write[t][k].file)
  /\ files' = [files EXCEPT ![write[t][k].file] = Partial]
  /\ UNCHANGED <<attempt, returns, manifest>>
FillsFile(t, k) ==
  /\ pc[t][k] = "storing" /\ pc' = [pc EXCEPT ![t][k] = "staged"]
  /\ WritesAll(t, k)
  /\ \E c \in ImageAfter(t, k) : files' = [files EXCEPT ![write[t][k].file] = c]
  /\ UNCHANGED <<attempt, returns, manifest>>
OpensManifest(k) ==
  /\ pc[Project][k] = "collected" /\ pc' = [pc EXCEPT ![Project][k] = "writing"]
  /\ Opens(Project, k, ManifestName)
  /\ UNCHANGED <<attempt, returns, files>>
FillsManifest(k) ==
  /\ pc[Project][k] = "writing" /\ pc' = [pc EXCEPT ![Project][k] = "written"]
  /\ WritesAll(Project, k)
  /\ manifest' \in ManifestAfter(k)
  /\ UNCHANGED <<attempt, returns, files>>

\* The writers, and that no image is written under the manifest's name.
LEMMA WritersAndNames ==
  /\ Project \in Writers /\ Tasks \subseteq Writers /\ Writers \subseteq Job
  /\ ManifestName \notin FileName
<1>1. ASSUME NEW a, NEW b PROVE <<Project>> # <<a, b>>
  OBVIOUS
<1>2. ManifestName \notin FileName
  BY <1>1 DEF ManifestName, FileName
<1> QED
  BY <1>2, TreeOfJobs DEF Writers

\* A run number is a positive number, and so is the number of attempts one.
LEMMA RunNumbers ==
  ASSUME FlowInv
  PROVE  /\ \A k \in Runs : k \in Nat
         /\ \A j \in Job : attempt[j] \in Nat
  BY BoundsAssumption DEF FlowInv, TypeOK, Runs

\* A run that ends, or goes on to a step no write depends on, is quiet.
LEMMA EndIsQuiet ==
  ASSUME FlowInv, RunsGoNoFurther, UNCHANGED attempt
  PROVE  RunsMove
<1>1. \A i \in Writers : \A m \in Runs : pc'[i][m] \in Tracked => pc'[i][m] = pc[i][m]
  BY WritersAndNames DEF RunsGoNoFurther, Live, Tracked
<1> QED
  BY <1>1, WritersAndNames, RunNumbers DEF RunsMove
LEMMA UntrackedIsQuiet ==
  ASSUME FlowInv, NEW j \in Job, NEW k \in Runs, NEW b, b \notin Tracked,
         pc' = [pc EXCEPT ![j][k] = b], UNCHANGED attempt
  PROVE  RunsMove
<1>1. \A i \in Job : \A m \in Runs : pc'[i][m] = IF i = j /\ m = k THEN b ELSE pc[i][m]
  BY DEF FlowInv, TypeOK
<1>2. \A i \in Writers : \A m \in Runs : pc'[i][m] \in Tracked => pc'[i][m] = pc[i][m]
  BY <1>1, WritersAndNames
<1> QED
  BY <1>2, WritersAndNames, RunNumbers DEF RunsMove

\* A gather job returns at most what its stager returned.
LEMMA GatherReturnsStaged ==
  ASSUME FlowInv, NEW t \in Tasks, NEW k \in Runs, NEW r,
         r.result \in {NoResult, StageResult(t, k)},
         gathered' = IF Holds(t, k) THEN [gathered EXCEPT ![t] = r] ELSE gathered
  PROVE  ReturnsStaged
<1>1. \A u \in Tasks : gathered'[u] = gathered[u] \/ (u = t /\ gathered'[u] = r)
  BY DEF FlowInv, TypeOK
<1> QED
  BY <1>1 DEF ReturnsStaged
LEMMA GatherErrorIsQuiet ==
  ASSUME FlowInv, NEW t \in Tasks, NEW k \in Runs, GatherError(t, k),
         UNCHANGED <<write, files, manifest, attempt, answer>>
  PROVE  Quiet
<1> DEFINE r == [kind |-> "error", result |-> NoResult]
<1>1. r.result = NoResult
  OBVIOUS
<1>2. gathered' = IF Holds(t, k) THEN [gathered EXCEPT ![t] = r] ELSE gathered
  BY DEF GatherError
<1> HIDE DEF r
<1>3. ReturnsStaged
  BY <1>1, <1>2, GatherReturnsStaged
<1>4. RunsGoNoFurther
  BY EndKeeps, TreeOfJobs DEF GatherError, Return
<1> QED
  BY <1>3, <1>4, EndIsQuiet DEF Quiet, AnswersWritten
LEMMA ProjectErrorIsQuiet ==
  ASSUME FlowInv, NEW k \in Runs, ProjectError(k),
         UNCHANGED <<write, files, manifest, attempt, gathered>>
  PROVE  Quiet
<1>1. RunsGoNoFurther
  BY EndKeeps, TreeOfJobs DEF ProjectError, Return
<1>2. answer'.kind = "message" => answer.kind = "message"
  BY DEF ProjectError, NoAnswer
<1> QED
  BY <1>1, <1>2, EndIsQuiet DEF Quiet, AnswersWritten, ReturnsStaged
LEMMA ThrowIsQuiet ==
  ASSUME FlowInv, NEW j \in Job, NEW k \in Runs, Throw(j, k),
         UNCHANGED <<write, files, manifest, attempt, gathered, answer>>
  PROVE  Quiet
<1>1. RunsGoNoFurther
  BY EndKeeps DEF Throw
<1> QED
  BY <1>1, EndIsQuiet DEF Quiet, AnswersWritten, ReturnsStaged

\* What the runs of the gather jobs do to the files.
LEMMA GatherWrites ==
  ASSUME FlowInv, NEW t \in Tasks, NEW k \in Runs,
         MergeParts(t, k) \/ OpenImage(t, k) \/ StoreImage(t, k) \/ ReplyGathered(t, k)
  PROVE  Quiet \/ Names(t, k) \/ OpensFile(t, k) \/ FillsFile(t, k)
<1>1. t \in Job /\ "staged" \notin Tracked
  BY TreeOfJobs DEF Tracked
<1>2. CASE MergeParts(t, k)
  <2>1. UNCHANGED <<attempt, answer, painted, files, manifest>> /\ pc[t][k] = "fresh"
    BY <1>2 DEF MergeParts
  <2>2. CASE Throw(t, k) /\ UNCHANGED <<gathered, write>>
    BY <1>1, <2>1, <2>2, ThrowIsQuiet
  <2>3. CASE GatherError(t, k) /\ UNCHANGED write
    BY <2>1, <2>3, GatherErrorIsQuiet
  <2>4. CASE NameImage(t, k) /\ UNCHANGED gathered
    BY <2>1, <2>4 DEF Names, returns
  <2> QED
    BY <1>2, <2>2, <2>3, <2>4 DEF MergeParts
<1>3. CASE OpenImage(t, k)
  <2>1. UNCHANGED <<attempt, returns, manifest>> /\ pc[t][k] = "named"
    BY <1>3 DEF OpenImage
  <2>2. CASE pc' = [pc EXCEPT ![t][k] = "staged"] /\ UNCHANGED <<write, files>>
    <3>1. RunsMove
      BY <1>1, <2>1, <2>2, UntrackedIsQuiet
    <3> QED
      BY <2>1, <2>2, <3>1 DEF Quiet, ReturnsStaged, AnswersWritten, returns
  <2>3. CASE /\ pc' = [pc EXCEPT ![t][k] = "storing"]
             /\ Opens(t, k, write[t][k].file)
             /\ files' = [files EXCEPT ![write[t][k].file] = Partial]
    BY <2>1, <2>3 DEF OpensFile
  <2> QED
    BY <1>3, <2>2, <2>3 DEF OpenImage
<1>4. CASE StoreImage(t, k)
  <2>1. /\ UNCHANGED <<attempt, returns, manifest>> /\ pc[t][k] = "storing"
        /\ pc' = [pc EXCEPT ![t][k] = "staged"]
    BY <1>4 DEF StoreImage
  <2>2. CASE UNCHANGED <<write, files>>
    <3>1. RunsMove
      BY <1>1, <2>1, <2>2, UntrackedIsQuiet
    <3> QED
      BY <2>1, <2>2, <3>1 DEF Quiet, ReturnsStaged, AnswersWritten, returns
  <2>3. CASE /\ WritesAll(t, k)
             /\ \E c \in ImageAfter(t, k) : files' = [files EXCEPT ![write[t][k].file] = c]
    BY <2>1, <2>3 DEF FillsFile
  <2> QED
    BY <1>4, <2>2, <2>3 DEF StoreImage
<1>5. CASE ReplyGathered(t, k)
  <2>1. UNCHANGED <<attempt, write, answer, files, manifest>>
    BY <1>5 DEF ReplyGathered
  <2>2. CASE GatherError(t, k)
    BY <2>1, <2>2, GatherErrorIsQuiet
  <2> DEFINE r == [kind |-> "message", result |-> StageResult(t, k)]
  <2>3. CASE Return(t, k) /\ gathered' = IF Holds(t, k) THEN [gathered EXCEPT ![t] = r] ELSE gathered
    <3>1. r.result = StageResult(t, k)
      OBVIOUS
    <3> HIDE DEF r
    <3>2. ReturnsStaged
      BY <2>3, <3>1, GatherReturnsStaged
    <3>3. RunsGoNoFurther
      BY <1>1, <2>3, EndKeeps DEF Return
    <3> QED
      BY <2>1, <3>2, <3>3, EndIsQuiet DEF Quiet, AnswersWritten
  <2> QED
    BY <1>5, <2>2, <2>3 DEF ReplyGathered
<1> QED
  BY <1>2, <1>3, <1>4, <1>5

\* What the runs of the project job do to the manifest.
LEMMA ProjectWrites ==
  ASSUME FlowInv, NEW k \in Runs,
         Collect(k) \/ OpenManifest(k) \/ WriteManifest(k) \/ ReplyProject(k)
  PROVE  Quiet \/ OpensManifest(k) \/ FillsManifest(k)
<1>1. Project \in Job /\ "collected" \notin Tracked
  BY TreeOfJobs DEF Tracked
<1>2. CASE Collect(k)
  <2>1. UNCHANGED <<attempt, write, gathered, files, manifest>>
    BY <1>2 DEF Collect
  <2>2. CASE Throw(Project, k) /\ UNCHANGED answer
    BY <1>1, <2>1, <2>2, ThrowIsQuiet
  <2>3. CASE ProjectError(k)
    BY <2>1, <2>3, ProjectErrorIsQuiet
  <2>4. CASE pc' = [pc EXCEPT ![Project][k] = "collected"] /\ UNCHANGED answer
    <3>1. RunsMove
      BY <1>1, <2>1, <2>4, UntrackedIsQuiet
    <3> QED
      BY <2>1, <2>4, <3>1 DEF Quiet, ReturnsStaged, AnswersWritten
  <2> QED
    BY <1>2, <2>2, <2>3, <2>4 DEF Collect
<1>3. CASE OpenManifest(k)
  <2>1. UNCHANGED <<attempt, painted, gathered, files>> /\ pc[Project][k] = "collected"
    BY <1>3 DEF OpenManifest
  <2>2. CASE ProjectError(k) /\ UNCHANGED <<write, manifest>>
    BY <2>1, <2>2, ProjectErrorIsQuiet
  <2>3. CASE /\ pc' = [pc EXCEPT ![Project][k] = "writing"]
             /\ Opens(Project, k, ManifestName)
             /\ UNCHANGED answer
    BY <2>1, <2>3 DEF OpensManifest, returns
  <2> QED
    BY <1>3, <2>2, <2>3 DEF OpenManifest
<1>4. CASE WriteManifest(k)
  <2>1. UNCHANGED <<attempt, painted, gathered, files>> /\ pc[Project][k] = "writing"
    BY <1>4 DEF WriteManifest
  <2>2. CASE ProjectError(k) /\ UNCHANGED <<write, manifest>>
    BY <2>1, <2>2, ProjectErrorIsQuiet
  <2>3. CASE /\ pc' = [pc EXCEPT ![Project][k] = "written"]
             /\ WritesAll(Project, k)
             /\ manifest' \in ManifestAfter(k)
             /\ UNCHANGED answer
    BY <2>1, <2>3 DEF FillsManifest, returns
  <2> QED
    BY <1>4, <2>2, <2>3 DEF WriteManifest
<1>5. CASE ReplyProject(k)
  <2>1. UNCHANGED <<attempt, write, gathered, files, manifest>> /\ pc[Project][k] = "written"
    BY <1>5 DEF ReplyProject
  <2>2. RunsGoNoFurther
    BY <1>1, <1>5, EndKeeps DEF ReplyProject, ProjectError, Return
  <2> QED
    BY <2>1, <2>2, EndIsQuiet DEF Quiet, AnswersWritten, ReturnsStaged
<1> QED
  BY <1>2, <1>3, <1>4, <1>5

\* A step is quiet, or names, opens or fills a file or the manifest.
LEMMA WhatStepsWrite ==
  ASSUME FlowInv, [Next]_vars
  PROVE  \/ Quiet
         \/ \E t \in Tasks, k \in Runs : Names(t, k) \/ OpensFile(t, k) \/ FillsFile(t, k)
         \/ \E k \in Runs : OpensManifest(k) \/ FillsManifest(k)
<1>1. CASE SubmitProject
  <2>1. RunsGoNoFurther /\ UNCHANGED <<attempt, write, files, manifest, gathered, answer>>
    BY <1>1 DEF SubmitProject, runVars, returns, RunsGoNoFurther
  <2> QED
    BY <2>1, EndIsQuiet DEF Quiet, ReturnsStaged, AnswersWritten
<1>2. ASSUME NEW j \in Job, NEW w \in Workers, Take(j, w) PROVE Quiet
  <2> DEFINE k == attempt[j] + 1
  <2>1. k \in Runs /\ attempt[j] \in Nat /\ k > attempt[j]
    BY <1>2, BoundsAssumption DEF FlowInv, TypeOK, RunsInv, Runs, Take
  <2>2. pc' = [pc EXCEPT ![j][k] = "fresh"] /\ attempt' = [attempt EXCEPT ![j] = k]
    BY <1>2 DEF Take
  <2> HIDE DEF k
  <2>3. /\ \A i \in Job : \A m \in Runs :
             pc'[i][m] = pc[i][m] \/ (i = j /\ m = k /\ pc'[i][m] = "fresh")
        /\ \A i \in Job : attempt'[i] = IF i = j THEN k ELSE attempt[i]
    BY <2>1, <2>2 DEF FlowInv, TypeOK
  <2>4. \A i \in Writers : attempt'[i] \in Nat /\ attempt[i] <= attempt'[i]
    <3> SUFFICES ASSUME NEW i \in Writers PROVE attempt'[i] \in Nat /\ attempt[i] <= attempt'[i]
      OBVIOUS
    <3>1. i \in Job /\ attempt[i] \in Nat /\ k \in Nat
      BY <2>1, WritersAndNames, RunNumbers
    <3> QED
      BY <2>1, <2>3, <3>1
  <2>5. RunsMove
    BY <2>1, <2>3, <2>4, WritersAndNames DEF RunsMove
  <2>6. UNCHANGED <<write, files, manifest, gathered, answer>>
    BY <1>2 DEF Take, returns
  <2> QED
    BY <2>5, <2>6 DEF Quiet, ReturnsStaged, AnswersWritten
<1>3. ASSUME NEW j \in Job, NEW k \in Runs, RunStep(j, k)
      PROVE  \/ Quiet
             \/ \E t \in Tasks : Names(t, k) \/ OpensFile(t, k) \/ FillsFile(t, k)
             \/ OpensManifest(k) \/ FillsManifest(k)
  <2>1. ASSUME j \in Parts, Paint(j, k) PROVE Quiet
    <3>1. UNCHANGED <<attempt, write, gathered, answer, files, manifest>>
      BY <2>1 DEF Paint
    <3>2. RunsGoNoFurther
      BY <2>1, EndKeeps DEF Paint, Throw, Return
    <3> QED
      BY <3>1, <3>2, EndIsQuiet DEF Quiet, ReturnsStaged, AnswersWritten
  <2>2. ASSUME j \in Tasks,
               MergeParts(j, k) \/ OpenImage(j, k) \/ StoreImage(j, k) \/ ReplyGathered(j, k)
        PROVE  Quiet \/ Names(j, k) \/ OpensFile(j, k) \/ FillsFile(j, k)
    BY <2>2, GatherWrites
  <2>3. ASSUME Collect(k) \/ OpenManifest(k) \/ WriteManifest(k) \/ ReplyProject(k)
        PROVE  Quiet \/ OpensManifest(k) \/ FillsManifest(k)
    BY <2>3, ProjectWrites
  <2> QED
    BY <1>3, <2>1, <2>2, <2>3 DEF RunStep
<1>4. ASSUME NEW j \in Job, DeadWorkerStalls(j) \/ LiveWorkerStalls(j) PROVE Quiet
  <2>1. RunsGoNoFurther /\ UNCHANGED <<attempt, write, files, manifest, gathered, answer>>
    BY <1>4 DEF DeadWorkerStalls, LiveWorkerStalls, Stall, runVars, returns, RunsGoNoFurther
  <2> QED
    BY <2>1, EndIsQuiet DEF Quiet, ReturnsStaged, AnswersWritten
<1>5. ASSUME NEW w \in Workers, Crash(w) PROVE Quiet
  <2>1. UNCHANGED <<attempt, write, files, manifest, gathered, answer>>
    BY <1>5 DEF Crash, returns
  <2>2. \A i \in Job : \A m \in Runs : pc'[i][m] = IF by[i][m] = w THEN "dead" ELSE pc[i][m]
    BY <1>5 DEF Crash
  <2>3. RunsGoNoFurther
    BY <2>2 DEF RunsGoNoFurther, Live
  <2> QED
    BY <2>1, <2>3, EndIsQuiet DEF Quiet, ReturnsStaged, AnswersWritten
<1>6. CASE UNCHANGED vars
  <2>1. RunsGoNoFurther /\ UNCHANGED <<attempt, write, files, manifest, gathered, answer>>
    BY <1>6 DEF vars, runVars, returns, RunsGoNoFurther
  <2> QED
    BY <2>1, EndIsQuiet DEF Quiet, ReturnsStaged, AnswersWritten
<1> QED
  BY <1>1, <1>2, <1>3, <1>4, <1>5, <1>6 DEF Next

\* A quiet step keeps what is known of the files and of the manifest.
LEMMA QuietKeeps ==
  ASSUME FlowInv, StoresInv, Quiet
  PROVE  StoresInv'
<1> UNCHANGED <<write, files, manifest>>
  BY DEF Quiet
<1>1. WriteInv'
  <2> SUFFICES ASSUME NEW i \in Writers, NEW k \in Runs
               PROVE  /\ write[i][k].at # "none" =>
                           k <= attempt'[i] /\ write[i][k].file \in NamesOf(i)
                      /\ pc'[i][k] = "fresh" => write[i][k].at = "none"
                      /\ pc'[i][k] = "named" => write[i][k].at = "named"
                      /\ pc'[i][k] \in {"storing", "writing"} => write[i][k].at \in {"open", "cut"}
                      /\ pc'[i][k] = "written" => write[i][k].at = "whole"
    BY DEF WriteInv
  <2>1. k \in Nat /\ attempt[i] \in Nat /\ attempt'[i] \in Nat /\ attempt[i] <= attempt'[i]
    BY WritersAndNames, RunNumbers DEF Quiet, RunsMove
  <2>2. /\ write[i][k].at # "none" => k <= attempt[i] /\ write[i][k].file \in NamesOf(i)
        /\ pc[i][k] = "fresh" => write[i][k].at = "none"
        /\ pc[i][k] = "named" => write[i][k].at = "named"
        /\ pc[i][k] \in {"storing", "writing"} => write[i][k].at \in {"open", "cut"}
        /\ pc[i][k] = "written" => write[i][k].at = "whole"
    BY DEF StoresInv, WriteInv, NamesOf
  <2>3. pc'[i][k] \in Tracked => pc'[i][k] = pc[i][k] \/ (pc'[i][k] = "fresh" /\ k > attempt[i])
    BY DEF Quiet, RunsMove
  <2> QED
    BY <2>1, <2>2, <2>3 DEF Tracked
<1>2. FilesInv'
  <2>1. ASSUME NEW t \in Tasks, gathered'[t].result.outcome = "OK"
        PROVE  \E k \in Runs : write[t][k].at = "whole" /\ write[t][k].file = gathered'[t].result.file
    <3>1. CASE gathered'[t].result = gathered[t].result
      BY <2>1, <3>1 DEF StoresInv, FilesInv
    <3>2. CASE gathered'[t].result = NoResult
      BY <2>1, <3>2 DEF NoResult
    <3>3. CASE \E k \in Runs : gathered'[t].result = StageResult(t, k)
      BY <2>1, <3>3 DEF StageResult, Failure
    <3> QED
      BY <3>1, <3>2, <3>3 DEF Quiet, ReturnsStaged
  <2>2. \A t \in Tasks : \A k \in Runs :
          write[t][k].at \in Opened => Held(t, k)'
    BY DEF StoresInv, FilesInv, Held, Disturbed
  <2> QED
    BY <2>1, <2>2 DEF FilesInv
<1>3. ManifestInv'
  <2>1. ASSUME answer'.kind = "message" PROVE \E k \in Runs : write[Project][k].at \in Opened
    <3>1. CASE answer.kind = "message"
      BY <3>1 DEF StoresInv, ManifestInv
    <3>2. CASE \E k \in Runs : pc[Project][k] = "written"
      BY <3>2, WritersAndNames DEF StoresInv, WriteInv, NamesOf, Opened
    <3> QED
      BY <2>1, <3>1, <3>2 DEF Quiet, AnswersWritten
  <2> QED
    BY <2>1 DEF StoresInv, ManifestInv
<1> QED
  BY <1>1, <1>2, <1>3 DEF StoresInv

\* What a run of one writer does to what is known of the extents.
LEMMA ExtentsKept ==
  ASSUME FlowInv, WriteInv, UNCHANGED attempt,
         NEW i \in Writers, NEW k \in Runs, pc[i][k] \in Live,
         NEW b \in {"named", "storing", "staged", "writing", "written"},
         pc' = [pc EXCEPT ![i][k] = b],
         write'[i][k].file \in NamesOf(i),
         b = "named" => write'[i][k].at = "named",
         b \in {"storing", "writing"} => write'[i][k].at \in {"open", "cut"},
         b = "written" => write'[i][k].at = "whole",
         \A u \in Writers : \A m \in Runs :
           ~(u = i /\ m = k) =>
             \/ write'[u][m] = write[u][m]
             \/ /\ write'[u][m].file = write[u][m].file
                /\ write[u][m].at = "open" /\ write'[u][m].at = "cut"
  PROVE  WriteInv'
<1> SUFFICES ASSUME NEW u \in Writers, NEW m \in Runs
             PROVE  /\ write'[u][m].at # "none" =>
                         m <= attempt[u] /\ write'[u][m].file \in NamesOf(u)
                    /\ pc'[u][m] = "fresh" => write'[u][m].at = "none"
                    /\ pc'[u][m] = "named" => write'[u][m].at = "named"
                    /\ pc'[u][m] \in {"storing", "writing"} => write'[u][m].at \in {"open", "cut"}
                    /\ pc'[u][m] = "written" => write'[u][m].at = "whole"
  BY DEF WriteInv
<1>1. pc'[u][m] = IF u = i /\ m = k THEN b ELSE pc[u][m]
  BY WritersAndNames DEF FlowInv, TypeOK
<1>2. CASE u = i /\ m = k
  <2>1. k <= attempt[i]
    BY WritersAndNames DEF FlowInv, RunsInv
  <2> QED
    BY <1>1, <1>2, <2>1
<1>3. CASE ~(u = i /\ m = k)
  BY <1>1, <1>3 DEF WriteInv
<1> QED
  BY <1>2, <1>3

\* A step that opens and fills no image leaves the files as they are.
LEMMA FilesUntouched ==
  ASSUME FilesInv, UNCHANGED <<files, gathered>>,
         \A u \in Tasks : \A m \in Runs :
           \/ write'[u][m] = write[u][m]
           \/ write[u][m].at \notin Opened /\ write'[u][m].at \notin Opened
  PROVE  FilesInv'
<1>1. {"open", "whole"} \subseteq Opened
  BY DEF Opened
<1>2. ASSUME NEW t \in Tasks, NEW name, Disturbed(t, name) PROVE Disturbed(t, name)'
  <2>1. CASE \E u \in Tasks \ {t} : \E m \in Runs : write[u][m].file = name /\ write[u][m].at \in Opened
    BY <2>1 DEF Disturbed
  <2>2. CASE \E m \in Runs : write[t][m] = [file |-> name, at |-> "open"]
    <3>1. PICK m \in Runs : write[t][m] = [file |-> name, at |-> "open"]
      BY <2>2
    <3>2. write'[t][m] = write[t][m]
      BY <1>1, <3>1
    <3> QED
      BY <3>1, <3>2 DEF Disturbed
  <2> QED
    BY <1>2, <2>1, <2>2 DEF Disturbed
<1>3. ASSUME NEW t \in Tasks, NEW k \in Runs, write'[t][k].at \in Opened
      PROVE  Held(t, k)'
  <2>1. write'[t][k] = write[t][k]
    BY <1>3
  <2>2. PICK name : name = write[t][k].file
    OBVIOUS
  <2>3. files[name] = t \/ Disturbed(t, name)
    BY <1>3, <2>1, <2>2 DEF FilesInv, Held, Disturbed
  <2>4. files[name] = t \/ Disturbed(t, name)'
    BY <1>2, <2>3
  <2> QED
    BY <2>1, <2>2, <2>4 DEF Held, Disturbed
<1>4. ASSUME NEW t \in Tasks, gathered'[t].result.outcome = "OK"
      PROVE  \E k \in Runs : write'[t][k].at = "whole" /\ write'[t][k].file = gathered'[t].result.file
  <2>1. PICK k \in Runs : write[t][k].at = "whole" /\ write[t][k].file = gathered[t].result.file
    BY <1>4 DEF FilesInv
  <2>2. write'[t][k] = write[t][k]
    BY <1>1, <2>1
  <2> QED
    BY <2>1, <2>2
<1> QED
  BY <1>3, <1>4 DEF FilesInv

\* A step of a gather job leaves the manifest as it is.
LEMMA ManifestUntouched ==
  ASSUME ManifestInv, UNCHANGED <<manifest, answer>>,
         \A m \in Runs : write'[Project][m] = write[Project][m]
  PROVE  ManifestInv'
  BY DEF ManifestInv

\* A run that names its file has opened none before, and opens none.
LEMMA NamesKeeps ==
  ASSUME FlowInv, StoresInv, NEW t \in Tasks, NEW k \in Runs, Names(t, k)
  PROVE  StoresInv'
<1>1. /\ t \in Writers /\ t # Project /\ pc[t][k] = "fresh" /\ pc[t][k] \in Live
      /\ pc' = [pc EXCEPT ![t][k] = "named"]
      /\ UNCHANGED <<attempt, gathered, answer, files, manifest>>
  BY WritersAndNames, TreeOfJobs DEF Names, NameImage, Live, returns
<1>2. PICK name \in FileName : write' = [write EXCEPT ![t][k] = [file |-> name, at |-> "named"]]
  <2>1. PICK time \in now .. MaxTime :
          write' = [write EXCEPT ![t][k] = [file |-> <<SeedOf[t], time>>, at |-> "named"]]
    BY DEF Names, NameImage
  <2>2. <<SeedOf[t], time>> \in FileName
    BY BoundsAssumption DEF FlowInv, TypeOK, FileName
  <2> QED
    BY <2>1, <2>2
<1>3. /\ write'[t][k] = [file |-> name, at |-> "named"]
      /\ \A u \in Writers : \A m \in Runs : ~(u = t /\ m = k) => write'[u][m] = write[u][m]
  BY <1>1, <1>2 DEF FlowInv, TypeOK
<1>4. write[t][k].at = "none"
  BY <1>1 DEF StoresInv, WriteInv, NamesOf
<1>5. WriteInv'
  <2>1. /\ write'[t][k].file \in NamesOf(t)
        /\ \A u \in Writers : \A m \in Runs :
             ~(u = t /\ m = k) =>
               \/ write'[u][m] = write[u][m]
               \/ /\ write'[u][m].file = write[u][m].file
                  /\ write[u][m].at = "open" /\ write'[u][m].at = "cut"
    BY <1>1, <1>3 DEF NamesOf
  <2>2. /\ "named" \in {"named", "storing", "staged", "writing", "written"}
        /\ write'[t][k].at = "named"
    BY <1>1, <1>3
  <2>3. /\ t \in Writers /\ pc[t][k] \in Live
        /\ pc' = [pc EXCEPT ![t][k] = "named"]
        /\ UNCHANGED attempt
    BY <1>1
  <2> QED
    BY <2>1, <2>2, <2>3, ExtentsKept DEF StoresInv
<1>6. FilesInv'
  <2>1. "none" \notin Opened /\ "named" \notin Opened
    BY DEF Opened
  <2>2. \A u \in Tasks : \A m \in Runs :
          \/ write'[u][m] = write[u][m]
          \/ write[u][m].at \notin Opened /\ write'[u][m].at \notin Opened
    BY <1>3, <1>4, <2>1, WritersAndNames
  <2> QED
    BY <1>1, <2>2, FilesUntouched DEF StoresInv
<1>7. ManifestInv'
  BY <1>1, <1>3, WritersAndNames, ManifestUntouched DEF StoresInv
<1> QED
  BY <1>5, <1>6, <1>7 DEF StoresInv

\* What disturbed a file goes on to, unless the run that last opened it writes it all
\* or is cut.
LEMMA DisturbedStays ==
  ASSUME NEW t \in Tasks, NEW name, Disturbed(t, name),
         \A u \in Tasks \ {t} : \A m \in Runs :
           write[u][m].file = name /\ write[u][m].at \in Opened =>
             write'[u][m].file = name /\ write'[u][m].at \in Opened,
         \A m \in Runs : write[t][m] = [file |-> name, at |-> "open"] => write'[t][m] = write[t][m]
  PROVE  Disturbed(t, name)'
  BY DEF Disturbed

\* Opening a file leaves its opener still to write it, and every other task disturbed.
LEMMA OpensFileKeeps ==
  ASSUME FlowInv, StoresInv, NEW t \in Tasks, NEW k \in Runs, OpensFile(t, k)
  PROVE  StoresInv'
<1>0. PICK n : n = write[t][k].file
  OBVIOUS
<1>1. /\ t \in Writers /\ t # Project /\ pc[t][k] = "named" /\ pc[t][k] \in Live
      /\ pc' = [pc EXCEPT ![t][k] = "storing"]
      /\ files' = [files EXCEPT ![n] = Partial]
      /\ UNCHANGED <<attempt, gathered, answer, manifest>>
  BY <1>0, WritersAndNames, TreeOfJobs DEF OpensFile, Live, returns
<1>2. n \in FileName /\ write[t][k].at = "named" /\ write[t][k].file = n
  BY <1>0, <1>1 DEF StoresInv, WriteInv, NamesOf
<1>3. Opens(t, k, n)
  BY <1>0 DEF OpensFile
<1>4. /\ write'[t][k] = [file |-> n, at |-> "open"]
      /\ \A u \in Writers : \A m \in Runs :
           ~(u = t /\ m = k) => \/ write'[u][m] = write[u][m]
                               \/ /\ write[u][m] = [file |-> n, at |-> "open"]
                                  /\ write'[u][m] = [file |-> n, at |-> "cut"]
  BY <1>1, <1>2, <1>3, OpensWhat
<1>5. \A u \in Writers : \A m \in Runs :
        ~(u = t /\ m = k) => \/ write'[u][m] = write[u][m]
                            \/ /\ write'[u][m].file = write[u][m].file
                               /\ write[u][m].at = "open" /\ write'[u][m].at = "cut"
  BY <1>4
<1>6. WriteInv'
  <2>1. /\ write'[t][k].file \in NamesOf(t)
        /\ \A u \in Writers : \A m \in Runs :
             ~(u = t /\ m = k) =>
               \/ write'[u][m] = write[u][m]
               \/ /\ write'[u][m].file = write[u][m].file
                  /\ write[u][m].at = "open" /\ write'[u][m].at = "cut"
    BY <1>1, <1>2, <1>4, <1>5 DEF NamesOf
  <2>2. /\ "storing" \in {"named", "storing", "staged", "writing", "written"}
        /\ write'[t][k].at = "open"
    BY <1>1, <1>2, <1>4, <1>5
  <2>3. /\ t \in Writers /\ pc[t][k] \in Live
        /\ pc' = [pc EXCEPT ![t][k] = "storing"]
        /\ UNCHANGED attempt
    BY <1>1
  <2> QED
    BY <2>1, <2>2, <2>3, ExtentsKept DEF StoresInv
<1>7. \A f \in FileName : f # n => files'[f] = files[f]
  BY <1>1, <1>2 DEF FlowInv, TypeOK
<1>8. {"open", "cut"} \subseteq Opened /\ "named" \notin Opened
  BY DEF Opened
<1>9. ASSUME NEW u \in Tasks, NEW m \in Runs, write'[u][m].at \in Opened
      PROVE  Held(u, m)'
  <2>1. PICK f : f = write'[u][m].file
    OBVIOUS
  <2>2. CASE f = n
    <3>1. CASE u = t
      BY <1>4, <2>1, <2>2, <3>1 DEF Held, Disturbed
    <3>2. CASE u # t
      <4>1. write'[t][k].file = f /\ write'[t][k].at \in Opened /\ t \in Tasks \ {u}
        BY <1>4, <1>8, <2>2, <3>2
      <4> QED
        BY <2>1, <4>1 DEF Held, Disturbed
    <3> QED
      BY <3>1, <3>2
  <2>3. CASE f # n
    <3>1. ~(u = t /\ m = k) /\ write'[u][m] = write[u][m]
      BY <1>4, <2>1, <2>3, WritersAndNames
    <3>2. f \in FileName /\ write[u][m].file = f /\ write[u][m].at \in Opened
      <4>1. write[u][m].at # "none" /\ u # Project /\ u \in Writers
        BY <1>9, <3>1, WritersAndNames, TreeOfJobs DEF Opened
      <4> QED
        BY <1>9, <2>1, <3>1, <4>1 DEF StoresInv, WriteInv, NamesOf
    <3>3. files[f] = u \/ Disturbed(u, f)
      BY <3>2 DEF StoresInv, FilesInv, Held, Disturbed
    <3>4. ASSUME Disturbed(u, f) PROVE Disturbed(u, f)'
      <4>1. \A v \in Tasks \ {u} : \A l \in Runs :
              write[v][l].file = f /\ write[v][l].at \in Opened =>
                write'[v][l].file = f /\ write'[v][l].at \in Opened
        <5>1. ASSUME NEW v \in Tasks, NEW l \in Runs, write[v][l].file = f, write[v][l].at \in Opened
              PROVE  write'[v][l] = write[v][l]
          BY <1>2, <1>4, <1>8, <2>3, <5>1, WritersAndNames
        <5> QED
          BY <5>1
      <4>2. \A l \in Runs :
              write[u][l] = [file |-> f, at |-> "open"] => write'[u][l] = write[u][l]
        BY <1>2, <1>4, <2>3, WritersAndNames
      <4> QED
        BY <3>4, <4>1, <4>2, DisturbedStays
    <3>5. files'[f] = files[f]
      BY <1>7, <2>3, <3>2
    <3>6. files'[f] = u \/ Disturbed(u, f)'
      BY <3>3, <3>4, <3>5
    <3> QED
      BY <2>1, <3>6 DEF Held, Disturbed
  <2> QED
    BY <2>2, <2>3
<1>10. ASSUME NEW u \in Tasks, gathered'[u].result.outcome = "OK"
       PROVE  \E m \in Runs : write'[u][m].at = "whole" /\ write'[u][m].file = gathered'[u].result.file
  <2>1. PICK m \in Runs : write[u][m].at = "whole" /\ write[u][m].file = gathered[u].result.file
    BY <1>1, <1>10 DEF StoresInv, FilesInv
  <2>2. write'[u][m] = write[u][m]
    BY <1>2, <1>4, <2>1, WritersAndNames
  <2> QED
    BY <1>1, <2>1, <2>2
<1>11. FilesInv'
  BY <1>9, <1>10 DEF FilesInv
<1>12. ManifestInv'
  <2>1. ASSUME NEW m \in Runs PROVE write'[Project][m] = write[Project][m]
    <3>1. write[Project][m].at # "none" => write[Project][m].file = ManifestName
      BY WritersAndNames DEF StoresInv, WriteInv, NamesOf
    <3> QED
      BY <1>1, <1>2, <1>4, <3>1, WritersAndNames
  <2> QED
    BY <1>1, <2>1, ManifestUntouched DEF StoresInv
<1> QED
  BY <1>6, <1>11, <1>12 DEF StoresInv

\* A run that writes all of a file makes it hold its image, if it was the last to open
\* it or had its bytes there already, and no run of another task has opened it.
LEMMA FillsFileKeeps ==
  ASSUME FlowInv, StoresInv, NEW t \in Tasks, NEW k \in Runs, FillsFile(t, k)
  PROVE  StoresInv'
<1>0. PICK n : n = write[t][k].file
  OBVIOUS
<1>1. /\ t \in Writers /\ t # Project /\ pc[t][k] = "storing" /\ pc[t][k] \in Live
      /\ pc' = [pc EXCEPT ![t][k] = "staged"]
      /\ WritesAll(t, k)
      /\ UNCHANGED <<attempt, gathered, answer, manifest>>
  BY WritersAndNames, TreeOfJobs DEF FillsFile, Live, returns
<1>2. PICK c \in ImageAfter(t, k) : files' = [files EXCEPT ![n] = c]
  BY <1>0 DEF FillsFile
<1>3. n \in FileName /\ write[t][k].at \in {"open", "cut"} /\ write[t][k].file = n
  BY <1>0, <1>1 DEF StoresInv, WriteInv, NamesOf
<1>4. /\ write'[t][k] = [file |-> n, at |-> "whole"]
      /\ \A u \in Writers : \A m \in Runs : ~(u = t /\ m = k) => write'[u][m] = write[u][m]
  BY <1>0, <1>1, WritesAllWhat
<1>5. \/ c = t
      \/ /\ \A u \in Tasks \ {t} : \A m \in Runs :
              write[u][m].file = n => write[u][m].at \notin {"open", "cut"}
         /\ write[t][k].at # "open" /\ files[n] # t
      \/ \E u \in Tasks \ {t} : \E m \in Runs :
           write[u][m].file = n /\ write[u][m].at \in {"open", "cut"}
  BY <1>0, <1>2 DEF ImageAfter
<1>6. WriteInv'
  <2>1. /\ write'[t][k].file \in NamesOf(t)
        /\ \A u \in Writers : \A m \in Runs :
             ~(u = t /\ m = k) =>
               \/ write'[u][m] = write[u][m]
               \/ /\ write'[u][m].file = write[u][m].file
                  /\ write[u][m].at = "open" /\ write'[u][m].at = "cut"
    BY <1>1, <1>3, <1>4 DEF NamesOf
  <2>2. /\ "staged" \in {"named", "storing", "staged", "writing", "written"}
        /\ write'[t][k].at = "whole"
    BY <1>1, <1>3, <1>4
  <2>3. /\ t \in Writers /\ pc[t][k] \in Live
        /\ pc' = [pc EXCEPT ![t][k] = "staged"]
        /\ UNCHANGED attempt
    BY <1>1
  <2> QED
    BY <2>1, <2>2, <2>3, ExtentsKept DEF StoresInv
<1>7. files'[n] = c /\ \A f \in FileName : f # n => files'[f] = files[f]
  BY <1>2, <1>3 DEF FlowInv, TypeOK
<1>8. {"open", "cut", "whole"} \subseteq Opened
  BY DEF Opened
<1>9. files'[n] = t \/ Disturbed(t, n)'
  <2>1. CASE c = t
    BY <1>7, <2>1
  <2>2. CASE \E u \in Tasks \ {t} : \E m \in Runs :
               write[u][m].file = n /\ write[u][m].at \in Opened
    <3>1. PICK u \in Tasks \ {t}, m \in Runs : write[u][m].file = n /\ write[u][m].at \in Opened
      BY <2>2
    <3>2. write'[u][m] = write[u][m]
      BY <1>4, <3>1, WritersAndNames
    <3> QED
      BY <3>1, <3>2 DEF Disturbed
  <2>3. CASE /\ write[t][k].at # "open" /\ files[n] # t
             /\ ~\E u \in Tasks \ {t} : \E m \in Runs :
                   write[u][m].file = n /\ write[u][m].at \in Opened
    <3>1. write[t][k].at \in Opened
      BY <1>3, <1>8
    <3>2. files[n] = t \/ Disturbed(t, n)
      BY <1>3, <3>1 DEF StoresInv, FilesInv, Held, Disturbed
    <3>3. PICK m \in Runs : write[t][m] = [file |-> n, at |-> "open"]
      BY <2>3, <3>2 DEF Disturbed
    <3>4. m # k
      BY <2>3, <3>3
    <3>5. write'[t][m] = write[t][m]
      BY <1>1, <1>4, <3>4
    <3> QED
      BY <3>3, <3>5 DEF Disturbed
  <2> QED
    BY <1>5, <1>8, <2>1, <2>2, <2>3
<1>10. ASSUME NEW u \in Tasks, NEW m \in Runs, write'[u][m].at \in Opened
       PROVE  Held(u, m)'
  <2>4. PICK f : f = write'[u][m].file
    OBVIOUS
  <2>1. CASE f = n /\ u = t
    BY <1>9, <2>1, <2>4 DEF Held, Disturbed
  <2>2. CASE f = n /\ u # t
    <3>1. write'[t][k].file = f /\ write'[t][k].at \in Opened /\ t \in Tasks \ {u}
      BY <1>4, <1>8, <2>2
    <3> QED
      BY <2>4, <3>1 DEF Held, Disturbed
  <2>3. CASE f # n
    <3>1. write'[u][m] = write[u][m]
      BY <1>4, <2>3, <2>4, WritersAndNames
    <3>2. f \in FileName /\ write[u][m].file = f /\ write[u][m].at \in Opened
      <4>1. write[u][m].at # "none" /\ u # Project /\ u \in Writers
        BY <1>10, <3>1, WritersAndNames, TreeOfJobs DEF Opened
      <4> QED
        BY <1>10, <2>4, <3>1, <4>1 DEF StoresInv, WriteInv, NamesOf
    <3>3. files[f] = u \/ Disturbed(u, f)
      BY <3>2 DEF StoresInv, FilesInv, Held, Disturbed
    <3>4. ASSUME NEW v \in Tasks, NEW l \in Runs, write[v][l].file = f
          PROVE  write'[v][l] = write[v][l]
      <4>1. ~(v = t /\ l = k)
        BY <1>3, <2>3, <3>4
      <4> QED
        BY <1>4, <4>1, WritersAndNames
    <3>5. ASSUME Disturbed(u, f) PROVE Disturbed(u, f)'
      <4>1. \A v \in Tasks \ {u} : \A l \in Runs :
              write[v][l].file = f /\ write[v][l].at \in Opened =>
                write'[v][l].file = f /\ write'[v][l].at \in Opened
        BY <3>4
      <4>2. \A l \in Runs :
              write[u][l] = [file |-> f, at |-> "open"] => write'[u][l] = write[u][l]
        BY <3>4
      <4> QED
        BY <3>5, <4>1, <4>2, DisturbedStays
    <3>6. files'[f] = files[f]
      BY <1>7, <2>3, <3>2
    <3>7. files'[f] = u \/ Disturbed(u, f)'
      BY <3>3, <3>5, <3>6
    <3> QED
      BY <2>4, <3>7 DEF Held, Disturbed
  <2> QED
    BY <2>1, <2>2, <2>3
<1>11. ASSUME NEW u \in Tasks, gathered'[u].result.outcome = "OK"
       PROVE  \E m \in Runs : write'[u][m].at = "whole" /\ write'[u][m].file = gathered'[u].result.file
  <2>1. PICK m \in Runs : write[u][m].at = "whole" /\ write[u][m].file = gathered[u].result.file
    BY <1>1, <1>11 DEF StoresInv, FilesInv
  <2>2. write'[u][m] = write[u][m]
    BY <1>3, <1>4, <2>1, WritersAndNames
  <2> QED
    BY <1>1, <2>1, <2>2
<1>12. FilesInv'
  BY <1>10, <1>11 DEF FilesInv
<1>13. ManifestInv'
  BY <1>1, <1>4, WritersAndNames, ManifestUntouched DEF StoresInv
<1> QED
  BY <1>6, <1>12, <1>13 DEF StoresInv

\* Opening the manifest leaves its opener still to write it.
LEMMA OpensManifestKeeps ==
  ASSUME FlowInv, StoresInv, NEW k \in Runs, OpensManifest(k)
  PROVE  StoresInv'
<1>1. /\ Project \in Writers /\ pc[Project][k] = "collected" /\ pc[Project][k] \in Live
      /\ pc' = [pc EXCEPT ![Project][k] = "writing"]
      /\ UNCHANGED <<attempt, gathered, answer, files>>
  BY WritersAndNames DEF OpensManifest, Live, returns
<1>2. /\ write'[Project][k] = [file |-> ManifestName, at |-> "open"]
      /\ \A u \in Writers : \A m \in Runs :
           ~(u = Project /\ m = k) => \/ write'[u][m] = write[u][m]
                                     \/ /\ write[u][m] = [file |-> ManifestName, at |-> "open"]
                                        /\ write'[u][m] = [file |-> ManifestName, at |-> "cut"]
  BY <1>1, OpensWhat DEF OpensManifest
<1>3. \A u \in Writers : \A m \in Runs :
        ~(u = Project /\ m = k) => \/ write'[u][m] = write[u][m]
                                  \/ /\ write'[u][m].file = write[u][m].file
                                     /\ write[u][m].at = "open" /\ write'[u][m].at = "cut"
  BY <1>2
<1>4. WriteInv'
  <2>1. /\ write'[Project][k].file \in NamesOf(Project)
        /\ \A u \in Writers : \A m \in Runs :
             ~(u = Project /\ m = k) =>
               \/ write'[u][m] = write[u][m]
               \/ /\ write'[u][m].file = write[u][m].file
                  /\ write[u][m].at = "open" /\ write'[u][m].at = "cut"
    BY <1>1, <1>2, <1>3 DEF NamesOf
  <2>2. /\ "writing" \in {"named", "storing", "staged", "writing", "written"}
        /\ write'[Project][k].at = "open"
    BY <1>1, <1>2, <1>3
  <2>3. /\ Project \in Writers /\ pc[Project][k] \in Live
        /\ pc' = [pc EXCEPT ![Project][k] = "writing"]
        /\ UNCHANGED attempt
    BY <1>1
  <2> QED
    BY <2>1, <2>2, <2>3, ExtentsKept DEF StoresInv
<1>5. FilesInv'
  <2>1. ASSUME NEW u \in Tasks, NEW m \in Runs PROVE write'[u][m] = write[u][m]
    <3>1. u \in Writers /\ u # Project
      BY WritersAndNames, TreeOfJobs
    <3>2. write[u][m].at # "none" => write[u][m].file \in FileName
      BY <3>1 DEF StoresInv, WriteInv, NamesOf
    <3> QED
      BY <1>2, <3>1, <3>2, WritersAndNames
  <2> QED
    BY <1>1, <2>1, FilesUntouched DEF StoresInv
<1>6. ManifestInv'
  <2>1. write'[Project][k].at = "open"
    BY <1>2
  <2>2. "open" \in Opened
    BY DEF Opened
  <2> QED
    BY <2>1, <2>2 DEF ManifestInv
<1> QED
  BY <1>4, <1>5, <1>6 DEF StoresInv

\* A run that writes all of the manifest leaves it whole, unless a later opener is
\* still to write it: all runs write the same entries.
LEMMA FillsManifestKeeps ==
  ASSUME FlowInv, StoresInv, NEW k \in Runs, FillsManifest(k)
  PROVE  StoresInv'
<1>1. /\ Project \in Writers /\ pc[Project][k] = "writing" /\ pc[Project][k] \in Live
      /\ pc' = [pc EXCEPT ![Project][k] = "written"]
      /\ UNCHANGED <<attempt, gathered, answer, files>>
  BY WritersAndNames DEF FillsManifest, Live, returns
<1>2. write[Project][k].at \in {"open", "cut"} /\ write[Project][k].file = ManifestName
  BY <1>1 DEF StoresInv, WriteInv, NamesOf
<1>3. /\ write'[Project][k] = [file |-> ManifestName, at |-> "whole"]
      /\ \A u \in Writers : \A m \in Runs : ~(u = Project /\ m = k) => write'[u][m] = write[u][m]
  BY <1>1, <1>2, WritesAllWhat DEF FillsManifest
<1>4. WriteInv'
  <2>1. /\ write'[Project][k].file \in NamesOf(Project)
        /\ \A u \in Writers : \A m \in Runs :
             ~(u = Project /\ m = k) =>
               \/ write'[u][m] = write[u][m]
               \/ /\ write'[u][m].file = write[u][m].file
                  /\ write[u][m].at = "open" /\ write'[u][m].at = "cut"
    BY <1>1, <1>3 DEF NamesOf
  <2>2. /\ "written" \in {"named", "storing", "staged", "writing", "written"}
        /\ write'[Project][k].at = "whole"
    BY <1>1, <1>3
  <2>3. /\ Project \in Writers /\ pc[Project][k] \in Live
        /\ pc' = [pc EXCEPT ![Project][k] = "written"]
        /\ UNCHANGED attempt
    BY <1>1
  <2> QED
    BY <2>1, <2>2, <2>3, ExtentsKept DEF StoresInv
<1>5. FilesInv'
  BY <1>1, <1>3, WritersAndNames, TreeOfJobs, FilesUntouched DEF StoresInv
<1>6. ManifestInv'
  <2> DEFINE new == [kind |-> "whole", entries |-> Answers]
  <2>1. collected[k] = Answers
    BY <1>1 DEF FlowInv, ProjectInv
  <2>2. write[Project][k].at \in Opened /\ write'[Project][k].at \in Opened
    BY <1>2, <1>3 DEF Opened
  <2>3. CASE write[Project][k].at = "open" \/ manifest = new
    <3>1. manifest' = new
      BY <2>1, <2>3 DEF FillsManifest, ManifestAfter
    <3>2. manifest'.kind = "whole"
      BY <3>1
    <3> QED
      BY <2>2, <3>2 DEF ManifestInv
  <2>4. CASE write[Project][k].at # "open" /\ manifest # new
    <3>1. manifest.kind # "whole"
      <4>1. ASSUME manifest.kind = "whole" PROVE manifest = new
        <5>1. manifest.entries = Answers
          BY <4>1 DEF FlowInv, ProjectInv
        <5>2. manifest \in [kind : {"absent", "partial", "whole"}, entries : Entries]
          BY DEF FlowInv, TypeOK
        <5> QED
          BY <4>1, <5>1, <5>2
      <4> QED
        BY <2>4, <4>1
    <3>2. PICK m \in Runs : write[Project][m].at = "open"
      BY <2>2, <3>1 DEF StoresInv, ManifestInv
    <3>3. write'[Project][m] = write[Project][m]
      BY <1>1, <1>3, <2>4, <3>2
    <3> QED
      BY <2>2, <3>2, <3>3 DEF ManifestInv
  <2> QED
    BY <2>3, <2>4
<1> QED
  BY <1>4, <1>5, <1>6 DEF StoresInv

\* Nothing is opened, and nothing returned, at first.
LEMMA StoresInit == Init => StoresInv
<1> SUFFICES ASSUME Init PROVE StoresInv
  OBVIOUS
<1>1. /\ \A i \in Writers : \A k \in Runs : write[i][k].at = "none"
      /\ \A i \in Writers : \A k \in Runs : pc[i][k] = "none"
  BY WritersAndNames DEF Init, NoWrite
<1>2. /\ \A t \in Tasks : gathered[t].result.outcome = "none"
      /\ answer.kind = "none"
  BY DEF Init, NoResult, NoAnswer
<1>3. "none" \notin Opened
  BY DEF Opened
<1>4. WriteInv
  BY <1>1 DEF WriteInv
<1>5. FilesInv
  BY <1>1, <1>2, <1>3, WritersAndNames DEF FilesInv
<1>6. ManifestInv
  BY <1>1, <1>2, <1>3, WritersAndNames DEF ManifestInv
<1> QED
  BY <1>4, <1>5, <1>6 DEF StoresInv

LEMMA StoresStep == FlowInv /\ StoresInv /\ [Next]_vars => StoresInv'
  BY WhatStepsWrite, QuietKeeps, NamesKeeps, OpensFileKeeps, FillsFileKeeps, OpensManifestKeeps,
     FillsManifestKeeps

LEMMA StoresAlways == Spec => []StoresInv
  BY StoresInit, StoresStep, FlowAlways, PTL DEF Spec

\* However many runs write the manifest at once, once it is whole it says what the
\* gather jobs returned: all runs collected the same, as a gather job whose parent
\* has begun can return nothing more.  And once the project is answered it is whole,
\* or its last opener has not written it all.
THEOREM ManifestIsFaithful == Spec => []ManifestFaithful
<1>1. ASSUME FlowInv, StoresInv PROVE ManifestFaithful
  <2>1. ASSUME manifest.kind = "whole"
        PROVE  /\ \A t \in Tasks : job[t] = "completed"
               /\ DOMAIN manifest.entries = {t \in Tasks : gathered[t].kind = "message"}
               /\ \A t \in DOMAIN manifest.entries :
                    manifest.entries[t] = gathered[t].result
    <3>1. job[Project] \in Begun /\ manifest.entries = Answers
      BY <1>1, <2>1 DEF FlowInv, ProjectInv
    <3> QED
      BY <1>1, <3>1, AnswersAreFinal, AnswersAreEntries
  <2>2. answer.kind = "message" =>
          manifest.kind = "whole" \/ \E k \in Runs : write[Project][k].at = "open"
    BY <1>1 DEF StoresInv, ManifestInv
  <2> QED
    BY <2>1, <2>2 DEF ManifestFaithful
<1> QED
  BY <1>1, FlowAlways, StoresAlways, PTL

\* Each file a manifest or an answer names holds the image of the task it names it
\* for, however many runs of its gather job opened, cut, half-wrote or left it, unless
\* the last of them has not written it all or a run of another task opened it.
THEOREM StagedFilesAlwaysHold == Spec => []StagedFilesHold
<1>1. ASSUME FlowInv, StoresInv PROVE StagedFilesHold
  <2> SUFFICES ASSUME NEW e \in {manifest.entries, answer.entries},
                      NEW t \in DOMAIN e, e[t].outcome = "OK"
               PROVE  files[e[t].file] = t \/ Disturbed(t, e[t].file)
    BY DEF StagedFilesHold
  <2>1. e = Answers \/ e = NoEntries
    BY <1>1 DEF FlowInv, ProjectInv
  <2>2. e = Answers
    BY <2>1, NoEntriesIsEmpty
  <2>3. t \in Tasks /\ e[t] = gathered[t].result
    BY <1>1, <2>2, AnswersAreEntries
  <2>4. PICK k \in Runs : write[t][k].at = "whole" /\ write[t][k].file = e[t].file
    BY <1>1, <2>3 DEF StoresInv, FilesInv
  <2>5. write[t][k].at \in Opened
    BY <2>4 DEF Opened
  <2>6. files[write[t][k].file] = t \/ Disturbed(t, write[t][k].file)
    BY <1>1, <2>3, <2>5 DEF StoresInv, FilesInv, Held
  <2> QED
    BY <2>4, <2>6 DEF Disturbed
<1> QED
  BY <1>1, FlowAlways, StoresAlways, PTL

-----------------------------------------------------------------------------
(* PaintFlow implements ProjectContract.                                   *)

\* The variables of the contract.
Status ==
  IF job[Project] = "absent" THEN "idle"
  ELSE IF job[Project] = "completed" THEN "answered"
  ELSE IF \E j \in Job : job[j] = "failed" THEN "lost" ELSE "running"
Outcome ==
  [t \in Tasks |-> IF gathered[t].kind = "none" THEN "pending"
                   ELSE IF gathered[t].result.outcome = "OK" THEN "staged"
                   ELSE "failed"]
Report ==
  [kind |-> answer.kind, numCompleted |-> answer.numCompleted,
   numFatalErrors |-> answer.numFatalErrors]

\* The contract's formulas over these.
LEMMA ContractOver ==
  /\ UNCHANGED Contract!vars <=> UNCHANGED <<Status, Outcome, Report>>
  /\ Contract!Init <=>
       /\ Status = "idle"
       /\ Outcome = [t \in Tasks |-> "pending"]
       /\ Report = [kind |-> "none", numCompleted |-> 0, numFatalErrors |-> 0]
  /\ Contract!Submit <=>
       Status = "idle" /\ Status' = "running" /\ UNCHANGED <<Outcome, Report>>
  /\ Contract!Lose <=>
       Status = "running" /\ Status' = "lost" /\ UNCHANGED <<Outcome, Report>>
  /\ \A t \in Tasks :
       Contract!Decide(t) <=>
         /\ Status \in {"running", "lost"}
         /\ Outcome[t] = "pending"
         /\ \E o \in {"staged", "failed"} : Outcome' = [Outcome EXCEPT ![t] = o]
         /\ UNCHANGED <<Status, Report>>
  /\ Contract!Answer <=>
       /\ Status = "running"
       /\ \A t \in Tasks : Outcome[t] # "pending"
       /\ Status' = "answered"
       /\ Report' \in {[[kind |-> "none", numCompleted |-> 0, numFatalErrors |-> 0]
                          EXCEPT !.kind = "error"],
                       [kind |-> "message",
                        numCompleted |-> Cardinality({t \in Tasks : Outcome[t] = "staged"}),
                        numFatalErrors |-> Cardinality({t \in Tasks : Outcome[t] = "failed"})]}
       /\ UNCHANGED Outcome
<1>1. UNCHANGED Contract!vars <=> UNCHANGED <<Status, Outcome, Report>>
  BY Zenon DEF Contract!vars, Status, Outcome, Report
<1>2. Contract!Init <=>
       /\ Status = "idle"
       /\ Outcome = [t \in Tasks |-> "pending"]
       /\ Report = [kind |-> "none", numCompleted |-> 0, numFatalErrors |-> 0]
  BY Zenon DEF Contract!Init, Contract!NoReport, Status, Outcome, Report
<1>3. Contract!Submit <=>
       Status = "idle" /\ Status' = "running" /\ UNCHANGED <<Outcome, Report>>
  BY Zenon DEF Contract!Submit, Status, Outcome, Report
<1>4. Contract!Lose <=>
       Status = "running" /\ Status' = "lost" /\ UNCHANGED <<Outcome, Report>>
  BY Zenon DEF Contract!Lose, Status, Outcome, Report
<1>5. \A t \in Tasks :
       Contract!Decide(t) <=>
         /\ Status \in {"running", "lost"}
         /\ Outcome[t] = "pending"
         /\ \E o \in {"staged", "failed"} : Outcome' = [Outcome EXCEPT ![t] = o]
         /\ UNCHANGED <<Status, Report>>
  BY Zenon DEF Contract!Decide, Status, Outcome, Report
<1>6. Contract!Answer <=>
       /\ Status = "running"
       /\ \A t \in Tasks : Outcome[t] # "pending"
       /\ Status' = "answered"
       /\ Report' \in {[[kind |-> "none", numCompleted |-> 0, numFatalErrors |-> 0]
                          EXCEPT !.kind = "error"],
                       [kind |-> "message",
                        numCompleted |-> Cardinality({t \in Tasks : Outcome[t] = "staged"}),
                        numFatalErrors |-> Cardinality({t \in Tasks : Outcome[t] = "failed"})]}
       /\ UNCHANGED Outcome
  <2>1. \A o : Contract!CountOf(o) = Cardinality({t \in Tasks : Outcome[t] = o})
    BY Zenon DEF Contract!CountOf, Outcome, Cardinality, Contract!Cardinality
  <2>2. Contract!ErrorReport = [[kind |-> "none", numCompleted |-> 0, numFatalErrors |-> 0]
                                  EXCEPT !.kind = "error"]
    BY Zenon DEF Contract!ErrorReport, Contract!NoReport
  <2>3. Contract!Answer <=>
          /\ Status = "running"
          /\ \A t \in Tasks : Outcome[t] # "pending"
          /\ Status' = "answered"
          /\ Report' \in {Contract!ErrorReport,
                          [kind |-> "message", numCompleted |-> Contract!CountOf("staged"),
                           numFatalErrors |-> Contract!CountOf("failed")]}
          /\ UNCHANGED Outcome
    BY Zenon DEF Contract!Answer, Status, Outcome, Report
  <2> QED
    BY <2>1, <2>2, <2>3, Zenon
<1> QED
  BY <1>1, <1>2, <1>3, <1>4, <1>5, <1>6

\* A step of the contract, or none.
ContractStep == [Contract!Next]_(Contract!vars)

\* A step that changes nothing of the contract is none.
LEMMA Stutters == UNCHANGED <<Status, Outcome, Report>> => ContractStep
  BY ContractOver DEF ContractStep

\* The outcomes and the report are what the gather jobs and the project job returned.
LEMMA ReturnsStay == UNCHANGED <<gathered, answer>> => UNCHANGED <<Outcome, Report>>
  BY DEF Outcome, Report

\* The status depends on the project job and on which jobs failed.
LEMMA StatusStays ==
  ASSUME \A i \in Job : job'[i] = "failed" <=> job[i] = "failed",
         job'[Project] = "absent" <=> job[Project] = "absent",
         job'[Project] = "completed" <=> job[Project] = "completed"
  PROVE  UNCHANGED Status
<1>1. (\E i \in Job : job'[i] = "failed") <=> (\E i \in Job : job[i] = "failed")
  OBVIOUS
<1>2. CASE \E i \in Job : job[i] = "failed"
  BY <1>1, <1>2 DEF Status
<1>3. CASE ~\E i \in Job : job[i] = "failed"
  BY <1>1, <1>3 DEF Status
<1> QED
  BY <1>2, <1>3

\* While a job is active there is no answer yet; while the project job is, no job failed.
LEMMA NoAnswerYet ==
  ASSUME FlowInv, NEW j \in Job, job[j] = "active"
  PROVE  /\ job[Project] \notin {"absent", "completed"}
         /\ Status \in {"running", "lost"}
         /\ j = Project => Status = "running"
<1>1. job[Project] # "absent"
  BY DEF FlowInv, TreeInv
<1>2. ASSUME job[Project] \in Begun
      PROVE  /\ \A t \in Tasks : job[t] = "completed"
             /\ \A p \in Parts : job[p] = "completed"
  <2>1. \A t \in Tasks : job[t] = "completed"
    BY <1>2, TreeOfJobs DEF FlowInv, TreeInv
  <2>2. \A t \in Tasks : \A p \in Children(t) : job[p] = "completed"
    BY <2>1, TreeOfJobs DEF FlowInv, TreeInv, Begun
  <2> QED
    BY <2>1, <2>2, TreeOfJobs
<1>3. job[Project] # "completed"
  <2>1. CASE j = Project
    BY <2>1
  <2>2. CASE j # Project
    BY <1>2, <2>2 DEF Job, Begun
  <2> QED
    BY <2>1, <2>2
<1>4. Status \in {"running", "lost"}
  BY <1>1, <1>3 DEF Status
<1>5. ASSUME j = Project PROVE Status = "running"
  <2>1. \A i \in Job : job[i] # "failed"
    BY <1>2, <1>5 DEF Job, Begun
  <2> QED
    BY <1>1, <1>3, <2>1 DEF Status
<1> QED
  BY <1>1, <1>3, <1>4, <1>5

\* A job below the project's that returns is no news of the project's status.
LEMMA ReturnIsNoNews ==
  ASSUME FlowInv, NEW j \in Tasks \cup Parts, NEW k \in Runs, Return(j, k), UNCHANGED attempt
  PROVE  UNCHANGED Status
<1>1. j \in Job /\ j # Project /\ Project \in Job
  BY TreeOfJobs
<1>2. CASE ~Holds(j, k)
  <2>1. job' = job
    BY <1>2 DEF Return
  <2> QED
    BY <2>1, StatusStays
<1>3. CASE Holds(j, k)
  <2>1. job[j] = "active" /\ job' = Completed(j)
    BY <1>3 DEF Holds, Return
  <2>2. /\ job'[j] = "completed"
        /\ \A i \in Job \ {j} : \/ job'[i] = job[i]
                                \/ (job[i] = "waiting-children" /\ job'[i] = "waiting")
    BY <1>1, <2>1, CompletedKeeps
  <2>3. \A i \in Job : job'[i] = "failed" <=> job[i] = "failed"
    BY <2>1, <2>2
  <2>4. \/ job'[Project] = job[Project]
        \/ (job[Project] = "waiting-children" /\ job'[Project] = "waiting")
    BY <1>1, <2>2
  <2> QED
    BY <2>3, <2>4, StatusStays
<1> QED
  BY <1>2, <1>3

\* A job that fails loses a running project.
LEMMA GivenUpRefines ==
  ASSUME FlowInv, NEW j \in Job, job[j] = "active",
         NEW s \in {"waiting", "failed"}, job' = [job EXCEPT ![j] = s],
         UNCHANGED <<gathered, answer>>
  PROVE  ContractStep
<1>1. job'[j] = s /\ \A i \in Job \ {j} : job'[i] = job[i]
  BY DEF FlowInv, TypeOK
<1>2. UNCHANGED <<Outcome, Report>>
  BY ReturnsStay
<1>3. job[Project] \notin {"absent", "completed"} /\ Status \in {"running", "lost"}
  BY NoAnswerYet
<1>4. job'[Project] \notin {"absent", "completed"}
  BY <1>1, <1>3, TreeOfJobs
<1>5. CASE s = "waiting"
  <2>1. \A i \in Job : job'[i] = "failed" <=> job[i] = "failed"
    BY <1>1, <1>5
  <2> QED
    BY <1>2, <1>3, <1>4, <2>1, StatusStays, Stutters
<1>6. CASE s = "failed"
  <2>1. Status' = "lost"
    BY <1>1, <1>4, <1>6 DEF Status
  <2>2. CASE Status = "running"
    BY <1>2, <2>1, <2>2, ContractOver DEF ContractStep, Contract!Next
  <2>3. CASE Status = "lost"
    BY <1>2, <2>1, <2>3, Stutters
  <2> QED
    BY <1>3, <2>2, <2>3
<1> QED
  BY <1>5, <1>6

\* So does a run that throws.
LEMMA ThrowRefines ==
  ASSUME FlowInv, NEW j \in Job, NEW k \in Runs, Throw(j, k), UNCHANGED <<gathered, answer>>
  PROVE  ContractStep
<1>1. CASE ~Holds(j, k)
  <2>1. job' = job
    BY <1>1 DEF Throw
  <2> QED
    BY <2>1, StatusStays, ReturnsStay, Stutters
<1>2. CASE Holds(j, k)
  BY <1>2, GivenUpRefines DEF Throw, Holds
<1> QED
  BY <1>1, <1>2

\* A step that leaves the jobs and what they returned alone is none of the contract.
LEMMA OtherStepsStutter == UNCHANGED <<job, gathered, answer>> => ContractStep
  BY StatusStays, ReturnsStay, Stutters

\* A gather job that returns decides its task.
LEMMA GatherReturnRefines ==
  ASSUME FlowInv, NEW t \in Tasks, NEW k \in Runs, Return(t, k), NEW r,
         r.kind \in {"message", "error"},
         gathered' = IF Holds(t, k) THEN [gathered EXCEPT ![t] = r] ELSE gathered,
         UNCHANGED <<attempt, answer>>
  PROVE  ContractStep
<1>1. UNCHANGED Status
  BY ReturnIsNoNews
<1>2. UNCHANGED Report
  BY DEF Report
<1>3. CASE ~Holds(t, k)
  BY <1>1, <1>3, ReturnsStay, Stutters
<1>4. CASE Holds(t, k)
  <2>1. t \in Job /\ job[t] = "active"
    BY <1>4, TreeOfJobs DEF Holds
  <2>2. Status \in {"running", "lost"}
    BY <2>1, NoAnswerYet
  <2>3. Outcome[t] = "pending"
    BY <2>1 DEF Outcome, FlowInv, GatherInv
  <2> DEFINE o == IF r.result.outcome = "OK" THEN "staged" ELSE "failed"
  <2>4. gathered'[t] = r /\ \A u \in Tasks \ {t} : gathered'[u] = gathered[u]
    BY <1>4 DEF FlowInv, TypeOK
  <2>5. Outcome' = [Outcome EXCEPT ![t] = o]
    BY <2>4 DEF Outcome
  <2>6. o \in {"staged", "failed"}
    OBVIOUS
  <2> HIDE DEF o
  <2>7. Contract!Decide(t)
    BY <1>1, <1>2, <2>2, <2>3, <2>5, <2>6, ContractOver
  <2> QED
    BY <2>7 DEF ContractStep, Contract!Next
<1> QED
  BY <1>3, <1>4

\* A handler that throws decides its task too.
LEMMA GatherErrorRefines ==
  ASSUME FlowInv, NEW t \in Tasks, NEW k \in Runs, GatherError(t, k),
         UNCHANGED <<attempt, answer>>
  PROVE  ContractStep
<1> DEFINE r == [kind |-> "error", result |-> NoResult]
<1>1. /\ r.kind = "error" /\ Return(t, k)
      /\ gathered' = IF Holds(t, k) THEN [gathered EXCEPT ![t] = r] ELSE gathered
  BY DEF GatherError
<1> HIDE DEF r
<1> QED
  BY <1>1, GatherReturnRefines

\* Once the project job has begun, its counters are the numbers of staged and of
\* failed tasks.
LEMMA CountersCountOutcomes ==
  ASSUME FlowInv, job[Project] \in Begun
  PROVE  /\ \A t \in Tasks : Outcome[t] # "pending"
         /\ NumCompleted(Answers) = Cardinality({t \in Tasks : Outcome[t] = "staged"})
         /\ NumFatalErrors(Answers) = Cardinality({t \in Tasks : Outcome[t] = "failed"})
<1> DEFINE S == {t \in Tasks : Outcome[t] = "staged"}
           F == {t \in Tasks : Outcome[t] = "failed"}
<1>1. \A t \in Tasks : /\ gathered[t].kind \in {"message", "error"}
                       /\ gathered[t].kind = "error" => gathered[t].result = NoResult
  BY AnswersAreFinal DEF FlowInv, GatherInv
<1>2. \A t \in Tasks :
        Outcome[t] = IF gathered[t].result.outcome = "OK" THEN "staged" ELSE "failed"
  BY <1>1 DEF Outcome
<1>3. S = {t \in DOMAIN Answers : Answers[t].outcome = "OK"}
  <2>1. ASSUME NEW t \in Tasks, gathered[t].result.outcome = "OK"
        PROVE  gathered[t].kind = "message"
    BY <1>1, <2>1 DEF NoResult
  <2> QED
    BY <1>2, <2>1, AnswersAreEntries
<1>4. NumCompleted(Answers) = Cardinality(S)
  BY <1>3, Zenon DEF NumCompleted
<1>5. F = Tasks \ S
  BY <1>2
<1>6. IsFiniteSet(Tasks) /\ S \subseteq Tasks /\ Tasks \cap S = S
  BY JobsAssumption
<1>7. \A t \in Tasks : Outcome[t] # "pending"
  BY <1>2
<1> HIDE DEF S, F
<1>8. Cardinality(Tasks \ S) = Cardinality(Tasks) - Cardinality(S)
  <2>1. Cardinality(Tasks \ S) = Cardinality(Tasks) - Cardinality(Tasks \cap S)
    BY <1>6, FS_Difference
  <2>2. Cardinality(Tasks \cap S) = Cardinality(S)
    BY <1>6, Zenon
  <2> QED
    BY <2>1, <2>2
<1>9. Cardinality(F) = Cardinality(Tasks \ S)
  BY <1>5, Zenon
<1>10. /\ Cardinality(Tasks) \in Nat /\ Cardinality(S) \in Nat
       /\ NumFatalErrors(Answers) \in Nat
       /\ Cardinality(S) + NumFatalErrors(Answers) = Cardinality(Tasks)
  BY <1>4, <1>6, AnswersAddUp, FS_CardinalityType, FS_Subset
<1>11. NumFatalErrors(Answers) = Cardinality(F)
  BY <1>8, <1>9, <1>10
<1> QED
  BY <1>4, <1>7, <1>11 DEF S, F

\* The project job that returns answers a running project.
LEMMA ProjectReturnRefines ==
  ASSUME FlowInv, NEW k \in Runs, Return(Project, k), NEW a,
         \/ a.kind = "error" /\ a.numCompleted = 0 /\ a.numFatalErrors = 0
         \/ /\ a.kind = "message"
            /\ a.numCompleted = NumCompleted(Answers)
            /\ a.numFatalErrors = NumFatalErrors(Answers),
         answer' = IF Holds(Project, k) THEN a ELSE answer,
         UNCHANGED <<attempt, gathered>>
  PROVE  ContractStep
<1>1. Project \in Job
  BY TreeOfJobs
<1>2. UNCHANGED Outcome
  BY DEF Outcome
<1>3. CASE ~Holds(Project, k)
  <2>1. UNCHANGED <<job, gathered, answer>>
    BY <1>3 DEF Return
  <2> QED
    BY <2>1, OtherStepsStutter
<1>4. CASE Holds(Project, k)
  <2>1. job[Project] = "active" /\ job[Project] \in Begun
    BY <1>4 DEF Holds, Begun
  <2>2. Status = "running"
    BY <1>1, <2>1, NoAnswerYet
  <2>3. job'[Project] = "completed"
    BY <1>1, <1>4, ReturnKeeps
  <2>4. Status' = "answered"
    BY <2>3 DEF Status
  <2>5. Report' = [kind |-> a.kind, numCompleted |-> a.numCompleted,
                   numFatalErrors |-> a.numFatalErrors]
    BY <1>4 DEF Report
  <2>6. \/ Report' = [[kind |-> "none", numCompleted |-> 0, numFatalErrors |-> 0]
                        EXCEPT !.kind = "error"]
        \/ Report' = [kind |-> "message",
                      numCompleted |-> Cardinality({t \in Tasks : Outcome[t] = "staged"}),
                      numFatalErrors |-> Cardinality({t \in Tasks : Outcome[t] = "failed"})]
    <3>1. CASE a.kind = "error" /\ a.numCompleted = 0 /\ a.numFatalErrors = 0
      BY <2>5, <3>1
    <3>2. CASE /\ a.kind = "message"
               /\ a.numCompleted = NumCompleted(Answers)
               /\ a.numFatalErrors = NumFatalErrors(Answers)
      BY <2>1, <2>5, <3>2, CountersCountOutcomes
    <3> QED
      BY <3>1, <3>2
  <2>7. \A t \in Tasks : Outcome[t] # "pending"
    BY <2>1, CountersCountOutcomes
  <2>8. Contract!Answer
    BY <1>2, <2>2, <2>4, <2>6, <2>7, ContractOver
  <2> QED
    BY <2>8 DEF ContractStep, Contract!Next
<1> QED
  BY <1>3, <1>4

\* So does a handler that throws, with an error.
LEMMA ProjectErrorRefines ==
  ASSUME FlowInv, NEW k \in Runs, ProjectError(k), UNCHANGED <<attempt, gathered>>
  PROVE  ContractStep
<1> DEFINE a == [NoAnswer EXCEPT !.kind = "error"]
<1>1. /\ a.kind = "error" /\ a.numCompleted = 0 /\ a.numFatalErrors = 0
      /\ Return(Project, k) /\ answer' = IF Holds(Project, k) THEN a ELSE answer
  BY DEF ProjectError, NoAnswer
<1> HIDE DEF a
<1> QED
  BY <1>1, ProjectReturnRefines

\* A step of a run is a step of the contract or none.
LEMMA RunStepRefines ==
  ASSUME FlowInv, NEW j \in Job, NEW k \in Runs, RunStep(j, k)
  PROVE  ContractStep
<1>1. ASSUME j \in Parts, Paint(j, k) PROVE ContractStep
  <2>1. UNCHANGED <<attempt, gathered, answer>>
    BY <1>1 DEF Paint
  <2>2. CASE Throw(j, k)
    BY <2>1, <2>2, ThrowRefines
  <2>3. CASE Return(j, k)
    BY <1>1, <2>1, <2>3, ReturnIsNoNews, ReturnsStay, Stutters
  <2> QED
    BY <1>1, <2>2, <2>3 DEF Paint
<1>2. ASSUME j \in Tasks, MergeParts(j, k) PROVE ContractStep
  <2>1. UNCHANGED <<attempt, answer>>
    BY <1>2 DEF MergeParts
  <2>2. CASE Throw(j, k) /\ UNCHANGED gathered
    BY <2>1, <2>2, ThrowRefines
  <2>3. CASE GatherError(j, k)
    BY <1>2, <2>1, <2>3, GatherErrorRefines
  <2>4. CASE UNCHANGED <<job, gathered>>
    BY <2>1, <2>4, OtherStepsStutter
  <2> QED
    BY <1>2, <2>2, <2>3, <2>4 DEF MergeParts
<1>3. ASSUME j \in Tasks, OpenImage(j, k) \/ StoreImage(j, k) PROVE ContractStep
  BY <1>3, OtherStepsStutter DEF OpenImage, StoreImage, returns
<1>4. ASSUME j \in Tasks, ReplyGathered(j, k) PROVE ContractStep
  <2>1. UNCHANGED <<attempt, answer>>
    BY <1>4 DEF ReplyGathered
  <2>2. CASE GatherError(j, k)
    BY <1>4, <2>1, <2>2, GatherErrorRefines
  <2> DEFINE r == [kind |-> "message", result |-> StageResult(j, k)]
  <2>3. CASE /\ Return(j, k)
             /\ gathered' = IF Holds(j, k) THEN [gathered EXCEPT ![j] = r] ELSE gathered
    <3>1. r.kind \in {"message", "error"}
      OBVIOUS
    <3> HIDE DEF r
    <3> QED
      BY <1>4, <2>1, <2>3, <3>1, GatherReturnRefines
  <2> QED
    BY <1>4, <2>2, <2>3 DEF ReplyGathered
<1>5. ASSUME Collect(k) PROVE ContractStep
  <2>1. UNCHANGED <<attempt, gathered>>
    BY <1>5 DEF Collect
  <2>2. CASE Throw(Project, k) /\ UNCHANGED answer
    BY <2>1, <2>2, ThrowRefines, TreeOfJobs
  <2>3. CASE ProjectError(k)
    BY <2>1, <2>3, ProjectErrorRefines
  <2>4. CASE UNCHANGED <<job, answer>>
    BY <2>1, <2>4, OtherStepsStutter
  <2> QED
    BY <1>5, <2>2, <2>3, <2>4 DEF Collect
<1>6. ASSUME OpenManifest(k) \/ WriteManifest(k) PROVE ContractStep
  <2>1. UNCHANGED <<attempt, gathered>>
    BY <1>6 DEF OpenManifest, WriteManifest
  <2>2. CASE ProjectError(k)
    BY <2>1, <2>2, ProjectErrorRefines
  <2>3. CASE UNCHANGED <<job, answer>>
    BY <2>1, <2>3, OtherStepsStutter
  <2> QED
    BY <1>6, <2>2, <2>3 DEF OpenManifest, WriteManifest
<1>7. ASSUME ReplyProject(k) PROVE ContractStep
  <2>1. UNCHANGED <<attempt, gathered>>
    BY <1>7 DEF ReplyProject
  <2>2. CASE ProjectError(k)
    BY <2>1, <2>2, ProjectErrorRefines
  <2> DEFINE a == [kind |-> "message", entries |-> collected[k],
                   numCompleted |-> NumCompleted(collected[k]),
                   numFatalErrors |-> NumFatalErrors(collected[k])]
  <2>3. CASE Return(Project, k) /\ answer' = IF Holds(Project, k) THEN a ELSE answer
    <3>1. collected[k] = Answers
      BY <1>7 DEF ReplyProject, FlowInv, ProjectInv
    <3>2. /\ a.kind = "message"
          /\ a.numCompleted = NumCompleted(Answers)
          /\ a.numFatalErrors = NumFatalErrors(Answers)
      BY <3>1
    <3> HIDE DEF a
    <3> QED
      BY <2>1, <2>3, <3>2, ProjectReturnRefines
  <2> QED
    BY <1>7, <2>2, <2>3 DEF ReplyProject
<1> QED
  BY <1>1, <1>2, <1>3, <1>4, <1>5, <1>6, <1>7 DEF RunStep

\* A submitted project is what its contract promises, whatever happens to its runs:
\* each task is decided once, no answer comes before all of them are or after a job
\* has failed, and the answer counts them right.
THEOREM ImplementsContract == Spec => ContractSpec
<1>1. Init => Contract!Init
  <2> SUFFICES ASSUME Init PROVE Contract!Init
    OBVIOUS
  <2>1. Status = "idle"
    BY TreeOfJobs DEF Init, Status
  <2>2. Outcome = [t \in Tasks |-> "pending"]
    BY DEF Init, Outcome
  <2>3. Report = [kind |-> "none", numCompleted |-> 0, numFatalErrors |-> 0]
    BY DEF Init, Report, NoAnswer
  <2> QED
    BY <2>1, <2>2, <2>3, ContractOver
<1>2. FlowInv /\ [Next]_vars => ContractStep
  <2> SUFFICES ASSUME FlowInv, [Next]_vars PROVE ContractStep
    OBVIOUS
  <2>1. CASE SubmitProject
    <3>1. Status = "idle" /\ \A j \in Job : job[j] = "absent"
      BY <2>1 DEF SubmitProject, Status, FlowInv, TreeInv
    <3>2. \A j \in Job : job'[j] \in {"waiting", "waiting-children"}
      BY <2>1 DEF SubmitProject
    <3>3. Status' = "running"
      BY <3>2, TreeOfJobs DEF Status
    <3>4. UNCHANGED <<Outcome, Report>>
      BY <2>1, ReturnsStay DEF SubmitProject, returns
    <3> QED
      BY <3>1, <3>3, <3>4, ContractOver DEF ContractStep, Contract!Next
  <2>2. ASSUME NEW j \in Job, NEW w \in Workers, Take(j, w) PROVE ContractStep
    <3>1. job[j] = "waiting" /\ job' = [job EXCEPT ![j] = "active"]
      BY <2>2 DEF Take
    <3>2. \A i \in Job : job'[i] = IF i = j THEN "active" ELSE job[i]
      BY <3>1 DEF FlowInv, TypeOK
    <3>3. UNCHANGED <<gathered, answer>>
      BY <2>2 DEF Take, returns
    <3> QED
      BY <3>1, <3>2, <3>3, TreeOfJobs, StatusStays, ReturnsStay, Stutters
  <2>3. ASSUME NEW j \in Job, NEW k \in Runs, RunStep(j, k) PROVE ContractStep
    BY <2>3, RunStepRefines
  <2>4. ASSUME NEW j \in Job, DeadWorkerStalls(j) \/ LiveWorkerStalls(j) PROVE ContractStep
    <3> DEFINE s == IF attempt[j] > MaxStalled THEN "failed" ELSE "waiting"
    <3>1. job[j] = "active" /\ Stall(j)
      BY <2>4 DEF DeadWorkerStalls, LiveWorkerStalls
    <3>2. job' = [job EXCEPT ![j] = s] /\ UNCHANGED <<gathered, answer>>
      BY <3>1 DEF Stall, returns
    <3>3. s \in {"waiting", "failed"}
      OBVIOUS
    <3> HIDE DEF s
    <3> QED
      BY <3>1, <3>2, <3>3, GivenUpRefines
  <2>5. ASSUME NEW w \in Workers, Crash(w) PROVE ContractStep
    BY <2>5, OtherStepsStutter DEF Crash, returns
  <2>6. CASE UNCHANGED vars
    BY <2>6, OtherStepsStutter DEF vars, returns
  <2> QED
    BY <2>1, <2>2, <2>3, <2>4, <2>5, <2>6 DEF Next
<1>3. FlowInv /\ [Next]_vars => [Contract!Next]_(Contract!vars)
  BY <1>2 DEF ContractStep
<1> QED
  BY <1>1, <1>3, FlowAlways, PTL DEF Spec, ContractSpec, Contract!Spec

-----------------------------------------------------------------------------
(* Never at a standstill, and always forward.                              *)

\* The runs of a job are numbered as they are given out.
RunsAhead == \A j \in Job : \A k \in Runs : pc[j][k] = "none" <=> k > attempt[j]

\* The run that holds an active job's lock has not ended, unless its worker died.
ActiveRuns == \A j \in Job : job[j] = "active" => attempt[j] \in Runs /\ pc[j][attempt[j]] # "done"

\* A run that goes on is at a step of its worker.
InStep == \A j \in Job : \A k \in Runs : pc[j][k] \in StepsOf(j) \cup {"none", "done", "dead"}

\* Only a run that goes on is on a worker.
LiveWorkers == \A j \in Job : \A k \in Runs : by[j][k] \in Workers => pc[j][k] \in Live

\* The whole tree is added, and who waits for children waits for one of them.
AllAdded == job[Project] # "absent" => \A j \in Job : job[j] # "absent"
ChildrenAwaited ==
  \A j \in Job : job[j] = "waiting-children" => \E c \in Children(j) : job[c] # "completed"

StandInv ==
  FlowInv /\ RunsAhead /\ ActiveRuns /\ InStep /\ LiveWorkers /\ AllAdded /\ ChildrenAwaited

\* What a step may do to a job.
JobMoves(j) ==
  \/ job'[j] = job[j] /\ attempt'[j] = attempt[j]
  \/ job[j] = "absent" /\ job'[j] \in {"waiting", "waiting-children"} /\ attempt'[j] = attempt[j]
  \/ job[j] = "waiting-children" /\ job'[j] = "waiting" /\ attempt'[j] = attempt[j]
  \/ /\ job[j] = "waiting" /\ job'[j] = "active"
     /\ attempt'[j] = attempt[j] + 1 /\ pc'[j][attempt'[j]] = "fresh"
  \/ /\ job[j] = "active" /\ job'[j] \in {"waiting", "completed", "failed"}
     /\ attempt'[j] = attempt[j]

\* What it may do to a run of one.
RunMoves(j, k) ==
  \/ pc'[j][k] = pc[j][k] /\ by'[j][k] = by[j][k]
  \/ pc[j][k] = "none" /\ pc'[j][k] = "fresh" /\ k = attempt'[j]
  \/ /\ pc[j][k] \in Live /\ pc'[j][k] \in StepsOf(j) \cap Live
     /\ RunRank[pc[j][k]] < RunRank[pc'[j][k]] /\ by'[j][k] = by[j][k]
  \/ /\ pc[j][k] \in Live /\ pc'[j][k] = "done" /\ by'[j][k] = NoWorker
     /\ k = attempt[j] => job'[j] # "active"
  \/ pc[j][k] \in Live /\ pc'[j][k] = "dead" /\ by'[j][k] = NoWorker

Goes ==
  \/ crashes < crashes'
  \/ \E j \in Job : job'[j] # job[j]
  \/ \E j \in Job, k \in Runs : pc'[j][k] # pc[j][k]

\* What every step does.
Moves ==
  /\ \A j \in Job : JobMoves(j)
  /\ \A j \in Job : \A k \in Runs : RunMoves(j, k)
  /\ AllAdded' /\ ChildrenAwaited'

\* Steps of a worker that change no job leave the tree as it is.
LEMMA TreeStays ==
  ASSUME StandInv, UNCHANGED <<job, attempt>>
  PROVE  (\A j \in Job : JobMoves(j)) /\ AllAdded' /\ ChildrenAwaited'
  BY DEF StandInv, JobMoves, AllAdded, ChildrenAwaited

\* A job that fails or waits again leaves those who wait for it waiting.
LEMMA GivenUpMoves ==
  ASSUME StandInv, NEW j \in Job, job[j] = "active", NEW s \in {"waiting", "failed"},
         job' = [job EXCEPT ![j] = s], UNCHANGED attempt
  PROVE  (\A i \in Job : JobMoves(i)) /\ AllAdded' /\ ChildrenAwaited' /\ job'[j] = s
<1>1. job'[j] = s /\ \A i \in Job \ {j} : job'[i] = job[i]
  BY DEF StandInv, FlowInv, TypeOK
<1>2. \A i \in Job : JobMoves(i)
  BY <1>1 DEF JobMoves
<1>3. AllAdded'
  BY <1>1, TreeOfJobs DEF StandInv, AllAdded
<1>4. ChildrenAwaited'
  <2> SUFFICES ASSUME NEW i \in Job, job'[i] = "waiting-children"
               PROVE  \E c \in Children(i) : job'[c] # "completed"
    BY DEF ChildrenAwaited
  <2>1. job[i] = "waiting-children"
    BY <1>1
  <2>2. PICK c \in Children(i) : job[c] # "completed"
    BY <2>1 DEF StandInv, ChildrenAwaited
  <2>3. c \in Job
    BY TreeOfJobs
  <2>4. job'[c] # "completed"
    BY <1>1, <2>2, <2>3
  <2> QED
    BY <2>4
<1> QED
  BY <1>1, <1>2, <1>3, <1>4

\* A job that completes wakes its parent when it was the last child awaited.
LEMMA CompletedMoves ==
  ASSUME StandInv, NEW j \in Job, job[j] = "active", job' = Completed(j), UNCHANGED attempt
  PROVE  (\A i \in Job : JobMoves(i)) /\ AllAdded' /\ ChildrenAwaited' /\ job'[j] = "completed"
<1>1. /\ job'[j] = "completed"
      /\ \A i \in Job \ {j} :
           \/ /\ job'[i] = job[i]
              /\ job[i] = "waiting-children" /\ j \in Children(i) =>
                   \E c \in Children(i) \ {j} : job[c] # "completed"
           \/ job[i] = "waiting-children" /\ job'[i] = "waiting"
  BY DEF Completed
<1>2. \A i \in Job : JobMoves(i)
  BY <1>1 DEF JobMoves
<1>3. AllAdded'
  BY <1>1, TreeOfJobs DEF StandInv, AllAdded
<1>4. ChildrenAwaited'
  <2> SUFFICES ASSUME NEW i \in Job, job'[i] = "waiting-children"
               PROVE  \E c \in Children(i) : job'[c] # "completed"
    BY DEF ChildrenAwaited
  <2>1. /\ i # j /\ job[i] = "waiting-children"
        /\ j \in Children(i) => \E c \in Children(i) \ {j} : job[c] # "completed"
    BY <1>1
  <2>2. \E c \in Children(i) : job[c] # "completed"
    BY <2>1 DEF StandInv, ChildrenAwaited
  <2>3. PICK c \in Children(i) \ {j} : job[c] # "completed"
    BY <2>1, <2>2
  <2>4. c \in Job \ {j}
    BY TreeOfJobs
  <2>5. job'[c] # "completed"
    BY <1>1, <2>3, <2>4
  <2> QED
    BY <2>3, <2>5
<1> QED
  BY <1>1, <1>2, <1>3, <1>4

\* What a step of a run comes to: the run ends, and its job with it if it holds the
\* lock, or the run goes on, further than it was.
LEMMA RunStepMoves ==
  ASSUME NEW j \in Job, NEW k \in Runs, RunStep(j, k)
  PROVE  /\ pc[j][k] \in Live /\ UNCHANGED <<attempt, crashes>>
         /\ \/ Return(j, k) \/ Throw(j, k)
            \/ /\ UNCHANGED <<job, by>>
               /\ \E s \in StepsOf(j) \cap Live : /\ RunRank[pc[j][k]] < RunRank[s]
                                  /\ pc' = [pc EXCEPT ![j][k] = s]
<1> USE DEF Live, RunRank, bounds
<1>0. /\ StepsOf(Project) = {"fresh", "collected", "writing", "written"}
      /\ j \in Tasks => StepsOf(j) = {"fresh", "named", "storing", "staged"}
  BY TreeOfJobs DEF StepsOf
<1>1. CASE Paint(j, k)
  BY <1>1 DEF Paint
<1>2. CASE j \in Tasks /\ MergeParts(j, k)
  <2>1. pc[j][k] = "fresh" /\ UNCHANGED <<attempt, crashes>>
    BY <1>2 DEF MergeParts
  <2>2. \/ Return(j, k) \/ Throw(j, k)
        \/ UNCHANGED <<job, by>> /\ pc' = [pc EXCEPT ![j][k] = "named"]
    BY <1>2 DEF MergeParts, GatherError, NameImage
  <2> QED
    BY <1>0, <1>2, <2>1, <2>2
<1>3. CASE j \in Tasks /\ OpenImage(j, k)
  <2>1. /\ pc[j][k] = "named" /\ UNCHANGED <<attempt, crashes, job, by>>
    BY <1>3 DEF OpenImage
  <2>2. PICK s \in {"storing", "staged"} : pc' = [pc EXCEPT ![j][k] = s]
    BY <1>3 DEF OpenImage
  <2>3. s \in StepsOf(j) \cap Live /\ RunRank[pc[j][k]] < RunRank[s]
    BY <1>0, <1>3, <2>1
  <2> QED
    BY <2>1, <2>2, <2>3
<1>9. CASE j \in Tasks /\ StoreImage(j, k)
  <2>1. /\ pc[j][k] = "storing" /\ UNCHANGED <<attempt, crashes, job, by>>
        /\ pc' = [pc EXCEPT ![j][k] = "staged"]
    BY <1>9 DEF StoreImage
  <2>2. "staged" \in StepsOf(j) \cap Live /\ RunRank[pc[j][k]] < RunRank["staged"]
    BY <1>0, <1>9, <2>1
  <2>3. \E s \in StepsOf(j) \cap Live : /\ RunRank[pc[j][k]] < RunRank[s]
                                       /\ pc' = [pc EXCEPT ![j][k] = s]
    BY <2>1, <2>2
  <2>4. pc[j][k] \in Live
    BY <2>1
  <2> QED
    BY <2>1, <2>3, <2>4
<1>4. CASE ReplyGathered(j, k)
  BY <1>4 DEF ReplyGathered, GatherError
<1>5. CASE j = Project /\ Collect(k)
  <2>1. pc[j][k] = "fresh" /\ UNCHANGED <<attempt, crashes>>
    BY <1>5 DEF Collect
  <2>2. \/ Return(j, k) \/ Throw(j, k)
        \/ UNCHANGED <<job, by>> /\ pc' = [pc EXCEPT ![j][k] = "collected"]
    BY <1>5 DEF Collect, ProjectError
  <2> QED
    BY <1>0, <1>5, <2>1, <2>2
<1>6. CASE j = Project /\ OpenManifest(k)
  <2>1. pc[j][k] = "collected" /\ UNCHANGED <<attempt, crashes>>
    BY <1>6 DEF OpenManifest
  <2>2. \/ Return(j, k)
        \/ UNCHANGED <<job, by>> /\ pc' = [pc EXCEPT ![j][k] = "writing"]
    BY <1>6 DEF OpenManifest, ProjectError
  <2> QED
    BY <1>0, <1>6, <2>1, <2>2
<1>7. CASE j = Project /\ WriteManifest(k)
  <2>1. pc[j][k] = "writing" /\ UNCHANGED <<attempt, crashes>>
    BY <1>7 DEF WriteManifest
  <2>2. \/ Return(j, k)
        \/ UNCHANGED <<job, by>> /\ pc' = [pc EXCEPT ![j][k] = "written"]
    BY <1>7 DEF WriteManifest, ProjectError
  <2> QED
    BY <1>0, <1>7, <2>1, <2>2
<1>8. CASE j = Project /\ ReplyProject(k)
  BY <1>8 DEF ReplyProject, ProjectError
<1> QED
  BY <1>1, <1>2, <1>3, <1>4, <1>5, <1>6, <1>7, <1>8, <1>9 DEF RunStep

\* A step of a run moves it, and its job and those who wait for it at most.
LEMMA RunStepGoes ==
  ASSUME StandInv, NEW j \in Job, NEW k \in Runs, RunStep(j, k)
  PROVE  Moves /\ pc'[j][k] # pc[j][k]
<1>1. /\ pc[j][k] \in Live /\ UNCHANGED <<attempt, crashes>>
      /\ \/ Return(j, k) \/ Throw(j, k)
         \/ /\ UNCHANGED <<job, by>>
            /\ \E s \in StepsOf(j) \cap Live : /\ RunRank[pc[j][k]] < RunRank[s]
                               /\ pc' = [pc EXCEPT ![j][k] = s]
  BY RunStepMoves
<1>2. CASE Return(j, k) \/ Throw(j, k)
  <2>1. End(j, k)
    BY <1>2 DEF Return, Throw
  <2>2. /\ \A i \in Job : \A m \in Runs :
             pc'[i][m] = IF i = j /\ m = k THEN "done" ELSE pc[i][m]
        /\ \A i \in Job : \A m \in Runs :
             by'[i][m] = IF i = j /\ m = k THEN NoWorker ELSE by[i][m]
    BY <2>1 DEF End, StandInv, FlowInv, TypeOK
  <2>3. /\ (\A i \in Job : JobMoves(i)) /\ AllAdded' /\ ChildrenAwaited'
        /\ k = attempt[j] => job'[j] # "active"
    <3>1. CASE ~Holds(j, k)
      <4>1. job' = job
        BY <1>2, <3>1 DEF Return, Throw
      <4>2. k = attempt[j] => job[j] # "active"
        BY <3>1 DEF Holds
      <4> QED
        BY <1>1, <4>1, <4>2, TreeStays
    <3>2. CASE Holds(j, k)
      <4>1. job[j] = "active"
        BY <3>2 DEF Holds
      <4>2. CASE Return(j, k)
        <5>1. job' = Completed(j)
          BY <3>2, <4>2 DEF Return
        <5>2. /\ (\A i \in Job : JobMoves(i)) /\ AllAdded' /\ ChildrenAwaited'
              /\ job'[j] = "completed"
          BY <1>1, <4>1, <5>1, CompletedMoves
        <5> QED
          BY <5>2
      <4>3. CASE Throw(j, k)
        <5>1. job' = [job EXCEPT ![j] = "failed"]
          BY <3>2, <4>3 DEF Throw
        <5>2. /\ (\A i \in Job : JobMoves(i)) /\ AllAdded' /\ ChildrenAwaited'
              /\ job'[j] = "failed"
          BY <1>1, <4>1, <5>1, GivenUpMoves
        <5> QED
          BY <5>2
      <4> QED
        BY <1>2, <4>2, <4>3
    <3> QED
      BY <3>1, <3>2
  <2>4. \A i \in Job : \A m \in Runs : RunMoves(i, m)
    BY <1>1, <2>2, <2>3 DEF RunMoves
  <2> QED
    BY <1>1, <2>2, <2>3, <2>4 DEF Moves, Live
<1>3. CASE /\ UNCHANGED <<job, by>>
           /\ \E s \in StepsOf(j) \cap Live : /\ RunRank[pc[j][k]] < RunRank[s]
                              /\ pc' = [pc EXCEPT ![j][k] = s]
  <2>1. PICK s \in StepsOf(j) \cap Live :
          RunRank[pc[j][k]] < RunRank[s] /\ pc' = [pc EXCEPT ![j][k] = s]
    BY <1>3
  <2>2. \A i \in Job : \A m \in Runs :
          pc'[i][m] = IF i = j /\ m = k THEN s ELSE pc[i][m]
    BY <2>1 DEF StandInv, FlowInv, TypeOK
  <2>3. \A i \in Job : \A m \in Runs : RunMoves(i, m)
    BY <1>1, <1>3, <2>1, <2>2 DEF RunMoves
  <2>4. pc'[j][k] # pc[j][k]
    BY <1>1, <2>1, <2>2 DEF Live, RunRank
  <2> QED
    BY <1>1, <1>3, <2>3, <2>4, TreeStays DEF Moves
<1> QED
  BY <1>1, <1>2, <1>3

\* So does every other step, and each of them takes something further.
LEMMA EveryStepMoves == StandInv /\ Next => Moves /\ Goes
<1> SUFFICES ASSUME StandInv, Next PROVE Moves /\ Goes
  OBVIOUS
<1>1. CASE SubmitProject
  <2>1. /\ \A j \in Job : job[j] = "absent"
        /\ UNCHANGED <<attempt, pc, by>>
    BY <1>1 DEF SubmitProject, StandInv, FlowInv, TreeInv, runVars
  <2>2. \A j \in Job : /\ job'[j] \in {"waiting", "waiting-children"}
                       /\ job'[j] = "waiting-children" => Children(j) # {}
    BY <1>1 DEF SubmitProject
  <2>3. \A j \in Job : job'[j] # job[j]
    BY <2>1, <2>2
  <2>4. \A j \in Job : JobMoves(j)
    BY <2>1, <2>2 DEF JobMoves
  <2>5. \A j \in Job : \A k \in Runs : RunMoves(j, k)
    BY <2>1 DEF RunMoves
  <2>6. AllAdded'
    BY <2>2 DEF AllAdded
  <2>7. ChildrenAwaited'
    <3> SUFFICES ASSUME NEW j \in Job, job'[j] = "waiting-children"
                 PROVE  \E c \in Children(j) : job'[c] # "completed"
      BY DEF ChildrenAwaited
    <3>1. PICK c \in Children(j) : TRUE
      BY <2>2
    <3>2. c \in Job
      BY TreeOfJobs
    <3> QED
      BY <2>2, <3>1, <3>2
  <2> QED
    BY <2>3, <2>4, <2>5, <2>6, <2>7, TreeOfJobs DEF Moves, Goes
<1>2. ASSUME NEW j \in Job, NEW w \in Workers, Take(j, w) PROVE Moves /\ Goes
  <2> DEFINE k == attempt[j] + 1
  <2>1. /\ job[j] = "waiting" /\ job' = [job EXCEPT ![j] = "active"]
        /\ attempt' = [attempt EXCEPT ![j] = k]
        /\ pc' = [pc EXCEPT ![j][k] = "fresh"] /\ by' = [by EXCEPT ![j][k] = w]
    BY <1>2 DEF Take
  <2>2. k \in Runs /\ attempt[j] \in Nat
    BY <2>1, BoundsAssumption DEF StandInv, FlowInv, TypeOK, RunsInv, Runs
  <2> HIDE DEF k
  <2>3. /\ job'[j] = "active" /\ \A i \in Job \ {j} : job'[i] = job[i]
        /\ attempt'[j] = k /\ \A i \in Job \ {j} : attempt'[i] = attempt[i]
    BY <2>1 DEF StandInv, FlowInv, TypeOK
  <2>4. /\ \A i \in Job : \A m \in Runs :
             pc'[i][m] = IF i = j /\ m = k THEN "fresh" ELSE pc[i][m]
        /\ \A i \in Job : \A m \in Runs :
             by'[i][m] = IF i = j /\ m = k THEN w ELSE by[i][m]
    BY <2>1 DEF StandInv, FlowInv, TypeOK
  <2>5. pc[j][k] = "none"
    BY <2>2 DEF StandInv, RunsAhead, k
  <2>6. \A i \in Job : JobMoves(i)
    BY <2>1, <2>2, <2>3, <2>4 DEF JobMoves, k
  <2>7. \A i \in Job : \A m \in Runs : RunMoves(i, m)
    BY <2>3, <2>4, <2>5 DEF RunMoves
  <2>8. AllAdded'
    BY <2>1, <2>3, TreeOfJobs DEF StandInv, AllAdded
  <2>9. ChildrenAwaited'
    <3> SUFFICES ASSUME NEW i \in Job, job'[i] = "waiting-children"
                 PROVE  \E c \in Children(i) : job'[c] # "completed"
      BY DEF ChildrenAwaited
    <3>1. PICK c \in Children(i) : job[c] # "completed"
      BY <2>3 DEF StandInv, ChildrenAwaited
    <3>2. c \in Job
      BY TreeOfJobs
    <3> QED
      BY <2>3, <3>1, <3>2
  <2> QED
    BY <2>1, <2>3, <2>6, <2>7, <2>8, <2>9 DEF Moves, Goes
<1>3. ASSUME NEW j \in Job, NEW k \in Runs, RunStep(j, k) PROVE Moves /\ Goes
  BY <1>3, RunStepGoes DEF Goes
<1>4. ASSUME NEW j \in Job, DeadWorkerStalls(j) \/ LiveWorkerStalls(j) PROVE Moves /\ Goes
  <2> DEFINE s == IF attempt[j] > MaxStalled THEN "failed" ELSE "waiting"
  <2>1. job[j] = "active" /\ Stall(j)
    BY <1>4 DEF DeadWorkerStalls, LiveWorkerStalls
  <2>2. job' = [job EXCEPT ![j] = s] /\ UNCHANGED <<attempt, pc, by>>
    BY <2>1 DEF Stall, runVars
  <2>3. s \in {"waiting", "failed"}
    OBVIOUS
  <2> HIDE DEF s
  <2>4. (\A i \in Job : JobMoves(i)) /\ AllAdded' /\ ChildrenAwaited' /\ job'[j] = s
    BY <2>1, <2>2, <2>3, GivenUpMoves
  <2>5. \A i \in Job : \A m \in Runs : RunMoves(i, m)
    BY <2>2 DEF RunMoves
  <2> QED
    BY <2>1, <2>3, <2>4, <2>5 DEF Moves, Goes
<1>5. ASSUME NEW w \in Workers, Crash(w) PROVE Moves /\ Goes
  <2>1. UNCHANGED <<job, attempt>>
    BY <1>5 DEF Crash
  <2>2. \A i \in Job : \A m \in Runs :
          /\ pc'[i][m] = IF by[i][m] = w THEN "dead" ELSE pc[i][m]
          /\ by'[i][m] = IF by[i][m] = w THEN NoWorker ELSE by[i][m]
    BY <1>5 DEF Crash
  <2>3. \A i \in Job : \A m \in Runs : by[i][m] = w => pc[i][m] \in Live
    BY DEF StandInv, LiveWorkers
  <2>4. \A i \in Job : \A m \in Runs : RunMoves(i, m)
    BY <2>2, <2>3 DEF RunMoves
  <2>5. crashes < crashes'
    BY <1>5, BoundsAssumption DEF Crash, StandInv, FlowInv, TypeOK
  <2> QED
    BY <2>1, <2>4, <2>5, TreeStays DEF Moves, Goes
<1> QED
  BY <1>1, <1>2, <1>3, <1>4, <1>5 DEF Next

\* Which is why the invariant is kept.
LEMMA StandStep == StandInv /\ [Next]_vars => StandInv'
<1> SUFFICES ASSUME StandInv, [Next]_vars PROVE StandInv'
  OBVIOUS
<1>1. FlowInv'
  BY FlowStep DEF StandInv
<1>2. CASE UNCHANGED vars
  <2>1. UNCHANGED <<job, attempt, pc, by>>
    BY <1>2 DEF vars, runVars
  <2> QED
    BY <1>1, <2>1
       DEF StandInv, RunsAhead, ActiveRuns, InStep, LiveWorkers, AllAdded, ChildrenAwaited
<1>3. CASE Next
  <2>1. /\ \A j \in Job : JobMoves(j)
        /\ \A j \in Job : \A k \in Runs : RunMoves(j, k)
        /\ AllAdded' /\ ChildrenAwaited'
    BY <1>3, EveryStepMoves DEF Moves
  <2>2. \A j \in Job : attempt[j] \in Nat /\ attempt'[j] \in 0 .. (MaxStalled + 1)
    BY <1>1, BoundsAssumption DEF StandInv, FlowInv, TypeOK
  <2>3. RunsAhead'
    <3> SUFFICES ASSUME NEW j \in Job, NEW k \in Runs
                 PROVE  pc'[j][k] = "none" <=> k > attempt'[j]
      BY DEF RunsAhead
    <3>1. pc[j][k] = "none" <=> k > attempt[j]
      BY DEF StandInv, RunsAhead
    <3>2. k \in Nat /\ attempt[j] \in Nat
      BY <2>2, BoundsAssumption DEF Runs
    <3>3. JobMoves(j) /\ RunMoves(j, k)
      BY <2>1
    <3>4. CASE attempt'[j] = attempt[j]
      BY <3>1, <3>2, <3>3, <3>4 DEF RunMoves, Live
    <3>5. CASE attempt'[j] # attempt[j]
      <4>1. attempt'[j] = attempt[j] + 1 /\ pc'[j][attempt'[j]] = "fresh"
        BY <3>3, <3>5 DEF JobMoves
      <4>2. CASE k = attempt'[j]
        BY <3>2, <4>1, <4>2
      <4>3. CASE k # attempt'[j]
        BY <3>1, <3>2, <3>3, <4>1, <4>3 DEF RunMoves, Live
      <4> QED
        BY <4>2, <4>3
    <3> QED
      BY <3>4, <3>5
  <2>4. ActiveRuns'
    <3> SUFFICES ASSUME NEW j \in Job, job'[j] = "active"
                 PROVE  attempt'[j] \in Runs /\ pc'[j][attempt'[j]] # "done"
      BY DEF ActiveRuns
    <3>1. JobMoves(j)
      BY <2>1
    <3>2. CASE job'[j] = job[j] /\ attempt'[j] = attempt[j]
      <4>1. attempt[j] \in Runs /\ pc[j][attempt[j]] # "done"
        BY <3>2 DEF StandInv, ActiveRuns
      <4>2. RunMoves(j, attempt[j])
        BY <2>1, <4>1
      <4> QED
        BY <3>2, <4>1, <4>2 DEF RunMoves, Live
    <3>3. CASE attempt'[j] = attempt[j] + 1 /\ pc'[j][attempt'[j]] = "fresh"
      BY <2>2, <3>3, BoundsAssumption DEF Runs
    <3> QED
      BY <3>1, <3>2, <3>3 DEF JobMoves
  <2>5. LiveWorkers'
    <3> SUFFICES ASSUME NEW j \in Job, NEW k \in Runs, by'[j][k] \in Workers
                 PROVE  pc'[j][k] \in Live
      BY DEF LiveWorkers
    <3>1. RunMoves(j, k) /\ (by[j][k] \in Workers => pc[j][k] \in Live)
      BY <2>1 DEF StandInv, LiveWorkers
    <3> QED
      BY <3>1, WorkersAssumption DEF RunMoves, Live
  <2>6. InStep'
    <3> SUFFICES ASSUME NEW j \in Job, NEW k \in Runs
                 PROVE  pc'[j][k] \in StepsOf(j) \cup {"none", "done", "dead"}
      BY DEF InStep, StepsOf
    <3>1. RunMoves(j, k) /\ pc[j][k] \in StepsOf(j) \cup {"none", "done", "dead"}
      BY <2>1 DEF StandInv, InStep
    <3>2. "fresh" \in StepsOf(j)
      BY DEF StepsOf
    <3> QED
      BY <3>1, <3>2 DEF RunMoves
  <2> QED
    BY <1>1, <2>1, <2>3, <2>4, <2>5, <2>6 DEF StandInv
<1> QED
  BY <1>2, <1>3

LEMMA StandAlways == Spec => []StandInv
<1>1. Init => StandInv
  <2> SUFFICES ASSUME Init PROVE StandInv
    OBVIOUS
  <2>1. FlowInv
    BY FlowInit
  <2>2. \A k \in Runs : k > 0
    BY BoundsAssumption DEF Runs
  <2>3. RunsAhead
    BY <2>2 DEF Init, RunsAhead
  <2>4. ActiveRuns /\ InStep /\ ChildrenAwaited
    BY DEF Init, ActiveRuns, InStep, ChildrenAwaited
  <2>5. LiveWorkers
    BY WorkersAssumption DEF Init, LiveWorkers
  <2>6. AllAdded
    BY TreeOfJobs DEF Init, AllAdded
  <2> QED
    BY <2>1, <2>3, <2>4, <2>5, <2>6 DEF StandInv
<1> QED
  BY <1>1, StandStep, PTL DEF Spec

\* No project comes to a standstill, however large its tree and whatever happens to
\* its runs: from a project that waits for its children a child leads down that is
\* not completed, to a job that waits for nothing but a worker or its own run.
THEOREM NeverStandsStill == Spec => []NeverAtAStandstill
<1>1. ASSUME StandInv PROVE NeverAtAStandstill
  <2> DEFINE Moving(j) == \/ job[j] = "waiting"
                          \/ job[j] = "active" /\ pc[j][attempt[j]] \in StepsOf(j) \cup {"dead"}
  <2> SUFFICES ASSUME job[Project] \notin {"absent", "completed"},
                      \A j \in Job : job[j] # "failed"
               PROVE  \E j \in Job : Moving(j)
    BY DEF NeverAtAStandstill
  <2>1. \A j \in Job : job[j] \in JobStates \ {"absent", "failed"}
    BY <1>1 DEF StandInv, AllAdded, FlowInv, TypeOK
  <2>2. ASSUME NEW j \in Job, job[j] = "active" PROVE Moving(j)
    <3>1. attempt[j] \in Runs /\ pc[j][attempt[j]] # "done"
      BY <1>1, <2>2 DEF StandInv, ActiveRuns
    <3>2. pc[j][attempt[j]] # "none"
      BY <1>1, <3>1, BoundsAssumption DEF StandInv, RunsAhead, Runs
    <3>3. pc[j][attempt[j]] \in StepsOf(j) \cup {"none", "done", "dead"}
      BY <1>1, <3>1 DEF StandInv, InStep
    <3> QED
      BY <2>2, <3>1, <3>2, <3>3
  <2>3. ASSUME NEW j \in Job, job[j] # "completed"
        PROVE  Moving(j) \/ \E c \in Children(j) : c \in Job /\ job[c] # "completed"
    <3>1. CASE job[j] = "waiting-children"
      BY <1>1, <3>1, TreeOfJobs DEF StandInv, ChildrenAwaited
    <3>2. CASE job[j] # "waiting-children"
      BY <2>1, <2>2, <2>3, <3>2 DEF JobStates
    <3> QED
      BY <3>1, <3>2
  <2> HIDE DEF Moving
  <2>4. CASE \E t \in Tasks : job[t] # "completed"
    <3>1. PICK t \in Tasks : job[t] # "completed"
      BY <2>4
    <3>2. t \in Job /\ Children(t) \subseteq Parts
      BY TreeOfJobs
    <3>3. CASE Moving(t)
      BY <3>2, <3>3
    <3>4. CASE \E p \in Children(t) : p \in Job /\ job[p] # "completed"
      <4>1. PICK p \in Children(t) : p \in Job /\ job[p] # "completed"
        BY <3>4
      <4>2. Children(p) = {}
        BY <3>2, TreeOfJobs
      <4>3. Moving(p)
        BY <2>3, <4>1, <4>2
      <4> QED
        BY <4>1, <4>3
    <3> QED
      BY <2>3, <3>1, <3>2, <3>3, <3>4
  <2>5. CASE ~ \E t \in Tasks : job[t] # "completed"
    <3>1. Moving(Project)
      BY <2>3, <2>5, TreeOfJobs
    <3> QED
      BY <3>1, TreeOfJobs
  <2> QED
    BY <2>4, <2>5
<1> QED
  BY <1>1, StandAlways, PTL

\* How far a job has come grows with every change to it, up to its end.
LEMMA JobsGoForward ==
  ASSUME StandInv, NEW j \in Job, JobMoves(j), attempt'[j] \in 0 .. (MaxStalled + 1)
  PROVE  /\ JobRank(j) <= JobRank(j)'
         /\ job'[j] # job[j] => JobRank(j) < JobRank(j)'
         /\ job[j] \in {"completed", "failed"} => job'[j] = job[j]
<1>1. /\ MaxStalled \in Nat /\ attempt[j] \in Nat /\ attempt[j] <= MaxStalled + 1
      /\ job[j] = "waiting" => attempt[j] <= MaxStalled
  BY BoundsAssumption DEF StandInv, FlowInv, TypeOK, RunsInv
<1>2. job[j] \in JobStates
  BY DEF StandInv, FlowInv, TypeOK
<1>3. CASE job'[j] = job[j] /\ attempt'[j] = attempt[j]
  <2>1. JobRank(j) \in Nat
    BY <1>1, <1>2 DEF JobRank, JobStates
  <2>2. JobRank(j)' = JobRank(j)
    BY <1>3 DEF JobRank
  <2> QED
    BY <1>3, <2>1, <2>2
<1>4. CASE /\ job[j] = "absent" /\ job'[j] \in {"waiting", "waiting-children"}
           /\ attempt'[j] = attempt[j]
  BY <1>1, <1>4 DEF JobRank
<1>5. CASE job[j] = "waiting-children" /\ job'[j] = "waiting" /\ attempt'[j] = attempt[j]
  BY <1>1, <1>5 DEF JobRank
<1>6. CASE job[j] = "waiting" /\ job'[j] = "active" /\ attempt'[j] = attempt[j] + 1
  BY <1>1, <1>6 DEF JobRank
<1>7. CASE /\ job[j] = "active" /\ job'[j] \in {"waiting", "completed", "failed"}
           /\ attempt'[j] = attempt[j]
  BY <1>1, <1>7 DEF JobRank
<1> QED
  BY <1>3, <1>4, <1>5, <1>6, <1>7 DEF JobMoves

\* Whatever the size of a project, each step but a crash takes a job or a run of it
\* further, and none takes one back, so that not even a run without its lock can
\* undo or repeat how a job ended.
THEOREM FlowAlwaysGoesForward == Spec => FlowGoesForward
<1> DEFINE Forward ==
      /\ \A j \in Job : /\ JobRank(j) <= JobRank(j)'
                        /\ job[j] \in {"completed", "failed"} => job'[j] = job[j]
      /\ \A j \in Job, k \in Runs :
           pc'[j][k] = pc[j][k] \/ RunRank[pc[j][k]] < RunRank[pc'[j][k]]
      /\ \/ crashes < crashes'
         \/ \E j \in Job : JobRank(j) < JobRank(j)'
         \/ \E j \in Job, k \in Runs : pc'[j][k] # pc[j][k]
<1>1. ASSUME StandInv, Next PROVE Forward
  <2>1. /\ \A j \in Job : JobMoves(j)
        /\ \A j \in Job : \A k \in Runs : RunMoves(j, k)
        /\ Goes
    BY <1>1, EveryStepMoves DEF Moves
  <2>2. \A j \in Job : attempt'[j] \in 0 .. (MaxStalled + 1)
    BY <1>1, FlowStep DEF StandInv, FlowInv, TypeOK
  <2>3. \A j \in Job : /\ JobRank(j) <= JobRank(j)'
                       /\ job'[j] # job[j] => JobRank(j) < JobRank(j)'
                       /\ job[j] \in {"completed", "failed"} => job'[j] = job[j]
    BY <1>1, <2>1, <2>2, JobsGoForward
  <2>4. ASSUME NEW j \in Job, NEW k \in Runs
        PROVE  pc'[j][k] = pc[j][k] \/ RunRank[pc[j][k]] < RunRank[pc'[j][k]]
    BY <2>1 DEF RunMoves, Live, RunRank
  <2>5. \/ crashes < crashes'
        \/ \E j \in Job : JobRank(j) < JobRank(j)'
        \/ \E j \in Job, k \in Runs : pc'[j][k] # pc[j][k]
    BY <2>1, <2>3 DEF Goes
  <2> QED
    BY <2>3, <2>4, <2>5
<1>2. StandInv /\ [Next]_vars => [Forward]_vars
  BY <1>1
<1> QED
  BY <1>2, StandAlways, PTL DEF Spec, FlowGoesForward

=============================================================================
