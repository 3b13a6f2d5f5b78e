------------------------------ MODULE Scatter -------------------------------
(***************************************************************************)
(* One paint task from the scatter loop of RandomArtFlowProducer to the    *)
(* image RandomArtGatheringWorker assembles: the loop creates one fragment *)
(* per part, workers paint the parts in any order, and once each part has  *)
(* a reply the gatherer copies the painted rows into the full image, in    *)
(* whatever order BullMQ lists the children.                               *)
(***************************************************************************)
EXTENDS Chunking, FiniteSets

CONSTANTS
  Geometries,      \* the image sizes tasks may ask for
  PixelBudgets,    \* the values pixelsPerJob may be configured with
  PixelChecks      \* which readings of assertPixelsData to look at

ASSUME GeometriesAssumption == Geometries \subseteq Geometry
ASSUME PixelBudgetsAssumption == PixelBudgets \subseteq Nat
ASSUME PixelChecksAssumption == PixelChecks \subseteq {"as written", "as worded"}

VARIABLES
  geom,     \* the task's image size
  perJob,   \* this.config.pixelsPerJob
  phase,    \* where the task is
  made,     \* ii, the loop counter of the scatter loop
  jobs,     \* the canvas fragments of the scatter jobs
  reply,    \* part index -> what its paint job answered
  merged,   \* the parts whose reply gatherChildPart has consumed
  image,    \* destArray, one cell per row: the part that wrote it, or Blank
  threw,    \* history: something has thrown or failed that no buffer size explains
  check     \* the reading of assertPixelsData that is in the workers

task == <<geom, perJob, check>>
vars == <<task, phase, made, jobs, reply, merged, image, threw>>

Phases == {"scattering", "refused", "painting", "staged", "failed"}
Blank == -1
Parts == IF perJob = 0 THEN {} ELSE 0 .. (ChunkCount(geom, perJob) - 1)
FragmentOf(ii) == CHOOSE f \in jobs : f.index = ii

-----------------------------------------------------------------------------

\* assertPixelsData on a buffer of len bytes that should hold rows x w pixels: as
\* it is written, and as the message of its error words it.
PixelsDataRejected(len, w, rows) ==
  IF check = "as written" THEN len = 4 * w * rows ELSE len # 4 * w * rows

Init ==
  /\ geom \in Geometries
  /\ perJob \in PixelBudgets
  /\ phase = "scattering"
  /\ made = 0
  /\ jobs = {}
  /\ reply = << >>
  /\ merged = {}
  /\ image = [r \in 0 .. (geom.h - 1) |-> Blank]
  /\ threw = FALSE
  /\ check \in PixelChecks

\* pixelsPerJob = 0 makes chunkCount Infinity, and new Array(Infinity) throws
\* out of submitProject before anything is enqueued.
RefuseZeroBudget ==
  /\ phase = "scattering"
  /\ perJob = 0
  /\ phase' = "refused"
  /\ UNCHANGED <<task, made, jobs, reply, merged, image, threw>>

\* One iteration of the scatter loop.
ScatterPart ==
  /\ phase = "scattering"
  /\ perJob # 0
  /\ made \in Parts
  /\ jobs' = jobs \cup {CanvasFragment(geom, perJob, made)}
  /\ made' = made + 1
  /\ UNCHANGED <<task, phase, reply, merged, image, threw>>

EnqueueOneMore ==  \* mutant: the array of jobs is one too long
  /\ phase = "scattering"
  /\ perJob # 0
  /\ made \notin Parts
  /\ phase' = "painting"
  /\ reply' = [ii \in Parts \cup {made} |-> "none"]
  /\ UNCHANGED <<task, made, jobs, merged, image, threw>>

\* The loop is done and the flow is added: its jobs become visible to workers.
Enqueue ==
  /\ phase = "scattering"
  /\ perJob # 0
  /\ made \notin Parts
  /\ phase' = "painting"
  /\ reply' = [ii \in Parts |-> "none"]
  /\ UNCHANGED <<task, made, jobs, merged, image, threw>>

\* RandomArtPaintingWorker.process on part ii: the reply is a painted fragment, or
\* the error envelope handleWith makes of what was thrown: the RangeError of a
\* buffer of negative size, the pixel check, or anything else on the way (making the
\* model, loading the region map, plotting, the conversion, updateProgress).
PaintPart(ii) ==
  /\ phase = "painting"
  /\ reply[ii] = "none"
  /\ LET f == FragmentOf(ii)
         rows == PaintedHeight(geom, f)
         fits == /\ Allocatable(geom, f)
                 /\ ~PixelsDataRejected(4 * geom.w * rows, geom.w, rows)
     IN \/ /\ fits
           /\ reply' = [reply EXCEPT ![ii] = "painted"]
           /\ UNCHANGED threw
        \/ /\ ~fits
           /\ reply' = [reply EXCEPT ![ii] = "error"]
           /\ UNCHANGED threw
        \/ /\ reply' = [reply EXCEPT ![ii] = "error"]
           /\ threw' = TRUE
  /\ UNCHANGED <<task, phase, made, jobs, merged, image>>

AllReplied == \A ii \in Parts : reply[ii] # "none"

\* destArray.set at fragmentFirstRow: the image with the rows of part ii in it.
Merged(ii) ==
  LET f == FragmentOf(ii)
      rows == f.first .. (f.first + PaintedHeight(geom, f) - 1)
  IN [r \in DOMAIN image |-> IF r \in rows THEN ii ELSE image[r]]

MergePartSkipsErrors(ii) ==  \* mutant: an error child is skipped, not thrown on
  /\ phase = "painting"
  /\ AllReplied
  /\ ii \notin merged
  /\ reply[ii] = "painted"
  /\ image' = Merged(ii)
  /\ merged' = merged \cup {ii}
  /\ UNCHANGED <<task, phase, made, jobs, reply, threw>>

\* One turn of the merge loop: an error reply makes gatherChildPart throw, and with
\* it the whole gather job; the rows of a painted one are copied; and reading the
\* reply, or updateProgress after the copy, may throw.
MergePart(ii) ==
  /\ phase = "painting"
  /\ AllReplied
  /\ ii \notin merged
  /\ \/ /\ reply[ii] = "error"
        /\ phase' = "failed"
        /\ UNCHANGED <<merged, image, threw>>
     \/ /\ reply[ii] = "painted"
        /\ phase' = "failed"
        /\ threw' = TRUE
        /\ UNCHANGED <<merged, image>>
     \/ /\ reply[ii] = "painted"
        /\ image' = Merged(ii)
        /\ merged' = merged \cup {ii}
        /\ phase' \in {"painting", "failed"}
        /\ threw' = (threw \/ phase' = "failed")
  /\ UNCHANGED <<task, made, jobs, reply>>

\* All children merged: check the assembled pixels, encode and stage them.  The
\* encoder may throw, stage may report FATAL_ERROR, and the last updateProgress may
\* throw with the image staged: the submitter is told of no image in any of them.
FinishGather ==
  /\ phase = "painting"
  /\ AllReplied
  /\ merged = Parts
  /\ LET rejected == PixelsDataRejected(4 * geom.w * geom.h, geom.w, geom.h)
     IN \/ /\ rejected
           /\ phase' = "failed"
           /\ UNCHANGED threw
        \/ /\ ~rejected
           /\ phase' \in {"staged", "failed"}
           /\ threw' = (threw \/ phase' = "failed")
  /\ UNCHANGED <<task, made, jobs, reply, merged, image>>

Next ==
  \/ RefuseZeroBudget
  \/ ScatterPart
  \/ Enqueue
  \/ \E ii \in Parts : PaintPart(ii) \/ MergePart(ii)
  \/ FinishGather

\* Workers keep taking jobs and the loop runs to its end.
Spec == Init /\ [][Next]_vars /\ WF_vars(Next)

-----------------------------------------------------------------------------
(***************************************************************************)
(* Properties.                                                             *)
(***************************************************************************)

\* The types of the variables.
TypeOK ==
  /\ geom \in Geometries
  /\ perJob \in PixelBudgets
  /\ phase \in Phases
  /\ made \in Nat
  /\ jobs \in SUBSET [index : Nat, first : Nat, last : Int]
  /\ phase \in {"scattering", "refused"} => reply = << >>
  /\ phase \notin {"scattering", "refused"} =>
       reply \in [Parts -> {"none", "painted", "error"}]
  /\ merged \in SUBSET Parts
  /\ image \in [0 .. (geom.h - 1) -> Parts \cup {Blank}]
  /\ threw \in BOOLEAN
  /\ check \in PixelChecks

\* Once the scatter loop has run, every row of the image is in exactly one
\* fragment, whatever the rounding of the two Math.ceil calls did.
RowsPartitioned ==
  phase \notin {"scattering", "refused"} =>
    \A r \in 0 .. (geom.h - 1) :
      /\ \E f \in jobs : r \in RowsOf(f)
      /\ \A f1, f2 \in jobs : r \in RowsOf(f1) /\ r \in RowsOf(f2) => f1 = f2

\* gatherChildPart never overwrites a row another part has painted, so the
\* order in which BullMQ lists the children cannot show in the image (proved of
\* all sizes; of a staged image StagedImageWhole shows it, too).
RowsWrittenOnce ==
  [][\A r \in DOMAIN image : image[r] # Blank => image'[r] = image[r]]_vars

\* A staged image has each row painted by the part whose fragment claims it,
\* although nothing compares the children with expectedPartCount.
StagedImageWhole ==
  phase = "staged" =>
    \A r \in DOMAIN image : \E f \in jobs : r \in RowsOf(f) /\ image[r] = f.index

\* The strengthening RowsPartitioned rests on: jobs is what the loop has made so
\* far, and the loop leaves "scattering" only when it has made every part.
JobsInv ==
  /\ jobs = {CanvasFragment(geom, perJob, ii) : ii \in 0 .. (made - 1)}
  /\ perJob = 0 => phase \in {"scattering", "refused"} /\ made = 0
  /\ perJob # 0 => phase # "refused" /\ made <= ChunkCount(geom, perJob)
  /\ phase \notin {"scattering", "refused"} => made = ChunkCount(geom, perJob)

\* The strengthening RowsWrittenOnce and StagedImageWhole rest on: the image
\* holds the rows of the merged parts and nothing else.
ImageInv ==
  /\ phase \in {"scattering", "refused"} => merged = {}
  /\ phase = "staged" => merged = Parts
  /\ \A r \in DOMAIN image :
       /\ image[r] # Blank =>
            image[r] \in merged /\ r \in RowsOf(CanvasFragment(geom, perJob, image[r]))
       /\ \A ii \in merged :
            r \in RowsOf(CanvasFragment(geom, perJob, ii)) => image[r] = ii

\* The last part starts below the image: rounding rowsPerChunk up used up the
\* rows before the parts.
Overshoot == FirstRow(geom, perJob, ChunkCount(geom, perJob) - 1) > geom.h

\* A task is lost for a cause: its last fragment starts below the image, the pixel
\* check is the one that is written, or something threw; and no such thing is ever
\* swallowed on the way, by a worker or by the gatherer: none of them lets an image be
\* staged.  As the check is written, no image is.
LostJustForCause ==
  /\ phase = "failed" => Overshoot \/ check = "as written" \/ threw
  /\ phase = "staged" => ~Overshoot /\ check # "as written" /\ ~threw

\* Every task ends: refused, staged or failed.
TaskEnds == <>(phase \in {"refused", "staged", "failed"})

-----------------------------------------------------------------------------
(***************************************************************************)
(* What the repository says of the split and of the pixel check, and the   *)
(* code does not do: each is the one property of a run that violates it.   *)
(***************************************************************************)

\* FlowConfiguration.ts:37 "at least one full row must fit into each part".
EveryPartHasARow ==
  phase = "painting" => \A f \in jobs : PaintedHeight(geom, f) >= 1

\* NominalUtil.ts:130 rejects data whose sizes "are incorrect for data size":
\* a part whose buffer has just the size of its rows is not rejected.
CorrectSizeAccepted ==
  phase = "painting" =>
    \A f \in jobs : reply[f.index] = "error" => threw \/ ~Allocatable(geom, f)
=============================================================================
