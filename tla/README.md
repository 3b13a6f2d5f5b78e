# Verification of the random-art painting service

This directory holds a TLA+ model of the service under `src/function/src`: a
NestJS/BullMQ application that paints generative art.  A *project* is submitted as
a set of *tasks* (one image each); each task is split into *parts* (bands of
rows); workers paint the parts, a gather worker assembles and stages the image
of each task, and a project worker collects the outcomes into a manifest.

Paths below are relative to `src/function/src`.  The rest of the repository (`attic`,
`atticV1`, `plot_maps`, `lists`, `python`, `layers`, `old`, `protobuf`,
`bull-board`) is superseded code, data and tooling and is not considered.

## 1. Inventory

| Component | State | Operations | What makes it correct |
|---|---|---|---|
| Envelope protocol, `messages/components` | per envelope: lifecycle state, trace, version, body; per message: its memento on the wire | createEnvelope, startReplying, commitBody, commitError, toJSON, fromWire, beginHandling, endHandling, handleWith | the lifecycle only advances; a message id names one message however often it is delivered; causation forms trees; a rolling upgrade refuses nothing; a settled handleWith leaves nothing open |
| Flow producer, `painting/queue/components/RandomArtFlowProducer.ts` | none of its own; builds a job tree | submitProject, createTaskFlowChildren, createPaintPartJob, resolveRegionMaps | the fragments of a task partition the rows of its image |
| Paint worker and task engine, `RandomArtPaintingWorker.ts`, `painting/artwork` | none between jobs | process, performPaintTask | a part paints just its rows, or answers with an error |
| Gather worker, `RandomArtGatheringWorker.ts` | the image buffer of the running job | process, gatherChildPart, createErrorResult | a staged image is whole; every request is answered |
| Project gather worker, `RandomArtProjectGatheringWorker.ts` | counters and entries of the running job | process, updateCounters, buildManifestEntry, createErrorResult | manifest and answer tell the truth about the tasks; every task is counted |
| Image stagers, `painting/staging/components` | the staged files | stage | a file reported as staged holds the image of that task |
| Queue wiring, `painting/queue/di`, `app/shared/di` | BullMQ's jobs, locks and parent/child links (external) | fetch, complete, fail, stall | a submitted project ends |
| File stores, `storage` | files | write, read, delete, exists | (used by the project worker for the manifest) |
| Block store, `ipfs/components/FsBlockstore.ts` | block files, LRU cache, two locks | open, close, put, get, has, delete | the cache holds whole blocks, whose files are whole; one writer excludes readers |
| Reply routing, `painting/queue/unused/ReturnQueueRoutingProcessor.ts` | pending requests and their timers | registerPendingRequest, process | who waits for a reply hears it or a timeout, late replies are dropped, the map does not leak |
| Pipeline core, `pipeline` | the stages of a builder; per call the contexts that features and steps fill, and what was pruned | the builder's methods, buildPipeline, a call of the pipeline | a missing feature prunes what depends on it and nothing else; expressions supplied as data see public values only |
| Permutation expansion, `app/trigram-permutation/logic` | none | expandToPermutationsSpec | each pair of terms exactly once |
| ULIDs, primes, seeds, `painting/utility` | generator state | rollSequence, ulid, encode and decode seeds | ids differ; encodings round-trip |
| Region map repository, `plotting/ipld/components/IpldRegionMapRepository.ts` | none of its own; blocks and roots in the block store | import, load | a root in the store means that its map can be loaded; a load fails only for a cause |
| Region map arithmetic, `plotting` | immutable | paletteMaybe, blockify, unblockify, hydrate, directPlotter | what is read back is what was imported; a band plots just its rows |

Components meet in three ways: by *calls* (worker to engine, stager, store), by
*messages* (mementos in job data and job return values, kept by BullMQ), and by
*files* (staged images and the manifest).  The hard behaviour is where these
cross a process boundary.  BullMQ delivers a job again when a lock expires, also
while the first worker still runs, so two runs of one job may write files and
only one decides how the job ends.  Workers of several releases exchange
messages during an upgrade.  A parent job waits for its children, and nothing
in the wiring fails it when a child has failed.  `PROJECT.json` lists each
hazard with its line and the properties that watch it.

## 2. Modules

| Module | Models |
|---|---|
| `Chunking` | the arithmetic of splitting and of clipping (operators only) |
| `Scatter` | one task: the scatter loop, painting in any order, merging in any order |
| `ScatterProofs` | theorems about `Scatter` |
| `Messages` | versions, traces, lifecycle states, acceptance of a memento |
| `Envelope` | all envelope objects and mementos of a set of processes, with redelivery, restart and upgrade |
| `EnvelopeProofs` | theorems about `Envelope` |
| `ProjectContract` | abstract: what a submitter is promised |
| `PaintFlow` | one project as BullMQ jobs, runs, workers and files; implements `ProjectContract` |
| `PaintFlowProofs` | theorems about `PaintFlow`, the refinement among them |
| `BlockStore` | put and get of the block store, step by step, with its LRU cache and I/O errors |
| `RegionMapStore` | imports and loads of region maps over `BlockStore`, with crashes |
| `RegionMapStoreProofs` | theorems about `RegionMapStore` |
| `RegionMapCoding` | how a map's numbers are cut into blocks and read back, and how a band of rows is plotted |
| `RegionMapCodingProofs` | theorems about `RegionMapCoding` |
| `ReplyRouting` | requests that wait for replies, their timers and their subscribers |
| `ReplyRoutingProofs` | theorems about `ReplyRouting` |
| `Pipeline` | buildPipeline over a list of stages, and one call of the result |
| `PipelineProofs` | theorems about `Pipeline` |
| `InductionLemmas` | induction over numbers, as lemmas on sets that the proof modules cite |
| `MCScatter`, `MCEnvelope`, `MCPaintFlow`, `MCRegionMapStore`, `MCRegionMapCoding`, `MCReplyRouting`, `MCPipeline` | instances for TLC |

`Scatter` composes `Chunking`.  `PaintFlow` uses `Messages` for what a worker makes of
a memento, and abstracts `Scatter` to "a part is painted or answered with an
error, an image is merged or the merge throws" and `Envelope` to what handleWith
returns.  `RegionMapStore` is built on `BlockStore` and stands beside the others: painting
only loads maps, and what a failed load does (the part answers with an error,
or submitProject throws) is in `PaintFlow` already.  `RegionMapCoding` is about the
content of the blocks that `RegionMapStore` treats as opaque, and plots the bands
that `Chunking` computes.  `ReplyRouting` and `Pipeline` stand alone, as in the code.  `PROJECT.json` maps each definition to the lines it stands for.

Definitions marked `\* mutant` are variants of the definition that follows them,
each with one plausible bug.  No specification uses them.  They show that the
properties are sensitive to the code: with the variant put in place of the
original, the property that `PROJECT.json` pairs it with fails.

### Scatter

State: the image size `geom` and the budget `perJob`; the counter `made` and the
fragments `jobs` of the loop in createTaskFlowChildren; the `reply` of each paint
job; the parts gatherChildPart has `merged`; and `image`, the gatherer's
destArray with one cell per row that names the part that wrote it.  One action
per iteration of the scatter loop (`ScatterPart`), for adding the flow (`Enqueue`), for
painting a part, for merging one, and for checking and staging the whole.
Parts are painted, and merged, in every order.

assertPixelsData as written (`painting/messages/components/NominalUtil.ts:125-127`)
throws for each buffer that has the right size, so with it every part ends in an
error and nothing is ever staged.  The variable `check` says which reading is in
the workers, the one written or the one its error message describes, and the
constant `PixelChecks` which of them an instance looks at.  The run `scatter` and the
theorems take both: with the reading as worded, what comes after the check is
exercised at all.  `scatter_rows` and `scatter_pixelcheck` take the code as written.

Each of `PaintPart`, `MergePart` and `FinishGather` has a branch in which something else on
its way throws: making the model, loading the region map, plotting, the
conversion, reading a reply, updateProgress, the encoder, or a FATAL_ERROR of the
stager.  The history variable `threw` records it, so that `LostJustForCause` can tell
these from the two causes that lie in sizes and in the check.

Divisions are of doubles in the code.  They are exact enough for `Math.ceil` for
all image sizes below 2^53 pixels, so the model uses integers.

### Envelope

State: the `release` each process runs, the live envelope objects `env`, the
mementos made (`wire`, which never shrinks, because BullMQ may deliver one again),
and the traces of all messages ever created.  One action per public method; a
method whose state assertion fails throws and changes nothing, so the assertion
is the guard.  handleWith is two steps, before and after it awaits its handler;
between them the handler may do anything to the envelope, also close it.
`Restart` drops the objects of a process and may bring a later minor release.

Left out: headers and span timing (nothing reads them back), RECEIVED (an
envelope leaves it before fromWire returns), createEnvelope with an explicit
parent and startReplying with its own workload and version (no caller).  ULIDs
come from a counter: the model assumes that they differ.  An upgrade follows
`messages/DESIGN.md:27`: recipients first, then their sender.

### PaintFlow

State: for each job its BullMQ state and the number of runs it was given to; for
each run where its process() call is (`pc`) and on which worker (`by`); the values
the jobs returned; the staged files and the manifest.  The steps of a run end
where the code awaits:

| Action | Code |
|---|---|
| `SubmitProject` | submitProject; flowProducer.add is one transaction |
| `Paint` | RandomArtPaintingWorker.process |
| `MergeParts` (ending with `NameImage`) | RandomArtGatheringWorker.process up to the first await of stager.stage, which has then made the file name |
| `OpenImage`, `StoreImage` | stage: createWriteStream opens and so truncates the file; all bytes are written or the stream fails |
| `ReplyGathered` | the rest of RandomArtGatheringWorker.process |
| `Collect`, `OpenManifest`, `WriteManifest`, `ReplyProject` | RandomArtProjectGatheringWorker.process up to the manifest, the two effects of fs writeFile, the rest |
| `Take`, `DeadWorkerStalls`, `LiveWorkerStalls` | BullMQ gives a job out, and finds an expired lock (external) |
| `Crash` | a worker process dies with all its runs and is started again |

Every step that calls something that may throw has the branch in which it
throws: handleWith turns it into an error reply, except where the envelope was no
message, where process() itself throws and the job fails.  BullMQ is modelled
with the defaults this code leaves it with: one attempt, a job that stalls more
than `MaxStalled` times fails, and a failed child does not fail its parent.

One project is enough: job trees are disjoint, and so are the directories of two
projects.  A worker runs any number of jobs at once (its concurrency is
configurable).

Files.  `write` says for each run which file it has named, and how far it is with
it.  Opening a file truncates it, so earlier runs that still write it are "cut":
their next bytes go where they left off.  A file that is not wholly one task's
image is `Partial`.  All runs of one task write the same bytes, so a run that was
cut may still leave a whole image, or a part of one (`ImageAfter`); a run of another task
under the same name may leave a mixture.  Likewise two manifests of one project
list the same children in the same order and differ in the time alone, whose
length is fixed (`ManifestAfter`).  A run that fails or dies after opening leaves
what is there.  `StagedFilesHold` therefore has the exception `Disturbed`: the last run
that opened the file is still writing it or broke off (a retry whose predecessor
has been answered for can do this), or a run of another task has opened it.
`ManifestFaithful` has the same exception for the manifest.  What the properties say
is that nothing else leaves a partial file behind an answer: not the number of
runs, not their order, not the ones that were cut.

S3ImageStager reports success
without uploading (its upload is a TODO), so the model stages with
LocalImageStager.  numStaged always equals numCompleted and is left out.

### BlockStore and RegionMapStore

State: what each block's `file` holds (nothing, a part, the whole block); where
each call of `put` is; the LRU `cache`, one record with the entries in their order,
what each holds (a value, or a read in flight), what that read has seen of the
file, and what became of each get; and for each call of import or load the
`stage` it awaits.

| Action | Code |
|---|---|
| `MakeDirectory`, `OpenForWrite`, `FinishWrite`, `WriteFails`, `Unlink` | FsBlockstore.put from await to await: mkdir; writeFile truncates; writeFile is done and the cache is set; the catch drops the cached value; its unlink |
| `Fetched` (an operator) | FsBlockstore.get: lruCache.fetch hits, joins a read in flight, or starts one |
| `OpenForRead`, `FinishRead`, `ReadFails` | the readFile of curryFetchMethod |
| `Import`, `CommitData`, `CommitRoot`, `AnswerImport`, `FailImport` | commit: the batches of puts, each begun when the one before has ended |
| `Load`, `LoadPalettes`, `LoadData`, `AnswerLoad`, `FailLoad` | load: the batches of gets |
| `Crash` | the process dies; files stay as they are |

A batch is a Promise.all: it fails with the first call that fails, and the others
go on, also beside the next import of the same map.  The gets of a batch begin
in one synchronous loop, so they are one step (a fold of `Fetched`).  writeFile
truncates the file that other puts of the block have written or are writing:
such a put is "cut" and cannot tell; one whose path has been unlinked is "lost".
A read that such a put overlaps has the whole block or a part of it, and
decodeBytes throws on a part.  lru-cache (version 10) is external: setting,
deleting or evicting an entry whose read is in flight aborts the read, and every
get that waits for it rejects.

What the exceptions in the properties stand for: a put that fails unlinks the
block even if another import had stored it (`Unlink`), so a map imported earlier
can lose a block; an import answered while another one rewrites a shared block
has, for that moment, a truncated file; and a load fails although its blocks are
there when a put of one of them ends during the read, or when more reads are in
flight than the cache has entries.

Left out: options.signal (no caller passes one), close, has and delete (nothing
calls them), the two locks taken by the constructor (the model is of one process
that holds the store), and what a block encodes.  A map's palette and data
blocks are taken to differ.  encodeModel throws on a block before put is called,
which is a block that is "refused" as when put finds the store closed.  In a map whose palettes repeat a block, one
import puts it twice; two imports that share it show the same.

### RegionMapCoding

State: the imported `map` (its size and its four lists of numerators and
denominators), the `coding` that paletteMaybe chose for each list, the `blocks` made
so far, how many of them have been `read` back and into what `lists`, and the band
last `plotted`.  `Blockify` is one turn of the loop of blockify and `Unblockify` the
contribution of one block to the four unblockify calls; both are done for the
palettes before the data.  `Plot` is directPlotter with any range of rows.

Lists are sequences of whole numbers, and each block keeps its slices as
sequences of words, so the bit streams themselves (`@thi.ng/bitstream`, external)
are left out; what matters of them is kept: a word loses what does not fit its
length (`Translated`), and a slice is filled up to whole bytes, of which hydrate
reads as many words as they have room for (`Spare`).  Numerators are not
negative: they are distances from the left or bottom boundary of the region.  A
list has at least one number, because measureSize throws for a word length
without a list (an import of an empty map is refused).

### ReplyRouting

State: the message id of each request, the `causationMap`, for each request its
`timer` and its rxjs Subject, and for each subscriber of a request what it has
heard.  No call awaits, so each is one step: `Register`, the timer (`Fire`),
`DropReply` and `RouteReply` for process, and the three ways in which a subscription
begins or ends.  Which request has which id is chosen at the start, so ids may
repeat; `Alone` singles out the requests whose id is their own.

finalize runs when any one subscription ends: `Finalized` therefore takes the timer
and the map's entry away from all other subscribers.  What rxjs does is external:
completing and erring reach those who have subscribed, a late subscriber hears
the end and no value.  Left out: what happens to an error nobody handles, and
replies without a causationId, which change nothing.  Nothing in the repository
registers a request at this commit; the module models what the class promises
to one that will.

### Pipeline

State: the `stages` the builder accumulated, the place (`slot`, `evaluated`) of the
call's loop, the three contexts as functions from names to keys, what was
pruned, and how the call ended.  The preparation (`Kept`, `At`) is evaluated where it
is used, since it never changes.

| Action | Code |
|---|---|
| `Init` | the merged defaults, and the seeding of injections and pure functions |
| `Skip` | a place in which nothing runs: removed by the filter, or seeded before |
| `Step`, `StepRejects` | case "step", and its method throwing |
| `Expr`, `Indirect`, `Method`, `Prune` | one property of case "feature"; the end of one that failed |
| `Publish` | what case "feature" does with the finished namespace |
| `Finish` | the result selectors |

A value is modelled by the keys it has.  An expression is the set of what it
reads: a name, a key of a name, or a call of a name (`Call`).  It throws when it
reads a key of a name that is absent, or calls what is no function there (both
external, what jse-eval does; `core.test.ts:239-247` pins the second).  What an
indirect property's outer expression yields is any of a given set of texts: an
expression; nothing, for which `core.ts:498-501` prunes the feature; or one that does
not parse, for which compile throws (`core.ts:495`) and so the call rejects.  A
function that an expression calls may itself throw, which is told apart from the
above: the call then ends "rejected", as it does when a step or a method throws.

An injection is public or private as a whole (its `isPublic` is a boolean), so only
features are shown in part.
Names are unique but for virtuals (`UniqueNames`), as the builder's documentation
demands.  Its types let some clashes through; section 6.  Left out: segments,
which replay the builder's calls; the cache of compiled inner expressions, which
cannot be observed; result selectors given as a function; injections left
undefined or that are functions themselves (an injection is a value with keys here).

## 3. Properties and runs

| Run | Instance | Shows |
|---|---|---|
| `scatter` | all images up to 2 x 5, budgets 0, 1, 2, 3, 4, 6, both readings of the pixel check | `RowsPartitioned`, `StagedImageWhole`, `LostJustForCause`, `TaskEnds` |
| `envelope` | 2 processes, 2 live objects, 3 messages, 3 minor releases | `TraceForest`, `OneMessagePerId`, `RollingUpgradeSafe`, `SettledIsExhausted`, `LifecycleAdvances` |
| `flow` | 2 tasks of one part, 2 workers (one without the project role), 1 crash, 1 lost lock, 1 clock value | `ManifestFaithful`, `StagedFilesHold`, `FailsOnlyForCause`, `NeverAtAStandstill`, `ContractSpec`, `FlowGoesForward` |
| `flow_ends` | 1 task of 2 parts, 1 worker of an older release, 1 crash, 1 lost lock, 2 clock values | `AnsweredOrFailed` |
| `blocks` | 2 maps that share a palette and a data block, 2 imports, 2 loads, cache of 2, 1 fault | `RootMeansMap`, `CacheTellsTheTruth`, `GetFailsOnlyForCause`, `NeverStuck`, `NobodyWaitsInVain`, `CallsGoForward` |
| `scatter_rows`, `scatter_pixelcheck`, `flow_reply`, `flow_collide` | see section 6 | a statement of the repository that the code does not keep |
| `coding` | 1275 maps of 7 x 2, 1 x 3 and 4 x 2 pixels, of both layouts; 3 bytes of payload in a block | `NumbersKeepTheirPlaces`, `ListsRestored`, `BandPlotsItsRows` |
| `reply` | 2 requests under 2 ids, 2 subscribers, 2 replies for each id | `EntriesExpire`, `WaitersAreReachable`, `WaitersHearTheAnswer`, `WaitersSettle` |
| `pipeline` | the 14091 lists of four of 20 stages that the builder accepts | `PrunedAreTheStarved`, `NothingPrivateShown`, `ThrowsOnlyForCause`, `OutputTellsTheTruth` |

Each module also has one type invariant.  `RowsWrittenOnce` and `CountersAddUp` are
proved for all values of the constants and are in no run: `ContractSpec` implies
`CountersAddUp`, and a part that overwrites rows of another breaks `StagedImageWhole`, too, which
is checked for every order of merging.

Why the bounds are enough.  *scatter*: the sizes include widths above and below
the budget, heights that divide evenly and that do not, empty last parts and
parts that start below the image; the theorems cover all other sizes.
*envelope*: three messages are a root, a child and a grandchild, or two children
of one parent, with both ends of a delivery live at once; three minors let a
process lag by one and by two; all the properties of this run are also proved
without bounds.  *flow*: `MaxStalled` = 1 (BullMQ's default) gives each job two
runs, so two runs of one job overlap, alone or each with a crash; one
clock value is the hard case, in which all runs of a task stage under one name and cut
one another (with two values the run that names a file later has one to itself,
which `flow_ends` includes); the two tasks are interchangeable, so the run uses
symmetry.  *flow_ends* has no
second task, since liveness of one chain of jobs does not depend on another.

*blocks*: two imports put one block at once, one after another, or one as the
retry of the other; two loads share a read; a batch of two and a cache of two
evict reads in flight; one fault is an I/O error in any call or a crash (an
unlink that fails after a write that failed is not counted).  Imports and loads
are each interchangeable, so the run uses symmetry.

*coding*: the lists repeat one value, repeat two, or do not repeat, in words of
1 to 9 bits, so palettes do and do not pay; with 3 bytes a block they fill one
block or several, and the last may be empty; the theorems cover all other sizes.
*reply*: two requests are enough to take one id from one another, two
subscribers to leave one another without a timer, and a second reply is a
duplicate or late.  *pipeline*: four stages are a virtual, its feature, one in
between and one that reads either; the alphabet has three features for one
virtual, each visibility and each form of property, calls where the function is
visible and where it is not, and each form of text an outer expression yields.

Deadlock is not checked for `Scatter`, `PaintFlow`, `RegionMapStore`, `RegionMapCoding`,
`ReplyRouting` and `Pipeline`: a task, a project, the calls, an import and a load, the
requests and a pipeline's call end.

That imports and loads end is stated as an invariant, `NeverStuck`: while one of
them awaits, a step is possible.  It is enough because of `CallsGoForward`: every
step takes one of finitely many calls forward, opens the file of a read, which
is done once for it, or is one of finitely many faults, so no behaviour goes on
for ever.  `NobodyWaitsInVain` says what `NeverStuck` rests on without ENABLED: a read
is in flight exactly while a get waits for it, and who awaits a batch has begun
each call of it.

`NeverAtAStandstill` and `FlowGoesForward` are the same for the flow: as long as no
job has failed, a job waits for a worker or is in a run that is at a step of its
worker or whose worker died, so that an action of the fairness below is possible (given a
worker with the role); and each step but a crash takes a job or a run of it
further in an order that is bounded, so that it is answered after finitely many
steps.

Fairness.  `Scatter`: some step of an unfinished task is eventually taken, because
BullMQ hands out waiting jobs while workers run.  `PaintFlow`: a waiting job is
eventually fetched by some worker with the role, a run on a live worker
eventually takes its next step (each await of the code settles), and BullMQ's
stalled check, which runs on a timer, eventually finds the lock of a dead worker.
`ReplyRouting`: an armed timer fires, since the process lives and its event loop
turns.  Nothing is assumed of crashes, lost locks, replies, subscribers or of
which branch a step takes.

## 4. Refinement

`ProjectContract` is what a submitter may rely on: each task is decided once, an
answer comes only after all tasks are decided and counts them right, and a
project one of whose jobs failed is never answered.  `PaintFlow!Contract` maps the
project job and its failed descendants to `status`, what gather jobs returned to
`outcome`, and the project's return value to `report`; run `flow` checks `ContractSpec`,
and `PaintFlowProofs` proves it for every value of the constants.
The interesting part is that overlapping runs of a job leave no trace in the
contract: only the run that holds the lock is heard.

## 5. What is proved

All proofs are checked by tlapm, for every value of the constants that satisfies
the named assumptions of the modules.

`ScatterProofs`: `TypeCorrect`, `RowsArePartitioned`, `RowsAreWrittenOnce`, `StagedImageIsWhole`,
`TasksAreLostForCause`.
The arithmetic core is a set of lemmas on `CeilDiv`: ChunkCount x RowsPerChunk
covers the height, so each row r is in the fragment r \div RowsPerChunk and in no
other, although later fragments may be empty or start below the image.
`RowsPartitioned` is not inductive: `JobsInv` says that `jobs` is what the loop has made
so far and that the loop ends only at the last part.  `StagedImageWhole` and
`RowsWrittenOnce` need `ImageInv`: the image holds the rows of the merged parts and
nothing else.
`TasksAreLostForCause` assumes nothing of the pixel check.  Its strengthening `ReplyInv`
says that a part is answered with an error only if it starts below the image, the
check is the one that is written, or something threw; that only painted parts are
merged; and that what threw shows, as a failed task or an error reply.  As no
part starts lower than the last (`LastPartIsLowest`), the last part alone decides
about the overshoot.

`EnvelopeProofs`: `TypeCorrect`, `TracesFormTrees`, `MessagesHaveOneId`,
`SettledEnvelopesAreExhausted`, `LifecyclesAdvance`, `RollingUpgradeRefusesNothing`.
The strengthenings: `TraceInv` (all traces live or sent are in the history, ids
below the counter, each once); `MessageInv` (a message has at most one outbound
object, which is what was sent if it was sent, and an inbound object was
restored from a memento); `CallInv` (the envelope of a running handler is at most
closed early); `UpgradeInv` (every process can handle every message in flight and
what the origin may send next).

`PaintFlowProofs`: `TypeCorrect`, `ManifestIsFaithful`, `FailsOnlyForACause`, `CountersAlwaysAddUp`,
`StagedFilesAlwaysHold`, `ImplementsContract`, `NeverStandsStill` and `FlowAlwaysGoesForward`, for any
number of tasks, parts, workers, releases, crashes and lost locks.  The strengthening `FlowInv` has four parts of its
own: `RunsInv` (a run that goes on is one of its job's attempts and is on a worker;
a waiting job has a run left), `TreeInv` (a job that has begun has only completed
children), `GatherInv` (a gather job has returned if and only if it is completed) and
`ProjectInv` (what any run of the project job has collected, what the manifest says
and what was answered are the messages of the gather jobs).  Overlapping runs do
no harm because of `TreeInv`: once the project job has begun, no gather job is active
any more, so no run of one can return, and all runs of the project job
collect the same.  The refinement has a lemma for each way a job ends:
`GivenUpRefines` (Lose), `GatherReturnRefines` (Decide), `ProjectReturnRefines` (Answer,
with `CountersCountOutcomes`); a run without the lock is a stutter.

`StagedFilesAlwaysHold` and the second part of `ManifestIsFaithful` rest on `StoresInv` on
top of `FlowInv`: `WriteInv` ties how far a run is with its file to the step it is at;
`FilesInv` says that a file some run of a task has opened holds the task's image or is
`Disturbed`, and that what a gather job returned as staged was written in full by one
of its runs; `ManifestInv` says the same of the manifest.  The lemma `WhatStepsWrite`
sorts the steps: one is quiet, or names, opens or fills an image, or opens or
fills the manifest, and each of these keeps `StoresInv` for its own reason.

The last two theorems rest on `StandInv`, which adds to `FlowInv`: the runs of a job are
numbered as they are given out (`RunsAhead`); the run that holds an active job's
lock has not returned or thrown (`ActiveRuns`); a run that goes on is at a step of
its own worker (`InStep`), and only such a run is on one (`LiveWorkers`, which a crash
needs); the tree is added as a whole (`AllAdded`);
and a job that waits for children waits for one that is not completed
(`ChildrenAwaited`).  From a project that waits, such children lead down to a job
that waits for none, and that is the one that can move.  `EveryStepMoves` says what
any step may do to a job (`JobMoves`) and to a run (`RunMoves`); that `StandInv` is kept
and that the flow goes forward both follow from it.

`RegionMapStoreProofs`: `DiskTypeCorrect`, `RootMeansMapHolds`, `TypeCorrect`, `CacheIsTruthful`,
`GetsFailForCause`, `NobodyEverWaitsInVain`, `CallsAlwaysGoForward`, for any number of maps,
shared blocks, imports, loads and faults and any size of the cache.  `RootMeansMap` needs three
strengthenings: `InOrder` (which of an import's puts may have begun at each stage,
and that its root's begins only when all it links to are done);
`RootsAreImported` (a root's file was made by an import of its map); and
`LastWriterWins` (of the puts in a block's file, the one that opened it last
leaves it whole, unless one of them broke off).  They make up `DiskInv`; no step of
its proof is about the cache.

The next three rest on `CacheInv`, which adds: a file that is being written exists
(`WrittenFilesExist`); the root an import answered with has been put (`AnswersArePut`)
and a load is only of such a root (`LoadsOfAnswered`), so that a load meets a
missing block only after a fault; and `CacheFits`, the part about the cache: the
order lists each cached block once and no more than fit; a cached value is the
whole block unless a put of the block is at work or broke off, and what a read in
flight has seen agrees with its file (`ValueFits`); each get that failed did so for
a cause that is still visible (`AnswerFits`).  The hard step is a batch of gets, a
fold of `Fetched` over its blocks: every `Fetched` keeps `CacheFits`, and what holds at
the start and is kept by each turn holds of the whole fold.

The last two need in addition, as `WaitInv`: a read is in flight exactly while a get
waits for it (`ReadAwaited`, through joins, evictions and puts that replace the
entry); an import that awaits a batch has begun each put of it (`PutsBegun`); and a
load has begun each get of the batch it awaits and none of a later one
(`GetsInOrder`).  The last is what makes `CallsGoForward` hold of a batch: its gets are
asked for the first time, so none that was answered waits again.

`RegionMapCodingProofs`: `TypeCorrect`, `NumbersStay`, `ListsAreRestored`, `BandsPlotTheirRows`,
`WideWordsAreTight`, for all maps and block sizes.  The arithmetic is in lemmas
about slices: with slices of n numbers, number i is in slice i \div n, and n times
the number of blocks reaches the end of the list.  The invariant has one part
for each stage: a palette stands for its list (`CodingInv`), each block is what
`Block` says (`BlocksInv`), and what has been read is the concatenation of the
slices so far where they leave no room (`ReadInv`, `ListsInv`).  That a word
length fits its number is proved, too: a set of one more element has twice as
many subsets (`PowersDouble`), so each number has a length in binary
(`LengthInBinary`).

`ReplyRoutingProofs`: `TypeCorrect`, `EntriesDoExpire`, `WaitersStayReachable`,
`WaitersDoHear`, for any number of requests and subscribers and any sharing of ids.
`WaitersAreReachable` is inductive only together with `OpenIsReachable`, the same of a
request nobody has subscribed to yet, and `WaitersAreOpen`.

`PipelineProofs`: `TypeCorrect`, `PrivateStaysPrivate`, `OnlyStarvedArePruned`,
`OnlyCarelessThrow`, `OutputIsTruthful`, for all lists of stages, inputs and selectors.
The first two need that the pipeline was built (`Built`, from which names are
unique), that step results are under the names of steps, which are no names of
features (`StepsApart`), and that there is no output before the end (`OutputLast`).
The other three are about lists whose virtuals are early, and rest on `CallInv`:

- `ContextsTell`: the contexts have what was seeded and what the features and steps
  passed so far have computed, under the names that show it, and nothing else;
- what is pruned has been passed;
- `MethodsServed`: the methods of the running feature found all they read;
- `Judged`: whatever has been passed is pruned if and only if something it needs is
  pruned or missing, or it compiled to nothing.

`Starved` is a least fixed point.  `Judged` says that what is pruned is a fixed point;
that it is the least one (`JudgedIsEnough`) follows because a stage needs only names
with earlier places: of the names in the pruned set but not in a smaller
candidate, the one with the first place would have nothing left to starve of.
`ComputedInPlace` ties the places of names to the order of execution: a feature
runs where its name is declared first, also when a virtual moves it.  The guard
`EarlyVirtuals` is used there and in `UnfulfilledApart`, and nowhere else.

`OnlyCarelessThrow` goes backwards from a throw: `CountedIsThere` and `CountedIsCallable` say
that what an expression may count on in its place is in the context it runs in,
and, if it calls it, is a function; so one that throws counted on something else
(`ThrowingCountsInVain`), or yielded a text that does not parse.

Induction.  The library's induction theorems take an operator as a parameter,
which the provers cannot use.  `InductionLemmas` states what is needed of them
about sets instead: a non-empty set of natural numbers has a least one
(`LeastNumber`, from the well-foundedness of `<`), a set with 0 that is closed under
successor has them all (`EveryNumber`), a bounded one has a greatest
(`GreatestNumber`).  The fold over a batch, the lengths in binary and the fixed
point above are proved with these.

Only model-checked: `NeverStuck`, which is about ENABLED, and liveness (`TaskEnds`,
`AnsweredOrFailed`, `WaitersSettle`); both are out of the prover's reach.  What can be
said of them without ENABLED and fairness is proved: `NobodyWaitsInVain` and
`CallsGoForward` are what `NeverStuck` stands on, `NeverAtAStandstill` and
`FlowGoesForward` the invariant and the variant behind `AnsweredOrFailed`, and
`WaitersAreReachable` the timer behind `WaitersSettle`.  The last step, from these and
weak fairness to the leads-to, is left to TLC.

## 6. Disagreements between code and documentation

Shown by a run:

- `scatter_pixelcheck`: the pixel check throws for buffers of the right size.
- `scatter_rows`: a part may have no row, or start below the image, and then the
  whole task is lost.  With the configured budget of 56000 a 3840 x 2160 image has
  149 parts of 15 rows; the last four start below the image and one more is empty.
- `flow_reply`: createErrorResult, made for envelopes that are no message, always
  throws in beginHandling; the job fails and its project waits for ever.
- `flow_collide`: two tasks with one seed pair (on two region maps) staged in one
  millisecond share a file name, so that an entry of the manifest names a file with
  the image of the other (`EntryNamesItsImage`).

Met while modelling, visible in the definitions, without a run:

- `FlowConfiguration.ts:34-39`: a budget of 0 does not mean "never split" but makes
  submitProject throw (`RefuseZeroBudget`); tasks wider than the budget are not
  rejected; equal bands may exceed the budget.
- `Envelope.ts:546`: startReplying is documented to throw unless HANDLING, but the
  producer relies on it in ENCODED (`StartReplying`).
- `messages/DESIGN.md:84`: envelopes are not immutable (every action of `Envelope`).
- `ProjectManifest.ts:24`: the manifest is not complete, children that answered with
  an error have no entry (`Collect`).
- `S3ImageStager.ts:22-23`: names are not deterministic, they contain the time
  (`NameImage`).
- `pipeline/builder.ts:321`: a virtual declared after what it is called like is said to
  be a no-op.  `pipeline/core.ts:324-336` moves the feature to the later place, so that
  stages in between no longer find it, and `core.ts:267-271` counts an injection or an
  input of that name as missing, so that steps that read it are pruned.  Without
  their guard `EarlyVirtuals`, `PrunedAreTheStarved`, `ThrowsOnlyForCause` and
  `OutputTellsTheTruth` are violated.
- `pipeline/builder.ts:229-237`: addPureFunction, and addFeature like it, returns a
  builder whose types StepResultContext and AllContext have changed places, so
  that after it the checks of names and selectors are against the wrong context.
  Also without that, a feature may take the name of an earlier step, and a pure
  function that of a private feature (`UniqueNames` is what the text demands).
- `docs/TECH_DEBT.md:24` and `:28` describe two limits the model shows: expressions are
  never pruned but throw (`Expr`), and the feature of a virtual may read what is
  declared before it and runs after it (`At`).  In one feature both meet: whether it
  is pruned or makes the call throw depends on the order of its properties.
- `ReturnQueueRoutingProcessor.ts:113`: "Clear the timeout since response arrived".
  The timeout is cleared by the finalizer of a subscription; a reply before anybody
  subscribed leaves it armed, and its value is lost (`RouteReply`).
- `RegionMapUtils.ts:291-294`: hydrate reads padding as words.  A list of numbers below
  128 that takes several blocks comes back with zeros in between, so all later
  coordinates are out of place (the exception `Tight` in `ListsRestored`; lists of one
  block only gain zeros at their end, which directPlotter does not reach).
- `RegionMapUtils.ts:117-118`: paletteWordLen and baseWordLen change their meaning
  with a palette: the first is then the length of the values, the second that of
  the indices (`PaletteMaybe`).
- `IpldRegionMapRepository.ts:145`: isComplete is never called, so a map with too few
  coordinates is imported (`WellFormed` is a precondition of `BandPlotsItsRows`).

## 7. Not modelled, and the plan

Two hazards are in the model but watched by no property: an image staged by a
task that is then reported as failed (updateProgress throwing last; the contract
counts the task as failed either way), and padding read as words (`Tight` is the
exception of `ListsRestored`).  `PROJECT.json` notes them.

Next, in this order:

1. `Permutations`: the expansions as operators against a set definition; the
   geometry check of NominalUtil over small rationals.
2. Project queues per main process (`app/shared/di/Loaders.ts:162`) in `PaintFlow`.
3. Opening and closing the block store: the two locks of several processes.

Left out for good: what a pixel looks like (a library), PNG encoding and string
conversion (they return or throw), configuration loading and the
dependency-injection modules (run once at start), segments (they replay calls of
the builder), how coordinates become fractions (floating point), and the
arithmetic of large random primes (out of reach of TLC).

The share of the repository's lines that these modules cover is small and stays
small: most lines are in superseded copies (`attic`, `atticV1`, `old`), generated
formatting scripts, data and tooling, not in the service.
