--------------------------- MODULE RegionMapStore ---------------------------
(***************************************************************************)
(* IpldRegionMapRepository over FsBlockstore: an import writes a map as    *)
(* palette blocks, then data blocks, then the root that links to them; a   *)
(* load reads the root and then what it links to.  The blocks of a batch   *)
(* are put, or got, at once (Promise.all), and one that fails rejects the  *)
(* batch while the others go on.  TicketArtService.loadRepo runs imports   *)
(* side by side, and a map may share blocks with another.                  *)
(***************************************************************************)
EXTENDS BlockStore

CONSTANTS
  Maps,             \* the region maps that are imported
  PalettesOf(_),    \* map -> the CIDs of its palette blocks, in order
  DataOf(_),        \* map -> the CIDs of its data blocks, in order
  RootOf(_),        \* map -> the CID of its envelope
  NoMap             \* the map of a call that has not been made

Palettes(m) == ToSet(PalettesOf(m))
Data(m) == ToSet(DataOf(m))
Linked(m) == Palettes(m) \cup Data(m)
BlocksOf(m) == Linked(m) \cup {RootOf(m)}

ASSUME CallersAssumption == Writers \cap Readers = {}

ASSUME MapsAssumption ==
  /\ NoMap \notin Maps
  /\ \A m \in Maps : /\ PalettesOf(m) \in Seq(Blocks) /\ DataOf(m) \in Seq(Blocks)
                      /\ RootOf(m) \in Blocks
                      /\ Palettes(m) \cap Data(m) = {}
  /\ \A m, n \in Maps : RootOf(m) \notin Linked(n)
  /\ \A m, n \in Maps : RootOf(m) = RootOf(n) => m = n

VARIABLES
  stage,    \* a call of import or load -> what it awaits
  mapOf     \* a call of import or load -> the map it is about

vars == <<file, put, cache, faults, stage, mapOf>>

Callers == Writers \cup Readers
Awaits == {"palettes", "data", "root"}
Stages == Awaits \cup {"new", "answered", "failed"}

Batch(c) ==
  CASE stage[c] = "palettes" -> PalettesOf(mapOf[c])
    [] stage[c] = "data" -> DataOf(mapOf[c])
    [] stage[c] = "root" -> <<RootOf(mapOf[c])>>

Init ==
  /\ StoreInit
  /\ stage = [c \in Callers |-> "new"]
  /\ mapOf = [c \in Callers |-> NoMap]

-----------------------------------------------------------------------------
(* import: commit, commitData, commitRoot                                  *)

\* Each block of the batch is encoded and then put, on its own way from here.  A
\* block that encodeModel throws on is refused before anything is written, just
\* as one whose directory cannot be made: it rejects the batch alike.
Putting(w, batch) ==
  put' = [wb \in DOMAIN put |-> IF wb[1] = w /\ wb[2] \in batch THEN "mkdir" ELSE put[wb]]

BatchPut(w) == \A b \in ToSet(Batch(w)) : put[<<w, b>>] = "done"

Import(w, m) ==
  /\ stage[w] = "new"
  /\ stage' = [stage EXCEPT ![w] = "palettes"]
  /\ mapOf' = [mapOf EXCEPT ![w] = m]
  /\ Putting(w, Palettes(m))
  /\ UNCHANGED <<file, cache, faults>>

CommitData(w) ==
  /\ stage[w] = "palettes"
  /\ BatchPut(w)
  /\ stage' = [stage EXCEPT ![w] = "data"]
  /\ Putting(w, Data(mapOf[w]))
  /\ UNCHANGED <<file, cache, faults, mapOf>>

\* mutant: the data blocks are not awaited.
CommitRootAtOnce(w) ==
  /\ stage[w] = "data"
  /\ stage' = [stage EXCEPT ![w] = "root"]
  /\ Putting(w, {RootOf(mapOf[w])})
  /\ UNCHANGED <<file, cache, faults, mapOf>>

CommitRoot(w) ==
  /\ stage[w] = "data"
  /\ BatchPut(w)
  /\ stage' = [stage EXCEPT ![w] = "root"]
  /\ Putting(w, {RootOf(mapOf[w])})
  /\ UNCHANGED <<file, cache, faults, mapOf>>

\* commit returns the root's CID.
AnswerImport(w) ==
  /\ stage[w] = "root"
  /\ BatchPut(w)
  /\ stage' = [stage EXCEPT ![w] = "answered"]
  /\ UNCHANGED <<file, put, cache, faults, mapOf>>

\* One block of the batch was not encoded or not put; the others are not waited
\* for.
FailImport(w) ==
  /\ stage[w] \in Awaits
  /\ \E b \in ToSet(Batch(w)) : put[<<w, b>>] \in {"failed", "refused"}
  /\ stage' = [stage EXCEPT ![w] = "failed"]
  /\ UNCHANGED <<file, put, cache, faults, mapOf>>

-----------------------------------------------------------------------------
(* load                                                                    *)

\* The gets of a batch begin one after another in one synchronous loop.
Getting(r, batch) ==
  cache' = FoldLeft(LAMBDA c, b : Fetched(c, r, b), cache, batch)

BatchGot(r) == \A b \in ToSet(Batch(r)) : cache.want[<<r, b>>] = "whole"

Answered(m) == \E w \in Writers : stage[w] = "answered" /\ mapOf[w] = m

\* A load is of a CID that an import has returned.
Load(r, m) ==
  /\ stage[r] = "new"
  /\ Answered(m)
  /\ stage' = [stage EXCEPT ![r] = "root"]
  /\ mapOf' = [mapOf EXCEPT ![r] = m]
  /\ Getting(r, <<RootOf(m)>>)
  /\ UNCHANGED <<file, put, faults>>

LoadPalettes(r) ==
  /\ stage[r] = "root"
  /\ BatchGot(r)
  /\ stage' = [stage EXCEPT ![r] = "palettes"]
  /\ Getting(r, PalettesOf(mapOf[r]))
  /\ UNCHANGED <<file, put, faults, mapOf>>

LoadData(r) ==
  /\ stage[r] = "palettes"
  /\ BatchGot(r)
  /\ stage' = [stage EXCEPT ![r] = "data"]
  /\ Getting(r, DataOf(mapOf[r]))
  /\ UNCHANGED <<file, put, faults, mapOf>>

AnswerLoad(r) ==
  /\ stage[r] = "data"
  /\ BatchGot(r)
  /\ stage' = [stage EXCEPT ![r] = "answered"]
  /\ UNCHANGED <<file, put, cache, faults, mapOf>>

\* mutant: only `not found!` is taken for a failure.
GetNotFound(r, b) == cache.want[<<r, b>>] \in {"missing", "unread", "torn"}

\* A get of the batch has rejected, or its bytes are a part of a block, which
\* decodeBytes throws on.
GetFailed(r, b) == cache.want[<<r, b>>] \in Answers \ {"whole"}

FailLoad(r) ==
  /\ stage[r] \in Awaits
  /\ \E b \in ToSet(Batch(r)) : GetFailed(r, b)
  /\ stage' = [stage EXCEPT ![r] = "failed"]
  /\ UNCHANGED <<file, put, cache, faults, mapOf>>

-----------------------------------------------------------------------------

Crash ==
  /\ StoreCrash
  /\ stage' = [c \in Callers |-> IF stage[c] \in Awaits THEN "failed" ELSE stage[c]]
  /\ UNCHANGED mapOf

ImportStep(w) ==
  \/ \E m \in Maps : Import(w, m)
  \/ CommitData(w) \/ CommitRoot(w) \/ AnswerImport(w) \/ FailImport(w)

LoadStep(r) ==
  \/ \E m \in Maps : Load(r, m)
  \/ LoadPalettes(r) \/ LoadData(r) \/ AnswerLoad(r) \/ FailLoad(r)

Work ==
  \/ \E w \in Writers : ImportStep(w)
  \/ \E r \in Readers : LoadStep(r)
  \/ \E w \in Writers, b \in Blocks : PutStep(w, b) /\ UNCHANGED <<stage, mapOf>>
  \/ \E b \in Blocks : ReadStep(b) /\ UNCHANGED <<stage, mapOf>>

Next == Work \/ Crash

Spec == Init /\ [][Next]_vars

-----------------------------------------------------------------------------

DiskTypeOK ==
  /\ file \in [Blocks -> Contents]
  /\ put \in [Writers \X Blocks -> PutPhases]
  /\ stage \in [Callers -> Stages]
  /\ mapOf \in [Callers -> Maps \cup {NoMap}]
  /\ \A c \in Callers : stage[c] # "new" => mapOf[c] \in Maps

TypeOK == DiskTypeOK /\ CacheTypeOK

BeingPut(b) == \E w \in Writers : put[<<w, b>>] = "writing"
Broken(b) == \E w \in Writers : put[<<w, b>>] \in {"unlinking", "failed"}
PutAgain(b) ==
  \E v, w \in Writers : v # w /\ \A u \in {v, w} : put[<<u, b>>] \notin Unbegun \cup {"refused"}

\* A root's file is a promise: each block its map links to has its file whole,
\* over crashes and whatever other imports share the block, unless the block is
\* being written anew at this moment or a put of it broke off.
RootMeansMap ==
  \A m \in Maps : file[RootOf(m)] # "none" =>
    \A b \in Linked(m) : file[b] = "whole" \/ BeingPut(b) \/ Broken(b)

\* With no put of a block in its file and none broken off, a value the cache
\* holds of the block is the whole block, and so is the file: no part of a block
\* that a read met during a put stays behind.
CacheTellsTheTruth ==
  \A b \in Blocks :
    /\ Cached(cache, b)
    /\ \A w \in Writers : put[<<w, b>>] \notin InFile \cup {"unlinking", "failed"}
    => cache.val[b] = "whole" /\ file[b] = "whole"

\* What a load can be refused for: a block is missing or its read thrown out by
\* the catch of put only if a put of it broke off, and a part of a block, or a
\* read replaced by a put, is met only if the block was put again or broke off.
GetFailsOnlyForCause ==
  \A r \in Readers, b \in Blocks :
    LET answer == cache.want[<<r, b>>]
    IN  /\ answer \in {"missing", "deleted"} => Broken(b)
        /\ answer \in {"torn", "replaced"} => Broken(b) \/ PutAgain(b)

\* An import or a load that has begun is never stuck, although reads are shared,
\* thrown out by puts and evicted under those who wait for them: whenever one
\* awaits its batch, something can still go on.  Each step takes a call of import,
\* put, load or get forward and there are finitely many, so each of them ends.
NeverStuck == (\E c \in Callers : stage[c] \in Awaits) => ENABLED Work

\* No wakeup is lost: gets wait for a block just as long as it is being read,
\* whatever puts, evictions and failures have thrown the read out meanwhile, and
\* a call that awaits a batch has begun each put, or each get, of it.
NobodyWaitsInVain ==
  /\ \A b \in Blocks :
       Fetching(cache, b) <=> \E r \in Readers : cache.want[<<r, b>>] = "waiting"
  /\ \A w \in Writers : stage[w] \in Awaits =>
       \A b \in ToSet(Batch(w)) : put[<<w, b>>] # "no"
  /\ \A r \in Readers : stage[r] \in Awaits =>
       \A b \in ToSet(Batch(r)) : cache.want[<<r, b>>] # "no"

\* How far a call has come.
PutRank ==
  [no |-> 0, mkdir |-> 1, opening |-> 2, writing |-> 3, cut |-> 4, lost |-> 5,
   unlinking |-> 6, done |-> 7, failed |-> 7, refused |-> 7]
GetRank == [a \in {"no", "waiting"} \cup Answers |-> IF a = "no" THEN 0 ELSE IF a = "waiting" THEN 1 ELSE 2]
ImportRank == [new |-> 0, palettes |-> 1, data |-> 2, root |-> 3, answered |-> 4, failed |-> 4]
LoadRank == [new |-> 0, root |-> 1, palettes |-> 2, data |-> 3, answered |-> 4, failed |-> 4]

\* after is what before was, or has come further.
GoneOn(rank, before, after) == after = before \/ rank[before] < rank[after]

\* No call is ever taken back, and what has settled stays as it is.  A step that
\* takes no call further opens the file of a read, which is done once for it, or
\* is a crash: the work comes to an end.
CallsGoForward ==
  [][/\ \A wb \in Writers \X Blocks : GoneOn(PutRank, put[wb], put'[wb])
     /\ \A rb \in Readers \X Blocks : GoneOn(GetRank, cache.want[rb], cache'.want[rb])
     /\ \A w \in Writers : GoneOn(ImportRank, stage[w], stage'[w])
     /\ \A r \in Readers : GoneOn(LoadRank, stage[r], stage'[r])
     /\ \/ put' # put \/ cache'.want # cache.want \/ stage' # stage \/ faults' > faults
        \/ \E b \in Blocks : /\ cache.seen[b] = "unopened"
                             /\ cache' = [cache EXCEPT !.seen[b] = file[b]]]_vars

=============================================================================
