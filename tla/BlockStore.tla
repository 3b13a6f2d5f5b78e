----------------------------- MODULE BlockStore -----------------------------
(***************************************************************************)
(* FsBlockstore: content-addressed blocks, one file each, behind an LRU    *)
(* cache that reads a missing block itself and shares the read among all   *)
(* who ask.  One process holds the store open for writing.  Each await of  *)
(* put and get is a point where other calls run, so a put is a sequence of *)
(* steps and a read of a file may overlap puts of the same block.  Calls   *)
(* pass no AbortSignal, as IpldRegionMapRepository makes them.             *)
(***************************************************************************)
EXTENDS Naturals, SequencesExt

CONSTANTS
  Blocks,      \* the CIDs of the blocks
  Writers,     \* who calls put, at most once for a block
  Readers,     \* who calls get, at most once for a block
  CacheSize,   \* config.cacheSize
  MaxFaults    \* bound: I/O errors and crashes in one behaviour

ASSUME CacheSizeAssumption == CacheSize \in Nat \ {0}
ASSUME MaxFaultsAssumption == MaxFaults \in Nat

VARIABLES
  file,    \* block -> what its path holds
  put,     \* <<writer, block>> -> where the call of put is
  cache,   \* the LRU cache and the calls of get that wait on it
  faults   \* how many I/O errors and crashes have happened

Contents == {"none", "torn", "whole"}

\* "writing": its bytes go to the file.  "cut": another put has truncated the
\* file since.  "lost": the path has been unlinked since, the bytes go nowhere.
InFile == {"writing", "cut", "lost"}
Unbegun == {"no", "mkdir", "opening"}
PutPhases == Unbegun \cup InFile \cup {"unlinking", "done", "failed", "refused"}

\* What a get came to; "missing" and "unread" both throw `not found!`, the
\* others are the reason the cache aborted the read with.
Answers == {"whole", "torn", "missing", "unread", "evicted", "replaced", "deleted", "lost"}

Cached(c, b) == c.val[b] \in {"whole", "torn"}
Fetching(c, b) == c.val[b] = "fetching"

EmptyCache == [order |-> << >>,
               val   |-> [b \in Blocks |-> "no"],
               seen  |-> [b \in Blocks |-> "unopened"],
               want  |-> [rb \in Readers \X Blocks |-> "no"]]

\* The store is open, over an empty directory, and the cache it is given is empty.
StoreInit ==
  /\ file = [b \in Blocks |-> "none"]
  /\ put = [wb \in Writers \X Blocks |-> "no"]
  /\ cache = EmptyCache
  /\ faults = 0

-----------------------------------------------------------------------------
(* The LRU cache, oldest entry first; an entry may be a read in flight.    *)

SettledAgain(want, b, answer) ==  \* mutant: who has an answer is given another
  [rb \in DOMAIN want |-> IF rb[2] = b /\ want[rb] # "no" THEN answer ELSE want[rb]]

Settled(want, b, answer) ==
  [rb \in DOMAIN want |-> IF rb[2] = b /\ want[rb] = "waiting" THEN answer ELSE want[rb]]

\* mutant: an entry goes and nobody who waits for it is told.
RemovedSilently(c, b, reason) ==
  [c EXCEPT !.order = RemoveFirst(@, b), !.val[b] = "no", !.seen[b] = "unopened"]

\* Taking an entry out aborts its read, and each get that waits rejects.
Removed(c, b, reason) ==
  [order |-> RemoveFirst(c.order, b),
   val   |-> [c.val EXCEPT ![b] = "no"],
   seen  |-> [c.seen EXCEPT ![b] = "unopened"],
   want  |-> Settled(c.want, b, reason)]

\* mutant: a cache built without its max.
EnteredUnbounded(c, b, v) ==
  [c EXCEPT !.order = Append(RemoveFirst(@, b), b), !.val[b] = v, !.seen[b] = "unopened"]

\* An entry for b at the recent end; an entry of another key makes room for it.
Entered(c, b, v) ==
  LET room == IF c.val[b] = "no" /\ Len(c.order) = CacheSize
              THEN Removed(c, Head(c.order), "evicted") ELSE c
  IN  [room EXCEPT !.order = Append(RemoveFirst(@, b), b),
                   !.val[b] = v, !.seen[b] = "unopened"]

\* lruCache.set by a put: a read of the block in flight is thrown away.
Replaced(c, b) ==
  Entered([c EXCEPT !.want = Settled(@, b, "replaced")], b, "whole")

\* lruCache.fetch: a hit answers at once, a read in flight is joined.
Fetched(c, r, b) ==
  IF Cached(c, b) THEN [Entered(c, b, c.val[b]) EXCEPT !.want[<<r, b>>] = c.val[b]]
  ELSE [IF Fetching(c, b) THEN c ELSE Entered(c, b, "fetching")
          EXCEPT !.want[<<r, b>>] = "waiting"]

\* The read of b has ended well, and its value takes the entry's place.
Arrived(c, b, v) == Entered([c EXCEPT !.want = Settled(@, b, v)], b, v)

-----------------------------------------------------------------------------
(* put                                                                     *)

At(w, b, phase) == put[<<w, b>>] = phase
Become(w, b, phase) == put' = [put EXCEPT ![<<w, b>>] = phase]

Fault == faults < MaxFaults /\ faults' = faults + 1

MakeDirectory(w, b) ==
  /\ At(w, b, "mkdir")
  /\ \/ Become(w, b, "opening") /\ UNCHANGED faults
     \/ Become(w, b, "refused") /\ Fault      \* outside the try: put just rejects
  /\ UNCHANGED <<file, cache>>

\* writeFile opens the path with O_TRUNC: whatever whole block was there is
\* gone, for the other writers of it and for the reads that have it open.
OpenForWrite(w, b) ==
  /\ At(w, b, "opening")
  /\ file' = [file EXCEPT ![b] = "torn"]
  /\ put' = [vb \in DOMAIN put |->
               IF vb = <<w, b>> THEN "writing"
               ELSE IF vb[2] = b /\ put[vb] = "writing" THEN "cut" ELSE put[vb]]
  /\ cache' = [cache EXCEPT !.seen[b] = IF @ = "whole" THEN "torn" ELSE @]
  /\ UNCHANGED faults

\* mutant: the value is not set in the cache.
FinishWriteUncached(w, b) ==
  /\ put[<<w, b>>] \in InFile
  /\ \/ ~ At(w, b, "lost") /\ file' = [file EXCEPT ![b] = "whole"]
     \/ ~ At(w, b, "writing") /\ UNCHANGED file
  /\ Become(w, b, "done")
  /\ UNCHANGED <<cache, faults>>

\* mutant: put answers without awaiting writeFile.
FinishWriteUnawaited(w, b) ==
  /\ put[<<w, b>>] \in InFile \cup {"opening"}
  /\ \/ ~ At(w, b, "lost") /\ file' = [file EXCEPT ![b] = "whole"]
     \/ ~ At(w, b, "writing") /\ UNCHANGED file
  /\ cache' = Replaced(cache, b)
  /\ Become(w, b, "done")
  /\ UNCHANGED faults

\* writeFile is done, and the cache takes the value.  The file is whole unless
\* the writer was cut, and may then be whole or not; put cannot tell.
FinishWrite(w, b) ==
  /\ put[<<w, b>>] \in InFile
  /\ \/ ~ At(w, b, "lost") /\ file' = [file EXCEPT ![b] = "whole"]
     \/ ~ At(w, b, "writing") /\ UNCHANGED file
  /\ cache' = Replaced(cache, b)
  /\ Become(w, b, "done")
  /\ UNCHANGED faults

\* writeFile rejects, before or after it has opened the file; the catch drops
\* the cached value and goes on to unlink.
WriteFails(w, b) ==
  /\ put[<<w, b>>] \in InFile \cup {"opening"}
  /\ cache' = Removed(cache, b, "deleted")
  /\ Become(w, b, "unlinking")
  /\ Fault
  /\ UNCHANGED file

\* The unlink of the catch, whoever wrote the file; then put rejects.  An
\* unlink that fails leaves the file; it can only follow a fault, and is not
\* counted as one.  A read keeps the inode it has open.
Unlink(w, b) ==
  /\ At(w, b, "unlinking")
  /\ \/ /\ file' = [file EXCEPT ![b] = "none"]
        /\ put' = [vb \in DOMAIN put |->
                     IF vb = <<w, b>> THEN "failed"
                     ELSE IF vb[2] = b /\ put[vb] \in InFile THEN "lost" ELSE put[vb]]
        /\ cache' = [cache EXCEPT !.seen[b] = IF @ = "whole" THEN "kept" ELSE @]
     \/ Become(w, b, "failed") /\ UNCHANGED <<file, cache>>
  /\ UNCHANGED faults

PutStep(w, b) ==
  \/ MakeDirectory(w, b) \/ OpenForWrite(w, b) \/ FinishWrite(w, b)
  \/ WriteFails(w, b) \/ Unlink(w, b)

-----------------------------------------------------------------------------
(* The read of a block that is not cached (curryFetchMethod).              *)

\* readFile opens the path; fetchMethod answers undefined when it cannot, the
\* entry goes, and each get that waits throws `not found!`.
OpenForRead(b) ==
  /\ Fetching(cache, b) /\ cache.seen[b] = "unopened"
  /\ cache' = IF file[b] = "none" THEN Removed(cache, b, "missing")
              ELSE [cache EXCEPT !.seen[b] = file[b]]
  /\ UNCHANGED <<file, put, faults>>

\* A read that a put overlapped may have the whole block or a part of it.
FinishRead(b) ==
  /\ Fetching(cache, b) /\ cache.seen[b] # "unopened"
  /\ \E v \in {"torn", "whole"} :
       /\ v = "torn" => cache.seen[b] = "torn"
       /\ v = "whole" => cache.seen[b] # "torn" \/ file[b] = "whole"
       /\ cache' = Arrived(cache, b, v)
  /\ UNCHANGED <<file, put, faults>>

ReadFails(b) ==
  /\ Fetching(cache, b)
  /\ cache' = Removed(cache, b, "unread")
  /\ Fault
  /\ UNCHANGED <<file, put>>

ReadStep(b) == OpenForRead(b) \/ FinishRead(b) \/ ReadFails(b)

\* The process dies and is started again: files stay as they are, the cache
\* and every call are gone.
StoreCrash ==
  /\ Fault
  /\ put' = [wb \in DOMAIN put |->
               IF put[wb] \in InFile \cup {"unlinking"} THEN "failed"
               ELSE IF put[wb] \in {"mkdir", "opening"} THEN "refused" ELSE put[wb]]
  /\ cache' = [EmptyCache EXCEPT !.want =
                 [rb \in Readers \X Blocks |->
                    IF cache.want[rb] = "waiting" THEN "lost" ELSE cache.want[rb]]]
  /\ UNCHANGED file

\* The order lists each entry of the cache once, and never more than fit.
CacheTypeOK ==
  /\ cache.val \in [Blocks -> {"no", "fetching", "torn", "whole"}]
  /\ cache.seen \in [Blocks -> {"unopened", "torn", "whole", "kept"}]
  /\ cache.want \in [Readers \X Blocks -> {"no", "waiting"} \cup Answers]
  /\ faults \in 0 .. MaxFaults
  /\ Len(cache.order) <= CacheSize
  /\ IsInjective(cache.order)
  /\ ToSet(cache.order) = {b \in Blocks : cache.val[b] # "no"}

=============================================================================
