------------------------ MODULE RegionMapStoreProofs ------------------------
(***************************************************************************)
(* For every number of imports, loads, maps, blocks and faults: a root on  *)
(* disk means its map is on disk, which no part of the cache is needed     *)
(* for (DiskInv); and what the cache holds and answers follows from what   *)
(* the files hold (CacheInv).                                              *)
(***************************************************************************)
EXTENDS RegionMapStore, InductionLemmas, SequenceTheorems

\* A put that has had its hand on the file.
Touched(b) == \E w \in Writers : put[<<w, b>>] \notin Unbegun \cup {"refused"}

\* Of the puts that are in a block's file, the one that opened it last is
\* "writing"; when it ends well the file is whole, else it has broken off.
LastWriterWins ==
  \A b \in Blocks : Touched(b) => file[b] = "whole" \/ BeingPut(b) \/ Broken(b)

\* A root's file was made by an import of its map.
RootsAreImported ==
  \A m \in Maps : file[RootOf(m)] # "none" =>
    \E w \in Writers : mapOf[w] = m /\ put[<<w, RootOf(m)>>] # "no"

\* Where an import stands tells which of its puts may have begun, and its root
\* is put only when each block it links to has been.
InOrder(w) ==
  IF stage[w] = "new" THEN \A b \in Blocks : put[<<w, b>>] = "no"
  ELSE /\ \A b \in Blocks \ BlocksOf(mapOf[w]) : put[<<w, b>>] = "no"
       /\ stage[w] = "palettes" => \A b \in Data(mapOf[w]) : put[<<w, b>>] = "no"
       /\ stage[w] = "data" => \A b \in Palettes(mapOf[w]) : put[<<w, b>>] = "done"
       /\ stage[w] \in {"palettes", "data"} => put[<<w, RootOf(mapOf[w])>>] = "no"
       /\ put[<<w, RootOf(mapOf[w])>>] # "no" =>
            \A b \in Linked(mapOf[w]) : put[<<w, b>>] = "done"

DiskInv ==
  /\ DiskTypeOK
  /\ LastWriterWins
  /\ RootsAreImported
  /\ \A w \in Writers : InOrder(w)

-----------------------------------------------------------------------------

\* The blocks of a map are blocks, and its root is none that a map links to.
LEMMA BlocksOfMaps ==
  ASSUME NEW m \in Maps
  PROVE  /\ Palettes(m) \subseteq Blocks /\ Data(m) \subseteq Blocks /\ RootOf(m) \in Blocks
         /\ Palettes(m) \cap Data(m) = {}
         /\ Linked(m) = Palettes(m) \cup Data(m)
         /\ BlocksOf(m) = Linked(m) \cup {RootOf(m)}
         /\ \A n \in Maps : RootOf(n) \notin Linked(m)
         /\ \A n \in Maps : RootOf(n) \in BlocksOf(m) => n = m
<1>1. PalettesOf(m) \in Seq(Blocks) /\ DataOf(m) \in Seq(Blocks)
  BY MapsAssumption
<1>2. Palettes(m) \subseteq Blocks /\ Data(m) \subseteq Blocks
  BY <1>1 DEF Palettes, Data, ToSet
<1> QED
  BY <1>2, MapsAssumption DEF BlocksOf, Linked

\* The initial states satisfy the invariant.
LEMMA DiskInit == Init => DiskInv
<1> SUFFICES ASSUME Init PROVE DiskInv
  OBVIOUS
<1> USE DEF Init, StoreInit
<1>1. DiskTypeOK
  BY DEF DiskTypeOK, Contents, PutPhases, Unbegun, Stages
<1>2. LastWriterWins
  BY DEF LastWriterWins, Touched, Unbegun
<1>3. RootsAreImported
  BY BlocksOfMaps DEF RootsAreImported
<1>4. \A w \in Writers : InOrder(w)
  BY DEF InOrder, Callers
<1> QED
  BY <1>1, <1>2, <1>3, <1>4 DEF DiskInv

\* The invariant says what RootMeansMap promises.
LEMMA DiskInvIsEnough == DiskInv => RootMeansMap
<1> SUFFICES ASSUME DiskInv, NEW m \in Maps, file[RootOf(m)] # "none", NEW b \in Linked(m)
             PROVE  file[b] = "whole" \/ BeingPut(b) \/ Broken(b)
  BY DEF RootMeansMap
<1>1. PICK w \in Writers : mapOf[w] = m /\ put[<<w, RootOf(m)>>] # "no"
  BY DEF DiskInv, RootsAreImported
<1>2. b \in Blocks /\ RootOf(m) \in Blocks
  BY BlocksOfMaps
<1>3. put[<<w, b>>] = "done"
  BY <1>1, <1>2 DEF DiskInv, InOrder
<1>4. Touched(b)
  BY <1>3 DEF Touched, Unbegun
<1> QED
  BY <1>2, <1>4 DEF DiskInv, LastWriterWins

-----------------------------------------------------------------------------
(* The steps of imports.                                                   *)

\* Putting begins calls of put where none has begun, for blocks of one writer.
LEMMA PuttingKeeps ==
  ASSUME DiskInv, NEW w \in Writers, NEW batch, batch \subseteq Blocks,
         \A b \in batch : put[<<w, b>>] = "no",
         Putting(w, batch), UNCHANGED file
  PROVE  /\ put' \in [Writers \X Blocks -> PutPhases]
         /\ LastWriterWins'
         /\ \A v \in Writers, b \in Blocks :
              put'[<<v, b>>] = IF v = w /\ b \in batch THEN "mkdir" ELSE put[<<v, b>>]
<1> USE DEF DiskInv, DiskTypeOK
<1>1. \A v \in Writers, b \in Blocks :
        put'[<<v, b>>] = IF v = w /\ b \in batch THEN "mkdir" ELSE put[<<v, b>>]
  BY DEF Putting
<1>2. put' \in [Writers \X Blocks -> PutPhases]
  BY DEF Putting, PutPhases, Unbegun
<1>3. LastWriterWins'
  <2> SUFFICES ASSUME NEW b \in Blocks, Touched(b)'
               PROVE  (file[b] = "whole" \/ BeingPut(b) \/ Broken(b))'
    BY DEF LastWriterWins
  <2>1. Touched(b)
    BY <1>1 DEF Touched, Unbegun
  <2>2. BeingPut(b) => BeingPut(b)'
    BY <1>1 DEF BeingPut
  <2>3. Broken(b) => Broken(b)'
    BY <1>1 DEF Broken
  <2> QED
    BY <2>1, <2>2, <2>3 DEF LastWriterWins
<1> HIDE DEF DiskInv, DiskTypeOK
<1> QED
  BY <1>1, <1>2, <1>3

\* An import begins with the puts of its palettes.
LEMMA ImportKeeps ==
  ASSUME DiskInv, NEW w \in Writers, NEW m \in Maps, Import(w, m)
  PROVE  DiskInv'
<1> DEFINE batch == Palettes(m)
<1>1. batch \subseteq Blocks /\ \A b \in Blocks : put[<<w, b>>] = "no"
  BY BlocksOfMaps DEF Import, InOrder, DiskInv
<1>2. Putting(w, batch) /\ UNCHANGED file
  BY DEF Import
<1> HIDE DEF batch
<1>3. /\ put' \in [Writers \X Blocks -> PutPhases]
      /\ LastWriterWins'
      /\ \A v \in Writers, b \in Blocks :
           put'[<<v, b>>] = IF v = w /\ b \in batch THEN "mkdir" ELSE put[<<v, b>>]
  BY <1>1, <1>2, PuttingKeeps
<1> USE DEF batch, DiskInv, DiskTypeOK, Callers
<1>4. DiskTypeOK'
  BY <1>3 DEF Import, Stages, Awaits
<1>5. RootsAreImported'
  <2> SUFFICES ASSUME NEW n \in Maps, file[RootOf(n)] # "none"
               PROVE  \E v \in Writers : mapOf'[v] = n /\ put'[<<v, RootOf(n)>>] # "no"
    BY DEF RootsAreImported, Import
  <2>1. PICK v \in Writers : mapOf[v] = n /\ put[<<v, RootOf(n)>>] # "no"
    BY DEF RootsAreImported
  <2>2. RootOf(n) \in Blocks /\ v # w
    BY <1>1, <2>1, BlocksOfMaps
  <2> QED
    BY <1>3, <2>1, <2>2 DEF Import
<1>6. ASSUME NEW v \in Writers PROVE InOrder(v)'
  <2>1. CASE v = w
    BY <1>1, <1>3, <2>1, BlocksOfMaps DEF Import, InOrder
  <2>2. CASE v # w
    <3>1. stage'[v] = stage[v] /\ mapOf'[v] = mapOf[v] /\ \A b \in Blocks : put'[<<v, b>>] = put[<<v, b>>]
      BY <1>3, <2>2 DEF Import
    <3> QED
      BY <3>1, BlocksOfMaps DEF InOrder
  <2> QED
    BY <2>1, <2>2
<1> QED
  BY <1>3, <1>4, <1>5, <1>6

\* The next batch of an import: its puts have not begun, and those of the
\* blocks it links to have all ended well before its root's begins.
LEMMA NextBatchKeeps ==
  ASSUME DiskInv, NEW w \in Writers, CommitData(w) \/ CommitRoot(w)
  PROVE  DiskInv'
<1> DEFINE m == mapOf[w]
           batch == IF stage[w] = "palettes" THEN Data(m) ELSE {RootOf(m)}
<1>1. /\ m \in Maps
      /\ stage[w] \in {"palettes", "data"}
      /\ stage' = [stage EXCEPT ![w] = IF stage[w] = "palettes" THEN "data" ELSE "root"]
      /\ Putting(w, batch) /\ UNCHANGED <<file, mapOf>>
      /\ stage[w] = "palettes" => \A b \in Palettes(m) : put[<<w, b>>] = "done"
      /\ stage[w] = "data" => \A b \in Data(m) : put[<<w, b>>] = "done"
  BY DEF CommitData, CommitRoot, DiskInv, DiskTypeOK, Callers, BatchPut, Batch, Palettes, Data
<1>2. PICK mm \in Maps, bb \in SUBSET Blocks : mm = m /\ bb = batch
  BY <1>1, BlocksOfMaps
<1>3. \A b \in bb : put[<<w, b>>] = "no"
  BY <1>1, <1>2, BlocksOfMaps DEF InOrder, DiskInv
<1>4. Putting(w, bb) /\ UNCHANGED file
  BY <1>1, <1>2
<1>5. /\ put' \in [Writers \X Blocks -> PutPhases]
      /\ LastWriterWins'
      /\ \A v \in Writers, b \in Blocks :
           put'[<<v, b>>] = IF v = w /\ b \in bb THEN "mkdir" ELSE put[<<v, b>>]
  BY <1>3, <1>4, PuttingKeeps
<1> USE DEF DiskInv, DiskTypeOK, Callers
<1>6. DiskTypeOK'
  BY <1>1, <1>5 DEF Stages, Awaits
<1>7. RootsAreImported'
  BY <1>1, <1>5, BlocksOfMaps DEF RootsAreImported
<1>8. ASSUME NEW v \in Writers PROVE InOrder(v)'
  <2>1. CASE v = w
    <3>1. stage'[w] = (IF stage[w] = "palettes" THEN "data" ELSE "root") /\ mapOf'[w] = mm
      BY <1>1, <1>2
    <3>2. \A b \in Blocks : put'[<<w, b>>] = IF b \in bb THEN "mkdir" ELSE put[<<w, b>>]
      BY <1>5
    <3>3. put[<<w, RootOf(mm)>>] = "no" /\ \A b \in Blocks \ BlocksOf(mm) : put[<<w, b>>] = "no"
      BY <1>1, <1>2 DEF InOrder
    <3>4. CASE stage[w] = "palettes"
      <4>1. bb = Data(mm) /\ \A b \in Palettes(mm) : put[<<w, b>>] = "done"
        BY <1>1, <1>2, <3>4
      <4> QED
        BY <2>1, <3>1, <3>2, <3>3, <3>4, <4>1, BlocksOfMaps DEF InOrder
    <3>5. CASE stage[w] = "data"
      <4>0. InOrder(w) /\ stage[w] # "new" /\ stage[w] # "palettes" /\ mapOf[w] = mm
        BY <1>2, <3>5
      <4>1. bb = {RootOf(mm)} /\ \A b \in Data(mm) : put[<<w, b>>] = "done"
        BY <1>1, <1>2, <3>5
      <4>2. \A b \in Palettes(mm) : put[<<w, b>>] = "done"
        BY <3>5, <4>0 DEF InOrder
      <4>3. \A b \in Linked(mm) : put[<<w, b>>] = "done"
        BY <4>1, <4>2 DEF Linked
      <4> QED
        BY <2>1, <3>1, <3>2, <3>3, <3>5, <4>1, <4>3, BlocksOfMaps DEF InOrder
    <3> QED
      BY <1>1, <3>4, <3>5
  <2>2. CASE v # w
    <3>1. stage'[v] = stage[v] /\ mapOf'[v] = mapOf[v] /\ \A b \in Blocks : put'[<<v, b>>] = put[<<v, b>>]
      BY <1>1, <1>5, <2>2
    <3> QED
      BY <3>1, BlocksOfMaps DEF InOrder
  <2> QED
    BY <2>1, <2>2
<1> QED
  BY <1>5, <1>6, <1>7, <1>8

\* An import that ends, and each step of a load, leaves files and puts alone.
LEMMA OtherCallsKeep ==
  ASSUME DiskInv,
         \/ \E w \in Writers : AnswerImport(w) \/ FailImport(w)
         \/ \E r \in Readers : LoadStep(r)
  PROVE  DiskInv'
<1>0. \/ \E v \in Writers : AnswerImport(v) \/ FailImport(v)
      \/ \E r \in Readers : LoadStep(r)
  OBVIOUS
<1> USE DEF DiskInv, DiskTypeOK, Callers
<1>1. UNCHANGED <<file, put>>
  BY DEF AnswerImport, FailImport, LoadStep, Load, LoadPalettes, LoadData, AnswerLoad, FailLoad
<1>2. DiskTypeOK'
  BY <1>1 DEF AnswerImport, FailImport, LoadStep, Load, LoadPalettes, LoadData, AnswerLoad, FailLoad,
              Stages, Awaits
<1>3. LastWriterWins'
  BY <1>1 DEF LastWriterWins, Touched, BeingPut, Broken
<1>4. \A w \in Writers :
        /\ mapOf'[w] = mapOf[w]
        /\ stage'[w] = stage[w] \/ (stage[w] # "new" /\ stage'[w] \in {"answered", "failed"})
  <2>1. ASSUME NEW r \in Readers, LoadStep(r), NEW w \in Writers
        PROVE  mapOf'[w] = mapOf[w] /\ stage'[w] = stage[w]
    <3>1. w # r
      BY CallersAssumption
    <3> QED
      BY <2>1, <3>1 DEF LoadStep, Load, LoadPalettes, LoadData, AnswerLoad, FailLoad
  <2>2. ASSUME NEW v \in Writers, AnswerImport(v) \/ FailImport(v)
        PROVE  /\ mapOf' = mapOf /\ stage[v] # "new"
               /\ stage' = [stage EXCEPT ![v] = "answered"] \/ stage' = [stage EXCEPT ![v] = "failed"]
    BY <2>2 DEF AnswerImport, FailImport, Awaits
  <2>3. ASSUME NEW v \in Writers, AnswerImport(v) \/ FailImport(v), NEW w \in Writers
        PROVE  stage'[w] = stage[w] \/ (stage[w] # "new" /\ stage'[w] \in {"answered", "failed"})
    BY <2>2, <2>3
  <2>4. CASE \E r \in Readers : LoadStep(r)
    BY <2>1, <2>4
  <2>5. CASE \E v \in Writers : AnswerImport(v) \/ FailImport(v)
    <3>1. PICK v \in Writers : AnswerImport(v) \/ FailImport(v)
      BY <2>5
    <3>2. mapOf' = mapOf
      BY <2>2, <3>1
    <3> QED
      BY <2>3, <3>1, <3>2
  <2> QED
    BY <1>0, <2>4, <2>5
<1>5. RootsAreImported'
  <2> SUFFICES ASSUME NEW m \in Maps, file[RootOf(m)] # "none"
               PROVE  \E w \in Writers : mapOf'[w] = m /\ put[<<w, RootOf(m)>>] # "no"
    BY <1>1 DEF RootsAreImported
  <2>1. PICK w \in Writers : mapOf[w] = m /\ put[<<w, RootOf(m)>>] # "no"
    BY DEF RootsAreImported
  <2> QED
    BY <1>4, <2>1
<1>6. ASSUME NEW w \in Writers PROVE InOrder(w)'
  BY <1>1, <1>4 DEF InOrder
<1> QED
  BY <1>2, <1>3, <1>5, <1>6

-----------------------------------------------------------------------------
(* The steps of a put.                                                     *)

\* What a step of put, or a crash, may do to the calls of put and to a file,
\* and still leave the order of an import's writes as it was.
LEMMA PutsKeepOrder ==
  ASSUME DiskInv,
         put' \in [Writers \X Blocks -> PutPhases],
         file' \in [Blocks -> Contents],
         mapOf' = mapOf,
         \A v \in Writers : stage'[v] = stage[v] \/ (stage[v] # "new" /\ stage'[v] = "failed"),
         stage' \in [Callers -> Stages],
         \A c \in Callers : stage'[c] # "new" => stage[c] # "new",
         \A v \in Writers, b \in Blocks :
           /\ put[<<v, b>>] = "no" <=> put'[<<v, b>>] = "no"
           /\ put[<<v, b>>] = "done" => put'[<<v, b>>] = "done",
         \A b \in Blocks : file[b] = "none" /\ file'[b] # "none" =>
           \E v \in Writers : put[<<v, b>>] # "no",
         LastWriterWins'
  PROVE  DiskInv'
<1>1. DiskTypeOK'
  BY DEF DiskInv, DiskTypeOK
<1>2. ASSUME NEW v \in Writers PROVE InOrder(v)'
  <2>0. v \in Callers /\ InOrder(v) /\ (stage[v] # "new" => mapOf[v] \in Maps)
    BY DEF Callers, DiskInv, DiskTypeOK
  <2>1. CASE stage[v] = "new"
    BY <2>0, <2>1 DEF InOrder
  <2>2. CASE stage[v] # "new"
    BY <2>0, <2>2, BlocksOfMaps DEF InOrder
  <2> QED
    BY <2>1, <2>2
<1>3. RootsAreImported'
  <2> SUFFICES ASSUME NEW m \in Maps, file'[RootOf(m)] # "none"
               PROVE  \E w \in Writers : mapOf[w] = m /\ put'[<<w, RootOf(m)>>] # "no"
    BY DEF RootsAreImported
  <2>1. RootOf(m) \in Blocks
    BY BlocksOfMaps
  <2>2. CASE file[RootOf(m)] # "none"
    BY <2>1, <2>2 DEF DiskInv, RootsAreImported
  <2>3. CASE file[RootOf(m)] = "none"
    <3>1. PICK v \in Writers : put[<<v, RootOf(m)>>] # "no"
      BY <2>1, <2>3
    <3>2. stage[v] # "new" /\ mapOf[v] \in Maps /\ RootOf(m) \in BlocksOf(mapOf[v])
      BY <2>1, <3>1 DEF DiskInv, DiskTypeOK, InOrder, Callers
    <3>3. mapOf[v] = m
      BY <3>2, BlocksOfMaps
    <3> QED
      BY <2>1, <3>1, <3>3
  <2> QED
    BY <2>2, <2>3
<1> QED
  BY <1>1, <1>2, <1>3 DEF DiskInv

\* A step of one put keeps the last writer's file: the step that cuts a writer
\* makes its own put the last one, and only a put that breaks off unlinks.
LEMMA PutStepKeeps ==
  ASSUME DiskInv, NEW w \in Writers, NEW b \in Blocks,
         PutStep(w, b), UNCHANGED <<stage, mapOf>>
  PROVE  DiskInv'
<1> USE DEF DiskInv, DiskTypeOK
<1>1. /\ put' \in [Writers \X Blocks -> PutPhases]
      /\ file' \in [Blocks -> Contents]
  BY DEF PutStep, MakeDirectory, OpenForWrite, FinishWrite, WriteFails, Unlink, Become,
         PutPhases, Unbegun, InFile, Contents
<1>2. \A v \in Writers, c \in Blocks :
        /\ put[<<v, c>>] = "no" <=> put'[<<v, c>>] = "no"
        /\ put[<<v, c>>] = "done" => put'[<<v, c>>] = "done"
  BY DEF PutStep, MakeDirectory, OpenForWrite, FinishWrite, WriteFails, Unlink, Become, At, InFile
<1>3. put[<<w, b>>] # "no" /\ \A c \in Blocks : file'[c] # file[c] => c = b
  BY DEF PutStep, MakeDirectory, OpenForWrite, FinishWrite, WriteFails, Unlink, At, InFile
<1>4. LastWriterWins'
  <2> SUFFICES ASSUME NEW c \in Blocks, Touched(c)'
               PROVE  (file[c] = "whole" \/ BeingPut(c) \/ Broken(c))'
    BY DEF LastWriterWins
  <2>1. CASE c # b
    <3>1. file'[c] = file[c] /\ \A v \in Writers : put'[<<v, c>>] = put[<<v, c>>]
      BY <2>1 DEF PutStep, MakeDirectory, OpenForWrite, FinishWrite, WriteFails, Unlink, Become
    <3> QED
      BY <3>1 DEF LastWriterWins, Touched, BeingPut, Broken
  <2>2. CASE c = b
    <3>1. CASE MakeDirectory(w, b)
      <4>1. file' = file /\ \A v \in Writers : put'[<<v, b>>] = put[<<v, b>>] \/ (v = w /\ put[<<v, b>>] = "mkdir" /\ put'[<<v, b>>] \in {"opening", "refused"})
        BY <3>1 DEF MakeDirectory, Become, At
      <4>2. Touched(b)
        BY <2>2, <4>1 DEF Touched, Unbegun
      <4> QED
        BY <2>2, <4>1, <4>2 DEF LastWriterWins, BeingPut, Broken
    <3>2. CASE OpenForWrite(w, b)
      BY <2>2, <3>2 DEF OpenForWrite, BeingPut
    <3>3. CASE FinishWrite(w, b)
      <4>1. /\ put[<<w, b>>] \in InFile
            /\ \A v \in Writers : v # w => put'[<<v, b>>] = put[<<v, b>>]
            /\ file'[b] = "whole" \/ (put[<<w, b>>] # "writing" /\ file'[b] = file[b])
        BY <3>3 DEF FinishWrite, Become, At
      <4>2. Touched(b)
        BY <4>1 DEF Touched, Unbegun, InFile
      <4>3. Broken(b) => Broken(b)'
        BY <4>1 DEF Broken, InFile
      <4>4. put[<<w, b>>] # "writing" /\ BeingPut(b) => BeingPut(b)'
        BY <4>1 DEF BeingPut
      <4> QED
        BY <2>2, <4>1, <4>2, <4>3, <4>4 DEF LastWriterWins
    <3>4. CASE WriteFails(w, b)
      BY <2>2, <3>4 DEF WriteFails, Become, Broken
    <3>5. CASE Unlink(w, b)
      BY <2>2, <3>5 DEF Unlink, Become, Broken
    <3> QED
      BY <3>1, <3>2, <3>3, <3>4, <3>5 DEF PutStep
  <2> QED
    BY <2>1, <2>2
<1>5. /\ mapOf' = mapOf /\ stage' = stage
      /\ stage' \in [Callers -> Stages]
  OBVIOUS
<1>6. \A c \in Blocks : file[c] = "none" /\ file'[c] # "none" =>
        \E v \in Writers : put[<<v, c>>] # "no"
  BY <1>3
<1> HIDE DEF DiskInv, DiskTypeOK
<1> QED
  BY <1>1, <1>2, <1>4, <1>5, <1>6, PutsKeepOrder

\* A crash breaks off each put that is in a file.
LEMMA CrashKeeps ==
  ASSUME DiskInv, Crash
  PROVE  DiskInv'
<1> USE DEF DiskInv, DiskTypeOK
<1>1. \A v \in Writers, b \in Blocks :
        put'[<<v, b>>] = IF put[<<v, b>>] \in InFile \cup {"unlinking"} THEN "failed"
                         ELSE IF put[<<v, b>>] \in {"mkdir", "opening"} THEN "refused"
                         ELSE put[<<v, b>>]
  BY DEF Crash, StoreCrash
<1>2. put' \in [Writers \X Blocks -> PutPhases] /\ file' = file /\ mapOf' = mapOf
  BY DEF Crash, StoreCrash, PutPhases, Unbegun, InFile
<1>3. /\ stage' \in [Callers -> Stages]
      /\ \A c \in Callers : stage'[c] = stage[c] \/ (stage[c] # "new" /\ stage'[c] = "failed")
  BY DEF Crash, Stages, Awaits
<1>4. \A v \in Writers, b \in Blocks :
        /\ put[<<v, b>>] = "no" <=> put'[<<v, b>>] = "no"
        /\ put[<<v, b>>] = "done" => put'[<<v, b>>] = "done"
  BY <1>1 DEF InFile
<1>5. LastWriterWins'
  <2> SUFFICES ASSUME NEW b \in Blocks, Touched(b)'
               PROVE  (file[b] = "whole" \/ BeingPut(b) \/ Broken(b))'
    BY DEF LastWriterWins
  <2>1. Touched(b)
    BY <1>1 DEF Touched, Unbegun, InFile
  <2>2. BeingPut(b) \/ Broken(b) => Broken(b)'
    BY <1>1 DEF BeingPut, Broken, InFile
  <2> QED
    BY <1>2, <2>1, <2>2 DEF LastWriterWins
<1> HIDE DEF DiskInv, DiskTypeOK
<1>6. \A v \in Writers : v \in Callers
  BY DEF Callers
<1>7. file' \in [Blocks -> Contents]
  BY <1>2 DEF DiskInv, DiskTypeOK
<1>8. /\ \A v \in Writers : stage'[v] = stage[v] \/ (stage[v] # "new" /\ stage'[v] = "failed")
      /\ \A c \in Callers : stage'[c] # "new" => stage[c] # "new"
      /\ \A b \in Blocks : file[b] = "none" /\ file'[b] # "none" =>
           \E v \in Writers : put[<<v, b>>] # "no"
  BY <1>2, <1>3, <1>6
<1> QED
  BY <1>2, <1>3, <1>4, <1>5, <1>7, <1>8, PutsKeepOrder

-----------------------------------------------------------------------------

\* Every step keeps the invariant.
LEMMA DiskStep == DiskInv /\ [Next]_vars => DiskInv'
<1> SUFFICES ASSUME DiskInv, [Next]_vars PROVE DiskInv'
  OBVIOUS
<1>1. ASSUME NEW w \in Writers, ImportStep(w) PROVE DiskInv'
  BY <1>1, ImportKeeps, NextBatchKeeps, OtherCallsKeep DEF ImportStep
<1>2. ASSUME NEW r \in Readers, LoadStep(r) PROVE DiskInv'
  BY <1>2, OtherCallsKeep
<1>3. ASSUME NEW w \in Writers, NEW b \in Blocks, PutStep(w, b), UNCHANGED <<stage, mapOf>>
      PROVE  DiskInv'
  BY <1>3, PutStepKeeps
<1>4. ASSUME UNCHANGED <<file, put, stage, mapOf>> PROVE DiskInv'
  <2>1. DiskTypeOK' /\ RootsAreImported'
    BY <1>4 DEF DiskInv, DiskTypeOK, RootsAreImported
  <2>2. LastWriterWins'
    BY <1>4 DEF DiskInv, LastWriterWins, Touched, BeingPut, Broken
  <2>3. \A w \in Writers : InOrder(w)'
    BY <1>4 DEF DiskInv, InOrder
  <2> QED
    BY <2>1, <2>2, <2>3 DEF DiskInv
<1>5. ASSUME NEW b \in Blocks, ReadStep(b), UNCHANGED <<stage, mapOf>> PROVE DiskInv'
  BY <1>4, <1>5 DEF ReadStep, OpenForRead, FinishRead, ReadFails
<1>6. CASE Crash
  BY <1>6, CrashKeeps
<1>7. CASE UNCHANGED vars
  BY <1>4, <1>7 DEF vars
<1> QED
  BY <1>1, <1>2, <1>3, <1>5, <1>6, <1>7 DEF Next, Work

\* Type correctness of the files, the calls of put, and the imports and loads.
THEOREM DiskTypeCorrect == Spec => []DiskTypeOK
<1>1. DiskInv => DiskTypeOK
  BY DEF DiskInv
<1> QED
  BY <1>1, DiskInit, DiskStep, PTL DEF Spec

\* A root's file is a promise: over any number of imports side by side that
\* share blocks, of crashes and of I/O errors, each block its map links to has
\* its file whole unless it is being written anew or a put of it broke off.
THEOREM RootMeansMapHolds == Spec => []RootMeansMap
  BY DiskInit, DiskStep, DiskInvIsEnough, PTL DEF Spec

-----------------------------------------------------------------------------
(* A batch of gets is a fold; what each get keeps, the batch keeps.        *)

\* The caches that a batch of gets goes through, one after each get, for each set
\* of positions in the batch.
BatchStep(after, r, c, batch, t) ==
  IF t = {} THEN c ELSE Fetched(after[t \ {Max(t)}], r, batch[Max(t)])

AreAfterGets(after, r, c, batch) ==
  after = [t \in SUBSET DOMAIN batch |-> BatchStep(after, r, c, batch, t)]
AfterGets(r, c, batch) == CHOOSE after : AreAfterGets(after, r, c, batch)

Gets(r, cc, batch) == FoldLeft(LAMBDA c, b : Fetched(c, r, b), cc, batch)

LEMMA GetsOneByOne ==
  ASSUME NEW r, NEW c, NEW batch \in Seq(Blocks)
  PROVE  Gets(r, c, batch) = AfterGets(r, c, batch)[DOMAIN batch]
  BY DEF Gets, FoldLeft, MapThenFoldSet, AfterGets, AreAfterGets, BatchStep

LEMMA MaxRemoved ==
  ASSUME NEW n \in Nat, NEW t \in SUBSET (1..(n + 1)), t # {}
  PROVE  t \ {Max(t)} \in SUBSET (1..n) /\ Max(t) \in t
<1>1. Max(t) \in t /\ \A y \in t : y <= Max(t)
  BY GreatestNumber, n + 1 \in Nat
<1>2. ASSUME NEW y \in t, y # Max(t) PROVE y \in 1..n
  <2>1. y \in 1..(n + 1) /\ Max(t) \in 1..(n + 1) /\ y <= Max(t)
    BY <1>1, <1>2
  <2>2. QED
    BY <1>2, <2>1
<1> QED
  BY <1>1, <1>2

LEMMA AfterGetsExists ==
  ASSUME NEW r, NEW c, NEW batch \in Seq(Blocks)
  PROVE  AreAfterGets(AfterGets(r, c, batch), r, c, batch)
<1> DEFINE Step(after, t) == BatchStep(after, r, c, batch, t)
           Has(n) == \E after : after = [t \in SUBSET (1..n) |-> Step(after, t)]
           T == {n \in Nat : Has(n)}
<1>1. 0 \in T
  <2> DEFINE a == [t \in SUBSET (1..0) |-> c]
  <2>1. a = [t \in SUBSET (1..0) |-> Step(a, t)]
    BY DEF BatchStep
  <2> QED
    BY <2>1
<1>2. ASSUME NEW n \in Nat, n \in T PROVE n + 1 \in T
  <2>1. PICK a : a = [t \in SUBSET (1..n) |-> Step(a, t)]
    BY <1>2
  <2> DEFINE b == [t \in SUBSET (1..(n + 1)) |-> Step(a, t)]
  <2>2. \A t \in SUBSET (1..n) : b[t] = a[t]
    BY <2>1
  <2>3. \A t \in SUBSET (1..(n + 1)) : Step(a, t) = Step(b, t)
    BY <2>2, MaxRemoved DEF BatchStep
  <2>4. b = [t \in SUBSET (1..(n + 1)) |-> Step(b, t)]
    BY <2>3
  <2> HIDE DEF Step, b
  <2>5. Has(n + 1)
    BY <2>4
  <2> QED
    BY <2>5
<1> HIDE DEF Has
<1>3. \A n \in Nat : n \in T
  BY <1>1, <1>2, EveryNumber
<1>4. DOMAIN batch = 1..Len(batch) /\ Len(batch) \in Nat
  OBVIOUS
<1>5. Has(Len(batch))
  BY <1>3, <1>4
<1>6. \E after : AreAfterGets(after, r, c, batch)
  BY <1>4, <1>5 DEF Has, AreAfterGets
<1> QED
  BY <1>6 DEF AfterGets

\* What is so after as many gets of a batch as each number says.
LEMMA BatchReaches ==
  ASSUME NEW r, NEW c, NEW batch \in Seq(Blocks), NEW After, c \in After[0],
         \A n \in Nat : \A d \in After[n] :
           n + 1 <= Len(batch) => Fetched(d, r, batch[n + 1]) \in After[n + 1]
  PROVE  Gets(r, c, batch) \in After[Len(batch)]
<1> DEFINE a == AfterGets(r, c, batch)
           T == {n \in Nat : n <= Len(batch) => a[1..n] \in After[n]}
<1>1. DOMAIN batch = 1..Len(batch) /\ Len(batch) \in Nat
  OBVIOUS
<1>0. AreAfterGets(a, r, c, batch)
  BY AfterGetsExists
<1> HIDE DEF a
<1>2. a = [t \in SUBSET DOMAIN batch |-> BatchStep(a, r, c, batch, t)]
  BY <1>0 DEF AreAfterGets
<1>3. 0 \in T
  BY <1>1, <1>2 DEF BatchStep
<1>4. ASSUME NEW n \in Nat, n \in T PROVE n + 1 \in T
  <2> SUFFICES ASSUME n + 1 <= Len(batch) PROVE a[1..(n + 1)] \in After[n + 1]
    OBVIOUS
  <2>1. a[1..n] \in After[n]
    BY <1>1, <1>4
  <2>2. (1..(n + 1)) \in SUBSET DOMAIN batch /\ (1..(n + 1)) # {} /\ n + 1 \in DOMAIN batch
    BY <1>1
  <2>3. Max(1..(n + 1)) = n + 1
    <3> DEFINE t == 1..(n + 1)
    <3>0. n + 1 \in Nat /\ n + 1 \in 1..(n + 1)
      OBVIOUS
    <3> HIDE DEF t
    <3>1. n + 1 \in Nat /\ n + 1 \in t /\ t # {} /\ t \subseteq 1..(n + 1)
      BY <3>0 DEF t
    <3>2. Max(t) \in t /\ \A y \in t : y <= Max(t)
      BY <3>1, GreatestNumber
    <3>3. n + 1 <= Max(t) /\ Max(t) \in 1..(n + 1)
      BY <3>1, <3>2
    <3>4. QED
      BY <3>3 DEF t
  <2>4. (1..(n + 1)) \ {n + 1} = 1..n
    OBVIOUS
  <2>5. a[1..(n + 1)] = Fetched(a[1..n], r, batch[n + 1])
    BY <1>2, <2>2, <2>3, <2>4 DEF BatchStep
  <2> QED
    BY <2>1, <2>2, <2>5
<1>5. \A n \in Nat : n \in T
  BY <1>3, <1>4, EveryNumber
<1>6. a[1..Len(batch)] \in After[Len(batch)]
  BY <1>1, <1>5
<1> QED
  BY <1>1, <1>6, GetsOneByOne DEF a

\* What each get of a batch keeps, the batch keeps.
LEMMA BatchKeeps ==
  ASSUME NEW r, NEW c, NEW batch \in Seq(Blocks), NEW Kept, c \in Kept,
         \A d \in Kept, i \in DOMAIN batch : Fetched(d, r, batch[i]) \in Kept
  PROVE  Gets(r, c, batch) \in Kept
<1> DEFINE After == [n \in Nat |-> Kept]
<1>1. DOMAIN batch = 1..Len(batch) /\ Len(batch) \in Nat
  OBVIOUS
<1>2. c \in After[0]
  OBVIOUS
<1>3. \A n \in Nat : \A d \in After[n] :
        n + 1 <= Len(batch) => Fetched(d, r, batch[n + 1]) \in After[n + 1]
  BY <1>1
<1>4. After[Len(batch)] = Kept
  BY <1>1
<1> HIDE DEF After
<1> QED
  BY <1>2, <1>3, <1>4, BatchReaches

-----------------------------------------------------------------------------
(* What the cache's operations do to it.                                   *)

Values == {"no", "fetching", "torn", "whole"}
CacheRecord ==
  [order : Seq(Blocks), val : [Blocks -> Values],
   seen : [Blocks -> {"unopened", "torn", "whole", "kept"}],
   want : [Readers \X Blocks -> {"no", "waiting"} \cup Answers]]

WellFormed(c) ==
  /\ c \in CacheRecord
  /\ Len(c.order) <= CacheSize
  /\ IsInjective(c.order)
  /\ ToSet(c.order) = {b \in Blocks : c.val[b] # "no"}

\* An order without one of its entries.
LEMMA OrderWithout ==
  ASSUME NEW s \in Seq(Blocks), IsInjective(s), NEW b
  PROVE  LET t == RemoveFirst(s, b)
         IN  /\ t \in Seq(Blocks) /\ IsInjective(t)
             /\ ToSet(t) = ToSet(s) \ {b}
             /\ Len(t) = IF b \in ToSet(s) THEN Len(s) - 1 ELSE Len(s)
<1> DEFINE t == RemoveFirst(s, b)
<1>1. Len(s) \in Nat /\ DOMAIN s = 1..Len(s) /\ \A i \in 1..Len(s) : s[i] \in Blocks
  OBVIOUS
<1>2. CASE b \notin ToSet(s)
  <2>1. t = s
    BY <1>1, <1>2 DEF RemoveFirst, ToSet
  <2> QED
    BY <1>2, <2>1
<1>3. CASE b \in ToSet(s)
  <2>1. PICK k \in 1..Len(s) : s[k] = b
    BY <1>1, <1>3 DEF ToSet
  <2>2. \A i \in 1..Len(s) : s[i] = b <=> i = k
    BY <1>1, <2>1 DEF IsInjective
  <2>3. SelectInSeq(s, LAMBDA v : v = b) = k
    <3>1. {i \in 1..Len(s) : s[i] = b} = {k}
      BY <2>1, <2>2
    <3>2. Min({k}) = k
      BY <1>1, <2>1 DEF Min
    <3> QED
      BY <3>1, <3>2 DEF SelectInSeq
  <2> DEFINE u == SubSeq(s, 1, k - 1)
             v == SubSeq(s, k + 1, Len(s))
  <2>4. t = u \o v
    BY <2>1, <2>3 DEF RemoveFirst, RemoveAt
  <2>5. u \in Seq(Blocks) /\ Len(u) = k - 1 /\ \A i \in 1..(k - 1) : u[i] = s[i]
    <3>1. 1 \in Int /\ k - 1 \in Int /\ \A i \in 1..(k - 1) : s[i] \in Blocks
      BY <1>1
    <3>2. /\ SubSeq(s, 1, k - 1) \in Seq(Blocks)
          /\ Len(SubSeq(s, 1, k - 1)) = IF 1 <= k - 1 THEN (k - 1) - 1 + 1 ELSE 0
          /\ \A i \in 1..((k - 1) - 1 + 1) : SubSeq(s, 1, k - 1)[i] = s[1 + i - 1]
      BY <3>1, SubSeqProperties
    <3> QED
      BY <3>1, <3>2
  <2>6. v \in Seq(Blocks) /\ Len(v) = Len(s) - k /\ \A i \in 1..(Len(s) - k) : v[i] = s[i + k]
    <3>1. k + 1 \in Int /\ Len(s) \in Int /\ \A i \in (k + 1)..Len(s) : s[i] \in Blocks
      BY <1>1
    <3>2. /\ SubSeq(s, k + 1, Len(s)) \in Seq(Blocks)
          /\ Len(SubSeq(s, k + 1, Len(s))) = IF k + 1 <= Len(s) THEN Len(s) - (k + 1) + 1 ELSE 0
          /\ \A i \in 1..(Len(s) - (k + 1) + 1) : SubSeq(s, k + 1, Len(s))[i] = s[(k + 1) + i - 1]
      BY <3>1, SubSeqProperties
    <3>0. k \in Nat /\ Len(s) \in Nat /\ k <= Len(s)
      <4>1. Len(s) \in Nat
        BY <1>1
      <4> QED
        BY <4>1
    <3> HIDE DEF v, u, t
    <3>3. k + 1 <= Len(s) \/ k = Len(s)
      BY <3>0
    <3>4. Len(v) = Len(s) - k
      BY <3>0, <3>2, <3>3 DEF v
    <3>5. ASSUME NEW i \in 1..(Len(s) - k) PROVE v[i] = s[i + k]
      <4>1. i \in 1..(Len(s) - (k + 1) + 1) /\ (k + 1) + i - 1 = i + k
        BY <3>0
      <4> QED
        BY <3>2, <4>1 DEF v
    <3> QED
      BY <3>2, <3>4, <3>5 DEF v
  <2> HIDE DEF t, u, v
  <2>7. /\ t \in Seq(Blocks) /\ Len(t) = Len(s) - 1 /\ DOMAIN t = 1..(Len(s) - 1)
        /\ \A i \in 1..(Len(s) - 1) : t[i] = IF i < k THEN s[i] ELSE s[i + 1]
    <3>1. /\ u \o v \in Seq(Blocks)
          /\ Len(u \o v) = Len(u) + Len(v)
          /\ \A i \in 1..(Len(u) + Len(v)) :
               (u \o v)[i] = IF i <= Len(u) THEN u[i] ELSE v[i - Len(u)]
      BY <2>5, <2>6, ConcatProperties
    <3>2. Len(u) + Len(v) = Len(s) - 1 /\ Len(t) = Len(s) - 1
      BY <1>1, <2>4, <2>5, <2>6, <3>1
    <3>3. ASSUME NEW i \in 1..(Len(s) - 1) PROVE t[i] = IF i < k THEN s[i] ELSE s[i + 1]
      <4>1. t[i] = IF i <= k - 1 THEN u[i] ELSE v[i - (k - 1)]
        BY <2>4, <2>5, <3>1, <3>2
      <4>2. CASE i < k
        BY <1>1, <2>5, <4>1, <4>2
      <4>3. CASE ~ i < k
        <5>1. i - (k - 1) \in 1..(Len(s) - k) /\ (i - (k - 1)) + k = i + 1
          BY <1>1, <4>3
        <5> QED
          BY <2>6, <4>1, <4>3, <5>1
      <4> QED
        BY <4>2, <4>3
    <3>4. DOMAIN t = 1..Len(t)
      BY <2>4, <3>1
    <3> QED
      BY <2>4, <3>1, <3>2, <3>3, <3>4
  <2>8. IsInjective(t)
    <3> SUFFICES ASSUME NEW i \in 1..(Len(s) - 1), NEW j \in 1..(Len(s) - 1), t[i] = t[j]
                 PROVE  i = j
      BY <2>7 DEF IsInjective
    <3> DEFINE p(n) == IF n < k THEN n ELSE n + 1
    <3>1. p(i) \in 1..Len(s) /\ p(j) \in 1..Len(s) /\ s[p(i)] = s[p(j)]
      BY <1>1, <2>7
    <3>2. p(i) = p(j)
      BY <1>1, <3>1 DEF IsInjective
    <3> QED
      BY <1>1, <3>2
  <2>9. ToSet(t) = ToSet(s) \ {b}
    <3>1. ASSUME NEW i \in 1..(Len(s) - 1) PROVE t[i] \in ToSet(s) /\ t[i] # b
      <4> DEFINE j == IF i < k THEN i ELSE i + 1
      <4>1. j \in 1..Len(s) /\ j # k
        BY <1>1
      <4>2. t[i] = s[j]
        BY <2>7
      <4> QED
        BY <1>1, <2>2, <4>1, <4>2 DEF ToSet
    <3>2. ASSUME NEW i \in 1..Len(s), i # k PROVE s[i] \in ToSet(t)
      <4> DEFINE j == IF i < k THEN i ELSE i - 1
      <4>1. j \in 1..(Len(s) - 1) /\ t[j] = s[i]
        BY <1>1, <2>7, <3>2
      <4> QED
        BY <2>7, <4>1 DEF ToSet
    <3> QED
      BY <1>1, <2>2, <2>7, <3>1, <3>2 DEF ToSet
  <2> QED
    BY <1>3, <2>7, <2>8, <2>9 DEF t
<1> QED
  BY <1>2, <1>3 DEF t

\* An order with an entry that it did not have.
LEMMA OrderWith ==
  ASSUME NEW s \in Seq(Blocks), IsInjective(s), NEW b \in Blocks \ ToSet(s)
  PROVE  LET t == Append(s, b)
         IN  /\ t \in Seq(Blocks) /\ IsInjective(t)
             /\ ToSet(t) = ToSet(s) \cup {b} /\ Len(t) = Len(s) + 1
<1> DEFINE t == Append(s, b)
<1>1. Len(s) \in Nat /\ DOMAIN s = 1..Len(s)
  OBVIOUS
<1>2. /\ t \in Seq(Blocks) /\ Len(t) = Len(s) + 1
      /\ \A i \in 1..Len(s) : t[i] = s[i]
      /\ t[Len(s) + 1] = b
  BY AppendProperties
<1>3. DOMAIN t = 1..(Len(s) + 1)
  BY <1>2
<1> HIDE DEF t
<1>4. IsInjective(t)
  <2> SUFFICES ASSUME NEW i \in 1..(Len(s) + 1), NEW j \in 1..(Len(s) + 1), t[i] = t[j]
               PROVE  i = j
    BY <1>3 DEF IsInjective
  <2>1. \A n \in 1..(Len(s) + 1) : n \in 1..Len(s) \/ n = Len(s) + 1
    BY <1>1
  <2>2. \A n \in 1..Len(s) : t[n] # b
    BY <1>1, <1>2 DEF ToSet
  <2> QED
    BY <1>1, <1>2, <2>1, <2>2 DEF IsInjective
<1>5. ToSet(t) = ToSet(s) \cup {b}
  <2>1. \A n \in 1..(Len(s) + 1) : n \in 1..Len(s) \/ n = Len(s) + 1
    BY <1>1
  <2>2. 1..Len(s) \subseteq 1..(Len(s) + 1) /\ Len(s) + 1 \in 1..(Len(s) + 1)
    BY <1>1
  <2> QED
    BY <1>1, <1>2, <1>3, <2>1, <2>2 DEF ToSet
<1> QED
  BY <1>2, <1>4, <1>5 DEF t

\* Each get that waits for b is answered.
Answering(c, b, answer) == [c EXCEPT !.want = Settled(@, b, answer)]

LEMMA AnsweringGives ==
  ASSUME NEW c, WellFormed(c), NEW b, NEW answer \in Answers
  PROVE  LET e == Answering(c, b, answer)
         IN  /\ WellFormed(e)
             /\ e.val = c.val /\ e.seen = c.seen
             /\ \A r \in Readers, d \in Blocks :
                  e.want[<<r, d>>] = IF d = b /\ c.want[<<r, d>>] = "waiting" THEN answer
                                     ELSE c.want[<<r, d>>]
<1> DEFINE e == Answering(c, b, answer)
<1>1. c \in CacheRecord /\ c.want \in [Readers \X Blocks -> {"no", "waiting"} \cup Answers]
  BY DEF WellFormed, CacheRecord
<1>2. /\ e.want = Settled(c.want, b, answer)
      /\ e.order = c.order /\ e.val = c.val /\ e.seen = c.seen
  BY <1>1 DEF CacheRecord, Answering
<1>3. /\ e.want \in [Readers \X Blocks -> {"no", "waiting"} \cup Answers]
      /\ \A r \in Readers, d \in Blocks :
           e.want[<<r, d>>] = IF d = b /\ c.want[<<r, d>>] = "waiting" THEN answer
                              ELSE c.want[<<r, d>>]
  BY <1>1, <1>2 DEF Settled
<1>4. e \in CacheRecord
  BY <1>1, <1>3 DEF CacheRecord, Answering
<1> HIDE DEF e
<1>5. WellFormed(e)
  BY <1>2, <1>4 DEF WellFormed
<1> QED
  BY <1>2, <1>3, <1>5 DEF e

\* Taking an entry out.
LEMMA RemovedGives ==
  ASSUME NEW c, WellFormed(c), NEW b \in Blocks, NEW reason \in Answers
  PROVE  LET e == Removed(c, b, reason)
         IN  /\ WellFormed(e)
             /\ e.val[b] = "no" /\ e.seen[b] = "unopened"
             /\ \A d \in Blocks \ {b} : e.val[d] = c.val[d] /\ e.seen[d] = c.seen[d]
             /\ \A r \in Readers, d \in Blocks :
                  e.want[<<r, d>>] = IF d = b /\ c.want[<<r, d>>] = "waiting" THEN reason
                                     ELSE c.want[<<r, d>>]
             /\ Len(e.order) = IF c.val[b] # "no" THEN Len(c.order) - 1 ELSE Len(c.order)
<1> DEFINE e == Removed(c, b, reason)
<1>1. /\ c.order \in Seq(Blocks) /\ c.val \in [Blocks -> Values]
      /\ c.seen \in [Blocks -> {"unopened", "torn", "whole", "kept"}]
      /\ c.want \in [Readers \X Blocks -> {"no", "waiting"} \cup Answers]
      /\ Len(c.order) \in Nat /\ CacheSize \in Nat
  BY CacheSizeAssumption DEF WellFormed, CacheRecord
<1>2. /\ e.order = RemoveFirst(c.order, b)
      /\ e.val = [c.val EXCEPT ![b] = "no"] /\ e.seen = [c.seen EXCEPT ![b] = "unopened"]
      /\ e.want = Settled(c.want, b, reason)
      /\ e = [order |-> e.order, val |-> e.val, seen |-> e.seen, want |-> e.want]
  BY DEF Removed
<1>3. /\ e.order \in Seq(Blocks) /\ IsInjective(e.order)
      /\ ToSet(e.order) = ToSet(c.order) \ {b}
      /\ Len(e.order) = IF b \in ToSet(c.order) THEN Len(c.order) - 1 ELSE Len(c.order)
  <2>1. IsInjective(c.order)
    BY DEF WellFormed
  <2> DEFINE t == RemoveFirst(c.order, b)
  <2>2. /\ t \in Seq(Blocks) /\ IsInjective(t) /\ ToSet(t) = ToSet(c.order) \ {b}
        /\ Len(t) = IF b \in ToSet(c.order) THEN Len(c.order) - 1 ELSE Len(c.order)
    BY <1>1, <2>1, OrderWithout
  <2>3. e.order = t
    BY <1>2
  <2> HIDE DEF t, e
  <2> QED
    BY <2>2, <2>3
<1>4. b \in ToSet(c.order) <=> c.val[b] # "no"
  BY DEF WellFormed
<1> HIDE DEF e
<1>5. /\ e.val \in [Blocks -> Values]
      /\ e.seen \in [Blocks -> {"unopened", "torn", "whole", "kept"}]
      /\ e.val[b] = "no" /\ e.seen[b] = "unopened"
      /\ \A d \in Blocks \ {b} : e.val[d] = c.val[d] /\ e.seen[d] = c.seen[d]
  BY <1>1, <1>2 DEF Values
<1>6. /\ e.want \in [Readers \X Blocks -> {"no", "waiting"} \cup Answers]
      /\ \A r \in Readers, d \in Blocks :
           e.want[<<r, d>>] = IF d = b /\ c.want[<<r, d>>] = "waiting" THEN reason
                              ELSE c.want[<<r, d>>]
  <2> DEFINE w == Settled(c.want, b, reason)
  <2>1. /\ w \in [Readers \X Blocks -> {"no", "waiting"} \cup Answers]
        /\ \A r \in Readers, d \in Blocks :
             w[<<r, d>>] = IF d = b /\ c.want[<<r, d>>] = "waiting" THEN reason
                           ELSE c.want[<<r, d>>]
    <3>1. c.want \in [Readers \X Blocks -> {"no", "waiting"} \cup Answers]
      BY <1>1
    <3> QED
      BY <3>1 DEF Settled
  <2> HIDE DEF w
  <2> QED
    BY <1>2, <2>1 DEF w
<1>7. ToSet(e.order) = {d \in Blocks : e.val[d] # "no"}
  BY <1>3, <1>5 DEF WellFormed
<1>8. Len(e.order) <= CacheSize
  BY <1>1, <1>3 DEF WellFormed
<1>9. e \in CacheRecord
  BY <1>2, <1>3, <1>5, <1>6 DEF CacheRecord
<1> QED
  BY <1>3, <1>4, <1>5, <1>6, <1>7, <1>8, <1>9 DEF WellFormed, e

\* Entering a value takes no other step than to evict.
LEMMA EnteredGives ==
  ASSUME NEW c, WellFormed(c), NEW b \in Blocks, NEW v \in Values \ {"no"}
  PROVE  LET e == Entered(c, b, v)
         IN  /\ WellFormed(e)
             /\ e.val[b] = v /\ e.seen[b] = "unopened"
             /\ \A d \in Blocks \ {b} :
                  e.val[d] = "no" \/ (e.val[d] = c.val[d] /\ e.seen[d] = c.seen[d])
             /\ \A r \in Readers, d \in Blocks :
                  \/ e.want[<<r, d>>] = c.want[<<r, d>>]
                  \/ d # b /\ c.want[<<r, d>>] = "waiting" /\ e.want[<<r, d>>] = "evicted"
             /\ \A d \in Blocks \ {b} :
                  \/ e.val[d] = c.val[d] /\ \A r \in Readers : e.want[<<r, d>>] = c.want[<<r, d>>]
                  \/ e.val[d] = "no" /\ \A r \in Readers : e.want[<<r, d>>] # "waiting"
<1> DEFINE full == c.val[b] = "no" /\ Len(c.order) = CacheSize
           head == Head(c.order)
           room == IF full THEN Removed(c, head, "evicted") ELSE c
           e == Entered(c, b, v)
<1>1. /\ c.order \in Seq(Blocks) /\ Len(c.order) \in Nat /\ CacheSize \in Nat \ {0}
      /\ Len(c.order) <= CacheSize
  BY CacheSizeAssumption DEF WellFormed, CacheRecord
<1>2. /\ WellFormed(room)
      /\ room.val[b] = c.val[b]
      /\ room.val[b] = "no" => Len(room.order) < CacheSize
      /\ \A d \in Blocks \ {b} :
           room.val[d] = "no" \/ (room.val[d] = c.val[d] /\ room.seen[d] = c.seen[d])
      /\ \A r \in Readers, d \in Blocks :
           \/ room.want[<<r, d>>] = c.want[<<r, d>>]
           \/ d # b /\ c.want[<<r, d>>] = "waiting" /\ room.want[<<r, d>>] = "evicted"
      /\ \A d \in Blocks \ {b} :
           \/ room.val[d] = c.val[d] /\ \A r \in Readers : room.want[<<r, d>>] = c.want[<<r, d>>]
           \/ room.val[d] = "no" /\ \A r \in Readers : room.want[<<r, d>>] # "waiting"
  <2>1. CASE full
    <3>1. head \in Blocks /\ head \in ToSet(c.order)
      <4>1. c.order # << >> /\ head = c.order[1] /\ 1 \in DOMAIN c.order
        BY <1>1, <2>1
      <4> QED
        BY <1>1, <4>1 DEF ToSet
    <3>2. c.val[head] # "no" /\ head # b
      BY <2>1, <3>1 DEF WellFormed
    <3>3. "evicted" \in Answers
      BY DEF Answers
    <3> HIDE DEF head, e
    <3>4. LET f == Removed(c, head, "evicted")
          IN  /\ WellFormed(f)
              /\ f.val[head] = "no"
              /\ \A d \in Blocks \ {head} : f.val[d] = c.val[d] /\ f.seen[d] = c.seen[d]
              /\ \A r \in Readers, d \in Blocks :
                   f.want[<<r, d>>] = IF d = head /\ c.want[<<r, d>>] = "waiting" THEN "evicted"
                                      ELSE c.want[<<r, d>>]
              /\ Len(f.order) = IF c.val[head] # "no" THEN Len(c.order) - 1 ELSE Len(c.order)
      BY <3>1, <3>3, RemovedGives
    <3>5. room = Removed(c, head, "evicted")
      BY <2>1
    <3> HIDE DEF room
    <3> QED
      BY <1>1, <2>1, <3>2, <3>4, <3>5
  <2>2. CASE ~full
    BY <1>1, <2>2
  <2> QED
    BY <2>1, <2>2
<1>3. e = [room EXCEPT !.order = Append(RemoveFirst(@, b), b), !.val[b] = v, !.seen[b] = "unopened"]
  BY DEF Entered
<1> HIDE DEF room, e
<1>4. /\ room \in CacheRecord
      /\ room.order \in Seq(Blocks) /\ room.val \in [Blocks -> Values]
      /\ room.seen \in [Blocks -> {"unopened", "torn", "whole", "kept"}]
      /\ room.want \in [Readers \X Blocks -> {"no", "waiting"} \cup Answers]
      /\ Len(room.order) \in Nat /\ Len(room.order) <= CacheSize
  BY <1>2 DEF WellFormed, CacheRecord
<1> DEFINE s == RemoveFirst(room.order, b)
<1>5. /\ s \in Seq(Blocks) /\ IsInjective(s) /\ ToSet(s) = ToSet(room.order) \ {b}
      /\ Len(s) = IF b \in ToSet(room.order) THEN Len(room.order) - 1 ELSE Len(room.order)
  BY <1>2, <1>4, OrderWithout DEF WellFormed
<1>6. /\ e.order = Append(s, b) /\ e.want = room.want
      /\ e.val = [room.val EXCEPT ![b] = v] /\ e.seen = [room.seen EXCEPT ![b] = "unopened"]
  BY <1>3, <1>4 DEF CacheRecord
<1> HIDE DEF s
<1>7. /\ e.order \in Seq(Blocks) /\ IsInjective(e.order)
      /\ ToSet(e.order) = ToSet(room.order) \cup {b} /\ Len(e.order) = Len(s) + 1
  BY <1>5, <1>6, OrderWith
<1>8. b \in ToSet(room.order) <=> room.val[b] # "no"
  BY <1>2 DEF WellFormed
<1>9. Len(e.order) <= CacheSize
  BY <1>1, <1>2, <1>4, <1>5, <1>7, <1>8
<1>10. ToSet(e.order) = {d \in Blocks : e.val[d] # "no"}
  BY <1>2, <1>4, <1>6, <1>7 DEF WellFormed
<1>11. e \in CacheRecord
  <2>1. e.val \in [Blocks -> Values] /\ e.seen \in [Blocks -> {"unopened", "torn", "whole", "kept"}]
    BY <1>4, <1>6
  <2>2. e = [order |-> e.order, val |-> e.val, seen |-> e.seen, want |-> e.want]
    BY <1>3, <1>4 DEF CacheRecord
  <2> QED
    BY <1>4, <1>6, <1>7, <2>1, <2>2 DEF CacheRecord
<1>12. WellFormed(e)
  BY <1>7, <1>9, <1>10, <1>11 DEF WellFormed
<1>13. /\ e.val[b] = v /\ e.seen[b] = "unopened"
       /\ \A d \in Blocks \ {b} : e.val[d] = room.val[d] /\ e.seen[d] = room.seen[d]
  BY <1>4, <1>6
<1> QED
  BY <1>2, <1>6, <1>12, <1>13 DEF e

-----------------------------------------------------------------------------
(* What the cache may hold, and what a get may have been answered.         *)

Done(b) == \E w \in Writers : put[<<w, b>>] = "done"
Overwritten(b) == \E w \in Writers : put[<<w, b>>] \in InFile

\* The cache holds, or is about to hold, what the file holds, unless a put of the
\* block is in the file, which replaces it when it ends, or one has broken off.
ValueFits(c, b) ==
  /\ c.val[b] # "no" => Done(b)
  /\ \/ Broken(b)
     \/ /\ c.val[b] = "torn" => Overwritten(b)
        /\ c.val[b] = "whole" => file[b] = "whole" \/ Overwritten(b)
        /\ c.val[b] = "fetching" =>
             /\ c.seen[b] = "torn" => Overwritten(b)
             /\ c.seen[b] = "whole" => file[b] = "whole"
             /\ c.seen[b] # "kept"

\* Only blocks that have been put are got, and each refusal has its cause.
AnswerFits(answer, b) ==
  /\ answer # "no" => Done(b)
  /\ answer \in {"missing", "deleted"} => Broken(b)
  /\ answer \in {"torn", "replaced"} => Broken(b) \/ PutAgain(b)

CacheFits(c) ==
  /\ WellFormed(c)
  /\ \A b \in Blocks : ValueFits(c, b)
  /\ \A r \in Readers, b \in Blocks : AnswerFits(c.want[<<r, b>>], b)

\* Who writes to a file has opened it, and nobody has unlinked it since.
WrittenFilesExist == \A b \in Blocks : BeingPut(b) => file[b] # "none"

\* A root that an import has returned has been put.
AnswersArePut ==
  \A w \in Writers : stage[w] = "answered" => put[<<w, RootOf(mapOf[w])>>] = "done"

LoadsOfAnswered == \A r \in Readers : stage[r] # "new" => Answered(mapOf[r])

CacheInv ==
  /\ DiskInv
  /\ faults \in 0 .. MaxFaults
  /\ WrittenFilesExist
  /\ AnswersArePut
  /\ LoadsOfAnswered
  /\ CacheFits(cache)

LEMMA CacheInvIsEnough == CacheInv => TypeOK /\ CacheTellsTheTruth /\ GetFailsOnlyForCause
<1> SUFFICES ASSUME CacheInv PROVE TypeOK /\ CacheTellsTheTruth /\ GetFailsOnlyForCause
  OBVIOUS
<1>1. TypeOK
  BY DEF CacheInv, CacheFits, WellFormed, CacheRecord, Values, DiskInv, TypeOK, CacheTypeOK
<1>2. CacheTellsTheTruth
  <2> SUFFICES ASSUME NEW b \in Blocks, Cached(cache, b),
                      \A w \in Writers : put[<<w, b>>] \notin InFile \cup {"unlinking", "failed"}
               PROVE  cache.val[b] = "whole" /\ file[b] = "whole"
    BY DEF CacheTellsTheTruth
  <2>1. ~Broken(b) /\ ~Overwritten(b)
    BY DEF Broken, Overwritten
  <2> QED
    BY <2>1 DEF CacheInv, CacheFits, ValueFits, Cached
<1>3. GetFailsOnlyForCause
  BY DEF CacheInv, CacheFits, AnswerFits, GetFailsOnlyForCause
<1> QED
  BY <1>1, <1>2, <1>3

\* Each block of a map whose import has returned has been put.
LEMMA AnsweredBlocks ==
  ASSUME CacheInv, NEW m \in Maps, Answered(m), NEW b \in BlocksOf(m)
  PROVE  b \in Blocks /\ Done(b)
<1>1. PICK w \in Writers : stage[w] = "answered" /\ mapOf[w] = m
  BY DEF Answered
<1>2. put[<<w, RootOf(m)>>] = "done"
  BY <1>1 DEF CacheInv, AnswersArePut
<1>3. \A d \in Linked(m) : put[<<w, d>>] = "done"
  BY <1>1, <1>2 DEF CacheInv, DiskInv, InOrder
<1> QED
  BY <1>2, <1>3, BlocksOfMaps DEF Done

LEMMA CacheInit == Init => CacheInv
<1> SUFFICES ASSUME Init PROVE CacheInv
  OBVIOUS
<1>1. DiskInv
  BY DiskInit
<1>2. CacheFits(cache)
  <2>1. cache = EmptyCache
    BY DEF Init, StoreInit
  <2>2. EmptyCache \in CacheRecord
    BY DEF EmptyCache, CacheRecord, Values
  <2>3. WellFormed(EmptyCache)
    BY <2>2, CacheSizeAssumption DEF WellFormed, EmptyCache, IsInjective, ToSet
  <2> QED
    BY <2>1, <2>3 DEF CacheFits, ValueFits, AnswerFits, EmptyCache
<1>3. faults \in 0 .. MaxFaults
  BY MaxFaultsAssumption DEF Init, StoreInit
<1> QED
  BY <1>1, <1>2, <1>3
     DEF Init, StoreInit, CacheInv, WrittenFilesExist, BeingPut, AnswersArePut, LoadsOfAnswered, Callers

-----------------------------------------------------------------------------
(* What every step does to the puts.                                       *)

\* A put that has broken off, is done or has begun stays so.
Advances(p, q) ==
  /\ p = "done" => q = "done"
  /\ p \in {"unlinking", "failed"} => q \in {"unlinking", "failed"}
  /\ p \notin Unbegun \cup {"refused"} => q \notin Unbegun \cup {"refused"}

\* A batch of puts begins where there were none.
LEMMA BatchIsNew ==
  ASSUME DiskInv, NEW w \in Writers
  PROVE  /\ \A m \in Maps : Import(w, m) => \A b \in Palettes(m) : put[<<w, b>>] = "no"
         /\ CommitData(w) => \A b \in Data(mapOf[w]) : put[<<w, b>>] = "no"
         /\ CommitRoot(w) => put[<<w, RootOf(mapOf[w])>>] = "no"
<1>1. InOrder(w) /\ w \in Callers /\ (stage[w] # "new" => mapOf[w] \in Maps)
  BY DEF DiskInv, DiskTypeOK, Callers
<1>2. ASSUME NEW m \in Maps, Import(w, m) PROVE \A b \in Palettes(m) : put[<<w, b>>] = "no"
  BY <1>1, <1>2, BlocksOfMaps DEF Import, InOrder
<1>3. ASSUME CommitData(w) PROVE \A b \in Data(mapOf[w]) : put[<<w, b>>] = "no"
  BY <1>1, <1>3 DEF CommitData, InOrder
<1>4. ASSUME CommitRoot(w) PROVE put[<<w, RootOf(mapOf[w])>>] = "no"
  BY <1>1, <1>4 DEF CommitRoot, InOrder
<1> QED
  BY <1>2, <1>3, <1>4

\* A step of import leaves the files, the cache and the puts that have begun.
LEMMA ImportStepPuts ==
  ASSUME DiskInv, NEW w \in Writers, ImportStep(w)
  PROVE  /\ UNCHANGED <<file, cache, faults>>
         /\ \A v \in Writers, b \in Blocks :
              put'[<<v, b>>] = put[<<v, b>>] \/ (put[<<v, b>>] = "no" /\ put'[<<v, b>>] = "mkdir")
<1>0. put \in [Writers \X Blocks -> PutPhases]
  BY DEF DiskInv, DiskTypeOK
<1>1. ASSUME NEW batch, \A b \in batch : put[<<w, b>>] = "no", Putting(w, batch)
      PROVE  \A v \in Writers, b \in Blocks :
               put'[<<v, b>>] = put[<<v, b>>] \/ (put[<<v, b>>] = "no" /\ put'[<<v, b>>] = "mkdir")
  BY <1>0, <1>1 DEF Putting
<1>2. ASSUME NEW m \in Maps, Import(w, m) PROVE Putting(w, Palettes(m)) /\ UNCHANGED <<file, cache, faults>>
  BY <1>2 DEF Import
<1>3. CASE \E m \in Maps : Import(w, m)
  BY <1>1, <1>2, <1>3, BatchIsNew
<1>4. CASE CommitData(w)
  BY <1>1, <1>4, BatchIsNew DEF CommitData
<1>5. CASE CommitRoot(w)
  <2>1. Putting(w, {RootOf(mapOf[w])}) /\ UNCHANGED <<file, cache, faults>>
    BY <1>5 DEF CommitRoot
  <2>2. \A b \in {RootOf(mapOf[w])} : put[<<w, b>>] = "no"
    BY <1>5, BatchIsNew
  <2> QED
    BY <1>1, <2>1, <2>2
<1>6. CASE AnswerImport(w) \/ FailImport(w)
  BY <1>6 DEF AnswerImport, FailImport
<1> QED
  BY <1>3, <1>4, <1>5, <1>6 DEF ImportStep

LEMMA LoadStepPuts ==
  ASSUME NEW r \in Readers, LoadStep(r)
  PROVE  UNCHANGED <<file, put, faults>>
  BY DEF LoadStep, Load, LoadPalettes, LoadData, AnswerLoad, FailLoad

LEMMA PutStepPuts ==
  ASSUME DiskInv, NEW w \in Writers, NEW b \in Blocks, PutStep(w, b)
  PROVE  /\ \A v \in Writers, d \in Blocks : Advances(put[<<v, d>>], put'[<<v, d>>])
         /\ \A d \in Blocks \ {b} :
              file'[d] = file[d] /\ \A v \in Writers : put'[<<v, d>>] = put[<<v, d>>]
<1> USE DEF DiskInv, DiskTypeOK
<1>1. CASE MakeDirectory(w, b)
  BY <1>1 DEF MakeDirectory, Become, At, Advances, Unbegun
<1>2. CASE OpenForWrite(w, b)
  BY <1>2 DEF OpenForWrite, At, Advances, Unbegun
<1>3. CASE FinishWrite(w, b)
  BY <1>3 DEF FinishWrite, Become, At, Advances, Unbegun, InFile
<1>4. CASE WriteFails(w, b)
  BY <1>4 DEF WriteFails, Become, At, Advances, Unbegun, InFile
<1>5. CASE Unlink(w, b)
  BY <1>5 DEF Unlink, Become, At, Advances, Unbegun, InFile
<1> QED
  BY <1>1, <1>2, <1>3, <1>4, <1>5 DEF PutStep

\* What is said of a block's puts stays so.
GoesOn(b) ==
  /\ Done(b) => Done(b)'
  /\ Broken(b) => Broken(b)'
  /\ PutAgain(b) => PutAgain(b)'

LEMMA PutStays ==
  ASSUME DiskInv, [Next]_vars, NEW b \in Blocks, NEW u \in Writers
  PROVE  Advances(put[<<u, b>>], put'[<<u, b>>])
<1> DEFINE Goal == \A w \in Writers : Advances(put[<<w, b>>], put'[<<w, b>>])
<1>1. Goal
  <2>0. \A w \in Writers : put'[<<w, b>>] = put[<<w, b>>] => Advances(put[<<w, b>>], put'[<<w, b>>])
    BY DEF Advances
  <2>1. ASSUME NEW v \in Writers, ImportStep(v) PROVE Goal
    BY <2>1, ImportStepPuts DEF Advances, Unbegun
  <2>2. ASSUME put' = put PROVE Goal
    BY <2>0, <2>2
  <2>3. ASSUME NEW v \in Writers, NEW d \in Blocks, PutStep(v, d) PROVE Goal
    BY <2>3, PutStepPuts
  <2>4. CASE Crash
    BY <2>4 DEF Crash, StoreCrash, Advances, Unbegun, InFile, DiskInv, DiskTypeOK
  <2>5. ASSUME NEW r \in Readers, LoadStep(r) PROVE put' = put
    BY <2>5, LoadStepPuts
  <2>6. ASSUME NEW d \in Blocks, ReadStep(d) PROVE put' = put
    BY <2>6 DEF ReadStep, OpenForRead, FinishRead, ReadFails
  <2> QED
    BY <2>1, <2>2, <2>3, <2>4, <2>5, <2>6 DEF Next, Work, vars
<1> QED
  BY <1>1

LEMMA PutsGoOn ==
  ASSUME DiskInv, [Next]_vars, NEW b \in Blocks
  PROVE  GoesOn(b)
<1>1. \A u \in Writers : Advances(put[<<u, b>>], put'[<<u, b>>])
  BY PutStays
<1> QED
  BY <1>1 DEF GoesOn, Done, Broken, PutAgain, Advances

\* Where a call stands changes with its own steps; an answer is for good.
LEMMA StagesGoOn ==
  ASSUME DiskInv, [Next]_vars, NEW c \in Callers
  PROVE  /\ stage[c] # "new" => stage'[c] # "new" /\ mapOf'[c] = mapOf[c]
         /\ stage[c] = "answered" => stage'[c] = "answered"
<1> USE DEF DiskInv, DiskTypeOK, Awaits
<1>1. ASSUME NEW w \in Writers, ImportStep(w)
      PROVE  /\ stage[c] # "new" => stage'[c] # "new" /\ mapOf'[c] = mapOf[c]
             /\ stage[c] = "answered" => stage'[c] = "answered"
  BY <1>1 DEF ImportStep, Import, CommitData, CommitRoot, AnswerImport, FailImport, Callers
<1>2. ASSUME NEW r \in Readers, LoadStep(r)
      PROVE  /\ stage[c] # "new" => stage'[c] # "new" /\ mapOf'[c] = mapOf[c]
             /\ stage[c] = "answered" => stage'[c] = "answered"
  BY <1>2 DEF LoadStep, Load, LoadPalettes, LoadData, AnswerLoad, FailLoad, Callers
<1>3. CASE Crash
  BY <1>3 DEF Crash
<1> QED
  BY <1>1, <1>2, <1>3 DEF Next, Work, vars

\* The conjuncts of CacheInv that are not about the cache.
LEMMA CallsInv ==
  ASSUME CacheInv, [Next]_vars
  PROVE  /\ DiskInv' /\ faults' \in 0 .. MaxFaults
         /\ WrittenFilesExist' /\ AnswersArePut' /\ LoadsOfAnswered'
<1>1. DiskInv'
  BY DiskStep DEF CacheInv
<1>2. faults' \in 0 .. MaxFaults
  <2>1. faults' = faults \/ Fault
    <3>1. ASSUME NEW w \in Writers, NEW b \in Blocks, PutStep(w, b) PROVE faults' = faults \/ Fault
      BY <3>1 DEF PutStep, MakeDirectory, OpenForWrite, FinishWrite, WriteFails, Unlink
    <3>2. ASSUME NEW b \in Blocks, ReadStep(b) PROVE faults' = faults \/ Fault
      BY <3>2 DEF ReadStep, OpenForRead, FinishRead, ReadFails
    <3>3. CASE Crash
      BY <3>3 DEF Crash, StoreCrash
    <3> QED
      BY <3>1, <3>2, <3>3, ImportStepPuts, LoadStepPuts DEF Next, Work, vars, CacheInv
  <2> QED
    BY <2>1, MaxFaultsAssumption DEF Fault, CacheInv
<1>3. WrittenFilesExist'
  <2> SUFFICES ASSUME NEW b \in Blocks, BeingPut(b)' PROVE file'[b] # "none"
    BY DEF WrittenFilesExist
  <2> USE DEF CacheInv, DiskInv, DiskTypeOK
  <2>1. ASSUME file'[b] = file[b], \A v \in Writers : put'[<<v, b>>] = "writing" => put[<<v, b>>] = "writing"
        PROVE  file'[b] # "none"
    BY <2>1 DEF WrittenFilesExist, BeingPut
  <2>2. ASSUME NEW w \in Writers, ImportStep(w) PROVE file'[b] # "none"
    BY <2>1, <2>2, ImportStepPuts
  <2>3. ASSUME NEW r \in Readers, LoadStep(r) PROVE file'[b] # "none"
    BY <2>1, <2>3, LoadStepPuts
  <2>4. ASSUME NEW w \in Writers, NEW d \in Blocks, PutStep(w, d), d # b PROVE file'[b] # "none"
    BY <2>1, <2>4, PutStepPuts
  <2>5. ASSUME NEW w \in Writers, PutStep(w, b) PROVE file'[b] # "none"
    <3>1. CASE MakeDirectory(w, b)
      BY <2>1, <3>1 DEF MakeDirectory, Become
    <3>2. CASE OpenForWrite(w, b)
      BY <3>2 DEF OpenForWrite
    <3>3. CASE FinishWrite(w, b)
      <4>1. file'[b] = "whole" \/ file' = file
        BY <3>3 DEF FinishWrite
      <4>2. \A v \in Writers : put'[<<v, b>>] = "writing" => put[<<v, b>>] = "writing"
        BY <3>3 DEF FinishWrite, Become
      <4> QED
        BY <2>1, <4>1, <4>2
    <3>4. CASE WriteFails(w, b)
      BY <2>1, <3>4 DEF WriteFails, Become
    <3>5. CASE Unlink(w, b)
      BY <2>1, <3>5 DEF Unlink, Become, BeingPut, InFile
    <3> QED
      BY <2>5, <3>1, <3>2, <3>3, <3>4, <3>5 DEF PutStep
  <2>6. ASSUME NEW d \in Blocks, ReadStep(d) PROVE file'[b] # "none"
    BY <2>1, <2>6 DEF ReadStep, OpenForRead, FinishRead, ReadFails
  <2>7. CASE Crash
    BY <2>1, <2>7 DEF Crash, StoreCrash
  <2>8. CASE UNCHANGED vars
    BY <2>1, <2>8 DEF vars
  <2> QED
    BY <2>2, <2>3, <2>4, <2>5, <2>6, <2>7, <2>8 DEF Next, Work
<1>4. AnswersArePut'
  <2> SUFFICES ASSUME NEW w \in Writers, stage'[w] = "answered"
               PROVE  put'[<<w, RootOf(mapOf'[w])>>] = "done"
    BY DEF AnswersArePut
  <2>0. DiskInv /\ w \in Callers
    BY DEF CacheInv, Callers
  <2>1. CASE stage[w] = "answered"
    <3>1. put[<<w, RootOf(mapOf[w])>>] = "done" /\ mapOf'[w] = mapOf[w]
      BY <2>0, <2>1, StagesGoOn DEF CacheInv, AnswersArePut
    <3>2. RootOf(mapOf[w]) \in Blocks
      BY <2>0, <2>1, BlocksOfMaps DEF DiskInv, DiskTypeOK
    <3> QED
      BY <2>0, <3>1, <3>2, PutStays DEF Advances
  <2>2. CASE stage[w] # "answered"
    <3>1. AnswerImport(w)
      BY <2>0, <2>2, CallersAssumption
         DEF Next, Work, vars, ImportStep, Import, CommitData, CommitRoot, AnswerImport, FailImport,
             LoadStep, Load, LoadPalettes, LoadData, AnswerLoad, FailLoad, Crash, DiskInv, DiskTypeOK
    <3>2. stage[w] = "root" /\ BatchPut(w) /\ put' = put /\ mapOf' = mapOf
      BY <3>1 DEF AnswerImport
    <3>3. Batch(w) = <<RootOf(mapOf[w])>>
      BY <3>2 DEF Batch
    <3>4. RootOf(mapOf[w]) \in ToSet(Batch(w))
      BY <3>3 DEF ToSet
    <3> QED
      BY <3>2, <3>4 DEF BatchPut
  <2> QED
    BY <2>1, <2>2
<1>5. LoadsOfAnswered'
  <2> SUFFICES ASSUME NEW r \in Readers, stage'[r] # "new" PROVE Answered(mapOf[r])'
    BY DEF LoadsOfAnswered
  <2>0. DiskInv /\ r \in Callers /\ Writers \subseteq Callers
    BY DEF CacheInv, Callers
  <2>1. ASSUME NEW m, Answered(m) PROVE Answered(m)'
    <3>1. PICK w \in Writers : stage[w] = "answered" /\ mapOf[w] = m
      BY <2>1 DEF Answered
    <3> QED
      BY <2>0, <3>1, StagesGoOn DEF Answered
  <2>2. CASE stage[r] # "new"
    BY <2>0, <2>1, <2>2, StagesGoOn DEF CacheInv, LoadsOfAnswered
  <2>3. CASE stage[r] = "new"
    <3>1. PICK m \in Maps : Load(r, m)
      BY <2>0, <2>3, CallersAssumption
         DEF Next, Work, vars, ImportStep, Import, CommitData, CommitRoot, AnswerImport, FailImport,
             LoadStep, Load, LoadPalettes, LoadData, AnswerLoad, FailLoad, Crash, DiskInv, DiskTypeOK, Awaits
    <3>2. Answered(m) /\ mapOf'[r] = m
      BY <2>0, <3>1 DEF Load, DiskInv, DiskTypeOK
    <3> QED
      BY <2>1, <3>2
  <2> QED
    BY <2>2, <2>3
<1> QED
  BY <1>1, <1>2, <1>3, <1>4, <1>5

-----------------------------------------------------------------------------
(* What every step does to the cache.                                      *)

\* A step that leaves a block's file and puts, and keeps the entry or drops it.
LEMMA ElsewhereFits ==
  ASSUME DiskInv, [Next]_vars, NEW b \in Blocks, ValueFits(cache, b),
         file'[b] = file[b],
         Overwritten(b) => Overwritten(b)',
         \/ cache'.val[b] = "no"
         \/ cache'.val[b] = cache.val[b] /\ cache'.seen[b] = cache.seen[b]
  PROVE  ValueFits(cache, b)'
<1>1. GoesOn(b)
  BY PutsGoOn
<1> QED
  BY <1>1 DEF ValueFits, GoesOn

\* An answer that was given stays right, and a new one goes to a get that waits.
LEMMA AnswersFit ==
  ASSUME CacheInv, [Next]_vars,
         \A r \in Readers, b \in Blocks :
           \/ cache'.want[<<r, b>>] = cache.want[<<r, b>>]
           \/ /\ cache.want[<<r, b>>] = "waiting"
              /\ Done(b) => AnswerFits(cache.want[<<r, b>>], b)'
  PROVE  \A r \in Readers, b \in Blocks : AnswerFits(cache.want[<<r, b>>], b)'
<1> SUFFICES ASSUME NEW r \in Readers, NEW b \in Blocks
             PROVE  AnswerFits(cache.want[<<r, b>>], b)'
  OBVIOUS
<1>1. GoesOn(b)
  BY PutsGoOn DEF CacheInv
<1>2. AnswerFits(cache.want[<<r, b>>], b)
  BY DEF CacheInv, CacheFits
<1> QED
  BY <1>1, <1>2 DEF AnswerFits, GoesOn

LEMMA CacheUntouched ==
  ASSUME CacheInv, [Next]_vars, cache' = cache,
         \A b \in Blocks : file'[b] = file[b] /\ (Overwritten(b) => Overwritten(b)')
  PROVE  CacheFits(cache)'
<1>1. WellFormed(cache)'
  BY DEF CacheInv, CacheFits, WellFormed
<1>2. \A b \in Blocks : ValueFits(cache, b)'
  BY ElsewhereFits DEF CacheInv, CacheFits
<1>3. \A r \in Readers, b \in Blocks : AnswerFits(cache.want[<<r, b>>], b)'
  BY AnswersFit
<1> QED
  BY <1>1, <1>2, <1>3 DEF CacheFits

\* The two puts that it takes to replace what a get waits for.
LEMMA TwoPuts ==
  ASSUME NEW b, Done(b), Overwritten(b)
  PROVE  PutAgain(b)
<1>1. PICK v \in Writers : put[<<v, b>>] = "done"
  BY DEF Done
<1>2. PICK w \in Writers : put[<<w, b>>] \in InFile
  BY DEF Overwritten
<1> QED
  BY <1>1, <1>2 DEF PutAgain, InFile, Unbegun

LEMMA OpenForWriteFits ==
  ASSUME CacheInv, [Next]_vars, NEW w \in Writers, NEW b \in Blocks, OpenForWrite(w, b)
  PROVE  CacheFits(cache)'
<1>0. DiskInv /\ WellFormed(cache) /\ cache \in CacheRecord
  BY DEF CacheInv, CacheFits, WellFormed
<1>1. /\ cache' = [cache EXCEPT !.seen[b] = IF @ = "whole" THEN "torn" ELSE @]
      /\ put \in [Writers \X Blocks -> PutPhases]
      /\ \A d \in Blocks \ {b} :
           file'[d] = file[d] /\ \A v \in Writers : put'[<<v, d>>] = put[<<v, d>>]
  BY <1>0, PutStepPuts DEF OpenForWrite, PutStep, DiskInv, DiskTypeOK
<1>2. /\ cache' \in CacheRecord
      /\ cache'.order = cache.order /\ cache'.val = cache.val /\ cache'.want = cache.want
      /\ cache'.seen = [cache.seen EXCEPT ![b] = IF @ = "whole" THEN "torn" ELSE @]
  BY <1>0, <1>1 DEF CacheRecord
<1>3. WellFormed(cache)'
  BY <1>0, <1>2 DEF WellFormed
<1>4. ASSUME NEW d \in Blocks PROVE ValueFits(cache, d)'
  <2>1. CASE d = b
    <3>1. Overwritten(b)'
      BY <1>1 DEF OpenForWrite, Overwritten, InFile
    <3>2. cache'.seen[b] # "whole" /\ (cache'.seen[b] = "kept" => cache.seen[b] = "kept")
      BY <1>0, <1>2 DEF CacheRecord
    <3>3. ValueFits(cache, b) /\ GoesOn(b)
      BY <1>0, PutsGoOn DEF CacheInv, CacheFits
    <3> QED
      BY <1>2, <2>1, <3>1, <3>2, <3>3 DEF ValueFits, GoesOn
  <2>2. CASE d # b
    <3>1. cache'.seen[d] = cache.seen[d]
      BY <1>0, <1>2, <2>2 DEF CacheRecord
    <3>2. Overwritten(d) => Overwritten(d)'
      BY <1>1, <2>2 DEF Overwritten
    <3>3. ValueFits(cache, d)
      BY DEF CacheInv, CacheFits
    <3> QED
      BY <1>0, <1>1, <1>2, <2>2, <3>1, <3>2, <3>3, ElsewhereFits
  <2> QED
    BY <2>1, <2>2
<1>5. \A r \in Readers, d \in Blocks : AnswerFits(cache.want[<<r, d>>], d)'
  BY <1>2, AnswersFit
<1> QED
  BY <1>3, <1>4, <1>5 DEF CacheFits

\* The cache takes the value of a put that has ended well: the last writer of the
\* file, who has left it whole, is in it still, or has broken off.
LEMMA FinishWriteFits ==
  ASSUME CacheInv, [Next]_vars, NEW w \in Writers, NEW b \in Blocks, FinishWrite(w, b)
  PROVE  CacheFits(cache)'
<1>0. DiskInv /\ DiskInv' /\ WellFormed(cache)
  BY DiskStep DEF CacheInv, CacheFits
<1>1. /\ put[<<w, b>>] \in InFile /\ put' = [put EXCEPT ![<<w, b>>] = "done"]
      /\ put \in [Writers \X Blocks -> PutPhases]
      /\ \A d \in Blocks \ {b} :
           file'[d] = file[d] /\ \A v \in Writers : put'[<<v, d>>] = put[<<v, d>>]
  BY <1>0, PutStepPuts DEF FinishWrite, PutStep, Become, DiskInv, DiskTypeOK
<1> DEFINE e == Answering(cache, b, "replaced")
<1>2. /\ WellFormed(e) /\ e.val = cache.val /\ e.seen = cache.seen
      /\ \A r \in Readers, d \in Blocks :
           e.want[<<r, d>>] = IF d = b /\ cache.want[<<r, d>>] = "waiting" THEN "replaced"
                              ELSE cache.want[<<r, d>>]
  <2>1. "replaced" \in Answers
    BY DEF Answers
  <2>2. QED
    BY <1>0, <2>1, AnsweringGives
<1>3. cache' = Entered(e, b, "whole")
  BY DEF FinishWrite, Replaced, Answering
<1> HIDE DEF e
<1>4. LET f == Entered(e, b, "whole")
      IN  /\ WellFormed(f)
          /\ f.val[b] = "whole" /\ f.seen[b] = "unopened"
          /\ \A d \in Blocks \ {b} :
               f.val[d] = "no" \/ (f.val[d] = e.val[d] /\ f.seen[d] = e.seen[d])
          /\ \A r \in Readers, d \in Blocks :
               \/ f.want[<<r, d>>] = e.want[<<r, d>>]
               \/ d # b /\ e.want[<<r, d>>] = "waiting" /\ f.want[<<r, d>>] = "evicted"
  BY <1>2, EnteredGives DEF Values
<1>5. WellFormed(cache)'
  BY <1>3, <1>4 DEF WellFormed
<1>6. Done(b)'
  BY <1>1 DEF Done
<1>7. ASSUME NEW d \in Blocks PROVE ValueFits(cache, d)'
  <2>1. CASE d = b
    <3>1. Touched(b)'
      BY <1>1 DEF Touched, Unbegun
    <3>2. (file[b] = "whole" \/ BeingPut(b) \/ Broken(b))'
      BY <1>0, <3>1 DEF DiskInv, LastWriterWins
    <3>3. BeingPut(b)' => Overwritten(b)'
      BY DEF BeingPut, Overwritten, InFile
    <3> QED
      BY <1>3, <1>4, <1>6, <2>1, <3>2, <3>3 DEF ValueFits
  <2>2. CASE d # b
    <3>1. cache'.val[d] = "no" \/ (cache'.val[d] = cache.val[d] /\ cache'.seen[d] = cache.seen[d])
      BY <1>2, <1>3, <1>4, <2>2
    <3>2. Overwritten(d) => Overwritten(d)'
      BY <1>1, <2>2 DEF Overwritten
    <3>3. ValueFits(cache, d)
      BY DEF CacheInv, CacheFits
    <3> QED
      BY <1>0, <1>1, <2>2, <3>1, <3>2, <3>3, ElsewhereFits
  <2> QED
    BY <2>1, <2>2
<1>8. \A r \in Readers, d \in Blocks : AnswerFits(cache.want[<<r, d>>], d)'
  <2> SUFFICES ASSUME NEW r \in Readers, NEW d \in Blocks, cache'.want[<<r, d>>] # cache.want[<<r, d>>]
               PROVE  /\ cache.want[<<r, d>>] = "waiting"
                      /\ Done(d) => AnswerFits(cache.want[<<r, d>>], d)'
    BY AnswersFit
  <2>1. /\ cache.want[<<r, d>>] = "waiting"
        /\ \/ cache'.want[<<r, d>>] = "evicted"
           \/ d = b /\ cache'.want[<<r, d>>] = "replaced"
    BY <1>2, <1>3, <1>4
  <2>2. GoesOn(d)
    BY <1>0, PutsGoOn
  <2>3. d = b /\ Done(d) => PutAgain(d)
    BY <1>1, TwoPuts DEF Overwritten
  <2> QED
    BY <2>1, <2>2, <2>3 DEF AnswerFits, GoesOn
<1> QED
  BY <1>5, <1>7, <1>8 DEF CacheFits

\* An entry is taken out, for a reason that its gets may be given.
LEMMA RemovedFits ==
  ASSUME CacheInv, [Next]_vars, NEW b \in Blocks, NEW reason \in Answers,
         cache' = Removed(cache, b, reason),
         Done(b) => AnswerFits(reason, b)',
         \A d \in Blocks \ {b} : file'[d] = file[d] /\ (Overwritten(d) => Overwritten(d)')
  PROVE  CacheFits(cache)'
<1>0. DiskInv /\ WellFormed(cache)
  BY DEF CacheInv, CacheFits
<1>1. LET e == Removed(cache, b, reason)
      IN  /\ WellFormed(e)
          /\ e.val[b] = "no" /\ e.seen[b] = "unopened"
          /\ \A d \in Blocks \ {b} : e.val[d] = cache.val[d] /\ e.seen[d] = cache.seen[d]
          /\ \A r \in Readers, d \in Blocks :
               e.want[<<r, d>>] = IF d = b /\ cache.want[<<r, d>>] = "waiting" THEN reason
                                  ELSE cache.want[<<r, d>>]
  BY <1>0, RemovedGives
<1>2. WellFormed(cache)'
  BY <1>1 DEF WellFormed
<1>3. ASSUME NEW d \in Blocks PROVE ValueFits(cache, d)'
  <2>1. CASE d = b
    BY <1>1, <2>1 DEF ValueFits
  <2>2. CASE d # b
    BY <1>0, <1>1, <2>2, ElsewhereFits DEF CacheInv, CacheFits
  <2> QED
    BY <2>1, <2>2
<1>4. \A r \in Readers, d \in Blocks : AnswerFits(cache.want[<<r, d>>], d)'
  <2> SUFFICES ASSUME NEW r \in Readers, NEW d \in Blocks, cache'.want[<<r, d>>] # cache.want[<<r, d>>]
               PROVE  /\ cache.want[<<r, d>>] = "waiting"
                      /\ Done(d) => AnswerFits(cache.want[<<r, d>>], d)'
    BY AnswersFit
  <2>1. d = b /\ cache.want[<<r, d>>] = "waiting" /\ cache'.want[<<r, d>>] = reason
    BY <1>1
  <2> QED
    BY <2>1 DEF AnswerFits
<1> QED
  BY <1>2, <1>3, <1>4 DEF CacheFits

LEMMA WriteFailsFits ==
  ASSUME CacheInv, [Next]_vars, NEW w \in Writers, NEW b \in Blocks, WriteFails(w, b)
  PROVE  CacheFits(cache)'
<1>1. /\ cache' = Removed(cache, b, "deleted") /\ "deleted" \in Answers
      /\ \A d \in Blocks \ {b} :
           file'[d] = file[d] /\ \A v \in Writers : put'[<<v, d>>] = put[<<v, d>>]
  BY PutStepPuts DEF WriteFails, PutStep, CacheInv, Answers
<1>2. put' = [put EXCEPT ![<<w, b>>] = "unlinking"] /\ put \in [Writers \X Blocks -> PutPhases]
  BY DEF WriteFails, Become, CacheInv, DiskInv, DiskTypeOK
<1>3. Broken(b)' /\ GoesOn(b)
  BY <1>2, PutsGoOn DEF Broken, CacheInv
<1>4. Done(b) => AnswerFits("deleted", b)'
  BY <1>3 DEF AnswerFits, GoesOn
<1>5. \A d \in Blocks \ {b} : Overwritten(d) => Overwritten(d)'
  BY <1>1 DEF Overwritten
<1> QED
  BY <1>1, <1>4, <1>5, RemovedFits

LEMMA UnlinkFits ==
  ASSUME CacheInv, [Next]_vars, NEW w \in Writers, NEW b \in Blocks, Unlink(w, b)
  PROVE  CacheFits(cache)'
<1>0. DiskInv /\ WellFormed(cache) /\ cache \in CacheRecord
  BY DEF CacheInv, CacheFits, WellFormed
<1>1. /\ put \in [Writers \X Blocks -> PutPhases]
      /\ \A d \in Blocks \ {b} :
           file'[d] = file[d] /\ \A v \in Writers : put'[<<v, d>>] = put[<<v, d>>]
  BY <1>0, PutStepPuts DEF PutStep, DiskInv, DiskTypeOK
<1>2. Broken(b)' /\ GoesOn(b)
  BY <1>0, <1>1, PutsGoOn DEF Unlink, Become, Broken
<1>3. /\ cache' \in CacheRecord
      /\ cache'.order = cache.order /\ cache'.val = cache.val /\ cache'.want = cache.want
      /\ \A d \in Blocks \ {b} : cache'.seen[d] = cache.seen[d]
  <2>1. CASE cache' = cache
    BY <1>0, <2>1
  <2>2. CASE cache' = [cache EXCEPT !.seen[b] = IF @ = "whole" THEN "kept" ELSE @]
    BY <1>0, <2>2 DEF CacheRecord
  <2> QED
    BY <2>1, <2>2 DEF Unlink
<1>4. WellFormed(cache)'
  BY <1>0, <1>3 DEF WellFormed
<1>5. ASSUME NEW d \in Blocks PROVE ValueFits(cache, d)'
  <2>1. CASE d = b
    BY <1>2, <1>3, <2>1 DEF ValueFits, GoesOn, CacheInv, CacheFits
  <2>2. CASE d # b
    <3>1. Overwritten(d) => Overwritten(d)'
      BY <1>1, <2>2 DEF Overwritten
    <3> QED
      BY <1>0, <1>1, <1>3, <2>2, <3>1, ElsewhereFits DEF CacheInv, CacheFits
  <2> QED
    BY <2>1, <2>2
<1>6. \A r \in Readers, d \in Blocks : AnswerFits(cache.want[<<r, d>>], d)'
  BY <1>3, AnswersFit
<1> QED
  BY <1>4, <1>5, <1>6 DEF CacheFits

LEMMA MakeDirectoryFits ==
  ASSUME CacheInv, [Next]_vars, NEW w \in Writers, NEW b \in Blocks, MakeDirectory(w, b)
  PROVE  CacheFits(cache)'
<1>1. cache' = cache /\ file' = file
  BY DEF MakeDirectory
<1>2. \A d \in Blocks : Overwritten(d) => Overwritten(d)'
  BY DEF MakeDirectory, Become, At, Overwritten, InFile, CacheInv, DiskInv, DiskTypeOK
<1> QED
  BY <1>1, <1>2, CacheUntouched

-----------------------------------------------------------------------------
(* Reads, which leave the files and the puts.                              *)

LEMMA OpenForReadFits ==
  ASSUME CacheInv, [Next]_vars, NEW b \in Blocks, OpenForRead(b)
  PROVE  CacheFits(cache)'
<1>0. DiskInv /\ WellFormed(cache) /\ cache \in CacheRecord /\ ValueFits(cache, b)
  BY DEF CacheInv, CacheFits, WellFormed
<1>1. UNCHANGED <<file, put>> /\ cache.val[b] = "fetching"
  BY DEF OpenForRead, Fetching
<1>2. \A d \in Blocks : file'[d] = file[d] /\ (Overwritten(d) => Overwritten(d)')
  BY <1>1 DEF Overwritten
<1>3. Touched(b)
  BY <1>0, <1>1 DEF ValueFits, Done, Touched, Unbegun
<1>4. file[b] = "whole" \/ BeingPut(b) \/ Broken(b)
  BY <1>0, <1>3 DEF DiskInv, LastWriterWins
<1>5. CASE file[b] = "none"
  <2>1. cache' = Removed(cache, b, "missing") /\ "missing" \in Answers
    BY <1>5 DEF OpenForRead, Answers
  <2>2. Broken(b)
    BY <1>4, <1>5 DEF CacheInv, WrittenFilesExist
  <2>3. Done(b) => AnswerFits("missing", b)'
    BY <1>1, <2>2 DEF AnswerFits, Done, Broken
  <2> QED
    BY <1>2, <2>1, <2>3, RemovedFits
<1>6. CASE file[b] # "none"
  <2>1. /\ cache' = [cache EXCEPT !.seen[b] = file[b]]
        /\ file[b] \in {"torn", "whole"}
    BY <1>0, <1>6 DEF OpenForRead, DiskInv, DiskTypeOK, Contents
  <2>2. /\ cache' \in CacheRecord
        /\ cache'.order = cache.order /\ cache'.val = cache.val /\ cache'.want = cache.want
        /\ cache'.seen[b] = file[b]
        /\ \A d \in Blocks \ {b} : cache'.seen[d] = cache.seen[d]
    BY <1>0, <2>1 DEF CacheRecord
  <2>3. WellFormed(cache)'
    BY <1>0, <2>2 DEF WellFormed
  <2>4. ASSUME NEW d \in Blocks PROVE ValueFits(cache, d)'
    <3>1. CASE d = b
      <4>1. BeingPut(b) => Overwritten(b)
        BY DEF BeingPut, Overwritten, InFile
      <4>2. (Broken(b) <=> Broken(b)') /\ (Done(b) <=> Done(b)') /\ (Overwritten(b) <=> Overwritten(b)')
        BY <1>1 DEF Broken, Done, Overwritten
      <4>3. Done(b)'
        BY <1>0, <1>1, <4>2 DEF ValueFits
      <4>4. Broken(b)' \/ (file[b] = "torn" => Overwritten(b)')
        BY <1>4, <4>1, <4>2
      <4> QED
        BY <1>1, <2>1, <2>2, <3>1, <4>3, <4>4 DEF ValueFits
    <3>2. CASE d # b
      BY <1>0, <1>2, <2>2, <3>2, ElsewhereFits DEF CacheInv, CacheFits
    <3> QED
      BY <3>1, <3>2
  <2>5. \A r \in Readers, d \in Blocks : AnswerFits(cache.want[<<r, d>>], d)'
    BY <2>2, AnswersFit
  <2> QED
    BY <2>3, <2>4, <2>5 DEF CacheFits
<1> QED
  BY <1>5, <1>6

\* The value that a read has comes from the file, whole or not.
LEMMA FinishReadFits ==
  ASSUME CacheInv, [Next]_vars, NEW b \in Blocks, FinishRead(b)
  PROVE  CacheFits(cache)'
<1>0. DiskInv /\ WellFormed(cache) /\ cache \in CacheRecord /\ ValueFits(cache, b)
  BY DEF CacheInv, CacheFits, WellFormed
<1>1. UNCHANGED <<file, put>> /\ cache.val[b] = "fetching" /\ cache.seen[b] # "unopened"
  BY DEF FinishRead, Fetching
<1>2. PICK v \in {"torn", "whole"} :
        /\ v = "torn" => cache.seen[b] = "torn"
        /\ v = "whole" => cache.seen[b] # "torn" \/ file[b] = "whole"
        /\ cache' = Arrived(cache, b, v)
  BY DEF FinishRead
<1> DEFINE e == Answering(cache, b, v)
<1>3. /\ WellFormed(e) /\ e.val = cache.val /\ e.seen = cache.seen
      /\ \A r \in Readers, d \in Blocks :
           e.want[<<r, d>>] = IF d = b /\ cache.want[<<r, d>>] = "waiting" THEN v
                              ELSE cache.want[<<r, d>>]
  <2>1. v \in Answers
    BY DEF Answers
  <2>2. QED
    BY <1>0, <2>1, AnsweringGives
<1>4. cache' = Entered(e, b, v)
  BY <1>2 DEF Arrived, Answering
<1> HIDE DEF e
<1>5. LET f == Entered(e, b, v)
      IN  /\ WellFormed(f)
          /\ f.val[b] = v /\ f.seen[b] = "unopened"
          /\ \A d \in Blocks \ {b} :
               f.val[d] = "no" \/ (f.val[d] = e.val[d] /\ f.seen[d] = e.seen[d])
          /\ \A r \in Readers, d \in Blocks :
               \/ f.want[<<r, d>>] = e.want[<<r, d>>]
               \/ d # b /\ e.want[<<r, d>>] = "waiting" /\ f.want[<<r, d>>] = "evicted"
  BY <1>3, EnteredGives DEF Values
<1>6. WellFormed(cache)'
  BY <1>4, <1>5 DEF WellFormed
<1>7. /\ Done(b) /\ Done(b)'
      /\ Broken(b) <=> Broken(b)'
      /\ Overwritten(b) <=> Overwritten(b)'
      /\ PutAgain(b) <=> PutAgain(b)'
  BY <1>0, <1>1 DEF ValueFits, Done, Broken, Overwritten, PutAgain
<1>8. Broken(b) \/ (v = "torn" /\ Overwritten(b)) \/ (v = "whole" /\ file[b] = "whole")
  <2>1. cache.seen[b] \in {"torn", "whole", "kept"}
    BY <1>0, <1>1 DEF CacheRecord
  <2> QED
    BY <1>0, <1>1, <1>2, <2>1 DEF ValueFits
<1>9. ASSUME NEW d \in Blocks PROVE ValueFits(cache, d)'
  <2>1. CASE d = b
    BY <1>1, <1>4, <1>5, <1>7, <1>8, <2>1 DEF ValueFits
  <2>2. CASE d # b
    <3>1. cache'.val[d] = "no" \/ (cache'.val[d] = cache.val[d] /\ cache'.seen[d] = cache.seen[d])
      BY <1>3, <1>4, <1>5, <2>2
    <3>2. (Overwritten(d) => Overwritten(d)') /\ file'[d] = file[d] /\ ValueFits(cache, d)
      BY <1>1 DEF Overwritten, CacheInv, CacheFits
    <3> QED
      BY <1>0, <3>1, <3>2, ElsewhereFits
  <2> QED
    BY <2>1, <2>2
<1>10. \A r \in Readers, d \in Blocks : AnswerFits(cache.want[<<r, d>>], d)'
  <2> SUFFICES ASSUME NEW r \in Readers, NEW d \in Blocks, cache'.want[<<r, d>>] # cache.want[<<r, d>>]
               PROVE  /\ cache.want[<<r, d>>] = "waiting"
                      /\ Done(d) => AnswerFits(cache.want[<<r, d>>], d)'
    BY AnswersFit
  <2>1. /\ cache.want[<<r, d>>] = "waiting"
        /\ cache'.want[<<r, d>>] = "evicted" \/ (d = b /\ cache'.want[<<r, d>>] = v)
    BY <1>3, <1>4, <1>5
  <2>2. GoesOn(d)
    BY <1>0, PutsGoOn
  <2>3. v = "torn" => Broken(b)' \/ PutAgain(b)'
    BY <1>7, <1>8, TwoPuts
  <2> QED
    BY <2>1, <2>2, <2>3 DEF AnswerFits, GoesOn
<1> QED
  BY <1>6, <1>9, <1>10 DEF CacheFits

LEMMA ReadFailsFits ==
  ASSUME CacheInv, [Next]_vars, NEW b \in Blocks, ReadFails(b)
  PROVE  CacheFits(cache)'
<1>1. /\ cache' = Removed(cache, b, "unread") /\ "unread" \in Answers
      /\ UNCHANGED <<file, put>>
  BY DEF ReadFails, Answers
<1>2. \A d \in Blocks : file'[d] = file[d] /\ (Overwritten(d) => Overwritten(d)')
  BY <1>1 DEF Overwritten
<1>3. Done(b) => AnswerFits("unread", b)'
  BY <1>1 DEF AnswerFits, Done
<1> QED
  BY <1>1, <1>2, <1>3, RemovedFits

LEMMA CrashFits ==
  ASSUME CacheInv, [Next]_vars, Crash
  PROVE  CacheFits(cache)'
<1>0. cache \in CacheRecord
  BY DEF CacheInv, CacheFits, WellFormed
<1> DEFINE wants == [rb \in Readers \X Blocks |->
                       IF cache.want[rb] = "waiting" THEN "lost" ELSE cache.want[rb]]
<1>1. cache' = [EmptyCache EXCEPT !.want = wants]
  BY DEF Crash, StoreCrash
<1>2. wants \in [Readers \X Blocks -> {"no", "waiting"} \cup Answers]
  BY <1>0 DEF CacheRecord, Answers
<1> HIDE DEF wants
<1>3. /\ cache'.order = << >> /\ cache'.val = [b \in Blocks |-> "no"]
      /\ cache'.want = wants /\ cache' \in CacheRecord
  <2>1. cache' = [order |-> << >>, val |-> [b \in Blocks |-> "no"],
                  seen |-> [b \in Blocks |-> "unopened"], want |-> wants]
    BY <1>1 DEF EmptyCache
  <2>2. << >> \in Seq(Blocks) /\ [b \in Blocks |-> "no"] \in [Blocks -> Values]
    BY DEF Values
  <2> QED
    BY <1>2, <2>1, <2>2 DEF CacheRecord
<1>4. WellFormed(cache)'
  BY <1>3, CacheSizeAssumption DEF WellFormed, IsInjective, ToSet
<1>5. \A b \in Blocks : ValueFits(cache, b)'
  BY <1>3 DEF ValueFits
<1>6. \A r \in Readers, b \in Blocks : AnswerFits(cache.want[<<r, b>>], b)'
  <2> SUFFICES ASSUME NEW r \in Readers, NEW b \in Blocks, cache'.want[<<r, b>>] # cache.want[<<r, b>>]
               PROVE  /\ cache.want[<<r, b>>] = "waiting"
                      /\ Done(b) => AnswerFits(cache.want[<<r, b>>], b)'
    BY AnswersFit
  <2>1. cache.want[<<r, b>>] = "waiting" /\ cache'.want[<<r, b>>] = "lost"
    BY <1>3 DEF wants
  <2>2. GoesOn(b)
    BY PutsGoOn DEF CacheInv
  <2> QED
    BY <2>1, <2>2 DEF AnswerFits, GoesOn
<1> QED
  BY <1>4, <1>5, <1>6 DEF CacheFits

-----------------------------------------------------------------------------
(* The gets of a load.                                                     *)

\* A get of b is answered, or waits.
Wanted(c, r, b, answer) == [c EXCEPT !.want[<<r, b>>] = answer]

LEMMA WantedGives ==
  ASSUME NEW c, WellFormed(c), NEW r \in Readers, NEW b \in Blocks,
         NEW answer \in {"no", "waiting"} \cup Answers
  PROVE  LET e == Wanted(c, r, b, answer)
         IN  /\ WellFormed(e)
             /\ e.val = c.val /\ e.seen = c.seen
             /\ \A q \in Readers, d \in Blocks :
                  e.want[<<q, d>>] = IF q = r /\ d = b THEN answer ELSE c.want[<<q, d>>]
<1> DEFINE e == Wanted(c, r, b, answer)
<1>1. c \in CacheRecord /\ c.want \in [Readers \X Blocks -> {"no", "waiting"} \cup Answers]
  BY DEF WellFormed, CacheRecord
<1>2. /\ e.want = [c.want EXCEPT ![<<r, b>>] = answer]
      /\ e.order = c.order /\ e.val = c.val /\ e.seen = c.seen
  BY <1>1 DEF CacheRecord, Wanted
<1>3. e \in CacheRecord
  BY <1>1 DEF CacheRecord, Wanted
<1>4. \A q \in Readers, d \in Blocks :
        e.want[<<q, d>>] = IF q = r /\ d = b THEN answer ELSE c.want[<<q, d>>]
  BY <1>1, <1>2
<1> HIDE DEF e
<1>5. WellFormed(e)
  BY <1>2, <1>3 DEF WellFormed
<1> QED
  BY <1>2, <1>4, <1>5 DEF e

\* Entering a value that fits the block leaves a cache that fits.
LEMMA EnteredFits ==
  ASSUME NEW c, CacheFits(c), NEW b \in Blocks, NEW v \in Values \ {"no"}, Done(b),
         v = "fetching" \/ v = c.val[b]
  PROVE  CacheFits(Entered(c, b, v))
<1> DEFINE e == Entered(c, b, v)
<1>1. /\ WellFormed(e)
      /\ e.val[b] = v /\ e.seen[b] = "unopened"
      /\ \A d \in Blocks \ {b} :
           e.val[d] = "no" \/ (e.val[d] = c.val[d] /\ e.seen[d] = c.seen[d])
      /\ \A r \in Readers, d \in Blocks :
           \/ e.want[<<r, d>>] = c.want[<<r, d>>]
           \/ d # b /\ c.want[<<r, d>>] = "waiting" /\ e.want[<<r, d>>] = "evicted"
  BY EnteredGives DEF CacheFits
<1> HIDE DEF e
<1>2. \A d \in Blocks : ValueFits(e, d)
  BY <1>1 DEF CacheFits, ValueFits
<1>3. \A r \in Readers, d \in Blocks : AnswerFits(e.want[<<r, d>>], d)
  BY <1>1 DEF CacheFits, AnswerFits
<1> QED
  BY <1>1, <1>2, <1>3 DEF CacheFits, e

\* A get of a block that has been put: a part of it is in the cache only while
\* another put is in its file, or after one has broken off.
LEMMA FetchedFits ==
  ASSUME NEW c, CacheFits(c), NEW r \in Readers, NEW b \in Blocks, Done(b)
  PROVE  CacheFits(Fetched(c, r, b))
<1>1. ASSUME NEW e, CacheFits(e), NEW answer \in {"no", "waiting"} \cup Answers, AnswerFits(answer, b)
      PROVE  CacheFits(Wanted(e, r, b, answer))
  <2> DEFINE f == Wanted(e, r, b, answer)
  <2>1. /\ WellFormed(f) /\ f.val = e.val /\ f.seen = e.seen
        /\ \A q \in Readers, d \in Blocks :
             f.want[<<q, d>>] = IF q = r /\ d = b THEN answer ELSE e.want[<<q, d>>]
    BY <1>1, WantedGives DEF CacheFits
  <2> HIDE DEF f
  <2> QED
    BY <1>1, <2>1 DEF CacheFits, ValueFits, f
<1>2. CASE Cached(c, b)
  <2>1. c.val[b] \in {"torn", "whole"} /\ c.val[b] \in Values \ {"no"} /\ c.val[b] \in Answers
    BY <1>2 DEF Cached, Values, Answers
  <2>2. CacheFits(Entered(c, b, c.val[b]))
    BY <2>1, EnteredFits
  <2>3. AnswerFits(c.val[b], b)
    BY <2>1, TwoPuts DEF CacheFits, ValueFits, AnswerFits
  <2>4. CacheFits(Wanted(Entered(c, b, c.val[b]), r, b, c.val[b]))
    BY <1>1, <2>1, <2>2, <2>3
  <2> QED
    BY <1>2, <2>4 DEF Fetched, Wanted
<1>3. CASE ~Cached(c, b)
  <2> DEFINE e == IF Fetching(c, b) THEN c ELSE Entered(c, b, "fetching")
  <2>1. CacheFits(e)
    BY EnteredFits DEF Values
  <2>2. AnswerFits("waiting", b)
    BY DEF AnswerFits
  <2>3. CacheFits(Wanted(e, r, b, "waiting"))
    BY <1>1, <2>1, <2>2
  <2> QED
    BY <1>3, <2>3 DEF Fetched, Wanted
<1> QED
  BY <1>2, <1>3

LEMMA GettingFits ==
  ASSUME CacheInv, NEW r \in Readers, NEW m \in Maps, Answered(m),
         NEW batch \in Seq(Blocks), ToSet(batch) \subseteq BlocksOf(m),
         Getting(r, batch), UNCHANGED <<file, put>>
  PROVE  CacheFits(cache)'
<1> DEFINE Kept == {c \in CacheRecord : CacheFits(c)}
<1>1. cache \in Kept
  BY DEF CacheInv, CacheFits, WellFormed
<1>2. ASSUME NEW d \in Kept, NEW i \in DOMAIN batch PROVE Fetched(d, r, batch[i]) \in Kept
  <2>1. batch[i] \in BlocksOf(m)
    BY DEF ToSet
  <2>2. batch[i] \in Blocks /\ Done(batch[i])
    BY <2>1, AnsweredBlocks
  <2>3. CacheFits(Fetched(d, r, batch[i]))
    BY <2>2, FetchedFits
  <2> QED
    BY <2>3 DEF CacheFits, WellFormed
<1> HIDE DEF Kept
<1>3. cache' = Gets(r, cache, batch)
  BY DEF Getting, Gets
<1>4. cache' \in Kept
  BY <1>1, <1>2, <1>3, BatchKeeps
<1>5. CacheFits(cache')
  BY <1>4 DEF Kept
<1>6. \A b \in Blocks : ValueFits(cache, b)'
  BY <1>5 DEF CacheFits, ValueFits, Done, Overwritten, Broken
<1>7. \A q \in Readers, b \in Blocks : AnswerFits(cache.want[<<q, b>>], b)'
  <2>1. \A b : (Done(b) => Done(b)') /\ (Broken(b) => Broken(b)')
    BY DEF Done, Broken
  <2>2. \A b : PutAgain(b) => PutAgain(b)'
    BY DEF PutAgain
  <2>3. \A q \in Readers, b \in Blocks : AnswerFits(cache'.want[<<q, b>>], b)
    BY <1>5 DEF CacheFits
  <2> QED
    BY <2>1, <2>2, <2>3 DEF AnswerFits
<1>8. WellFormed(cache)'
  BY <1>5 DEF CacheFits, WellFormed
<1> QED
  BY <1>6, <1>7, <1>8 DEF CacheFits

LEMMA LoadStepFits ==
  ASSUME CacheInv, [Next]_vars, NEW r \in Readers, LoadStep(r)
  PROVE  CacheFits(cache)'
<1>0. r \in Callers /\ (stage[r] # "new" => mapOf[r] \in Maps /\ Answered(mapOf[r]))
  BY DEF Callers, CacheInv, DiskInv, DiskTypeOK, LoadsOfAnswered
<1>1. UNCHANGED <<file, put>>
  BY LoadStepPuts
<1>2. ASSUME NEW m \in Maps
      PROVE  /\ PalettesOf(m) \in Seq(Blocks) /\ ToSet(PalettesOf(m)) \subseteq BlocksOf(m)
             /\ DataOf(m) \in Seq(Blocks) /\ ToSet(DataOf(m)) \subseteq BlocksOf(m)
             /\ <<RootOf(m)>> \in Seq(Blocks) /\ ToSet(<<RootOf(m)>>) \subseteq BlocksOf(m)
  BY MapsAssumption DEF BlocksOf, Linked, Palettes, Data, ToSet
<1>3. ASSUME NEW m \in Maps, Load(r, m) PROVE CacheFits(cache)'
  BY <1>1, <1>2, <1>3, GettingFits DEF Load
<1>4. CASE LoadPalettes(r)
  BY <1>0, <1>1, <1>2, <1>4, GettingFits DEF LoadPalettes
<1>5. CASE LoadData(r)
  BY <1>0, <1>1, <1>2, <1>5, GettingFits DEF LoadData
<1>6. CASE AnswerLoad(r) \/ FailLoad(r)
  <2>1. cache' = cache /\ \A b \in Blocks : file'[b] = file[b] /\ (Overwritten(b) => Overwritten(b)')
    BY <1>6 DEF AnswerLoad, FailLoad, Overwritten
  <2> QED
    BY <2>1, CacheUntouched
<1> QED
  BY <1>3, <1>4, <1>5, <1>6 DEF LoadStep

-----------------------------------------------------------------------------

\* Every step keeps the invariant.
LEMMA CacheStep == CacheInv /\ [Next]_vars => CacheInv'
<1> SUFFICES ASSUME CacheInv, [Next]_vars PROVE CacheInv'
  OBVIOUS
<1>1. ASSUME NEW w \in Writers, ImportStep(w) PROVE CacheFits(cache)'
  <2>1. /\ UNCHANGED <<file, cache>>
        /\ \A v \in Writers, b \in Blocks :
             put'[<<v, b>>] = put[<<v, b>>] \/ (put[<<v, b>>] = "no" /\ put'[<<v, b>>] = "mkdir")
    BY <1>1, ImportStepPuts DEF CacheInv
  <2>2. \A b \in Blocks : Overwritten(b) => Overwritten(b)'
    BY <2>1 DEF Overwritten, InFile
  <2> QED
    BY <2>1, <2>2, CacheUntouched
<1>2. ASSUME NEW w \in Writers, NEW b \in Blocks, PutStep(w, b) PROVE CacheFits(cache)'
  BY <1>2, MakeDirectoryFits, OpenForWriteFits, FinishWriteFits, WriteFailsFits, UnlinkFits DEF PutStep
<1>3. ASSUME NEW b \in Blocks, ReadStep(b) PROVE CacheFits(cache)'
  BY <1>3, OpenForReadFits, FinishReadFits, ReadFailsFits DEF ReadStep
<1>4. ASSUME UNCHANGED vars PROVE CacheFits(cache)'
  <2>1. cache' = cache /\ \A b \in Blocks : file'[b] = file[b] /\ (Overwritten(b) => Overwritten(b)')
    BY <1>4 DEF vars, Overwritten
  <2> QED
    BY <2>1, CacheUntouched
<1>5. CacheFits(cache)'
  BY <1>1, <1>2, <1>3, <1>4, LoadStepFits, CrashFits DEF Next, Work
<1> QED
  BY <1>5, CallsInv DEF CacheInv

\* Type correctness of the whole store: besides the files and the calls, the order
\* of the LRU cache lists each entry once and never more than fit.
THEOREM TypeCorrect == Spec => []TypeOK
  BY CacheInit, CacheStep, CacheInvIsEnough, PTL DEF Spec

\* With no put of a block in its file and none broken off, what the cache holds of
\* it is the whole block, and so is the file.
THEOREM CacheIsTruthful == Spec => []CacheTellsTheTruth
  BY CacheInit, CacheStep, CacheInvIsEnough, PTL DEF Spec

\* A get finds a block missing, or its read thrown out by the catch of put, only if
\* a put of it broke off; it meets a part of a block, or a read that was replaced,
\* only if the block was put again or a put of it broke off.
THEOREM GetsFailForCause == Spec => []GetFailsOnlyForCause
  BY CacheInit, CacheStep, CacheInvIsEnough, PTL DEF Spec

-----------------------------------------------------------------------------
(* Who waits, and for what.                                                *)

\* A block is being read just as long as a get waits for it.
ReadAwaited(c, b) == Fetching(c, b) <=> \E r \in Readers : c.want[<<r, b>>] = "waiting"

\* An import that awaits a batch has begun each put of it.
PutsBegun(w) ==
  /\ stage[w] = "palettes" => \A b \in Palettes(mapOf[w]) : put[<<w, b>>] # "no"
  /\ stage[w] = "data" => \A b \in Data(mapOf[w]) : put[<<w, b>>] # "no"
  /\ stage[w] = "root" => put[<<w, RootOf(mapOf[w])>>] # "no"

\* A load that awaits a batch has begun each get of it, and none of a later one.
GetsInOrder(r) ==
  /\ stage[r] = "new" => \A b \in Blocks : cache.want[<<r, b>>] = "no"
  /\ stage[r] = "root" =>
       /\ cache.want[<<r, RootOf(mapOf[r])>>] # "no"
       /\ \A b \in Linked(mapOf[r]) : cache.want[<<r, b>>] = "no"
  /\ stage[r] = "palettes" =>
       /\ \A b \in Palettes(mapOf[r]) : cache.want[<<r, b>>] # "no"
       /\ \A b \in Data(mapOf[r]) : cache.want[<<r, b>>] = "no"
  /\ stage[r] = "data" => \A b \in Data(mapOf[r]) : cache.want[<<r, b>>] # "no"

WaitInv ==
  /\ CacheInv
  /\ \A b \in Blocks : ReadAwaited(cache, b)
  /\ \A w \in Writers : PutsBegun(w)
  /\ \A r \in Readers : GetsInOrder(r)

\* The blocks of the batch that a call awaits.
LEMMA BatchBlocks ==
  ASSUME NEW c
  PROVE  /\ stage[c] = "palettes" => ToSet(Batch(c)) = Palettes(mapOf[c])
         /\ stage[c] = "data" => ToSet(Batch(c)) = Data(mapOf[c])
         /\ stage[c] = "root" => ToSet(Batch(c)) = {RootOf(mapOf[c])}
  BY DEF Batch, Palettes, Data, ToSet

LEMMA WaitInvIsEnough == WaitInv => NobodyWaitsInVain
<1> SUFFICES ASSUME WaitInv PROVE NobodyWaitsInVain
  OBVIOUS
<1>1. ASSUME NEW w \in Writers, stage[w] \in Awaits, NEW b \in ToSet(Batch(w))
      PROVE  put[<<w, b>>] # "no"
  BY <1>1, BatchBlocks DEF WaitInv, PutsBegun, Awaits
<1>2. ASSUME NEW r \in Readers, stage[r] \in Awaits, NEW b \in ToSet(Batch(r))
      PROVE  cache.want[<<r, b>>] # "no"
  <2>1. GetsInOrder(r)
    BY DEF WaitInv
  <2>2. CASE stage[r] = "palettes"
    BY <2>1, <2>2, BatchBlocks DEF GetsInOrder
  <2>3. CASE stage[r] = "data"
    BY <2>1, <2>3, BatchBlocks DEF GetsInOrder
  <2>4. CASE stage[r] = "root"
    BY <2>1, <2>4, BatchBlocks DEF GetsInOrder
  <2> QED
    BY <1>2, <2>2, <2>3, <2>4 DEF Awaits
<1>3. \A b \in Blocks : Fetching(cache, b) <=> \E r \in Readers : cache.want[<<r, b>>] = "waiting"
  BY DEF WaitInv, ReadAwaited
<1> QED
  BY <1>1, <1>2, <1>3 DEF NobodyWaitsInVain

LEMMA WaitInit == Init => WaitInv
<1> SUFFICES ASSUME Init PROVE WaitInv
  OBVIOUS
<1>1. cache = EmptyCache /\ stage = [c \in Callers |-> "new"]
  BY DEF Init, StoreInit
<1>2. \A b \in Blocks : cache.val[b] = "no" /\ \A r \in Readers : cache.want[<<r, b>>] = "no"
  BY <1>1 DEF EmptyCache
<1> QED
  BY <1>1, <1>2, CacheInit DEF WaitInv, ReadAwaited, Fetching, PutsBegun, GetsInOrder, Callers

-----------------------------------------------------------------------------
(* What the steps do to those who wait.                                    *)

\* A get that waits may be answered, and nothing else happens to a get.
Settling(before, after) ==
  \A r \in Readers, b \in Blocks :
    \/ after.want[<<r, b>>] = before.want[<<r, b>>]
    \/ before.want[<<r, b>>] = "waiting" /\ after.want[<<r, b>>] \in Answers

\* Whatever enters, the other blocks are waited for as they were, or were evicted
\* and are no longer.
LEMMA EnteredReads ==
  ASSUME NEW c, WellFormed(c), NEW b \in Blocks, NEW v \in Values \ {"no"},
         \A d \in Blocks \ {b} : ReadAwaited(c, d)
  PROVE  LET e == Entered(c, b, v)
         IN  /\ WellFormed(e) /\ e.val[b] = v
             /\ \A d \in Blocks \ {b} : ReadAwaited(e, d)
             /\ \A r \in Readers : e.want[<<r, b>>] = c.want[<<r, b>>]
             /\ Settling(c, e)
<1> DEFINE e == Entered(c, b, v)
<1>1. /\ WellFormed(e)
      /\ e.val[b] = v
      /\ \A r \in Readers, d \in Blocks :
           \/ e.want[<<r, d>>] = c.want[<<r, d>>]
           \/ d # b /\ c.want[<<r, d>>] = "waiting" /\ e.want[<<r, d>>] = "evicted"
      /\ \A d \in Blocks \ {b} :
           \/ e.val[d] = c.val[d] /\ \A r \in Readers : e.want[<<r, d>>] = c.want[<<r, d>>]
           \/ e.val[d] = "no" /\ \A r \in Readers : e.want[<<r, d>>] # "waiting"
  BY EnteredGives
<1> HIDE DEF e
<1>2. ASSUME NEW d \in Blocks \ {b} PROVE ReadAwaited(e, d)
  <2>1. CASE e.val[d] = c.val[d] /\ \A r \in Readers : e.want[<<r, d>>] = c.want[<<r, d>>]
    BY <2>1 DEF ReadAwaited, Fetching
  <2>2. CASE e.val[d] = "no" /\ \A r \in Readers : e.want[<<r, d>>] # "waiting"
    BY <2>2 DEF ReadAwaited, Fetching
  <2> QED
    BY <1>1, <2>1, <2>2
<1>3. Settling(c, e)
  BY <1>1 DEF Settling, Answers
<1> QED
  BY <1>1, <1>2, <1>3 DEF e

\* A value that takes the place of a read: each get that waits for it is answered.
LEMMA AnsweredReads ==
  ASSUME NEW c, WellFormed(c), \A d \in Blocks : ReadAwaited(c, d),
         NEW b \in Blocks, NEW v \in {"torn", "whole"}, NEW answer \in Answers
  PROVE  LET e == Entered(Answering(c, b, answer), b, v)
         IN  /\ Settling(c, e) /\ \A d \in Blocks : ReadAwaited(e, d)
             /\ \A r \in Readers : e.want[<<r, b>>] # "waiting"
<1> DEFINE f == Answering(c, b, answer)
           e == Entered(f, b, v)
<1>1. /\ WellFormed(f) /\ f.val = c.val
      /\ \A r \in Readers, d \in Blocks :
           f.want[<<r, d>>] = IF d = b /\ c.want[<<r, d>>] = "waiting" THEN answer
                              ELSE c.want[<<r, d>>]
  BY AnsweringGives
<1> HIDE DEF f
<1>2. \A d \in Blocks \ {b} : ReadAwaited(f, d)
  BY <1>1 DEF ReadAwaited, Fetching
<1>3. v \in Values \ {"no"}
  BY DEF Values
<1>4. /\ e.val[b] = v
      /\ \A d \in Blocks \ {b} : ReadAwaited(e, d)
      /\ \A r \in Readers : e.want[<<r, b>>] = f.want[<<r, b>>]
      /\ Settling(f, e)
  BY <1>1, <1>2, <1>3, EnteredReads
<1> HIDE DEF e
<1>5. \A r \in Readers : f.want[<<r, b>>] # "waiting"
  BY <1>1 DEF Answers
<1>6. ReadAwaited(e, b)
  BY <1>4, <1>5 DEF ReadAwaited, Fetching
<1>7. Settling(c, e)
  BY <1>1, <1>4 DEF Settling
<1> QED
  BY <1>4, <1>5, <1>6, <1>7 DEF e, f

\* An entry that is taken out: each get that waits for it rejects.
LEMMA RemovedReads ==
  ASSUME NEW c, WellFormed(c), \A d \in Blocks : ReadAwaited(c, d),
         NEW b \in Blocks, NEW reason \in Answers
  PROVE  LET e == Removed(c, b, reason)
         IN  /\ Settling(c, e) /\ \A d \in Blocks : ReadAwaited(e, d)
             /\ \A r \in Readers : e.want[<<r, b>>] # "waiting"
<1> DEFINE e == Removed(c, b, reason)
<1>1. /\ e.val[b] = "no"
      /\ \A d \in Blocks \ {b} : e.val[d] = c.val[d]
      /\ \A r \in Readers, d \in Blocks :
           e.want[<<r, d>>] = IF d = b /\ c.want[<<r, d>>] = "waiting" THEN reason
                              ELSE c.want[<<r, d>>]
  BY RemovedGives
<1> HIDE DEF e
<1>2. ASSUME NEW d \in Blocks PROVE ReadAwaited(e, d)
  <2>1. CASE d = b
    <3>1. \A r \in Readers : e.want[<<r, d>>] # "waiting"
      BY <1>1, <2>1 DEF Answers
    <3> QED
      BY <1>1, <2>1, <3>1 DEF ReadAwaited, Fetching
  <2>2. CASE d # b
    <3>1. e.val[d] = c.val[d] /\ \A r \in Readers : e.want[<<r, d>>] = c.want[<<r, d>>]
      BY <1>1, <2>2
    <3> QED
      BY <3>1 DEF ReadAwaited, Fetching
  <2> QED
    BY <2>1, <2>2
<1>3. Settling(c, e)
  BY <1>1 DEF Settling
<1>4. \A r \in Readers : e.want[<<r, b>>] # "waiting"
  BY <1>1 DEF Answers
<1> QED
  BY <1>2, <1>3, <1>4 DEF e

\* A get: whoever asked before is answered or evicted, and it has begun.
LEMMA FetchedReads ==
  ASSUME NEW c, WellFormed(c), \A d \in Blocks : ReadAwaited(c, d),
         NEW r \in Readers, NEW b \in Blocks
  PROVE  LET e == Fetched(c, r, b)
         IN  /\ WellFormed(e)
             /\ \A d \in Blocks : ReadAwaited(e, d)
             /\ e.want[<<r, b>>] # "no"
             /\ \A q \in Readers, d \in Blocks :
                  \/ q = r /\ d = b
                  \/ e.want[<<q, d>>] = c.want[<<q, d>>]
                  \/ c.want[<<q, d>>] = "waiting" /\ e.want[<<q, d>>] \in Answers
<1>1. CASE Cached(c, b)
  <2> DEFINE v == c.val[b]
             f == Entered(c, b, v)
             e == Wanted(f, r, b, v)
  <2>1. v \in {"torn", "whole"} /\ v \in Values \ {"no"} /\ v \in Answers
    BY <1>1 DEF Cached, Values, Answers
  <2> HIDE DEF v
  <2>2. /\ WellFormed(f) /\ f.val[b] = v
        /\ \A d \in Blocks \ {b} : ReadAwaited(f, d)
        /\ \A q \in Readers : f.want[<<q, b>>] = c.want[<<q, b>>]
        /\ Settling(c, f)
    BY <2>1, EnteredReads
  <2> HIDE DEF f
  <2>3. /\ WellFormed(e) /\ e.val = f.val
        /\ \A q \in Readers, d \in Blocks :
             e.want[<<q, d>>] = IF q = r /\ d = b THEN v ELSE f.want[<<q, d>>]
    BY <2>1, <2>2, WantedGives
  <2> HIDE DEF e
  <2>4. \A q \in Readers : c.want[<<q, b>>] # "waiting"
    BY <2>1 DEF ReadAwaited, Fetching, v
  <2>5. \A q \in Readers : e.want[<<q, b>>] # "waiting"
    BY <2>1, <2>2, <2>3, <2>4
  <2>6. ASSUME NEW d \in Blocks PROVE ReadAwaited(e, d)
    <3>1. CASE d = b
      BY <2>1, <2>2, <2>3, <2>5, <3>1 DEF ReadAwaited, Fetching
    <3>2. CASE d # b
      <4>1. ReadAwaited(f, d) /\ e.val[d] = f.val[d] /\ \A q \in Readers : e.want[<<q, d>>] = f.want[<<q, d>>]
        BY <2>2, <2>3, <3>2
      <4> QED
        BY <4>1 DEF ReadAwaited, Fetching
    <3> QED
      BY <3>1, <3>2
  <2>7. \A q \in Readers, d \in Blocks :
          \/ q = r /\ d = b
          \/ e.want[<<q, d>>] = c.want[<<q, d>>]
          \/ c.want[<<q, d>>] = "waiting" /\ e.want[<<q, d>>] \in Answers
    BY <2>2, <2>3 DEF Settling
  <2>8. e.want[<<r, b>>] # "no"
    BY <2>1, <2>3
  <2>9. Fetched(c, r, b) = e
    BY <1>1 DEF Fetched, Wanted, e, f, v
  <2> QED
    BY <2>3, <2>6, <2>7, <2>8, <2>9
<1>2. CASE ~Cached(c, b)
  <2> DEFINE f == IF Fetching(c, b) THEN c ELSE Entered(c, b, "fetching")
             e == Wanted(f, r, b, "waiting")
  <2>1. /\ WellFormed(f) /\ f.val[b] = "fetching"
        /\ \A d \in Blocks \ {b} : ReadAwaited(f, d)
        /\ Settling(c, f)
    <3>1. CASE Fetching(c, b)
      BY <3>1 DEF Fetching, Settling
    <3>2. CASE ~Fetching(c, b)
      <4>1. "fetching" \in Values \ {"no"}
        BY DEF Values
      <4>2. LET g == Entered(c, b, "fetching")
            IN  /\ WellFormed(g) /\ g.val[b] = "fetching"
                /\ \A d \in Blocks \ {b} : ReadAwaited(g, d)
                /\ Settling(c, g)
        BY <4>1, EnteredReads
      <4> QED
        BY <3>2, <4>2
    <3> QED
      BY <3>1, <3>2
  <2> HIDE DEF f
  <2>3. /\ WellFormed(e) /\ e.val = f.val
        /\ \A q \in Readers, d \in Blocks :
             e.want[<<q, d>>] = IF q = r /\ d = b THEN "waiting" ELSE f.want[<<q, d>>]
    BY <2>1, WantedGives
  <2> HIDE DEF e
  <2>6. ASSUME NEW d \in Blocks PROVE ReadAwaited(e, d)
    <3>1. CASE d = b
      BY <2>1, <2>3, <3>1 DEF ReadAwaited, Fetching
    <3>2. CASE d # b
      <4>1. ReadAwaited(f, d) /\ e.val[d] = f.val[d] /\ \A q \in Readers : e.want[<<q, d>>] = f.want[<<q, d>>]
        BY <2>1, <2>3, <3>2
      <4> QED
        BY <4>1 DEF ReadAwaited, Fetching
    <3> QED
      BY <3>1, <3>2
  <2>7. \A q \in Readers, d \in Blocks :
          \/ q = r /\ d = b
          \/ e.want[<<q, d>>] = c.want[<<q, d>>]
          \/ c.want[<<q, d>>] = "waiting" /\ e.want[<<q, d>>] \in Answers
    BY <2>1, <2>3 DEF Settling
  <2>8. e.want[<<r, b>>] # "no"
    BY <2>3
  <2>9. Fetched(c, r, b) = e
    BY <1>2 DEF Fetched, Wanted, e, f
  <2> QED
    BY <2>3, <2>6, <2>7, <2>8, <2>9
<1> QED
  BY <1>1, <1>2

\* A batch of gets: each of them has begun, and of the others those that waited
\* for an entry that was evicted are answered.
LEMMA GettingReads ==
  ASSUME WaitInv, NEW r \in Readers, NEW batch \in Seq(Blocks), Getting(r, batch)
  PROVE  /\ \A b \in Blocks : ReadAwaited(cache', b)
         /\ \A b \in ToSet(batch) : cache'.want[<<r, b>>] # "no"
         /\ \A q \in Readers, d \in Blocks :
              \/ q = r /\ d \in ToSet(batch)
              \/ cache'.want[<<q, d>>] = cache.want[<<q, d>>]
              \/ cache.want[<<q, d>>] = "waiting" /\ cache'.want[<<q, d>>] \in Answers
<1> DEFINE Gone(c) == \A q \in Readers, d \in Blocks :
                        \/ q = r /\ d \in ToSet(batch)
                        \/ c.want[<<q, d>>] = cache.want[<<q, d>>]
                        \/ cache.want[<<q, d>>] = "waiting" /\ c.want[<<q, d>>] \in Answers
           Begun(c, n) == \A i \in DOMAIN batch : i <= n => c.want[<<r, batch[i]>>] # "no"
           Good(c) == WellFormed(c) /\ \A b \in Blocks : ReadAwaited(c, b)
           After == [n \in Nat |-> {c \in CacheRecord : Good(c) /\ Begun(c, n) /\ Gone(c)}]
<1>1. DOMAIN batch = 1..Len(batch) /\ Len(batch) \in Nat /\ \A i \in DOMAIN batch : batch[i] \in Blocks
  OBVIOUS
<1>2. cache \in CacheRecord /\ Good(cache)
  BY DEF WaitInv, CacheInv, CacheFits, WellFormed
<1>3. cache \in After[0]
  BY <1>1, <1>2
<1>4. ASSUME NEW n \in Nat, NEW c \in After[n], n + 1 <= Len(batch)
      PROVE  Fetched(c, r, batch[n + 1]) \in After[n + 1]
  <2> DEFINE b == batch[n + 1]
             e == Fetched(c, r, b)
  <2>1. n + 1 \in DOMAIN batch /\ b \in Blocks /\ b \in ToSet(batch)
    BY <1>1, <1>4 DEF ToSet
  <2>2. Good(c) /\ Begun(c, n) /\ Gone(c)
    BY <1>4
  <2> HIDE DEF b, Good, Begun, Gone
  <2>3. /\ WellFormed(e)
        /\ \A d \in Blocks : ReadAwaited(e, d)
        /\ e.want[<<r, b>>] # "no"
        /\ \A q \in Readers, d \in Blocks :
             \/ q = r /\ d = b
             \/ e.want[<<q, d>>] = c.want[<<q, d>>]
             \/ c.want[<<q, d>>] = "waiting" /\ e.want[<<q, d>>] \in Answers
    BY <2>1, <2>2, FetchedReads DEF Good
  <2> HIDE DEF e
  <2>4. Good(e) /\ e \in CacheRecord
    BY <2>3 DEF Good, WellFormed
  <2>5. Gone(e)
    <3> SUFFICES ASSUME NEW q \in Readers, NEW d \in Blocks, ~(q = r /\ d \in ToSet(batch))
                 PROVE  \/ e.want[<<q, d>>] = cache.want[<<q, d>>]
                        \/ cache.want[<<q, d>>] = "waiting" /\ e.want[<<q, d>>] \in Answers
      BY DEF Gone
    <3>1. \/ c.want[<<q, d>>] = cache.want[<<q, d>>]
          \/ cache.want[<<q, d>>] = "waiting" /\ c.want[<<q, d>>] \in Answers
      BY <2>2 DEF Gone
    <3>2. \/ e.want[<<q, d>>] = c.want[<<q, d>>]
          \/ c.want[<<q, d>>] = "waiting" /\ e.want[<<q, d>>] \in Answers
      BY <2>1, <2>3
    <3> QED
      BY <3>1, <3>2
  <2>6. Begun(e, n + 1)
    <3> SUFFICES ASSUME NEW i \in DOMAIN batch, i <= n + 1 PROVE e.want[<<r, batch[i]>>] # "no"
      BY DEF Begun
    <3>1. CASE i = n + 1
      BY <2>3, <3>1 DEF b
    <3>2. CASE i # n + 1
      <4>1. i <= n /\ batch[i] \in Blocks
        BY <1>1, <3>2
      <4>2. c.want[<<r, batch[i]>>] # "no"
        BY <2>2, <4>1 DEF Begun
      <4> QED
        BY <2>3, <4>1, <4>2 DEF Answers
    <3> QED
      BY <3>1, <3>2
  <2> QED
    BY <2>4, <2>5, <2>6 DEF b, e
<1>5. cache' = Gets(r, cache, batch)
  BY DEF Getting, Gets
<1> HIDE DEF After
<1>6. cache' \in After[Len(batch)]
  BY <1>3, <1>4, <1>5, BatchReaches
<1>7. Good(cache') /\ Begun(cache', Len(batch)) /\ Gone(cache')
  BY <1>1, <1>6 DEF After
<1>8. \A b \in ToSet(batch) : cache'.want[<<r, b>>] # "no"
  BY <1>1, <1>7 DEF ToSet
<1> QED
  BY <1>7, <1>8

\* A step that only looks into the entry of a read.
LEMMA SeenReads ==
  ASSUME WaitInv, NEW b, NEW v, cache' = [cache EXCEPT !.seen[b] = v]
  PROVE  Settling(cache, cache') /\ \A d \in Blocks : ReadAwaited(cache', d)
<1>1. cache \in CacheRecord
  BY DEF WaitInv, CacheInv, CacheFits, WellFormed
<1>2. cache'.val = cache.val /\ cache'.want = cache.want
  BY <1>1 DEF CacheRecord
<1>3. ASSUME NEW d \in Blocks PROVE ReadAwaited(cache', d)
  <2>1. ReadAwaited(cache, d)
    BY DEF WaitInv
  <2> QED
    BY <1>2, <2>1 DEF ReadAwaited, Fetching
<1>4. Settling(cache, cache')
  BY <1>2 DEF Settling
<1> QED
  BY <1>3, <1>4

\* What a step that is not of a load does to those who wait; an entry that goes,
\* or whose read has ended, has nobody wait for it.
LEMMA ReadsGoOn ==
  ASSUME WaitInv,
         \/ \E w \in Writers : ImportStep(w)
         \/ \E w \in Writers, b \in Blocks : PutStep(w, b)
         \/ \E b \in Blocks : ReadStep(b)
         \/ Crash
         \/ UNCHANGED vars
  PROVE  Settling(cache, cache') /\ \A d \in Blocks : ReadAwaited(cache', d)
<1> DEFINE Goal == Settling(cache, cache') /\ \A d \in Blocks : ReadAwaited(cache', d)
<1>0. WellFormed(cache) /\ \A d \in Blocks : ReadAwaited(cache, d)
  BY DEF WaitInv, CacheInv, CacheFits
<1>1. ASSUME cache' = cache PROVE Goal
  BY <1>0, <1>1 DEF Settling
<1>2. ASSUME NEW b \in Blocks, NEW reason \in Answers, cache' = Removed(cache, b, reason) PROVE Goal
  BY <1>0, <1>2, RemovedReads
<1>3. ASSUME NEW b \in Blocks, NEW v \in {"torn", "whole"}, NEW answer \in Answers,
             cache' = Entered(Answering(cache, b, answer), b, v)
      PROVE  Goal
  BY <1>0, <1>3, AnsweredReads
<1>4. ASSUME NEW b, NEW v, cache' = [cache EXCEPT !.seen[b] = v] PROVE Goal
  BY <1>4, SeenReads
<1> HIDE DEF Goal
<1>5. ASSUME NEW w \in Writers, ImportStep(w) PROVE Goal
  BY <1>1, <1>5, ImportStepPuts DEF WaitInv, CacheInv
<1>6. ASSUME NEW w \in Writers, NEW b \in Blocks, PutStep(w, b) PROVE Goal
  <2>1. CASE MakeDirectory(w, b)
    BY <1>1, <2>1 DEF MakeDirectory
  <2>2. CASE OpenForWrite(w, b)
    BY <1>4, <2>2 DEF OpenForWrite
  <2>3. CASE FinishWrite(w, b)
    <3>1. cache' = Entered(Answering(cache, b, "replaced"), b, "whole") /\ "replaced" \in Answers
      BY <2>3 DEF FinishWrite, Replaced, Answering, Answers
    <3> QED
      BY <1>3, <3>1
  <2>4. CASE WriteFails(w, b)
    BY <1>2, <2>4 DEF WriteFails, Answers
  <2>5. CASE Unlink(w, b)
    BY <1>1, <1>4, <2>5 DEF Unlink
  <2> QED
    BY <1>6, <2>1, <2>2, <2>3, <2>4, <2>5 DEF PutStep
<1>7. ASSUME NEW b \in Blocks, ReadStep(b) PROVE Goal
  <2>1. CASE OpenForRead(b)
    BY <1>2, <1>4, <2>1 DEF OpenForRead, Answers
  <2>2. CASE FinishRead(b)
    <3>1. PICK v \in {"torn", "whole"} : cache' = Arrived(cache, b, v)
      BY <2>2 DEF FinishRead
    <3>2. cache' = Entered(Answering(cache, b, v), b, v) /\ v \in Answers
      BY <3>1 DEF Arrived, Answering, Answers
    <3> QED
      BY <1>3, <3>2
  <2>3. CASE ReadFails(b)
    BY <1>2, <2>3 DEF ReadFails, Answers
  <2> QED
    BY <1>7, <2>1, <2>2, <2>3 DEF ReadStep
<1>8. ASSUME Crash PROVE Goal
  <2>0. cache.want \in [Readers \X Blocks -> {"no", "waiting"} \cup Answers]
    BY <1>0 DEF WellFormed, CacheRecord
  <2>1. /\ cache'.val = [b \in Blocks |-> "no"]
        /\ cache'.want = [rb \in Readers \X Blocks |->
                            IF cache.want[rb] = "waiting" THEN "lost" ELSE cache.want[rb]]
    BY <1>8 DEF Crash, StoreCrash, EmptyCache
  <2>2. \A r \in Readers, b \in Blocks : cache'.want[<<r, b>>] # "waiting"
    BY <2>1
  <2>3. \A b \in Blocks : ReadAwaited(cache', b)
    BY <2>1, <2>2 DEF ReadAwaited, Fetching
  <2>4. Settling(cache, cache')
    BY <2>1 DEF Settling, Answers
  <2> QED
    BY <2>3, <2>4 DEF Goal
<1>9. ASSUME UNCHANGED vars PROVE Goal
  BY <1>1, <1>9 DEF vars
<1>10. \/ \E w \in Writers : ImportStep(w)
       \/ \E w \in Writers, b \in Blocks : PutStep(w, b)
       \/ \E b \in Blocks : ReadStep(b)
       \/ Crash
       \/ UNCHANGED vars
  OBVIOUS
<1>11. Goal
  BY <1>5, <1>6, <1>7, <1>8, <1>9, <1>10
<1> QED
  BY <1>11 DEF Goal

\* A step of a load: it may begin gets of its own that had not begun.
LEMMA LoadStepReads ==
  ASSUME WaitInv, NEW r \in Readers, LoadStep(r)
  PROVE  /\ \A b \in Blocks : ReadAwaited(cache', b)
         /\ GetsInOrder(r)'
         /\ \A q \in Readers, b \in Blocks :
              \/ cache'.want[<<q, b>>] = cache.want[<<q, b>>]
              \/ cache.want[<<q, b>>] = "waiting" /\ cache'.want[<<q, b>>] \in Answers
              \/ q = r /\ cache.want[<<q, b>>] = "no" /\ cache'.want[<<q, b>>] # "no"
<1> DEFINE Goal == /\ \A b \in Blocks : ReadAwaited(cache', b)
                   /\ GetsInOrder(r)'
                   /\ \A q \in Readers, b \in Blocks :
                        \/ cache'.want[<<q, b>>] = cache.want[<<q, b>>]
                        \/ cache.want[<<q, b>>] = "waiting" /\ cache'.want[<<q, b>>] \in Answers
                        \/ q = r /\ cache.want[<<q, b>>] = "no" /\ cache'.want[<<q, b>>] # "no"
<1>0. /\ r \in Callers /\ stage \in [Callers -> Stages] /\ mapOf \in [Callers -> Maps \cup {NoMap}]
      /\ stage[r] # "new" => mapOf[r] \in Maps
      /\ GetsInOrder(r)
  BY DEF WaitInv, CacheInv, DiskInv, DiskTypeOK, Callers
<1>1. ASSUME NEW m \in Maps, Load(r, m) PROVE Goal
  <2> DEFINE batch == <<RootOf(m)>>
  <2>1. /\ stage[r] = "new" /\ stage'[r] = "root" /\ mapOf'[r] = m /\ Getting(r, batch)
    BY <1>0, <1>1 DEF Load
  <2>2. batch \in Seq(Blocks) /\ ToSet(batch) = {RootOf(m)}
    BY BlocksOfMaps DEF ToSet
  <2> HIDE DEF batch
  <2>3. /\ \A b \in Blocks : ReadAwaited(cache', b)
        /\ \A b \in ToSet(batch) : cache'.want[<<r, b>>] # "no"
        /\ \A q \in Readers, d \in Blocks :
             \/ q = r /\ d \in ToSet(batch)
             \/ cache'.want[<<q, d>>] = cache.want[<<q, d>>]
             \/ cache.want[<<q, d>>] = "waiting" /\ cache'.want[<<q, d>>] \in Answers
    BY <2>1, <2>2, GettingReads
  <2>4. \A b \in Blocks : cache.want[<<r, b>>] = "no"
    BY <1>0, <2>1 DEF GetsInOrder
  <2>5. \A b \in Linked(m) : b \in Blocks /\ b \notin ToSet(batch)
    BY <2>2, BlocksOfMaps
  <2>6. \A b \in Linked(m) : cache'.want[<<r, b>>] = "no"
    BY <2>3, <2>4, <2>5
  <2>7. GetsInOrder(r)'
    BY <2>1, <2>2, <2>3, <2>6 DEF GetsInOrder
  <2> QED
    BY <2>3, <2>4, <2>7
<1>2. CASE LoadPalettes(r)
  <2> DEFINE m == mapOf[r]
             batch == PalettesOf(m)
  <2>1. /\ stage[r] = "root" /\ stage'[r] = "palettes" /\ mapOf'[r] = m /\ Getting(r, batch)
        /\ m \in Maps
    BY <1>0, <1>2 DEF LoadPalettes
  <2> HIDE DEF m
  <2>2. batch \in Seq(Blocks) /\ ToSet(batch) = Palettes(m)
    BY <2>1, MapsAssumption DEF Palettes
  <2> HIDE DEF batch
  <2>3. /\ \A b \in Blocks : ReadAwaited(cache', b)
        /\ \A b \in ToSet(batch) : cache'.want[<<r, b>>] # "no"
        /\ \A q \in Readers, d \in Blocks :
             \/ q = r /\ d \in ToSet(batch)
             \/ cache'.want[<<q, d>>] = cache.want[<<q, d>>]
             \/ cache.want[<<q, d>>] = "waiting" /\ cache'.want[<<q, d>>] \in Answers
    BY <2>1, <2>2, GettingReads
  <2>4. \A b \in Linked(m) : cache.want[<<r, b>>] = "no"
    BY <1>0, <2>1 DEF GetsInOrder, m
  <2>5. \A b \in Data(m) : b \in Linked(m) /\ b \in Blocks /\ b \notin ToSet(batch)
    BY <2>1, <2>2, BlocksOfMaps
  <2>6. \A b \in Data(m) : cache'.want[<<r, b>>] = "no"
    BY <2>3, <2>4, <2>5
  <2>7. GetsInOrder(r)'
    BY <2>1, <2>2, <2>3, <2>6 DEF GetsInOrder
  <2>8. \A b \in ToSet(batch) : cache.want[<<r, b>>] = "no"
    BY <2>1, <2>2, <2>4, BlocksOfMaps
  <2> QED
    BY <2>3, <2>7, <2>8
<1>3. CASE LoadData(r)
  <2> DEFINE m == mapOf[r]
             batch == DataOf(m)
  <2>1. /\ stage[r] = "palettes" /\ stage'[r] = "data" /\ mapOf'[r] = m /\ Getting(r, batch)
        /\ m \in Maps
    BY <1>0, <1>3 DEF LoadData
  <2> HIDE DEF m
  <2>2. batch \in Seq(Blocks) /\ ToSet(batch) = Data(m)
    BY <2>1, MapsAssumption DEF Data
  <2> HIDE DEF batch
  <2>3. /\ \A b \in Blocks : ReadAwaited(cache', b)
        /\ \A b \in ToSet(batch) : cache'.want[<<r, b>>] # "no"
        /\ \A q \in Readers, d \in Blocks :
             \/ q = r /\ d \in ToSet(batch)
             \/ cache'.want[<<q, d>>] = cache.want[<<q, d>>]
             \/ cache.want[<<q, d>>] = "waiting" /\ cache'.want[<<q, d>>] \in Answers
    BY <2>1, <2>2, GettingReads
  <2>4. \A b \in ToSet(batch) : cache.want[<<r, b>>] = "no"
    BY <1>0, <2>1, <2>2 DEF GetsInOrder, m
  <2>7. GetsInOrder(r)'
    BY <2>1, <2>2, <2>3 DEF GetsInOrder
  <2> QED
    BY <2>3, <2>4, <2>7
<1>4. CASE AnswerLoad(r) \/ FailLoad(r)
  <2>1. cache' = cache /\ stage'[r] \in {"answered", "failed"}
    BY <1>0, <1>4 DEF AnswerLoad, FailLoad
  <2> QED
    BY <2>1 DEF WaitInv, GetsInOrder
<1> QED
  BY <1>1, <1>2, <1>3, <1>4 DEF LoadStep

-----------------------------------------------------------------------------
(* Every call goes forward.                                                *)

LEMMA PutRanks ==
  /\ PutRank["no"] = 0 /\ PutRank["mkdir"] = 1 /\ PutRank["opening"] = 2
  /\ PutRank["writing"] = 3 /\ PutRank["cut"] = 4 /\ PutRank["lost"] = 5
  /\ PutRank["unlinking"] = 6
  /\ PutRank["done"] = 7 /\ PutRank["failed"] = 7 /\ PutRank["refused"] = 7
  BY DEF PutRank

LEMMA PutsGoForward ==
  ASSUME DiskInv, [Next]_vars, NEW v \in Writers, NEW d \in Blocks
  PROVE  GoneOn(PutRank, put[<<v, d>>], put'[<<v, d>>])
<1> DEFINE p == put[<<v, d>>]
           q == put'[<<v, d>>]
           Goal == q = p \/ PutRank[p] < PutRank[q]
<1>0. put \in [Writers \X Blocks -> PutPhases] /\ p \in PutPhases
  BY DEF DiskInv, DiskTypeOK
<1>1. ASSUME NEW w \in Writers, ImportStep(w) PROVE Goal
  <2>1. q = p \/ (p = "no" /\ q = "mkdir")
    BY <1>1, ImportStepPuts
  <2> QED
    BY <2>1, PutRanks
<1>2. ASSUME put' = put PROVE Goal
  BY <1>2
<1>3. ASSUME NEW w \in Writers, NEW b \in Blocks, PutStep(w, b) PROVE Goal
  <2>1. CASE MakeDirectory(w, b)
    <3>1. q = p \/ (p = "mkdir" /\ q \in {"opening", "refused"})
      BY <1>0, <2>1 DEF MakeDirectory, At, Become
    <3> QED
      BY <3>1, PutRanks
  <2>2. CASE OpenForWrite(w, b)
    <3>1. q = p \/ (p = "opening" /\ q = "writing") \/ (p = "writing" /\ q = "cut")
      BY <1>0, <2>2 DEF OpenForWrite, At
    <3> QED
      BY <3>1, PutRanks
  <2>3. CASE FinishWrite(w, b)
    <3>1. q = p \/ (p \in InFile /\ q = "done")
      BY <1>0, <2>3 DEF FinishWrite, Become
    <3> QED
      BY <3>1, PutRanks DEF InFile
  <2>4. CASE WriteFails(w, b)
    <3>1. q = p \/ (p \in InFile \cup {"opening"} /\ q = "unlinking")
      BY <1>0, <2>4 DEF WriteFails, Become
    <3> QED
      BY <3>1, PutRanks DEF InFile
  <2>5. CASE Unlink(w, b)
    <3>1. q = p \/ (p = "unlinking" /\ q = "failed") \/ (p \in InFile /\ q = "lost")
      BY <1>0, <2>5 DEF Unlink, Become, At
    <3> QED
      BY <3>1, PutRanks DEF InFile
  <2> QED
    BY <1>3, <2>1, <2>2, <2>3, <2>4, <2>5 DEF PutStep
<1>4. ASSUME Crash PROVE Goal
  <2>1. \/ q = p
        \/ p \in InFile \cup {"unlinking"} /\ q = "failed"
        \/ p \in {"mkdir", "opening"} /\ q = "refused"
    BY <1>0, <1>4 DEF Crash, StoreCrash
  <2> QED
    BY <2>1, PutRanks DEF InFile
<1>5. ASSUME NEW r \in Readers, LoadStep(r) PROVE put' = put
  BY <1>5, LoadStepPuts
<1>6. ASSUME NEW b \in Blocks, ReadStep(b) PROVE put' = put
  BY <1>6 DEF ReadStep, OpenForRead, FinishRead, ReadFails
<1> HIDE DEF Goal
<1>7. Goal
  BY <1>1, <1>2, <1>3, <1>4, <1>5, <1>6 DEF Next, Work, vars
<1> QED
  BY <1>7 DEF Goal, GoneOn

\* A call stays where it is, or goes to its next stage or to its end.
LEMMA StagesGoForward ==
  ASSUME DiskInv, [Next]_vars
  PROVE  /\ \A w \in Writers : GoneOn(ImportRank, stage[w], stage'[w])
         /\ \A r \in Readers : GoneOn(LoadRank, stage[r], stage'[r])
<1>0. /\ Writers \subseteq Callers /\ Readers \subseteq Callers /\ Writers \cap Readers = {}
      /\ stage \in [Callers -> Stages]
  BY CallersAssumption DEF Callers, DiskInv, DiskTypeOK
<1>1. ASSUME NEW w \in Writers, NEW c \in Callers, ImportStep(w)
      PROVE  \/ stage'[c] = stage[c]
             \/ c = w /\ \/ stage[c] = "new" /\ stage'[c] = "palettes"
                         \/ stage[c] = "palettes" /\ stage'[c] = "data"
                         \/ stage[c] = "data" /\ stage'[c] = "root"
                         \/ stage[c] \in Awaits /\ stage'[c] \in {"answered", "failed"}
  BY <1>0, <1>1 DEF ImportStep, Import, CommitData, CommitRoot, AnswerImport, FailImport, Awaits
<1>2. ASSUME NEW r \in Readers, NEW c \in Callers, LoadStep(r)
      PROVE  \/ stage'[c] = stage[c]
             \/ c = r /\ \/ stage[c] = "new" /\ stage'[c] = "root"
                         \/ stage[c] = "root" /\ stage'[c] = "palettes"
                         \/ stage[c] = "palettes" /\ stage'[c] = "data"
                         \/ stage[c] \in Awaits /\ stage'[c] \in {"answered", "failed"}
  BY <1>0, <1>2 DEF LoadStep, Load, LoadPalettes, LoadData, AnswerLoad, FailLoad, Awaits
<1>3. ASSUME NEW c \in Callers, Crash
      PROVE  stage'[c] = stage[c] \/ (stage[c] \in Awaits /\ stage'[c] = "failed")
  BY <1>3 DEF Crash
<1>4. /\ ImportRank["new"] = 0 /\ ImportRank["palettes"] = 1 /\ ImportRank["data"] = 2
      /\ ImportRank["root"] = 3 /\ ImportRank["answered"] = 4 /\ ImportRank["failed"] = 4
  BY DEF ImportRank
<1>5. /\ LoadRank["new"] = 0 /\ LoadRank["root"] = 1 /\ LoadRank["palettes"] = 2
      /\ LoadRank["data"] = 3 /\ LoadRank["answered"] = 4 /\ LoadRank["failed"] = 4
  BY DEF LoadRank
<1>6. \/ stage' = stage
      \/ \E w \in Writers : ImportStep(w)
      \/ \E r \in Readers : LoadStep(r)
      \/ Crash
  BY DEF Next, Work, vars
<1>7. ASSUME NEW w \in Writers PROVE GoneOn(ImportRank, stage[w], stage'[w])
  BY <1>0, <1>1, <1>2, <1>3, <1>4, <1>6 DEF GoneOn, Awaits
<1>8. ASSUME NEW r \in Readers PROVE GoneOn(LoadRank, stage[r], stage'[r])
  BY <1>0, <1>1, <1>2, <1>3, <1>5, <1>6 DEF GoneOn, Awaits
<1> QED
  BY <1>7, <1>8

\* A get begins, or is answered, and that is all that happens to it.
LEMMA GetsGoForward ==
  ASSUME WaitInv, [Next]_vars, NEW r \in Readers, NEW b \in Blocks
  PROVE  GoneOn(GetRank, cache.want[<<r, b>>], cache'.want[<<r, b>>])
<1> DEFINE p == cache.want[<<r, b>>]
           q == cache'.want[<<r, b>>]
<1>0. p \in {"no", "waiting"} \cup Answers /\ q \in {"no", "waiting"} \cup Answers
  <2>1. CacheInv /\ CacheInv'
    BY CacheStep DEF WaitInv
  <2> QED
    BY <2>1 DEF CacheInv, CacheFits, WellFormed, CacheRecord
<1>1. q = p \/ (p = "waiting" /\ q \in Answers) \/ (p = "no" /\ q # "no")
  <2>1. CASE \E s \in Readers : LoadStep(s)
    BY <2>1, LoadStepReads
  <2>2. CASE ~ \E s \in Readers : LoadStep(s)
    <3>1. Settling(cache, cache')
      BY <2>2, ReadsGoOn DEF Next, Work
    <3> QED
      BY <3>1 DEF Settling
  <2> QED
    BY <2>1, <2>2
<1>2. /\ GetRank["no"] = 0 /\ GetRank["waiting"] = 1
      /\ \A a \in Answers : GetRank[a] = 2 /\ a # "no" /\ a # "waiting"
  BY DEF GetRank, Answers
<1> HIDE DEF p, q
<1>3. q = p \/ GetRank[p] < GetRank[q]
  BY <1>0, <1>1, <1>2
<1> QED
  BY <1>3 DEF GoneOn, p, q

LEMMA WaitStep == WaitInv /\ [Next]_vars => WaitInv'
<1> SUFFICES ASSUME WaitInv, [Next]_vars PROVE WaitInv'
  OBVIOUS
<1>0. /\ CacheInv /\ DiskInv
      /\ Writers \subseteq Callers /\ Readers \subseteq Callers /\ Writers \cap Readers = {}
      /\ stage \in [Callers -> Stages] /\ mapOf \in [Callers -> Maps \cup {NoMap}]
      /\ \A c \in Callers : stage[c] # "new" => mapOf[c] \in Maps
  BY CallersAssumption DEF WaitInv, CacheInv, DiskInv, DiskTypeOK, Callers
<1>1. CacheInv'
  BY <1>0, CacheStep
<1>2. \A b \in Blocks : ReadAwaited(cache', b)
  BY LoadStepReads, ReadsGoOn DEF Next, Work
<1>3. ASSUME NEW w \in Writers PROVE PutsBegun(w)'
  <2>1. \A b \in Blocks : put[<<w, b>>] # "no" => put'[<<w, b>>] # "no"
    <3>1. ASSUME NEW b \in Blocks, put[<<w, b>>] # "no" PROVE put'[<<w, b>>] # "no"
      <4>1. GoneOn(PutRank, put[<<w, b>>], put'[<<w, b>>])
        BY <1>0, PutsGoForward
      <4>2. put[<<w, b>>] \in PutPhases \ {"no"}
        BY <1>0, <3>1 DEF DiskInv, DiskTypeOK
      <4>3. \A p \in PutPhases : ~(PutRank[p] < PutRank["no"])
        BY PutRanks DEF PutPhases, Unbegun, InFile
      <4> QED
        BY <4>1, <4>2, <4>3 DEF GoneOn
    <3> QED
      BY <3>1
  <2>2. CASE stage'[w] = stage[w] /\ mapOf'[w] = mapOf[w]
    <3>1. stage[w] # "new" =>
            /\ Palettes(mapOf[w]) \subseteq Blocks /\ Data(mapOf[w]) \subseteq Blocks
            /\ RootOf(mapOf[w]) \in Blocks
      BY <1>0, BlocksOfMaps
    <3>2. PutsBegun(w)
      BY DEF WaitInv
    <3> QED
      BY <2>1, <2>2, <3>1, <3>2 DEF PutsBegun
  <2>3. CASE stage'[w] \notin Awaits
    BY <2>3 DEF PutsBegun, Awaits
  <2>4. ASSUME NEW m \in Maps, Import(w, m) PROVE PutsBegun(w)'
    <3>1. stage'[w] = "palettes" /\ mapOf'[w] = m /\ Putting(w, Palettes(m))
      BY <1>0, <2>4 DEF Import
    <3>2. \A b \in Palettes(m) : put'[<<w, b>>] = "mkdir"
      BY <1>0, <3>1, BlocksOfMaps DEF Putting, DiskInv, DiskTypeOK
    <3> QED
      BY <3>1, <3>2 DEF PutsBegun
  <2>5. CASE CommitData(w)
    <3>1. /\ stage'[w] = "data" /\ mapOf' = mapOf /\ Putting(w, Data(mapOf[w]))
          /\ mapOf[w] \in Maps
      BY <1>0, <2>5 DEF CommitData
    <3>2. \A b \in Data(mapOf[w]) : put'[<<w, b>>] = "mkdir"
      BY <1>0, <3>1, BlocksOfMaps DEF Putting, DiskInv, DiskTypeOK
    <3> QED
      BY <3>1, <3>2 DEF PutsBegun
  <2>6. CASE CommitRoot(w)
    <3>1. /\ stage'[w] = "root" /\ mapOf' = mapOf /\ Putting(w, {RootOf(mapOf[w])})
          /\ mapOf[w] \in Maps
      BY <1>0, <2>6 DEF CommitRoot
    <3>2. put'[<<w, RootOf(mapOf[w])>>] = "mkdir"
      BY <1>0, <3>1, BlocksOfMaps DEF Putting, DiskInv, DiskTypeOK
    <3> QED
      BY <3>1, <3>2 DEF PutsBegun
  <2>7. CASE AnswerImport(w) \/ FailImport(w)
    BY <1>0, <2>3, <2>7 DEF AnswerImport, FailImport, Awaits
  <2>8. ASSUME NEW v \in Writers, ImportStep(v), v # w
        PROVE  stage'[w] = stage[w] /\ mapOf'[w] = mapOf[w]
    BY <1>0, <2>8 DEF ImportStep, Import, CommitData, CommitRoot, AnswerImport, FailImport
  <2>9. ASSUME NEW r \in Readers, LoadStep(r)
        PROVE  stage'[w] = stage[w] /\ mapOf'[w] = mapOf[w]
    BY <1>0, <2>9 DEF LoadStep, Load, LoadPalettes, LoadData, AnswerLoad, FailLoad
  <2>10. CASE Crash
    BY <1>0, <2>2, <2>3, <2>10 DEF Crash, Awaits
  <2>11. CASE UNCHANGED <<stage, mapOf>>
    BY <2>2, <2>11
  <2> QED
    BY <2>2, <2>4, <2>5, <2>6, <2>7, <2>8, <2>9, <2>10, <2>11 DEF Next, Work, ImportStep, vars
<1>4. ASSUME NEW r \in Readers PROVE GetsInOrder(r)'
  <2>1. CASE LoadStep(r)
    BY <2>1, LoadStepReads
  <2>2. CASE ~LoadStep(r)
    <3>1. \A b \in Blocks :
            \/ cache'.want[<<r, b>>] = cache.want[<<r, b>>]
            \/ cache.want[<<r, b>>] = "waiting" /\ cache'.want[<<r, b>>] \in Answers
      <4>1. CASE \E s \in Readers : LoadStep(s)
        BY <2>2, <4>1, LoadStepReads
      <4>2. CASE ~ \E s \in Readers : LoadStep(s)
        <5>1. Settling(cache, cache')
          BY <4>2, ReadsGoOn DEF Next, Work
        <5> QED
          BY <5>1 DEF Settling
      <4> QED
        BY <4>1, <4>2
    <3>2. \A b \in Blocks : cache'.want[<<r, b>>] = "no" <=> cache.want[<<r, b>>] = "no"
      BY <3>1 DEF Answers
    <3>3. mapOf'[r] = mapOf[r] /\ (stage'[r] = stage[r] \/ stage'[r] = "failed")
      <4>1. ASSUME NEW w \in Writers, ImportStep(w) PROVE stage'[r] = stage[r] /\ mapOf'[r] = mapOf[r]
        BY <1>0, <4>1 DEF ImportStep, Import, CommitData, CommitRoot, AnswerImport, FailImport
      <4>2. ASSUME NEW s \in Readers, LoadStep(s), s # r
            PROVE  stage'[r] = stage[r] /\ mapOf'[r] = mapOf[r]
        BY <1>0, <4>2 DEF LoadStep, Load, LoadPalettes, LoadData, AnswerLoad, FailLoad
      <4>3. ASSUME Crash PROVE mapOf'[r] = mapOf[r] /\ (stage'[r] = stage[r] \/ stage'[r] = "failed")
        BY <1>0, <4>3 DEF Crash
      <4> QED
        BY <2>2, <4>1, <4>2, <4>3 DEF Next, Work, vars
    <3>4. GetsInOrder(r)
      BY DEF WaitInv
    <3>5. stage[r] # "new" =>
            /\ Palettes(mapOf[r]) \subseteq Blocks /\ Data(mapOf[r]) \subseteq Blocks
            /\ Linked(mapOf[r]) \subseteq Blocks /\ RootOf(mapOf[r]) \in Blocks
      BY <1>0, BlocksOfMaps
    <3>6. CASE stage'[r] = "failed"
      BY <3>6 DEF GetsInOrder
    <3>7. CASE stage'[r] = stage[r]
      BY <3>2, <3>3, <3>4, <3>5, <3>7 DEF GetsInOrder
    <3> QED
      BY <3>3, <3>6, <3>7
  <2> QED
    BY <2>1, <2>2
<1>5. /\ \A w \in Writers : PutsBegun(w)'
      /\ \A r \in Readers : GetsInOrder(r)'
      /\ \A b \in Blocks : ReadAwaited(cache, b)'
  BY <1>2, <1>3, <1>4 DEF ReadAwaited, Fetching
<1> QED
  BY <1>1, <1>5 DEF WaitInv

\* No wakeup is lost among any number of imports and loads: gets wait for a block
\* just as long as it is being read, though a put replaces the value, a catch
\* deletes it, another key evicts it or the read fails; and a call that awaits a
\* batch has begun all of it, so there is nothing to wait for that nobody does.
THEOREM NobodyEverWaitsInVain == Spec => []NobodyWaitsInVain
<1>1. Spec => []WaitInv
  BY WaitInit, WaitStep, PTL DEF Spec
<1> QED
  BY <1>1, WaitInvIsEnough, PTL

\* A step that takes no call further opens the file of a read, or is a crash.
LEMMA WorkIsDone ==
  ASSUME WaitInv, Next
  PROVE  \/ put' # put \/ cache'.want # cache.want \/ stage' # stage \/ faults' > faults
         \/ \E b \in Blocks : /\ cache.seen[b] = "unopened"
                              /\ cache' = [cache EXCEPT !.seen[b] = file[b]]
<1> DEFINE Goal == \/ put' # put \/ cache'.want # cache.want \/ stage' # stage \/ faults' > faults
                   \/ \E b \in Blocks : /\ cache.seen[b] = "unopened"
                                        /\ cache' = [cache EXCEPT !.seen[b] = file[b]]
<1>0. /\ CacheInv /\ WellFormed(cache) /\ \A b \in Blocks : ReadAwaited(cache, b)
      /\ put \in [Writers \X Blocks -> PutPhases]
      /\ stage \in [Callers -> Stages] /\ Writers \subseteq Callers /\ Readers \subseteq Callers
      /\ faults \in Nat
  BY MaxFaultsAssumption DEF WaitInv, CacheInv, CacheFits, DiskInv, DiskTypeOK, Callers
<1>1. ASSUME NEW w \in Writers, ImportStep(w) PROVE stage' # stage
  BY <1>0, <1>1 DEF ImportStep, Import, CommitData, CommitRoot, AnswerImport, FailImport, Awaits
<1>2. ASSUME NEW r \in Readers, LoadStep(r) PROVE stage' # stage
  BY <1>0, <1>2 DEF LoadStep, Load, LoadPalettes, LoadData, AnswerLoad, FailLoad, Awaits
<1>3. ASSUME NEW w \in Writers, NEW b \in Blocks, PutStep(w, b) PROVE put' # put
  <2>1. CASE MakeDirectory(w, b)
    BY <1>0, <2>1 DEF MakeDirectory, At, Become
  <2>2. CASE OpenForWrite(w, b)
    <3>1. put[<<w, b>>] = "opening" /\ put'[<<w, b>>] = "writing"
      BY <1>0, <2>2 DEF OpenForWrite, At
    <3> QED
      BY <3>1
  <2>3. CASE FinishWrite(w, b)
    <3>1. put[<<w, b>>] \in InFile /\ put'[<<w, b>>] = "done"
      BY <1>0, <2>3 DEF FinishWrite, Become
    <3> QED
      BY <3>1 DEF InFile
  <2>4. CASE WriteFails(w, b)
    <3>1. put[<<w, b>>] \in InFile \cup {"opening"} /\ put'[<<w, b>>] = "unlinking"
      BY <1>0, <2>4 DEF WriteFails, Become
    <3> QED
      BY <3>1 DEF InFile
  <2>5. CASE Unlink(w, b)
    <3>1. put[<<w, b>>] = "unlinking" /\ put'[<<w, b>>] = "failed"
      BY <1>0, <2>5 DEF Unlink, Become, At
    <3> QED
      BY <3>1
  <2> QED
    BY <1>3, <2>1, <2>2, <2>3, <2>4, <2>5 DEF PutStep
\* A read that ends has somebody wait for it, who waits no longer.
<1>4. ASSUME NEW b \in Blocks, Fetching(cache, b),
             \A r \in Readers : cache'.want[<<r, b>>] # "waiting"
      PROVE  cache'.want # cache.want
  BY <1>0, <1>4 DEF ReadAwaited
<1>5. ASSUME NEW b \in Blocks, ReadStep(b) PROVE Goal
  <2>1. CASE OpenForRead(b)
    <3>1. CASE file[b] = "none"
      <4>1. cache' = Removed(cache, b, "missing") /\ "missing" \in Answers /\ Fetching(cache, b)
        BY <2>1, <3>1 DEF OpenForRead, Answers
      <4>2. \A r \in Readers : cache'.want[<<r, b>>] # "waiting"
        BY <1>0, <4>1, RemovedReads
      <4> QED
        BY <1>4, <4>1, <4>2
    <3>2. CASE file[b] # "none"
      BY <2>1, <3>2 DEF OpenForRead
    <3> QED
      BY <3>1, <3>2
  <2>2. CASE FinishRead(b)
    <3>1. PICK v \in {"torn", "whole"} : cache' = Arrived(cache, b, v)
      BY <2>2 DEF FinishRead
    <3>2. /\ cache' = Entered(Answering(cache, b, v), b, v) /\ v \in Answers
          /\ Fetching(cache, b)
      BY <2>2, <3>1 DEF Arrived, Answering, Answers, FinishRead
    <3>3. \A r \in Readers : cache'.want[<<r, b>>] # "waiting"
      BY <1>0, <3>2, AnsweredReads
    <3> QED
      BY <1>4, <3>2, <3>3
  <2>3. CASE ReadFails(b)
    BY <1>0, <2>3 DEF ReadFails, Fault
  <2> QED
    BY <1>5, <2>1, <2>2, <2>3 DEF ReadStep
<1>6. ASSUME Crash PROVE faults' > faults
  BY <1>0, <1>6 DEF Crash, StoreCrash, Fault
<1> HIDE DEF Goal
<1>7. ASSUME put' # put \/ stage' # stage \/ faults' > faults PROVE Goal
  BY <1>7 DEF Goal
<1>8. Goal
  BY <1>1, <1>2, <1>3, <1>5, <1>6, <1>7 DEF Next, Work
<1> QED
  BY <1>8 DEF Goal

\* No call of put, get, import or load is ever taken back, what has settled stays
\* as it is over evictions, other puts and crashes, and a step that takes no call
\* further opens the file of a read or is a crash; the calls of any number of
\* imports and loads come to an end after as many steps as they have stages.
THEOREM CallsAlwaysGoForward == Spec => CallsGoForward
<1>1. ASSUME WaitInv, [Next]_vars
      PROVE  [/\ \A wb \in Writers \X Blocks : GoneOn(PutRank, put[wb], put'[wb])
              /\ \A rb \in Readers \X Blocks : GoneOn(GetRank, cache.want[rb], cache'.want[rb])
              /\ \A w \in Writers : GoneOn(ImportRank, stage[w], stage'[w])
              /\ \A r \in Readers : GoneOn(LoadRank, stage[r], stage'[r])
              /\ \/ put' # put \/ cache'.want # cache.want \/ stage' # stage \/ faults' > faults
                 \/ \E b \in Blocks : /\ cache.seen[b] = "unopened"
                                      /\ cache' = [cache EXCEPT !.seen[b] = file[b]]]_vars
  <2>0. DiskInv
    BY <1>1 DEF WaitInv, CacheInv
  <2>1. \A wb \in Writers \X Blocks : GoneOn(PutRank, put[wb], put'[wb])
    BY <1>1, <2>0, PutsGoForward
  <2>2. \A rb \in Readers \X Blocks : GoneOn(GetRank, cache.want[rb], cache'.want[rb])
    BY <1>1, GetsGoForward
  <2>3. /\ \A w \in Writers : GoneOn(ImportRank, stage[w], stage'[w])
        /\ \A r \in Readers : GoneOn(LoadRank, stage[r], stage'[r])
    BY <1>1, <2>0, StagesGoForward
  <2>4. CASE Next
    BY <1>1, <2>1, <2>2, <2>3, <2>4, WorkIsDone
  <2> QED
    BY <1>1, <2>4
<1>2. Spec => []WaitInv
  BY WaitInit, WaitStep, PTL DEF Spec
<1> QED
  BY <1>1, <1>2, PTL DEF Spec, CallsGoForward

=============================================================================
