--------------------------- MODULE ScatterProofs ----------------------------
(***************************************************************************)
(* For every set of image sizes and every pixel budget: the scatter loop   *)
(* partitions the rows, gathering writes each row at most once, and a      *)
(* staged image is whole.                                                  *)
(***************************************************************************)
EXTENDS Scatter, TLAPS

-----------------------------------------------------------------------------
(* The arithmetic of the two rounded-up quotients. *)

\* The quotient rounded up, times the divisor, reaches the dividend.
LEMMA CeilDivReaches ==
  ASSUME NEW a \in Nat, NEW b \in Nat \ {0}
  PROVE  /\ CeilDiv(a, b) \in Nat
         /\ a <= CeilDiv(a, b) * b
         /\ a > 0 => CeilDiv(a, b) > 0
  BY DEF CeilDiv

\* A task has at least one part, a part is at least one row high by intent, and
\* the parts together reach the bottom of the image.
LEMMA ChunksReach ==
  ASSUME NEW g \in Geometry, NEW p \in Nat \ {0}
  PROVE  /\ ChunkCount(g, p) \in Nat \ {0}
         /\ RowsPerChunk(g, p) \in Nat \ {0}
         /\ g.h <= RowsPerChunk(g, p) * ChunkCount(g, p)
<1> DEFINE pixels == g.w * g.h
<1>1. g.w \in Nat \ {0} /\ g.h \in Nat \ {0}
  BY DEF Geometry
<1>2. pixels \in Nat
  BY <1>1
<1>3. CeilDiv(pixels, p) \in Nat
  BY <1>2, CeilDivReaches
<1>4. ChunkCount(g, p) \in Nat \ {0}
  BY <1>3 DEF ChunkCount, GreaterOf
<1>5. /\ RowsPerChunk(g, p) \in Nat \ {0}
      /\ g.h <= RowsPerChunk(g, p) * ChunkCount(g, p)
  BY <1>1, <1>4, CeilDivReaches DEF RowsPerChunk
<1>6. QED
  BY <1>4, <1>5

\* A row lies in the part numbered by the quotient of the row and the height.
LEMMA RowCovered ==
  ASSUME NEW g \in Geometry, NEW p \in Nat \ {0}, NEW r \in 0 .. (g.h - 1)
  PROVE  \E ii \in 0 .. (ChunkCount(g, p) - 1) : r \in RowsOf(CanvasFragment(g, p, ii))
<1> DEFINE n == ChunkCount(g, p)
           k == RowsPerChunk(g, p)
           q == r \div k
<1>1. g.h \in Nat \ {0} /\ r \in Nat /\ r < g.h
  BY DEF Geometry
<1>2. n \in Nat \ {0} /\ k \in Nat \ {0} /\ g.h <= k * n
  BY ChunksReach
<1> HIDE DEF n, k
<1>3. q \in Nat /\ q * k <= r /\ r < q * k + k
  BY <1>1, <1>2
<1> HIDE DEF q
<1>4. q < n
  <2>1. SUFFICES ASSUME q >= n PROVE FALSE
    BY <1>2, <1>3
  <2>2. q * k >= n * k
    BY <2>1, <1>2, <1>3
  <2>3. QED
    BY <2>2, <1>1, <1>2, <1>3
<1>5. FirstRow(g, p, q) = q * k
  BY DEF FirstRow, k
<1>6. r \in FirstRow(g, p, q) .. LastRow(g, p, q)
  <2> DEFINE first == q * k
  <2>1. LastRow(g, p, q) = LesserOf(first + k - 1, g.h - 1)
    BY <1>5 DEF LastRow, k
  <2>2. first \in Nat
    BY <1>2, <1>3
  <2> HIDE DEF first
  <2>3. first <= r /\ r < first + k
    BY <1>3 DEF first
  <2>4. QED
    BY <2>1, <2>2, <2>3, <1>1, <1>2, <1>5 DEF LesserOf, first
<1>7. r \in RowsOf(CanvasFragment(g, p, q))
  BY <1>6 DEF RowsOf, CanvasFragment
<1>8. q \in 0 .. (ChunkCount(g, p) - 1)
  BY <1>2, <1>3, <1>4 DEF n
<1>9. QED
  BY <1>7, <1>8

\* No row lies in two parts.
LEMMA RowUnique ==
  ASSUME NEW g \in Geometry, NEW p \in Nat \ {0}, NEW i \in Nat, NEW j \in Nat,
         NEW r \in Int,
         r \in RowsOf(CanvasFragment(g, p, i)), r \in RowsOf(CanvasFragment(g, p, j))
  PROVE  i = j
<1> DEFINE k == RowsPerChunk(g, p)
<1>1. k \in Nat \ {0} /\ g.h \in Nat \ {0}
  BY ChunksReach DEF Geometry
<1>2. \A m \in Nat : r \in RowsOf(CanvasFragment(g, p, m)) => m * k <= r /\ r < m * k + k
  <2> HIDE DEF k
  <2>1. TAKE m \in Nat
  <2>2. HAVE r \in RowsOf(CanvasFragment(g, p, m))
  <2>3. r \in FirstRow(g, p, m) .. LastRow(g, p, m)
    BY <2>2 DEF RowsOf, CanvasFragment
  <2> DEFINE first == m * k
  <2>4. first \in Nat
    BY <1>1
  <2>5. FirstRow(g, p, m) = first
    BY DEF FirstRow, k
  <2>6. LastRow(g, p, m) = LesserOf(first + k - 1, g.h - 1)
    BY <2>5 DEF LastRow, k
  <2> HIDE DEF first
  <2>7. first <= r /\ r < first + k
    BY <1>1, <2>3, <2>4, <2>5, <2>6 DEF LesserOf
  <2>8. QED
    BY <2>7 DEF first
<1> HIDE DEF k
<1>3. i * k <= r /\ r < i * k + k /\ j * k <= r /\ r < j * k + k
  BY <1>2
<1>4. ~(i < j)
  <2>1. SUFFICES ASSUME i + 1 <= j PROVE FALSE
    BY <1>1
  <2>2. (i + 1) * k <= j * k
    BY <2>1, <1>1
  <2>3. QED
    BY <2>2, <1>1, <1>3
<1>5. ~(j < i)
  <2>1. SUFFICES ASSUME j + 1 <= i PROVE FALSE
    BY <1>1
  <2>2. (j + 1) * k <= i * k
    BY <2>1, <1>1
  <2>3. QED
    BY <2>2, <1>1, <1>3
<1>6. QED
  BY <1>4, <1>5

-----------------------------------------------------------------------------
(* The types. *)

LEMMA PartsAreNaturals ==
  ASSUME geom \in Geometry, perJob \in Nat
  PROVE  /\ Parts \subseteq Nat
         /\ perJob # 0 => Parts = 0 .. (ChunkCount(geom, perJob) - 1)
         /\ perJob # 0 => ChunkCount(geom, perJob) \in Nat \ {0}
  BY ChunksReach DEF Parts

LEMMA FragmentType ==
  ASSUME NEW g \in Geometry, NEW p \in Nat \ {0}, NEW ii \in Nat
  PROVE  CanvasFragment(g, p, ii) \in [index : Nat, first : Nat, last : Int]
<1> DEFINE k == RowsPerChunk(g, p)
           first == ii * k
<1>1. k \in Nat \ {0} /\ g.h \in Nat
  BY ChunksReach DEF Geometry
<1> HIDE DEF k
<1>2. first \in Nat
  BY <1>1
<1> HIDE DEF first
<1>3. FirstRow(g, p, ii) = first
  BY DEF FirstRow, first, k
<1>4. LastRow(g, p, ii) = LesserOf(first + k - 1, g.h - 1)
  BY <1>3 DEF LastRow, k
<1>5. LastRow(g, p, ii) \in Int
  BY <1>1, <1>2, <1>4 DEF LesserOf
<1>6. QED
  BY <1>2, <1>3, <1>5 DEF CanvasFragment

\* Every reachable state has the types TypeOK states.
THEOREM TypeCorrect == Spec => []TypeOK
<1>1. Init => TypeOK
  <2>1. SUFFICES ASSUME Init PROVE TypeOK
    OBVIOUS
  <2>2. QED
    BY <2>1, GeometriesAssumption, PixelBudgetsAssumption
    DEF Init, TypeOK, Phases, Blank
<1>2. TypeOK /\ [Next]_vars => TypeOK'
  <2> SUFFICES ASSUME TypeOK, [Next]_vars PROVE TypeOK'
    OBVIOUS
  <2>0. geom \in Geometry /\ perJob \in Nat
    BY GeometriesAssumption, PixelBudgetsAssumption DEF TypeOK
  <2>1. CASE RefuseZeroBudget
    BY <2>1 DEF RefuseZeroBudget, TypeOK, Phases, Parts, task
  <2>2. CASE ScatterPart
    <3>1. CanvasFragment(geom, perJob, made) \in [index : Nat, first : Nat, last : Int]
      BY <2>2, <2>0, FragmentType DEF ScatterPart, TypeOK
    <3>2. QED
      BY <2>2, <3>1 DEF ScatterPart, TypeOK, Parts, task
  <2>3. CASE Enqueue
    BY <2>3 DEF Enqueue, TypeOK, Phases, Parts, task
  <2>4. ASSUME NEW ii \in Parts, PaintPart(ii) PROVE TypeOK'
    BY <2>4 DEF PaintPart, TypeOK, Parts, task
  <2>5. ASSUME NEW ii \in Parts, MergePart(ii) PROVE TypeOK'
    <3>1. image' = image \/ image' = Merged(ii)
      BY <2>5 DEF MergePart
    <3>2. UNCHANGED <<geom, perJob>> /\ Parts' = Parts
      BY <2>5 DEF MergePart, task, Parts
    <3>3. image' \in [0 .. (geom.h - 1) -> Parts \cup {Blank}]
      BY <3>1 DEF Merged, TypeOK
    <3> QED
      BY <2>5, <3>2, <3>3 DEF MergePart, TypeOK, Phases, task
  <2>6. CASE FinishGather
    BY <2>6 DEF FinishGather, TypeOK, Phases, Parts, task
  <2>7. CASE UNCHANGED vars
    BY <2>7 DEF vars, task, TypeOK, Parts
  <2>8. QED
    BY <2>1, <2>2, <2>3, <2>4, <2>5, <2>6, <2>7 DEF Next
<1>3. QED
  BY <1>1, <1>2, PTL DEF Spec

-----------------------------------------------------------------------------
(* The scatter loop. *)

\* jobs is what the loop has made so far, and the loop ends with all of it.
LEMMA JobsInvariant == Spec => []JobsInv
<1>1. Init => JobsInv
  <2>1. SUFFICES ASSUME Init PROVE JobsInv
    OBVIOUS
  <2>2. geom \in Geometry /\ perJob \in Nat
    BY <2>1, GeometriesAssumption, PixelBudgetsAssumption DEF Init
  <2>3. perJob # 0 => ChunkCount(geom, perJob) \in Nat
    BY <2>2, PartsAreNaturals
  <2>4. QED
    BY <2>1, <2>2, <2>3 DEF Init, JobsInv
<1>2. TypeOK /\ JobsInv /\ [Next]_vars => JobsInv'
  <2> SUFFICES ASSUME TypeOK, JobsInv, [Next]_vars PROVE JobsInv'
    OBVIOUS
  <2>0. /\ geom \in Geometry /\ perJob \in Nat /\ made \in Nat
        /\ perJob # 0 => Parts = 0 .. (ChunkCount(geom, perJob) - 1)
        /\ perJob # 0 => ChunkCount(geom, perJob) \in Nat \ {0}
    BY GeometriesAssumption, PixelBudgetsAssumption, PartsAreNaturals DEF TypeOK
  <2>1. CASE RefuseZeroBudget
    BY <2>1 DEF RefuseZeroBudget, JobsInv, task
  <2>2. CASE ScatterPart
    <3>1. geom' = geom /\ perJob' = perJob /\ phase' = phase /\ made' = made + 1
      BY <2>2 DEF ScatterPart, task
    <3>2. 0 .. (made' - 1) = (0 .. (made - 1)) \cup {made}
      BY <2>0, <3>1
    <3>3. jobs' = {CanvasFragment(geom, perJob, ii) : ii \in 0 .. (made' - 1)}
      BY <2>2, <3>2 DEF ScatterPart, JobsInv, task
    <3>4. perJob # 0 /\ made' <= ChunkCount(geom, perJob)
      BY <2>2, <2>0, <3>1 DEF ScatterPart
    <3>5. phase = "scattering"
      BY <2>2 DEF ScatterPart
    <3>6. QED
      BY <3>1, <3>3, <3>4, <3>5 DEF JobsInv
  <2>3. CASE Enqueue
    <3>1. made = ChunkCount(geom, perJob)
      BY <2>3, <2>0 DEF Enqueue, JobsInv, task
    <3>2. QED
      BY <2>3, <3>1 DEF Enqueue, JobsInv, task
  <2>4. ASSUME NEW ii \in Parts, PaintPart(ii) PROVE JobsInv'
    BY <2>4 DEF PaintPart, JobsInv, task
  <2>5. ASSUME NEW ii \in Parts, MergePart(ii) PROVE JobsInv'
    BY <2>5 DEF MergePart, JobsInv, task
  <2>6. CASE FinishGather
    BY <2>6 DEF FinishGather, JobsInv, task
  <2>7. CASE UNCHANGED vars
    BY <2>7 DEF vars, task, JobsInv
  <2>8. QED
    BY <2>1, <2>2, <2>3, <2>4, <2>5, <2>6, <2>7 DEF Next
<1>3. QED
  BY <1>1, <1>2, TypeCorrect, PTL DEF Spec

\* After the loop the fragments partition the rows of the image.
LEMMA JobsPartitionRows == TypeOK /\ JobsInv => RowsPartitioned
<1> SUFFICES ASSUME TypeOK, JobsInv, phase \notin {"scattering", "refused"},
                    NEW r \in 0 .. (geom.h - 1)
             PROVE  /\ \E f \in jobs : r \in RowsOf(f)
                    /\ \A f1, f2 \in jobs :
                         r \in RowsOf(f1) /\ r \in RowsOf(f2) => f1 = f2
  BY DEF RowsPartitioned
<1>1. /\ geom \in Geometry /\ perJob \in Nat \ {0}
      /\ jobs = {CanvasFragment(geom, perJob, ii) : ii \in 0 .. (ChunkCount(geom, perJob) - 1)}
  BY GeometriesAssumption, PixelBudgetsAssumption DEF TypeOK, JobsInv
<1>2. \E f \in jobs : r \in RowsOf(f)
  BY <1>1, RowCovered
<1>3. ASSUME NEW f1 \in jobs, NEW f2 \in jobs, r \in RowsOf(f1), r \in RowsOf(f2)
      PROVE  f1 = f2
  <2>1. PICK i \in 0 .. (ChunkCount(geom, perJob) - 1) : f1 = CanvasFragment(geom, perJob, i)
    BY <1>1
  <2>2. PICK j \in 0 .. (ChunkCount(geom, perJob) - 1) : f2 = CanvasFragment(geom, perJob, j)
    BY <1>1
  <2>3. i = j
    BY <1>1, <1>3, <2>1, <2>2, RowUnique
  <2>4. QED
    BY <2>1, <2>2, <2>3
<1>4. QED
  BY <1>2, <1>3

\* For every image size and every budget the scatter loop leaves no row out and
\* gives none to two parts.
THEOREM RowsArePartitioned == Spec => []RowsPartitioned
  BY TypeCorrect, JobsInvariant, JobsPartitionRows, PTL

-----------------------------------------------------------------------------
(* The gather job. *)

\* The facts of a state after the scatter loop that the gather steps rest on.
LEMMA AfterScatter ==
  ASSUME TypeOK, JobsInv, phase \notin {"scattering", "refused"}
  PROVE  /\ geom \in Geometry /\ perJob \in Nat \ {0}
         /\ Parts = 0 .. (ChunkCount(geom, perJob) - 1)
         /\ ChunkCount(geom, perJob) \in Nat \ {0}
         /\ jobs = {CanvasFragment(geom, perJob, ii) : ii \in Parts}
<1>1. geom \in Geometry /\ perJob \in Nat \ {0}
  BY GeometriesAssumption, PixelBudgetsAssumption DEF TypeOK, JobsInv
<1>2. /\ Parts = 0 .. (ChunkCount(geom, perJob) - 1)
      /\ ChunkCount(geom, perJob) \in Nat \ {0}
  BY <1>1, PartsAreNaturals
<1>3. QED
  BY <1>1, <1>2 DEF JobsInv

\* The fragment found by its index is the one the loop made with that index, and
\* the rows the painter paints for it are the rows it claims.
LEMMA PaintedRows ==
  ASSUME TypeOK, JobsInv, phase \notin {"scattering", "refused"}, NEW ii \in Parts
  PROVE  /\ FragmentOf(ii) = CanvasFragment(geom, perJob, ii)
         /\ LET f == FragmentOf(ii)
            IN f.first .. (f.first + PaintedHeight(geom, f) - 1) = RowsOf(f)
<1> DEFINE c == CanvasFragment(geom, perJob, ii)
<1>1. c \in jobs /\ c.index = ii
  BY AfterScatter DEF CanvasFragment
<1>2. \A f \in jobs : f.index = ii => f = c
  BY AfterScatter DEF CanvasFragment
<1>3. FragmentOf(ii) = c
  BY <1>1, <1>2 DEF FragmentOf
<1>4. c.first \in Nat /\ c.last \in Int /\ geom.h \in Nat
  <2>1. ii \in Nat /\ geom \in Geometry /\ perJob \in Nat \ {0}
    BY AfterScatter
  <2>2. c \in [index : Nat, first : Nat, last : Int]
    BY <2>1, FragmentType
  <2>3. geom.h \in Nat
    BY <2>1 DEF Geometry
  <2> HIDE DEF c
  <2>4. QED
    BY <2>2, <2>3
<1>5. c.last <= geom.h - 1
  <2> DEFINE top == FirstRow(geom, perJob, ii) + RowsPerChunk(geom, perJob) - 1
  <2>1. RowsPerChunk(geom, perJob) \in Nat
    BY AfterScatter, ChunksReach
  <2>2. c.first = FirstRow(geom, perJob, ii) /\ c.last = LesserOf(top, geom.h - 1)
    BY DEF CanvasFragment, LastRow
  <2>3. top \in Int
    BY <1>4, <2>1, <2>2
  <2> HIDE DEF top, c
  <2>4. QED
    BY <1>4, <2>2, <2>3 DEF LesserOf
<1> HIDE DEF c
<1>6. PaintedHeight(geom, c) = c.last + 1 - c.first
  BY <1>4, <1>5 DEF PaintedHeight, LesserOf
<1>7. c.first .. (c.first + PaintedHeight(geom, c) - 1) = RowsOf(c)
  BY <1>4, <1>6 DEF RowsOf
<1>8. QED
  BY <1>3, <1>7 DEF c

\* A merge writes the rows of its fragment, and none of them was written before.
LEMMA MergeWritesFreshRows ==
  ASSUME TypeOK, JobsInv, ImageInv, NEW ii \in Parts, MergePart(ii),
         image' # image \/ merged' # merged
  PROVE  /\ merged' = merged \cup {ii}
         /\ \A r \in DOMAIN image :
              image'[r] = IF r \in RowsOf(CanvasFragment(geom, perJob, ii))
                            THEN ii ELSE image[r]
         /\ \A r \in DOMAIN image :
              image[r] # Blank => r \notin RowsOf(CanvasFragment(geom, perJob, ii))
<1>1. phase = "painting" /\ ii \notin merged
  BY DEF MergePart
<1>2. /\ merged' = merged \cup {ii}
      /\ image' = [r \in DOMAIN image |->
                     IF r \in RowsOf(CanvasFragment(geom, perJob, ii)) THEN ii ELSE image[r]]
  BY <1>1, PaintedRows DEF MergePart, Merged
<1>3. ASSUME NEW r \in DOMAIN image, image[r] # Blank,
             r \in RowsOf(CanvasFragment(geom, perJob, ii))
      PROVE  FALSE
  <2>1. image[r] \in merged /\ r \in RowsOf(CanvasFragment(geom, perJob, image[r]))
    BY <1>3 DEF ImageInv
  <2>2. merged \subseteq Nat /\ ii \in Nat /\ r \in Int
    BY <1>1, AfterScatter DEF TypeOK
  <2>3. image[r] = ii
    BY <1>1, <1>3, <2>1, <2>2, AfterScatter, RowUnique
  <2>4. QED
    BY <1>1, <2>1, <2>3
<1>4. QED
  BY <1>2, <1>3

\* The image holds the rows of the merged parts and nothing else.
LEMMA ImageInvariant == Spec => []ImageInv
<1>1. Init => ImageInv
  BY DEF Init, ImageInv
<1>2. TypeOK /\ JobsInv /\ ImageInv /\ [Next]_vars => ImageInv'
  <2> SUFFICES ASSUME TypeOK, JobsInv, ImageInv, [Next]_vars PROVE ImageInv'
    OBVIOUS
  <2>1. CASE RefuseZeroBudget
    BY <2>1 DEF RefuseZeroBudget, ImageInv, task
  <2>2. CASE ScatterPart
    BY <2>2 DEF ScatterPart, ImageInv, task
  <2>3. CASE Enqueue
    BY <2>3 DEF Enqueue, ImageInv, task
  <2>4. ASSUME NEW ii \in Parts, PaintPart(ii) PROVE ImageInv'
    BY <2>4 DEF PaintPart, ImageInv, task
  <2>5. ASSUME NEW ii \in Parts, MergePart(ii) PROVE ImageInv'
    <3>1. CASE image' # image \/ merged' # merged
      <4>1. /\ merged' = merged \cup {ii} /\ DOMAIN image' = DOMAIN image
            /\ \A r \in DOMAIN image :
                 image'[r] = IF r \in RowsOf(CanvasFragment(geom, perJob, ii))
                               THEN ii ELSE image[r]
        BY <2>5, <3>1, MergeWritesFreshRows DEF MergePart, Merged
      <4>2. /\ \A r \in DOMAIN image :
                 image[r] # Blank => r \notin RowsOf(CanvasFragment(geom, perJob, ii))
        BY <2>5, <3>1, MergeWritesFreshRows
      <4>3. \A r \in DOMAIN image : \A j \in merged :
              r \in RowsOf(CanvasFragment(geom, perJob, j)) => image[r] = j
        BY DEF ImageInv
      <4>4. phase' \in {"painting", "failed"} /\ geom' = geom /\ perJob' = perJob
        BY <2>5 DEF MergePart, task
      <4>5. Blank \notin Parts
        BY <2>5, AfterScatter DEF MergePart, Blank
      <4>6. merged \subseteq Parts
        BY DEF TypeOK
      <4>7. QED
        BY <4>1, <4>2, <4>3, <4>4, <4>5, <4>6 DEF ImageInv
    <3>2. CASE image' = image /\ merged' = merged
      <4>1. phase = "painting" /\ phase' \in {"painting", "failed"}
        BY <2>5 DEF MergePart
      <4>2. geom' = geom /\ perJob' = perJob
        BY <2>5 DEF MergePart, task
      <4> QED
        BY <3>2, <4>1, <4>2 DEF ImageInv
    <3>3. QED
      BY <3>1, <3>2
  <2>6. CASE FinishGather
    BY <2>6 DEF FinishGather, ImageInv, Parts, task
  <2>7. CASE UNCHANGED vars
    BY <2>7 DEF vars, task, ImageInv, Parts
  <2>8. QED
    BY <2>1, <2>2, <2>3, <2>4, <2>5, <2>6, <2>7 DEF Next
<1>3. QED
  BY <1>1, <1>2, TypeCorrect, JobsInvariant, PTL DEF Spec

\* For every size and budget, no merge overwrites a row another part painted:
\* the order in which the children are listed cannot show in the image.
THEOREM RowsAreWrittenOnce == Spec => RowsWrittenOnce
<1>1. TypeOK /\ JobsInv /\ ImageInv /\ [Next]_vars =>
        [\A r \in DOMAIN image : image[r] # Blank => image'[r] = image[r]]_vars
  <2> SUFFICES ASSUME TypeOK, JobsInv, ImageInv, Next,
                      NEW r \in DOMAIN image, image[r] # Blank
               PROVE  image'[r] = image[r]
    OBVIOUS
  <2>1. ASSUME NEW ii \in Parts, MergePart(ii) PROVE image'[r] = image[r]
    <3>1. CASE image' = image
      BY <3>1
    <3>2. CASE image' # image
      BY <2>1, <3>2, MergeWritesFreshRows DEF MergePart
    <3>3. QED
      BY <3>1, <3>2
  <2>2. QED
    BY <2>1 DEF Next, RefuseZeroBudget, ScatterPart, Enqueue, PaintPart, FinishGather
<1>2. QED
  BY <1>1, TypeCorrect, JobsInvariant, ImageInvariant, PTL DEF Spec, RowsWrittenOnce

\* For every size and budget, an image that gets staged has each row painted by
\* the part whose fragment claims it.
THEOREM StagedImageIsWhole == Spec => []StagedImageWhole
<1>1. TypeOK /\ JobsInv /\ ImageInv => StagedImageWhole
  <2> SUFFICES ASSUME TypeOK, JobsInv, ImageInv, phase = "staged", NEW r \in DOMAIN image
               PROVE  \E f \in jobs : r \in RowsOf(f) /\ image[r] = f.index
    BY DEF StagedImageWhole
  <2>1. r \in 0 .. (geom.h - 1)
    BY DEF TypeOK
  <2>2. PICK f \in jobs : r \in RowsOf(f)
    BY <2>1, JobsPartitionRows DEF RowsPartitioned
  <2>3. PICK ii \in Parts : f = CanvasFragment(geom, perJob, ii)
    BY <2>2, AfterScatter
  <2>4. ii \in merged
    BY DEF ImageInv
  <2>5. image[r] = ii /\ f.index = ii
    BY <2>2, <2>3, <2>4 DEF ImageInv, CanvasFragment
  <2>6. QED
    BY <2>2, <2>5
<1>2. QED
  BY <1>1, TypeCorrect, JobsInvariant, ImageInvariant, PTL

-----------------------------------------------------------------------------
(* Which tasks are lost. *)

\* A part can be painted unless it starts below the image.
LEMMA AllocatableParts ==
  ASSUME TypeOK, JobsInv, phase \notin {"scattering", "refused"}, NEW ii \in Parts
  PROVE  Allocatable(geom, FragmentOf(ii)) <=> FirstRow(geom, perJob, ii) <= geom.h
<1> DEFINE k == RowsPerChunk(geom, perJob)
           first == FirstRow(geom, perJob, ii)
           c == CanvasFragment(geom, perJob, ii)
<1>1. ii \in Nat /\ geom \in Geometry /\ perJob \in Nat \ {0}
  BY AfterScatter
<1>2. k \in Nat \ {0} /\ geom.h \in Nat
  BY <1>1, ChunksReach DEF Geometry
<1>3. c.first = first /\ c.last = LesserOf(first + k - 1, geom.h - 1)
  BY DEF CanvasFragment, LastRow
<1>4. first \in Nat
  BY <1>1, FragmentType DEF CanvasFragment
<1>5. FragmentOf(ii) = c
  BY PaintedRows
<1> HIDE DEF k, first, c
<1>6. PaintedHeight(geom, c) >= 0 <=> first <= geom.h
  BY <1>2, <1>3, <1>4 DEF PaintedHeight, LesserOf
<1> QED
  BY <1>5, <1>6 DEF Allocatable, first

\* The last part starts lowest.
LEMMA LastPartIsLowest ==
  ASSUME TypeOK, JobsInv, phase \notin {"scattering", "refused"}
  PROVE  /\ ChunkCount(geom, perJob) - 1 \in Parts
         /\ geom.h \in Nat
         /\ \A ii \in Parts :
              /\ FirstRow(geom, perJob, ii) \in Nat
              /\ FirstRow(geom, perJob, ii) <= FirstRow(geom, perJob, ChunkCount(geom, perJob) - 1)
<1> DEFINE n == ChunkCount(geom, perJob)
           k == RowsPerChunk(geom, perJob)
<1>1. /\ geom \in Geometry /\ perJob \in Nat \ {0}
      /\ n \in Nat \ {0} /\ Parts = 0 .. (n - 1)
  BY AfterScatter
<1>2. k \in Nat \ {0} /\ geom.h \in Nat
  BY <1>1, ChunksReach DEF Geometry
<1>3. \A ii \in Parts : FirstRow(geom, perJob, ii) = ii * k
  BY DEF FirstRow
<1> HIDE DEF n, k
<1>4. n - 1 \in Parts
  BY <1>1
<1>5. ASSUME NEW ii \in Parts
      PROVE  ii * k \in Nat /\ ii * k <= (n - 1) * k
  <2>1. ii \in Nat /\ n - 1 \in Nat /\ ii <= n - 1
    BY <1>1
  <2>2. \A a, b, m \in Nat : a <= b => a * m \in Nat /\ a * m <= b * m
    OBVIOUS
  <2> QED
    BY <1>2, <2>1, <2>2
<1> QED
  BY <1>2, <1>3, <1>4, <1>5 DEF n

\* What an answer tells of its part: only painted parts are merged, something that
\* threw has left an error behind or has failed the task.
ReplyInv ==
  /\ phase \notin {"scattering", "refused"} =>
       \A ii \in Parts :
         /\ reply[ii] = "error" =>
              \/ FirstRow(geom, perJob, ii) > geom.h
              \/ check = "as written"
              \/ threw
         /\ reply[ii] = "painted" =>
              /\ FirstRow(geom, perJob, ii) <= geom.h
              /\ check # "as written"
         /\ ii \in merged => reply[ii] = "painted"
  /\ phase = "failed" => threw \/ check = "as written" \/ \E ii \in Parts : reply[ii] = "error"
  /\ phase = "staged" => ~threw /\ check # "as written"
  /\ threw => phase = "failed" \/ \E ii \in Parts : reply[ii] = "error"
  /\ phase \in {"scattering", "refused"} => ~threw

LEMMA ReplyInvariant == Spec => []ReplyInv
<1>1. Init => ReplyInv
  BY DEF Init, ReplyInv
<1>2. TypeOK /\ JobsInv /\ ImageInv /\ ReplyInv /\ [Next]_vars => ReplyInv'
  <2> SUFFICES ASSUME TypeOK, JobsInv, ImageInv, ReplyInv, [Next]_vars PROVE ReplyInv'
    OBVIOUS
  <2>1. CASE RefuseZeroBudget
    BY <2>1 DEF RefuseZeroBudget, ReplyInv, task
  <2>2. CASE ScatterPart
    BY <2>2 DEF ScatterPart, ReplyInv, task
  <2>3. CASE Enqueue
    BY <2>3 DEF Enqueue, ReplyInv, ImageInv, Parts, task
  <2>4. ASSUME NEW ii \in Parts, PaintPart(ii) PROVE ReplyInv'
    <3> DEFINE f == FragmentOf(ii)
               rows == PaintedHeight(geom, f)
               fits == /\ Allocatable(geom, f)
                       /\ ~PixelsDataRejected(4 * geom.w * rows, geom.w, rows)
    <3>1. phase = "painting" /\ reply[ii] = "none" /\ ii \notin merged
      BY <2>4 DEF PaintPart, ReplyInv, task
    <3>2. \/ fits /\ reply' = [reply EXCEPT ![ii] = "painted"] /\ threw' = threw
          \/ ~fits /\ reply' = [reply EXCEPT ![ii] = "error"] /\ threw' = threw
          \/ reply' = [reply EXCEPT ![ii] = "error"] /\ threw' = TRUE
      BY <2>4 DEF PaintPart
    <3>3. PixelsDataRejected(4 * geom.w * rows, geom.w, rows) <=> check = "as written"
      BY DEF PixelsDataRejected
    <3>4. fits <=> FirstRow(geom, perJob, ii) <= geom.h /\ check # "as written"
      BY <3>1, <3>3, AllocatableParts
    <3>5. FirstRow(geom, perJob, ii) \in Nat /\ geom.h \in Nat
      BY <3>1, LastPartIsLowest
    <3> HIDE DEF fits
    <3>6. reply \in [Parts -> {"none", "painted", "error"}] /\ threw \in BOOLEAN
      BY <3>1 DEF TypeOK
    <3>7. UNCHANGED <<geom, perJob, check, phase, merged>> /\ Parts' = Parts
      BY <2>4 DEF PaintPart, Parts, task
    <3>8. ~threw => \A jj \in Parts : reply[jj] = "error" =>
                      FirstRow(geom, perJob, jj) > geom.h \/ check = "as written"
      BY <3>1 DEF ReplyInv
    <3>9. \A jj \in Parts : /\ reply[jj] = "painted" =>
                               /\ FirstRow(geom, perJob, jj) <= geom.h
                               /\ check # "as written"
                            /\ jj \in merged => reply[jj] = "painted"
      BY <3>1 DEF ReplyInv
    <3>10. threw => \E jj \in Parts : reply[jj] = "error"
      BY <3>1 DEF ReplyInv
    <3>11. \A jj \in Parts :
             /\ reply'[jj] = "error" =>
                  \/ FirstRow(geom, perJob, jj) > geom.h
                  \/ check = "as written"
                  \/ threw'
             /\ reply'[jj] = "painted" =>
                  /\ FirstRow(geom, perJob, jj) <= geom.h
                  /\ check # "as written"
             /\ jj \in merged => reply'[jj] = "painted"
      <4>1. TAKE jj \in Parts
      <4>2. CASE jj = ii
        <5>1. reply'[ii] \in {"painted", "error"}
          BY <3>2, <3>6
        <5>2. reply'[ii] = "painted" => fits
          BY <3>2, <3>6
        <5>3. reply'[ii] = "error" => ~fits \/ threw'
          BY <3>2, <3>6
        <5>4. ~(FirstRow(geom, perJob, ii) <= geom.h) => FirstRow(geom, perJob, ii) > geom.h
          BY <3>5
        <5> QED
          BY <3>1, <3>4, <4>2, <5>1, <5>2, <5>3, <5>4
      <4>3. CASE jj # ii
        <5>1. reply'[jj] = reply[jj]
          BY <3>2, <3>6, <4>3
        <5>2. threw => threw'
          BY <3>2
        <5> QED
          BY <3>8, <3>9, <5>1, <5>2
      <4> QED
        BY <4>2, <4>3
    <3>12. threw' => \E jj \in Parts : reply'[jj] = "error"
      BY <3>1, <3>2, <3>6, <3>10
    <3> QED
      BY <3>1, <3>7, <3>11, <3>12 DEF ReplyInv
  <2>5. ASSUME NEW ii \in Parts, MergePart(ii) PROVE ReplyInv'
    <3>1. /\ UNCHANGED <<geom, perJob, check, reply>> /\ Parts' = Parts
          /\ phase = "painting" /\ phase' \in {"painting", "failed"}
      BY <2>5 DEF MergePart, Parts, task
    <3>2. /\ merged' = merged \/ (merged' = merged \cup {ii} /\ reply[ii] = "painted")
          /\ \/ phase' = "painting" /\ threw' = threw
             \/ phase' = "failed" /\ threw' = TRUE
             \/ phase' = "failed" /\ threw' = threw /\ reply[ii] = "error"
      BY <2>5, <3>1 DEF MergePart, TypeOK, task
    <3>3. threw => threw'
      BY <3>2
    <3>4. \A jj \in Parts :
            /\ reply'[jj] = "error" =>
                 \/ FirstRow(geom, perJob, jj) > geom.h
                 \/ check = "as written"
                 \/ threw'
            /\ reply'[jj] = "painted" =>
                 /\ FirstRow(geom, perJob, jj) <= geom.h
                 /\ check # "as written"
            /\ jj \in merged' => reply'[jj] = "painted"
      BY <3>1, <3>2, <3>3 DEF ReplyInv
    <3>5. phase' = "failed" => threw' \/ \E jj \in Parts : reply'[jj] = "error"
      BY <3>1, <3>2
    <3>6. threw' => phase' = "failed" \/ \E jj \in Parts : reply'[jj] = "error"
      BY <3>1, <3>2 DEF ReplyInv
    <3> QED
      BY <3>1, <3>4, <3>5, <3>6 DEF ReplyInv
  <2>6. CASE FinishGather
    <3>1. PixelsDataRejected(4 * geom.w * geom.h, geom.w, geom.h) <=> check = "as written"
      BY DEF PixelsDataRejected
    <3>2. /\ UNCHANGED <<geom, perJob, check, reply, merged>> /\ Parts' = Parts
          /\ phase = "painting" /\ merged = Parts
      BY <2>6 DEF FinishGather, Parts, task
    <3>3. \/ check = "as written" /\ phase' = "failed" /\ threw' = threw
          \/ check # "as written" /\ phase' = "staged" /\ threw' = threw
          \/ phase' = "failed" /\ threw' = TRUE
      BY <2>6, <3>1 DEF FinishGather, TypeOK, task
    <3>4. ~threw /\ \A jj \in Parts : reply[jj] = "painted"
      BY <3>2 DEF ReplyInv
    <3>5. \A jj \in Parts : FirstRow(geom, perJob, jj) <= geom.h /\ check # "as written"
      BY <3>2, <3>4 DEF ReplyInv
    <3>6. phase' \in {"staged", "failed"}
      BY <3>3
    <3>7. phase' = "failed" => threw' \/ check = "as written"
      BY <3>3
    <3>8. phase' = "staged" => ~threw' /\ check # "as written"
      BY <3>3, <3>4
    <3>9. threw' => phase' = "failed"
      BY <3>3, <3>4
    <3> QED
      BY <3>2, <3>4, <3>5, <3>6, <3>7, <3>8, <3>9 DEF ReplyInv
  <2>7. CASE UNCHANGED vars
    BY <2>7 DEF vars, task, ReplyInv, Parts
  <2> QED
    BY <2>1, <2>2, <2>3, <2>4, <2>5, <2>6, <2>7 DEF Next
<1> QED
  BY <1>1, <1>2, TypeCorrect, JobsInvariant, ImageInvariant, PTL DEF Spec

\* For all sizes and budgets, and both readings of the pixel check: a task is lost
\* for a cause, and none of the causes lets its image be staged.
THEOREM TasksAreLostForCause == Spec => []LostJustForCause
<1>1. TypeOK /\ JobsInv /\ ImageInv /\ ReplyInv => LostJustForCause
  <2> SUFFICES ASSUME TypeOK, JobsInv, ImageInv, ReplyInv
               PROVE  /\ phase = "failed" => Overshoot \/ check = "as written" \/ threw
                      /\ phase = "staged" => ~Overshoot /\ check # "as written" /\ ~threw
    BY DEF LostJustForCause
  <2> DEFINE last == ChunkCount(geom, perJob) - 1
  <2>1. ASSUME phase = "failed", check # "as written", ~threw PROVE Overshoot
    <3>1. PICK ii \in Parts : reply[ii] = "error"
      BY <2>1 DEF ReplyInv
    <3>2. FirstRow(geom, perJob, ii) > geom.h
      BY <2>1, <3>1 DEF ReplyInv
    <3>3. /\ geom.h \in Nat /\ FirstRow(geom, perJob, ii) \in Nat
          /\ FirstRow(geom, perJob, last) \in Nat
          /\ FirstRow(geom, perJob, ii) <= FirstRow(geom, perJob, last)
      BY <2>1, LastPartIsLowest
    <3> QED
      BY <3>2, <3>3 DEF Overshoot
  <2>2. ASSUME phase = "staged" PROVE ~Overshoot
    <3>1. last \in Parts /\ geom.h \in Nat /\ FirstRow(geom, perJob, last) \in Nat
      BY <2>2, LastPartIsLowest
    <3>2. FirstRow(geom, perJob, last) <= geom.h
      BY <2>2, <3>1 DEF ReplyInv, ImageInv
    <3> QED
      BY <3>1, <3>2 DEF Overshoot
  <2>3. phase = "staged" => check # "as written" /\ ~threw
    BY DEF ReplyInv
  <2> QED
    BY <2>1, <2>2, <2>3
<1> QED
  BY <1>1, TypeCorrect, JobsInvariant, ImageInvariant, ReplyInvariant, PTL

=============================================================================
