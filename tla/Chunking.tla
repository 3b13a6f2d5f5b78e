------------------------------ MODULE Chunking ------------------------------
(***************************************************************************)
(* The arithmetic that splits one paint task into row bands, and the       *)
(* arithmetic the painter applies to one band.  Pure operators: the        *)
(* module Scatter builds its steps from them.                              *)
(*                                                                         *)
(* A geometry g is a record [w, h]: the pixelWidth and pixelHeight of the  *)
(* region map (pixelSize is 1, the only value GenModelArtist accepts).     *)
(* Quotients of integers are computed by the code in doubles; they are     *)
(* exact for every size an image can have, so the integers are faithful.   *)
(***************************************************************************)
EXTENDS Integers

Geometry == [w : Nat \ {0}, h : Nat \ {0}]

\* Math.ceil(a / b) for b > 0.
CeilDiv(a, b) == (a + b - 1) \div b

LesserOf(a, b) == IF a <= b THEN a ELSE b
GreaterOf(a, b) == IF a >= b THEN a ELSE b

\* The number of parts, and the height of each but the last.
ChunkCount(g, perJob) == GreaterOf(1, CeilDiv(g.w * g.h, perJob))
RowsPerChunk(g, perJob) == CeilDiv(g.h, ChunkCount(g, perJob))

\* The canvas fragment of part ii: the rows fragmentFirstRow .. fragmentLastRow.
FirstRow(g, perJob, ii) == ii * RowsPerChunk(g, perJob)
LastRowInclusive(g, perJob, ii) ==  \* mutant
  LesserOf(FirstRow(g, perJob, ii) + RowsPerChunk(g, perJob), g.h - 1)
LastRow(g, perJob, ii) ==
  LesserOf(FirstRow(g, perJob, ii) + RowsPerChunk(g, perJob) - 1, g.h - 1)
CanvasFragment(g, perJob, ii) ==
  [index |-> ii, first |-> FirstRow(g, perJob, ii), last |-> LastRow(g, perJob, ii)]

\* The rows a fragment claims (none when last < first).
RowsOf(f) == f.first .. f.last

\* finalY - initialY as the painter computes it from the fragment and from the
\* region map it loads itself.  It is negative when the fragment starts below
\* the image, and then allocating the pixel buffer throws a RangeError.
PaintedHeightPastEnd(g, f) == LesserOf(g.h, f.last + 2) - f.first  \* mutant
PaintedHeight(g, f) == LesserOf(g.h, f.last + 1) - f.first
AllocatableAlways(g, f) == TRUE  \* mutant
Allocatable(g, f) == PaintedHeight(g, f) >= 0
=============================================================================
