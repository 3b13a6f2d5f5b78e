-------------------------- MODULE RegionMapCoding ---------------------------
(***************************************************************************)
(* How a region map is cut into data blocks and read back, and how a band  *)
(* of its rows is plotted.  commit turns the coordinates into four lists   *)
(* of whole numbers, gives each a palette if that is shorter, and blockify *)
(* packs slices of all four into each block, every number in as many bits  *)
(* as the largest of its list needs and every slice filled up to whole     *)
(* bytes.  unblockify reads as many numbers as a slice's bytes have room   *)
(* for, which may be more than went in.                                    *)
(***************************************************************************)
EXTENDS Chunking, Sequences, FiniteSets

CONSTANTS
  Maps,       \* the maps that may be imported: size and lists
  Payload,    \* bytes for lists in a block: chunkSize less BLOCK_OVERHEAD
  MaxNumber   \* bound: of the numbers in a list, and of its length

Dims == {"rowsN", "rowsD", "colsN", "colsD"}
Kinds == {"palettes", "data"}

MapType == [size : Geometry, lists : [Dims -> Seq(0..MaxNumber)]]

\* Numerators are offsets from the left and the bottom boundary, so none is
\* negative; a point has a numerator and a denominator.
ASSUME MapsAssumption ==
  \A m \in Maps :
    /\ m \in MapType
    /\ \A d \in Dims : Len(m.lists[d]) \in 1..MaxNumber
    /\ Len(m.lists["rowsN"]) = Len(m.lists["rowsD"])
    /\ Len(m.lists["colsN"]) = Len(m.lists["colsD"])
ASSUME PayloadAssumption == Payload \in Nat \ {0}

\* k binary digits are what n.toString(2) has: the length of n in binary.
IsWordLen(n, k) == n < 2^k /\ (k > 1 => 2^(k - 1) <= n)

ASSUME NumbersAssumption == MaxNumber \in Nat

VARIABLES
  map,      \* what the builder was given
  coding,   \* dimension -> its palette, its data and their word lengths
  blocks,   \* kind -> the blocks made of it
  read,     \* kind -> how many of its blocks have been read back
  lists,    \* kind -> dimension -> the numbers read back
  plotted   \* the band of rows plotted, and its points in order

vars == <<map, coding, blocks, read, lists, plotted>>

-----------------------------------------------------------------------------
(* paletteMaybe, for a list src that is not empty                          *)

WordLenOfPredecessor(n) ==  \* mutant: as if the values were below n
  IF n = 0 THEN 1 ELSE CHOOSE k \in 1..n : IsWordLen(n - 1, k)
WordLen(n) == CHOOSE k \in 1..(n + 1) : IsWordLen(n, k)

Largest(src) ==
  src[CHOOSE i \in DOMAIN src : \A j \in DOMAIN src : src[j] <= src[i]]

\* The places where a value occurs first: [...new Set(src)] keeps this order.
FirstPlaces(src) == {i \in DOMAIN src : \A j \in 1..(i - 1) : src[j] # src[i]}
Rank(src, i) == Cardinality({j \in FirstPlaces(src) : j < i})

PaletteOf(src) ==
  [k \in 1..Cardinality(FirstPlaces(src)) |->
     src[CHOOSE i \in FirstPlaces(src) : Rank(src, i) = k - 1]]
IndicesOf(src) ==
  [i \in DOMAIN src |-> Rank(src, CHOOSE j \in FirstPlaces(src) : src[j] = src[i])]

PaletteMaybe(src) ==
  LET distinct == Cardinality(FirstPlaces(src))
      indexLen == WordLen(distinct)
      valueLen == WordLen(Largest(src))
  IN  IF Len(src) * indexLen + distinct * valueLen > Len(src) * valueLen
      THEN [palette |-> << >>, data |-> src,
            paletteWordLen |-> 0, baseWordLen |-> valueLen]
      ELSE [palette |-> PaletteOf(src), data |-> IndicesOf(src),
            paletteWordLen |-> valueLen, baseWordLen |-> indexLen]

-----------------------------------------------------------------------------
(* blockify                                                                *)

ListOf(kind, d) == IF kind = "palettes" THEN coding[d].palette ELSE coding[d].data
WordOf(kind, d) ==
  IF kind = "palettes" THEN coding[d].paletteWordLen ELSE coding[d].baseWordLen

Bytes(len, word) == CeilDiv(word * len, 8)
ListBytes(kind, d) == Bytes(Len(ListOf(kind, d)), WordOf(kind, d))
TotalSize(kind) ==
  ListBytes(kind, "rowsN") + ListBytes(kind, "rowsD")
    + ListBytes(kind, "colsN") + ListBytes(kind, "colsD")

MinBlockCount(kind) == CeilDiv(TotalSize(kind), Payload)
BlockCount(kind) ==
  IF MinBlockCount(kind) > 1 THEN MinBlockCount(kind) + 1 ELSE MinBlockCount(kind)

\* Math.round(a / b)
RoundDiv(a, b) == (2 * a + b) \div (2 * b)

ChunkRounded(kind, d) ==  \* mutant: the second half of the maximum is missing
  RoundDiv(Len(ListOf(kind, d)), MinBlockCount(kind))
Chunk(kind, d) ==
  GreaterOf(RoundDiv(Len(ListOf(kind, d)), MinBlockCount(kind)),
            CeilDiv(Len(ListOf(kind, d)), BlockCount(kind)))

\* Words of word bits, as they come out again.
Translated(src, word) == [i \in DOMAIN src |-> src[i] % 2^word]

\* Block number idx of a kind, counted from 0; late blocks may be empty.
Block(kind, idx) ==
  [d \in Dims |->
     Translated(SubSeq(ListOf(kind, d), idx * Chunk(kind, d) + 1,
                       LesserOf((idx + 1) * Chunk(kind, d), Len(ListOf(kind, d)))),
                WordOf(kind, d))]

Complete(kind) == Len(blocks[kind]) = BlockCount(kind)

-----------------------------------------------------------------------------
(* hydrate                                                                 *)

\* How many words more than len fit the whole bytes that len words fill.
Spare(len, word) == (8 * Bytes(len, word)) \div word - len

\* The bits that fill up the last byte are 0, and so are the words read there.
Hydrate(words, palette, word) ==
  IF words = << >> THEN << >>
  ELSE LET unpacked == words \o [i \in 1..Spare(Len(words), word) |-> 0]
       IN  IF palette = << >> THEN unpacked
           ELSE [i \in DOMAIN unpacked |-> palette[unpacked[i] + 1]]

PaletteRead(kind, d) == IF kind = "data" THEN lists["palettes"][d] ELSE << >>
ReadBack(kind) == read[kind] = Len(blocks[kind])
Loaded == \A k \in Kinds : Complete(k) /\ ReadBack(k)

-----------------------------------------------------------------------------
(* isProjected, rationalize and directPlotter                              *)

Projected ==
  /\ Len(map.lists["rowsN"]) = map.size.w
  /\ Len(map.lists["colsN"]) = map.size.h

\* Coordinate ii of a list of fractions, counted from 0.
Coordinate(ls, n, d, ii) ==
  IF ii + 1 \in DOMAIN ls[n] /\ ii + 1 \in DOMAIN ls[d]
  THEN <<ls[n][ii + 1], ls[d][ii + 1]>> ELSE << >>
XCol(ls, ii) == Coordinate(ls, "rowsN", "rowsD", ii)
YCol(ls, ii) == Coordinate(ls, "colsN", "colsD", ii)

PointsFromRow(ls, fromY, untilY) ==  \* mutant: the offset counts rows
  LET yMax == LesserOf(untilY, map.size.h)
  IN  IF Projected
      THEN [k \in 1..(map.size.w * (yMax - fromY)) |->
              <<XCol(ls, (k - 1) % map.size.w), YCol(ls, fromY + (k - 1) \div map.size.w)>>]
      ELSE [k \in 1..(map.size.w * yMax - fromY) |->
              <<XCol(ls, fromY + k - 1), YCol(ls, fromY + k - 1)>>]

\* The points of the rows fromY .. untilY - 1, in the order they are plotted.
Points(ls, fromY, untilY) ==
  LET yMax == LesserOf(untilY, map.size.h)
      start == map.size.w * fromY
  IN  IF Projected
      THEN [k \in 1..(map.size.w * (yMax - fromY)) |->
              <<XCol(ls, (k - 1) % map.size.w), YCol(ls, fromY + (k - 1) \div map.size.w)>>]
      ELSE [k \in 1..(map.size.w * yMax - start) |->
              <<XCol(ls, start + k - 1), YCol(ls, start + k - 1)>>]

-----------------------------------------------------------------------------
NoPlot == [from |-> 0, until |-> 0, points |-> << >>]

Init ==
  /\ map \in Maps
  /\ coding = [d \in Dims |-> PaletteMaybe(map.lists[d])]
  /\ blocks = [k \in Kinds |-> << >>]
  /\ read = [k \in Kinds |-> 0]
  /\ lists = [k \in Kinds |-> [d \in Dims |-> << >>]]
  /\ plotted = NoPlot

\* mutant: the loop runs once more.
BlockifyOneMore(kind) ==
  /\ Len(blocks[kind]) <= BlockCount(kind)
  /\ BlockCount(kind) > 0 /\ read["palettes"] = 0
  /\ blocks' = [blocks EXCEPT ![kind] = Append(@, Block(kind, Len(@)))]
  /\ UNCHANGED <<map, coding, read, lists, plotted>>

\* One turn of blockify's loop; commit does the palettes first.
Blockify(kind) ==
  /\ Len(blocks[kind]) < BlockCount(kind)
  /\ kind = "data" => Complete("palettes")
  /\ blocks' = [blocks EXCEPT ![kind] = Append(@, Block(kind, Len(@)))]
  /\ UNCHANGED <<map, coding, read, lists, plotted>>

\* load: unblockify reads one more block, palettes first.
Unblockify(kind) ==
  /\ \A k \in Kinds : Complete(k)
  /\ read[kind] < Len(blocks[kind])
  /\ kind = "data" => ReadBack("palettes")
  /\ LET block == blocks[kind][read[kind] + 1]
     IN  lists' = [lists EXCEPT ![kind] =
                     [d \in Dims |->
                        @[d] \o Hydrate(block[d], PaletteRead(kind, d), WordOf(kind, d))]]
  /\ read' = [read EXCEPT ![kind] = @ + 1]
  /\ UNCHANGED <<map, coding, blocks, plotted>>

\* A painter plots a band of the loaded map; untilY may lie below the image.
Plot(fromY, untilY) ==
  /\ Loaded
  /\ plotted = NoPlot
  /\ plotted' = [from |-> fromY, until |-> untilY,
                 points |-> Points(lists["data"], fromY, untilY)]
  /\ UNCHANGED <<map, coding, blocks, read, lists>>

Next ==
  \/ \E kind \in Kinds : Blockify(kind) \/ Unblockify(kind)
  \/ \E fromY \in 0..(map.size.h - 1) :
       \E untilY \in (fromY + 1)..(map.size.h + 1) : Plot(fromY, untilY)

Spec == Init /\ [][Next]_vars

-----------------------------------------------------------------------------
(* Properties                                                              *)

TypeOK ==
  /\ map \in MapType
  /\ coding \in [Dims -> [palette : Seq(Nat), data : Seq(Nat),
                          paletteWordLen : Nat, baseWordLen : Nat \ {0}]]
  /\ blocks \in [Kinds -> Seq([Dims -> Seq(Nat)])]
  /\ read \in [Kinds -> Nat]
  /\ \A k \in Kinds : read[k] <= Len(blocks[k]) /\ Len(blocks[k]) <= BlockCount(k)
  /\ lists \in [Kinds -> [Dims -> Seq(Nat)]]
  /\ plotted.from \in Nat /\ plotted.until \in Nat

(* The slices leave no number out and repeat none, whatever the two         *)
(* roundings of the slice length do: number i is in block i \div Chunk, at  *)
(* its place, and the blocks suffice (RegionMapUtils.ts:162-218).          *)
NumbersKeepTheirPlaces ==
  \A kind \in Kinds, d \in Dims :
    LET n == Chunk(kind, d)
    IN  \A i \in 0..(Len(ListOf(kind, d)) - 1) :
          /\ n > 0 /\ i \div n < BlockCount(kind)
          /\ i \div n < Len(blocks[kind]) =>
               LET slice == blocks[kind][i \div n + 1][d]
               IN  /\ (i % n) + 1 \in DOMAIN slice
                   /\ slice[(i % n) + 1] = ListOf(kind, d)[i + 1]

\* The list is in one slice, or no slice leaves room for a further word.
Tight(kind, d) ==
  \/ ListOf(kind, d) = << >>
  \/ Len(ListOf(kind, d)) <= Chunk(kind, d)
  \/ Spare(Chunk(kind, d), WordOf(kind, d)) = 0

Begins(s, t) == Len(s) <= Len(t) /\ \A i \in DOMAIN s : t[i] = s[i]

(* What is read back begins with what was imported, with a palette or       *)
(* without.  Not so for a list in several slices whose words leave room for  *)
(* one more in the last byte: it is read as a 0 and pushes the numbers of    *)
(* all later blocks out of place (RegionMapUtils.ts:282-299).              *)
ListsRestored ==
  Loaded =>
    \A d \in Dims :
      Tight("palettes", d) /\ Tight("data", d) => Begins(map.lists[d], lists["data"][d])

WellFormed ==
  \/ Projected
  \/ /\ Len(map.lists["rowsN"]) = map.size.w * map.size.h
     /\ Len(map.lists["colsN"]) = map.size.w * map.size.h

(* A band plots each pixel of its rows once, in order, at the coordinates   *)
(* that were imported for it, with the exception of ListsRestored, in maps   *)
(* of either layout (AbstractRegionMap.ts:34-67).                          *)
BandPlotsItsRows ==
  plotted # NoPlot /\ WellFormed /\ (\A d \in Dims, k \in Kinds : Tight(k, d)) =>
    LET rows == LesserOf(plotted.until, map.size.h) - plotted.from
        place(x, y) == IF Projected THEN <<x, y>>
                       ELSE <<y * map.size.w + x, y * map.size.w + x>>
    IN  /\ Len(plotted.points) = rows * map.size.w
        /\ \A y \in 0..(rows - 1), x \in 0..(map.size.w - 1) :
             LET p == place(x, plotted.from + y)
             IN  plotted.points[y * map.size.w + x + 1] =
                   <<XCol(map.lists, p[1]), YCol(map.lists, p[2])>>
=============================================================================
