-------------------------- MODULE MCRegionMapStore --------------------------
(***************************************************************************)
(* Two maps that share a palette block and a data block, two imports and   *)
(* two loads over a cache too small for a map.                             *)
(***************************************************************************)
EXTENDS RegionMapStore, TLC

CONSTANTS m1, m2, p, d, e, r1, r2, i1, i2, l1, l2

MCMaps == {m1, m2}
MCBlocks == {p, d, e, r1, r2}
MCPalettesOf(m) == <<p>>
MCDataOf(m) == IF m = m1 THEN <<d, e>> ELSE <<d>>
MCRootOf(m) == IF m = m1 THEN r1 ELSE r2
MCWriters == {i1, i2}
MCReaders == {l1, l2}
CallSymmetry == Permutations(MCWriters) \cup Permutations(MCReaders)

=============================================================================
