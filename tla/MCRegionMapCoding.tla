-------------------------- MODULE MCRegionMapCoding -------------------------
(* Small maps of both layouts over lists of every kind: of one value, of    *)
(* values that repeat, and of many values, of few bits and of more than 8.  *)
EXTENDS RegionMapCoding

ListsOfLength(n) ==
  { [i \in 1..n |-> 1],
    [i \in 1..n |-> 200],
    [i \in 1..n |-> 255 + i],
    [i \in 1..n |-> i],
    [i \in 1..n |-> IF i % 3 = 0 THEN 5 ELSE 300] }

\* Maps of w x h pixels given by so many x and so many y coordinates.
MapsOf(w, h, xs, ys) ==
  {[size |-> [w |-> w, h |-> h],
    lists |-> [rowsN |-> rn, rowsD |-> rd, colsN |-> cn, colsD |-> cd]] :
     rn \in ListsOfLength(xs), rd \in ListsOfLength(xs),
     cn \in ListsOfLength(ys), cd \in ListsOfLength(ys)}

MCMaps == MapsOf(7, 2, 7, 2) \cup MapsOf(1, 3, 1, 3) \cup MapsOf(4, 2, 8, 8)
=============================================================================
