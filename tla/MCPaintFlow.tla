---------------------------- MODULE MCPaintFlow -----------------------------
\* Instances of PaintFlow for TLC: one project of one or two tasks.
EXTENDS PaintFlow, TLC

CONSTANTS t1, t2, p1, p2, p3, w1, w2, s1, s2
CONSTANT W2Minor  \* the release of w2 is 1.W2Minor.0, all others are 1.1.0
CONSTANT W2Roles  \* the roles of w2, all others have every role

MCTaskOf == [p \in Parts |-> IF p = p3 THEN t2 ELSE t1]
MCSeedOf == [t \in Tasks |-> IF t = t2 THEN s2 ELSE s1]
MCRolesOf == [w \in Workers |-> IF w = w2 THEN W2Roles ELSE Roles]
MCOriginRelease == [x |-> 1, y |-> 1, z |-> 0]
MCReleaseOf == [w \in Workers |-> [MCOriginRelease EXCEPT !.y = IF w = w2 THEN W2Minor ELSE 1]]

\* The two tasks may be swapped, each with its seed and its part.
MCSymmetry ==
  {f \in Permutations({t1, t2, s1, s2, p1, p3}) :
     \/ \A x \in DOMAIN f : f[x] = x
     \/ f[t1] = t2 /\ f[t2] = t1 /\ f[s1] = s2 /\ f[s2] = s1 /\ f[p1] = p3 /\ f[p3] = p1}
=============================================================================
