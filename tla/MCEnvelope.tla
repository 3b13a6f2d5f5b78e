----------------------------- MODULE MCEnvelope -----------------------------
\* Instances of Envelope for TLC.
EXTENDS Envelope, TLC

CONSTANT MaxMinor

\* Releases 1.0.0 .. 1.MaxMinor.0.
MCReleases == {[x |-> 1, y |-> y, z |-> 0] : y \in 0 .. MaxMinor}
MCFirstRelease == [x |-> 1, y |-> 0, z |-> 0]

\* Objects and payloads are interchangeable: no action or property names one.
MCSymmetry == Permutations(ObjectId) \cup Permutations(Bodies)
=============================================================================
