----------------------------- MODULE MCScatter ------------------------------
\* Instances of Scatter for TLC: every image up to MaxWidth x MaxHeight.
EXTENDS Scatter

CONSTANTS MaxWidth, MaxHeight

MCGeometries == [w : 1 .. MaxWidth, h : 1 .. MaxHeight]
=============================================================================
