----------------------------- MODULE MCPractice ------------------------------
\* The practice page on a small instance.
EXTENDS Practice, TLC

CONSTANTS t1, t2, r1, r2, r3, s1, s2

MCSymmetry == Permutations({s1, s2}) \cup Permutations({r1, r2, r3})
=============================================================================
