------------------------------- MODULE MCPages -------------------------------
\* The pages on a small instance.
EXTENDS WebPages, TLC

CONSTANTS i1, i2, i3, s1, s2

MCPages == {"topic", "drafts", "library", "users", "detail"}
MCSymmetry == Permutations({s1, s2})
=============================================================================
