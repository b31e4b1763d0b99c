----------------------------- MODULE MCEvidence -----------------------------
EXTENDS Evidence, TLC

MCSymmetry == Permutations(Writer)
=============================================================================
