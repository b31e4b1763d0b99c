---------------------------- MODULE MCFactStore ----------------------------
EXTENDS FactStore, TLC

MCSymmetry ==
    Permutations(Key) \cup Permutations(Content) \cup Permutations(Instance)
=============================================================================
