---------------------------- MODULE MCFlagMemory ----------------------------
EXTENDS FlagMemory, TLC

Symmetry == Permutations(Writers)
==============================================================================
