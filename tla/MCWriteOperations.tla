------------------------- MODULE MCWriteOperations -------------------------
EXTENDS WriteOperations, TLC

RequestSymmetry == Permutations(Requests)
=============================================================================
