------------------------- MODULE MCManagedExecution -------------------------
EXTENDS ManagedExecution, TLC

MCSymmetry == Permutations(Runs)
=============================================================================
