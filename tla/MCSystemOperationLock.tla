------------------------ MODULE MCSystemOperationLock ------------------------
EXTENDS SystemOperationLock, TLC

\* Operations, and operation ids, are interchangeable.
Symmetry == Permutations(Operations) \cup Permutations(Fingerprints)
=============================================================================
