-------------------------- MODULE MCAtomicWriter --------------------------
\* Three edits and a discovery, in any interleaving.
EXTENDS AtomicWriter, TLC

Symmetry == Permutations(Editors)
=============================================================================
