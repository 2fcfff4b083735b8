--------------------------- MODULE MCAtomicWriter ---------------------------
(* TLC instances of AtomicWriter: the processes are interchangeable.       *)
EXTENDS AtomicWriter, TLC

Symmetry == Permutations(Writers)
=============================================================================
