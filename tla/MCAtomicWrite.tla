--------------------------- MODULE MCAtomicWrite ---------------------------
(* AtomicWrite on small instances. *)
EXTENDS AtomicWrite, TLC

Symmetric == Permutations(Writers) \cup Permutations(Edits)
=============================================================================
