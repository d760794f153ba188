---------------------------- MODULE MCMemoryPool ----------------------------
(***************************************************************************)
(* Values for TLC: the symmetry of chunks.                                 *)
(***************************************************************************)
EXTENDS MemoryPool, TLC

Heap == Permutations(Chunks)
=============================================================================
