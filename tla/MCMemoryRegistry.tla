-------------------------- MODULE MCMemoryRegistry --------------------------
(***************************************************************************)
(* MemoryRegistry with few accounts and contents, which are interchangeable*)
(* but for the malformed one.                                              *)
(***************************************************************************)
EXTENDS MemoryRegistry, TLC

Symmetry == Permutations(Addresses) \cup Permutations(Contents \ Malformed)
=============================================================================
