---------------------------- MODULE MCFileStore -----------------------------
(***************************************************************************)
(* FileStore on small sets.                                                *)
(***************************************************************************)
EXTENDS FileStore, TLC

Symmetry == Permutations(Callers)
=============================================================================
