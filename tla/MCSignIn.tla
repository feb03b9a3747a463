------------------------------ MODULE MCSignIn ------------------------------
(***************************************************************************)
(* SignIn on small sets.                                                   *)
(***************************************************************************)
EXTENDS SignIn, TLC

Symmetry == Permutations(Tabs) \cup Permutations(Addresses)
=============================================================================
