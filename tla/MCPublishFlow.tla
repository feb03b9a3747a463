--------------------------- MODULE MCPublishFlow ----------------------------
(***************************************************************************)
(* PublishFlow on small sets.                                              *)
(***************************************************************************)
EXTENDS PublishFlow, TLC
=============================================================================
