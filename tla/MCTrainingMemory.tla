-------------------------- MODULE MCTrainingMemory --------------------------
(***************************************************************************)
(* TrainingMemory on small sets of requests.  The requests of each kind    *)
(* are interchangeable, so the runs of safety properties use symmetry.     *)
(***************************************************************************)
EXTENDS TrainingMemory, TLC

Symmetry ==
    Permutations(Chats) \cup Permutations(Publishes)
        \cup Permutations(Directs) \cup Permutations(Calls)

\* To bound a run: after an edit a direct publish is not at work beside a wallet publish.
\* Of the profile, which an edit writes, a publish only asks whether there is one.
EditBesideOneKind ==
    \/ edits = 0
    \/ \A d \in Directs : direct[d].pc \in {"idle", "done", "failed"}
    \/ \A p \in Publishes : tx[p] = "none"
=============================================================================
