-------------------------- MODULE MCINFTLifecycle --------------------------
(***************************************************************************)
(* INFTLifecycle on small sets.  Requests of a kind are interchangeable.   *)
(*                                                                         *)
(* All kinds of requests at once are too many for TLC: a run explores the  *)
(* states of two scenarios, and checks those one step outside, too.        *)
(***************************************************************************)
EXTENDS INFTLifecycle, TLC

Symmetry ==
    Permutations(Publishes) \cup Permutations(Calls) \cup Permutations(Registers)
        \cup Permutations(Wallets)

AtMostOne(S) == \A x, y \in S : x = y

Registering == {r \in Registers : reg[r].tx # "none"}
Busy == {f \in Calls : final[f].pc # "idle" \/ uploader[f].pc # "none"}
Distilling == {d \in Distills : distill[d].pc # "idle"}
Viewing == {v \in Viewers : owned[v].pc # "idle"}

\* Two iNFTs, two publishes of them and two requests at once.
PublishRaces == Registering = {}

\* One iNFT, two publishes of it and its registration, with a crash.
RegisterFaults == Len(made) <= 1 /\ AtMostOne(Busy)

FaultScenarios == PublishRaces \/ RegisterFaults

\* A training iNFT, one distilled from it, a publish of each, and their registrations
\* by one wallet.
ParentAndChild ==
    /\ \A x \in 1..Len(made) : made[x].kind = IF x = 1 THEN "training" ELSE "distilled"
    /\ AtMostOne({p \in Publishes : pub[p].inft = 1})
    /\ AtMostOne({p \in Publishes : pub[p].inft = 2})
    /\ Viewing = {} /\ transfers = 0
    /\ AtMostOne({reg[r].asset.creator : r \in {q \in Registers : reg[q].asset # None}})

\* Two iNFTs, one of them registered and transferred, and the list of a wallet's.
Owners == AtMostOne(Registering) /\ Distilling = {}

ChainScenarios == ParentAndChild \/ Owners
=============================================================================
