-------------------------- MODULE PublishFlowProofs --------------------------
(***************************************************************************)
(* The types of PublishFlow, and that a snapshot is kept for its time, for *)
(* any number of pages, publishes and restarts, and any age and time.      *)
(***************************************************************************)
EXTENDS PublishFlow, TLAPS

USE FlowAssumption

\* A request to finalize is only there for a transaction that the wallet sent.
RequestsOfSent ==
    \A p \in Ids : tx[p] \in {"none", "unsent"} => request[p].pc = "none"

\* No two pages have the same publish, and each has one that was prepared; the
\* wallet that still asks has not sent its transaction.
PagesApart ==
    /\ \A g, h \in Pages :
           page[g].publish = page[h].publish /\ page[g].publish # 0 => g = h
    /\ \A g \in Pages : page[g].publish # 0 => tx[page[g].publish] # "none"
    /\ \A g \in Pages :
           page[g].pc = "signing" => /\ page[g].publish # 0
                                     /\ tx[page[g].publish] = "unsent"

\* A snapshot is of this run of the server or of one before.
RunsOfSnapshots == \A p \in Ids : prepared[p].run <= restarts

FlowInv == TypeOK /\ RequestsOfSent /\ PagesApart /\ RunsOfSnapshots /\ HeldForItsTime

\* Every page starts idle, with nothing asked.
LEMMA FlowInvInit == Init => FlowInv
  BY DEF Init, FlowInv, TypeOK, RequestsOfSent, PagesApart, RunsOfSnapshots, HeldForItsTime,
         Ids, PagePC, Requests, Young

-----------------------------------------------------------------------------
(***************************************************************************)
(* The page                                                                *)
(***************************************************************************)

\* A new publish has no request, no page and no snapshot yet.
LEMMA PrepareStep == ASSUME FlowInv, NEW g \in Pages, Prepare(g) PROVE FlowInv'
  <1>1. PICK p \in Ids :
            /\ \A q \in Ids : tx[q] = "none" <=> q >= p
            /\ prepared' = [prepared EXCEPT ![p] = [at |-> now, run |-> restarts]]
            /\ tx' = [tx EXCEPT ![p] = "unsent"]
            /\ pending' = pending \cup {p}
            /\ \E pc \in {"signing", "failed"} :
                   page' = [page EXCEPT ![g] = [pc |-> pc, publish |-> p]]
            /\ UNCHANGED <<now, request, restarts>>
    BY DEF Prepare, Put
  <1>2. PICK pc \in {"signing", "failed"} :
            page' = [page EXCEPT ![g] = [pc |-> pc, publish |-> p]]
    BY <1>1
  <1>3. /\ TypeOK /\ p \in Nat /\ p # 0 /\ tx[p] = "none"
        /\ \A h \in Pages : page[h].publish # p
    BY <1>1 DEF FlowInv, TypeOK, PagesApart, Ids
  <1>4. TypeOK'
    BY <1>1, <1>2, <1>3 DEF TypeOK, PagePC
  <1>5. /\ tx'[p] = "unsent" /\ \A q \in Ids \ {p} : tx'[q] = tx[q]
        /\ prepared'[p].run = restarts
        /\ \A q \in Ids \ {p} : prepared'[q] = prepared[q]
        /\ page'[g] = [pc |-> pc, publish |-> p]
        /\ \A h \in Pages \ {g} : page'[h] = page[h]
    BY <1>1, <1>2, <1>3 DEF TypeOK
  <1>6. RequestsOfSent'
    BY <1>1, <1>3, <1>5 DEF FlowInv, RequestsOfSent
  <1>7. PagesApart'
    <2>1. \A h \in Pages \ {g} : page[h].publish # p /\ page[h].publish \in Ids \cup {0}
      BY <1>3 DEF TypeOK
    <2>2. \A h \in Pages \ {g} :
              page[h].publish # 0 => tx'[page[h].publish] = tx[page[h].publish]
      BY <1>5, <2>1
    <2>3. page'[g].publish = p /\ tx'[p] = "unsent"
      BY <1>5
    <2> QED
      BY <1>3, <1>5, <2>1, <2>2, <2>3 DEF FlowInv, PagesApart
  <1>8. RunsOfSnapshots'
    BY <1>1, <1>3, <1>5 DEF FlowInv, TypeOK, RunsOfSnapshots
  <1>9. HeldForItsTime'
    BY <1>1, <1>5 DEF FlowInv, HeldForItsTime, Young
  <1> QED
    BY <1>4, <1>6, <1>7, <1>8, <1>9 DEF FlowInv

\* The request it makes is the first of its publish: none was accepted before.
LEMMA WalletSendsStep == ASSUME FlowInv, NEW g \in Pages, WalletSends(g) PROVE FlowInv'
  <1> DEFINE p == page[g].publish
  <1>1. /\ page[g].pc = "signing"
        /\ tx' = [tx EXCEPT ![p] = "pending"]
        /\ request' = [request EXCEPT ![p] = [pc |-> "sent", live |-> TRUE]]
        /\ page' = [page EXCEPT ![g].pc = "finalizing"]
        /\ UNCHANGED <<now, prepared, pending, restarts>>
    BY DEF WalletSends, Show
  <1>2. TypeOK /\ p \in Ids /\ tx[p] = "unsent" /\ request[p].pc = "none"
    BY <1>1 DEF FlowInv, TypeOK, PagesApart, RequestsOfSent
  <1> HIDE DEF p
  <1>3. TypeOK'
    BY <1>1, <1>2 DEF TypeOK, PagePC, Requests
  <1>4. /\ tx'[p] = "pending" /\ \A q \in Ids \ {p} : tx'[q] = tx[q]
        /\ \A q \in Ids \ {p} : request'[q] = request[q]
        /\ \A h \in Pages : page'[h].publish = page[h].publish
        /\ page'[g].pc = "finalizing" /\ \A h \in Pages \ {g} : page'[h] = page[h]
    BY <1>1, <1>2 DEF TypeOK
  <1>5. RequestsOfSent'
    BY <1>4 DEF FlowInv, RequestsOfSent
  <1>6. PagesApart'
    <2>1. \A h \in Pages : page[h].publish \in Ids \cup {0}
      BY <1>2 DEF TypeOK
    <2>2. \A h \in Pages \ {g} : page[h].publish # 0 => page[h].publish # p
      BY DEF FlowInv, PagesApart, p
    <2> QED
      BY <1>2, <1>4, <2>1, <2>2 DEF FlowInv, PagesApart
  <1>7. RunsOfSnapshots'
    BY <1>1 DEF FlowInv, RunsOfSnapshots
  <1>8. HeldForItsTime'
    BY <1>1, <1>2, <1>4 DEF FlowInv, HeldForItsTime, Young
  <1> QED
    BY <1>3, <1>5, <1>6, <1>7, <1>8 DEF FlowInv

\* The rest that a page does changes what it shows, and whether it still waits.
LEMMA PageStepKeeps ==
    ASSUME FlowInv, NEW g \in Pages,
           WalletRefuses(g) \/ ReceiveAnswer(g) \/ LoseAnswer(g) \/ ResolveTx(g)
    PROVE  FlowInv'
  <1>1. PICK pc \in PagePC \ {"signing"} : page' = [page EXCEPT ![g].pc = pc]
    BY DEF WalletRefuses, ReceiveAnswer, LoseAnswer, ResolveTx, Show, PagePC
  <1>2. /\ request' = request \/ request' = [request EXCEPT ![page[g].publish].live = FALSE]
        /\ UNCHANGED <<now, prepared, tx, pending, restarts>>
    BY DEF WalletRefuses, ReceiveAnswer, LoseAnswer, ResolveTx
  <1>3. TypeOK
    BY DEF FlowInv
  <1>4. /\ \A h \in Pages : page'[h].publish = page[h].publish
        /\ \A h \in Pages : page'[h].pc = "signing" => page[h].pc = "signing"
        /\ \A p \in Ids : request'[p].pc = request[p].pc
    <2>1. \A p \in Ids : request'[p].pc = request[p].pc
      BY <1>2, <1>3 DEF TypeOK
    <2>2. page'[g].publish = page[g].publish /\ \A h \in Pages \ {g} : page'[h] = page[h]
      BY <1>1, <1>3 DEF TypeOK
    <2>3. page'[g].pc = pc
      BY <1>1, <1>3 DEF TypeOK
    <2> QED
      BY <2>1, <2>2, <2>3
  <1>5. TypeOK'
    <2>1. request' \in [Ids -> [pc : Requests, live : BOOLEAN]]
      <3>1. request \in [Ids -> [pc : Requests, live : BOOLEAN]]
        BY <1>3 DEF TypeOK
      <3>2. CASE page[g].publish \in Ids
        BY <1>2, <3>1, <3>2
      <3>3. CASE page[g].publish \notin Ids
        BY <1>2, <3>1, <3>3
      <3> QED
        BY <3>2, <3>3
    <2>2. page' \in [Pages -> [pc : PagePC, publish : Ids \cup {0}]]
      BY <1>1, <1>3 DEF TypeOK
    <2> QED
      BY <1>2, <1>3, <2>1, <2>2 DEF TypeOK
  <1>6. RequestsOfSent' /\ RunsOfSnapshots' /\ HeldForItsTime'
    BY <1>2, <1>4 DEF FlowInv, RequestsOfSent, RunsOfSnapshots, HeldForItsTime, Young
  <1>7. PagesApart'
    BY <1>2, <1>4 DEF FlowInv, PagesApart
  <1> QED
    BY <1>5, <1>6, <1>7 DEF FlowInv

-----------------------------------------------------------------------------
(***************************************************************************)
(* The request, the chain, the clock and the restarts                      *)
(***************************************************************************)

\* What a step of a request does: it goes on to pc, and may delete its snapshot.
RequestGoesTo(p, pc) ==
    /\ request[p].pc \in {"sent", "named", "checking"}
    /\ request' = [request EXCEPT ![p].pc = pc]
    /\ \/ pending' = pending
       \/ pending' = pending \ {p} /\ (~Young(p) \/ pc = "accepted")
    /\ UNCHANGED <<now, page, prepared, tx, restarts>>

\* A request never comes back from "accepted", and a snapshot goes only when it is
\* old or its transaction is accepted.
LEMMA FinalizeStep == ASSUME FlowInv, NEW p \in Ids, Finalize(p) PROVE FlowInv'
  <1>1. TypeOK
    BY DEF FlowInv
  <1>2. PICK pc \in Requests \ {"none"} : RequestGoesTo(p, pc)
    <2> USE DEF RequestTo, UnchangedByRequest, RequestGoesTo
    <2>1. CASE ResolvePublishID(p)
      <3>1. RequestGoesTo(p, "rejected") \/ RequestGoesTo(p, "named")
        BY <2>1 DEF ResolvePublishID
      <3> HIDE DEF RequestGoesTo
      <3> QED
        BY <3>1 DEF Requests
    <2>2. CASE GetSnapshot(p)
      <3>1. RequestGoesTo(p, "rejected") \/ RequestGoesTo(p, "checking")
        BY <2>2 DEF GetSnapshot
      <3> HIDE DEF RequestGoesTo
      <3> QED
        BY <3>1 DEF Requests
    <2>3. CASE RejectTx(p)
      <3>1. RequestGoesTo(p, "rejected")
        BY <2>3 DEF RejectTx, KeptOnError
      <3> HIDE DEF RequestGoesTo
      <3> QED
        BY <3>1 DEF Requests
    <2>4. CASE AcceptTx(p)
      <3>1. RequestGoesTo(p, "accepted")
        BY <2>4 DEF AcceptTx
      <3> HIDE DEF RequestGoesTo
      <3> QED
        BY <3>1 DEF Requests
    <2> QED
      BY <2>1, <2>2, <2>3, <2>4 DEF Finalize
  <1> USE DEF RequestGoesTo
  <1>3. /\ request'[p].pc = pc
        /\ \A q \in Ids \ {p} : request'[q].pc = request[q].pc
    BY <1>1, <1>2 DEF TypeOK
  <1>4. TypeOK'
    BY <1>1, <1>2 DEF TypeOK
  <1>5. RequestsOfSent'
    BY <1>2, <1>3 DEF FlowInv, RequestsOfSent
  <1>6. PagesApart' /\ RunsOfSnapshots'
    BY <1>2 DEF FlowInv, PagesApart, RunsOfSnapshots
  <1>7. HeldForItsTime'
    BY <1>2, <1>3 DEF FlowInv, HeldForItsTime, Young
  <1> QED
    BY <1>4, <1>5, <1>6, <1>7 DEF FlowInv

\* Mining changes neither a page nor a snapshot.
LEMMA ChainMinesStep == ASSUME FlowInv, NEW p \in Ids, ChainMines(p) PROVE FlowInv'
  <1>1. PICK status \in {"success", "failed"} : tx' = [tx EXCEPT ![p] = status]
    BY DEF ChainMines
  <1>2. tx[p] = "pending" /\ UNCHANGED <<now, page, prepared, pending, request, restarts>>
    BY DEF ChainMines
  <1>3. TypeOK /\ TypeOK'
    BY <1>1, <1>2 DEF FlowInv, TypeOK
  <1>4. tx'[p] = status /\ \A q \in Ids \ {p} : tx'[q] = tx[q]
    BY <1>1, <1>3 DEF TypeOK
  <1>5. RequestsOfSent' /\ RunsOfSnapshots' /\ HeldForItsTime'
    BY <1>2, <1>4 DEF FlowInv, RequestsOfSent, RunsOfSnapshots, HeldForItsTime, Young
  <1>6. PagesApart'
    BY <1>2, <1>3, <1>4 DEF FlowInv, PagesApart, TypeOK
  <1> QED
    BY <1>3, <1>5, <1>6 DEF FlowInv

\* What is young after a tick was young before.
LEMMA TickStep == ASSUME FlowInv, Tick PROVE FlowInv'
  <1>1. /\ now < MaxTime /\ now' = now + 1
        /\ UNCHANGED <<page, prepared, tx, pending, request, restarts>>
    BY DEF Tick
  <1>2. TypeOK /\ TypeOK'
    BY <1>1 DEF FlowInv, TypeOK
  <1>3. \A p \in Ids : Young(p)' => Young(p)
    BY <1>1, <1>2 DEF TypeOK, Young
  <1>4. HeldForItsTime'
    BY <1>1, <1>3 DEF FlowInv, HeldForItsTime
  <1>5. RequestsOfSent' /\ PagesApart' /\ RunsOfSnapshots'
    BY <1>1 DEF FlowInv, RequestsOfSent, PagesApart, RunsOfSnapshots
  <1> QED
    BY <1>2, <1>4, <1>5 DEF FlowInv

\* No snapshot is of the run that begins.
LEMMA RestartStep == ASSUME FlowInv, Restart PROVE FlowInv'
  <1>1. /\ restarts < MaxRestarts /\ restarts' = restarts + 1 /\ pending' = {}
        /\ request' = [p \in Ids |->
               IF request[p].pc \in {"sent", "named", "checking"}
               THEN [request[p] EXCEPT !.pc = "rejected"] ELSE request[p]]
        /\ page' = [g \in Pages |->
               IF page[g].pc = "finalizing" THEN [page[g] EXCEPT !.pc = "failed"] ELSE page[g]]
        /\ UNCHANGED <<now, prepared, tx>>
    BY DEF Restart
  <1>2. TypeOK
    BY DEF FlowInv
  <1>3. /\ \A p \in Ids : request[p].pc = "none" => request'[p].pc = "none"
        /\ \A g \in Pages : page'[g].publish = page[g].publish
        /\ \A g \in Pages : page'[g].pc = "signing" => page[g].pc = "signing"
    BY <1>1, <1>2 DEF TypeOK
  <1>4. TypeOK'
    <2>1. request' \in [Ids -> [pc : Requests, live : BOOLEAN]]
      BY <1>1, <1>2 DEF TypeOK, Requests
    <2>2. page' \in [Pages -> [pc : PagePC, publish : Ids \cup {0}]]
      BY <1>1, <1>2 DEF TypeOK, PagePC
    <2> QED
      BY <1>1, <1>2, <2>1, <2>2 DEF TypeOK
  <1>5. RequestsOfSent' /\ PagesApart'
    BY <1>1, <1>3 DEF FlowInv, RequestsOfSent, PagesApart
  <1>6. RunsOfSnapshots' /\ HeldForItsTime'
    BY <1>1, <1>2 DEF FlowInv, TypeOK, RunsOfSnapshots, HeldForItsTime
  <1> QED
    BY <1>4, <1>5, <1>6 DEF FlowInv

-----------------------------------------------------------------------------

\* The invariant holds in every state.
LEMMA FlowInvariant == Spec => []FlowInv
  <1>1. FlowInv /\ [Next]_vars => FlowInv'
    <2> SUFFICES ASSUME FlowInv, [Next]_vars PROVE FlowInv'
      OBVIOUS
    <2>1. ASSUME NEW g \in Pages, PageStep(g) PROVE FlowInv'
      BY <2>1, PrepareStep, WalletSendsStep, PageStepKeeps DEF PageStep
    <2>2. CASE UNCHANGED vars
      BY <2>2 DEF vars, FlowInv, TypeOK, RequestsOfSent, PagesApart, RunsOfSnapshots,
                  HeldForItsTime, Young
    <2> QED
      BY <2>1, <2>2, FinalizeStep, ChainMinesStep, TickStep, RestartStep DEF Next
  <1> QED
    BY <1>1, FlowInvInit, PTL DEF Spec

\* What pages, snapshots and requests hold keeps its types.
THEOREM FlowTypeCorrect == Spec => []TypeOK
  BY FlowInvariant, PTL DEF FlowInv

\* Until a publish is 15 minutes old its snapshot is there, or its transaction was
\* accepted, or the server restarted: no other page, lost answer or failed request
\* takes it away.
THEOREM SnapshotHeld == Spec => []HeldForItsTime
  BY FlowInvariant, PTL DEF FlowInv
=============================================================================
