---------------------------- MODULE PublishFlow -----------------------------
(***************************************************************************)
(* One publish as its page in the browser drives it: prepare, send the     *)
(* transaction with the wallet, finalize, and when that takes too long ask *)
(* the backend for the transaction alone.  The four kinds of publishes do  *)
(* this alike (frontend/app.js), each with its own handlers.               *)
(*                                                                         *)
(* On the server it is the snapshot map with its ages, and how far the     *)
(* finalize request gets whose page may give up.  What a finalize does     *)
(* once the transaction is accepted is in TrainingMemory, SkillLibrary and *)
(* INFTLifecycle, where a snapshot expires at any time.                    *)
(***************************************************************************)
EXTENDS Naturals

CONSTANTS
    Pages,          \* pages in browsers
    OldPages,       \* those that do not send publishId
    MaxPublishes,   \* bound on the publishes ever prepared
    MaxAge,         \* the age at which a snapshot is no good (15 minutes)
    MaxTime,        \* bound on the clock
    MaxRestarts,    \* bound on the restarts of the server
    NetworkMayFail  \* TRUE when RPC nodes, connections and transactions may fail

ASSUME FlowAssumption ==
    /\ OldPages \subseteq Pages
    /\ MaxPublishes \in Nat /\ MaxAge \in Nat /\ MaxTime \in Nat /\ MaxRestarts \in Nat
    /\ NetworkMayFail \in BOOLEAN

VARIABLES
    now,       \* the clock
    page,      \* what each page shows, and its publish
    prepared,  \* when each publish was prepared, and in which run of the server
    tx,        \* the transaction of each publish
    pending,   \* keys of the snapshot map
    request,   \* the finalize request of each publish
    restarts

vars == <<now, page, prepared, tx, pending, request, restarts>>

Ids == 1..MaxPublishes

\* A page is over at "published", at "continues" (chain only), or at "failed".
PagePC == {"idle", "signing", "finalizing", "resolving", "published", "continues", "failed"}

Requests == {"none", "sent", "named", "checking", "accepted", "rejected"}

TypeOK ==
    /\ now \in 0..MaxTime
    /\ page \in [Pages -> [pc : PagePC, publish : Ids \cup {0}]]
    /\ prepared \in [Ids -> [at : Nat, run : Nat]]
    /\ tx \in [Ids -> {"none", "unsent", "pending", "success", "failed"}]
    /\ pending \subseteq Ids
    /\ request \in [Ids -> [pc : Requests, live : BOOLEAN]]
    /\ restarts \in 0..MaxRestarts

Init ==
    /\ now = 0
    /\ page = [g \in Pages |-> [pc |-> "idle", publish |-> 0]]
    /\ prepared = [p \in Ids |-> [at |-> 0, run |-> 0]]
    /\ tx = [p \in Ids |-> "none"]
    /\ pending = {}
    /\ request = [p \in Ids |-> [pc |-> "none", live |-> FALSE]]
    /\ restarts = 0

-----------------------------------------------------------------------------
(***************************************************************************)
(* The page                                                                *)
(***************************************************************************)

Show(g, pc) == page' = [page EXCEPT ![g].pc = pc]

Busy == {"signing", "finalizing", "resolving"}

\* A faulty variant of Put: the key is the root, as in older pages' requests, where
\* the finalize that names the publish does not look.  (The root of p is MaxPublishes + p.)
PutUnderRoot(p) == pending \cup {MaxPublishes + p}

\* putSnapshot
Put(p) == pending \cup {p}

\* publish_prepare puts a snapshot under a new id; the answer may be lost.
Prepare(g) ==
    /\ page[g].pc \notin Busy
    /\ \E p \in Ids :
        /\ \A q \in Ids : tx[q] = "none" <=> q >= p
        /\ prepared' = [prepared EXCEPT ![p] = [at |-> now, run |-> restarts]]
        /\ tx' = [tx EXCEPT ![p] = "unsent"]
        /\ pending' = Put(p)
        /\ \E pc \in {"signing"} \cup (IF NetworkMayFail THEN {"failed"} ELSE {}) :
               page' = [page EXCEPT ![g] = [pc |-> pc, publish |-> p]]
    /\ UNCHANGED <<now, request, restarts>>

\* eth_sendTransaction; the page then sends publish_finalize.
WalletSends(g) ==
    LET p == page[g].publish IN
    /\ page[g].pc = "signing"
    /\ tx' = [tx EXCEPT ![p] = "pending"]
    /\ request' = [request EXCEPT ![p] = [pc |-> "sent", live |-> TRUE]]
    /\ Show(g, "finalizing")
    /\ UNCHANGED <<now, prepared, pending, restarts>>

WalletRefuses(g) ==
    /\ page[g].pc = "signing"
    /\ Show(g, "failed")
    /\ UNCHANGED <<now, prepared, tx, pending, request, restarts>>

ReceiveAnswer(g) ==
    LET p == page[g].publish IN
    /\ page[g].pc = "finalizing"
    /\ \/ request[p].pc = "accepted" /\ Show(g, "published")
       \/ request[p].pc = "rejected" /\ Show(g, "failed")
    /\ UNCHANGED <<now, prepared, tx, pending, request, restarts>>

\* fetchJsonWithTimeout aborts the request, which cancels its context, or the
\* connection breaks.
LoseAnswer(g) ==
    /\ page[g].pc = "finalizing"
    /\ \/ Show(g, "resolving")
       \/ NetworkMayFail /\ Show(g, "failed")
    /\ request' = [request EXCEPT ![page[g].publish].live = FALSE]
    /\ UNCHANGED <<now, prepared, tx, pending, restarts>>

\* tryResolveTxSuccessFromChain: only a success counts, and the time is bounded.
ResolveTx(g) ==
    /\ page[g].pc = "resolving"
    /\ \/ tx[page[g].publish] = "success" /\ Show(g, "continues")
       \/ (tx[page[g].publish] # "success" \/ NetworkMayFail) /\ Show(g, "failed")
    /\ UNCHANGED <<now, prepared, tx, pending, request, restarts>>

PageStep(g) ==
    \/ Prepare(g) \/ WalletSends(g) \/ WalletRefuses(g)
    \/ ReceiveAnswer(g) \/ LoseAnswer(g) \/ ResolveTx(g)

-----------------------------------------------------------------------------
(***************************************************************************)
(* The finalize request of publish p                                       *)
(***************************************************************************)

UnchangedByRequest == UNCHANGED <<now, page, prepared, tx, restarts>>

RequestTo(p, pc) == request' = [request EXCEPT ![p].pc = pc]

\* getSnapshot and resolveSnapshotID take a snapshot of this age.
Young(p) == now - prepared[p].at <= MaxAge

IsOld(p) == \E g \in OldPages : page[g].publish = p

\* ResolvePublishID: the request of an older page gets the id of the latest snapshot
\* with its root that is young; a root is of one publish only.
ResolvePublishID(p) ==
    /\ request[p].pc = "sent"
    /\ RequestTo(p, IF IsOld(p) /\ ~(p \in pending /\ Young(p)) THEN "rejected" ELSE "named")
    /\ UNCHANGED pending
    /\ UnchangedByRequest

\* getSnapshot: a snapshot that is too old is deleted.
GetSnapshot(p) ==
    /\ request[p].pc = "named"
    /\ RequestTo(p, IF p \in pending /\ Young(p) THEN "checking" ELSE "rejected")
    /\ pending' = IF Young(p) THEN pending ELSE pending \ {p}
    /\ UnchangedByRequest

\* A faulty variant of KeptOnError: the snapshot is deleted before the receipt is read.
DroppedOnError(p) == pending \ {p}

\* The snapshots after a finalize that failed: the browser may try again.
KeptOnError(p) == pending

\* checkTxReceipt errs, as it does when its context is cancelled, or the
\* transaction failed.
RejectTx(p) ==
    /\ request[p].pc = "checking"
    /\ tx[p] = "failed" \/ NetworkMayFail \/ ~request[p].live
    /\ RequestTo(p, "rejected")
    /\ pending' = KeptOnError(p)
    /\ UnchangedByRequest

\* The transaction succeeded, or has no receipt yet.  The server may not have
\* noticed that the page is gone.
AcceptTx(p) ==
    /\ request[p].pc = "checking"
    /\ tx[p] # "failed"
    /\ RequestTo(p, "accepted")
    /\ pending' = pending \ {p}
    /\ UnchangedByRequest

Finalize(p) == ResolvePublishID(p) \/ GetSnapshot(p) \/ RejectTx(p) \/ AcceptTx(p)

-----------------------------------------------------------------------------

ChainMines(p) ==
    /\ tx[p] = "pending"
    /\ \E status \in IF NetworkMayFail THEN {"success", "failed"} ELSE {"success"} :
           tx' = [tx EXCEPT ![p] = status]
    /\ UNCHANGED <<now, page, prepared, pending, request, restarts>>

Tick ==
    /\ now < MaxTime
    /\ now' = now + 1
    /\ UNCHANGED <<page, prepared, tx, pending, request, restarts>>

\* The snapshots and the requests are gone, and the pages that wait are told so.
Restart ==
    /\ restarts < MaxRestarts
    /\ restarts' = restarts + 1
    /\ pending' = {}
    /\ request' = [p \in Ids |->
           IF request[p].pc \in {"sent", "named", "checking"}
           THEN [request[p] EXCEPT !.pc = "rejected"] ELSE request[p]]
    /\ page' = [g \in Pages |->
           IF page[g].pc = "finalizing" THEN [page[g] EXCEPT !.pc = "failed"] ELSE page[g]]
    /\ UNCHANGED <<now, prepared, tx>>

Next ==
    \/ \E g \in Pages : PageStep(g)
    \/ \E p \in Ids : Finalize(p) \/ ChainMines(p)
    \/ Tick
    \/ Restart

Spec == Init /\ [][Next]_vars

-----------------------------------------------------------------------------
(***************************************************************************)
(* Properties                                                              *)
(***************************************************************************)

\* A prepared publish can be finalized for 15 minutes: until then its snapshot is
\* there, or its transaction was accepted, or the server restarted, whatever other
\* publishes do and however its own requests fail.
HeldForItsTime ==
    \A p \in Ids :
        /\ tx[p] # "none"
        /\ Young(p)
        /\ prepared[p].run = restarts
        => p \in pending \/ request[p].pc = "accepted"
=============================================================================
