----------------------------- MODULE FileStore ------------------------------
(***************************************************************************)
(* How the FileStore (backend/internal/store/file_store.go) changes its    *)
(* maps and writes them to STORE_PATH: under the mutex it makes the change *)
(* in memory, writes everything to path.tmp, and renames that over path.   *)
(* Each of these steps may err, and the server may crash between them.     *)
(*                                                                         *)
(* The maps of all bots are written together, so what a call changes does  *)
(* not matter here: a state of the maps is the set of the changes made.    *)
(***************************************************************************)
EXTENDS Naturals

CONSTANTS
    Callers,      \* bound on the calls that run at once
    MaxChanges,   \* bound on the calls ever made that change something
    MaxRestarts,  \* bound on the restarts of the server
    DiskMayFail,  \* TRUE when the system calls on path and path.tmp may err
    LoadMayFail,  \* TRUE when load may err
    None          \* no caller

ASSUME FileStoreAssumption ==
    /\ None \notin Callers
    /\ MaxChanges \in Nat /\ MaxRestarts \in Nat
    /\ DiskMayFail \in BOOLEAN /\ LoadMayFail \in BOOLEAN

VARIABLES
    maps,      \* the maps in memory
    path,      \* the file at path
    tmp,       \* the file at path.tmp
    lock,      \* who holds the mutex for writing, or None
    caller,    \* the position of each call and its change
    made,      \* the changes ever made
    answered,  \* changes whose call returned without an error
    seen,      \* what the last read returned
    load,      \* "unread" when this run could not load path, and has not replaced it
    lost,      \* what the files held that such runs replaced
    restarts

loadVars == <<load, lost>>
vars == <<maps, path, tmp, lock, caller, made, answered, seen, load, lost, restarts>>

Changes == 1..MaxChanges

States == SUBSET Changes

\* A file is missing, created but not written to its end, or holds a state.
Files == [status : {"missing", "partial", "whole"}, maps : States]

Missing == [status |-> "missing", maps |-> {}]
Partial == [status |-> "partial", maps |-> {}]

\* A faulty variant of Whole: what was encoded stays in the writer's buffer.
WholeBuffered(s) == [status |-> "buffered", maps |-> s]

Whole(s) == [status |-> "whole", maps |-> s]

CallerPC == {"idle", "changed", "created", "written", "closed", "renamed"}

NoCall == [pc |-> "idle", change |-> 0]

TypeOK ==
    /\ maps \in States
    /\ path \in Files
    /\ tmp \in Files
    /\ lock \in Callers \cup {None}
    /\ caller \in [Callers -> [pc : CallerPC, change : Changes \cup {0}]]
    /\ made \in 0..MaxChanges
    /\ answered \in States
    /\ seen \in States
    /\ load \in {"read", "unread"}
    /\ lost \in States
    /\ restarts \in 0..MaxRestarts

Init ==
    /\ maps = {}
    /\ path = Missing /\ tmp = Missing
    /\ lock = None
    /\ caller = [c \in Callers |-> NoCall]
    /\ made = 0
    /\ answered = {} /\ seen = {}
    /\ load = "read" /\ lost = {}
    /\ restarts = 0

-----------------------------------------------------------------------------
(***************************************************************************)
(* SaveBot, and every other call that changes something; flushLocked       *)
(***************************************************************************)

To(c, pc) == caller' = [caller EXCEPT ![c].pc = pc]

\* The mutex, then the change of the maps.
Lock(c) ==
    /\ caller[c].pc = "idle"
    /\ lock = None
    /\ made < MaxChanges
    /\ made' = made + 1
    /\ lock' = c
    /\ maps' = maps \cup {made + 1}
    /\ caller' = [caller EXCEPT ![c] = [pc |-> "changed", change |-> made + 1]]
    /\ UNCHANGED <<path, tmp, answered, seen, loadVars, restarts>>

\* The call returns an error.  The change of the maps stays.
ReturnError(c) ==
    /\ DiskMayFail
    /\ lock' = None
    /\ caller' = [caller EXCEPT ![c] = NoCall]
    /\ UNCHANGED <<maps, path, made, answered, seen, loadVars, restarts>>

UnchangedByStep == UNCHANGED <<maps, lock, made, answered, seen, restarts>>

UnchangedByWrite == UNCHANGED <<path, loadVars>> /\ UnchangedByStep

\* MkdirAll and Create, which empties the file that an earlier call has left.
CreateTmp(c) ==
    /\ caller[c].pc = "changed"
    /\ \/ tmp' = Partial /\ To(c, "created") /\ UnchangedByWrite
       \/ UNCHANGED tmp /\ ReturnError(c)

\* os.Remove of the file, whose error is ignored.
RemoveTmp == tmp' \in {Missing, tmp}

\* Encode writes the maps of all bots.
Encode(c) ==
    /\ caller[c].pc = "created"
    /\ \/ tmp' = Whole(maps) /\ To(c, "written") /\ UnchangedByWrite
       \/ RemoveTmp /\ ReturnError(c)

Close(c) ==
    /\ caller[c].pc = "written"
    /\ \/ To(c, "closed") /\ UNCHANGED tmp /\ UnchangedByWrite
       \/ RemoveTmp /\ ReturnError(c)

\* What load makes of a file: nothing of one that is missing, or cannot be decoded.
Loaded(f) == IF f.status = "whole" THEN f.maps ELSE {}

\* The file at path is replaced, which this run may not have read.
Replaced ==
    /\ load' = "read"
    /\ lost' = IF load = "unread" THEN lost \cup Loaded(path) ELSE lost

\* A faulty variant of Rename: the file is copied in place, not moved.
CopyOver(c) ==
    /\ caller[c].pc = "closed"
    /\ \/ path' \in {tmp, Partial} /\ Replaced /\ UNCHANGED tmp /\ To(c, "renamed") /\ UnchangedByStep
       \/ UNCHANGED tmp /\ ReturnError(c)

\* A faulty variant of Rename: its error is ignored.
RenameIgnoresError(c) ==
    /\ caller[c].pc = "closed"
    /\ path' \in {tmp, path} /\ Replaced /\ tmp' = Missing /\ To(c, "renamed") /\ UnchangedByStep

\* An error of Rename leaves both files.
Rename(c) ==
    /\ caller[c].pc = "closed"
    /\ \/ path' = tmp /\ Replaced /\ tmp' = Missing /\ To(c, "renamed") /\ UnchangedByStep
       \/ UNCHANGED tmp /\ ReturnError(c)

Return(c) ==
    /\ caller[c].pc = "renamed"
    /\ answered' = answered \cup {caller[c].change}
    /\ lock' = None
    /\ caller' = [caller EXCEPT ![c] = NoCall]
    /\ UNCHANGED <<maps, path, tmp, made, seen, loadVars, restarts>>

flushLocked(c) == CreateTmp(c) \/ Encode(c) \/ Close(c) \/ Rename(c) \/ Return(c)

-----------------------------------------------------------------------------

\* A faulty variant of Readable: the read lock is not taken.
ReadableAlways == TRUE

\* RLock is granted while nobody holds the mutex for writing.
Readable == lock = None

\* GetBot and the other calls that change nothing.
Read ==
    /\ Readable
    /\ seen' = maps
    /\ UNCHANGED <<maps, path, tmp, lock, caller, made, answered, loadVars, restarts>>

\* A crash at any point, and NewFileStore.  An error of load is ignored; a call
\* of the old run leaves nothing but its files.
Restart ==
    /\ restarts < MaxRestarts
    /\ restarts' = restarts + 1
    /\ \/ maps' = Loaded(path) /\ load' = "read"
       \/ LoadMayFail /\ maps' = {} /\ load' = "unread"
    /\ lock' = None
    /\ caller' = [c \in Callers |-> NoCall]
    /\ UNCHANGED <<path, tmp, made, answered, seen, lost>>

Next ==
    \/ \E c \in Callers : Lock(c) \/ flushLocked(c)
    \/ Read
    \/ Restart

Spec == Init /\ [][Next]_vars

-----------------------------------------------------------------------------
(***************************************************************************)
(* Properties                                                              *)
(***************************************************************************)

\* A change whose call was answered without an error is in the file from then on:
\* no later call, failed write, crash or half-written path.tmp takes it away.  There
\* is one exception: a run that could not load the file, an error that NewFileStore
\* ignores, replaces it with its first write.
AnsweredDurable == answered \subseteq Loaded(path) \cup lost

\* What load finds at path is a whole file, or none, even when load errs at times and
\* whatever a crash or a failed write leaves behind.
PathIsWhole == path.status # "partial"

\* The maps as the other calls may see them: without the change of a call that has
\* not renamed its file yet.
Visible ==
    IF lock # None /\ caller[lock].pc # "renamed" THEN maps \ {caller[lock].change}
    ELSE maps

Abstract == INSTANCE AtomicFile WITH mem <- Visible, file <- Loaded(path)

\* The steps of the calls, their errors and the crashes between them look like calls
\* that happen at once, and reads never see a call half done.
ImplementsAtomicFile == Abstract!Spec
=============================================================================
