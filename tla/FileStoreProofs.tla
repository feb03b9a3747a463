-------------------------- MODULE FileStoreProofs --------------------------
(***************************************************************************)
(* Answered changes are durable, unless a run replaces a file it could not *)
(* read; path is whole or missing; and the steps of the FileStore          *)
(* implement AtomicFile, for any number of calls, changes and restarts.    *)
(***************************************************************************)
EXTENDS FileStore, TLAPS

\* A call is under way exactly when its caller holds the mutex; what it has written
\* so far is the maps, which nobody else changes.
LockInv ==
    \A c \in Callers :
        /\ caller[c].pc # "idle" <=> lock = c
        /\ caller[c].pc # "idle" => caller[c].change \in maps
        /\ caller[c].pc \in {"changed", "created", "written", "closed"} =>
               caller[c].change \notin Loaded(path)
        /\ caller[c].pc \in {"written", "closed"} => tmp = Whole(maps)
        /\ caller[c].pc = "renamed" => Loaded(path) = maps

\* Changes are numbered in the order they are made.
MadeInv ==
    /\ \A n \in maps \cup Loaded(path) \cup answered : n <= made

\* The file is behind the maps, never ahead of them, once it was read or replaced, and
\* holds what was answered.
DurableInv == (load = "read" => Loaded(path) \subseteq maps) /\ AnsweredDurable

Inv == TypeOK /\ PathIsWhole /\ LockInv /\ MadeInv /\ DurableInv

USE FileStoreAssumption
USE DEF Changes, States, Files, CallerPC, NoCall, Missing, Partial, Whole, loadVars

-----------------------------------------------------------------------------

LEMMA InitInv == Init => Inv
  BY DEF Init, Inv, TypeOK, PathIsWhole, LockInv, MadeInv, DurableInv, AnsweredDurable, Loaded

\* The caller that is under way is the one that holds the mutex.
LEMMA Holder ==
    ASSUME Inv, NEW c \in Callers, caller[c].pc # "idle"
    PROVE  /\ lock = c /\ lock # None
           /\ \A d \in Callers \ {c} : caller[d].pc = "idle"
  BY DEF Inv, LockInv

LEMMA LoadedStates == TypeOK => Loaded(path) \in States
  BY DEF TypeOK, Loaded

LEMMA LockStep ==
    ASSUME Inv, NEW c \in Callers, Lock(c)
    PROVE  Inv'
  <1> USE DEF Inv
  <1>1. /\ lock = None /\ lock' = c /\ maps' = maps \cup {made + 1} /\ made' = made + 1
        /\ made + 1 \in Changes
        /\ caller' = [caller EXCEPT ![c] = [pc |-> "changed", change |-> made + 1]]
        /\ UNCHANGED <<path, tmp, answered, seen, load, lost, restarts>>
    BY DEF Lock, TypeOK
  <1>2. \A d \in Callers : caller[d].pc = "idle"
    BY <1>1 DEF LockInv
  <1>3. made + 1 \notin Loaded(path) /\ made \in Nat
    BY DEF MadeInv, TypeOK
  <1>4. TypeOK'
    BY <1>1 DEF TypeOK
  <1>5. LockInv'
    BY <1>1, <1>2, <1>3 DEF LockInv, TypeOK, Loaded
  <1>6. MadeInv'
    BY <1>1, <1>3, LoadedStates DEF MadeInv, TypeOK, Loaded
  <1> QED
    BY <1>1, <1>4, <1>5, <1>6 DEF DurableInv, AnsweredDurable, PathIsWhole, Loaded

\* An error leaves the maps and the file at path.
LEMMA ErrorStep ==
    ASSUME Inv, NEW c \in Callers, caller[c].pc # "idle", ReturnError(c), tmp' \in {Missing, tmp}
    PROVE  Inv'
  <1> USE DEF Inv, ReturnError
  <1>1. TypeOK'
    BY DEF TypeOK
  <1>2. LockInv'
    BY Holder DEF LockInv, TypeOK
  <1> QED
    BY <1>1, <1>2 DEF MadeInv, DurableInv, AnsweredDurable, PathIsWhole, Loaded

\* A step that writes path.tmp.
LEMMA WriteStep ==
    ASSUME Inv, NEW c \in Callers, caller[c].pc \in {"changed", "created", "written"},
           NEW pc \in {"created", "written", "closed"}, To(c, pc), UnchangedByWrite,
           tmp' \in Files, pc \in {"written", "closed"} => tmp' = Whole(maps)
    PROVE  Inv'
  <1> USE DEF Inv, UnchangedByWrite, UnchangedByStep, To
  <1>1. TypeOK'
    BY DEF TypeOK
  <1>2. LockInv'
    BY Holder DEF LockInv, TypeOK, Loaded
  <1> QED
    BY <1>1, <1>2 DEF MadeInv, DurableInv, AnsweredDurable, PathIsWhole, Loaded

LEMMA RenameStep ==
    ASSUME Inv, NEW c \in Callers, caller[c].pc = "closed", path' = tmp, Replaced, tmp' = Missing,
           To(c, "renamed"), UnchangedByStep
    PROVE  Inv'
  <1> USE DEF Inv, UnchangedByStep, To
  <1>1. tmp = Whole(maps) /\ Loaded(path)' = maps
    BY DEF LockInv, Loaded
  <1>2. TypeOK'
    BY <1>1, LoadedStates DEF TypeOK, Replaced
  <1>3. LockInv'
    BY <1>1, Holder DEF LockInv, TypeOK
  <1>4. MadeInv'
    BY <1>1 DEF MadeInv
  <1>5. DurableInv'
    BY <1>1 DEF DurableInv, AnsweredDurable, Replaced, TypeOK
  <1> QED
    BY <1>1, <1>2, <1>3, <1>4, <1>5 DEF PathIsWhole

LEMMA ReturnStep ==
    ASSUME Inv, NEW c \in Callers, Return(c)
    PROVE  Inv'
  <1> USE DEF Inv, Return
  <1>1. caller[c].change \in maps /\ Loaded(path) = maps
    BY DEF LockInv
  <1>2. TypeOK'
    BY <1>1 DEF TypeOK
  <1>3. LockInv'
    BY Holder DEF LockInv, TypeOK, Loaded
  <1>4. MadeInv' /\ DurableInv'
    BY <1>1 DEF MadeInv, DurableInv, AnsweredDurable, Loaded
  <1> QED
    BY <1>2, <1>3, <1>4 DEF PathIsWhole

LEMMA FlushStep ==
    ASSUME Inv, NEW c \in Callers, flushLocked(c)
    PROVE  Inv'
  <1>1. CASE CreateTmp(c)
    BY <1>1, WriteStep, ErrorStep DEF CreateTmp
  <1>2. CASE Encode(c)
    <2>1. Whole(maps) \in Files
      BY DEF Inv, TypeOK
    <2> QED
      BY <1>2, <2>1, WriteStep, ErrorStep DEF Encode, RemoveTmp
  <1>3. CASE Close(c)
    <2>1. tmp \in Files /\ tmp = Whole(maps)
      BY <1>3 DEF Inv, TypeOK, LockInv, Close
    <2> QED
      BY <1>3, <2>1, WriteStep, ErrorStep DEF Close, RemoveTmp
  <1>4. CASE Rename(c)
    BY <1>4, RenameStep, ErrorStep DEF Rename
  <1> QED
    BY <1>1, <1>2, <1>3, <1>4, ReturnStep DEF flushLocked

LEMMA RestartStep == Inv /\ Restart => Inv'
  <1> SUFFICES ASSUME Inv, Restart PROVE Inv'
    OBVIOUS
  <1> USE DEF Inv, Restart
  <1>1. TypeOK'
    BY LoadedStates DEF TypeOK
  <1>2. LockInv'
    BY DEF LockInv, TypeOK
  <1> QED
    BY <1>1, <1>2 DEF MadeInv, DurableInv, AnsweredDurable, PathIsWhole, Loaded

THEOREM Invariance == Spec => []Inv
  <1>1. Inv /\ [Next]_vars => Inv'
    <2> SUFFICES ASSUME Inv, [Next]_vars PROVE Inv'
      OBVIOUS
    <2>1. ASSUME NEW c \in Callers, Lock(c) \/ flushLocked(c) PROVE Inv'
      BY <2>1, LockStep, FlushStep
    <2>2. CASE Read
      BY <2>2 DEF Read, Inv, TypeOK, PathIsWhole, LockInv, MadeInv, DurableInv, AnsweredDurable, Loaded
    <2>3. CASE Restart
      BY <2>3, RestartStep
    <2>4. CASE UNCHANGED vars
      BY <2>4 DEF vars, Inv, TypeOK, PathIsWhole, LockInv, MadeInv, DurableInv, AnsweredDurable, Loaded
    <2> QED
      BY <2>1, <2>2, <2>3, <2>4 DEF Next
  <1> QED
    BY <1>1, InitInv, PTL DEF Spec

\* The variables have their types.
THEOREM FileStoreTypeCorrect == Spec => []TypeOK
  <1>1. Inv => TypeOK
    BY DEF Inv
  <1> QED
    BY <1>1, Invariance, PTL

\* A restart finds a whole file at path, or none.
THEOREM PathAlwaysWhole == Spec => []PathIsWhole
  <1>1. Inv => PathIsWhole
    BY DEF Inv
  <1> QED
    BY <1>1, Invariance, PTL

\* A change that was answered without an error stays in the file, but for one case.
THEOREM AnsweredAreDurable == Spec => []AnsweredDurable
  <1>1. Inv => AnsweredDurable
    BY DEF Inv, DurableInv
  <1> QED
    BY <1>1, Invariance, PTL

-----------------------------------------------------------------------------
(***************************************************************************)
(* Refinement                                                              *)
(***************************************************************************)

\* The abstract change happens when the file is renamed, or when the call returns
\* its error.
LEMMA FlushRefines ==
    ASSUME Inv, NEW c \in Callers, flushLocked(c)
    PROVE  [Abstract!Next]_Abstract!vars
  <1> DEFINE n == caller[c].change
  <1>1. /\ caller[c].pc # "idle" /\ lock = c /\ lock # None
        /\ n \in maps /\ n \in Changes
    <2>1. caller[c].pc # "idle"
      BY DEF flushLocked, CreateTmp, Encode, Close, Rename, Return
    <2> QED
      BY <2>1, Holder DEF Inv, LockInv, TypeOK
  <1>2. ASSUME ReturnError(c), caller[c].pc # "renamed"
        PROVE  Abstract!Change(n, FALSE)
    BY <1>1, <1>2 DEF ReturnError, Visible, Abstract!Change, Loaded
  <1>3. ASSUME NEW pc \in {"created", "written", "closed"}, To(c, pc), UnchangedByStep,
               path' = path, caller[c].pc # "renamed"
        PROVE  UNCHANGED Abstract!vars
    BY <1>1, <1>3 DEF To, UnchangedByStep, Visible, Abstract!vars, Loaded, Inv, TypeOK
  <1>4. ASSUME caller[c].pc = "closed", path' = tmp, To(c, "renamed"), UnchangedByStep
        PROVE  Abstract!Change(n, TRUE)
    <2>1. Loaded(path)' = maps
      BY <1>4 DEF Inv, LockInv, Loaded
    <2>2. Visible' = maps /\ Visible = maps \ {n}
      BY <1>1, <1>4 DEF To, UnchangedByStep, Visible, Inv, TypeOK
    <2> QED
      BY <1>1, <1>4, <2>1, <2>2 DEF Abstract!Change, UnchangedByStep
  <1>5. ASSUME Return(c)
        PROVE  Abstract!Answer(n)
    BY <1>1, <1>5 DEF Return, Abstract!Answer, Visible, Loaded, Inv, LockInv
  <1>6. (\E ok \in BOOLEAN : Abstract!Change(n, ok)) \/ Abstract!Answer(n) => Abstract!Next
    BY <1>1 DEF Abstract!Next
  <1>7. CASE CreateTmp(c)
    BY <1>2, <1>3, <1>6, <1>7 DEF CreateTmp, UnchangedByWrite
  <1>8. CASE Encode(c)
    BY <1>2, <1>3, <1>6, <1>8 DEF Encode, UnchangedByWrite
  <1>9. CASE Close(c)
    BY <1>2, <1>3, <1>6, <1>9 DEF Close, UnchangedByWrite
  <1>10. CASE Rename(c)
    BY <1>2, <1>4, <1>6, <1>10 DEF Rename
  <1>11. CASE Return(c)
    BY <1>5, <1>6, <1>11
  <1> QED
    BY <1>7, <1>8, <1>9, <1>10, <1>11 DEF flushLocked

LEMMA StepRefines ==
    ASSUME Inv, [Next]_vars
    PROVE  [Abstract!Next]_Abstract!vars
  <1>1. ASSUME NEW c \in Callers, Lock(c)
        PROVE  UNCHANGED Abstract!vars
    <2>1. made + 1 \notin maps /\ made \in Nat
      BY DEF Inv, MadeInv, TypeOK
    <2>2. Visible = maps
      BY <1>1 DEF Lock, Visible
    <2>3. Visible' = maps
      BY <1>1, <2>1 DEF Lock, Visible, Inv, TypeOK
    <2> QED
      BY <1>1, <2>2, <2>3 DEF Lock, Abstract!vars, Loaded
  <1>2. CASE Read
    BY <1>2 DEF Read, Readable, Visible, Loaded, Abstract!Read, Abstract!Next
  <1>3. CASE Restart
    BY <1>3 DEF Restart, Visible, Loaded, Abstract!Restart, Abstract!Next
  <1>4. CASE UNCHANGED vars
    BY <1>4 DEF vars, Visible, Loaded, Abstract!vars
  <1> QED
    BY <1>1, <1>2, <1>3, <1>4, FlushRefines DEF Next

\* The FileStore implements AtomicFile: what the other modules take for one step is one.
THEOREM FileStoreIsAtomic == Spec => ImplementsAtomicFile
  <1>1. Init => Abstract!Init
    BY DEF Init, Abstract!Init, Visible, Loaded
  <1> QED
    BY <1>1, StepRefines, Invariance, PTL DEF Spec, ImplementsAtomicFile, Abstract!Spec
=============================================================================
