----------------------------- MODULE AtomicFile -----------------------------
(***************************************************************************)
(* What the callers of the FileStore rely on: a call that changes the maps *)
(* happens at once, in memory and, unless it fails, in the file; reads see *)
(* the maps between two calls; and a restart is back at the file, or, when *)
(* that cannot be read, at nothing.                                        *)
(*                                                                         *)
(* Commit and Reload of BotStore, and Update and Reload of SliceStore, are *)
(* Change and Restart for one part of the maps.  A state of the maps is    *)
(* the set of the changes made to it.                                      *)
(***************************************************************************)
CONSTANTS
    Changes,
    LoadMayFail    \* TRUE when a restart may fail to read the file

VARIABLES
    mem,       \* the maps
    file,      \* the file
    answered,  \* changes whose call returned without an error
    seen       \* what the last read returned

vars == <<mem, file, answered, seen>>

Init == mem = {} /\ file = {} /\ answered = {} /\ seen = {}

\* ok is whether the file was written.
Change(n, ok) ==
    /\ n \notin mem
    /\ mem' = mem \cup {n}
    /\ file' = IF ok THEN mem' ELSE file
    /\ UNCHANGED <<answered, seen>>

Answer(n) ==
    /\ n \in file
    /\ answered' = answered \cup {n}
    /\ UNCHANGED <<mem, file, seen>>

Read == seen' = mem /\ UNCHANGED <<mem, file, answered>>

Restart ==
    /\ mem' = file \/ (LoadMayFail /\ mem' = {})
    /\ UNCHANGED <<file, answered, seen>>

Next ==
    \/ \E n \in Changes, ok \in BOOLEAN : Change(n, ok)
    \/ \E n \in Changes : Answer(n)
    \/ Read
    \/ Restart

Spec == Init /\ [][Next]_vars
=============================================================================
