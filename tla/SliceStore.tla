----------------------------- MODULE SliceStore -----------------------------
(***************************************************************************)
(* One slice that backend/internal/store keeps of a bot: its skills, or    *)
(* its iNFTs.  The calls on both are alike: append an item, get one, list  *)
(* them, and replace the whole slice.  Each call is atomic under the       *)
(* store's mutex; as in BotStore, a call that changes the slice does so in *)
(* memory first and then writes the file.                                  *)
(*                                                                         *)
(* An item is the fields its publishes change, under its id.  The id holds *)
(* the nanosecond of the creation, so it is never used again, not even     *)
(* after a restart; here it is the number of the item.  A slice is only    *)
(* ever appended to and filtered, so the order of the ids is its order.    *)
(***************************************************************************)
EXTENDS Naturals, Sequences

CONSTANTS
    MaxItems,      \* bound on the items ever created
    None,          \* no item, or an empty field of one
    FlushMayFail,  \* TRUE when writing the file may fail
    LoadMayFail    \* TRUE when reading the file may fail at a start

ASSUME SliceAssumption ==
    /\ MaxItems \in Nat
    /\ FlushMayFail \in BOOLEAN /\ LoadMayFail \in BOOLEAN

VARIABLES
    items,     \* the slice in memory
    file,      \* the slice in the file
    made       \* what each item ever created is made of: the fields nothing changes

sliceVars == <<items, file, made>>

Ids == 1..MaxItems

\* The slices of items of type T: None under the ids they do not have.  A copy
\* that a List call returned has the same type.
Slices(T) == [Ids -> T \cup {None}]

NoItems == [x \in Ids |-> None]

\* The ids of a slice.
Listed(s) == {x \in Ids : s[x] # None}

-----------------------------------------------------------------------------

\* What flushLocked may return.
FlushOutcomes == IF FlushMayFail THEN BOOLEAN ELSE {TRUE}

\* Replaces the WHOLE slice, whatever was saved since it was listed.
Update(s, ok) ==
    /\ ok \in FlushOutcomes
    /\ items' = s
    /\ file' = IF ok THEN s ELSE file

\* Appends an item.
Save(fields, r, ok) ==
    /\ Len(made) < MaxItems
    /\ made' = Append(made, fields)
    /\ Update([items EXCEPT ![Len(made) + 1] = r], ok)

\* Any other call that writes the file writes this slice with it.
FlushElsewhere ==
    /\ file # items
    /\ file' = items
    /\ UNCHANGED <<items, made>>

\* What a start finds in memory: what the last write left, or nothing, as NewFileStore
\* ignores an error of load.  Every call then fails until POST /api/bots saves the bot
\* again, with an empty slice.  That call writes the file as any other does, so the state
\* with an empty slice stands for the one before it, too, in which nothing happens.
Loaded == IF LoadMayFail THEN {file, NoItems} ELSE {file}

Reload ==
    /\ items' \in Loaded
    /\ UNCHANGED <<file, made>>
=============================================================================
