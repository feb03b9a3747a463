------------------------------ MODULE MemoryLog ------------------------------
(***************************************************************************)
(* What the long-term memory of a bot promises, whatever happens to the    *)
(* server: the durable turns are a log that is only ever extended, each    *)
(* turn is recorded once, and a chat is answered without an error only     *)
(* when its turn is in the log, to stay there.  The promise has one        *)
(* exception: a run that could not read the log replaces it by a new one.  *)
(* ChatService.Chat over the FileStore implements it: see TrainingMemory.  *)
(***************************************************************************)
EXTENDS Naturals, Sequences, SequencesExt

CONSTANT LoadMayFail   \* TRUE when the log may be unreadable after a restart

VARIABLES
    log,        \* the durable turns, oldest first
    answered,   \* the chats answered without an error
    load,       \* "unread" when this run could not load the log, and has not replaced it
    lost        \* the turns of the logs that were replaced

Init ==
    /\ log = << >>
    /\ answered = {}
    /\ load = "read"
    /\ lost = {}

\* Any number of turns may become durable in one step: a write that succeeds
\* also writes what earlier writes failed to.
Extend ==
    /\ load = "read"
    /\ IsPrefix(log, log')
    /\ UNCHANGED <<load, lost>>

Replace ==
    /\ load = "unread" /\ load' = "read"
    /\ lost' = lost \cup Range(log)

\* What is written is a log without repetitions, of turns that were not lost before.
Write ==
    /\ Extend \/ Replace
    /\ IsInjective(log')
    /\ Range(log') \cap lost' = {}
    /\ UNCHANGED answered \/ \E c \in Range(log') : answered' = answered \cup {c}

Restart ==
    /\ load' \in IF LoadMayFail THEN {"read", "unread"} ELSE {"read"}
    /\ UNCHANGED <<log, answered, lost>>

Next == Write \/ Restart

Spec == Init /\ [][Next]_<<log, answered, load, lost>>
=============================================================================
