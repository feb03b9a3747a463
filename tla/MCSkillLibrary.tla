--------------------------- MODULE MCSkillLibrary ---------------------------
(***************************************************************************)
(* SkillLibrary on small sets.  TLC does not follow the product of all     *)
(* that may happen at once, but the behaviours whose states are each in    *)
(* one of four scenarios.                                                  *)
(***************************************************************************)
EXTENDS SkillLibrary, TLC

CONSTANTS a, b, c1, d1

MCBases == {a, b}

\* The files a and a-2, an empty one and one that is no skill.
Named(base, suffix, content) ==
    [filename |-> [base |-> base, suffix |-> suffix], content |-> content]

A == Named(a, << >>, "skill")
A2 == Named(a, <<2>>, "skill")
BlankA == Named(a, << >>, "blank")
Other == Named(b, << >>, "unsupported")

\* Lists of one and two files: the same name twice, a name that a number makes
\* equal to another, a file that is skipped, one that is refused.
MCBatches == {<<A>>, <<A, A>>, <<A2, A>>, <<BlankA, A>>, <<A, Other>>}

\* One request of a kind at a time.
OneCreator ==
    /\ \A c \in Creators \ {c1} : create[c].pc = "idle"
    /\ \A x \in 1..Len(made) : made[x].request = c1

OneDeleter == \A d \in Deleters \ {d1} : delete[d] = NoDelete

NonePublished == \A p \in Publishes : pub[p].tx = "none"

\* One request of a kind at a time, with every list of files, a deletion before the third
\* skill, and no failed write, crash or publish.
Names ==
    /\ NonePublished /\ items = file /\ crashes = 0
    /\ OneCreator /\ OneDeleter
    /\ Len(made) = 3 => delete[d1] = NoDelete

\* The requests upload one file.
OnlyUploads ==
    /\ \A c \in Creators : create[c].pc \in {"idle", "upload"} /\ create[c].files \in {<< >>, <<A>>}
    /\ \A x \in 1..Len(made) : made[x].by = "upload" /\ made[x].filename = A.filename

\* Two requests of a kind at a time, with one file and two skills, failed writes, a crash,
\* and no publish.
Overlapping ==
    /\ NonePublished
    /\ Len(made) <= 2
    /\ OnlyUploads

\* Each skill was made by a request of its own, one after the other.
OneByOne ==
    /\ OneCreator
    /\ \A x \in 1..Len(made) : made[x].after = x - 1

\* One call at a time, of two publishes, with two skills one of which may be deleted, or
\* with one skill and a crash.
Publishing ==
    /\ Len(made) + crashes <= 2 /\ items = file
    /\ Cardinality(deleted \cup contested \cup UNION {delete[d].ids : d \in Deleters}) <= 1
    /\ OneByOne /\ OneDeleter
    /\ Cardinality({f \in Calls : final[f].pc # "idle" \/ uploader[f].pc # "none"}) <= 1
    /\ OnlyUploads

\* Two calls at a time, of two publishes of two skills that the chain accepts.
TwoCalls ==
    /\ \A p \in Publishes : pub[p].tx # "failed"
    /\ Len(made) <= 2 /\ items = file /\ crashes = 0
    /\ OneByOne /\ deleted = {} /\ \A d \in Deleters : delete[d] = NoDelete
    /\ OnlyUploads

Scenarios == Names \/ Overlapping \/ Publishing \/ TwoCalls

Symmetry == Permutations(Publishes) \cup Permutations(Calls)
=============================================================================
