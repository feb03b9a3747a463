------------------------- MODULE SkillLibraryProofs -------------------------
(***************************************************************************)
(* The types of the SkillLibrary; what the references on skills say; that  *)
(* a deletion lasts; and when a filename comes twice.  All for any number  *)
(* of skills, files, requests of each kind, publishes and crashes.         *)
(***************************************************************************)
EXTENDS SkillLibrary, FiniteSetTheorems, SequenceTheorems, TLAPS

USE SliceAssumption, SkillAssumption
USE DEF Ids, Slices, NoItems, Listed, sliceVars

-----------------------------------------------------------------------------
(***************************************************************************)
(* A filename that neither exists nor was given before is found            *)
(***************************************************************************)

\* A set of naturals has a smallest one: the initial segments that end in a member
\* are finite sets, which strict inclusion orders well.
LEMMA MinIsLeast ==
    ASSUME NEW S \in SUBSET Nat, S # {}
    PROVE  Min(S) \in S /\ \A y \in S : Min(S) <= y
  <1> DEFINE Segments == {0..n : n \in S}
             R == StrictSubsetOrdering(Nat)
  <1>1. Segments \subseteq FiniteSubsetsOf(Nat)
    <2> SUFFICES ASSUME NEW n \in S PROVE 0..n \in FiniteSubsetsOf(Nat)
      OBVIOUS
    <2>1. IsFiniteSet(0..n) /\ 0..n \subseteq Nat
      BY FS_Interval
    <2> QED
      BY <2>1 DEF FiniteSubsetsOf
  <1>2. IsWellFoundedOn(R, FiniteSubsetsOf(Nat))
    BY FS_StrictSubsetOrderingWellFounded
  <1>3. Segments # {}
    OBVIOUS
  <1>4. PICK segment \in Segments : \A other \in Segments : <<other, segment>> \notin R
    <2> HIDE DEF Segments, R
    <2> QED
      BY <1>1, <1>2, <1>3, WFMin
  <1>5. PICK m \in S : segment = 0..m
    OBVIOUS
  <1>6. \A y \in S : m <= y
    <2> SUFFICES ASSUME NEW y \in S, y < m PROVE FALSE
      OBVIOUS
    <2>1. 0..y \subseteq 0..m /\ 0..y # 0..m /\ 0..y \in SUBSET Nat /\ 0..m \in SUBSET Nat
      OBVIOUS
    <2>2. <<0..y, 0..m>> \in R
      BY <2>1 DEF StrictSubsetOrdering
    <2> QED
      BY <1>4, <1>5, <2>2
  <1> QED
    BY <1>6 DEF Min

\* Different numbers make different filenames.
LEMMA CandidatesDiffer ==
    ASSUME NEW filename \in Filenames, NEW m \in Nat \ {0}, NEW n \in Nat \ {0}, m # n
    PROVE  /\ Candidate(filename, n) \in Filenames
           /\ Candidate(filename, m) # Candidate(filename, n)
  <1>1. filename.suffix \in Seq(Nat)
    BY DEF Filenames
  <1>2. /\ Candidate(filename, n).suffix =
               IF n = 1 THEN filename.suffix ELSE Append(filename.suffix, n)
        /\ Candidate(filename, m).suffix =
               IF m = 1 THEN filename.suffix ELSE Append(filename.suffix, m)
    BY DEF Candidate, Filenames
  <1>3. \A k \in Nat : /\ Append(filename.suffix, k) \in Seq(Nat)
                       /\ Len(Append(filename.suffix, k)) = Len(filename.suffix) + 1
                       /\ Append(filename.suffix, k)[Len(filename.suffix) + 1] = k
    BY <1>1
  <1>4. Len(filename.suffix) # Len(filename.suffix) + 1
    BY <1>1
  <1>5. Candidate(filename, n) \in Filenames
    BY <1>3 DEF Candidate, Filenames
  <1> QED
    BY <1>2, <1>3, <1>4, <1>5

\* Of one candidate more than there are filenames in use, some is free.
LEMMA UniqueIsFree ==
    ASSUME NEW filename \in Filenames, NEW existing, NEW batch,
           IsFiniteSet(existing), IsFiniteSet(batch)
    PROVE  LET f == makeUniqueDistilledSkillFilename(filename, existing, batch)
           IN  f \in Filenames /\ f \notin existing \cup batch
  <1> DEFINE used == existing \cup batch
             N == Cardinality(used) + 1
             Free == {n \in 1..N : Candidate(filename, n) \notin used}
  <1>1. IsFiniteSet(used) /\ N \in Nat /\ Cardinality(used) < N
    <2>1. IsFiniteSet(used)
      BY FS_Union
    <2> QED
      BY <2>1, FS_CardinalityType
  <1>2. Free # {}
    <2> SUFFICES ASSUME Free = {} PROVE FALSE
      OBVIOUS
    <2> DEFINE g == [n \in 1..N |-> Candidate(filename, n)]
    <2>1. IsFiniteSet(1..N) /\ Cardinality(1..N) = N
      BY <1>1, FS_Interval
    <2>2. g \in [1..N -> used]
      OBVIOUS
    <2>3. PICK m, n \in 1..N : m # n /\ g[m] = g[n]
      <3> HIDE DEF g, used, N
      <3> QED
        BY <1>1, <2>1, <2>2, FS_PigeonHole
    <2> QED
      BY <1>1, <2>3, CandidatesDiffer
  <1>3. Free \in SUBSET Nat
    BY <1>1
  <1>4. Min(Free) \in Free
    <2> HIDE DEF Free
    <2> QED
      BY <1>2, <1>3, MinIsLeast
  <1>5. PICK n \in Free : n = Min(Free)
    BY <1>4
  <1>6. Candidate(filename, n) \in Filenames \ used
    <2>1. n \in Nat \ {0} /\ n + 1 \in Nat \ {0} /\ n # n + 1
      BY <1>1
    <2> QED
      BY <2>1, CandidatesDiffer
  <1>7. makeUniqueDistilledSkillFilename(filename, existing, batch) = Candidate(filename, n)
    <2>1. makeUniqueDistilledSkillFilename(filename, existing, batch) = Candidate(filename, Min(Free))
      BY Zenon DEF makeUniqueDistilledSkillFilename
    <2> HIDE DEF Free
    <2> QED
      BY <1>5, <2>1
  <1> HIDE DEF Free
  <1> QED
    BY <1>6, <1>7

-----------------------------------------------------------------------------
(***************************************************************************)
(* What the references on the skills say                                   *)
(***************************************************************************)

\* A slice lists skills that were made.  Each reference is a publish of the skill that the
\* wallet sent, and a publish of one skill is uploaded.
Sound(s, pubs, done, n) ==
    \A x \in Listed(s) :
        /\ x <= n
        /\ s[x].ref # None =>
               /\ s[x].ref \in Publishes
               /\ x \in pubs[s[x].ref].skills /\ pubs[s[x].ref].tx \in Sent
               /\ pubs[s[x].ref].kind = "skill" => s[x].ref \in done

\* A slice as it is now.
SoundNow(s) == Sound(s, pub, uploaded, Len(made))

\* A handler writes a slice back which it listed earlier: the copies must be sound, too.
CopiesSound ==
    /\ SoundNow(items) /\ SoundNow(file)
    /\ \A d \in Deleters : SoundNow(delete[d].list)
    /\ \A f \in Calls : SoundNow(final[f].list) /\ SoundNow(uploader[f].list)

\* What a publish_finalize works on was sent, and is uploaded when it goes on to list the
\* skills; a goroutine works on a bundle.
FinalGood(job, pubs, done) ==
    job.pc # "idle" =>
        /\ job.source \in Publishes /\ pubs[job.source].tx \in Sent
        /\ job.pc # "checking" /\ pubs[job.source].kind = "skill" => job.source \in done

UploadGood(job, pubs) ==
    job.pc # "none" =>
        /\ job.source \in Publishes /\ pubs[job.source].tx \in Sent
        /\ pubs[job.source].kind # "skill"

JobInv ==
    \A f \in Calls : FinalGood(final[f], pub, uploaded) /\ UploadGood(uploader[f], pub)

\* The filenames a request compares with are finitely many.
FiniteInv ==
    \A c \in Creators : IsFiniteSet(create[c].existing) /\ IsFiniteSet(create[c].batch)

Inv == TypeOK /\ CopiesSound /\ JobInv /\ FiniteInv

USE DEF Skill, Blank, TxStatus, Sent, Job, NoJob, FinalPC, UploadPC, NoDelete, DeleteJobs

LEMMA InitInv == Init => Inv
  <1> SUFFICES ASSUME Init PROVE Inv
    OBVIOUS
  <1> USE DEF Init
  <1>1. TypeOK
    BY DEF TypeOK, CreateJobs, NoCreate
  <1>2. CopiesSound /\ JobInv
    BY DEF CopiesSound, SoundNow, Sound, JobInv, FinalGood, UploadGood
  <1>3. FiniteInv
    BY FS_EmptySet DEF FiniteInv, NoCreate
  <1> QED
    BY <1>1, <1>2, <1>3 DEF Inv

\* A publish that is sent keeps its kind and its skills, and stays sent.
Grows(pubs, pubs2) ==
    \A p \in Publishes : pubs[p].tx \in Sent =>
        pubs2[p].tx \in Sent /\ pubs2[p].skills = pubs[p].skills /\ pubs2[p].kind = pubs[p].kind

LEMMA SoundGrows ==
    ASSUME NEW s, NEW pubs, NEW pubs2, NEW done, NEW done2, NEW m \in Nat, NEW n \in Nat,
           Sound(s, pubs, done, m), Grows(pubs, pubs2), done \subseteq done2, m <= n
    PROVE  Sound(s, pubs2, done2, n)
  BY DEF Sound, Grows

\* The slice that is written back replaces the one in memory, and maybe the one in the file.
LEMMA UpdateSlices ==
    ASSUME NEW s, NEW ok, Update(s, ok)
    PROVE  items' = s /\ file' \in {s, file}
  BY DEF Update

LEMMA EmptySound == ASSUME NEW pubs, NEW done, NEW n PROVE Sound(NoItems, pubs, done, n)
  BY DEF Sound

\* What both kinds of publish write back.
LEMMA MarkedSound ==
    ASSUME Inv, NEW job, job.list \in Slices(Skill), SoundNow(job.list),
           job.source \in Publishes, pub[job.source].tx \in Sent,
           pub[job.source].kind = "skill" => job.source \in uploaded
    PROVE  Marked(job) \in Slices(Skill) /\ SoundNow(Marked(job))
  BY DEF Marked, SoundNow, Sound

LEMMA Counted == TypeOK => Len(made) \in Nat
  BY DEF TypeOK

\* The steps that touch neither the slice nor a copy of it.
LEMMA CopiesKept ==
    ASSUME Inv, UNCHANGED <<items, file, made, delete>>, Grows(pub, pub'), uploaded \subseteq uploaded',
           \A f \in Calls :
               /\ final'[f].list \in {final[f].list, items, NoItems}
               /\ uploader'[f].list \in {uploader[f].list, final[f].list, items, NoItems}
    PROVE  CopiesSound'
  <1>1. \A s : SoundNow(s) => Sound(s, pub', uploaded', Len(made'))
    BY SoundGrows, Counted DEF Inv, SoundNow
  <1>2. Sound(NoItems, pub', uploaded', Len(made'))
    BY EmptySound
  <1> QED
    BY <1>1, <1>2 DEF Inv, CopiesSound, SoundNow

\* The steps that write a sound slice back, or copy it.
LEMMA CopiesWritten ==
    ASSUME Inv, NEW s, Sound(s, pub, uploaded, Len(made')), items' = s, file' \in {s, file},
           Len(made') \in Nat, Len(made) <= Len(made'), UNCHANGED <<pub, uploaded>>,
           \A d \in Deleters : delete'[d].list \in {delete[d].list, items, NoItems},
           \A f \in Calls : /\ final'[f].list \in {final[f].list, NoItems}
                            /\ uploader'[f].list \in {uploader[f].list, NoItems}
    PROVE  CopiesSound'
  <1>1. \A t : SoundNow(t) => Sound(t, pub', uploaded', Len(made'))
    BY SoundGrows, Counted DEF Inv, SoundNow, Grows
  <1>2. Sound(NoItems, pub', uploaded', Len(made'))
    BY EmptySound
  <1> QED
    BY <1>1, <1>2 DEF Inv, CopiesSound, SoundNow

-----------------------------------------------------------------------------
(***************************************************************************)
(* Requests that create skills                                             *)
(***************************************************************************)

\* What a request lists at its start.
LEMMA FilenamesListed ==
    ASSUME Inv
    PROVE  FilenamesOf(items) \in SUBSET Filenames /\ IsFiniteSet(FilenamesOf(items))
  <1>1. IsFiniteSet(Listed(items))
    <2>1. IsFiniteSet(1..MaxItems) /\ Listed(items) \in SUBSET (1..MaxItems)
      BY FS_Interval
    <2> QED
      BY <2>1, FS_Subset
  <1>2. \A x \in Listed(items) : x \in 1..Len(made)
    BY Counted DEF Inv, CopiesSound, SoundNow, Sound
  <1>3. \A x \in Listed(items) : made[x].filename \in Filenames
    <2>1. made \in Seq(Makings)
      BY DEF Inv, TypeOK
    <2>2. \A x \in 1..Len(made) : made[x] \in Makings
      BY <2>1, ElementOfSeq
    <2> QED
      BY <1>2, <2>2 DEF Makings
  <1>4. [x \in Listed(items) |-> made[x].filename] \in Surjection(Listed(items), FilenamesOf(items))
    BY DEF FilenamesOf, Surjection
  <1>5. IsFiniteSet(FilenamesOf(items))
    BY <1>1, <1>4, FS_Surjection
  <1> QED
    BY <1>3, <1>5 DEF FilenamesOf

\* The request goes on, or is over, and nothing is created.
LEMMA SkipStep ==
    ASSUME Inv, contested' \subseteq Ids, NEW c \in Creators, UNCHANGED sliceVars, UnchangedByCreate,
           NEW job \in CreateJobs, create' = [create EXCEPT ![c] = job],
           IsFiniteSet(job.existing), IsFiniteSet(job.batch)
    PROVE  Inv'
  <1> USE DEF Inv, UnchangedByCreate
  <1>1. TypeOK'
    BY DEF TypeOK
  <1>2. CopiesSound' /\ JobInv'
    BY DEF CopiesSound, SoundNow, JobInv
  <1>3. FiniteInv'
    BY DEF FiniteInv, TypeOK
  <1> QED
    BY <1>1, <1>2, <1>3

\* The jobs a request goes on with.
LEMMA NextJobs ==
    ASSUME Inv, NEW c \in Creators, create[c].files # << >>,
           NEW batch \in SUBSET Filenames, IsFiniteSet(batch)
    PROVE  LET job == [create[c] EXCEPT !.files = Tail(@), !.batch = batch] IN
           /\ job \in CreateJobs /\ IsFiniteSet(job.existing) /\ IsFiniteSet(job.batch)
           /\ NextFile(c, batch) => create' = [create EXCEPT ![c] = job]
           /\ Head(create[c].files) \in Files
  <1>1. create[c] \in CreateJobs /\ create \in [Creators -> CreateJobs]
    BY DEF Inv, TypeOK
  <1>2. create[c].files \in Seq(Files) /\ IsFiniteSet(create[c].existing)
    BY <1>1 DEF Inv, FiniteInv, CreateJobs
  <1>3. Tail(create[c].files) \in Seq(Files) /\ Head(create[c].files) \in Files
    BY <1>2
  <1> QED
    BY <1>1, <1>2, <1>3 DEF CreateJobs, NextFile

LEMMA NoCreateJob ==
    NoCreate \in CreateJobs /\ IsFiniteSet(NoCreate.existing) /\ IsFiniteSet(NoCreate.batch)
  BY FS_EmptySet DEF NoCreate, CreateJobs

LEMMA CreateSkillStep ==
    ASSUME Inv, contested' \subseteq Ids, NEW c \in Creators, create[c].pc # "idle", create[c].files # << >>,
           NEW filename \in Filenames, NEW batch \in SUBSET Filenames, IsFiniteSet(batch),
           CreateSkill(c, filename, batch), UnchangedByCreate
    PROVE  Inv'
  <1> USE DEF Inv, UnchangedByCreate
  <1>1. PICK ok \in BOOLEAN :
            /\ Save(Making(c, filename), Blank, ok)
            /\ IF ok THEN NextFile(c, batch) ELSE CreateOver(c)
    BY DEF CreateSkill
  <1>2. PICK job \in CreateJobs : /\ create' = [create EXCEPT ![c] = job]
                                 /\ IsFiniteSet(job.existing) /\ IsFiniteSet(job.batch)
    BY <1>1, NextJobs, NoCreateJob DEF CreateOver
  <1> DEFINE s == [items EXCEPT ![Len(made) + 1] = Blank]
  <1>3. /\ Len(made) \in Nat /\ Len(made) + 1 \in Ids
        /\ made' = Append(made, Making(c, filename))
        /\ Len(made') = Len(made) + 1
        /\ items' = s /\ file' \in {s, file}
    <2>1. made \in Seq(Makings)
      BY DEF TypeOK
    <2>2. Len(made) < MaxItems /\ made' = Append(made, Making(c, filename))
      BY <1>1 DEF Save
    <2>3. Len(made) \in Nat /\ Len(made') = Len(made) + 1
      BY <2>1, <2>2, Counted
    <2>4. items' = s /\ file' \in {s, file}
      BY <1>1, UpdateSlices DEF Save
    <2> QED
      BY <2>2, <2>3, <2>4
  <1>4. s \in Slices(Skill) /\ items \in Slices(Skill)
    BY <1>3 DEF TypeOK
  <1>5. Making(c, filename) \in Makings
    BY DEF TypeOK, CreateJobs, Making, Makings
  <1>6. made' \in Seq(Makings) /\ Len(made') <= MaxItems
    BY <1>3, <1>5 DEF TypeOK
  <1>7. TypeOK'
    <2> HIDE DEF s
    <2> QED
      BY <1>2, <1>3, <1>4, <1>6 DEF TypeOK
  <1>8. Sound(s, pub, uploaded, Len(made'))
    BY <1>3, <1>4 DEF CopiesSound, SoundNow, Sound
  <1>9. CopiesSound'
    <2> HIDE DEF s
    <2> QED
      BY <1>3, <1>8, CopiesWritten
  <1>10. JobInv' /\ FiniteInv'
    BY <1>2 DEF JobInv, FiniteInv, TypeOK
  <1> QED
    BY <1>7, <1>9, <1>10

LEMMA CreateStep ==
    ASSUME Inv, contested' \subseteq Ids, NEW c \in Creators, StartCreate(c) \/ CreateNext(c)
    PROVE  Inv'
  <1>1. CASE StartCreate(c)
    <2>1. PICK kind \in Kinds, files \in Batches :
              create' = [create EXCEPT ![c] =
                  [pc |-> kind, files |-> files, batch |-> {}, after |-> Len(made),
                   existing |-> IF kind = "import_github" THEN {} ELSE FilenamesOf(items)]]
      BY <1>1 DEF StartCreate
    <2> DEFINE job == [pc |-> kind, files |-> files, batch |-> {}, after |-> Len(made),
                       existing |-> IF kind = "import_github" THEN {} ELSE FilenamesOf(items)]
    <2>2. job \in CreateJobs /\ IsFiniteSet(job.existing) /\ IsFiniteSet(job.batch)
      BY FilenamesListed, FS_EmptySet, Counted DEF CreateJobs, Inv, TypeOK
    <2> QED
      BY <1>1, <2>1, <2>2, SkipStep DEF StartCreate
  <1>2. CASE CreateNext(c)
    <2> USE DEF Inv
    <2>1. create[c].pc # "idle" /\ UnchangedByCreate
      BY <1>2 DEF CreateNext
    <2>2. CASE CreateOver(c) /\ UNCHANGED sliceVars
      BY <2>1, <2>2, NoCreateJob, SkipStep DEF CreateOver
    <2>3. CASE create[c].files # << >> /\ UNCHANGED sliceVars
               /\ \E batch \in SUBSET Filenames : IsFiniteSet(batch) /\ NextFile(c, batch)
      BY <2>1, <2>3, NextJobs, SkipStep
    <2>4. CASE create[c].files # << >>
               /\ \E filename \in Filenames, batch \in SUBSET Filenames :
                      IsFiniteSet(batch) /\ CreateSkill(c, filename, batch)
      BY <2>1, <2>4, CreateSkillStep
    <2>5. CASE create[c].files # << >>
      <3> DEFINE f == Head(create[c].files)
      <3>1. /\ f \in Files /\ f.filename \in Filenames
            /\ create[c].batch \in SUBSET Filenames /\ IsFiniteSet(create[c].batch)
            /\ IsFiniteSet(create[c].existing)
        <4>1. create[c] \in CreateJobs /\ IsFiniteSet(create[c].batch) /\ IsFiniteSet(create[c].existing)
          BY DEF TypeOK, FiniteInv
        <4>2. create[c].files \in Seq(Files)
          BY <4>1 DEF CreateJobs
        <4>3. f \in Files
          BY <2>5, <4>2
        <4> QED
          BY <4>1, <4>3 DEF CreateJobs, Files
      <3>2. /\ {} \in SUBSET Filenames /\ IsFiniteSet({})
            /\ \A filename \in Filenames :
                   /\ create[c].batch \cup {filename} \in SUBSET Filenames
                   /\ IsFiniteSet(create[c].batch \cup {filename})
        BY <3>1, FS_EmptySet, FS_AddElement
      <3>3. CASE UploadFile(c)
        BY <3>1, <3>2, <3>3, <2>2, <2>3, <2>4, <2>5 DEF UploadFile
      <3>4. CASE ImportFile(c)
        BY <3>1, <3>2, <3>4, <2>3, <2>4, <2>5 DEF ImportFile
      <3>5. CASE SaveDraft(c)
        <4> DEFINE name == makeUniqueDistilledSkillFilename(f.filename, create[c].existing,
                                                            create[c].batch)
        <4>1. name \in Filenames
          BY <3>1, UniqueIsFree
        <4> HIDE DEF name
        <4> QED
          BY <3>1, <3>2, <3>5, <4>1, <2>3, <2>4, <2>5 DEF SaveDraft, name
      <3> QED
        BY <1>2, <2>5, <3>3, <3>4, <3>5 DEF CreateNext
    <2> QED
      BY <1>2, <2>2, <2>5 DEF CreateNext
  <1> QED
    BY <1>1, <1>2

-----------------------------------------------------------------------------
(***************************************************************************)
(* Delete requests                                                         *)
(***************************************************************************)

LEMMA DeleteListStep ==
    ASSUME Inv, contested' \subseteq Ids, NEW d \in Deleters, DeleteList(d)
    PROVE  Inv'
  <1> USE DEF Inv, UnchangedByDelete
  <1>1. PICK ids \in SUBSET Listed(items) : delete' = [delete EXCEPT ![d] = [ids |-> ids, list |-> items]]
    BY DEF DeleteList
  <1>2. UNCHANGED <<items, file, made, create, pub, final, uploader, uploaded>>
    BY DEF DeleteList
  <1>3. TypeOK'
    BY <1>1 DEF DeleteList, TypeOK
  <1>4. CopiesSound'
    BY <1>1, <1>2 DEF CopiesSound, SoundNow, TypeOK
  <1> QED
    BY <1>2, <1>3, <1>4 DEF JobInv, FiniteInv

\* Taking skills out of a slice keeps it sound.
LEMMA RemainingSound ==
    ASSUME Inv, NEW d \in Deleters
    PROVE  Remaining(delete[d]) \in Slices(Skill) /\ SoundNow(Remaining(delete[d]))
  BY DEF Inv, TypeOK, CopiesSound, SoundNow, Sound, Remaining

LEMMA DeleteUpdateStep ==
    ASSUME Inv, contested' \subseteq Ids, NEW d \in Deleters, DeleteUpdate(d)
    PROVE  Inv'
  <1> USE DEF Inv, UnchangedByDelete
  <1> DEFINE s == Remaining(delete[d])
  <1>1. s \in Slices(Skill) /\ SoundNow(s)
    BY RemainingSound
  <1>2. items' = s /\ file' \in {s, file}
    BY UpdateSlices DEF DeleteUpdate
  <1>3. UNCHANGED <<made, create, pub, final, uploader, uploaded>>
        /\ delete' = [delete EXCEPT ![d] = NoDelete]
    BY DEF DeleteUpdate
  <1>4. delete[d].ids \in SUBSET Ids
    BY DEF TypeOK
  <1> HIDE DEF s
  <1>5. TypeOK'
    BY <1>1, <1>2, <1>4 DEF DeleteUpdate, TypeOK
  <1>6. CopiesSound'
    BY <1>1, <1>2, <1>3, Counted, CopiesWritten DEF SoundNow, TypeOK
  <1> QED
    BY <1>3, <1>5, <1>6 DEF JobInv, FiniteInv

-----------------------------------------------------------------------------
(***************************************************************************)
(* Publishes                                                               *)
(***************************************************************************)

\* A new snapshot: no reference is to its publish yet.
LEMMA PrepareStep ==
    ASSUME Inv, contested' \subseteq Ids, NEW p \in Publishes, NEW kind \in {"skill", "skills_bundle"},
           NEW skills \in SUBSET Ids, Prepare(p, kind, skills)
    PROVE  Inv'
  <1> USE DEF Inv, Prepare, UnchangedByPublish
  <1>1. TypeOK'
    BY DEF TypeOK
  <1>2. Grows(pub, pub')
    BY DEF Grows, TypeOK
  <1>3. CopiesSound'
    BY <1>2, CopiesKept
  <1>4. JobInv'
    BY <1>2 DEF JobInv, FinalGood, UploadGood, Grows
  <1> QED
    BY <1>1, <1>3, <1>4 DEF FiniteInv

\* A transaction goes on.
LEMMA PublishTxStep ==
    ASSUME Inv, contested' \subseteq Ids, NEW p \in Publishes, NEW status \in Sent, SetPublishTx(p, status)
    PROVE  Inv'
  <1> USE DEF Inv, SetPublishTx, UnchangedByPublish
  <1>1. TypeOK'
    <2> DEFINE Publish == [kind : {"none", "skill", "skills_bundle"}, skills : SUBSET Ids,
                           tx : TxStatus]
    <2>1. pub \in [Publishes -> Publish] /\ status \in TxStatus
      BY DEF TypeOK
    <2>2. [pub[p] EXCEPT !.tx = status] \in Publish
      BY <2>1
    <2>3. pub' = [pub EXCEPT ![p] = [pub[p] EXCEPT !.tx = status]]
      BY <2>1
    <2>4. pub' \in [Publishes -> Publish]
      <3> HIDE DEF Publish
      <3> QED
        BY <2>1, <2>2, <2>3
    <2> QED
      BY <2>4 DEF TypeOK
  <1>2. Grows(pub, pub')
    BY DEF Grows, TypeOK
  <1>3. CopiesSound'
    BY <1>2, CopiesKept
  <1>4. JobInv'
    BY <1>2 DEF JobInv, FinalGood, UploadGood, Grows
  <1> QED
    BY <1>1, <1>3, <1>4 DEF FiniteInv

\* The steps that move one publish_finalize or its goroutine on, or both, and read the
\* slice at most; what is on the storage nodes may grow.
LEMMA ReadStep ==
    ASSUME Inv, contested' \subseteq Ids, NEW f \in Calls,
           UNCHANGED <<items, file, made, create, delete, pub, deleted, crashes>>,
           pending' \subseteq Publishes, uploaded \subseteq uploaded', uploaded' \subseteq Publishes,
           NEW job \in Job(FinalPC), final' = [final EXCEPT ![f] = job],
           job.list \in {final[f].list, items, NoItems}, FinalGood(job, pub, uploaded'),
           NEW up \in Job(UploadPC), uploader' = [uploader EXCEPT ![f] = up],
           up.list \in {uploader[f].list, final[f].list, items, NoItems}, UploadGood(up, pub)
    PROVE  Inv'
  <1> USE DEF Inv
  <1>1. final \in [Calls -> Job(FinalPC)] /\ uploader \in [Calls -> Job(UploadPC)]
    BY DEF TypeOK
  <1>2. TypeOK'
    <2> HIDE DEF Job
    <2> QED
      BY DEF TypeOK
  <1>3. CopiesSound'
    <2>1. \A g \in Calls :
              /\ final'[g].list \in {final[g].list, items, NoItems}
              /\ uploader'[g].list \in {uploader[g].list, final[g].list, items, NoItems}
      BY <1>1
    <2> QED
      BY <2>1, CopiesKept DEF Grows
  <1>4. JobInv'
    <2>1. \A g \in Calls : FinalGood(final[g], pub, uploaded')
      BY DEF JobInv, FinalGood
    <2> HIDE DEF Job
    <2> QED
      BY <1>1, <2>1 DEF JobInv
  <1> QED
    BY <1>2, <1>3, <1>4 DEF FiniteInv

\* What is known of both jobs of a call.
LEMMA JobsOf ==
    ASSUME Inv, NEW f \in Calls
    PROVE  /\ final \in [Calls -> Job(FinalPC)] /\ uploader \in [Calls -> Job(UploadPC)]
           /\ final[f] \in Job(FinalPC) /\ uploader[f] \in Job(UploadPC)
           /\ FinalGood(final[f], pub, uploaded) /\ UploadGood(uploader[f], pub)
           /\ items \in Slices(Skill) /\ pending \subseteq Publishes /\ uploaded \subseteq Publishes
  BY DEF Inv, TypeOK, JobInv

\* The calls of a publish_finalize that write no slice.
LEMMA FinalizeReads ==
    ASSUME Inv, contested' \subseteq Ids, NEW f \in Calls,
           \/ FinalizeGetSnapshot(f) \/ FinalizeRejectTx(f) \/ FinalizeUploadSkill(f)
           \/ FinalizeAcceptBundleTx(f) \/ FinalizeListSkills(f) \/ FinalizeDeleteSnapshot(f)
    PROVE  Inv'
  <1> USE DEF UnchangedByPublish, FinalizeOver, FinalGood, UploadGood
  <1>1. /\ final \in [Calls -> Job(FinalPC)] /\ uploader \in [Calls -> Job(UploadPC)]
        /\ final[f] \in Job(FinalPC) /\ uploader[f] \in Job(UploadPC)
        /\ FinalGood(final[f], pub, uploaded) /\ UploadGood(uploader[f], pub)
        /\ items \in Slices(Skill) /\ pending \subseteq Publishes /\ uploaded \subseteq Publishes
    BY JobsOf
  <1>2. uploader = [uploader EXCEPT ![f] = uploader[f]]
    BY <1>1
  <1>3. NoJob("idle") \in Job(FinalPC)
    OBVIOUS
  <1>4. CASE FinalizeGetSnapshot(f)
    <2>1. PICK p \in pending :
              /\ pub[p].tx \in Sent
              /\ final' = [final EXCEPT ![f] = [final[f] EXCEPT !.pc = "checking", !.source = p]]
      BY <1>4 DEF FinalizeGetSnapshot
    <2> DEFINE job == [final[f] EXCEPT !.pc = "checking", !.source = p]
    <2>2. job \in Job(FinalPC) /\ job.list = final[f].list /\ FinalGood(job, pub, uploaded)
      BY <1>1, <2>1
    <2>3. UNCHANGED <<items, file, made, create, delete, pub, deleted, crashes, uploader, uploaded,
                      pending>>
      BY <1>4 DEF FinalizeGetSnapshot
    <2>4. final' = [final EXCEPT ![f] = job]
      BY <2>1
    <2> HIDE DEF job, Job, FinalGood, UploadGood
    <2> QED
      BY <1>1, <1>2, <2>2, <2>3, <2>4, ReadStep
  <1>5. CASE FinalizeRejectTx(f) \/ FinalizeDeleteSnapshot(f)
    <2>1. /\ final' = [final EXCEPT ![f] = NoJob("idle")] /\ FinalGood(NoJob("idle"), pub, uploaded')
          /\ UNCHANGED <<items, file, made, create, delete, pub, deleted, crashes, uploader, uploaded>>
          /\ pending' \subseteq pending
      BY <1>5 DEF FinalizeRejectTx, FinalizeDeleteSnapshot
    <2> QED
      BY <1>1, <1>2, <1>3, <2>1, ReadStep
  <1>6. CASE FinalizeUploadSkill(f)
    <2> DEFINE job == [final[f] EXCEPT !.pc = "listing"]
    <2>1. final[f].source \in uploaded' /\ uploaded \subseteq uploaded' /\ uploaded' \subseteq Publishes
      BY <1>1, <1>6 DEF FinalizeUploadSkill, OnStorage
    <2>2. job \in Job(FinalPC) /\ job.list = final[f].list /\ FinalGood(job, pub, uploaded')
      BY <1>1, <1>6, <2>1 DEF FinalizeUploadSkill
    <2>3. final' = [final EXCEPT ![f] = job]
      BY <1>1, <1>6 DEF FinalizeUploadSkill
    <2>4. UNCHANGED <<items, file, made, create, delete, pub, deleted, crashes, uploader, pending>>
      BY <1>6 DEF FinalizeUploadSkill
    <2> HIDE DEF job, Job, FinalGood, UploadGood
    <2> QED
      BY <1>1, <1>2, <2>1, <2>2, <2>3, <2>4, ReadStep
  <1>7. CASE FinalizeAcceptBundleTx(f)
    <2> DEFINE job == [final[f] EXCEPT !.pc = "listing"]
               up == [final[f] EXCEPT !.pc = "waiting"]
    <2>1. /\ job \in Job(FinalPC) /\ job.list = final[f].list /\ FinalGood(job, pub, uploaded)
          /\ up \in Job(UploadPC) /\ up.list = final[f].list /\ UploadGood(up, pub)
      BY <1>1, <1>7 DEF FinalizeAcceptBundleTx
    <2>2. final' = [final EXCEPT ![f] = job] /\ uploader' = [uploader EXCEPT ![f] = up]
      BY <1>1, <1>7 DEF FinalizeAcceptBundleTx
    <2>3. UNCHANGED <<items, file, made, create, delete, pub, deleted, crashes, uploaded>>
          /\ pending' \subseteq pending
      BY <1>7 DEF FinalizeAcceptBundleTx
    <2> HIDE DEF job, up, Job, FinalGood, UploadGood
    <2> QED
      BY <1>1, <2>1, <2>2, <2>3, ReadStep
  <1>8. CASE FinalizeListSkills(f)
    <2> DEFINE job == [final[f] EXCEPT !.pc = "listed", !.list = items]
    <2>1. /\ job \in Job(FinalPC) /\ job.list = items /\ FinalGood(job, pub, uploaded)
          /\ FinalGood(NoJob("idle"), pub, uploaded)
      BY <1>1, <1>8 DEF FinalizeListSkills
    <2>2. final' = [final EXCEPT ![f] = job] \/ final' = [final EXCEPT ![f] = NoJob("idle")]
      BY <1>8 DEF FinalizeListSkills
    <2>3. UNCHANGED <<items, file, made, create, delete, pub, deleted, crashes, uploader, uploaded, pending>>
      BY <1>8 DEF FinalizeListSkills
    <2>4. NoJob("idle").list = NoItems
      OBVIOUS
    <2> HIDE DEF job, Job, FinalGood, UploadGood, NoJob
    <2> QED
      BY <1>1, <1>2, <1>3, <2>1, <2>2, <2>3, <2>4, ReadStep
  <1> QED
    BY <1>4, <1>5, <1>6, <1>7, <1>8

\* The calls of a goroutine that write no slice.
LEMMA UploadReads ==
    ASSUME Inv, contested' \subseteq Ids, NEW f \in Calls, UploadSegments(f) \/ UploadListSkills(f)
    PROVE  Inv'
  <1> USE DEF UnchangedByPublish, UploadOver, UploadGood
  <1>1. /\ final \in [Calls -> Job(FinalPC)] /\ uploader \in [Calls -> Job(UploadPC)]
        /\ final[f] \in Job(FinalPC) /\ uploader[f] \in Job(UploadPC)
        /\ FinalGood(final[f], pub, uploaded) /\ UploadGood(uploader[f], pub)
        /\ items \in Slices(Skill) /\ pending \subseteq Publishes /\ uploaded \subseteq Publishes
    BY JobsOf
  <1>2. final = [final EXCEPT ![f] = final[f]]
    BY <1>1
  <1> DEFINE waited == [uploader[f] EXCEPT !.pc = "uploaded"]
             listed == [uploader[f] EXCEPT !.pc = "listed", !.list = items]
             over == NoJob("none")
  <1>3. /\ waited \in Job(UploadPC) /\ waited.list = uploader[f].list
        /\ listed \in Job(UploadPC) /\ listed.list = items
        /\ over \in Job(UploadPC) /\ over.list = NoItems
        /\ UploadGood(over, pub)
        /\ uploader[f].pc # "none" =>
              /\ UploadGood(waited, pub) /\ UploadGood(listed, pub)
              /\ uploader[f].source \in Publishes
    BY <1>1
  <1>4. CASE UploadSegments(f)
    <2>1. \/ uploader' = [uploader EXCEPT ![f] = waited] /\ uploaded' = uploaded \cup {uploader[f].source}
          \/ uploader' = [uploader EXCEPT ![f] = over] /\ uploaded' = uploaded
      BY <1>1, <1>4 DEF UploadSegments
    <2>2. /\ UNCHANGED <<items, file, made, create, delete, pub, deleted, crashes, final, pending>>
          /\ uploader[f].pc # "none"
      BY <1>4 DEF UploadSegments
    <2>3. FinalGood(final[f], pub, uploaded')
      BY <1>1, <2>1 DEF FinalGood
    <2> HIDE DEF waited, over, Job, UploadGood
    <2> QED
      BY <1>1, <1>2, <1>3, <2>1, <2>2, <2>3, ReadStep
  <1>5. CASE UploadListSkills(f)
    <2>1. uploader' = [uploader EXCEPT ![f] = listed] /\ uploader[f].pc # "none"
      BY <1>5 DEF UploadListSkills
    <2>2. UNCHANGED <<items, file, made, create, delete, pub, deleted, crashes, final, pending, uploaded>>
      BY <1>5 DEF UploadListSkills
    <2> HIDE DEF listed, Job, UploadGood
    <2> QED
      BY <1>1, <1>2, <1>3, <2>1, <2>2, ReadStep
  <1> QED
    BY <1>4, <1>5

\* The steps that write the slice back with the reference on some skills.
LEMMA MarkStep ==
    ASSUME Inv, contested' \subseteq Ids, NEW f \in Calls, NEW ok \in BOOLEAN, NEW s \in Slices(Skill), SoundNow(s), Update(s, ok),
           UNCHANGED <<made, create, delete, pub, pending, uploaded, deleted, crashes>>,
           NEW job \in Job(FinalPC), final' = [final EXCEPT ![f] = job],
           job.list \in {final[f].list, NoItems}, FinalGood(job, pub, uploaded),
           NEW up \in Job(UploadPC), uploader' = [uploader EXCEPT ![f] = up],
           up.list \in {uploader[f].list, NoItems}, UploadGood(up, pub)
    PROVE  Inv'
  <1> USE DEF Inv
  <1>1. /\ final \in [Calls -> Job(FinalPC)] /\ uploader \in [Calls -> Job(UploadPC)]
        /\ file \in Slices(Skill)
    BY DEF TypeOK
  <1>2. items' = s /\ file' \in {s, file}
    BY UpdateSlices
  <1>3. TypeOK'
    <2> HIDE DEF Job, Slices
    <2> QED
      BY <1>1, <1>2 DEF TypeOK
  <1>4. CopiesSound'
    <2>1. \A g \in Calls : /\ final'[g].list \in {final[g].list, NoItems}
                           /\ uploader'[g].list \in {uploader[g].list, NoItems}
      BY <1>1
    <2>2. Sound(s, pub, uploaded, Len(made')) /\ Len(made') \in Nat /\ Len(made) <= Len(made')
      BY Counted DEF SoundNow
    <2> QED
      BY <1>2, <2>1, <2>2, CopiesWritten
  <1>5. JobInv'
    <2> HIDE DEF Job
    <2> QED
      BY <1>1 DEF JobInv
  <1> QED
    BY <1>3, <1>4, <1>5 DEF FiniteInv

LEMMA MarkSteps ==
    ASSUME Inv, contested' \subseteq Ids, NEW f \in Calls, FinalizeUpdateSkills(f) \/ UploadUpdateSkills(f)
    PROVE  Inv'
  <1> USE DEF UnchangedByPublish, FinalizeOver, UploadOver, FinalGood, UploadGood
  <1>1. /\ final \in [Calls -> Job(FinalPC)] /\ uploader \in [Calls -> Job(UploadPC)]
        /\ final[f] \in Job(FinalPC) /\ uploader[f] \in Job(UploadPC)
        /\ FinalGood(final[f], pub, uploaded) /\ UploadGood(uploader[f], pub)
    BY JobsOf
  <1>2. SoundNow(final[f].list) /\ SoundNow(uploader[f].list)
    BY DEF Inv, CopiesSound
  <1>3. uploader = [uploader EXCEPT ![f] = uploader[f]] /\ final = [final EXCEPT ![f] = final[f]]
    BY <1>1
  <1> DEFINE marked == [final[f] EXCEPT !.pc = "marked", !.list = NoItems]
             idle == NoJob("idle")
             over == NoJob("none")
  <1>4. /\ marked \in Job(FinalPC) /\ marked.list = NoItems
        /\ idle \in Job(FinalPC) /\ idle.list = NoItems /\ FinalGood(idle, pub, uploaded)
        /\ over \in Job(UploadPC) /\ over.list = NoItems /\ UploadGood(over, pub)
    BY <1>1
  <1>5. CASE FinalizeUpdateSkills(f)
    <2>1. PICK ok \in BOOLEAN : Update(Marked(final[f]), ok)
      BY <1>5 DEF FinalizeUpdateSkills
    <2>2. FinalGood(marked, pub, uploaded)
      BY <1>1, <1>5 DEF FinalizeUpdateSkills
    <2>3. final' = [final EXCEPT ![f] = marked] \/ final' = [final EXCEPT ![f] = idle]
      BY <1>5 DEF FinalizeUpdateSkills
    <2>4. UNCHANGED <<made, create, delete, pub, pending, uploaded, deleted, crashes, uploader>>
      BY <1>5 DEF FinalizeUpdateSkills
    <2>5. Marked(final[f]) \in Slices(Skill) /\ SoundNow(Marked(final[f]))
      BY <1>1, <1>2, <1>5, MarkedSound DEF FinalizeUpdateSkills
    <2> HIDE DEF marked, idle, Job, FinalGood, UploadGood, Slices
    <2>6. CASE final' = [final EXCEPT ![f] = marked]
      BY <1>1, <1>3, <1>4, <2>1, <2>2, <2>4, <2>5, <2>6, MarkStep
    <2>7. CASE final' = [final EXCEPT ![f] = idle]
      BY <1>1, <1>3, <1>4, <2>1, <2>4, <2>5, <2>7, MarkStep
    <2> QED
      BY <2>3, <2>6, <2>7
  <1>6. CASE UploadUpdateSkills(f)
    <2>1. PICK ok \in BOOLEAN : Update(Marked(uploader[f]), ok)
      BY <1>6 DEF UploadUpdateSkills
    <2>2. uploader' = [uploader EXCEPT ![f] = over]
      BY <1>6 DEF UploadUpdateSkills
    <2>3. UNCHANGED <<made, create, delete, pub, pending, uploaded, deleted, crashes, final>>
      BY <1>6 DEF UploadUpdateSkills
    <2>4. Marked(uploader[f]) \in Slices(Skill) /\ SoundNow(Marked(uploader[f]))
      BY <1>1, <1>2, <1>6, MarkedSound DEF UploadUpdateSkills
    <2> HIDE DEF over, Job, FinalGood, UploadGood, Slices
    <2> QED
      BY <1>1, <1>3, <1>4, <2>1, <2>2, <2>3, <2>4, MarkStep
  <1> QED
    BY <1>5, <1>6

-----------------------------------------------------------------------------
(***************************************************************************)
(* Restarts, and what happens outside                                      *)
(***************************************************************************)

LEMMA CrashStep == ASSUME Inv, contested' \subseteq Ids, Crash PROVE Inv'
  <1> USE DEF Inv, Crash
  <1>0. items' \in {file, NoItems} /\ UNCHANGED <<file, made>>
    BY DEF Reload, Loaded
  <1> HIDE DEF NoItems
  <1>1. TypeOK'
    <2>1. NoItems \in Slices(Skill)
      BY DEF NoItems
    <2> QED
      BY <1>0, <2>1, NoCreateJob DEF TypeOK
  <1>2. CopiesSound'
    <2>1. SoundNow(NoItems)
      BY EmptySound DEF SoundNow
    <2> QED
      BY <1>0, <2>1 DEF CopiesSound, SoundNow
  <1>3. JobInv'
    BY DEF JobInv, FinalGood, UploadGood
  <1>4. FiniteInv'
    BY NoCreateJob DEF FiniteInv
  <1> QED
    BY <1>1, <1>2, <1>3, <1>4

LEMMA OutsideStep ==
    ASSUME Inv, contested' \subseteq Ids, SnapshotExpires \/ OtherWrite
    PROVE  Inv'
  <1> USE DEF Inv, SnapshotExpires, OtherWrite, FlushElsewhere
  <1>1. TypeOK'
    BY DEF TypeOK
  <1>2. CopiesSound'
    BY DEF CopiesSound, SoundNow
  <1> QED
    BY <1>1, <1>2 DEF JobInv, FiniteInv

LEMMA NextInv == ASSUME Inv, [Next]_vars PROVE Inv'
  <1>0. contested' \subseteq Ids
    BY DEF Inv, TypeOK, Next, Contest, vars
  <1>1. CASE \E c \in Creators : StartCreate(c) \/ CreateNext(c)
    BY <1>0, <1>1, CreateStep
  <1>2. CASE \E d \in Deleters : DeleteSkills(d)
    BY <1>0, <1>2, DeleteListStep, DeleteUpdateStep DEF DeleteSkills
  <1>3. CASE \E p \in Publishes : PrepareSkillPublish(p) \/ PrepareSkillsBundlePublish(p)
    <2>1. PICK p \in Publishes : PrepareSkillPublish(p) \/ PrepareSkillsBundlePublish(p)
      BY <1>3
    <2>2. CASE PrepareSkillPublish(p)
      <3>1. PICK x \in Ids : Prepare(p, "skill", {x})
        BY <2>2 DEF PrepareSkillPublish
      <3>2. {x} \in SUBSET Ids
        OBVIOUS
      <3> QED
        BY <1>0, <3>1, <3>2, PrepareStep
    <2>3. CASE PrepareSkillsBundlePublish(p)
      <3>1. PICK skills \in SUBSET Ids : Prepare(p, "skills_bundle", skills)
        BY <2>3 DEF PrepareSkillsBundlePublish
      <3> QED
        BY <1>0, <3>1, PrepareStep
    <2> QED
      BY <2>1, <2>2, <2>3
  <1>4. CASE \E p \in Publishes : WalletSendsPublish(p) \/ ChainMinesPublish(p)
    <2>1. PICK p \in Publishes, status \in Sent : SetPublishTx(p, status)
      BY <1>4 DEF WalletSendsPublish, ChainMinesPublish
    <2> QED
      BY <1>0, <2>1, PublishTxStep
  <1>5. CASE \E f \in Calls : FinalizePublish(f) \/ completeWalletSkillsBundleUpload(f)
    BY <1>0, <1>5, FinalizeReads, UploadReads, MarkSteps DEF FinalizePublish, completeWalletSkillsBundleUpload
  <1>6. CASE SnapshotExpires \/ OtherWrite
    BY <1>0, <1>6, OutsideStep
  <1>7. CASE Crash
    BY <1>0, <1>7, CrashStep
  <1>8. CASE UNCHANGED vars
    BY <1>8 DEF vars, Inv, TypeOK, CopiesSound, SoundNow, JobInv, FiniteInv
  <1> QED
    BY <1>1, <1>2, <1>3, <1>4, <1>5, <1>6, <1>7, <1>8 DEF Next, Step

LEMMA SpecInv == Spec => []Inv
  BY InitInv, NextInv, PTL DEF Spec

-----------------------------------------------------------------------------
(***************************************************************************)
(* Theorems                                                                *)
(***************************************************************************)

\* The skills, the requests and the publishes stay of their types, and a saved draft gets
\* a filename.
THEOREM SkillTypeCorrect == Spec => []TypeOK
  BY SpecInv, PTL DEF Inv

\* The reference of a skill is one of a publish of this skill that was sent, whatever
\* slices are written back late.
THEOREM ProofsCoverSkills == Spec => []ProofCoversSkill
  <1>1. Inv => ProofCoversSkill
    BY DEF Inv, ProofCoversSkill, CopiesSound, SoundNow, Sound
  <1> QED
    BY <1>1, SpecInv, PTL

\* A skill published by itself is on the storage nodes.
THEOREM SinglesAreUploaded == Spec => []SingleIsUploaded
  <1>1. Inv => SingleIsUploaded
    BY DEF Inv, SingleIsUploaded, CopiesSound, SoundNow, Sound
  <1> QED
    BY <1>1, SpecInv, PTL

-----------------------------------------------------------------------------
(***************************************************************************)
(* What a step does to the slices: a request creates skills, a handler     *)
(* reads the slice or writes a copy of it back, or the server restarts     *)
(***************************************************************************)

\* What a step of a request that creates skills does: it creates none, or one, and a
\* filename that an upload or a save takes is none it compares with.
CreatesAtMostOne(c) ==
    \E job \in CreateJobs :
        /\ create' = [create EXCEPT ![c] = job]
        /\ job.pc # "idle" => /\ job.pc = create[c].pc /\ job.existing = create[c].existing
                             /\ job.after = create[c].after
        /\ \/ /\ UNCHANGED sliceVars
              /\ job.pc \in {"upload", "save_skills"} => create[c].batch \subseteq job.batch
           \/ \E filename \in Filenames, ok \in BOOLEAN :
                 /\ Save(Making(c, filename), Blank, ok)
                 /\ create[c].pc # "import_github" =>
                        /\ filename \notin create[c].existing \cup create[c].batch
                        /\ job.pc # "idle" => create[c].batch \cup {filename} \subseteq job.batch

LEMMA CreateEffect ==
    ASSUME Inv, NEW c \in Creators, CreateNext(c)
    PROVE  CreatesAtMostOne(c)
  <1> USE DEF Inv
  <1>1. create[c].pc # "idle"
    BY DEF CreateNext
  <1>2. CASE CreateOver(c) /\ UNCHANGED sliceVars
    BY <1>2, NoCreateJob DEF CreateOver, NoCreate, CreatesAtMostOne
  <1>3. CASE create[c].files # << >>
    <2> DEFINE f == Head(create[c].files)
               jobOf(batch) == [create[c] EXCEPT !.files = Tail(@), !.batch = batch]
    <2>1. create[c] \in CreateJobs /\ IsFiniteSet(create[c].batch) /\ IsFiniteSet(create[c].existing)
      BY DEF TypeOK, FiniteInv
    <2>2. create[c].files \in Seq(Files) /\ create[c].batch \in SUBSET Filenames
      BY <2>1 DEF CreateJobs
    <2>3. f \in Files /\ f.filename \in Filenames
      <3>1. f \in Files
        BY <1>3, <2>2
      <3> QED
        BY <3>1 DEF Files
    <2>4. \A batch \in SUBSET Filenames : IsFiniteSet(batch) =>
              /\ jobOf(batch) \in CreateJobs
              /\ NextFile(c, batch) => create' = [create EXCEPT ![c] = jobOf(batch)]
      BY <1>3, NextJobs
    <2>5. \A batch : /\ jobOf(batch).pc = create[c].pc /\ jobOf(batch).existing = create[c].existing
                     /\ jobOf(batch).batch = batch /\ jobOf(batch).after = create[c].after
      BY <2>1 DEF CreateJobs
    <2>6. /\ {} \in SUBSET Filenames /\ IsFiniteSet({})
          /\ \A filename \in Filenames : IsFiniteSet(create[c].batch \cup {filename})
      BY <2>1, FS_EmptySet, FS_AddElement
    <2> HIDE DEF f, jobOf
    <2>7. CASE /\ UNCHANGED sliceVars
               /\ \E batch \in SUBSET Filenames :
                     /\ IsFiniteSet(batch) /\ NextFile(c, batch)
                     /\ create[c].pc # "import_github" => create[c].batch \subseteq batch
      <3>1. PICK batch \in SUBSET Filenames :
                /\ IsFiniteSet(batch) /\ NextFile(c, batch)
                /\ create[c].pc # "import_github" => create[c].batch \subseteq batch
        BY <2>7
      <3>2. PICK job \in CreateJobs : /\ create' = [create EXCEPT ![c] = job] /\ job.batch = batch
                                     /\ job.pc = create[c].pc /\ job.existing = create[c].existing
                                     /\ job.after = create[c].after
        BY <2>4, <2>5, <3>1
      <3> QED
        BY <2>7, <3>1, <3>2 DEF CreatesAtMostOne
    <2>8. CASE \E filename \in Filenames, batch \in SUBSET Filenames :
                  /\ IsFiniteSet(batch) /\ CreateSkill(c, filename, batch)
                  /\ create[c].pc # "import_github" =>
                         /\ filename \notin create[c].existing \cup create[c].batch
                         /\ create[c].batch \cup {filename} \subseteq batch
      <3>1. PICK filename \in Filenames, batch \in SUBSET Filenames :
                  /\ IsFiniteSet(batch) /\ CreateSkill(c, filename, batch)
                  /\ create[c].pc # "import_github" =>
                         /\ filename \notin create[c].existing \cup create[c].batch
                         /\ create[c].batch \cup {filename} \subseteq batch
        BY <2>8
      <3>2. PICK ok \in BOOLEAN :
                /\ Save(Making(c, filename), Blank, ok)
                /\ IF ok THEN NextFile(c, batch) ELSE CreateOver(c)
        BY <3>1 DEF CreateSkill
      <3>3. CASE NextFile(c, batch)
        <4>1. PICK job \in CreateJobs :
                  /\ create' = [create EXCEPT ![c] = job] /\ job.batch = batch
                  /\ job.pc = create[c].pc /\ job.existing = create[c].existing
                  /\ job.after = create[c].after
          BY <2>4, <2>5, <3>1, <3>3
        <4>2. /\ job.pc # "idle" => /\ job.pc = create[c].pc /\ job.existing = create[c].existing
                                   /\ job.after = create[c].after
              /\ create[c].pc # "import_github" =>
                     /\ filename \notin create[c].existing \cup create[c].batch
                     /\ job.pc # "idle" => create[c].batch \cup {filename} \subseteq job.batch
          BY <3>1, <4>1
        <4>3. Save(Making(c, filename), Blank, ok)
          BY <3>2
        <4>4. \E n \in Filenames, o \in BOOLEAN :
                  /\ Save(Making(c, n), Blank, o)
                  /\ create[c].pc # "import_github" =>
                         /\ n \notin create[c].existing \cup create[c].batch
                         /\ job.pc # "idle" => create[c].batch \cup {n} \subseteq job.batch
          BY <4>2, <4>3, Zenon
        <4> QED
          BY <4>1, <4>2, <4>4, Zenon DEF CreatesAtMostOne
      <3>4. CASE CreateOver(c)
        <4>1. PICK job \in CreateJobs : create' = [create EXCEPT ![c] = job] /\ job.pc = "idle"
          BY <3>4, NoCreateJob DEF CreateOver, NoCreate
        <4> QED
          BY <3>1, <3>2, <4>1 DEF CreatesAtMostOne
      <3> QED
        BY <3>2, <3>3, <3>4
    <2>9. CASE create[c].pc = "upload" /\ UploadFile(c)
      BY <1>2, <2>1, <2>2, <2>3, <2>6, <2>7, <2>8, <2>9 DEF UploadFile, Refused, f
    <2>10. CASE create[c].pc = "import_github" /\ ImportFile(c)
      BY <2>3, <2>6, <2>7, <2>8, <2>10 DEF ImportFile, f
    <2>11. CASE create[c].pc = "save_skills" /\ SaveDraft(c)
      <3> DEFINE name == makeUniqueDistilledSkillFilename(f.filename, create[c].existing,
                                                          create[c].batch)
      <3>1. name \in Filenames /\ name \notin create[c].existing \cup create[c].batch
        BY <2>1, <2>3, UniqueIsFree
      <3>2. \/ NextFile(c, create[c].batch) /\ UNCHANGED sliceVars
            \/ CreateSkill(c, name, create[c].batch \cup {name})
        BY <2>11 DEF SaveDraft, f
      <3> HIDE DEF name
      <3> QED
        BY <2>1, <2>2, <2>6, <2>7, <2>8, <3>1, <3>2
    <2> QED
      BY <1>3, <2>9, <2>10, <2>11 DEF CreateNext
  <1> QED
    BY <1>2, <1>3 DEF CreateNext

\* A request that creates skills keeps those there are, and the id of one it creates is new.
CreatesAbove ==
    /\ Len(made) <= Len(made') /\ \A x \in 1..Len(made) : made'[x] = made[x]
    /\ \/ UNCHANGED sliceVars
       \/ /\ Len(made') = Len(made) + 1 /\ Len(made') \in Ids
          /\ items' = [items EXCEPT ![Len(made')] = Blank] /\ file' \in {items', file}

LEMMA SaveAbove ==
    ASSUME Inv, NEW filename \in Filenames, NEW c \in Creators, create[c].pc # "idle",
           NEW ok, Save(Making(c, filename), Blank, ok)
    PROVE  /\ CreatesAbove
           /\ Len(made') = Len(made) + 1
           /\ made'[Len(made')] = Making(c, filename)
  <1> DEFINE new == Making(c, filename)
  <1>1. made \in Seq(Makings) /\ Len(made) \in Nat
    BY Counted DEF Inv, TypeOK
  <1>2. made' = Append(made, new) /\ Len(made) < MaxItems
    BY DEF Save
  <1>3. new \in Makings
    BY DEF Inv, TypeOK, CreateJobs, Making, Makings
  <1> HIDE DEF new
  <1>4. /\ Len(made') = Len(made) + 1 /\ Len(made') \in Ids
        /\ \A x \in 1..Len(made) : made'[x] = made[x]
        /\ made'[Len(made')] = new
    BY <1>1, <1>2, <1>3, AppendProperties
  <1>5. items' = [items EXCEPT ![Len(made')] = Blank] /\ file' \in {items', file}
    BY <1>4, UpdateSlices DEF Save
  <1> QED
    BY <1>1, <1>4, <1>5 DEF CreatesAbove, new

LEMMA CreateAbove ==
    ASSUME Inv, NEW c \in Creators, StartCreate(c) \/ CreateNext(c)
    PROVE  CreatesAbove /\ UNCHANGED <<delete, final, uploader, deleted>>
  <1>1. CASE StartCreate(c)
    BY <1>1, Counted DEF StartCreate, UnchangedByCreate, CreatesAbove, Inv
  <1>2. CASE CreateNext(c)
    <2>1. UNCHANGED <<delete, final, uploader, deleted>> /\ create[c].pc # "idle"
      BY <1>2 DEF CreateNext, UnchangedByCreate
    <2>2. CASE UNCHANGED sliceVars
      BY <2>1, <2>2, Counted DEF CreatesAbove, Inv
    <2> QED
      BY <1>2, <2>1, <2>2, CreateEffect, SaveAbove DEF CreatesAtMostOne
  <1> QED
    BY <1>1, <1>2

\* The copies of the slice that requests and goroutines have.
Copies ==
    {delete[d].list : d \in Deleters} \cup {final[f].list : f \in Calls}
    \cup {uploader[f].list : f \in Calls}

\* Whether one of them is going to write this skill back.
HeldBy(x) ==
    \/ \E d \in Deleters : x \in Listed(delete[d].list) /\ x \notin delete[d].ids
    \/ \E f \in Calls : x \in Listed(final[f].list) \/ x \in Listed(uploader[f].list)

\* The ids a delete request found are in the slice it listed.
IdsListed == \A d \in Deleters : delete[d].ids \subseteq Listed(delete[d].list)

\* A handler reads the slice, or something else writes the file.
Reads ==
    /\ UNCHANGED <<items, made, create, deleted>> /\ file' \in {file, items}
    /\ Copies' \subseteq Copies \cup {items, NoItems}
    /\ \A x \in Ids : HeldBy(x)' => HeldBy(x) \/ x \in Listed(items)

\* A handler writes a copy back, or what it left of it.
WritesBack ==
    /\ UNCHANGED <<made, create>> /\ file' \in {file, items'}
    /\ \E t \in Copies : Listed(items') \subseteq Listed(t)
    /\ \A x \in Listed(items') : HeldBy(x)
    /\ Copies' \subseteq Copies \cup {NoItems}
    /\ \A x \in Ids : HeldBy(x)' => HeldBy(x)
    /\ \A x \in deleted' \ deleted :
           x \in 1..Len(made) /\ x \notin Listed(items') /\ x \notin Listed(file')

Restarts ==
    /\ items' \in {file, NoItems} /\ UNCHANGED <<file, made, deleted>>
    /\ Copies' \subseteq {NoItems}
    /\ \A x \in Ids : ~ HeldBy(x)'
    /\ \A c \in Creators : create'[c].pc = "idle"

\* Held says the same of the jobs.
LEMMA HeldIs == TypeOK => \A x \in Ids : x \in Held <=> HeldBy(x)
  <1> SUFFICES ASSUME TypeOK, NEW x \in Ids PROVE x \in Held <=> HeldBy(x)
    OBVIOUS
  <1>1. \A d \in Deleters : x \in Listed(Remaining(delete[d])) <=>
                               x \in Listed(delete[d].list) /\ x \notin delete[d].ids
    BY DEF Remaining
  <1>2. DOMAIN delete = Deleters /\ DOMAIN final = Calls /\ DOMAIN uploader = Calls
    BY DEF TypeOK
  <1> HIDE DEF Listed
  <1>3. x \in UNION {Listed(Remaining(job)) : job \in Range(delete)} <=>
            \E d \in Deleters : x \in Listed(delete[d].list) /\ x \notin delete[d].ids
    BY <1>1, <1>2 DEF Range
  <1>4. x \in UNION {Listed(job.list) : job \in Range(final) \cup Range(uploader)} <=>
            \E f \in Calls : x \in Listed(final[f].list) \/ x \in Listed(uploader[f].list)
    BY <1>2 DEF Range
  <1> QED
    BY <1>3, <1>4 DEF Held, HeldBy

\* The steps of a call that publishes.
LEMMA CallEffect ==
    ASSUME Inv, NEW f \in Calls, FinalizePublish(f) \/ completeWalletSkillsBundleUpload(f)
    PROVE  /\ UNCHANGED <<made, create, delete, deleted>>
           /\ \/ /\ UNCHANGED <<items, file>>
                 /\ \A g \in Calls :
                       /\ final'[g].list \in {final[g].list, items, NoItems}
                       /\ uploader'[g].list \in {uploader[g].list, final[g].list, items, NoItems}
              \/ /\ file' \in {file, items'}
                 /\ \E t \in {final[f].list, uploader[f].list} : Listed(items') \subseteq Listed(t)
                 /\ \A g \in Calls : /\ final'[g].list \in {final[g].list, NoItems}
                                     /\ uploader'[g].list \in {uploader[g].list, NoItems}
  <1> USE DEF UnchangedByPublish, FinalizeOver, UploadOver
  <1> HIDE DEF NoItems
  <1>1. final \in [Calls -> Job(FinalPC)] /\ uploader \in [Calls -> Job(UploadPC)]
    BY JobsOf
  <1>2. \A job : Listed(Marked(job)) \subseteq Listed(job.list)
    BY DEF Marked
  <1> HIDE DEF Listed
  <1>3. CASE FinalizeUpdateSkills(f)
    <2>1. items' = Marked(final[f]) /\ file' \in {file, items'}
      BY <1>3, UpdateSlices DEF FinalizeUpdateSkills
    <2>2. UNCHANGED <<made, create, delete, deleted, uploader>>
      BY <1>3 DEF FinalizeUpdateSkills
    <2>3. \E job : final' = [final EXCEPT ![f] = job] /\ job.list = NoItems
      <3>1. [final[f] EXCEPT !.pc = "marked", !.list = NoItems].list = NoItems
        BY <1>1
      <3>2. NoJob("idle").list = NoItems
        OBVIOUS
      <3> HIDE DEF NoJob
      <3> QED
        BY <1>1, <1>3, <3>1, <3>2 DEF FinalizeUpdateSkills
    <2>4. \A g \in Calls : final'[g].list \in {final[g].list, NoItems}
      BY <1>1, <2>3
    <2> QED
      BY <1>2, <2>1, <2>2, <2>4
  <1>4. CASE UploadUpdateSkills(f)
    <2>1. items' = Marked(uploader[f]) /\ file' \in {file, items'}
      BY <1>4, UpdateSlices DEF UploadUpdateSkills
    <2>2. UNCHANGED <<made, create, delete, deleted, final>>
      BY <1>4 DEF UploadUpdateSkills
    <2>3. \A g \in Calls : uploader'[g].list \in {uploader[g].list, NoItems}
      BY <1>1, <1>4 DEF UploadUpdateSkills
    <2> QED
      BY <1>2, <2>1, <2>2, <2>3
  <1>5. CASE \/ FinalizeGetSnapshot(f) \/ FinalizeRejectTx(f) \/ FinalizeUploadSkill(f)
             \/ FinalizeListSkills(f) \/ FinalizeDeleteSnapshot(f)
    <2>1. UNCHANGED <<made, create, delete, deleted, items, file, uploader>>
      BY <1>5 DEF FinalizeGetSnapshot, FinalizeRejectTx, FinalizeUploadSkill, FinalizeListSkills,
                  FinalizeDeleteSnapshot
    <2>2. \A p : [final[f] EXCEPT !.pc = "checking", !.source = p].list = final[f].list
      BY <1>1
    <2>3. /\ [final[f] EXCEPT !.pc = "listing"].list = final[f].list
          /\ [final[f] EXCEPT !.pc = "listed", !.list = items].list = items
          /\ NoJob("idle").list = NoItems
      BY <1>1
    <2>4. \E job : final' = [final EXCEPT ![f] = job] /\ job.list \in {final[f].list, items, NoItems}
      <3> HIDE DEF NoJob, Job
      <3>1. CASE FinalizeGetSnapshot(f)
        BY <1>1, <2>2, <3>1 DEF FinalizeGetSnapshot
      <3>2. CASE FinalizeRejectTx(f) \/ FinalizeDeleteSnapshot(f)
        BY <2>3, <3>2 DEF FinalizeRejectTx, FinalizeDeleteSnapshot
      <3>3. CASE FinalizeUploadSkill(f)
        <4>1. final' = [final EXCEPT ![f] = [final[f] EXCEPT !.pc = "listing"]]
          BY <1>1, <3>3 DEF FinalizeUploadSkill
        <4> QED
          BY <2>3, <4>1
      <3>4. CASE FinalizeListSkills(f)
        <4>1. \/ final' = [final EXCEPT ![f] = [final[f] EXCEPT !.pc = "listed", !.list = items]]
              \/ final' = [final EXCEPT ![f] = NoJob("idle")]
          BY <1>1, <3>4 DEF FinalizeListSkills
        <4> QED
          BY <2>3, <4>1
      <3> QED
        BY <1>5, <3>1, <3>2, <3>3, <3>4
    <2>5. \A g \in Calls : final'[g].list \in {final[g].list, items, NoItems}
      BY <1>1, <2>4
    <2> QED
      BY <2>1, <2>5
  <1>6. CASE FinalizeAcceptBundleTx(f)
    BY <1>1, <1>6 DEF FinalizeAcceptBundleTx
  <1>7. CASE UploadSegments(f) \/ UploadListSkills(f)
    <2>1. UNCHANGED <<made, create, delete, deleted, items, file, final>>
      BY <1>7 DEF UploadSegments, UploadListSkills
    <2>2. /\ [uploader[f] EXCEPT !.pc = "uploaded"].list = uploader[f].list
          /\ [uploader[f] EXCEPT !.pc = "listed", !.list = items].list = items
          /\ NoJob("none").list = NoItems
      BY <1>1
    <2>3. \/ uploader' = [uploader EXCEPT ![f] = [uploader[f] EXCEPT !.pc = "uploaded"]]
          \/ uploader' = [uploader EXCEPT ![f] = [uploader[f] EXCEPT !.pc = "listed", !.list = items]]
          \/ uploader' = [uploader EXCEPT ![f] = NoJob("none")]
      BY <1>1, <1>7 DEF UploadSegments, UploadListSkills
    <2>4. \A g \in Calls : uploader'[g].list \in {uploader[g].list, items, NoItems}
      BY <1>1, <2>2, <2>3
    <2> QED
      BY <2>1, <2>4
  <1> QED
    BY <1>3, <1>4, <1>5, <1>6, <1>7 DEF FinalizePublish, completeWalletSkillsBundleUpload

LEMMA CallKinds ==
    ASSUME Inv, NEW f \in Calls, FinalizePublish(f) \/ completeWalletSkillsBundleUpload(f)
    PROVE  Reads \/ WritesBack
  <1>1. UNCHANGED <<made, create, delete, deleted>>
    BY CallEffect
  <1>2. Listed(NoItems) = {}
    OBVIOUS
  <1> HIDE DEF NoItems, Listed
  <1>3. CASE /\ UNCHANGED <<items, file>>
             /\ \A g \in Calls :
                   /\ final'[g].list \in {final[g].list, items, NoItems}
                   /\ uploader'[g].list \in {uploader[g].list, final[g].list, items, NoItems}
    BY <1>1, <1>2, <1>3 DEF Reads, Copies, HeldBy
  <1>4. CASE /\ file' \in {file, items'}
             /\ \E t \in {final[f].list, uploader[f].list} : Listed(items') \subseteq Listed(t)
             /\ \A g \in Calls : /\ final'[g].list \in {final[g].list, NoItems}
                                 /\ uploader'[g].list \in {uploader[g].list, NoItems}
    <2>1. \A x \in Listed(items') : HeldBy(x)
      BY <1>4 DEF HeldBy
    <2>2. \A x \in Ids : HeldBy(x)' => HeldBy(x)
      BY <1>1, <1>2, <1>4 DEF HeldBy
    <2>3. Copies' \subseteq Copies \cup {NoItems} /\ \E t \in Copies : Listed(items') \subseteq Listed(t)
      BY <1>1, <1>4 DEF Copies
    <2> QED
      BY <1>1, <1>4, <2>1, <2>2, <2>3 DEF WritesBack
  <1> QED
    BY <1>3, <1>4, CallEffect

\* The steps of a delete request.
LEMMA DeleteKinds ==
    ASSUME Inv, IdsListed, NEW d \in Deleters, DeleteSkills(d)
    PROVE  (Reads \/ WritesBack) /\ IdsListed'
  <1> USE DEF UnchangedByDelete
  <1>0. delete \in [Deleters -> DeleteJobs] /\ Listed(NoItems) = {}
    BY DEF Inv, TypeOK
  <1>1. CASE DeleteList(d)
    <2>1. PICK ids \in SUBSET Listed(items) :
              delete' = [delete EXCEPT ![d] = [ids |-> ids, list |-> items]]
      BY <1>1 DEF DeleteList
    <2>2. UNCHANGED <<items, file, made, create, deleted, final, uploader>>
      BY <1>1 DEF DeleteList
    <2>3. Copies' \subseteq Copies \cup {items}
      BY <1>0, <2>1, <2>2 DEF Copies
    <2>4. \A x \in Ids : HeldBy(x)' => HeldBy(x) \/ x \in Listed(items)
      BY <1>0, <2>1, <2>2 DEF HeldBy
    <2>5. IdsListed'
      BY <1>0, <2>1 DEF IdsListed
    <2> QED
      BY <2>2, <2>3, <2>4, <2>5 DEF Reads
  <1>2. CASE DeleteUpdate(d)
    <2>1. PICK ok \in BOOLEAN :
              /\ Update(Remaining(delete[d]), ok)
              /\ deleted' = IF ok THEN deleted \cup delete[d].ids ELSE deleted
      BY <1>2 DEF DeleteUpdate, Answered
    <2>2. /\ items' = Remaining(delete[d])
          /\ file' = IF ok THEN Remaining(delete[d]) ELSE file
      BY <2>1 DEF Update
    <2>3. UNCHANGED <<made, create, final, uploader>> /\ delete' = [delete EXCEPT ![d] = NoDelete]
      BY <1>2 DEF DeleteUpdate
    <2>4. \A x \in Listed(Remaining(delete[d])) :
              x \in Ids /\ x \notin delete[d].ids /\ x \in Listed(delete[d].list)
      BY DEF Remaining
    <2>5. \A x \in Listed(items') : HeldBy(x)
      BY <2>2, <2>4 DEF HeldBy
    <2>6. Copies' \subseteq Copies \cup {NoItems} /\ \E t \in Copies : Listed(items') \subseteq Listed(t)
      BY <1>0, <2>2, <2>3, <2>4 DEF Copies
    <2>7. \A x \in Ids : HeldBy(x)' => HeldBy(x)
      BY <1>0, <2>3 DEF HeldBy
    <2>8. \A x \in delete[d].ids : x \in 1..Len(made)
      BY Counted DEF IdsListed, Inv, CopiesSound, SoundNow, Sound
    <2>9. \A x \in deleted' \ deleted :
              x \in 1..Len(made) /\ x \notin Listed(items') /\ x \notin Listed(file')
      BY <2>1, <2>2, <2>4, <2>8
    <2>10. file' \in {file, items'}
      BY <2>2
    <2>11. IdsListed'
      BY <1>0, <2>3 DEF IdsListed
    <2> HIDE DEF Listed, NoItems
    <2> QED
      BY <2>3, <2>5, <2>6, <2>7, <2>9, <2>10, <2>11 DEF WritesBack
  <1> QED
    BY <1>1, <1>2 DEF DeleteSkills

\* The steps that leave the slice and the copies of it alone.
LEMMA OtherReads ==
    ASSUME UNCHANGED <<items, made, create, delete, final, uploader, deleted>>,
           file' \in {file, items}
    PROVE  Reads
  BY DEF Reads, Copies, HeldBy

LEMMA StepKinds ==
    ASSUME Inv, IdsListed, [Next]_vars
    PROVE  /\ \/ \E c \in Creators : StartCreate(c) \/ CreateNext(c)
              \/ Reads
              \/ WritesBack
              \/ Restarts
           /\ IdsListed'
  <1>1. CASE \E c \in Creators : StartCreate(c) \/ CreateNext(c)
    <2>1. delete' = delete
      BY <1>1, CreateAbove
    <2> QED
      BY <1>1, <2>1 DEF IdsListed
  <1>2. CASE \E d \in Deleters : DeleteSkills(d)
    BY <1>2, DeleteKinds
  <1>3. CASE \E f \in Calls : FinalizePublish(f) \/ completeWalletSkillsBundleUpload(f)
    <2>1. delete' = delete
      BY <1>3, CallEffect
    <2> QED
      BY <1>3, <2>1, CallKinds DEF IdsListed
  <1>4. CASE \/ \E p \in Publishes :
                   \/ PrepareSkillPublish(p) \/ PrepareSkillsBundlePublish(p)
                   \/ WalletSendsPublish(p) \/ ChainMinesPublish(p)
             \/ SnapshotExpires \/ OtherWrite \/ UNCHANGED vars
    <2>1. /\ UNCHANGED <<items, made, create, delete, final, uploader, deleted>>
          /\ file' \in {file, items}
      <3> USE DEF UnchangedByPublish
      <3>1. CASE \E p \in Publishes :
                   \/ PrepareSkillPublish(p) \/ PrepareSkillsBundlePublish(p)
                   \/ WalletSendsPublish(p) \/ ChainMinesPublish(p)
        BY <3>1 DEF PrepareSkillPublish, PrepareSkillsBundlePublish, Prepare, WalletSendsPublish,
                    ChainMinesPublish, SetPublishTx
      <3>2. CASE SnapshotExpires \/ OtherWrite \/ UNCHANGED vars
        BY <3>2 DEF SnapshotExpires, OtherWrite, FlushElsewhere, vars
      <3> QED
        BY <1>4, <3>1, <3>2
    <2> QED
      BY <2>1, OtherReads DEF IdsListed
  <1>5. CASE Crash
    <2>1. /\ items' \in {file, NoItems} /\ UNCHANGED <<file, made, deleted>>
          /\ delete' = [d \in Deleters |-> NoDelete]
          /\ final' = [f \in Calls |-> NoJob("idle")]
          /\ uploader' = [f \in Calls |-> NoJob("none")]
          /\ \A c \in Creators : create'[c].pc = "idle"
      BY <1>5 DEF Crash, Reload, Loaded, NoCreate
    <2>2. Listed(NoItems) = {}
      OBVIOUS
    <2> HIDE DEF NoItems, Listed
    <2>3. IdsListed'
      BY <2>1 DEF IdsListed
    <2>4. Restarts
      BY <2>1, <2>2 DEF Restarts, Copies, HeldBy
    <2> QED
      BY <2>3, <2>4
  <1> QED
    BY <1>1, <1>2, <1>3, <1>4, <1>5 DEF Next, Step

\* The history grows, and has what leaves the slice while a copy still has it.
LEMMA ContestStep ==
    ASSUME TypeOK', [Next]_vars
    PROVE  /\ contested \subseteq contested'
           /\ \A x \in Ids : x \in Listed(items) /\ x \notin Listed(items') /\ HeldBy(x)' =>
                  x \in contested'
  <1>1. CASE Next
    <2>1. \A x \in Ids : x \in Held' <=> HeldBy(x)'
      <3>1. (TypeOK => \A x \in Ids : x \in Held <=> HeldBy(x))'
        BY HeldIs, PTL
      <3> QED
        BY <3>1
    <2> HIDE DEF Listed
    <2> QED
      BY <1>1, <2>1 DEF Next, Contest
  <1>2. CASE UNCHANGED vars
    BY <1>2 DEF vars
  <1> QED
    BY <1>1, <1>2

-----------------------------------------------------------------------------
(***************************************************************************)
(* A deletion lasts, for any number of requests and publishes              *)
(***************************************************************************)

\* What a copy has and the slice has not is in the history; so a deleted skill that is not
\* in the history is in no copy, either.
HistoryInv ==
    /\ \A x \in Ids : HeldBy(x) => x \in Listed(items) \/ x \in contested
    /\ \A x \in deleted : x \in 1..Len(made)
    /\ \A x \in deleted \ contested : x \notin Listed(items) /\ x \notin Listed(file)

\* The skills of the slices were made.
LEMMA WereMade ==
    ASSUME Inv
    PROVE  /\ Len(made) \in Nat
           /\ \A x \in Listed(items) \cup Listed(file) : x \in Ids /\ x \in 1..Len(made)
           /\ \A t \in Copies : \A x \in Listed(t) : x \in Ids /\ x \in 1..Len(made)
  <1>1. \A s : SoundNow(s) => \A x \in Listed(s) : x \in Ids /\ x \in 1..Len(made)
    BY Counted DEF Inv, SoundNow, Sound
  <1>2. \A t \in Copies : SoundNow(t)
    BY DEF Inv, CopiesSound, Copies
  <1> QED
    BY <1>1, <1>2, Counted DEF Inv, CopiesSound

\* What a step that creates skills leaves of the slices.
LEMMA CreatesAboveLists ==
    ASSUME Inv, CreatesAbove
    PROVE  /\ Len(made') \in Nat
           /\ \A x \in Listed(items) : x \in Listed(items')
           /\ \A x \in Listed(items') :
                  x \in Listed(items) \/ (x = Len(made') /\ Len(made') = Len(made) + 1)
           /\ file' = file \/ file' = items'
  <1>1. /\ Len(made) \in Nat /\ items \in Slices(Skill)
        /\ \A x \in Listed(items) : x \in 1..Len(made)
    BY WereMade DEF Inv, TypeOK
  <1>2. CASE UNCHANGED sliceVars
    <2>1. items' = items /\ file' = file /\ made' = made
      BY <1>2
    <2>2. Len(made') \in Nat /\ Listed(items') = Listed(items)
      BY <1>1, <2>1
    <2> HIDE DEF Listed
    <2> QED
      BY <2>1, <2>2
  <1>3. CASE /\ Len(made') = Len(made) + 1 /\ Len(made') \in Ids
             /\ items' = [items EXCEPT ![Len(made')] = Blank] /\ file' \in {items', file}
    BY <1>1, <1>3
  <1> QED
    BY <1>2, <1>3 DEF CreatesAbove

LEMMA HistoryStep ==
    ASSUME Inv, Inv', IdsListed, HistoryInv, [Next]_vars
    PROVE  HistoryInv'
  <1>0. /\ contested \subseteq contested'
        /\ \A x \in Ids : x \in Listed(items) /\ x \notin Listed(items') /\ HeldBy(x)' =>
               x \in contested'
    BY ContestStep DEF Inv
  <1>1. CASE \E c \in Creators : StartCreate(c) \/ CreateNext(c)
    <2>1. CreatesAbove /\ UNCHANGED <<delete, final, uploader, deleted>>
      BY <1>1, CreateAbove
    <2>2. \A x \in Ids : HeldBy(x)' <=> HeldBy(x)
      BY <2>1 DEF HeldBy
    <2>3. Len(made) \in Nat /\ Len(made) <= Len(made')
      BY <2>1, WereMade DEF CreatesAbove
    <2>4. /\ Len(made') \in Nat
          /\ \A x \in Listed(items) : x \in Listed(items')
          /\ \A x \in Listed(items') :
                 x \in Listed(items) \/ (x = Len(made') /\ Len(made') = Len(made) + 1)
          /\ file' = file \/ file' = items'
      BY <2>1, CreatesAboveLists
    <2> HIDE DEF Listed
    <2> QED
      BY <1>0, <2>1, <2>2, <2>3, <2>4 DEF HistoryInv
  <1>2. CASE Reads
    BY <1>0, <1>2 DEF Reads, HistoryInv
  <1>3. CASE WritesBack
    <2> HIDE DEF Listed
    <2>1. \A x \in Ids : HeldBy(x)' => x \in Listed(items') \/ x \in contested'
      BY <1>0, <1>3 DEF WritesBack, HistoryInv
    <2>2. \A x \in deleted' : x \in 1..Len(made')
      BY <1>3 DEF WritesBack, HistoryInv
    <2>3. \A x \in Listed(items') : x \in Ids /\ HeldBy(x)
      BY <1>3 DEF WritesBack, Listed
    <2>4. \A x \in deleted \ contested : x \notin Listed(items') /\ x \notin Listed(file')
      BY <1>3, <2>3 DEF WritesBack, HistoryInv
    <2>5. \A x \in deleted' \ contested' : x \notin Listed(items') /\ x \notin Listed(file')
      BY <1>0, <1>3, <2>4 DEF WritesBack
    <2> QED
      BY <2>1, <2>2, <2>5 DEF HistoryInv
  <1>4. CASE Restarts
    <2>1. Listed(NoItems) = {}
      OBVIOUS
    <2> HIDE DEF NoItems, Listed
    <2> QED
      BY <1>0, <1>4, <2>1 DEF Restarts, HistoryInv
  <1> QED
    BY <1>1, <1>2, <1>3, <1>4, StepKinds

LEMMA InitHistory == Init => IdsListed /\ HistoryInv
  BY DEF Init, IdsListed, HistoryInv, HeldBy

LEMMA SpecHistory == Spec => []HistoryInv
  <1>1. Inv /\ Inv' /\ IdsListed /\ HistoryInv /\ [Next]_vars => IdsListed' /\ HistoryInv'
    BY StepKinds, HistoryStep
  <1> QED
    BY <1>1, InitHistory, SpecInv, PTL DEF Spec

\* A skill whose deletion was answered, and which no request or goroutine had listed that
\* had not written its slice back, is gone for good, whatever requests and publishes come
\* later, whichever writes fail, and however often the server restarts.
THEOREM DeletionLasts == Spec => []DeletedStaysDeleted
  <1>1. HistoryInv => DeletedStaysDeleted
    BY DEF HistoryInv, DeletedStaysDeleted
  <1> QED
    BY <1>1, SpecHistory, PTL

-----------------------------------------------------------------------------
(***************************************************************************)
(* A filename comes twice only for one of three reasons, for any number of *)
(* requests and publishes                                                  *)
(***************************************************************************)

\* The skill y is no import, and has the filename of the earlier skill x.
Clash(x, y) ==
    x < y /\ made[x].filename = made[y].filename /\ made[y].by # "import_github"

\* Neither would be there if the request of y had seen x.
UniqueIn(s) ==
    \A x, y \in Listed(s) : Clash(x, y) /\ x <= made[y].after => x \in contested

\* One request gives no filename twice.
UniqueInRequest ==
    \A x, y \in 1..Len(made) :
        Clash(x, y) /\ x > made[y].after => made[x].request # made[y].request

\* What an upload or a save compares with are the filenames of the skills it listed, and
\* those it took itself.  A skill of before that it did not list is in the history.
Compared(c) ==
    create[c].pc \in {"upload", "save_skills"} =>
        /\ create[c].after <= Len(made)
        /\ \A x \in Listed(items) :
               /\ x <= create[c].after
               /\ made[x].filename \notin create[c].existing \cup create[c].batch
               => x \in contested
        /\ \A x \in 1..Len(made) :
               made[x].request = c /\ x > create[c].after => made[x].filename \in create[c].batch

NamesInv ==
    /\ UniqueIn(items) /\ UniqueIn(file) /\ \A t \in Copies : UniqueIn(t)
    /\ UniqueInRequest
    /\ \A c \in Creators : Compared(c)

\* A slice stays so while the skills in it stay what they are made of.
LEMMA UniqueKept ==
    ASSUME Inv, NEW s, NEW t, UniqueIn(s), Listed(t) \subseteq Listed(s),
           \A x \in Listed(s) : made'[x] = made[x], contested \subseteq contested'
    PROVE  UniqueIn(t)'
  BY DEF UniqueIn, Clash

\* The steps of a request that create no skill.
LEMMA NamesSkip ==
    ASSUME Inv, NamesInv, NEW c \in Creators, NEW job,
           UNCHANGED <<items, file, made, delete, final, uploader>>, contested \subseteq contested',
           create' = [create EXCEPT ![c] = job], Compared(c)'
    PROVE  NamesInv'
  <1>1. Copies' = Copies
    BY DEF Copies
  <1>2. \A s : UniqueIn(s) => UniqueIn(s)'
    BY DEF UniqueIn, Clash
  <1>3. \A e \in Creators \ {c} : create'[e] = create[e]
    BY DEF Inv, TypeOK
  <1>4. \A e \in Creators \ {c} : Compared(e)'
    <2> SUFFICES ASSUME NEW e \in Creators, e # c PROVE Compared(e)'
      OBVIOUS
    <2>1. Compared(e) /\ create'[e] = create[e]
      BY <1>3 DEF NamesInv
    <2> QED
      BY <2>1 DEF Compared
  <1>5. UniqueInRequest'
    BY DEF NamesInv, UniqueInRequest, Clash
  <1> QED
    BY <1>1, <1>2, <1>4, <1>5 DEF NamesInv

\* A step of a request that creates a skill.
LEMMA NamesCreate ==
    ASSUME Inv, NamesInv, NEW c \in Creators, create[c].pc # "idle",
           NEW filename \in Filenames, NEW ok \in BOOLEAN, Save(Making(c, filename), Blank, ok),
           create[c].pc # "import_github" => filename \notin create[c].existing \cup create[c].batch,
           NEW job, create' = [create EXCEPT ![c] = job],
           job.pc # "idle" => /\ job.pc = create[c].pc /\ job.existing = create[c].existing
                              /\ job.after = create[c].after,
           job.pc # "idle" /\ create[c].pc # "import_github" =>
               create[c].batch \cup {filename} \subseteq job.batch,
           UNCHANGED <<delete, final, uploader>>, contested \subseteq contested'
    PROVE  NamesInv'
  <1> DEFINE new == Len(made) + 1
  <1>1. /\ Len(made) \in Nat /\ Len(made') = new
        /\ \A x \in 1..Len(made) : made'[x] = made[x]
        /\ made'[new].filename = filename /\ made'[new].by = create[c].pc
        /\ made'[new].request = c /\ made'[new].after = create[c].after
    <2>1. CreatesAbove /\ Len(made') = Len(made) + 1 /\ made'[Len(made')] = Making(c, filename)
      BY SaveAbove
    <2> QED
      BY <2>1, WereMade DEF CreatesAbove, Making
  <1>2. /\ \A x \in Listed(items) : x \in 1..Len(made)
        /\ \A x \in Listed(file) : x \in 1..Len(made)
        /\ \A t \in Copies : \A x \in Listed(t) : x \in 1..Len(made)
        /\ \A x \in Listed(items') : x \in Listed(items) \/ x = new
        /\ file' = file \/ file' = items'
    <2>1. CreatesAbove
      BY SaveAbove
    <2> HIDE DEF Listed
    <2> QED
      BY <1>1, <2>1, WereMade, CreatesAboveLists
  <1>3. create[c].pc \in {"upload", "save_skills", "import_github"} /\ Compared(c)
    BY DEF NamesInv, Inv, TypeOK, CreateJobs
  <1>4. Copies' = Copies
    BY DEF Copies
  <1>5. \A x \in 1..Len(made) : x < new /\ x # new
    BY <1>1
  <1>6. \A e \in Creators \ {c} : create'[e] = create[e] /\ Compared(e)
    BY DEF Inv, TypeOK, NamesInv
  <1>7. create'[c] = job
    BY DEF Inv, TypeOK
  <1>8. \A e \in Creators : create[e].after \in Nat
    BY DEF Inv, TypeOK, CreateJobs
  <1>9. \A x \in 1..Len(made') : x \in 1..Len(made) \/ x = new
    BY <1>1
  <1> HIDE DEF Listed
  <1>10. UniqueIn(items)'
    <2> SUFFICES ASSUME NEW x \in Listed(items'), NEW y \in Listed(items'), Clash(x, y)',
                        x <= made'[y].after
                 PROVE  x \in contested'
      BY DEF UniqueIn
    <2>1. CASE y = new
      <3>1. x < new /\ made'[x].filename = filename /\ create[c].pc # "import_github"
        BY <1>1, <2>1 DEF Clash
      <3>2. x # new
        <4> HIDE DEF new
        <4> QED
          BY <3>1, <1>1
      <3>3. x \in Listed(items) /\ made[x].filename = filename
        BY <1>1, <1>2, <3>1, <3>2
      <3> QED
        BY <1>1, <1>3, <2>1, <3>1, <3>3 DEF Compared
    <2>2. CASE y \in Listed(items)
      <3>1. x \in Listed(items)
        BY <1>1, <1>2, <2>2 DEF Clash
      <3> QED
        BY <1>1, <1>2, <2>2, <3>1 DEF Clash, NamesInv, UniqueIn
    <2> QED
      BY <1>2, <2>1, <2>2
  <1>11. UniqueIn(file)'
    <2>1. CASE file' = file
      BY <1>1, <1>2, <2>1, UniqueKept DEF NamesInv
    <2>2. CASE file' = items'
      BY <1>10, <2>2 DEF UniqueIn
    <2> QED
      BY <1>2, <2>1, <2>2
  <1>12. \A t \in Copies : UniqueIn(t)'
    <2> SUFFICES ASSUME NEW t \in Copies PROVE UniqueIn(t)'
      OBVIOUS
    <2> QED
      BY <1>1, <1>2, UniqueKept DEF NamesInv
  <1>13. UniqueInRequest'
    <2> SUFFICES ASSUME NEW x \in 1..Len(made'), NEW y \in 1..Len(made'), Clash(x, y)',
                        x > made'[y].after
                 PROVE  made'[x].request # made'[y].request
      BY DEF UniqueInRequest
    <2>1. CASE y = new
      <3>1. x \in 1..Len(made) /\ made[x].filename = filename /\ create[c].pc # "import_github"
        BY <1>1, <1>9, <2>1 DEF Clash
      <3> QED
        BY <1>1, <1>3, <2>1, <3>1 DEF Compared
    <2>2. CASE y \in 1..Len(made)
      <3>1. x \in 1..Len(made)
        BY <1>1, <2>2 DEF Clash
      <3> QED
        BY <1>1, <2>2, <3>1 DEF Clash, NamesInv, UniqueInRequest
    <2> QED
      BY <1>9, <2>1, <2>2
  <1>14. Compared(c)'
    <2> SUFFICES ASSUME job.pc \in {"upload", "save_skills"} PROVE Compared(c)'
      BY <1>7 DEF Compared
    <2>1. /\ create[c].pc \in {"upload", "save_skills"} /\ job.after = create[c].after
          /\ job.existing = create[c].existing
          /\ create[c].batch \subseteq job.batch /\ filename \in job.batch
      OBVIOUS
    <2>2. job.after <= Len(made)
      BY <1>3, <2>1 DEF Compared
    <2>3. \A x \in Listed(items') :
              x <= job.after /\ made'[x].filename \notin job.existing \cup job.batch =>
                  x \in contested'
      <3> SUFFICES ASSUME NEW x \in Listed(items'), x <= job.after,
                          made'[x].filename \notin job.existing \cup job.batch
                   PROVE  x \in contested'
        OBVIOUS
      <3>1. x \in Listed(items)
        BY <1>1, <1>2, <1>8, <2>1, <2>2
      <3> QED
        BY <1>1, <1>2, <1>3, <2>1, <3>1 DEF Compared
    <2>4. \A x \in 1..Len(made') :
              made'[x].request = c /\ x > job.after => made'[x].filename \in job.batch
      BY <1>1, <1>3, <1>9, <2>1 DEF Compared
    <2> QED
      BY <1>1, <1>7, <1>8, <2>1, <2>2, <2>3, <2>4 DEF Compared
  <1>15. \A e \in Creators \ {c} : Compared(e)'
    <2> SUFFICES ASSUME NEW e \in Creators, e # c, create[e].pc \in {"upload", "save_skills"}
                 PROVE  Compared(e)'
      BY <1>6 DEF Compared
    <2>1. create'[e] = create[e] /\ create[e].after <= Len(made) /\ create[e].after \in Nat
      BY <1>6, <1>8 DEF Compared
    <2>2. \A x \in Listed(items') :
              x <= create[e].after /\ made'[x].filename \notin create[e].existing \cup create[e].batch
                  => x \in contested'
      <3> SUFFICES ASSUME NEW x \in Listed(items'), x <= create[e].after,
                          made'[x].filename \notin create[e].existing \cup create[e].batch
                   PROVE  x \in contested'
        OBVIOUS
      <3>1. x \in Listed(items)
        BY <1>1, <1>2, <2>1
      <3> QED
        BY <1>1, <1>2, <1>6, <3>1 DEF Compared
    <2>3. \A x \in 1..Len(made') :
              made'[x].request = e /\ x > create[e].after => made'[x].filename \in create[e].batch
      BY <1>1, <1>6, <1>9 DEF Compared
    <2> QED
      BY <1>1, <2>1, <2>2, <2>3 DEF Compared
  <1> QED
    BY <1>4, <1>10, <1>11, <1>12, <1>13, <1>14, <1>15 DEF NamesInv

LEMMA NamesStart ==
    ASSUME Inv, NamesInv, NEW c \in Creators, StartCreate(c), contested \subseteq contested'
    PROVE  NamesInv'
  <1>1. PICK kind \in Kinds, files \in Batches :
            create' = [create EXCEPT ![c] =
                [pc |-> kind, files |-> files, batch |-> {}, after |-> Len(made),
                 existing |-> IF kind = "import_github" THEN {} ELSE FilenamesOf(items)]]
    BY DEF StartCreate
  <1> DEFINE job == [pc |-> kind, files |-> files, batch |-> {}, after |-> Len(made),
                     existing |-> IF kind = "import_github" THEN {} ELSE FilenamesOf(items)]
  <1>2. UNCHANGED <<items, file, made, delete, final, uploader>>
    BY DEF StartCreate, UnchangedByCreate
  <1>3. create'[c] = job
    BY <1>1 DEF Inv, TypeOK
  <1>4. \A x \in Listed(items) : made[x].filename \in FilenamesOf(items)
    BY DEF FilenamesOf
  <1>5. Compared(c)'
    <2> SUFFICES ASSUME kind \in {"upload", "save_skills"} PROVE Compared(c)'
      BY <1>3 DEF Compared
    <2>1. job.existing = FilenamesOf(items) /\ job.after = Len(made) /\ Len(made) \in Nat
      BY WereMade
    <2> HIDE DEF job
    <2> QED
      BY <1>2, <1>3, <1>4, <2>1 DEF Compared
  <1> QED
    BY <1>1, <1>2, <1>5, NamesSkip

LEMMA NamesNext ==
    ASSUME Inv, NamesInv, NEW c \in Creators, CreateNext(c), contested \subseteq contested'
    PROVE  NamesInv'
  <1>1. create[c].pc # "idle" /\ UNCHANGED <<delete, final, uploader>>
    BY DEF CreateNext, UnchangedByCreate
  <1>2. PICK job \in CreateJobs :
            /\ create' = [create EXCEPT ![c] = job]
            /\ job.pc # "idle" => /\ job.pc = create[c].pc /\ job.existing = create[c].existing
                                 /\ job.after = create[c].after
            /\ \/ /\ UNCHANGED sliceVars
                  /\ job.pc \in {"upload", "save_skills"} => create[c].batch \subseteq job.batch
               \/ \E filename \in Filenames, ok \in BOOLEAN :
                     /\ Save(Making(c, filename), Blank, ok)
                     /\ create[c].pc # "import_github" =>
                            /\ filename \notin create[c].existing \cup create[c].batch
                            /\ job.pc # "idle" => create[c].batch \cup {filename} \subseteq job.batch
    BY CreateEffect, Zenon DEF CreatesAtMostOne
  <1>3. CASE /\ UNCHANGED sliceVars
             /\ job.pc \in {"upload", "save_skills"} => create[c].batch \subseteq job.batch
    <2>1. create'[c] = job /\ Compared(c)
      BY <1>2 DEF Inv, TypeOK, NamesInv
    <2>2. Compared(c)'
      BY <1>2, <1>3, <2>1 DEF Compared
    <2>3. UNCHANGED <<items, file, made, delete, final, uploader>>
      BY <1>1, <1>3
    <2> QED
      BY <1>2, <2>2, <2>3, NamesSkip
  <1>4. CASE \E filename \in Filenames, ok \in BOOLEAN :
                 /\ Save(Making(c, filename), Blank, ok)
                 /\ create[c].pc # "import_github" =>
                        /\ filename \notin create[c].existing \cup create[c].batch
                        /\ job.pc # "idle" => create[c].batch \cup {filename} \subseteq job.batch
    BY <1>1, <1>2, <1>4, NamesCreate
  <1> QED
    BY <1>2, <1>3, <1>4

LEMMA NamesStep ==
    ASSUME Inv, Inv', IdsListed, HistoryInv, NamesInv, [Next]_vars
    PROVE  NamesInv'
  <1>0. contested \subseteq contested'
    BY ContestStep DEF Inv
  <1>1. CASE \E c \in Creators : StartCreate(c) \/ CreateNext(c)
    BY <1>0, <1>1, NamesStart, NamesNext
  <1>2. Listed(NoItems) = {} /\ UniqueIn(NoItems)'
    BY DEF UniqueIn
  <1> HIDE DEF NoItems, Listed
  <1>3. CASE Reads
    <2>1. \A s : UniqueIn(s) => UniqueIn(s)'
      BY <1>0, <1>3 DEF Reads, UniqueIn, Clash
    <2>2. UniqueIn(items)' /\ UniqueIn(file)'
      BY <1>3, <2>1 DEF Reads, NamesInv, UniqueIn
    <2>3. \A t \in Copies' : UniqueIn(t)'
      BY <1>2, <1>3, <2>1 DEF Reads, NamesInv
    <2>4. UniqueInRequest' /\ \A c \in Creators : Compared(c)'
      BY <1>0, <1>3 DEF Reads, NamesInv, UniqueInRequest, Clash, Compared
    <2> QED
      BY <2>2, <2>3, <2>4 DEF NamesInv
  <1>4. CASE WritesBack
    <2>1. PICK t \in Copies : Listed(items') \subseteq Listed(t)
      BY <1>4 DEF WritesBack
    <2>2. \A s : UniqueIn(s) => UniqueIn(s)'
      BY <1>0, <1>4 DEF WritesBack, UniqueIn, Clash
    <2>3. UniqueIn(items)'
      BY <2>1, <2>2 DEF NamesInv, UniqueIn
    <2>4. UniqueIn(file)'
      BY <1>4, <2>2, <2>3 DEF WritesBack, NamesInv, UniqueIn
    <2>5. \A s \in Copies' : UniqueIn(s)'
      BY <1>2, <1>4, <2>2 DEF WritesBack, NamesInv
    <2>6. \A x \in Listed(items') : x \in Listed(items) \/ x \in contested
      BY <1>4 DEF WritesBack, HistoryInv, Listed
    <2>7. UniqueInRequest' /\ \A c \in Creators : Compared(c)'
      BY <1>0, <1>4, <2>6 DEF WritesBack, NamesInv, UniqueInRequest, Clash, Compared
    <2> QED
      BY <2>3, <2>4, <2>5, <2>7 DEF NamesInv
  <1>5. CASE Restarts
    <2>1. \A s : UniqueIn(s) => UniqueIn(s)'
      BY <1>0, <1>5 DEF Restarts, UniqueIn, Clash
    <2>2. UniqueIn(items)' /\ UniqueIn(file)'
      BY <1>2, <1>5, <2>1 DEF Restarts, NamesInv, UniqueIn
    <2>3. \A t \in Copies' : UniqueIn(t)'
      BY <1>2, <1>5 DEF Restarts
    <2>4. UniqueInRequest' /\ \A c \in Creators : Compared(c)'
      BY <1>5 DEF Restarts, NamesInv, UniqueInRequest, Clash, Compared
    <2> QED
      BY <2>2, <2>3, <2>4 DEF NamesInv
  <1> QED
    BY <1>1, <1>3, <1>4, <1>5, StepKinds

LEMMA InitNames == Init => NamesInv
  <1> SUFFICES ASSUME Init PROVE NamesInv
    OBVIOUS
  <1>1. /\ Listed(items) = {} /\ Listed(file) = {} /\ \A t \in Copies : Listed(t) = {}
        /\ Len(made) = 0 /\ \A c \in Creators : create[c].pc = "idle"
    BY DEF Init, Copies, NoCreate
  <1> HIDE DEF Listed
  <1> QED
    BY <1>1 DEF NamesInv, UniqueIn, UniqueInRequest, Compared

\* A filename comes twice only by an import, by two requests of which neither saw the skill
\* of the other, or when a slice written back late brings a skill back that had left; for
\* any lists of files, any filenames, and any number of requests, publishes and restarts.
THEOREM FilenamesStayUnique == Spec => []FilenamesUnique
  <1>1. Inv /\ Inv' /\ IdsListed /\ HistoryInv /\ NamesInv /\ [Next]_vars =>
            IdsListed' /\ HistoryInv' /\ NamesInv'
    BY StepKinds, HistoryStep, NamesStep
  <1>2. Inv /\ NamesInv => FilenamesUnique
    <2> SUFFICES ASSUME Inv, NamesInv, NEW s \in {items, file}, NEW x \in Listed(s),
                        NEW y \in Listed(s), Clash(x, y)
                 PROVE  \/ x > made[y].after /\ made[x].request # made[y].request
                        \/ x \in contested
      BY DEF FilenamesUnique, Clash
    <2>1. x \in 1..Len(made) /\ y \in 1..Len(made) /\ made[y] \in Makings
      <3>1. x \in 1..Len(made) /\ y \in 1..Len(made)
        BY WereMade
      <3> QED
        BY <3>1, ElementOfSeq DEF Inv, TypeOK
    <2>2. made[y].after \in Nat /\ x \in Nat
      BY <2>1, SliceAssumption DEF Makings
    <2>3. CASE x <= made[y].after
      BY <2>3 DEF NamesInv, UniqueIn
    <2>4. CASE x > made[y].after
      BY <2>1, <2>4 DEF NamesInv, UniqueInRequest
    <2> QED
      BY <2>2, <2>3, <2>4
  <1> QED
    BY <1>1, <1>2, InitHistory, InitNames, SpecInv, PTL DEF Spec
=============================================================================
