# Verification of agent_bot

TLA+ models of the Go backend in `src/backend` (bots that chat, remember and
publish what they learned to 0G), TLC runs over small instances, and proofs
checked by TLAPS. Paths below are relative to `src/`; `service/`, `store/` and
`app/` are short for `backend/internal/service/` and so on.

Contents: 1 inventory, 2 the model, 3 runs, 4 proofs, 5 findings, 6 bounds and
assumptions, 7 what is not modelled, 8 plan.

## 1. Inventory

| Component | State | Operations | Correct when |
|---|---|---|---|
| Bot store `store/file_store.go`, `memory_store.go` | maps of bots, turns, samples, skills, iNFTs under one RWMutex; one JSON file, replaced by rename | Save/Get/Append/List/Update, `load`, `flushLocked` | a call that returned without error survives a restart that reads the file; a call that failed has a known effect |
| Chat `service/chat_service.go` | a copy of the bot during the reply | `UpsertBot`, `Chat` | each turn is remembered once, grows the bot and becomes a sample; edits are kept |
| Training publish `service/wallet_publish.go`, `training_sample_publish.go` | snapshot map, a goroutine per upload | prepare, finalize, upload goroutine, direct publish | the proof on a sample is of a payload that contains it; "completed" means stored |
| Snapshots `service/pending_publish.go` | map of four kinds of snapshots under a mutex | put, get (15 min), delete, resolve by wallet and root | a snapshot is used once, for its own bot and kind |
| Skill library `service/skill_publish.go`, `wallet_skills_bundle_publish.go`, `memory_distill.go`, `github_skills_import.go`, `app/skills.go` | skills of a bot in the store; lists held by requests and goroutines | upload, import, save drafts, delete, single and bundle publish | filenames unique, deleted skills stay away, a proof is of a payload with the skill |
| iNFT assets `service/inft_service.go`, `inft_registry.go`, `asset_publish.go` | iNFTs of a bot in the store; lists held by requests and goroutines | create, publish, upload goroutine, register, list owned | a reference is of the own content, what is registered is on the chain, parents before children |
| `contracts/MemoryRegistry.sol` | assets, owner index | register, transfer | index lists exactly the assets of each owner |
| Publish log `store/pg_publish_log.go` | one row per transaction hash, which nothing reads | save (upsert) | a save that errs ends its request |
| 0G client `zerog/client.go` | none | store a payload, choose nodes | |
| Sign-in `auth/service.go` | one challenge per address, the secret of the tokens | challenge, verify, authenticate | a session is of a challenge that was good, a token of this run, a good challenge is kept |
| Browser `frontend/app.js` | datasets, skills and iNFTs shown; publish flows | prepare, send transaction, finalize, retry | status shown is status held |
| Stateless: `llm/`, `app/x402*.go`, `x402pay/`, exports | none | one request, one answer | |

**Interaction.** The browser calls HTTP handlers. Go runs each in a goroutine of
its own; handlers call the services, the services call the store. The store
locks within one call, and *no service holds a lock across two calls*. So every
handler is a sequence of atomic store calls that interleaves with every other
handler of the same bot. Three handlers start a goroutine that lives for up to
twelve minutes after the answer. The wallet in the browser sends transactions
to the chain, the backend only looks at receipts, and the storage nodes accept
segments of files whose transaction they have read from the chain.

**Hard behaviour.** Copies read before a slow call (a reply, an upload) and
written back after it; two writers of one slice; the goroutine that may be
faster than the handler that started it; duplicate finalize requests; a
transaction that fails after it was accepted as "not mined yet"; a store write
that fails after the maps were changed; a restart that loses snapshots and
goroutines but not the chain, and that starts without the bot when it cannot
read the file, which its first write then replaces. `PROJECT.json` lists each as a
hazard at its line.

The repository has no tests, so none of these is exercised anywhere else.

## 2. The model

| Module | Models |
|---|---|
| `BotStore` | the FileStore restricted to one bot: the maps (`store`), the file (`disk`), the mutating calls, and `load` with the error that `NewFileStore` ignores |
| `TrainingMemory` | chat, profile edits, wallet publish, upload goroutine, direct publish, wallet, chain, crash; extends `BotStore` |
| `MemoryLog` | abstract specification: an append-only log of turns and the chats answered from it |
| `MemoryRegistry` | the contract: `assets` and `ownerAssets` |
| `AssetHoldings` | abstract specification: one set of assets per address |
| `SliceStore` | one slice of the FileStore (skills, or iNFTs) in memory and in the file: append, list, replace as a whole |
| `INFTLifecycle` | iNFTs from creation over publish and registration to transfer; extends `SliceStore`, composes `MemoryRegistry` in |
| `SkillLibrary` | skills: upload, import, save, delete, single and bundle publish; extends `SliceStore` |
| `SignIn` | wallet sign-in: challenges, `Verify` in two critical sections, tokens, restarts |
| `FileStore` | one call of the file store, system call by system call: mutex, change, temporary file, rename, crash, `load` |
| `AtomicFile` | abstract specification: calls that happen at once, which is what `BotStore` and `SliceStore` take them for |
| `PublishFlow` | one publish as the page drives it, against the snapshot map with its clock |
| `MC...` | instances for TLC: symmetry, batches of files, scenarios |
| `TrainingMemoryProofs`, `TrainingMemoryPublishProofs`, `MemoryRegistryProofs`, `INFTLifecycleProofs`, `SkillLibraryProofs`, `SignInProofs`, `FileStoreProofs`, `PublishFlowProofs` | theorems; `INFTLifecycleProofs` uses those of `MemoryRegistryProofs` through an `INSTANCE` |

### State

* `store`, `disk`: records of the bot (profile version and growth score), the
  sequence of turns, and the samples as a function from chat to publish fields.
  `Commit` is the end of every mutating call: the maps change in any case, the
  file only when `flushLocked` succeeds, and the call returns that success.
* `load`, `lost`: whether this run has read or replaced the file, and the turns
  in files that were replaced unread. After a load that errs the maps are
  `NoBot`: a chat and a direct publish end with `ErrBotNotFound`, a finalize
  finds no samples, until a `POST /api/bots` saves the bot again; that call, or
  one on another bot (`WriteElsewhere`), is the first to replace the file.
* `chat[c]`: how far a chat request is, and the copy of the bot it read.
* `final[f]`, `uploader[f]`, `direct[d]`: the publish requests and goroutines,
  each with the *list of samples it holds between a list and its write back*.
* `snapshots`, `payload`: the keys of the `pending` map; which samples are in
  the payload of each root.
* `tx`, `uploaded`: the chain and the storage nodes.

In the other modules:

* In `MemoryRegistry`, `assets` has the owner of each asset id (`NoOwner` is
  address(0), the default of a mapping) and `ownerAssets` the array of each
  address. `previewAssetId` hashes the sender and the fields, so an id is the
  pair of them and the other fields of a record are those of its id.
* In `SliceStore`, `items` and `file` are the slice in memory and in the file, a
  function from ids to items or `None`; `made` has what never changes of each
  item ever created, so that a late write back can be compared with it. A restart
  finds in memory what `Loaded` has: the file, or nothing.
* In `INFTLifecycle` and `SkillLibrary`, `pub` (and `reg`) are the publishes
  (and registrations) with their transactions, `pending` the snapshot map,
  `final`, `uploader`, `regFinal`, `delete`, `create` the requests and
  goroutines *with the slice each has listed*. An item's fields that are always
  set together (`StoredOn0G`, `StorageRef`, `TxHash`, `RootHash`) are one `ref`.
* In `SkillLibrary`, `made` also says which request created a skill and how many
  skills there were when that began, and the history variable `contested` has the
  skills that left the slice while a request or a goroutine was going to write back a
  copy that had them (`Held`). Nothing reads these but the properties.
* In `SignIn`, `nonces` is the map of the service, `challenges` the messages
  ever made with their time and run, `sessions` the tokens ever given out.
* In `FileStore`, a state of the maps is the set of changes made to them; `path`
  and `tmp` are the two files, each missing, partial or whole; `load` says
  whether this run has read `path`, and `lost` what was in a file that a run
  replaced without having read it.
* In `PublishFlow`, `request` is the finalize request of a publish, which runs on
  or not when its page gives up, and `prepared` when its snapshot was made.

A chat, a publish and a request are values of the constants `Chats`,
`Publishes`, `Directs` and `Calls`. The turn and the sample of a chat carry its
name, and a publish names its snapshot, its Merkle root and its transaction.

### Actions and code

| Action | Code |
|---|---|
| `ChatGetBot`, `ChatAppendMemory`, `ChatSaveBot`, `ChatSaveSample` | `Chat`, chat_service.go:59-114: one action per store call; the reply is between the first two |
| `WriteElsewhere` | the write of a call on another bot, or on skills and iNFTs (file_store.go:289-297 encodes every map) |
| `UpsertBot` | chat_service.go:42; `handleBots` builds the profile from the form, which has no growth score |
| `PrepareWalletPublish` | wallet_publish.go:41-200. List and `putSnapshot` are one action: nothing else can use the snapshot before the answer, and the payload depends on the list alone |
| `WalletSendsTx`, `ChainMinesTx` | the browser (app.js:1436) and the chain |
| `FinalizeGetSnapshot` ... `FinalizeSaveLog` | `FinalizeWalletPublish`, wallet_publish.go:202-306: snapshot, receipt (refused or accepted, delete the snapshot, start the goroutine), list, write back, log |
| `UploadSegments`, `UploadGivesUp`, `UploadListSamples`, `UploadUpdateSamples` | `completeWalletTrainingUpload`, wallet_publish.go:345-415 |
| `DirectListSamples` ... `DirectSaveLog` | `PublishTrainingData`, chat_service.go:182-240 |
| `Crash` | a restart: the store is what the file holds, or empty when `load` errs (file_store.go:53, `Reload`); requests, goroutines and snapshots are gone; chain and nodes are unaffected |
| `CreateTrainingINFT`, `CreateDistilledINFT` | inft_service.go:28-177; the distilled one reads its parent first and saves later |
| `PrepareINFTPublish`, `FinalizeINFTPublish`, `completeWalletINFTUpload` | asset_publish.go:19-145, inft_service.go:228-314 and 316-387, one action per store call; the goroutine waits for the root (350), which every publish of the iNFT has (`FileOnNodes`) |
| `RegisterGetINFT`, `PrepareINFTRegister`, `FinalizeINFTRegister` | inft_registry.go:85-183 (the iNFT is read before the chain is asked, its parent after) and 185-244 |
| `ListOwnedINFTsByWallet` | inft_registry.go:317-401: the chain first, the slice later |
| `StartCreate`, `UploadFile`, `ImportFile`, `SaveDraft` | app/skills.go:196-315, github_skills_import.go:181-280, memory_distill.go:77-140, one action per file |
| `DeleteList`, `DeleteUpdate` | `DeleteSkills`, chat_service.go:143-180 |
| `PrepareSkillPublish`, `PrepareSkillsBundlePublish`, `FinalizePublish`, `completeWalletSkillsBundleUpload` | skill_publish.go, wallet_skills_bundle_publish.go; the two finalize handlers share the actions that are alike and differ by the kind of the snapshot |
| `NewChallenge`, `VerifyLookup`, `VerifyRedeem`, `Accepted` | auth/service.go:78, 111-144, 146-179, 181-245 |
| `Lock`, `CreateTmp`, `Encode`, `Close`, `Rename`, `Return`, `Restart` | file_store.go:57-65 and 274-305, 33-55 |
| `Prepare`, `WalletSends`, `LoseAnswer`, `ResolveTx` | app.js:1382-1502 and 3126, zerog_tx_status.go |
| `ResolvePublishID`, `GetSnapshot`, `RejectTx`, `AcceptTx` | pending_publish.go:42-93, wallet_publish.go:202-256 |
| `registerAsset`, `transferAsset` | the two transactions of MemoryRegistry.sol, one action each, with `_validate` (`validate`, by the set `Malformed`) and `_removeOwnerAsset`; one that reverts is no action |

`UpdateTrainingSamples` replaces the whole slice, `ApplyByID` marks every
sample when it gets no ids, and `ApplyPublishState` keeps old values of fields
the new state leaves empty, as the code does.

Definitions commented "a faulty variant" are not part of the specification.
Each is a plausible bug in one action; with the variant in place of the action,
the property named for it in `PROJECT.json` fails.

### Properties

| Property | Says |
|---|---|
| `TypeOK` | types |
| `GrowthWithinMemories` | the growth score never exceeds the remembered turns, in memory or in the file |
| `SampleHasTurn` | every sample stands for a remembered turn, also in the file after a crash |
| `AnsweredTurnDurable` | the turn of an answered chat is in the file, unless a run that could not read the file replaced it |
| `ImplementsMemoryLog` | the turns in the file are an append-only log: never dropped, reordered or repeated; a run that could not read the log begins another one (refinement of `MemoryLog`) |
| `ProofCoversSample` | the root on a sample is of a payload that contains it |
| `CompletedIsUploaded` | a completed sample was stored by the publish its reference names, whose transaction succeeded |
| `SnapshotUnspent` | a snapshot still held has had no effect: nothing uploaded, no sample marked |
| `EveryRequestEnds` | a started chat or finalize request, and its goroutine, ends |
| `IndexExact` | the array of an owner lists exactly the assets whose record names it, each once |
| `ImplementsHoldings` | the array implements a set per address: registering adds an asset nobody has, a transfer moves one and touches no other (refinement of `AssetHoldings`) |
| `ProofIsOfOwnContent` | the reference on an iNFT is the root of its own content, of a publish of it that the wallet sent |
| `RegisteredOnChain` | an iNFT the slice or the file says is registered has its asset on the chain |
| `ProvenanceChain` | an asset that names a parent names one on the chain, made from the iNFT it was distilled from |
| `OwnedShowsOwnContent` | the list of owned iNFTs shows each asset with the data of its own iNFT |
| `ProofCoversSkill` | a skill's reference is of a publish whose payload has it, and which the wallet sent |
| `SingleIsUploaded` | a skill published by itself is on the storage nodes |
| `FilenamesUnique` | a filename comes twice only by an import, by two requests that overlap, or by a write back of a skill that had left the slice |
| `DeletedStaysDeleted` | a deletion that was answered is undone by nothing but a copy of the slice that was already under way |
| `SignedInTime` | a session is of the account of its challenge, which was good when `Verify` looked it up |
| `AcceptedFromThisRun` | without `AUTH_SECRET` an accepted token is of a challenge of this run |
| `ChallengeKept` | the newest good challenge of an address is there, unless the `Verify` of an older one overtook it |
| `AnsweredDurable` | an answered change stays in the file, unless a run that could not load the file replaced it |
| `PathIsWhole` | the file at path is never a half-written one |
| `ImplementsAtomicFile` | the system calls of the calls look like calls that happen at once (refinement of `AtomicFile`) |
| `HeldForItsTime` | a prepared publish can be finalized for 15 minutes |

These relate pieces of state that different handlers write. That they hold in
spite of lost updates is not obvious: a slice written back late can lose samples
and undo marks (section 5), but it cannot invent a proof, because every list
that any handler holds was itself sound when it was read and payloads never
change afterwards. The same holds of skills and of iNFTs.

Handlers run concurrently, so `FilenamesUnique` and `DeletedStaysDeleted` hold for
any number of requests and state the ways in which the code does fail: an import
compares nothing; an upload or a save compares with the list it read at its start,
so that a skill created by another request since then is not seen; and a copy of the
slice that was listed before a deletion and is written back after it brings the
skill back. The properties say that there is no other way: no request that begins
after the deletion was answered, no failed write and no restart undoes it, and a
request neither repeats a filename of its own nor one that was there when it began.
The run reaches each exception (section 5).

## 3. Runs

Run from this directory, e.g. `tlc -config MCTrainingMemory_publish.cfg MCTrainingMemory`.

| Run | Instance | Shows | Distinct states |
|---|---|---|---|
| `publish` | 2 chats, 2 wallet publishes, 2 finalize requests, failing network, 1 crash | `ProofCoversSample`, `CompletedIsUploaded`, `SnapshotUnspent` | 580,879 |
| `crash` | 2 chats, 1 wallet and 1 direct publish, 1 finalize, 1 edit, failing file writes, 1 crash after which the load may err, PostgreSQL log | `TypeOK`, `GrowthWithinMemories`, `SampleHasTurn`, `AnsweredTurnDurable`, `ProofCoversSample`, `ImplementsMemoryLog` | 1,536,057 |
| `live` | one of each, everything may fail, 1 crash | `EveryRequestEnds` | 9,512 |
| `registry` | 3 accounts, 2 valid contents and a malformed one: 6 assets that any account may get, so arrays of up to 6 entries | `TypeOK`, `IndexExact`, `ImplementsHoldings` of `MemoryRegistry` | 3,547 |
| `inft_faults` | 2 iNFTs, 2 publishes, 2 finalize requests, 1 registration, everything may fail, 1 crash | `TypeOK`, `ProofIsOfOwnContent`, `RegisteredOnChain` | 768,913 |
| `inft_chain` | 2 iNFTs, one distilled from the other, 2 publishes, 2 registrations, 2 wallets, 1 transfer, 1 list | `ProvenanceChain`, `OwnedShowsOwnContent` | 127,989 |
| `skills` | 3 skills, 2 creating and 2 deleting requests, 2 publishes, 2 finalize requests, everything may fail, 1 crash | `TypeOK`, `SingleIsUploaded`, `ProofCoversSkill`, `FilenamesUnique`, `DeletedStaysDeleted` | 260,730 |
| `signin` | 2 tabs, 2 addresses, 3 challenges, a clock past both lifetimes, 2 restarts, no `AUTH_SECRET` | `TypeOK`, `SignedInTime`, `AcceptedFromThisRun`, `ChallengeKept` | 275,803 |
| `files` | 3 callers, 5 changes, every system call and `load` may err, 2 restarts | `TypeOK`, `PathIsWhole`, `AnsweredDurable`, `ImplementsAtomicFile` | 58,168 |
| `flow` | 2 pages, one that sends no `publishId`, 2 publishes, a clock past the age of a snapshot, failing network, 1 restart | `TypeOK`, `HeldForItsTime` | 680,024 |
| `lost_sample`, `inft_sticks` | smallest instance that shows it, nothing fails | section 5 | |

`registry` removes from every position of an array: the first, the middle, the
last, and the only one. An asset may pass from hand to hand and come back.

`publish` lets both finalize requests be for one snapshot or for two publishes
that share samples, so an old proof may overwrite a newer one. `crash` puts a
crash and a failed write at every step. To bound it, a direct publish is not at work
beside a wallet publish once there was an edit (`EditBesideOneKind`): of the profile
that an edit writes, a publish only asks whether there is one. The actions missing
in one run (direct publish, edit) are in the other.

**Scenarios.** The product of all requests of `INFTLifecycle` or `SkillLibrary`
is too large for TLC. Their runs have a state constraint that is a disjunction
of scenarios, each an instance of its own: fewer items, fewer requests at once,
or no faults. TLC explores every behaviour that stays within a scenario and
checks the states one step outside, too. In `inft_faults` these are races of two
publishes of two iNFTs (`PublishRaces`), and one iNFT with everything
(`RegisterFaults`); in `inft_chain` a training iNFT and one distilled from it, with
overlapping registrations (`ParentAndChild`), and owners, transfers and lists (`Owners`); in
`skills` every list of files with a deletion (`Names`), two creating and two deleting
requests at once with failed writes and a crash (`Overlapping`), single calls beside
creations and a deletion or with a crash (`Publishing`), and two calls at once
(`TwoCalls`). The names that `skills` uses are a, a-2 and a blank or foreign file:
with them a request has the same name twice, a name that a number makes equal to the
next, a file that is skipped and one it stops at.

## 4. Proofs

The theorems hold for any sets of chats, publishes, requests, accounts, assets,
tabs, callers, wallets, registrations and pages and any bounds, finite or not.
They assume what the modules assume of their constants: `StoreAssumption` (wallet and direct publishes are
disjoint and none is the empty string) and `TrainingAssumption` (types of
the parameters), `RegistryAssumption` (address(0) sends nothing),
`SliceAssumption` and `SkillAssumption`, `INFTAssumption` and `NoAssetAssumption`
(no asset id is the empty one: ids are hashes), `SignInAssumption` and
`NoneAssumption`, `FileStoreAssumption`, `FlowAssumption`. Check with `tlapm TrainingMemoryPublishProofs.tla`, and so on.

| Theorem | Statement |
|---|---|
| `TypeCorrect` | `Spec => []TypeOK` |
| `AnsweredDurable` | `Spec => []AnsweredTurnDurable` |
| `MemoryIsLog` | `Spec => ImplementsMemoryLog` |
| `GrowthBounded` | `Spec => []GrowthWithinMemories` |
| `SamplesHaveTurns` | `Spec => []SampleHasTurn` |
| `ProofsCoverSamples` | `Spec => []ProofCoversSample` |
| `CompletedAreUploaded` | `Spec => []CompletedIsUploaded` |
| `SnapshotsUnspent` | `Spec => []SnapshotUnspent` |
| `RegistryTypeCorrect` | `Spec => []TypeOK` of `MemoryRegistry` |
| `IndexIsExact` | `Spec => []IndexExact` |
| `RegistryImplementsHoldings` | `Spec => ImplementsHoldings` |
| `SignInTypeCorrect`, `SessionsInTime`, `TokensOfThisRun`, `ChallengesKept` | `Spec => []TypeOK`, `[]SignedInTime`, `[]AcceptedFromThisRun`, `[]ChallengeKept` of `SignIn` |
| `FileStoreTypeCorrect`, `PathAlwaysWhole`, `AnsweredAreDurable` | `Spec => []TypeOK`, `[]PathIsWhole`, `[]AnsweredDurable` of `FileStore` |
| `FileStoreIsAtomic` | `Spec => ImplementsAtomicFile` |
| `SkillTypeCorrect`, `ProofsCoverSkills`, `SinglesAreUploaded` | `Spec => []TypeOK`, `[]ProofCoversSkill`, `[]SingleIsUploaded` of `SkillLibrary` |
| `DeletionLasts` | `Spec => []DeletedStaysDeleted` |
| `FilenamesStayUnique` | `Spec => []FilenamesUnique` |
| `INFTTypeCorrect`, `ProofsAreOfOwnContent`, `RegisteredAreOnChain` | `Spec => []TypeOK`, `[]ProofIsOfOwnContent`, `[]RegisteredOnChain` of `INFTLifecycle` |
| `ProvenanceHolds`, `OwnedListIsRight` | `Spec => []ProvenanceChain`, `[]OwnedShowsOwnContent` |
| `FlowTypeCorrect`, `SnapshotHeld` | `Spec => []TypeOK`, `[]HeldForItsTime` of `PublishFlow` |

**Inductive invariants**, each relative to the ones before:

1. `TypeInv`: `TypeOK` and `CallHasPublish` (a finalize request that started has
   a publish, a goroutine that runs belongs to such a request). The types of
   what an action writes depend on it.
2. `LogInv`, which is `FilesInv` and `ChatsInv`: the turns in the file are a prefix of
   those in memory once this run has read or replaced the file, and are none of them
   before; no turn is there twice, or in a file that was replaced unread; a chat past
   its append has its turn in the file, which this run has read or replaced. The
   prefix is why a later successful write also saves the turns of earlier failed ones,
   and why a restart that reads the file only cuts a tail nobody was answered from.
3. `TurnsInv`: growth and samples are within the turns, in the store, in the
   file (`WithinTurns`) *and in every copy a handler holds* (`BotCopies`,
   `SampleCopies`). The copies are the strengthening: without them the write back of
   an arbitrary old list would break the property. A crash empties every copy,
   which is what keeps lists read before it out of the shorter store after it.
4. `PublishInv`: the wallet protocol (`WalletInv`: nothing prepared is empty, a
   snapshot is gone before its first mark and before its segments are uploaded,
   only a successful transaction is uploaded), `DirectInv` (a direct publish
   holds exactly the samples of its payload) and `CopiesInv` (every copy of the
   samples is `Sound`). A step changes payloads, snapshots and stored publishes
   only in ways that keep sound lists sound (`WorldMoves`, `SoundKept`); what
   remains is that each new list is an old one, an old one with a fresh sample,
   or an old one marked by a publish that may mark it (`MarkedSound`).

The invariant of the contract, `RegistryInv`, is `TypeOK` and `IndexExact`. They
need each other: swap-and-pop takes an asset out of the array only if it is there
once, which is `IndexExact`. `AppendedAsset` and `RemovedAsset` say what the two
operations do to an array without repetitions; the refinement follows from them.

In `SignIn`, `Inv` says what a tab holds between the two halves of `Verify`
(its challenge was good and of this run), that the map has challenges of this run
only, and which run a token's secret tells. For `ChallengeKept` it takes three
more facts (`KeptInv`): challenges are numbered in the order they are made, the
map holds the newest one of an address, and what is being checked was looked up
before any newer challenge of the same address was made. The last one makes the
exception of `ChallengeKept` the only one: `VerifyRedeemKept`.

In `FileStore`, `LockInv` says that only the holder of the mutex is under way and
that path.tmp is the maps once it is written, `DurableInv` that the file is behind
the maps once it was read or replaced. The abstract change happens at the rename,
or when the call returns its error; until then the maps without the change under
way (`Visible`) are what others may see.

In `SkillLibrary`, `Inv` holds `Sound` of the slice, of the file and of *every copy
that a request or a goroutine is going to write back* (`CopiesSound`), and what is
known of a publish once its transaction was looked at (`JobInv`). `Marked` of a sound
copy is sound, and a publish only changes in ways that keep sound slices sound
(`Grows`). That a saved draft gets a filename at all (`UniqueIsFree`) is the pigeonhole
principle: of one candidate more than there are filenames in use, some is free.

The two properties of the library itself rest on the history. `HistoryInv`: a skill that
some copy has (`HeldBy`) and the slice has not is in `contested`. So a deleted skill
outside the history is in no copy, and no write back can have it. `NamesInv` adds that
the slice, the file and *every copy* have no clash but the excepted ones (`UniqueIn`), that
one request never makes a filename twice (`UniqueInRequest`), and that a request at
work has compared with every older skill of the slice that is not contested
(`Compared`). `StepKinds` sorts the actions by what they do to slices and copies (a
creation, a read, a write back, a restart), and each kind is proved once.

In `INFTLifecycle`, `INFTInv` has a part for each group of variables, so that an
action is proved only for the parts it writes; the others follow from how the state
grows (`StateGrows`: iNFTs are only added, a publish or registration that was sent
keeps its iNFT and asset, an asset on the chain has an owner from then on).

* `Sound`, of the slice, of the file and of every copy a request or goroutine is going
  to write back, is needed for the same reason as above. It speaks of both halves of
  an entry, the reference and the asset, since each finalize writes back the half of
  the other as it listed it.
* `PublishJob` and `RegisterJob` say what a finalize works on. That a registration was
  mined is only known from the receipt on, and it is what makes the asset that
  `RegFinalUpdateINFTs` writes one on the chain.
* `Registration` holds for the iNFT that was read before the chain is asked and
  for the asset sent: its content has the root of that iNFT and is `Founded`.
* `ProvenanceChain` follows from `Founded` of every asset on the chain: it was made
  from an iNFT, and names an asset of the parent of that if there is one. `Lineage`
  (a parent is a training iNFT, and those have none) ends the chain after one step.
* What the contract keeps (`IndexExact`) is not proved again: `RegisterStep` and
  `TransferStep` of `MemoryRegistryProofs` are cited for the contract inside the
  composition (`SameRegistry`). A viewer's assets stay on the chain between its two
  reads, whoever owns them by then.

In `PublishFlow`, `HeldForItsTime` is proved with three more facts (`FlowInv`). A
publish that was not sent has no request (`RequestsOfSent`), and no two pages have the
same publish (`PagesApart`): so a wallet that sends does not start the request of
another page over, and an accepted publish stays accepted. No publish was prepared in
a later run of the server than this one (`RunsOfSnapshots`), so a restart only takes
snapshots that the property does not speak of any more.

Only model-checked: `EveryRequestEnds` (liveness is out of the prover's reach) and the
two violations. Every invariant and every refinement that a run checks is a theorem,
too.

## 5. Findings

Each is a run in which TLC refutes, on the code's behaviour, what a document or
a page of the program says.

| Run | Code | Says |
|---|---|---|
| `lost_sample` | training_sample_publish.go:49/74 lists and writes the slice back: a sample saved in between is lost | README.md:64, every turn becomes a sample |
| `inft_sticks` | inft_service.go:371/386: the goroutine writes back a slice from before the registration | app.js:1887, the iNFT is registered |

The models have more behaviours of this kind, of which the project keeps no run.
Each was seen as a counterexample to what the page or the document says:

* chat_service.go:94 increments the score of a copy: two chats at once earn one
  point (README.md:63). Line 96 saves the whole old profile after the reply, and
  undoes an edit made meanwhile.
* wallet_publish.go:250, inft_service.go:269 and wallet_skills_bundle_publish.go:244
  accept a transaction without receipt, and nothing resets the mark when it
  fails (app.js:776 "confirmed on chain", app.js:833 "published").
* wallet_publish.go:258 starts the goroutine before the samples are marked at 271:
  pending may overwrite completed. Lines 382-399 give up and mark nothing.
* chat_service.go:207 marks samples stored that were only simulated, and
  pg_publish_log.go:91 then refuses the publish for its missing hash.
* inft_service.go:306 replaces the slice: an iNFT created meanwhile is lost. An iNFT
  published again after register_prepare differs from its asset, and may be
  registered a second time (inft_registry.go:102 reads the slice only).
* wallet_skills_bundle_publish.go:285 likewise drops skills uploaded meanwhile and
  brings deleted ones back (app.js:2019). An import compares no filename, and two
  uploads at once compare with the same old list (app/skills.go:218).
* auth/service.go:171 deletes the entry of the address, which may be a newer
  challenge: the exception of `ChallengeKept`.
* file_store.go:53 ignores the error of `load`: the exception of `AnsweredDurable`,
  `AnsweredTurnDurable` and `ImplementsMemoryLog`.
* A page that gives up on publish_finalize cancels its request and with it the
  upload, and then says that the upload continues (app.js:1903).

## 6. Bounds and assumptions

* **Bounds.** `MaxEdits` and `MaxCrashes` bound two actions; everything else is
  bounded by the finite sets of requests. Two of a kind give every pairwise race;
  a third chat or publish adds no new kind of interleaving, and the proofs cover
  any number. One crash suffices since after it the state is an initial one with
  a non-empty file; the proofs do not bound crashes. `MaxItems`, `MaxTransfers`,
  `MaxChallenges`, `MaxChanges`, `MaxPublishes`, `MaxTime`, `MaxAge` and
  `MaxRestarts` bound what their comments say; the lifetimes of a challenge, a
  session and a snapshot are one tick each, of a clock with three, so that each
  is met, just met and missed.
* **Deadlock** is not checked: the requests are finite and an idle server stops.
* **Fairness** (`FairSpec`, run `live`): weak fairness of each started chat,
  finalize request and upload goroutine. They run in goroutines of their own, and
  each wait is bounded: 45 s for the model (llm/openai_compat.go:114), 18 s for
  the receipt (wallet_publish.go:325) in a request that its page cancels after
  120 s (app.js:3126), 8 and 12 minutes in the upload (wallet_publish.go:381,
  347). There is *none for the direct publish*: `handlePublish` (app/server.go:453)
  passes on the context of a request that nothing cancels, to an upload that waits
  until the file is final (zerog/client.go:149-213), so it may never end, and nothing
  is claimed of it. No fairness for users, wallets, the chain or crashes.
* **A load may err** where a run has `LoadMayFail = TRUE` (`crash`, `live`,
  `inft_faults`, `skills`; `files` has it step by step). `publish` has a crash
  whose load succeeds; the theorems cover both. No handler deletes a bot, so it is
  missing only after such a load; `ErrBotNotFound` changes nothing.
* **`STORE_PATH` is set.** Without it the MemoryStore is used: the case of no
  failed write and no crash. A crash is one of the process: what a rename wrote is
  there, as without a power failure.
* The payload of a training, direct, single skill or bundle publish contains the time
  of its export, so each has its own root, and the root stands for the transaction
  hash, which the browser passes with it. The payload of an iNFT is its content: all
  its publishes have one root.
  Sample ids contain nanoseconds and are unique. `explorerTxUrl` and
  `publishedAt` follow the other fields and are left out.
* keccak256 has no collisions, and arrays of the contract fit in storage.
* The chain does not reorganise, and receipts are what the RPC node reports.
* An older page may omit `publishId`; the handler then resolves it to the
  snapshot of that root, which is the same snapshot in these models; `PublishFlow`
  has the lookup.
* A signature is that of the address its message names, or the request is refused.

## 7. Not modelled

Model client, HTTP decoding, x402 proxies, exports: stateless. Node choice and
retries within one upload: no program state. `finalizeAssetPublish` in
`asset_publish.go` and `x402_skills.go`: nothing calls them. Deployment scripts,
Foundry output, vendored code. The rows of the publish log, which nothing reads.
The distillation (`memory_distill.go`), which asks the model and changes nothing;
only the saving of its drafts is modelled. Of the browser: rendering, the chat
panel and its wallet tools.

## 8. Plan

All modules planned are there, and so are the theorems about their invariants. What
is left, in order:

1. Lemmas on `SliceStore` that `SkillLibraryProofs` and `INFTLifecycleProofs` share
   (what an update and a restart keep of sound slices), stated once.
2. Liveness of the publishes of skills and iNFTs under the fairness of section 6.
3. `BotStore` and `SliceStore` as parts of one store, with `AtomicFile` between.
