# ContextVault in TLA+

ContextVault keeps *workspaces* (versioned file trees) for agents. A client opens a *run* on a
workspace, uploads a complete snapshot as a *submission*, and *finalizes* the run; the server turns
the sealed submission into a candidate revision in a revision store (Git or S3) and publishes it by
moving the workspace's head, if the head is still the one the run was opened on. A SQLite catalog
holds every decision; several server processes share it and may die at any time. A maintenance
scheduler in each process expires runs, recovers finalizations, delivers webhook events and collects
unused bytes.

This directory specifies that machinery, model-checks it with TLC and proves its main invariants
with TLAPS. Paths below are relative to the repository root.

## Inventory

| Component | State it keeps | Operations | Hard behaviour | What makes it correct |
|---|---|---|---|---|
| Runs, finalization, publication (`src/adapters/control/sqlite-control-store.ts`, `src/application/runs/`) | workspace head, version, status; run, lease; finalize operation with claim and fence; accepted revisions; cleanup jobs; outbox events | open, heartbeat, abort, claim finalization, prepare, record, accept, complete read-only, fail, expire, recover, renew claim | concurrent runs on one head, zombie workers, crashes between catalog calls, authority that changes between check and use | no lost update, one outcome per run, authority is current at publication, recovery decides every finalization |
| Outbox (`sqlite-control-store.ts`, `src/adapters/delivery/webhook.ts`, `src/application/maintenance/index.ts`) | event state, claim, frozen recipients, receipts | claim, list due recipients, deliver, record, release, retry | lost answers, stale claims, small batches, broken endpoints | completion means delivered, duplicates only after a new claim, no starvation |
| Submissions (`src/adapters/submissions/`, `sqlite-control-store.ts`) | submission record, receipts, writers, collection cursor, bytes | create, upload, seal, expire, collect | upload racing expiry, interrupted deletion, lost writers, S3 requests that land late | a selected source is retained, what is recorded as collected is gone, a repeated upload is answered |
| Candidate collection (`sqlite-control-store.ts`, `src/adapters/revisions/`) | candidate rows, writers, permits, Git references and tombstones, cleanup jobs | begin and finish write, claim, verify, delete, complete | deletion racing a writer, an acceptance, a pin or a second collector; crashes between tombstone and deletion | accepted content is never deleted, a collected candidate never returns |
| Storage migration (`src/application/migrations/storage.ts`, `sqlite-control-store.ts`) | binding, migration operation, verified copies, pins | backup, claim, copy, switch, recover, release, fail | drain racing new runs, stale copies, take-over | every retained revision is readable through the new binding |
| Restore, copy, bundles (`src/application/revisions/restore.ts`, `src/application/workspaces/admin/`) | restore operation, copy pins, private journal, bundle records and payloads | pin, create, restore, complete, export, upload, import | crash between creation and restore, take-over, interrupted payload writers | a copy lands once, its source is held until the copy is decided, a ready bundle is complete |
| Workspace creation (`src/application/workspaces/create.ts`) | creation operation, workspace | claim, accept, fail | crash between initial revision and acceptance | one workspace per creation |
| Legacy adoption (`src/application/migrations/adoption.ts`, `src/adapters/control/legacy-inventory.ts`) | adoption record, claim, backup files, target candidates | inspect, claim, back up, copy, read back, install | a source that changes between reads, controllers that die and take over | what is installed is what was reviewed |
| Access policy (`src/adapters/access/`) | credentials, grants, epochs | authorize, update | check before use | stale authority never publishes |
| Maintenance scheduler (`src/application/maintenance/index.ts`) | timer, in-flight pass, scan cursors | tick, start, stop | fairness between kinds of work under one budget | every kind of work is eventually served |
| Client sessions (`sdk/typescript`, `sdk/python`, `sdk/php`, `mcp`) | local journal, local files, MCP handle | open, hydrate, capture, upload, seal, finalize, checkpoint, abort, cleanup, reconcile | lost responses, late requests, process restarts | a command is repeated with the same key until its outcome is known, no run is left behind, files are removed only when safe |
| Sandbox sessions (`src/services/sandbox.service.ts`, `src/compat/`) | session and checkpoint journals, captures with owners, a directory | checkout, commit, destroy | the server dies between two journal writes, other clients publish | a checkpoint is published once, a destroyed session owns nothing |
| Legacy Git projection (`src/compat/git-projection.ts`, `src/storage/`) | a Git mirror, lock file | project | – | follows accepted history |
| Legacy services, HTTP routes, CLI, reads | – | parsing, formatting, cryptography, streaming | – | – |

Components meet in the catalog: a worker and maintenance call it and share no other mutable state
than the revision store and the submission store, whose contents are immutable once durable. A
catalog command is one `BEGIN IMMEDIATE` transaction.

`PROJECT.json` lists the components with their status, the hazards with their source lines, and which
definition stands for which lines.

## Modules

| Module | Models |
|---|---|
| `WorkspaceHistory` | the abstract promise: a chain of accepted revisions, a run decided at most once |
| `Publication` | catalog commands on runs, operations and the selected submission, the worker `processOperation`, recovery, authority and status changes |
| `Outbox` | delivery of one event by several processes |
| `CandidateCollection` | storing and collecting one candidate revision in the Git store by several processes |
| `CollectionScan` | cleanup jobs and the rotating scan that chooses what to collect |
| `Submission` | uploads, seal, expiry and byte deletion of one submission, local and S3 |
| `StorageMigration` | moving a workspace to another binding while it is used |
| `Bundles`, `WorkspaceCopy` | payloads of bundles; clone and import on top of them, with creation and restore |
| `LegacyAdoption` | installing a legacy workspace from a source that may change |
| `SessionService` | the server and the network as one client session meets them |
| `SessionJournal` | the state and helpers all client libraries share |
| `TypescriptSession`, `PythonSession`, `PhpSession`, `McpSession` | one client each; `McpSession` composes the TypeScript session with its handle |
| `ClientSessions` | a session of one library, its agent and the service together |
| `SandboxSession` | checkout, checkpoints and destruction of a colocated sandbox |
| `MC...` | symmetry sets and structured constants for TLC |
| `PublicationProofs`, `SubmissionProofs`, `StorageMigrationProofs`, `WorkspaceCopyProofs`, `LegacyAdoptionProofs`, `SandboxSessionProofs`, `ClientSessionProofs` | theorems about the module in the name |
| `MaintenanceProofs` | theorems about what the maintenance tick runs: Outbox, CandidateCollection and CollectionScan |

A name in a module is the name of the function or method it stands for. Outbox and CollectionScan
prefix `Init`, `Next`, `Spec` and the like with their own name, because `MaintenanceProofs` extends them
together. A definition that PROJECT.json lists as a mutant (in most modules its comment starts with
`Mutant:`) is a plausible bug, kept to show that a property notices it; no specification uses it.

### Publication

One action per catalog command; between two calls a worker is at one of its awaits
(`worker[w].step`), with what it read before kept in its record. The correspondence:

* `openRun`, `renewRunLease`, `abortRun`, `claimFinalization` are the client's commands,
  `createSubmission` and `sealSubmission` the upload (content is a digest).
* `startProcessing`, `authorize`, `readSource`, `prepare`/`prepareFails`, `renewProcessingClaim`,
  `recordPreparedRevision`, `bindRun`, `acceptRevision`/`completeReadOnly`/`acceptRefused`,
  `reconcile`, `failFinalization` follow `processOperation` line by line, with `crash` at every await.
* `expireActiveRun`, `expireSubmission`, `claimSubmissionCollection`, `claimRecovery` are
  maintenance; `transitionWorkspaceStatus` and `updateAuthority` administration.

Abstractions:

* A run has at most one finalize operation, one candidate and one revision, so its identity names
  all of them. `submission[r]` is the submission the run selects; a run's other submissions never
  reach publication.
* Time is which deadlines have passed. A deadline may pass at any moment after it was set, which
  covers every configuration of the durations.
* The codes with which the catalog refuses a late worker (`INVALID_TRANSITION`, `VERSION_CONFLICT`,
  `STALE_FENCE`) are all non-terminal and are treated alike; the model calls them `STALE_FENCE`.
* The identity a permit carries includes the credential's version and the permission epoch, and every
  authority update advances the epoch; `permit(r)` compares the epochs.

Bounds: `MaxWorkspaceVersion` (status changes), `MaxEpoch` (authority updates), `MaxLeaseVersion`
(heartbeats), `MaxFence` (claims per operation), `MaxOperationVersion` (renewals). The last permitted
claim neither dies nor outlives its claim: otherwise the bound, and not the code, would decide that
nobody recovers it.

### Outbox

`claimOutbox`, `listDueOutboxRecipients`, `recordDelivery` and `releaseOutboxClaim` are the catalog
commands, `deliver` the HTTP request. Any answer may be lost after the endpoint accepted. The scan that
precedes a claim is part of the claim, because the claim compares the scanned version again. A broken
endpoint is retried for ever, with no limit on attempts or claims, and the model does the same; so
nothing in its state counts them. A receipt's `updatedAt` only orders recipients by their last attempt:
`triedBefore[s]` are those tried before `s` was. Fences and versions are only compared for equality:
`event.holder` is the process whose fence is the event's, `event.versionKnownTo` who has seen the stored
version. The batch is a set, served in that order. Payload formats and signatures are left out.
A deleted webhook's identity never returns, as in the code, where identities are random.
Bounds: a working endpoint accepts at the latest at attempt `MaxAttempts` (`attempts` is not counted
beyond it), and `MaxLapses` times a process crashes or its claim expires while it works; after them the
processes are calm, which the liveness property needs. Nothing bounds a broken endpoint.

### CandidateCollection

Publication takes the revision store's promise for granted; this module looks inside. It follows one
candidate: the worker of each claim of its operation (`worker[f]`), the catalog's writer record of
each claim (`writer[f]`), the candidate's latest permit (`candidate`), the two references and the
tombstone in the private repository (`git`), and one collector per process (`collector[p]`).

* `inspectCandidate`/`verifyCandidate`, `beginCandidateWrite`, `prepareOwned`, `finishCandidateWrite`,
  `recordPreparedRevision`, `acceptRevision`, `reconcile` are the awaits of `processOperation` that
  touch the candidate; `interrupted` stands for every other way it stops.
* `claimCandidateCollection`, `completeCandidateCollection` and the operators `collectable`,
  `writersStopped`, `current` are the catalog's commands and checks.
* `deleteCollectible`, `lookupTombstone`, `joinTombstone`, `readReferences`, `verifyCollectionPermit`,
  `createTombstone`, `removeCollectedRefs`, `deleteRefs` are the steps of the Git store's
  `deleteCollectible`, one per await; each `git update-ref` transaction is atomic.
* `dies` ends a process at any await. A `git` child it had started may still commit (`orphanCommits`).

Abstractions:

* The outcome of acceptance is a choice (published, unchanged, refused): its rules are Publication's.
  An accepted revision stays accepted.
* The store verifies a permit with the time at which deletion started
  (`verifyCollectionPermit(permit, now)`), so only a newer permit, and not the clock, makes that check
  fail; entering and completing look at the clock.
* Without any writer record only the process that owned the decided operation can say that no write
  began (`areCandidateWritersStopped`). If it dies, or a writer dies without finishing, the candidate is
  kept. That is the documented policy (`docs/ARCHITECTURE.md:125`, "Expiry alone does not prove writer
  death.") and the exception `unprovable` of `RejectedIsCollected`.
* Retention by restores, bundles and migrations and the S3 revision store are left out; the scan that
  picks the candidate is CollectionScan.

Bounds: `MaxFence` claims, `MaxCollections` permits. The last permit does not expire and one process
stays alive; otherwise the bound would decide that nobody collects.

### CollectionScan

A tick (`tick`, one process) asks `nextCollectionWork` for the next piece of work in the stored position
(`scan`: lane and three cursors), collects it or works one page of a cleanup job, and stops when its
budget is used. Other processes take turns (`otherTurns`) and die. `Poison` targets can never be
deleted. A collection is one step here: its parts are the other two modules. Bounds: five targets, two
jobs, a batch of two, so that no page holds a job's targets and no tick all lanes.

### Submission

A `writeFile` call is one action per durable effect: begin the write in the catalog, store bytes and
receipt (staged and renamed locally, put one by one in S3), register, finish the writer. `seal` verifies
what it selects. A collector claims a permit, lists attempts from the stored cursor, marks, erases and
records progress. Calls and collectors die anywhere; an S3 request may be reported as failed and land
later (`late`, `landsLate`), which is why such a call leaves its writer active (`withStoppedWriter`).
The local marker can be torn (`createMarker` without `fillMarker`): the next collector refuses it for
ever, as the code does. Liveness of byte deletion is therefore not stated.
Bounds: one key used by two calls, two collectors, two permits, one registration retry.

### StorageMigration

The controllers (`transfer`, one per operator process) follow `StorageMigrationService.transfer`: claim or take
over, catalog capture, archive, copies, read-back, switch. `user` are runs, restores, copies and
exports, which record the place of the revision they use when they begin. A run or a restore ends with
or without a revision, a copy when its outcome in the other workspace is recorded (`copyDecided`), an
export only by `completeBundle`. `fresh` stands for the version and fence compare of every command.

The source is a Git store, which retains a revision or not; the target is an S3 store, where a candidate
is `intent.json` with its alias, the files and `prepared.json`, put in this order. A put is one action. It
can fail without an answer and land later: the writer record of such a put stays active (`late`,
`landsLate`), as `beginCandidateWrite` and `finishCandidateWrite` have it. A controller that takes over, or
goes on under its own claim, finds what is there and completes it; the read-back compares all objects.
Candidates of a migration are never collected, because their revision is a retained one
(`sqlite-control-store.ts:1701-1724`), so CandidateCollection does not interfere. Bounds: two users, two
controllers, two revisions, two faults (lapsed claims, deaths, transient errors).

### Bundles and WorkspaceCopy

`CallerNext` is the call that copies (pin, journal, creation, restore, completion), under the lock of its
journal; `Process(p)` the worker of either operation in the caller's process or in maintenance;
`claimRecovery` and `claimLapses` the take-over. Someone else may publish in the new target, and
authority may go. In Bundles every payload writer holds the bundle's operating-system lock and dies with
a partial payload. Bounds: three claims per operation, two faults, two payloads.

### LegacyAdoption

`source[f]` are the bytes of the repository and of the metadata files, with whether they still say what
the operator reviewed; `legacyWrites` changes them at any time, so a file can be changed and changed
back. The controllers follow `adopt`: inspect, claim or recover, back up, copy each commit, read back,
inspect again, back up again, install. Blocking issues of the inventory are a set. Bounds: two
controllers, two commits, two writes, two faults.

### Client sessions

`SessionService` answers a keyed command once and repeats its answer; a refusal leaves no record. A
request that a client gave up on stays in `late` and may be accepted much later. `SessionJournal` has the
journal, the files and the call in progress; each library module has its own order of journal writes and
requests, because the order differs: the Python library journals a workflow phase (`_advance`), the PHP
library drives a list of steps (`drive`), the TypeScript library dispatches and captures once, and the MCP
server blocks a handle while a mutation is unsettled and holds a marker file during every call, which a
dead process leaves to an explicit `recover`. Every step ends with a save, so a process that died
is a call that ends, and whoever reconciles goes on from the journal. Bounds: two contents, two runs, two
faults, heartbeats started before the first fault, a submission only while the session can still open
a run; keys are reused when no request carries them any more.

### SandboxSession

One call at a time (`call`) goes through checkout, commit or destroy, one action per journal write or
server command; `interrupted` ends it anywhere. Run `k` is the one that checkpoint `k` reopens, since
the key of the command decides which it is. A directory that is gone cannot be scanned, so a commit
that still has to capture it ends there. `LateRepeats = FALSE`: the host uses keys in order. With
`TRUE`, a repeat of an old key after a crash between the two journal writes of
`sandbox.service.ts:129-131` moves the session back to an older run; see the hazards.

## Runs

| Run | Instance | Shows |
|---|---|---|
| `publication_race` | two runs, two workers, two claims per operation | `LinearHistory` (no lost update), `OutcomeAgreement`, `AcceptedContent`, refinement of `WorkspaceHistory` |
| `publication_recovery` | one run, two workers, two claims, renewals, revocation, suspension, submission expiry | `SourceRetained`, `OutcomesAreFinal`, `PublishedUnderAuthority`, `FinalizationDecided`, `OpenedRunEnds` |
| `outbox` | a working and a broken endpoint, two processes, one delivery per tick | `CompleteMeansDelivered`, `NoRedeliveryUnderClaim`, `HealthyRecipientServed` |
| `candidate_collection` | two processes, two claims, two permits | `AcceptedIsRetained`, `CollectedIsGone`, `MarkMeansStopped`, `RetirementIsFinal`, `RejectedIsCollected` |
| `maintenance_scan` | three candidates, two submissions, two jobs, one target that cannot be deleted | `CompleteMeansCollected`, `HealthyTargetCollected` |
| `submission` | both stores, two calls with one key, two collectors, two permits | `SourceIsStored`, `ReplayIsAnswered`, `CollectedIsErased` |
| `storage_migration` | two users, two controllers, two revisions | `HistoryIsReadable`, `UsersKeepTheirSource`, `CutoverIsBackedUp`, `TransferIsDecided` |
| `workspace_copy` | clone and import, three claims per operation | `CopyLandsOnce`, `SourceHeldUntilDecided`, `ReadyBundleIsComplete`, `SourceIsReleased` |
| `legacy_adoption` | two controllers, two commits, two writes to the source | `AdoptedIsReviewed`, `AdoptionCompletes` |
| `client_sessions` | each of the four clients, two runs, two faults | `LiveRunIsOwned`, `SealedIsCaptured`, `ReadyIsTheBase`, `CleanupIsSafe`, `AcceptedIsLearned` |
| `client_cleanup` | the MCP client, one fault | **violates** `EndedSessionIsCleaned` |
| `sandbox_session` | two checkpoints, one foreign publication, two faults | `DestroyedOwnsNothing`, `CheckpointPublishedOnce`, `SessionEnds` |

`client_cleanup` is a finding. `mcp/README.md` says that `cleanup_workspace` removes the files after a
known terminal result. A finalize or checkpoint that finds its run expired throws with its workflow
still saved, and so does every reconcile after it; the handle stays blocked and cleanup is refused for
ever, although the session knows that its run expired.

Why the bounds are enough: two runs suffice for a race, because a publication compares one base with one
head. Two workers and two claims give every zombie/owner pair. Two digests distinguish a changed from an
unchanged snapshot. One working and one broken recipient with a batch of one give every order in which
one can take the other's turn, as often as it likes because the broken one always becomes due again. Two
processes and two permits give collectors that share a permit,
replace one another and die between tombstone and removal; two calls with one key give a repeated
upload at every point of the first and of the deletion. Two controllers and two faults give a
take-over and the return of the controller that was given up. Two runs of a client session give a
checkpoint with its reopening and a late opening of the first. What an instance cannot show, the
theorems show for all of them where there are some.

Deadlock checking is off where everything may be over: all runs decided, an event complete, a transfer
decided, a session destroyed. `maintenance_scan` checks it, because a scheduler never stops.

### Fairness

Workers are asynchronous functions that a live process runs to completion (`processOperation`,
the outbox pass, `deleteCollectible`), and maintenance re-arms its timer after every tick (`start`,
`src/application/maintenance/index.ts`), so worker steps, collector steps, expiry, recovery and claims are weakly fair. A
deadline passes because it is a point in time; a claim is only required to lapse when its process is
gone, since a live one renews or finishes first. In Publication, Outbox, CandidateCollection and
CollectionScan clients, administrators, failures and crashes have no fairness.

Where the code leaves the initiative to a caller, its progress is a promise to a caller who repeats, and
the specification says so: the operator repeats the transfer or the adoption with the same command
(StorageMigration, LegacyAdoption), the caller repeats the copy (WorkspaceCopy), someone reconciles an
unsettled client session (`Reconcile`), the host repeats the pending checkpoint and in the end abandons
the sandbox (strongly fair, because a call in progress disables both again and again). Faults are
counted and finite; without that no retry need ever succeed.

In StorageMigration runs and restores are decided by maintenance (expiry, `listRecoverableOperations`),
so their end is fair. Copies and exports are not: no expiry or recovery settles an export in `preparing`
(`completeBundle` is its only way out, and the scan may refuse every repeat) or a copy whose caller
is gone. `docs/quickstart/operations.md:75` has the operator settle them before a transfer. So
`TransferIsDecided` is claimed from the moment on when none of them is open, which stays so because
none begins during a transfer; one that is never settled holds up a transfer for ever.

## Theorems

All of them hold for every value of the constants that satisfies the assumptions at the end of this
section: any number of runs, workers, processes, subscriptions, calls, collectors, revisions, commits,
payloads, checkpoints, and any bound on claims, permits and faults. Each proof module has
its inductive invariant, lemmas that say what groups of actions do, and the theorems. `TypeCorrect`,
in MaintenanceProofs `OutboxTypes` and `CandidateTypes`, is type correctness; in ClientSessionProofs the
types are part of the invariant.

**PublicationProofs**

* `OutcomesAgree` (`OutcomeAgreement`): inductive with the types. The proof first shows that every step
  is *quiet* or one of six deciding steps (`Effects`), and what each of these does.
* `HistoryIsLinear` (`LinearHistory`): needs `OutcomeAgreement`, which says that a run about to publish
  is not yet part of history; its base is the head, which has no child.
* `VersionsPinHeads` (`VersionPinsHead`): inductive with the types; the version grows with every
  change of head or status.
* `SourcesAreRetained` (`SourceRetained`): needs `OutcomeAgreement`, because expiry and collection look
  at the operation while selection looks at the run.
* `AcceptedIsSealed` (`AcceptedContent`): not inductive, because acceptance trusts what the worker
  remembers. `CandidateStored` adds that a candidate known to an operation or to any worker, late ones
  included, is durable as they know it.
* `OutcomesStayFinal` (`OutcomesAreFinal`) and `HeadMovesUnderAuthority` (`PublishedUnderAuthority`):
  action properties, from what each step does to runs, operations and candidates (`runMoves`,
  `operationMoves`, `preparedMoves`) and from `HeadMoves`: only acceptance moves the head.
* `CatalogImplementsHistory` (`ImplementsHistory`): initial states and every step refine
  `WorkspaceHistory`.

**MaintenanceProofs**

* `CompletionIsSound` (`CompleteMeansDelivered`): the strengthening `DeliveryInv` adds that recipients
  are frozen before anybody works, that processes work on frozen recipients only, and that an
  acceptance a process brings was received.
* `RedeliveryExcluded` (`NoRedeliveryUnderClaim`): `ClaimInv` adds that processes only work on an
  event with frozen recipients, and that a process has taken out of its batch what it sends, so that a
  success that it records is not in the rest. That at most one process has the event's fence is not
  proved but modelled, since each claim takes a fence of its own (`event.holder`).
* `AcceptedRetained`, `CollectedGone`, `WritersStopped`, `RetirementFinal` (an action property): none of
  the properties is inductive alone. The invariant `IInv` says that the first permit was given to a decided,
  unaccepted candidate without active writers (`Marked`) and that permits and tombstones exist only
  under that mark (`UnderMark`); that whoever may store bytes, orphaned git children included, has an
  active writer record (`WritersHeld`), so that marks exclude writers; that whoever believes the
  candidate stored is right, or a tombstone explains its absence (`Durable`); and that every collector's
  belief about tombstone and references is stable (`Buried`, `Collecting`). `GitKeeps`, the lemma on
  what no step does to the repository, carries most of the argument.
* `CompleteCollected` (`CompleteMeansCollected`): inductive with little more than the domain of the
  cleanup records. `EmptyPageMeansNothingLeft` carries it: a page of one target from the start of a job
  is empty only when the job has no target left, because a nonempty set of numbers has a least element
  (`FirstTarget`, from the well-foundedness of the naturals in the library). A step that collects takes
  targets away and never gives one back (`CollectedKeeps`), and a step on one job completes it only in
  `settled` (`SettledIsComplete`).

**SubmissionProofs**

* `SourceStored`, `ReplayAnswered`, `CollectedErased`: conjuncts or consequences of one invariant,
  `SubmissionInvariant`. Its centre is `Phases`, that the first permit finds the submission expired and
  without an active writer and that it stays so, and `Writers`, that whatever is stored, staged or in
  flight belongs to an active writer record. Together they exclude that a late S3 request lands after a
  permit. `Erased` follows the cursor row by row, `Replays` says that a receipt without bytes has a
  whole mark.

**StorageMigrationProofs**

* `HistoryReadable`, `UsersServed`, `CutoverBackedUp`: `MigrationInvariant` adds that what is recorded as
  copied, or is about to be, is whole in the target store (`CopiesAreWhole`), although its objects arrive
  one by one and some late; that a controller that reached the cutover has verified a backup of the
  history it read (`SwitchIsBackedUp`); and that an open user recorded a retained revision in the
  binding that the workspace still has (`UsersAreBound`), which is what draining is for.

**WorkspaceCopyProofs**

* `CopyLanded`, `SourceHeld`, `BundleComplete`: `CopyInvariant` adds that the target exists only after its
  creation was accepted, that a restore that succeeded has published, that completion is reported only
  after it, and that the holder of the payload lock writes what the bundle selected
  (`WriterFollowsSelection`).

**LegacyAdoptionProofs**

* `AdoptionReviewed` (`AdoptedIsReviewed`): the source can be changed and changed back between any two
  looks. `BackupIsPast` says that a backup file is a state the source went through, and `CallKnows` what
  each later step may conclude: after the second inspection the backup is the reviewed content *if* the
  source still has its bytes (`SeenReviewed`), and the second backup, which compares every file with the
  source, removes the condition.

**SandboxSessionProofs**

* `PublishedOnce` (`CheckpointPublishedOnce`): `PublicationInvariant` ties the four records together: the
  key of a run is the one checkpoint that finalizes it (`KeyNamesRun`), a saved checkpoint names run and
  content of its capture (`CheckpointIsCaptured`), and the revision of a checkpoint is the one after the
  base of the run it finalized (`RevisionFollowsBase`), so that a second one has no place. It holds also
  when the host repeats old keys.
* `DestroyedLeavesNothing` (`DestroyedOwnsNothing`), under `~LateRepeats`: without that hypothesis the
  statement is false (see the hazards). `OwnershipInvariant` says that the session is on the run of its
  latest checkpoint or on the one it reopened (`SessionIsLatest`), and that every live run is the
  session's, the unrecorded one of an interrupted checkout, or the reopened one of the pending
  checkpoint (`LiveIsKnown`): these are the runs that `destroySandbox` finds by the keys of their
  commands.

**ClientSessionProofs**

One invariant, `SessionInvariant` (`InvariantHolds`), for a session of any of the four libraries.

* What holds for every library (`SharedInvariant`): at most one run can be live, the one that the journal
  names or the answer to its pending open command (`RunsInOrder`, `OpeningIsNext`); a request on its way
  repeats a settled command or the pending one, so that its late arrival changes nothing
  (`LateIsHarmless`); a command that was never sent has no answer (`UnsentIsUnknown`); the call in progress
  belongs to the pending command (`CallIsPending`), which fits run and submission of the journal
  (`CommandFits`); and what is sealed for the run is what was captured (`Captured`). `FewLate` counts the
  requests on their way against the faults left: it is what guarantees that a new command finds an
  unused key (`FreeKey`).
* What one library knows (`TypescriptKnows`, `PythonKnows`, `PythonPublishes`, `PhpKnows`), because their orders
  of writes differ: which phases have a run, which follow its end, and before which nothing was
  sealed. `PythonPublishes` is needed for `ReadyIsTheBase` alone: the library reuses its own published
  files, and these must be the base of the run that it reopened.
* The proof first says what an accepted command and a step of the service do to a run (`RunStep`,
  `RunsMove`), then that a step of a library leaves the server alone and changes the journal in one of a
  few ways, then takes the actions of each library one by one. The libraries are instances, which
  have the shared operators under names of their own; one lemma for each identifies them.
* `LiveRunsAreOwned` (`LiveRunIsOwned`) and `SealedContentIsCaptured` (`SealedIsCaptured`) follow from
  the invariant. `CleanupsAreSafe` (`CleanupIsSafe`) and `ReadyTreesAreTheBase` (`ReadyIsTheBase`) are
  action properties: `TreeStep` divides the steps of all libraries into those that leave the tree
  alone, those that remove it, and those that replace it by the base.

Assumptions on constants: `Root` and `NoRun` are no runs, `EmptyDigest` is a digest and `NoDigest`
none, `Broken` are subscriptions and `Nobody` is neither a subscription nor a process, there is a controller (StorageMigration,
LegacyAdoption), `NoPayload` is no payload (Bundles), calls of a submission are finitely many and
numbered (their rows are listed in order), targets and jobs of the scan are positive numbers with the
candidates before the submissions, as the cursors sort them, the initial content of a sandbox is a
content, a session has some content to work on and is one of the four libraries, bounds are naturals, and there is at least one revision, commit, key of an upload and claim.

`VersionsPinHeads` and the type theorems state properties that no run repeats; the proofs cover every
instance.

Only model-checked:

* liveness under fairness, in every module (`FinalizationDecided`, `OpenedRunEnds`,
  `HealthyRecipientServed`, `RejectedIsCollected`, `HealthyTargetCollected`, `TransferIsDecided`,
  `SourceIsReleased`, `AdoptionCompletes`, `AcceptedIsLearned`, `SessionEnds`): out of the prover's reach;
* `EndedSessionIsCleaned`, which the run `client_cleanup` refutes.

Every invariant and every action property that a run checks is a theorem.

## Not modelled

* Reads, streaming, HTTP parsing, the command line, the browser interface, cryptography and the pattern
  scanners change no shared state.
* The services that preceded the catalog (`run`, `lock`, `conflict`, `commit-gateway`) and
  `storage/git-workspace.ts` behind them are called by tests only.
* Parsing legacy formats, the Git projection of accepted history and tree manipulation are I/O without a
  protocol of their own. Collection in the S3 revision store is another
  sequence of requests than CandidateCollection's and is not modelled; how candidates are stored there is
  part of StorageMigration.
* Workspace names, metadata and usage counters; manifest and fingerprint functions over strings.
* SQLite, Git, S3 and the file system are taken to do what the code relies on: serializable
  transactions, durable and content-addressed objects, atomic rename, locks that die with their
  process. S3 is allowed to execute a request late.

## Plan

Collection in the S3 revision store, as a module beside CandidateCollection with the same properties.
