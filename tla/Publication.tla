----------------------------- MODULE Publication -----------------------------
(***************************************************************************)
(* Runs, finalization and publication of one workspace: the catalog        *)
(* (SqliteControlStore), the worker that drives a claimed finalization     *)
(* (processOperation) and the maintenance that expires runs and recovers   *)
(* operations.                                                             *)
(*                                                                         *)
(* Every catalog command is one IMMEDIATE SQLite transaction, so it is one *)
(* action here.  A worker awaits between its catalog calls; every await is *)
(* a step of its own, and what it read before is kept in worker[w].        *)
(*                                                                         *)
(* A run has at most one finalize operation and one candidate revision,    *)
(* so the run identity also names its operation, candidate and revision.   *)
(* Time is abstracted to which deadlines have passed: a deadline may pass  *)
(* at any moment after it was set, whatever the configured durations are.  *)
(***************************************************************************)
EXTENDS Naturals

CONSTANTS Runs,              \* identities of the runs that may be opened
          Workers,           \* processOperation invocations that may be alive at once
          Digests,           \* manifest digests
          Root,              \* the initial accepted revision
          EmptyDigest,       \* digest of its (empty) manifest
          NoDigest,          \* "no digest yet"
          NoRun,             \* what an idle worker works on
          MaxWorkspaceVersion, MaxEpoch, MaxLeaseVersion, MaxFence, MaxOperationVersion

ASSUME IdentityAssumption == Root \notin Runs /\ NoRun \notin Runs
ASSUME DigestAssumption == EmptyDigest \in Digests /\ NoDigest \notin Digests
ASSUME BoundAssumption ==
    /\ MaxWorkspaceVersion \in Nat /\ MaxEpoch \in Nat /\ MaxLeaseVersion \in Nat
    /\ MaxFence \in Nat /\ MaxOperationVersion \in Nat

VARIABLES workspace,   \* the workspace record
          authority,   \* the credential under which the runs act
          run,         \* the run records
          operation,   \* the finalize operation of each run
          submission,  \* the submission record of each run
          accepted,    \* the revisions in accepted history
          revision,    \* the contents of the revision records
          cleanup,     \* the runs that have a cleanup job
          outbox,      \* the lifecycle events recorded for each run
          prepared,    \* candidate content in the revision store
          worker       \* the state of each worker between two awaits

catalog == <<workspace, authority, run, operation, submission, accepted, revision, cleanup, outbox>>
vars == <<workspace, authority, run, operation, submission, accepted, revision, cleanup, outbox, prepared, worker>>

-----------------------------------------------------------------------------
(* Records *)

Revisions == Runs \cup {Root}
TerminalStates == {"finalized", "aborted", "conflicted", "failed", "expired"}
RunStates == {"unopened", "active", "finalizing"} \cup TerminalStates
Modes == {"read-only", "read-write"}
Deadlines == {"live", "expired"}
Codes == {"none", "CREDENTIAL_REVOKED", "FORBIDDEN", "WORKSPACE_INACTIVE", "REVISION_CONFLICT",
          "RECEIPT_MISMATCH", "INVALID_MANIFEST", "SUBMISSION_SEALED", "STALE_FENCE",
          "STORAGE_UNAVAILABLE"}
\* Mutant: a revoked credential is taken for a transient failure.
terminalFailuresPartial == {"FORBIDDEN", "REVISION_CONFLICT", "WORKSPACE_INACTIVE",
                            "INVALID_MANIFEST", "RECEIPT_MISMATCH"}

\* The codes that decide a run.  Every code the catalog refuses a late worker with
\* (INVALID_TRANSITION, VERSION_CONFLICT, STALE_FENCE) is not one of them: the
\* model calls them all STALE_FENCE.
terminalFailures == {"FORBIDDEN", "CREDENTIAL_REVOKED", "REVISION_CONFLICT", "WORKSPACE_INACTIVE",
                     "INVALID_MANIFEST", "RECEIPT_MISMATCH"}

Steps == {"idle", "start", "authorize", "source", "prepare", "record", "bind", "accept",
          "reconcile", "fail"}

WorkspaceRecord == [status: {"active", "suspended", "deleted"}, version: Nat, head: Revisions]
AuthorityRecord == [epoch: Nat, grants: {"held", "revoked"}]
RunRecord == [state: RunStates, version: Nat, mode: Modes, epoch: Nat, base: Revisions,
              workspaceVersion: Nat, leaseVersion: Nat, lease: Deadlines]
OperationRecord == [state: {"absent", "processing", "succeeded", "failed"}, version: Nat,
                    fence: Nat, claim: Deadlines, submissionVersion: Nat,
                    digest: Digests \cup {NoDigest}, candidate: Digests \cup {NoDigest}]
SubmissionRecord == [state: {"absent", "uploading", "sealed", "expired"}, version: Nat,
                     digest: Digests \cup {NoDigest}, retention: Deadlines]
RevisionRecord == [parent: Revisions, digest: Digests]
WorkerRecord == [step: Steps, run: Runs \cup {NoRun}, fence: Nat, version: Nat,
                 runVersion: Nat, candidate: Digests \cup {NoDigest}, error: Codes]

NewRun == [state |-> "unopened", version |-> 0, mode |-> "read-only", epoch |-> 0, base |-> Root,
           workspaceVersion |-> 0, leaseVersion |-> 0, lease |-> "live"]
NewOperation == [state |-> "absent", version |-> 0, fence |-> 0, claim |-> "live",
                 submissionVersion |-> 0, digest |-> NoDigest, candidate |-> NoDigest]
NewSubmission == [state |-> "absent", version |-> 0, digest |-> NoDigest, retention |-> "live"]
IdleWorker == [step |-> "idle", run |-> NoRun, fence |-> 0, version |-> 0, runVersion |-> 0,
               candidate |-> NoDigest, error |-> "none"]

TypeOK ==
    /\ workspace \in WorkspaceRecord
    /\ authority \in AuthorityRecord
    /\ run \in [Runs -> RunRecord]
    /\ operation \in [Runs -> OperationRecord]
    /\ submission \in [Runs -> SubmissionRecord]
    /\ \A r \in Runs : submission[r].state = "sealed" => submission[r].digest \in Digests
    /\ accepted \in SUBSET Revisions
    /\ revision \in [Revisions -> RevisionRecord]
    /\ cleanup \in SUBSET Runs
    /\ outbox \in [Runs -> SUBSET RunStates]
    /\ prepared \in [Runs -> Digests \cup {NoDigest}]
    /\ worker \in [Workers -> WorkerRecord]
    /\ \A w \in Workers : worker[w].step # "idle" => worker[w].run \in Runs

\* The workspace has been created: its initial revision is accepted and current.
Init ==
    /\ workspace = [status |-> "active", version |-> 1, head |-> Root]
    /\ authority = [epoch |-> 1, grants |-> "held"]
    /\ run = [r \in Runs |-> NewRun]
    /\ operation = [r \in Runs |-> NewOperation]
    /\ submission = [r \in Runs |-> NewSubmission]
    /\ accepted = {Root}
    /\ revision = [v \in Revisions |-> [parent |-> Root, digest |-> EmptyDigest]]
    /\ cleanup = {}
    /\ outbox = [r \in Runs |-> {}]
    /\ prepared = [r \in Runs |-> NoDigest]
    /\ worker = [w \in Workers |-> IdleWorker]

-----------------------------------------------------------------------------
(* Catalog checks *)

\* The principal that opened r is still the credential's current version and
\* still holds its grants.  Every authority update advances the epoch, so this
\* is also the check that an authorization taken earlier is still current.
permit(r) == authority.grants = "held" /\ run[r].epoch = authority.epoch

\* Mutant: a client command does not look at the lease.
activeWhateverLease(r) == run[r].state = "active"

\* Mutant: a client command does not look at the lifecycle state.
activeWhateverState(r) == run[r].state # "unopened" /\ run[r].lease = "live"

active(r) == run[r].state = "active" /\ run[r].lease = "live"

\* A client command on an active run of an active workspace.
clientCommand(r) == workspace.status = "active" /\ permit(r) /\ active(r)

\* The processing compare-and-swap: current fence, live claim, known version.
processing(w) ==
    LET o == operation[worker[w].run] IN
    /\ o.fence = worker[w].fence
    /\ o.state = "processing"
    /\ o.claim = "live"
    /\ o.version = worker[w].version

\* A processing finalization selects the sealed submission of r.
selected(r) == operation[r].state = "processing" /\ run[r].mode = "read-write"

\* Mutant: the submission of a finalization may be collected when it has lapsed.
submissionCollectableOnceLapsed(r) ==
    submission[r].retention = "expired" \/ run[r].state \in TerminalStates

\* Bytes that nothing can still need: past their deadline or their run's end,
\* and not the source of a processing finalization.
submissionCollectable(r) ==
    /\ submission[r].retention = "expired" \/ run[r].state \in TerminalStates
    /\ ~selected(r)

\* The sealed submission is still the one named in the finalization intent.
sourceMatches(r) ==
    /\ submission[r].state = "sealed"
    /\ submission[r].version = operation[r].submissionVersion
    /\ submission[r].digest = operation[r].digest

\* The terminal part shared by every outcome: run, cleanup job, lifecycle event.
endRun(r, s) ==
    /\ run' = [run EXCEPT ![r].state = s, ![r].version = @ + 1]
    /\ cleanup' = cleanup \cup {r}
    /\ outbox' = [outbox EXCEPT ![r] = @ \cup {s}]

-----------------------------------------------------------------------------
(* Client and administrator commands *)

openRun(r, mode) ==
    /\ run[r].state = "unopened"
    /\ authority.grants = "held"
    /\ workspace.status = "active"
    /\ run' = [run EXCEPT ![r] =
                 [state |-> "active", version |-> 1, mode |-> mode, epoch |-> authority.epoch,
                  base |-> workspace.head, workspaceVersion |-> workspace.version,
                  leaseVersion |-> 1, lease |-> "live"]]
    /\ outbox' = [outbox EXCEPT ![r] = @ \cup {"active"}]
    /\ UNCHANGED <<workspace, authority, operation, submission, accepted, revision, cleanup,
                   prepared, worker>>

renewRunLease(r) ==
    /\ clientCommand(r)
    /\ run[r].leaseVersion < MaxLeaseVersion
    /\ run' = [run EXCEPT ![r].leaseVersion = @ + 1]
    /\ UNCHANGED <<workspace, authority, operation, submission, accepted, revision, cleanup,
                   outbox, prepared, worker>>

abortRun(r) ==
    /\ clientCommand(r)
    /\ endRun(r, "aborted")
    /\ UNCHANGED <<workspace, authority, operation, submission, accepted, revision, prepared,
                   worker>>

createSubmission(r) ==
    /\ clientCommand(r)
    /\ run[r].mode = "read-write"
    /\ submission[r].state = "absent"
    /\ submission' = [submission EXCEPT ![r].state = "uploading", ![r].version = 1]
    /\ UNCHANGED <<workspace, authority, run, operation, accepted, revision, cleanup, outbox,
                   prepared, worker>>

sealSubmission(r, digest) ==
    /\ clientCommand(r)
    /\ submission[r].state = "uploading"
    /\ submission[r].retention = "live"
    /\ submission' = [submission EXCEPT ![r].state = "sealed", ![r].version = @ + 1,
                                        ![r].digest = digest]
    /\ UNCHANGED <<workspace, authority, run, operation, accepted, revision, cleanup, outbox,
                   prepared, worker>>

\* Step 1 of publication: the run leaves "active" and the exact sealed source is
\* persisted with fence 1.  The claimant, and only it, starts processing.
claimFinalization(w, r) ==
    /\ worker[w].step = "idle"
    /\ clientCommand(r)
    /\ run[r].mode = "read-write" => submission[r].state = "sealed" /\ submission[r].retention = "live"
    /\ run' = [run EXCEPT ![r].state = "finalizing", ![r].version = @ + 1]
    /\ operation' = [operation EXCEPT ![r] =
                       [state |-> "processing", version |-> 1, fence |-> 1,
                        claim |-> "live", submissionVersion |-> submission[r].version,
                        digest |-> submission[r].digest, candidate |-> NoDigest]]
    /\ worker' = [worker EXCEPT ![w] = [IdleWorker EXCEPT !.step = "start", !.run = r, !.fence = 1]]
    /\ UNCHANGED <<workspace, authority, submission, accepted, revision, cleanup, outbox, prepared>>

\* Administrative status change; the version moves although the head does not.
transitionWorkspaceStatus(to) ==
    /\ workspace.status \in {"active", "suspended"} /\ to # workspace.status
    /\ workspace.version < MaxWorkspaceVersion
    /\ workspace' = [workspace EXCEPT !.status = to, !.version = @ + 1]
    /\ UNCHANGED <<authority, run, operation, submission, accepted, revision, cleanup, outbox,
                   prepared, worker>>

updateAuthority(grants) ==
    /\ authority.epoch < MaxEpoch
    /\ authority' = [epoch |-> authority.epoch + 1, grants |-> grants]
    /\ UNCHANGED <<workspace, run, operation, submission, accepted, revision, cleanup, outbox,
                   prepared, worker>>

-----------------------------------------------------------------------------
(* Maintenance *)

\* Mutant: expiry asks for the authority of the client that went away.
expireActiveRunAuthorized(r) ==
    /\ run[r].state = "active" /\ run[r].lease = "expired"
    /\ permit(r)
    /\ endRun(r, "expired")
    /\ UNCHANGED <<workspace, authority, operation, submission, accepted, revision, prepared,
                   worker>>

\* The scanned lease is compared with the stored one inside the transaction, so
\* a renewed run is never expired by an old scan.
expireActiveRun(r) ==
    /\ run[r].state = "active" /\ run[r].lease = "expired"
    /\ endRun(r, "expired")
    /\ UNCHANGED <<workspace, authority, operation, submission, accepted, revision, prepared,
                   worker>>

expireSubmission(r) ==
    /\ submission[r].state \in {"uploading", "sealed"} /\ submission[r].retention = "expired"
    /\ ~selected(r)
    /\ submission' = [submission EXCEPT ![r].state = "expired", ![r].version = @ + 1]
    /\ UNCHANGED <<workspace, authority, run, operation, accepted, revision, cleanup, outbox,
                   prepared, worker>>

\* A collector may retire the bytes of a submission that nothing can still need.
claimSubmissionCollection(r) ==
    /\ submission[r].state \in {"uploading", "sealed"}
    /\ submissionCollectable(r)
    /\ submission' = [submission EXCEPT ![r].state = "expired", ![r].version = @ + 1]
    /\ UNCHANGED <<workspace, authority, run, operation, accepted, revision, cleanup, outbox,
                   prepared, worker>>

nextFence(r) == operation[r].fence + 1

\* An expired claim is taken over under the next fence.
claimRecovery(w, r) ==
    /\ worker[w].step = "idle"
    /\ operation[r].state = "processing" /\ operation[r].claim = "expired"
    /\ operation' = [operation EXCEPT ![r].fence = nextFence(r), ![r].claim = "live",
                                      ![r].version = @ + 1]
    /\ worker' = [worker EXCEPT ![w] = [IdleWorker EXCEPT !.step = "start", !.run = r,
                                                          !.fence = nextFence(r)]]
    /\ UNCHANGED <<workspace, authority, run, submission, accepted, revision, cleanup, outbox,
                   prepared>>

-----------------------------------------------------------------------------
(* processOperation, one action per await *)

at(w, step) == worker[w].step = step

goto(w, step) == worker' = [worker EXCEPT ![w].step = step]

giveUp(w) == worker' = [worker EXCEPT ![w] = IdleWorker]

raise(w, code) == worker' = [worker EXCEPT ![w].step = "reconcile", ![w].error = code]

\* getOperation and assertClaim.
startProcessing(w) ==
    /\ at(w, "start")
    /\ LET o == operation[worker[w].run] IN
       IF o.state # "processing" \/ o.fence # worker[w].fence \/ o.claim = "expired"
       THEN giveUp(w)
       ELSE worker' = [worker EXCEPT ![w] = [@ EXCEPT !.step = "authorize", !.version = o.version,
                                                      !.candidate = o.candidate]]
    /\ UNCHANGED <<catalog, prepared>>

\* The access policy: current authority first, then the workspace status.
authorizeError(r) ==
    IF ~permit(r) THEN "CREDENTIAL_REVOKED"
    ELSE IF workspace.status # "active" THEN "FORBIDDEN"
    ELSE "none"

authorize(w) ==
    /\ at(w, "authorize")
    /\ LET r == worker[w].run IN
       IF authorizeError(r) # "none"
       THEN raise(w, authorizeError(r))
       ELSE goto(w, IF run[r].mode = "read-write" THEN "source" ELSE "bind")
    /\ UNCHANGED <<catalog, prepared>>

readSource(w) ==
    /\ at(w, "source")
    /\ IF sourceMatches(worker[w].run) THEN goto(w, "prepare") ELSE raise(w, "RECEIPT_MISMATCH")
    /\ UNCHANGED <<catalog, prepared>>

\* inspectCandidate, or prepare when the store has no candidate yet.  The store
\* verifies the bytes against the manifest read with the source, and candidate
\* content is immutable once it is durable.
storeCandidate(r) ==
    prepared' = [prepared EXCEPT ![r] = IF @ # NoDigest THEN @ ELSE operation[r].digest]

prepare(w) ==
    LET r == worker[w].run IN
    /\ at(w, "prepare")
    /\ storeCandidate(r)
    /\ IF worker[w].candidate \notin {NoDigest, prepared'[r]}
       THEN raise(w, "RECEIPT_MISMATCH")
       ELSE worker' = [worker EXCEPT ![w].step = "record", ![w].candidate = prepared'[r]]
    /\ UNCHANGED catalog

\* The store refuses the content for good, fails for now (the candidate may have
\* become durable all the same), or finds the sealed bytes retired.
prepareFails(w) ==
    LET r == worker[w].run IN
    /\ at(w, "prepare")
    /\ \/ raise(w, "INVALID_MANIFEST") /\ UNCHANGED prepared
       \/ /\ worker[w].fence < MaxFence
          /\ raise(w, "STORAGE_UNAVAILABLE")
          /\ UNCHANGED prepared \/ storeCandidate(r)
       \/ /\ ~sourceMatches(r) /\ prepared[r] = NoDigest
          /\ raise(w, "SUBMISSION_SEALED") /\ UNCHANGED prepared
    /\ UNCHANGED catalog

\* The renewal timer fires while storage runs.  A refused renewal aborts the work,
\* which may have made the candidate durable by then.
renewProcessingClaim(w) ==
    LET r == worker[w].run IN
    /\ at(w, "prepare")
    /\ \/ /\ processing(w)
          /\ worker[w].version < MaxOperationVersion
          /\ operation' = [operation EXCEPT ![r].version = @ + 1]
          /\ worker' = [worker EXCEPT ![w].version = @ + 1]
          /\ UNCHANGED prepared
       \/ /\ ~processing(w)
          /\ raise(w, "STALE_FENCE")
          /\ UNCHANGED prepared \/ storeCandidate(r)
          /\ UNCHANGED operation
    /\ UNCHANGED <<workspace, authority, run, submission, accepted, revision, cleanup, outbox>>

\* recordPreparedRevision: the candidate of an operation is recorded once.
recordError(w) ==
    LET o == operation[worker[w].run] IN
    IF ~processing(w) THEN "STALE_FENCE"
    ELSE IF worker[w].candidate # o.digest \/ o.candidate \notin {NoDigest, worker[w].candidate}
         THEN "RECEIPT_MISMATCH"
    ELSE "none"

recordPreparedRevision(w) ==
    /\ at(w, "record")
    /\ LET r == worker[w].run
           new == operation[r].candidate = NoDigest
       IN IF recordError(w) # "none"
          THEN raise(w, recordError(w)) /\ UNCHANGED operation
          ELSE /\ operation' = IF new
                               THEN [operation EXCEPT ![r].candidate = worker[w].candidate,
                                                      ![r].version = @ + 1]
                               ELSE operation
               /\ worker' = [worker EXCEPT ![w].step = "bind",
                                           ![w].version = IF new THEN @ + 1 ELSE @]
    /\ UNCHANGED <<workspace, authority, run, submission, accepted, revision, cleanup, outbox,
                   prepared>>

\* getRun and the second authorization, just before acceptance.
bindRun(w) ==
    /\ at(w, "bind")
    /\ LET r == worker[w].run IN
       IF authorizeError(r) # "none"
       THEN raise(w, authorizeError(r))
       ELSE worker' = [worker EXCEPT ![w].step = "accept", ![w].runVersion = run[r].version]
    /\ UNCHANGED <<catalog, prepared>>

\* Mutant: acceptance relies on the authorization taken before it.
finalizerErrorStale(w) ==
    LET r == worker[w].run IN
    IF ~processing(w) THEN "STALE_FENCE"
    ELSE IF workspace.status # "active" THEN "WORKSPACE_INACTIVE"
    ELSE IF run[r].state # "finalizing" \/ run[r].version # worker[w].runVersion THEN "STALE_FENCE"
    ELSE "none"

\* The checks shared by acceptRevision and completeReadOnly, in their order.
finalizerError(w) ==
    LET r == worker[w].run IN
    IF ~processing(w) THEN "STALE_FENCE"
    ELSE IF ~permit(r) THEN "CREDENTIAL_REVOKED"
    ELSE IF workspace.status # "active" THEN "WORKSPACE_INACTIVE"
    ELSE IF run[r].state # "finalizing" \/ run[r].version # worker[w].runVersion THEN "STALE_FENCE"
    ELSE "none"

\* Mutant: acceptance does not compare the workspace with the pinned base.
headMovedUnchecked(r) == FALSE

\* The workspace is no longer the one the run was opened on.
headMoved(r) == workspace.head # run[r].base \/ workspace.version # run[r].workspaceVersion

acceptError(w) ==
    LET r == worker[w].run IN
    IF finalizerError(w) # "none" THEN finalizerError(w)
    ELSE IF run[r].mode = "read-only" THEN "none"
    ELSE IF headMoved(r) THEN "REVISION_CONFLICT"
    ELSE IF ~sourceMatches(r) \/ operation[r].candidate # worker[w].candidate
            \/ worker[w].candidate # operation[r].digest
         THEN "RECEIPT_MISMATCH"
    ELSE "none"

\* Mutant: the operation is left processing when its run is finalized.
completeFinalizationOpen(w, r) ==
    /\ endRun(r, "finalized")
    /\ operation' = [operation EXCEPT ![r].version = @ + 1]
    /\ giveUp(w)

completeFinalization(w, r) ==
    /\ endRun(r, "finalized")
    /\ operation' = [operation EXCEPT ![r].state = "succeeded", ![r].version = @ + 1]
    /\ giveUp(w)

\* Mutant: a snapshot is compared with the initial revision, not with its base.
changedSinceRoot(r, digest) == digest # revision[Root].digest

changed(r, digest) == digest # revision[run[r].base].digest

publish(r, digest) ==
    /\ accepted' = accepted \cup {r}
    /\ revision' = [revision EXCEPT ![r] = [parent |-> run[r].base, digest |-> digest]]
    /\ workspace' = [workspace EXCEPT !.head = r, !.version = @ + 1]

\* A changed snapshot becomes the head, an equal one only completes the run.
acceptRevision(w) ==
    LET r == worker[w].run IN
    /\ at(w, "accept")
    /\ run[r].mode = "read-write"
    /\ acceptError(w) = "none"
    /\ IF changed(r, worker[w].candidate)
       THEN publish(r, worker[w].candidate)
       ELSE UNCHANGED <<accepted, revision, workspace>>
    /\ completeFinalization(w, r)
    /\ UNCHANGED <<authority, submission, prepared>>

completeReadOnly(w) ==
    LET r == worker[w].run IN
    /\ at(w, "accept")
    /\ run[r].mode = "read-only"
    /\ acceptError(w) = "none"
    /\ completeFinalization(w, r)
    /\ UNCHANGED <<workspace, authority, submission, accepted, revision, prepared>>

acceptRefused(w) ==
    /\ at(w, "accept")
    /\ acceptError(w) # "none"
    /\ raise(w, acceptError(w))
    /\ UNCHANGED <<catalog, prepared>>

\* reconcile: only a still-owned claim and a terminal code may decide the run.
reconcile(w) ==
    /\ at(w, "reconcile")
    /\ LET o == operation[worker[w].run] IN
       IF \/ o.state # "processing"
          \/ o.fence # worker[w].fence \/ o.claim = "expired"
          \/ worker[w].error \notin terminalFailures
       THEN giveUp(w)
       ELSE worker' = [worker EXCEPT ![w].step = "fail", ![w].version = o.version]
    /\ UNCHANGED <<catalog, prepared>>

failFinalization(w) ==
    LET r == worker[w].run IN
    /\ at(w, "fail")
    /\ giveUp(w)
    /\ IF processing(w) /\ run[r].state = "finalizing" /\ r \notin accepted
       THEN /\ endRun(r, IF worker[w].error = "REVISION_CONFLICT" THEN "conflicted" ELSE "failed")
            /\ operation' = [operation EXCEPT ![r].state = "failed", ![r].version = @ + 1]
       ELSE UNCHANGED <<run, cleanup, outbox, operation>>
    /\ UNCHANGED <<workspace, authority, submission, accepted, revision, prepared>>

\* The process dies; whatever it had committed stays.  The last permitted claim
\* (MaxFence) belongs to a worker that neither dies nor outlives its claim.
crash(w) ==
    /\ worker[w].step # "idle" /\ worker[w].fence < MaxFence
    /\ giveUp(w)
    /\ UNCHANGED <<catalog, prepared>>

-----------------------------------------------------------------------------
(* Deadlines *)

leaseLapses(r) ==
    /\ run[r].state = "active" /\ run[r].lease = "live"
    /\ run' = [run EXCEPT ![r].lease = "expired"]
    /\ UNCHANGED <<workspace, authority, operation, submission, accepted, revision, cleanup,
                   outbox, prepared, worker>>

claimLapses(r) ==
    /\ operation[r].state = "processing" /\ operation[r].claim = "live"
    /\ operation[r].fence < MaxFence
    /\ operation' = [operation EXCEPT ![r].claim = "expired"]
    /\ UNCHANGED <<workspace, authority, run, submission, accepted, revision, cleanup, outbox,
                   prepared, worker>>

submissionLapses(r) ==
    /\ submission[r].state \in {"uploading", "sealed"} /\ submission[r].retention = "live"
    /\ submission' = [submission EXCEPT ![r].retention = "expired"]
    /\ UNCHANGED <<workspace, authority, run, operation, accepted, revision, cleanup, outbox,
                   prepared, worker>>

-----------------------------------------------------------------------------

clientStep ==
    \E r \in Runs :
        \/ \E mode \in Modes : openRun(r, mode)
        \/ renewRunLease(r)
        \/ abortRun(r)
        \/ createSubmission(r)
        \/ \E digest \in Digests : sealSubmission(r, digest)
        \/ \E w \in Workers : claimFinalization(w, r)

administratorStep ==
    \/ \E to \in {"active", "suspended", "deleted"} : transitionWorkspaceStatus(to)
    \/ \E grants \in {"held", "revoked"} : updateAuthority(grants)

maintenanceStep ==
    \E r \in Runs :
        \/ expireActiveRun(r)
        \/ expireSubmission(r)
        \/ claimSubmissionCollection(r)
        \/ \E w \in Workers : claimRecovery(w, r)

\* What a live worker does next on its own.
processOperation(w) ==
    \/ startProcessing(w) \/ authorize(w) \/ readSource(w) \/ prepare(w)
    \/ recordPreparedRevision(w) \/ bindRun(w)
    \/ acceptRevision(w) \/ completeReadOnly(w) \/ acceptRefused(w)
    \/ reconcile(w) \/ failFinalization(w)

workerStep ==
    \E w \in Workers : processOperation(w) \/ prepareFails(w) \/ renewProcessingClaim(w) \/ crash(w)

deadlineStep ==
    \E r \in Runs : leaseLapses(r) \/ claimLapses(r) \/ submissionLapses(r)

Next == clientStep \/ administratorStep \/ maintenanceStep \/ workerStep \/ deadlineStep

Spec == Init /\ [][Next]_vars

(***************************************************************************)
(* Fairness: a live worker keeps going, maintenance keeps ticking, a lease *)
(* that is no longer renewed runs out (heartbeats stop at MaxLeaseVersion) *)
(* and so does a claim that nobody is working on.                          *)
(***************************************************************************)
abandoned(r) == \A w \in Workers : worker[w].run = r => worker[w].fence # operation[r].fence

Fairness ==
    /\ \A w \in Workers : WF_vars(processOperation(w))
    /\ \A r \in Runs : /\ WF_vars(leaseLapses(r))
                       /\ WF_vars(expireActiveRun(r))
                       /\ WF_vars(\E w \in Workers : claimRecovery(w, r))
                       /\ WF_vars(abandoned(r) /\ claimLapses(r))

FairSpec == Spec /\ Fairness

-----------------------------------------------------------------------------
(* Safety *)

\* No lost update: accepted history is one chain that ends at the head.  Every
\* parent is itself accepted, no two revisions replace the same parent, and
\* nothing has been accepted on top of the head (acceptRevision).
LinearHistory ==
    /\ workspace.head \in accepted
    /\ \A v \in accepted \ {Root} :
         /\ revision[v].parent \in accepted
         /\ revision[v].parent # workspace.head
         /\ \A u \in accepted \ {Root} : revision[u].parent = revision[v].parent => u = v

\* The run, its durable operation and accepted history always tell the same
\* story, whichever worker, crash or recovery came in between: a finalizing run
\* is recoverable, a finalized one succeeded, a rejected one left no revision
\* (completeFinalization, failFinalization, claimRecovery).
OutcomeAgreement ==
    \A r \in Runs :
        /\ run[r].state = "finalizing" <=> operation[r].state = "processing"
        /\ run[r].state = "finalized" <=> operation[r].state = "succeeded"
        /\ run[r].state \in {"conflicted", "failed"} <=> operation[r].state = "failed"
        /\ r \in accepted => run[r].state = "finalized" /\ run[r].mode = "read-write"

\* Recoverable finalizations retain their source: while a read-write
\* finalization is processing, the submission it selected is sealed, unchanged
\* and not handed to a collector (expireSubmission, submissionCollectable).
SourceRetained == \A r \in Runs : selected(r) => sourceMatches(r)

\* Accepted content is the sealed content: a published revision is durable in
\* the revision store with the digest the client sealed, on the pinned base.
AcceptedContent ==
    \A r \in Runs : r \in accepted =>
        /\ revision[r] = [parent |-> run[r].base, digest |-> operation[r].digest]
        /\ prepared[r] = operation[r].digest
        /\ revision[r].digest # revision[run[r].base].digest

\* The workspace version pins the head: a run whose pinned version is still
\* current is based on the current head, so a stale base cannot slip through a
\* status change that leaves the head alone (workspaceVersionAtOpen).
VersionPinsHead ==
    \A r \in Runs : run[r].state # "unopened" =>
        /\ run[r].workspaceVersion <= workspace.version
        /\ run[r].workspaceVersion = workspace.version => run[r].base = workspace.head

-----------------------------------------------------------------------------
(* Action properties *)

\* Nothing undoes an outcome: a terminal run, a decided operation, an accepted
\* revision and durable candidate content never change again, and an expired
\* lease never comes back to life while its run is active.
OutcomesAreFinal ==
    [][ /\ \A r \in Runs :
             /\ run[r].state \in TerminalStates => run'[r] = run[r]
             /\ operation[r].state \in {"succeeded", "failed"} => operation'[r] = operation[r]
             /\ prepared[r] # NoDigest => prepared'[r] = prepared[r]
             /\ run[r].lease = "expired" /\ run[r].state = "active" =>
                  run'[r].lease = "expired" /\ run'[r].state \in {"active", "expired"}
        /\ accepted \subseteq accepted'
        /\ \A v \in accepted : revision'[v] = revision[v] ]_vars

\* The head moves only by publishing a run whose credential and workspace were
\* current at that very moment, through the worker that owns the claim.
PublishedUnderAuthority ==
    [][ workspace'.head # workspace.head =>
          \E r \in Runs :
             /\ workspace'.head = r
             /\ permit(r) /\ workspace.status = "active"
             /\ run[r].base = workspace.head
             /\ \E w \in Workers : /\ worker[w].run = r /\ worker[w].step = "accept"
                                   /\ worker[w].fence = operation[r].fence
                                   /\ worker'[w].step = "idle" ]_vars

-----------------------------------------------------------------------------
(* Liveness *)

\* A run that started finalizing is eventually decided, although workers crash,
\* storage fails and claims expire in between (fenced recovery).
FinalizationDecided ==
    \A r \in Runs : run[r].state = "finalizing" ~> run[r].state \in TerminalStates

\* A run whose client goes away does not stay open for ever, even when its
\* credential is revoked or its workspace is deleted in the meantime: it expires,
\* or the finalization it started is decided.
OpenedRunEnds ==
    \A r \in Runs : run[r].state = "active" ~> run[r].state \in TerminalStates

-----------------------------------------------------------------------------
(* Refinement *)

RunOutcome(r) ==
    IF run[r].state = "unopened" THEN "unopened"
    ELSE IF run[r].state \in {"active", "finalizing"} THEN "open"
    ELSE IF run[r].state # "finalized" THEN "rejected"
    ELSE IF r \in accepted THEN "published" ELSE "unchanged"

History == INSTANCE WorkspaceHistory WITH
    chain <- {<<v, revision[v].parent>> : v \in accepted \ {Root}},
    head <- workspace.head,
    pinned <- [r \in Runs |-> run[r].base],
    outcome <- [r \in Runs |-> RunOutcome(r)]

\* The catalog, its workers and its recovery implement the abstract history.
ImplementsHistory == History!HistorySpec
=============================================================================
