-------------------------- MODULE PublicationProofs --------------------------
(***************************************************************************)
(* Safety of Publication for any number of runs, workers and digests and   *)
(* for every bound: each invariant is inductive relative to those before   *)
(* it.                                                                     *)
(***************************************************************************)
EXTENDS Publication, TLAPS

-----------------------------------------------------------------------------
(* Type correctness *)

\* The versions and fences of the records are naturals, and so are their successors.
LEMMA Counters ==
  ASSUME TypeOK
  PROVE  /\ workspace.version \in Nat /\ workspace.version + 1 \in Nat
         /\ authority.epoch \in Nat /\ authority.epoch + 1 \in Nat
         /\ \A r \in Runs : /\ run[r].version + 1 \in Nat
                            /\ run[r].leaseVersion + 1 \in Nat
                            /\ operation[r].version \in Nat /\ operation[r].version + 1 \in Nat
                            /\ operation[r].fence \in Nat /\ operation[r].fence + 1 \in Nat
                            /\ submission[r].version \in Nat /\ submission[r].version + 1 \in Nat
         /\ \A w \in Workers : worker[w].version + 1 \in Nat
<1>1. workspace.version \in Nat /\ authority.epoch \in Nat
  BY DEF TypeOK, WorkspaceRecord, AuthorityRecord
<1>2. \A r \in Runs : run[r].version \in Nat /\ run[r].leaseVersion \in Nat
  BY DEF TypeOK, RunRecord
<1>3. \A r \in Runs : operation[r].version \in Nat /\ operation[r].fence \in Nat
  BY DEF TypeOK, OperationRecord
<1>4. \A r \in Runs : submission[r].version \in Nat
  BY DEF TypeOK, SubmissionRecord
<1>5. \A w \in Workers : worker[w].version \in Nat
  BY DEF TypeOK, WorkerRecord
<1> QED BY <1>1, <1>2, <1>3, <1>4, <1>5

\* The initial state is well typed.
LEMMA TypeInit == Init => TypeOK
  BY IdentityAssumption, DigestAssumption
  DEF WorkspaceRecord, AuthorityRecord, RunRecord, OperationRecord, SubmissionRecord,
      RevisionRecord, WorkerRecord, RunStates, TerminalStates, Steps, Codes, Modes, Revisions,
      Deadlines, Init, TypeOK, NewRun, NewOperation, NewSubmission, IdleWorker

\* Client commands keep every record well typed.
LEMMA TypeOpenRun == ASSUME TypeOK, NEW r \in Runs, NEW m \in Modes, openRun(r, m) PROVE TypeOK'
<1>1. run' \in [Runs -> RunRecord]
  BY Counters DEF openRun, TypeOK, RunRecord, RunStates, Deadlines, WorkspaceRecord
<1>2. outbox' \in [Runs -> SUBSET RunStates]
  BY DEF openRun, TypeOK, RunStates
<1> QED BY <1>1, <1>2 DEF openRun, TypeOK

\* A heartbeat keeps the types.
LEMMA TypeRenewRunLease == ASSUME TypeOK, NEW r \in Runs, renewRunLease(r) PROVE TypeOK'
<1>1. run[r].leaseVersion + 1 \in Nat
  BY Counters
<1> QED BY <1>1 DEF renewRunLease, TypeOK, RunRecord

\* Ending a run (abort, expiry) keeps the types.
LEMMA TypeEndRun ==
  ASSUME TypeOK, NEW r \in Runs, NEW s \in TerminalStates, endRun(r, s)
  PROVE  /\ run' \in [Runs -> RunRecord]
         /\ cleanup' \in SUBSET Runs
         /\ outbox' \in [Runs -> SUBSET RunStates]
<1>1. run[r].version + 1 \in Nat
  BY Counters
<1> QED BY <1>1 DEF endRun, TypeOK, RunRecord, RunStates

\* An abort keeps the types.
LEMMA TypeAbortRun == ASSUME TypeOK, NEW r \in Runs, abortRun(r) PROVE TypeOK'
  BY TypeEndRun DEF abortRun, TypeOK, TerminalStates

\* Creating a submission keeps the types.
LEMMA TypeCreateSubmission == ASSUME TypeOK, NEW r \in Runs, createSubmission(r) PROVE TypeOK'
  BY DEF createSubmission, TypeOK, SubmissionRecord

\* Sealing a submission keeps the types.
LEMMA TypeSealSubmission ==
  ASSUME TypeOK, NEW r \in Runs, NEW d \in Digests, sealSubmission(r, d) PROVE TypeOK'
<1>1. submission[r].version + 1 \in Nat
  BY Counters
<1>2. submission' \in [Runs -> SubmissionRecord]
  BY <1>1 DEF sealSubmission, TypeOK, SubmissionRecord
<1> QED BY <1>2 DEF sealSubmission, TypeOK

\* Claiming finalization keeps the types.
LEMMA TypeClaimFinalization ==
  ASSUME TypeOK, NEW r \in Runs, NEW w \in Workers, claimFinalization(w, r) PROVE TypeOK'
<1>1. run' \in [Runs -> RunRecord]
  <2>1. run[r].version + 1 \in Nat
    BY Counters
  <2> QED BY <2>1 DEF claimFinalization, TypeOK, RunRecord, RunStates
<1>2. operation' \in [Runs -> OperationRecord]
  BY Counters DEF claimFinalization, TypeOK, OperationRecord, Deadlines, SubmissionRecord
<1>3. /\ worker' \in [Workers -> WorkerRecord]
      /\ \A u \in Workers : worker'[u].step # "idle" => worker'[u].run \in Runs
  BY DEF claimFinalization, TypeOK, WorkerRecord, Steps, Codes, IdleWorker
<1> QED BY <1>1, <1>2, <1>3 DEF claimFinalization, TypeOK

\* Every client command keeps the types.
LEMMA TypeClient == TypeOK /\ clientStep => TypeOK'
  BY TypeOpenRun, TypeRenewRunLease, TypeAbortRun, TypeCreateSubmission, TypeSealSubmission,
     TypeClaimFinalization
  DEF clientStep

\* Administration and maintenance.
LEMMA TypeAdministrator == TypeOK /\ administratorStep => TypeOK'
<1>1. ASSUME TypeOK, NEW to \in {"active", "suspended", "deleted"}, transitionWorkspaceStatus(to)
      PROVE  TypeOK'
  BY <1>1, Counters DEF transitionWorkspaceStatus, TypeOK, WorkspaceRecord
<1>2. ASSUME TypeOK, NEW g \in {"held", "revoked"}, updateAuthority(g) PROVE TypeOK'
  BY <1>2, Counters DEF updateAuthority, TypeOK, AuthorityRecord
<1> QED BY <1>1, <1>2 DEF administratorStep

\* A recovery claim keeps the types.
LEMMA TypeClaimRecovery ==
  ASSUME TypeOK, NEW r \in Runs, NEW w \in Workers, claimRecovery(w, r) PROVE TypeOK'
<1>1. operation[r].version + 1 \in Nat /\ nextFence(r) \in Nat
  BY Counters DEF nextFence
<1>2. operation' \in [Runs -> OperationRecord]
  BY <1>1 DEF claimRecovery, TypeOK, OperationRecord, Deadlines
<1>3. /\ worker' \in [Workers -> WorkerRecord]
      /\ \A u \in Workers : worker'[u].step # "idle" => worker'[u].run \in Runs
  BY <1>1 DEF claimRecovery, TypeOK, WorkerRecord, Steps, Codes, IdleWorker
<1> QED BY <1>2, <1>3 DEF claimRecovery, TypeOK

\* Every maintenance step keeps the types.
LEMMA TypeMaintenance == TypeOK /\ maintenanceStep => TypeOK'
<1>1. ASSUME TypeOK, NEW r \in Runs, expireActiveRun(r) PROVE TypeOK'
  BY <1>1, TypeEndRun DEF expireActiveRun, TypeOK, TerminalStates
<1>2. ASSUME TypeOK, NEW r \in Runs, expireSubmission(r) \/ claimSubmissionCollection(r)
      PROVE  TypeOK'
  <2>1. submission[r].version + 1 \in Nat
    BY <1>2, Counters
  <2>2. submission' \in [Runs -> SubmissionRecord]
    BY <1>2, <2>1 DEF expireSubmission, claimSubmissionCollection, TypeOK, SubmissionRecord
  <2>3. \A q \in Runs : submission'[q].state = "sealed" => submission'[q] = submission[q]
    BY <1>2 DEF expireSubmission, claimSubmissionCollection, TypeOK, SubmissionRecord
  <2> QED BY <1>2, <2>2, <2>3 DEF expireSubmission, claimSubmissionCollection, TypeOK
<1> QED BY <1>1, <1>2, TypeClaimRecovery DEF maintenanceStep

\* Worker steps: what goto, giveUp and raise leave in the worker record.
WorkerTypeOK ==
  /\ worker \in [Workers -> WorkerRecord]
  /\ \A w \in Workers : worker[w].step # "idle" => worker[w].run \in Runs

\* A worker that gives up stays well typed.
LEMMA TypeGiveUp == ASSUME TypeOK, NEW w \in Workers, giveUp(w) PROVE WorkerTypeOK'
  BY DEF giveUp, TypeOK, WorkerTypeOK, WorkerRecord, IdleWorker, Steps, Codes

\* A worker that moves to its next await stays well typed.
LEMMA TypeGoto ==
  ASSUME TypeOK, NEW w \in Workers, worker[w].step # "idle", NEW st \in Steps, goto(w, st)
  PROVE  WorkerTypeOK'
  BY DEF goto, TypeOK, WorkerTypeOK, WorkerRecord

\* A worker that meets an error stays well typed.
LEMMA TypeRaise ==
  ASSUME TypeOK, NEW w \in Workers, worker[w].step # "idle", NEW c \in Codes, raise(w, c)
  PROVE  WorkerTypeOK'
<1>1. worker' \in [Workers -> WorkerRecord]
  <2>1. worker \in [Workers -> WorkerRecord] /\ "reconcile" \in Steps
    BY DEF TypeOK, Steps
  <2> QED BY <2>1 DEF raise, WorkerRecord
<1>2. \A u \in Workers : worker'[u].run = worker[u].run /\ (u # w => worker'[u] = worker[u])
  BY DEF raise, TypeOK, WorkerRecord
<1> QED BY <1>1, <1>2 DEF TypeOK, WorkerTypeOK

\* The stored candidates stay well typed.
LEMMA TypeStored ==
  ASSUME TypeOK, NEW r \in Runs, storeCandidate(r)
  PROVE  prepared' \in [Runs -> Digests \cup {NoDigest}]
<1>1. operation[r].digest \in Digests \cup {NoDigest}
  BY DEF TypeOK, OperationRecord
<1> QED BY <1>1 DEF storeCandidate, TypeOK

\* Picking up a claim keeps the types.
LEMMA TypeStartProcessing == ASSUME TypeOK, NEW w \in Workers, startProcessing(w) PROVE TypeOK'
<1> DEFINE o == operation[worker[w].run]
<1>1. worker[w].run \in Runs
  BY DEF startProcessing, at, TypeOK
<1>2. o.version \in Nat /\ o.candidate \in Digests \cup {NoDigest}
  BY <1>1 DEF TypeOK, OperationRecord
<1>3. WorkerTypeOK'
  <2>1. CASE giveUp(w)
    BY <2>1, TypeGiveUp
  <2>2. CASE ~giveUp(w)
    <3> DEFINE record == [worker[w] EXCEPT !.step = "authorize", !.version = o.version,
                                           !.candidate = o.candidate]
    <3>1. worker' = [worker EXCEPT ![w] = record]
      BY <2>2 DEF startProcessing
    <3>2. worker[w] \in WorkerRecord
      BY DEF TypeOK
    <3>3. record \in WorkerRecord /\ record.run = worker[w].run
      BY <1>2, <3>2 DEF WorkerRecord, Steps
    <3>4. record.run \in Runs
      BY <1>1, <3>3
    <3> HIDE DEF record
    <3> QED BY <3>1, <3>3, <3>4 DEF TypeOK, WorkerTypeOK
  <2> QED BY <2>1, <2>2
<1> QED BY <1>3 DEF startProcessing, catalog, TypeOK, WorkerTypeOK

\* The authorization and source reads keep the types.
LEMMA TypeAuthorize == ASSUME TypeOK, NEW w \in Workers, authorize(w) \/ readSource(w) PROVE TypeOK'
<1>1. worker[w].step # "idle"
  BY DEF authorize, readSource, at
<1>2. WorkerTypeOK'
  BY <1>1, TypeGoto, TypeRaise DEF authorize, readSource, authorizeError, Steps, Codes
<1> QED BY <1>2 DEF authorize, readSource, catalog, TypeOK, WorkerTypeOK

\* Preparing a candidate keeps the types.
LEMMA TypePrepare == ASSUME TypeOK, NEW w \in Workers, prepare(w) PROVE TypeOK'
<1> DEFINE r == worker[w].run
<1>1. r \in Runs /\ worker[w].step # "idle"
  BY DEF prepare, at, TypeOK
<1>2. prepared' \in [Runs -> Digests \cup {NoDigest}]
  BY <1>1, TypeStored DEF prepare
<1>3. WorkerTypeOK'
  <2>1. CASE raise(w, "RECEIPT_MISMATCH")
    BY <1>1, <2>1, TypeRaise DEF Codes
  <2>2. CASE worker' = [worker EXCEPT ![w].step = "record", ![w].candidate = prepared'[r]]
    <3>1. worker \in [Workers -> WorkerRecord] /\ "record" \in Steps
      BY DEF TypeOK, Steps
    <3>2. prepared'[r] \in Digests \cup {NoDigest}
      BY <1>1, <1>2
    <3>3. worker' \in [Workers -> WorkerRecord]
      BY <2>2, <3>1, <3>2 DEF WorkerRecord
    <3>4. \A u \in Workers : worker'[u].run = worker[u].run /\ (u # w => worker'[u] = worker[u])
      BY <2>2, <3>1 DEF WorkerRecord
    <3> QED BY <1>1, <3>3, <3>4 DEF TypeOK, WorkerTypeOK
  <2> QED BY <2>1, <2>2 DEF prepare
<1> QED BY <1>2, <1>3 DEF prepare, catalog, TypeOK, WorkerTypeOK

\* A failing storage call keeps the types.
LEMMA TypePrepareFails == ASSUME TypeOK, NEW w \in Workers, prepareFails(w) PROVE TypeOK'
<1> DEFINE r == worker[w].run
<1>1. r \in Runs /\ worker[w].step # "idle"
  BY DEF prepareFails, at, TypeOK
<1>2. prepared' \in [Runs -> Digests \cup {NoDigest}]
  BY <1>1, TypeStored DEF prepareFails, TypeOK
<1>3. WorkerTypeOK'
  BY <1>1, TypeRaise DEF prepareFails, Codes
<1> QED BY <1>2, <1>3 DEF prepareFails, catalog, TypeOK, WorkerTypeOK

\* A version step keeps operations well typed.
LEMMA TypeOperationVersion ==
  ASSUME NEW f \in [Runs -> OperationRecord], NEW r \in Runs, f[r].version + 1 \in Nat
  PROVE  [f EXCEPT ![r].version = @ + 1] \in [Runs -> OperationRecord]
  BY DEF OperationRecord

\* Renewing a processing claim keeps the types.
LEMMA TypeRenewProcessingClaim ==
  ASSUME TypeOK, NEW w \in Workers, renewProcessingClaim(w) PROVE TypeOK'
<1> DEFINE r == worker[w].run
<1>1. r \in Runs /\ worker[w].step # "idle"
  BY DEF renewProcessingClaim, at, TypeOK
<1>2. operation[r].version + 1 \in Nat /\ worker[w].version + 1 \in Nat
  BY <1>1, Counters
<1>3. prepared' \in [Runs -> Digests \cup {NoDigest}]
  BY <1>1, TypeStored DEF renewProcessingClaim, TypeOK
<1>4. operation' \in [Runs -> OperationRecord]
  <2>1. CASE UNCHANGED operation
    BY <2>1 DEF TypeOK
  <2>2. CASE operation' = [operation EXCEPT ![r].version = @ + 1]
    BY <1>1, <1>2, <2>2, TypeOperationVersion DEF TypeOK
  <2> QED BY <2>1, <2>2 DEF renewProcessingClaim
<1>5. WorkerTypeOK'
  <2>1. CASE raise(w, "STALE_FENCE")
    BY <1>1, <2>1, TypeRaise DEF Codes
  <2>2. CASE ~raise(w, "STALE_FENCE")
    <3>1. UNCHANGED worker \/ worker' = [worker EXCEPT ![w].version = @ + 1]
      BY <2>2 DEF renewProcessingClaim
    <3>2. worker \in [Workers -> WorkerRecord]
      BY DEF TypeOK
    <3>3. worker' \in [Workers -> WorkerRecord]
      BY <1>2, <3>1, <3>2 DEF WorkerRecord
    <3>4. \A u \in Workers : worker'[u].run = worker[u].run /\ worker'[u].step = worker[u].step
      BY <3>1, <3>2 DEF WorkerRecord
    <3> QED BY <3>3, <3>4 DEF TypeOK, WorkerTypeOK
  <2> QED BY <2>1, <2>2
<1> QED BY <1>3, <1>4, <1>5 DEF renewProcessingClaim, TypeOK, WorkerTypeOK

\* Recording the prepared candidate keeps the types.
LEMMA TypeRecordPreparedRevision ==
  ASSUME TypeOK, NEW w \in Workers, recordPreparedRevision(w) PROVE TypeOK'
<1> DEFINE r == worker[w].run
<1>1. r \in Runs /\ worker[w].step # "idle"
  BY DEF recordPreparedRevision, at, TypeOK
<1>2. /\ operation[r].version + 1 \in Nat /\ worker[w].version + 1 \in Nat
      /\ worker[w].candidate \in Digests \cup {NoDigest}
  BY <1>1, Counters DEF TypeOK, WorkerRecord
<1>3. operation' \in [Runs -> OperationRecord]
  <2>1. CASE UNCHANGED operation
    BY <2>1 DEF TypeOK
  <2>2. CASE operation' = [operation EXCEPT ![r].candidate = worker[w].candidate,
                                            ![r].version = @ + 1]
    <3>1. ASSUME NEW f \in [Runs -> OperationRecord], NEW q \in Runs, f[q].version + 1 \in Nat,
                 NEW d \in Digests \cup {NoDigest}
          PROVE  [f EXCEPT ![q].candidate = d, ![q].version = @ + 1] \in [Runs -> OperationRecord]
      BY <3>1 DEF OperationRecord
    <3> QED BY <1>1, <1>2, <2>2, <3>1 DEF TypeOK
  <2> QED BY <2>1, <2>2 DEF recordPreparedRevision
<1>4. WorkerTypeOK'
  <2>1. recordError(w) \in Codes
    BY DEF recordError, Codes
  <2>2. CASE raise(w, recordError(w))
    BY <1>1, <2>1, <2>2, TypeRaise
  <2>3. CASE \E n \in Nat : worker' = [worker EXCEPT ![w].step = "bind", ![w].version = n]
    <3> PICK n \in Nat : worker' = [worker EXCEPT ![w].step = "bind", ![w].version = n]
      BY <2>3
    <3>1. worker \in [Workers -> WorkerRecord] /\ "bind" \in Steps
      BY DEF TypeOK, Steps
    <3>2. worker' \in [Workers -> WorkerRecord]
      BY <3>1 DEF WorkerRecord
    <3>3. \A u \in Workers : worker'[u].run = worker[u].run /\ (u # w => worker'[u] = worker[u])
      BY <3>1 DEF WorkerRecord
    <3> QED BY <1>1, <3>2, <3>3 DEF TypeOK, WorkerTypeOK
  <2>4. worker[w].version \in Nat
    BY DEF TypeOK, WorkerRecord
  <2> QED BY <1>2, <2>2, <2>3, <2>4 DEF recordPreparedRevision
<1> QED BY <1>3, <1>4 DEF recordPreparedRevision, TypeOK, WorkerTypeOK

\* Binding the run keeps the types.
LEMMA TypeBindRun == ASSUME TypeOK, NEW w \in Workers, bindRun(w) PROVE TypeOK'
<1> DEFINE r == worker[w].run
<1>1. r \in Runs /\ worker[w].step # "idle"
  BY DEF bindRun, at, TypeOK
<1>2. run[r].version \in Nat /\ authorizeError(r) \in Codes
  BY <1>1 DEF TypeOK, RunRecord, authorizeError, Codes
<1>3. WorkerTypeOK'
  <2>1. CASE raise(w, authorizeError(r))
    BY <1>1, <1>2, <2>1, TypeRaise
  <2>2. CASE worker' = [worker EXCEPT ![w].step = "accept", ![w].runVersion = run[r].version]
    <3>1. worker \in [Workers -> WorkerRecord] /\ "accept" \in Steps
      BY DEF TypeOK, Steps
    <3>2. worker' \in [Workers -> WorkerRecord]
      BY <1>2, <2>2, <3>1 DEF WorkerRecord
    <3>3. \A u \in Workers : worker'[u].run = worker[u].run /\ (u # w => worker'[u] = worker[u])
      BY <2>2, <3>1 DEF WorkerRecord
    <3> QED BY <1>1, <3>2, <3>3 DEF TypeOK, WorkerTypeOK
  <2> QED BY <2>1, <2>2 DEF bindRun
<1> QED BY <1>3 DEF bindRun, catalog, TypeOK, WorkerTypeOK

\* Completing a finalization keeps the types of run and operation.
LEMMA TypeCompleteFinalization ==
  ASSUME TypeOK, NEW w \in Workers, NEW r \in Runs, completeFinalization(w, r)
  PROVE  /\ run' \in [Runs -> RunRecord] /\ cleanup' \in SUBSET Runs
         /\ outbox' \in [Runs -> SUBSET RunStates]
         /\ operation' \in [Runs -> OperationRecord]
         /\ WorkerTypeOK'
<1>1. /\ run' \in [Runs -> RunRecord] /\ cleanup' \in SUBSET Runs
      /\ outbox' \in [Runs -> SUBSET RunStates]
  BY TypeEndRun DEF completeFinalization, TerminalStates
<1>2. operation' \in [Runs -> OperationRecord]
  <2>1. operation \in [Runs -> OperationRecord] /\ operation[r].version + 1 \in Nat
    BY Counters DEF TypeOK
  <2> QED BY <2>1 DEF completeFinalization, OperationRecord
<1> QED BY <1>1, <1>2, TypeGiveUp DEF completeFinalization

\* Acceptance keeps the types.
LEMMA TypeAcceptRevision == ASSUME TypeOK, NEW w \in Workers, acceptRevision(w) PROVE TypeOK'
<1> DEFINE r == worker[w].run
           d == worker[w].candidate
<1>1. r \in Runs
  BY DEF acceptRevision, at, TypeOK
<1>2. accepted' \in SUBSET Revisions /\ revision' \in [Revisions -> RevisionRecord]
      /\ workspace' \in WorkspaceRecord
  <2>1. CASE UNCHANGED <<accepted, revision, workspace>>
    BY <2>1 DEF TypeOK
  <2>2. CASE publish(r, d)
    <3>1. sourceMatches(r) /\ d = operation[r].digest
      BY DEF acceptRevision, acceptError
    <3>3. d \in Digests
      BY <1>1, <3>1 DEF sourceMatches, TypeOK
    <3>2. run[r].base \in Revisions /\ workspace.version + 1 \in Nat
      BY <1>1, Counters DEF TypeOK, RunRecord
    <3> QED BY <1>1, <2>2, <3>2, <3>3 DEF publish, TypeOK, WorkspaceRecord, RevisionRecord, Revisions
  <2> QED BY <2>1, <2>2 DEF acceptRevision
<1> QED BY <1>1, <1>2, TypeCompleteFinalization DEF acceptRevision, TypeOK, WorkerTypeOK

\* Completing a read-only run keeps the types.
LEMMA TypeCompleteReadOnly == ASSUME TypeOK, NEW w \in Workers, completeReadOnly(w) PROVE TypeOK'
<1>1. worker[w].run \in Runs
  BY DEF completeReadOnly, at, TypeOK
<1> QED BY <1>1, TypeCompleteFinalization DEF completeReadOnly, TypeOK, WorkerTypeOK

\* A refused acceptance keeps the types.
LEMMA TypeAcceptRefused == ASSUME TypeOK, NEW w \in Workers, acceptRefused(w) PROVE TypeOK'
<1>1. worker[w].step # "idle" /\ acceptError(w) \in Codes
  BY DEF acceptRefused, at, acceptError, finalizerError, Codes
<1>2. WorkerTypeOK'
  BY <1>1, TypeRaise DEF acceptRefused
<1> QED BY <1>2 DEF acceptRefused, catalog, TypeOK, WorkerTypeOK

\* Reconciliation keeps the types.
LEMMA TypeReconcile == ASSUME TypeOK, NEW w \in Workers, reconcile(w) PROVE TypeOK'
<1> DEFINE o == operation[worker[w].run]
<1>1. worker[w].run \in Runs /\ worker[w].step # "idle"
  BY DEF reconcile, at, TypeOK
<1>2. o.version \in Nat
  BY <1>1, Counters
<1>3. WorkerTypeOK'
  <2>1. CASE giveUp(w)
    BY <2>1, TypeGiveUp
  <2>2. CASE worker' = [worker EXCEPT ![w].step = "fail", ![w].version = o.version]
    <3>1. worker \in [Workers -> WorkerRecord] /\ "fail" \in Steps
      BY DEF TypeOK, Steps
    <3>2. worker' \in [Workers -> WorkerRecord]
      BY <1>2, <2>2, <3>1 DEF WorkerRecord
    <3>3. \A u \in Workers : worker'[u].run = worker[u].run /\ (u # w => worker'[u] = worker[u])
      BY <2>2, <3>1 DEF WorkerRecord
    <3> QED BY <1>1, <3>2, <3>3 DEF TypeOK, WorkerTypeOK
  <2> QED BY <2>1, <2>2 DEF reconcile
<1> QED BY <1>3 DEF reconcile, catalog, TypeOK, WorkerTypeOK

\* Failing a finalization keeps the types.
LEMMA TypeFailFinalization == ASSUME TypeOK, NEW w \in Workers, failFinalization(w) PROVE TypeOK'
<1> DEFINE r == worker[w].run
<1>1. r \in Runs
  BY DEF failFinalization, at, TypeOK
<1>2. CASE UNCHANGED <<run, cleanup, outbox, operation>>
  BY <1>2, TypeGiveUp DEF failFinalization, TypeOK, WorkerTypeOK
<1>3. CASE /\ \E s \in {"conflicted", "failed"} : endRun(r, s)
           /\ operation' = [operation EXCEPT ![r].state = "failed", ![r].version = @ + 1]
  <2>1. /\ run' \in [Runs -> RunRecord] /\ cleanup' \in SUBSET Runs
        /\ outbox' \in [Runs -> SUBSET RunStates]
    BY <1>1, <1>3, TypeEndRun DEF TerminalStates
  <2>2. operation \in [Runs -> OperationRecord] /\ operation[r].version + 1 \in Nat
    BY <1>1, Counters DEF TypeOK
  <2>3. operation' \in [Runs -> OperationRecord]
    BY <1>1, <1>3, <2>2 DEF OperationRecord
  <2> QED BY <2>1, <2>3, TypeGiveUp DEF failFinalization, TypeOK, WorkerTypeOK
<1> QED BY <1>2, <1>3 DEF failFinalization

\* Every worker step keeps the types.
LEMMA TypeWorkerStep == TypeOK /\ workerStep => TypeOK'
<1>1. ASSUME TypeOK, NEW w \in Workers, crash(w) PROVE TypeOK'
  BY <1>1, TypeGiveUp DEF crash, catalog, TypeOK, WorkerTypeOK
<1> QED BY <1>1, TypeStartProcessing, TypeAuthorize, TypePrepare, TypePrepareFails,
           TypeRenewProcessingClaim, TypeRecordPreparedRevision, TypeBindRun, TypeAcceptRevision,
           TypeCompleteReadOnly, TypeAcceptRefused, TypeReconcile, TypeFailFinalization
        DEF workerStep, processOperation

\* A passing deadline keeps the types.
LEMMA TypeDeadline == TypeOK /\ deadlineStep => TypeOK'
<1>1. ASSUME TypeOK, NEW r \in Runs, leaseLapses(r) PROVE TypeOK'
  BY <1>1 DEF leaseLapses, TypeOK, RunRecord, Deadlines
<1>2. ASSUME TypeOK, NEW r \in Runs, claimLapses(r) PROVE TypeOK'
  BY <1>2 DEF claimLapses, TypeOK, OperationRecord, Deadlines
<1>3. ASSUME TypeOK, NEW r \in Runs, submissionLapses(r) PROVE TypeOK'
  BY <1>3 DEF submissionLapses, TypeOK, SubmissionRecord, Deadlines
<1> QED BY <1>1, <1>2, <1>3 DEF deadlineStep

\* Every step keeps the types.
LEMMA TypeNext == TypeOK /\ [Next]_vars => TypeOK'
<1>1. TypeOK /\ UNCHANGED vars => TypeOK'
  BY DEF TypeOK, vars
<1> QED BY <1>1, TypeClient, TypeAdministrator, TypeMaintenance, TypeWorkerStep, TypeDeadline
        DEF Next

\* Every reachable state is well typed, whatever the constants.
THEOREM TypeCorrect == Spec => []TypeOK
  BY TypeInit, TypeNext, PTL DEF Spec

-----------------------------------------------------------------------------
(* What a step does to runs, operations and history.  Most steps only move a *)
(* deadline, a claim, a submission or a worker; they are quiet.              *)

quiet ==
  /\ \A r \in Runs : /\ run'[r].state = run[r].state /\ run'[r].mode = run[r].mode
                     /\ run'[r].base = run[r].base
                     /\ run'[r].workspaceVersion = run[r].workspaceVersion
                     /\ operation'[r].state = operation[r].state
                     /\ operation'[r].digest = operation[r].digest
                     /\ operation'[r].submissionVersion = operation[r].submissionVersion
  /\ UNCHANGED <<workspace, accepted, revision, cleanup, outbox>>

\* Heartbeats, submission steps and authority updates decide nothing.
LEMMA QuietClient ==
  ASSUME TypeOK, NEW r \in Runs,
         \/ renewRunLease(r) \/ leaseLapses(r)
         \/ createSubmission(r) \/ (\E d \in Digests : sealSubmission(r, d))
         \/ expireSubmission(r) \/ claimSubmissionCollection(r) \/ submissionLapses(r)
         \/ (\E g \in {"held", "revoked"} : updateAuthority(g))
  PROVE  quiet
<1>1. CASE renewRunLease(r) \/ leaseLapses(r)
  <2>1. run \in [Runs -> RunRecord]
    BY DEF TypeOK
  <2> QED BY <1>1, <2>1 DEF renewRunLease, leaseLapses, quiet, RunRecord
<1>2. CASE createSubmission(r) \/ (\E d \in Digests : sealSubmission(r, d)) \/ submissionLapses(r)
  BY <1>2 DEF createSubmission, sealSubmission, submissionLapses, quiet
<1>3. CASE expireSubmission(r) \/ claimSubmissionCollection(r)
  BY <1>3 DEF expireSubmission, claimSubmissionCollection, quiet
<1>4. CASE \E g \in {"held", "revoked"} : updateAuthority(g)
  BY <1>4 DEF updateAuthority, quiet
<1> QED BY <1>1, <1>2, <1>3, <1>4

\* A lapsing or recovered claim decides nothing.
LEMMA QuietClaim ==
  ASSUME TypeOK, NEW r \in Runs, claimLapses(r) \/ \E w \in Workers : claimRecovery(w, r)
  PROVE  quiet
  BY DEF claimLapses, claimRecovery, quiet, TypeOK, OperationRecord

\* A worker decides nothing before it accepts, completes or fails its run.
LEMMA QuietWorker ==
  ASSUME TypeOK, NEW w \in Workers,
         \/ startProcessing(w) \/ authorize(w) \/ readSource(w) \/ prepare(w) \/ prepareFails(w)
         \/ renewProcessingClaim(w) \/ recordPreparedRevision(w) \/ bindRun(w) \/ acceptRefused(w)
         \/ reconcile(w) \/ crash(w)
  PROVE  quiet
<1>1. CASE startProcessing(w) \/ authorize(w) \/ readSource(w) \/ bindRun(w)
  BY <1>1 DEF startProcessing, authorize, readSource, bindRun, catalog, quiet
<1>2. CASE prepare(w) \/ prepareFails(w)
  BY <1>2 DEF prepare, prepareFails, catalog, quiet
<1>3. CASE acceptRefused(w) \/ reconcile(w) \/ crash(w)
  BY <1>3 DEF acceptRefused, reconcile, crash, catalog, quiet
<1>4. CASE renewProcessingClaim(w)
  BY <1>4 DEF renewProcessingClaim, quiet, TypeOK, OperationRecord
<1>5. CASE recordPreparedRevision(w)
  BY <1>5 DEF recordPreparedRevision, quiet, TypeOK, OperationRecord
<1> QED BY <1>1, <1>2, <1>3, <1>4, <1>5

\* Every step is quiet or one of the few that decide something.
LEMMA Effects ==
  ASSUME TypeOK, [Next]_vars
  PROVE  \/ quiet
         \/ \E r \in Runs, m \in Modes : openRun(r, m)
         \/ \E r \in Runs : abortRun(r) \/ expireActiveRun(r)
         \/ \E r \in Runs, w \in Workers : claimFinalization(w, r)
         \/ \E to \in {"active", "suspended", "deleted"} : transitionWorkspaceStatus(to)
         \/ \E w \in Workers : acceptRevision(w) \/ completeReadOnly(w) \/ failFinalization(w)
<1>1. CASE UNCHANGED vars
  BY <1>1 DEF vars, quiet
<1>2. CASE clientStep
  BY <1>2, QuietClient DEF clientStep
<1>3. CASE administratorStep
  <2>1. CASE Runs = {} /\ \E g \in {"held", "revoked"} : updateAuthority(g)
    BY <2>1 DEF updateAuthority, quiet
  <2> QED BY <1>3, <2>1, QuietClient DEF administratorStep
<1>4. CASE maintenanceStep
  BY <1>4, QuietClient, QuietClaim DEF maintenanceStep
<1>5. CASE workerStep
  BY <1>5, QuietWorker DEF workerStep, processOperation
<1>6. CASE deadlineStep
  BY <1>6, QuietClient, QuietClaim DEF deadlineStep
<1> QED BY <1>1, <1>2, <1>3, <1>4, <1>5, <1>6 DEF Next

\* What the steps that are not quiet do to the run they concern and to the others.
only(r) == \A q \in Runs \ {r} : run'[q] = run[q] /\ operation'[q] = operation[q]

\* An opened run pins the current head and workspace version.
LEMMA OpenRunEffect ==
  ASSUME TypeOK, NEW r \in Runs, NEW m \in Modes, openRun(r, m)
  PROVE  /\ run[r].state = "unopened" /\ run'[r].state = "active" /\ run'[r].mode = m
         /\ run'[r].base = workspace.head /\ run'[r].workspaceVersion = workspace.version
         /\ operation'[r] = operation[r] /\ only(r)
         /\ UNCHANGED <<workspace, accepted, revision>>
  BY DEF openRun, only, TypeOK, RunRecord

\* Ending a run changes its state and no other run.
LEMMA EndRunEffect ==
  ASSUME TypeOK, NEW r \in Runs, NEW s \in TerminalStates, endRun(r, s)
  PROVE  /\ run'[r].state = s /\ run'[r].mode = run[r].mode /\ run'[r].base = run[r].base
         /\ run'[r].workspaceVersion = run[r].workspaceVersion
         /\ \A q \in Runs \ {r} : run'[q] = run[q]
<1>1. run \in [Runs -> RunRecord]
  BY DEF TypeOK
<1> QED BY <1>1 DEF endRun, RunRecord

\* An abort or an expiry ends an active run and touches no operation.
LEMMA DropRunEffect ==
  ASSUME TypeOK, NEW r \in Runs, abortRun(r) \/ expireActiveRun(r)
  PROVE  /\ run[r].state = "active" /\ run'[r].state \in {"aborted", "expired"}
         /\ run'[r].mode = run[r].mode /\ run'[r].base = run[r].base
         /\ run'[r].workspaceVersion = run[r].workspaceVersion
         /\ operation'[r] = operation[r] /\ only(r)
         /\ UNCHANGED <<workspace, accepted, revision>>
  BY EndRunEffect
  DEF abortRun, expireActiveRun, clientCommand, active, only, TerminalStates

\* A finalization claim moves an active run to finalizing with a sealed source.
LEMMA ClaimFinalizationEffect ==
  ASSUME TypeOK, NEW r \in Runs, NEW w \in Workers, claimFinalization(w, r)
  PROVE  /\ run[r].state = "active" /\ run'[r].state = "finalizing"
         /\ run'[r].mode = run[r].mode /\ run'[r].base = run[r].base
         /\ run'[r].workspaceVersion = run[r].workspaceVersion
         /\ operation'[r].state = "processing"
         /\ operation'[r].digest = submission[r].digest
         /\ operation'[r].submissionVersion = submission[r].version
         /\ run[r].mode = "read-write" => submission[r].state = "sealed"
         /\ only(r)
         /\ UNCHANGED <<workspace, accepted, revision, submission>>
<1>1. run \in [Runs -> RunRecord] /\ operation \in [Runs -> OperationRecord]
  BY DEF TypeOK
<1>2. /\ run'[r].state = "finalizing"
      /\ run'[r].mode = run[r].mode /\ run'[r].base = run[r].base
      /\ run'[r].workspaceVersion = run[r].workspaceVersion
      /\ \A q \in Runs \ {r} : run'[q] = run[q]
  BY <1>1 DEF claimFinalization, RunRecord
<1> QED BY <1>1, <1>2 DEF claimFinalization, clientCommand, active, only

completed(w, r) ==
  /\ r = worker[w].run
  /\ run[r].state = "finalizing" /\ run'[r].state = "finalized"
  /\ run'[r].mode = run[r].mode /\ run'[r].base = run[r].base
  /\ run'[r].workspaceVersion = run[r].workspaceVersion
  /\ operation[r].state = "processing" /\ operation'[r].state = "succeeded"
  /\ operation'[r].digest = operation[r].digest
  /\ only(r)
  /\ \/ UNCHANGED <<workspace, accepted, revision>>
     \/ run[r].mode = "read-write" /\ ~headMoved(r) /\ publish(r, worker[w].candidate)
  /\ UNCHANGED submission

\* An acceptance or a read-only completion completes one undecided run.
LEMMA CompleteEffect ==
  ASSUME TypeOK, NEW w \in Workers, acceptRevision(w) \/ completeReadOnly(w)
  PROVE  \E r \in Runs : completed(w, r)
<1> DEFINE r == worker[w].run
<1>1. r \in Runs
  BY DEF acceptRevision, completeReadOnly, at, TypeOK
<1>2. finalizerError(w) = "none"
  BY DEF acceptRevision, completeReadOnly, acceptError
<1>3. operation[r].state = "processing" /\ run[r].state = "finalizing"
  BY <1>2 DEF finalizerError, processing
<1>4. completeFinalization(w, r)
  BY DEF acceptRevision, completeReadOnly
<1>5. /\ run'[r].state = "finalized" /\ run'[r].mode = run[r].mode /\ run'[r].base = run[r].base
      /\ run'[r].workspaceVersion = run[r].workspaceVersion
      /\ \A q \in Runs \ {r} : run'[q] = run[q]
  BY <1>1, <1>4, EndRunEffect DEF completeFinalization, TerminalStates
<1>6. /\ operation'[r].state = "succeeded" /\ operation'[r].digest = operation[r].digest
      /\ \A q \in Runs \ {r} : operation'[q] = operation[q]
  <2>1. operation \in [Runs -> OperationRecord]
    BY DEF TypeOK
  <2> QED BY <1>1, <1>4, <2>1 DEF completeFinalization, OperationRecord
<1>7. \/ UNCHANGED <<workspace, accepted, revision>>
      \/ run[r].mode = "read-write" /\ ~headMoved(r) /\ publish(r, worker[w].candidate)
  BY DEF acceptRevision, completeReadOnly, acceptError
<1>8. UNCHANGED submission
  BY DEF acceptRevision, completeReadOnly
<1> QED BY <1>1, <1>3, <1>5, <1>6, <1>7, <1>8 DEF only, completed

rejected(r) ==
  /\ run[r].state = "finalizing" /\ run'[r].state \in {"conflicted", "failed"}
  /\ run'[r].mode = run[r].mode /\ run'[r].base = run[r].base
  /\ run'[r].workspaceVersion = run[r].workspaceVersion
  /\ operation'[r].state = "failed"
  /\ r \notin accepted /\ only(r)
  /\ UNCHANGED <<workspace, accepted, revision, submission>>

\* A failed finalization rejects one undecided run, or is refused.
LEMMA FailEffect ==
  ASSUME TypeOK, NEW w \in Workers, failFinalization(w)
  PROVE  quiet \/ \E r \in Runs : rejected(r)
<1> DEFINE r == worker[w].run
<1>1. r \in Runs
  BY DEF failFinalization, at, TypeOK
<1>2. CASE UNCHANGED <<run, cleanup, outbox, operation>>
  BY <1>2 DEF failFinalization, quiet
<1>3. CASE /\ run[r].state = "finalizing" /\ r \notin accepted
           /\ \E s \in {"conflicted", "failed"} : endRun(r, s)
           /\ operation' = [operation EXCEPT ![r].state = "failed", ![r].version = @ + 1]
  <2>1. /\ run'[r].state \in {"conflicted", "failed"}
        /\ run'[r].mode = run[r].mode /\ run'[r].base = run[r].base
        /\ run'[r].workspaceVersion = run[r].workspaceVersion
        /\ \A q \in Runs \ {r} : run'[q] = run[q]
    BY <1>1, <1>3, EndRunEffect DEF TerminalStates
  <2>2. operation'[r].state = "failed" /\ \A q \in Runs \ {r} : operation'[q] = operation[q]
    <3>1. operation \in [Runs -> OperationRecord]
      BY DEF TypeOK
    <3> QED BY <1>1, <1>3, <3>1 DEF OperationRecord
  <2> QED BY <1>1, <1>3, <2>1, <2>2 DEF failFinalization, only, rejected
<1> QED BY <1>2, <1>3 DEF failFinalization

-----------------------------------------------------------------------------
(* Run, operation and history agree *)

\* OutcomeAgreement is inductive relative to the types: the step that decides a
\* run finds it finalizing, so its operation is processing and it is not accepted.
LEMMA OutcomeAgreementNext == TypeOK /\ OutcomeAgreement /\ [Next]_vars => OutcomeAgreement'
<1> SUFFICES ASSUME TypeOK, OutcomeAgreement, [Next]_vars PROVE OutcomeAgreement'
  OBVIOUS
<1>1. CASE quiet
  BY <1>1 DEF quiet, OutcomeAgreement
<1>2. CASE \E r \in Runs, m \in Modes : openRun(r, m)
  <2> PICK r \in Runs, m \in Modes : openRun(r, m)
    BY <1>2
  <2> QED BY OpenRunEffect DEF OutcomeAgreement, only
<1>3. CASE \E r \in Runs : abortRun(r) \/ expireActiveRun(r)
  <2> PICK r \in Runs : abortRun(r) \/ expireActiveRun(r)
    BY <1>3
  <2> QED BY DropRunEffect DEF OutcomeAgreement, only
<1>4. CASE \E r \in Runs, w \in Workers : claimFinalization(w, r)
  <2> PICK r \in Runs, w \in Workers : claimFinalization(w, r)
    BY <1>4
  <2> QED BY ClaimFinalizationEffect DEF OutcomeAgreement, only
<1>5. CASE \E to \in {"active", "suspended", "deleted"} : transitionWorkspaceStatus(to)
  BY <1>5 DEF transitionWorkspaceStatus, OutcomeAgreement
<1>6. CASE \E w \in Workers : acceptRevision(w) \/ completeReadOnly(w)
  <2> PICK w \in Workers : acceptRevision(w) \/ completeReadOnly(w)
    BY <1>6
  <2>1. PICK r \in Runs : completed(w, r)
    BY CompleteEffect
  <2> QED BY <2>1 DEF OutcomeAgreement, completed, only, publish
<1>7. CASE \E w \in Workers : failFinalization(w)
  BY <1>1, <1>7, FailEffect DEF OutcomeAgreement, rejected, only
<1> QED BY <1>1, <1>2, <1>3, <1>4, <1>5, <1>6, <1>7, Effects

\* The outcomes agree initially.
LEMMA OutcomeAgreementInit == Init => OutcomeAgreement
<1> SUFFICES ASSUME Init, NEW r \in Runs
             PROVE  run[r].state = "unopened" /\ operation[r].state = "absent" /\ r \notin accepted
  BY DEF OutcomeAgreement
<1> QED BY IdentityAssumption DEF Init, NewRun, NewOperation

\* Run, operation and accepted history agree in every reachable state.
THEOREM OutcomesAgree == Spec => []OutcomeAgreement
  BY TypeCorrect, OutcomeAgreementInit, OutcomeAgreementNext, PTL DEF Spec

-----------------------------------------------------------------------------
(* Accepted history is linear *)

\* The initial history is one chain.
LEMMA LinearHistoryInit == Init => LinearHistory
  BY DEF Init, LinearHistory

\* Publishing run r extends the chain at its head: r was not accepted, so no
\* link ends at r, and the head had no child, so r is its first.
LEMMA LinearHistoryPublish ==
  ASSUME TypeOK, LinearHistory, NEW r \in Runs, NEW d, r \notin accepted, ~headMoved(r),
         publish(r, d)
  PROVE  LinearHistory'
<1>1. r # Root
  BY IdentityAssumption
<1>2. workspace'.head = r /\ accepted' = accepted \cup {r} /\ run[r].base = workspace.head
  BY DEF publish, headMoved, TypeOK, WorkspaceRecord
<1>3. r \in Revisions /\ accepted \subseteq Revisions /\ revision \in [Revisions -> RevisionRecord]
  BY DEF TypeOK, Revisions
<1>4. revision'[r].parent = workspace.head /\ \A v \in accepted : revision'[v] = revision[v]
  BY <1>2, <1>3 DEF publish
<1>5. workspace.head \in accepted
  BY DEF LinearHistory
<1>6. ASSUME NEW v \in accepted' \ {Root}
      PROVE  revision'[v].parent \in accepted /\ (v # r => revision'[v].parent # workspace.head)
  BY <1>2, <1>4, <1>5, <1>6 DEF LinearHistory
<1>7. ASSUME NEW v \in accepted' \ {Root}, NEW u \in accepted' \ {Root},
             revision'[u].parent = revision'[v].parent
      PROVE  u = v
  BY <1>2, <1>4, <1>6, <1>7 DEF LinearHistory
<1> QED BY <1>1, <1>2, <1>6, <1>7 DEF LinearHistory

\* Every step keeps history linear: only a publication on the current head extends it.
LEMMA LinearHistoryNext ==
  TypeOK /\ OutcomeAgreement /\ LinearHistory /\ [Next]_vars => LinearHistory'
<1> SUFFICES ASSUME TypeOK, OutcomeAgreement, LinearHistory, [Next]_vars PROVE LinearHistory'
  OBVIOUS
<1>1. CASE workspace'.head = workspace.head /\ UNCHANGED <<accepted, revision>>
  BY <1>1 DEF LinearHistory
<1>2. CASE \E w \in Workers : acceptRevision(w) \/ completeReadOnly(w)
  <2> PICK w \in Workers : acceptRevision(w) \/ completeReadOnly(w)
    BY <1>2
  <2>1. PICK r \in Runs : completed(w, r)
    BY CompleteEffect
  <2>2. r \notin accepted
    BY <2>1 DEF completed, OutcomeAgreement
  <2> QED BY <1>1, <2>1, <2>2, LinearHistoryPublish DEF completed
<1>3. CASE \E to \in {"active", "suspended", "deleted"} : transitionWorkspaceStatus(to)
  BY <1>1, <1>3 DEF transitionWorkspaceStatus, TypeOK, WorkspaceRecord
<1>4. CASE quiet \/ \E w \in Workers : failFinalization(w)
  BY <1>1, <1>4, FailEffect DEF quiet, rejected
<1>5. CASE \/ \E r \in Runs, m \in Modes : openRun(r, m)
           \/ \E r \in Runs : abortRun(r) \/ expireActiveRun(r)
           \/ \E r \in Runs, w \in Workers : claimFinalization(w, r)
  BY <1>1, <1>5, OpenRunEffect, DropRunEffect, ClaimFinalizationEffect
<1> QED BY <1>2, <1>3, <1>4, <1>5, Effects

\* No publication is ever lost or forked off.
THEOREM HistoryIsLinear == Spec => []LinearHistory
  BY TypeCorrect, OutcomesAgree, LinearHistoryInit, LinearHistoryNext, PTL DEF Spec

-----------------------------------------------------------------------------
(* The workspace version pins the head *)

\* No run has pinned a version initially.
LEMMA VersionPinsHeadInit == Init => VersionPinsHead
  BY DEF Init, VersionPinsHead, NewRun

\* Every step that moves the head moves the version past every pinned version.
LEMMA VersionPinsHeadNext == TypeOK /\ VersionPinsHead /\ [Next]_vars => VersionPinsHead'
<1> SUFFICES ASSUME TypeOK, VersionPinsHead, [Next]_vars PROVE VersionPinsHead'
  OBVIOUS
<1>0. /\ workspace.version \in Nat /\ \A r \in Runs : run[r].workspaceVersion \in Nat
  BY Counters DEF TypeOK, RunRecord
<1>1. CASE quiet
  BY <1>1 DEF quiet, VersionPinsHead
<1>2. CASE \E r \in Runs, m \in Modes : openRun(r, m)
  <2> PICK r \in Runs, m \in Modes : openRun(r, m)
    BY <1>2
  <2> QED BY <1>0, OpenRunEffect DEF VersionPinsHead, only
<1>3. CASE \E r \in Runs : abortRun(r) \/ expireActiveRun(r)
  <2> PICK r \in Runs : abortRun(r) \/ expireActiveRun(r)
    BY <1>3
  <2> QED BY DropRunEffect DEF VersionPinsHead, only
<1>4. CASE \E r \in Runs, w \in Workers : claimFinalization(w, r)
  <2> PICK r \in Runs, w \in Workers : claimFinalization(w, r)
    BY <1>4
  <2> QED BY ClaimFinalizationEffect DEF VersionPinsHead, only
<1>5. CASE \E to \in {"active", "suspended", "deleted"} : transitionWorkspaceStatus(to)
  <2>1. workspace'.version = workspace.version + 1 /\ UNCHANGED run
    BY <1>5 DEF transitionWorkspaceStatus, TypeOK, WorkspaceRecord
  <2> QED BY <1>0, <2>1 DEF VersionPinsHead
<1>6. CASE \E w \in Workers : acceptRevision(w) \/ completeReadOnly(w)
  <2> PICK w \in Workers : acceptRevision(w) \/ completeReadOnly(w)
    BY <1>6
  <2>1. PICK r \in Runs : completed(w, r)
    BY CompleteEffect
  <2>2. UNCHANGED workspace \/ workspace'.version = workspace.version + 1
    BY <2>1 DEF completed, publish, TypeOK, WorkspaceRecord
  <2>3. \A q \in Runs : /\ run'[q].workspaceVersion = run[q].workspaceVersion
                        /\ run'[q].base = run[q].base
                        /\ run'[q].state # "unopened" => run[q].state # "unopened"
    BY <2>1 DEF completed, only
  <2> QED BY <1>0, <2>2, <2>3 DEF VersionPinsHead
<1>7. CASE \E w \in Workers : failFinalization(w)
  BY <1>1, <1>7, FailEffect DEF VersionPinsHead, rejected, only
<1> QED BY <1>1, <1>2, <1>3, <1>4, <1>5, <1>6, <1>7, Effects

\* A run whose pinned workspace version is current has the current head as its base.
THEOREM VersionsPinHeads == Spec => []VersionPinsHead
  BY TypeCorrect, VersionPinsHeadInit, VersionPinsHeadNext, PTL DEF Spec

-----------------------------------------------------------------------------
(* Recoverable finalizations retain their source *)

\* No finalization has selected a source initially.
LEMMA SourceRetainedInit == Init => SourceRetained
  BY DEF Init, SourceRetained, selected, NewOperation

\* A step that touches the submission of r finds r active or not selected.
LEMMA SubmissionEffect ==
  ASSUME TypeOK, OutcomeAgreement, [Next]_vars, NEW r \in Runs, selected(r)
  PROVE  /\ submission'[r].state = submission[r].state
         /\ submission'[r].version = submission[r].version
         /\ submission'[r].digest = submission[r].digest
<1>0. submission \in [Runs -> SubmissionRecord] /\ run[r].state # "active"
  BY DEF TypeOK, OutcomeAgreement, selected
<1>1. CASE UNCHANGED submission
  BY <1>1
<1>2. CASE \E q \in Runs : \/ createSubmission(q) \/ (\E d \in Digests : sealSubmission(q, d))
                           \/ expireSubmission(q) \/ claimSubmissionCollection(q)
  <2> PICK q \in Runs : \/ createSubmission(q) \/ (\E d \in Digests : sealSubmission(q, d))
                        \/ expireSubmission(q) \/ claimSubmissionCollection(q)
    BY <1>2
  <2>1. q # r
    BY <1>0 DEF createSubmission, sealSubmission, expireSubmission, claimSubmissionCollection,
                submissionCollectable, clientCommand, active
  <2> QED BY <1>0, <2>1 DEF createSubmission, sealSubmission, expireSubmission,
                            claimSubmissionCollection
<1>3. CASE \E q \in Runs : submissionLapses(q)
  BY <1>0, <1>3 DEF submissionLapses, SubmissionRecord
<1>4. CASE clientStep \/ administratorStep \/ maintenanceStep
  BY <1>1, <1>2, <1>4
  DEF clientStep, administratorStep, maintenanceStep, openRun, renewRunLease, abortRun,
      claimFinalization, transitionWorkspaceStatus, updateAuthority, expireActiveRun, claimRecovery
<1>5. CASE workerStep
  BY <1>1, <1>5
  DEF workerStep, processOperation, startProcessing, authorize, readSource, prepare, prepareFails,
      renewProcessingClaim, recordPreparedRevision, bindRun, acceptRevision, completeReadOnly,
      acceptRefused, reconcile, failFinalization, crash, catalog
<1>6. CASE deadlineStep
  BY <1>1, <1>3, <1>6 DEF deadlineStep, leaseLapses, claimLapses
<1> QED BY <1>1, <1>4, <1>5, <1>6 DEF Next, vars

\* Every step keeps the selected source as it was selected.
LEMMA SourceRetainedNext ==
  TypeOK /\ OutcomeAgreement /\ SourceRetained /\ [Next]_vars => SourceRetained'
<1> SUFFICES ASSUME TypeOK, OutcomeAgreement, SourceRetained, [Next]_vars,
                    NEW r \in Runs, selected(r)'
             PROVE  sourceMatches(r)'
  BY DEF SourceRetained
<1>1. ASSUME operation'[r].state = operation[r].state, run'[r].mode = run[r].mode,
             operation'[r].digest = operation[r].digest,
             operation'[r].submissionVersion = operation[r].submissionVersion
      PROVE  sourceMatches(r)'
  <2>1. selected(r) /\ sourceMatches(r)
    BY <1>1 DEF selected, SourceRetained
  <2> QED BY <1>1, <2>1, SubmissionEffect DEF sourceMatches
<1>2. CASE quiet
  BY <1>1, <1>2 DEF quiet
<1>3. CASE \E q \in Runs, m \in Modes : openRun(q, m)
  <2> PICK q \in Runs, m \in Modes : openRun(q, m)
    BY <1>3
  <2>1. q # r
    BY OpenRunEffect DEF selected, OutcomeAgreement
  <2> QED BY <1>1, <2>1, OpenRunEffect DEF only
<1>4. CASE \E q \in Runs : abortRun(q) \/ expireActiveRun(q)
  <2> PICK q \in Runs : abortRun(q) \/ expireActiveRun(q)
    BY <1>4
  <2> QED BY <1>1, DropRunEffect DEF only
<1>5. CASE \E q \in Runs, w \in Workers : claimFinalization(w, q)
  <2> PICK q \in Runs, w \in Workers : claimFinalization(w, q)
    BY <1>5
  <2>1. CASE q = r
    BY <2>1, ClaimFinalizationEffect DEF selected, sourceMatches
  <2>2. CASE q # r
    BY <1>1, <2>2, ClaimFinalizationEffect DEF only
  <2> QED BY <2>1, <2>2
<1>6. CASE \E to \in {"active", "suspended", "deleted"} : transitionWorkspaceStatus(to)
  BY <1>1, <1>6 DEF transitionWorkspaceStatus
<1>7. CASE \E w \in Workers : acceptRevision(w) \/ completeReadOnly(w)
  <2> PICK w \in Workers : acceptRevision(w) \/ completeReadOnly(w)
    BY <1>7
  <2>1. PICK q \in Runs : completed(w, q)
    BY CompleteEffect
  <2>2. q # r
    BY <2>1 DEF completed, selected
  <2> QED BY <1>1, <2>1, <2>2 DEF completed, only
<1>8. CASE \E w \in Workers : failFinalization(w)
  <2>1. CASE \E q \in Runs : rejected(q)
    <3> PICK q \in Runs : rejected(q)
      BY <2>1
    <3>1. q # r
      BY DEF rejected, selected
    <3> QED BY <1>1, <3>1 DEF rejected, only
  <2> QED BY <1>2, <1>8, <2>1, FailEffect
<1> QED BY <1>2, <1>3, <1>4, <1>5, <1>6, <1>7, <1>8, Effects

\* The sealed submission a processing finalization selected stays as it was selected.
THEOREM SourcesAreRetained == Spec => []SourceRetained
  BY TypeCorrect, OutcomesAgree, SourceRetainedInit, SourceRetainedNext, PTL DEF Spec

-----------------------------------------------------------------------------
(* The catalog implements the abstract history *)

\* The refinement mapping, by name.
chainOf == {<<v, revision[v].parent>> : v \in accepted \ {Root}}
pinnedOf == [r \in Runs |-> run[r].base]
outcomeOf == [r \in Runs |-> RunOutcome(r)]

\* The catalog starts with no run opened and nothing but the initial revision.
LEMMA HistoryStarts == Init => History!HistoryInit
<1> SUFFICES ASSUME Init PROVE chainOf = {} /\ workspace.head = Root
                               /\ pinnedOf = [r \in Runs |-> Root]
                               /\ outcomeOf = [r \in Runs |-> "unopened"]
  BY DEF History!HistoryInit, chainOf, pinnedOf, outcomeOf
<1>1. \A r \in Runs : run[r].base = Root /\ run[r].state = "unopened"
  BY DEF Init, NewRun
<1> QED BY <1>1 DEF Init, chainOf, pinnedOf, outcomeOf, RunOutcome

\* A step that concerns one run changes the abstract record of that run only.
LEMMA HistoryFrame ==
  ASSUME NEW r \in Runs, \A q \in Runs \ {r} : run'[q] = run[q],
         accepted' \subseteq accepted \cup {r}, accepted \subseteq accepted'
  PROVE  /\ outcomeOf' = [outcomeOf EXCEPT ![r] = RunOutcome(r)']
         /\ pinnedOf' = [pinnedOf EXCEPT ![r] = run'[r].base]
<1>1. \A q \in Runs \ {r} : RunOutcome(q)' = RunOutcome(q) /\ run'[q].base = run[q].base
  BY DEF RunOutcome
<1> QED BY <1>1 DEF outcomeOf, pinnedOf

\* Every step of the catalog is a step of the abstract history or a stutter.
LEMMA HistoryAdvances ==
  ASSUME TypeOK, OutcomeAgreement, [Next]_vars
  PROVE  [History!HistoryNext]_(History!historyVars)
<1>0. ASSUME UNCHANGED <<chainOf, workspace, pinnedOf, outcomeOf>>
      PROVE  UNCHANGED History!historyVars
  BY <1>0 DEF History!historyVars, chainOf, pinnedOf, outcomeOf
<1>1. CASE quiet
  <2>1. \A r \in Runs : RunOutcome(r)' = RunOutcome(r) /\ run'[r].base = run[r].base
    BY <1>1 DEF quiet, RunOutcome
  <2>2. UNCHANGED <<chainOf, workspace, pinnedOf, outcomeOf>>
    BY <1>1, <2>1 DEF quiet, chainOf, pinnedOf, outcomeOf
  <2> QED BY <1>0, <2>2
<1>2. CASE \E r \in Runs, m \in Modes : openRun(r, m)
  <2> PICK r \in Runs, m \in Modes : openRun(r, m)
    BY <1>2
  <2>1. outcomeOf' = [outcomeOf EXCEPT ![r] = "open"] /\ pinnedOf' = [pinnedOf EXCEPT ![r] = workspace.head]
    BY OpenRunEffect, HistoryFrame DEF only, RunOutcome
  <2>2. outcomeOf[r] = "unopened" /\ UNCHANGED <<chainOf, workspace>>
    BY OpenRunEffect DEF outcomeOf, RunOutcome, chainOf
  <2>3. History!Open(r)
    BY <2>1, <2>2 DEF History!Open, chainOf, pinnedOf, outcomeOf
  <2> QED BY <2>3 DEF History!HistoryNext
<1>3. ASSUME NEW r \in Runs, run[r].state \in {"active", "finalizing"},
             run'[r].state \in TerminalStates \ {"finalized"}, run'[r].base = run[r].base,
             only(r), UNCHANGED <<workspace, accepted, revision>>
      PROVE  History!HistoryNext
  <2>1. /\ outcomeOf' = [outcomeOf EXCEPT ![r] = "rejected"]
        /\ pinnedOf' = [pinnedOf EXCEPT ![r] = run[r].base]
    BY <1>3, HistoryFrame DEF only, RunOutcome, TerminalStates
  <2>2. outcomeOf[r] = "open" /\ UNCHANGED <<chainOf, workspace, pinnedOf>>
    <3>1. outcomeOf[r] = "open"
      BY <1>3 DEF outcomeOf, RunOutcome
    <3>2. UNCHANGED <<chainOf, workspace>>
      BY <1>3 DEF chainOf
    <3>3. UNCHANGED pinnedOf
      BY <2>1 DEF pinnedOf
    <3> QED BY <3>1, <3>2, <3>3
  <2>3. History!Reject(r)
    BY <2>1, <2>2 DEF History!Reject, chainOf, pinnedOf, outcomeOf
  <2> QED BY <2>3 DEF History!HistoryNext
<1>4. CASE \E r \in Runs : abortRun(r) \/ expireActiveRun(r)
  BY <1>3, <1>4, DropRunEffect DEF TerminalStates
<1>5. CASE \E r \in Runs, w \in Workers : claimFinalization(w, r)
  <2> PICK r \in Runs, w \in Workers : claimFinalization(w, r)
    BY <1>5
  <2>1. \A q \in Runs : RunOutcome(q)' = RunOutcome(q) /\ run'[q].base = run[q].base
    BY ClaimFinalizationEffect DEF only, RunOutcome
  <2>2. UNCHANGED <<chainOf, workspace, pinnedOf, outcomeOf>>
    BY <2>1, ClaimFinalizationEffect DEF chainOf, pinnedOf, outcomeOf
  <2> QED BY <1>0, <2>2
<1>6. CASE \E to \in {"active", "suspended", "deleted"} : transitionWorkspaceStatus(to)
  <2>1. workspace'.head = workspace.head /\ UNCHANGED <<run, accepted, revision>>
    BY <1>6 DEF transitionWorkspaceStatus, TypeOK, WorkspaceRecord
  <2> QED BY <2>1 DEF History!historyVars, RunOutcome
<1>7. CASE \E w \in Workers : acceptRevision(w) \/ completeReadOnly(w)
  <2> PICK w \in Workers : acceptRevision(w) \/ completeReadOnly(w)
    BY <1>7
  <2>1. PICK r \in Runs : completed(w, r)
    BY CompleteEffect
  <2>2. r \notin accepted /\ outcomeOf[r] = "open"
    BY <2>1 DEF completed, OutcomeAgreement, outcomeOf, RunOutcome
  <2>3. CASE UNCHANGED <<workspace, accepted, revision>>
    <3>1. /\ outcomeOf' = [outcomeOf EXCEPT ![r] = "unchanged"]
          /\ pinnedOf' = [pinnedOf EXCEPT ![r] = run[r].base]
      BY <2>1, <2>2, <2>3, HistoryFrame DEF completed, only, RunOutcome
    <3>2. UNCHANGED <<chainOf, workspace, pinnedOf>>
      BY <2>3, <3>1 DEF chainOf, pinnedOf
    <3>3. History!Conclude(r)
      BY <2>2, <3>1, <3>2 DEF History!Conclude, chainOf, pinnedOf, outcomeOf
    <3> QED BY <3>3 DEF History!HistoryNext
  <2>4. CASE ~headMoved(r) /\ publish(r, worker[w].candidate)
    <3>1. /\ outcomeOf' = [outcomeOf EXCEPT ![r] = "published"]
          /\ pinnedOf' = [pinnedOf EXCEPT ![r] = run[r].base]
      BY <2>1, <2>4, HistoryFrame DEF completed, only, publish, RunOutcome
    <3>2. pinnedOf[r] = workspace.head /\ workspace'.head = r /\ UNCHANGED pinnedOf
      BY <2>4, <3>1 DEF pinnedOf, headMoved, publish, TypeOK, WorkspaceRecord
    <3>3. chainOf' = chainOf \cup {<<r, pinnedOf[r]>>}
      <4>1. r \in Revisions /\ accepted \subseteq Revisions /\ r # Root
        BY IdentityAssumption DEF TypeOK, Revisions
      <4>2. /\ \A v \in accepted : revision'[v] = revision[v]
            /\ revision'[r].parent = pinnedOf[r]
            /\ accepted' = accepted \cup {r}
        BY <2>2, <2>4, <4>1 DEF publish, pinnedOf, TypeOK
      <4> QED BY <4>1, <4>2 DEF chainOf
    <3>4. History!Publish(r)
      BY <2>2, <3>1, <3>2, <3>3 DEF History!Publish, chainOf, pinnedOf, outcomeOf
    <3> QED BY <3>4 DEF History!HistoryNext
  <2> QED BY <2>1, <2>3, <2>4 DEF completed
<1>8. CASE \E w \in Workers : failFinalization(w)
  BY <1>1, <1>3, <1>8, FailEffect DEF rejected, TerminalStates
<1> QED BY <1>1, <1>2, <1>4, <1>5, <1>6, <1>7, <1>8, Effects

\* The catalog, its workers and its maintenance implement the abstract history.
THEOREM CatalogImplementsHistory == Spec => ImplementsHistory
  BY TypeCorrect, OutcomesAgree, HistoryStarts, HistoryAdvances, PTL
  DEF Spec, ImplementsHistory, History!HistorySpec

-----------------------------------------------------------------------------
(* Outcomes are final.  A step changes the record of one run at most, and    *)
(* that run is not decided; likewise for operations and stored candidates.   *)

leaseKept(r) ==
  run[r].lease = "expired" /\ run[r].state = "active" =>
     run'[r].lease = "expired" /\ run'[r].state \in {"active", "expired"}

runMoves ==
  \/ UNCHANGED run
  \/ \E r \in Runs : /\ run[r].state \notin TerminalStates /\ leaseKept(r)
                     /\ \A q \in Runs \ {r} : run'[q] = run[q]

operationMoves ==
  \/ UNCHANGED operation
  \/ \E r \in Runs : /\ operation[r].state \notin {"succeeded", "failed"}
                     /\ \A q \in Runs \ {r} : operation'[q] = operation[q]

preparedMoves == UNCHANGED prepared \/ \E r \in Runs : storeCandidate(r)

\* A client only moves a run it finds active with a live lease, or opens one.
LEMMA MovesClient ==
  ASSUME TypeOK, OutcomeAgreement, clientStep \/ administratorStep
  PROVE  runMoves /\ operationMoves /\ preparedMoves
<1> DEFINE Goal == runMoves /\ operationMoves /\ preparedMoves
<1>0. run \in [Runs -> RunRecord] /\ operation \in [Runs -> OperationRecord]
  BY DEF TypeOK
<1>1. ASSUME NEW r \in Runs, NEW m \in Modes, openRun(r, m) PROVE Goal
  BY <1>0, <1>1 DEF openRun, runMoves, operationMoves, preparedMoves, leaseKept, TerminalStates
<1>2. ASSUME NEW r \in Runs, clientCommand(r), \A q \in Runs \ {r} : run'[q] = run[q]
      PROVE  runMoves
  BY <1>2 DEF runMoves, clientCommand, active, leaseKept, TerminalStates
<1>3. ASSUME NEW r \in Runs, renewRunLease(r) \/ abortRun(r) PROVE Goal
  BY <1>0, <1>2, <1>3 DEF renewRunLease, abortRun, endRun, operationMoves, preparedMoves
<1>4. ASSUME NEW r \in Runs, createSubmission(r) \/ \E d \in Digests : sealSubmission(r, d)
      PROVE  Goal
  BY <1>4 DEF createSubmission, sealSubmission, runMoves, operationMoves, preparedMoves
<1>5. ASSUME NEW r \in Runs, NEW w \in Workers, claimFinalization(w, r) PROVE Goal
  <2>1. runMoves
    BY <1>0, <1>2, <1>5 DEF claimFinalization
  <2>2. operation[r].state \notin {"succeeded", "failed"}
    BY <1>5 DEF claimFinalization, clientCommand, active, OutcomeAgreement
  <2>3. operationMoves
    BY <1>0, <1>5, <2>2 DEF claimFinalization, operationMoves
  <2> QED BY <1>5, <2>1, <2>3 DEF claimFinalization, preparedMoves
<1>6. CASE administratorStep
  BY <1>6 DEF administratorStep, transitionWorkspaceStatus, updateAuthority, runMoves,
              operationMoves, preparedMoves
<1> QED BY <1>1, <1>3, <1>4, <1>5, <1>6 DEF clientStep

\* Maintenance and deadlines move active runs and processing operations only.
LEMMA MovesMaintenance ==
  ASSUME TypeOK, maintenanceStep \/ deadlineStep
  PROVE  runMoves /\ operationMoves /\ preparedMoves
<1> DEFINE Goal == runMoves /\ operationMoves /\ preparedMoves
<1>0. run \in [Runs -> RunRecord] /\ operation \in [Runs -> OperationRecord]
  BY DEF TypeOK
<1>1. ASSUME NEW r \in Runs, expireActiveRun(r) PROVE Goal
  <2>1. run'[r].state = "expired" /\ run'[r].lease = run[r].lease
    BY <1>0, <1>1 DEF expireActiveRun, endRun, RunRecord
  <2> QED BY <1>0, <1>1, <2>1 DEF expireActiveRun, endRun, runMoves, operationMoves,
                                  preparedMoves, leaseKept, TerminalStates
<1>2. ASSUME NEW r \in Runs, leaseLapses(r) PROVE Goal
  BY <1>0, <1>2 DEF leaseLapses, runMoves, operationMoves, preparedMoves, leaseKept, TerminalStates
<1>3. ASSUME NEW r \in Runs,
             expireSubmission(r) \/ claimSubmissionCollection(r) \/ submissionLapses(r)
      PROVE  Goal
  BY <1>3 DEF expireSubmission, claimSubmissionCollection, submissionLapses, runMoves,
              operationMoves, preparedMoves
<1>4. ASSUME NEW r \in Runs, claimLapses(r) \/ \E w \in Workers : claimRecovery(w, r)
      PROVE  Goal
  BY <1>0, <1>4 DEF claimLapses, claimRecovery, runMoves, operationMoves, preparedMoves
<1> QED BY <1>1, <1>2, <1>3, <1>4 DEF maintenanceStep, deadlineStep

\* A worker moves its own finalizing run and its own processing operation only.
LEMMA MovesWorker ==
  ASSUME TypeOK, workerStep
  PROVE  runMoves /\ operationMoves /\ preparedMoves
<1> DEFINE Goal == runMoves /\ operationMoves /\ preparedMoves
<1>0. run \in [Runs -> RunRecord] /\ operation \in [Runs -> OperationRecord]
  BY DEF TypeOK
<1> PICK w \in Workers : processOperation(w) \/ prepareFails(w) \/ renewProcessingClaim(w) \/ crash(w)
  BY DEF workerStep
<1> DEFINE r == worker[w].run
<1>1. worker[w].step # "idle" => r \in Runs
  BY DEF TypeOK
<1>2. CASE \/ startProcessing(w) \/ authorize(w) \/ readSource(w) \/ bindRun(w)
           \/ acceptRefused(w) \/ reconcile(w) \/ crash(w)
  BY <1>2 DEF startProcessing, authorize, readSource, bindRun, acceptRefused, reconcile, crash,
              catalog, runMoves, operationMoves, preparedMoves
<1>3. CASE prepare(w) \/ prepareFails(w)
  <2>1. r \in Runs
    BY <1>1, <1>3 DEF prepare, prepareFails, at
  <2> QED BY <1>3, <2>1 DEF prepare, prepareFails, catalog, runMoves, operationMoves, preparedMoves
<1>4. CASE renewProcessingClaim(w)
  <2>1. r \in Runs
    BY <1>1, <1>4 DEF renewProcessingClaim, at
  <2> QED BY <1>0, <1>4, <2>1 DEF renewProcessingClaim, processing, runMoves, operationMoves,
                                  preparedMoves
<1>5. CASE recordPreparedRevision(w)
  <2>1. r \in Runs
    BY <1>1, <1>5 DEF recordPreparedRevision, at
  <2>2. recordError(w) = "none" => operation[r].state = "processing"
    BY DEF recordError, processing
  <2> QED BY <1>0, <1>5, <2>1, <2>2 DEF recordPreparedRevision, runMoves, operationMoves,
                                        preparedMoves
<1>6. CASE acceptRevision(w) \/ completeReadOnly(w)
  <2>1. PICK q \in Runs : completed(w, q)
    BY <1>6, CompleteEffect
  <2> QED BY <1>6, <2>1 DEF completed, only, acceptRevision, completeReadOnly, runMoves,
                            operationMoves, preparedMoves, leaseKept, TerminalStates
<1>7. CASE failFinalization(w)
  <2>1. r \in Runs
    BY <1>1, <1>7 DEF failFinalization, at
  <2>2. CASE UNCHANGED <<run, cleanup, outbox, operation>>
    BY <1>7, <2>2 DEF failFinalization, runMoves, operationMoves, preparedMoves
  <2>3. CASE /\ run[r].state = "finalizing" /\ operation[r].state = "processing"
             /\ \E s \in {"conflicted", "failed"} : endRun(r, s)
             /\ operation' = [operation EXCEPT ![r].state = "failed", ![r].version = @ + 1]
    BY <1>0, <1>7, <2>1, <2>3 DEF failFinalization, endRun, runMoves, operationMoves,
                                  preparedMoves, leaseKept, TerminalStates
  <2> QED BY <1>7, <2>2, <2>3 DEF failFinalization, processing
<1> QED BY <1>2, <1>3, <1>4, <1>5, <1>6, <1>7 DEF processOperation

\* What every step does to runs, operations and stored candidates.
LEMMA Moves ==
  ASSUME TypeOK, OutcomeAgreement, [Next]_vars
  PROVE  runMoves /\ operationMoves /\ preparedMoves
<1>1. CASE UNCHANGED vars
  BY <1>1 DEF vars, runMoves, operationMoves, preparedMoves
<1> QED BY <1>1, MovesClient, MovesMaintenance, MovesWorker DEF Next

\* A step that touches accepted history publishes a run that was not accepted.
LEMMA HistoryGrows ==
  ASSUME TypeOK, OutcomeAgreement, [Next]_vars
  PROVE  accepted \subseteq accepted' /\ \A v \in accepted : revision'[v] = revision[v]
<1>1. CASE UNCHANGED <<accepted, revision>>
  BY <1>1
<1>2. CASE \E w \in Workers : acceptRevision(w) \/ completeReadOnly(w)
  <2> PICK w \in Workers : acceptRevision(w) \/ completeReadOnly(w)
    BY <1>2
  <2>1. PICK r \in Runs : completed(w, r)
    BY CompleteEffect
  <2>2. r \notin accepted
    BY <2>1 DEF completed, OutcomeAgreement
  <2> QED BY <1>1, <2>1, <2>2 DEF completed, publish, TypeOK
<1>3. CASE quiet \/ \E w \in Workers : failFinalization(w)
  BY <1>1, <1>3, FailEffect DEF quiet, rejected
<1>4. CASE \/ \E r \in Runs, m \in Modes : openRun(r, m)
           \/ \E r \in Runs : abortRun(r) \/ expireActiveRun(r)
           \/ \E r \in Runs, w \in Workers : claimFinalization(w, r)
           \/ \E to \in {"active", "suspended", "deleted"} : transitionWorkspaceStatus(to)
  BY <1>1, <1>4, OpenRunEffect, DropRunEffect, ClaimFinalizationEffect
  DEF transitionWorkspaceStatus
<1> QED BY <1>2, <1>3, <1>4, Effects

decided ==
  /\ \A r \in Runs :
       /\ run[r].state \in TerminalStates => run'[r] = run[r]
       /\ operation[r].state \in {"succeeded", "failed"} => operation'[r] = operation[r]
       /\ prepared[r] # NoDigest => prepared'[r] = prepared[r]
       /\ leaseKept(r)
  /\ accepted \subseteq accepted'
  /\ \A v \in accepted : revision'[v] = revision[v]

\* Every step leaves alone what is decided.
LEMMA DecidedStays == TypeOK /\ OutcomeAgreement /\ [Next]_vars => decided
<1> SUFFICES ASSUME TypeOK, OutcomeAgreement, [Next]_vars PROVE decided
  OBVIOUS
<1>1. \A r \in Runs : leaseKept(r) /\ (run[r].state \in TerminalStates => run'[r] = run[r])
  <2>1. CASE UNCHANGED run
    BY <2>1 DEF leaseKept
  <2>2. CASE ~UNCHANGED run
    <3> PICK q \in Runs : /\ run[q].state \notin TerminalStates /\ leaseKept(q)
                          /\ \A p \in Runs \ {q} : run'[p] = run[p]
      BY <2>2, Moves DEF runMoves
    <3> QED BY DEF leaseKept
  <2> QED BY <2>1, <2>2
<1>2. \A r \in Runs : operation[r].state \in {"succeeded", "failed"} => operation'[r] = operation[r]
  BY Moves DEF operationMoves
<1>3. \A r \in Runs : prepared[r] # NoDigest => prepared'[r] = prepared[r]
  BY Moves DEF preparedMoves, storeCandidate, TypeOK
<1> QED BY <1>1, <1>2, <1>3, HistoryGrows DEF decided

\* Nothing undoes an outcome: no step of a client, a worker or maintenance
\* changes a decided run or operation, an accepted revision or durable content.
THEOREM OutcomesStayFinal == Spec => OutcomesAreFinal
<1>1. decided =>
        /\ \A r \in Runs :
             /\ run[r].state \in TerminalStates => run'[r] = run[r]
             /\ operation[r].state \in {"succeeded", "failed"} => operation'[r] = operation[r]
             /\ prepared[r] # NoDigest => prepared'[r] = prepared[r]
             /\ run[r].lease = "expired" /\ run[r].state = "active" =>
                  run'[r].lease = "expired" /\ run'[r].state \in {"active", "expired"}
        /\ accepted \subseteq accepted'
        /\ \A v \in accepted : revision'[v] = revision[v]
  BY DEF decided, leaseKept
<1> QED BY <1>1, TypeCorrect, OutcomesAgree, DecidedStays, PTL DEF Spec, OutcomesAreFinal

-----------------------------------------------------------------------------
(* Accepted content is the sealed content *)

\* A candidate that an operation or a worker knows of is durable as they know it:
\* prepare reports what the store holds and the store never rewrites it.
CandidateStored ==
  /\ \A r \in Runs : operation[r].candidate # NoDigest => prepared[r] = operation[r].candidate
  /\ \A w \in Workers : worker[w].candidate # NoDigest =>
       worker[w].run \in Runs /\ prepared[worker[w].run] = worker[w].candidate

\* Nobody knows of a candidate initially.
LEMMA CandidateStoredInit == Init => CandidateStored
  BY DEF Init, CandidateStored, NewOperation, IdleWorker

\* What the candidates an operation or a worker knows of come from.
candidateMoves ==
  /\ \A r \in Runs : \/ operation'[r].candidate \in {NoDigest, operation[r].candidate}
                     \/ \E w \in Workers : /\ worker[w].run = r
                                           /\ operation'[r].candidate = worker[w].candidate
  /\ \A w \in Workers :
       \/ worker'[w].candidate = NoDigest
       \/ worker'[w].candidate = worker[w].candidate /\ worker'[w].run = worker[w].run
       \/ /\ worker[w].run \in Runs /\ worker'[w].run = worker[w].run
          /\ worker'[w].candidate \in {operation[worker[w].run].candidate, prepared'[worker[w].run]}

\* Candidates known after a step were known or stored before it.
LEMMA CandidateFrame ==
  ASSUME TypeOK, CandidateStored, decided, candidateMoves PROVE CandidateStored'
<1>1. \A r \in Runs : prepared[r] # NoDigest => prepared'[r] = prepared[r]
  BY DEF decided
<1>2. ASSUME NEW r \in Runs, operation'[r].candidate # NoDigest
      PROVE  prepared'[r] = operation'[r].candidate
  BY <1>1, <1>2 DEF candidateMoves, CandidateStored
<1>3. ASSUME NEW w \in Workers, worker'[w].candidate # NoDigest
      PROVE  worker'[w].run \in Runs /\ prepared'[worker'[w].run] = worker'[w].candidate
  <2>1. CASE worker'[w].candidate = worker[w].candidate /\ worker'[w].run = worker[w].run
    BY <1>1, <1>3, <2>1 DEF CandidateStored
  <2>2. CASE /\ worker[w].run \in Runs /\ worker'[w].run = worker[w].run
             /\ worker'[w].candidate = operation[worker[w].run].candidate
    BY <1>1, <1>3, <2>2 DEF CandidateStored
  <2>3. CASE /\ worker[w].run \in Runs /\ worker'[w].run = worker[w].run
             /\ worker'[w].candidate = prepared'[worker[w].run]
    BY <2>3
  <2> QED BY <1>3, <2>1, <2>2, <2>3 DEF candidateMoves
<1> QED BY <1>2, <1>3 DEF CandidateStored

workerQuiet ==
  \A v \in Workers : worker'[v].candidate = worker[v].candidate /\ worker'[v].run = worker[v].run

\* Moving on and raising an error keep the run and the candidate of every worker.
LEMMA WorkerQuiet ==
  ASSUME TypeOK, NEW w \in Workers,
         (\E s \in Steps : goto(w, s)) \/ (\E c \in Codes : raise(w, c))
  PROVE  workerQuiet
<1>1. worker \in [Workers -> WorkerRecord]
  BY DEF TypeOK
<1> QED BY <1>1 DEF goto, raise, workerQuiet, WorkerRecord

\* A worker that gives up forgets its candidate.
LEMMA WorkerForgets ==
  ASSUME TypeOK, NEW w \in Workers, giveUp(w)
  PROVE  \A v \in Workers : \/ worker'[v].candidate = NoDigest
                            \/ worker'[v].candidate = worker[v].candidate /\ worker'[v].run = worker[v].run
  BY DEF giveUp, IdleWorker, TypeOK

\* No step outside a worker's own learns of a candidate.
LEMMA CandidateOthers ==
  ASSUME TypeOK, clientStep \/ administratorStep \/ maintenanceStep \/ deadlineStep \/ UNCHANGED vars
  PROVE  candidateMoves
<1>0. operation \in [Runs -> OperationRecord] /\ worker \in [Workers -> WorkerRecord]
  BY DEF TypeOK
<1>1. CASE UNCHANGED <<operation, worker>>
  BY <1>1 DEF candidateMoves
<1>2. ASSUME NEW r \in Runs, NEW w \in Workers, claimFinalization(w, r) PROVE candidateMoves
  BY <1>0, <1>2 DEF claimFinalization, candidateMoves, IdleWorker
<1>3. ASSUME NEW r \in Runs, NEW w \in Workers, claimRecovery(w, r) PROVE candidateMoves
  <2>1. \A q \in Runs : operation'[q].candidate = operation[q].candidate
    BY <1>0, <1>3 DEF claimRecovery, OperationRecord
  <2>2. \A v \in Workers : worker'[v].candidate = NoDigest \/ worker'[v] = worker[v]
    BY <1>0, <1>3 DEF claimRecovery, IdleWorker
  <2> QED BY <2>1, <2>2 DEF candidateMoves
<1>4. ASSUME NEW r \in Runs, claimLapses(r) PROVE candidateMoves
  <2>1. \A q \in Runs : operation'[q].candidate = operation[q].candidate
    BY <1>0, <1>4 DEF claimLapses, OperationRecord
  <2> QED BY <1>4, <2>1 DEF claimLapses, candidateMoves
<1>5. CASE clientStep \/ administratorStep
  BY <1>1, <1>2, <1>5
  DEF clientStep, administratorStep, openRun, renewRunLease, abortRun, createSubmission,
      sealSubmission, transitionWorkspaceStatus, updateAuthority
<1>6. CASE maintenanceStep \/ deadlineStep
  BY <1>1, <1>3, <1>4, <1>6
  DEF maintenanceStep, deadlineStep, expireActiveRun, expireSubmission,
      claimSubmissionCollection, leaseLapses, submissionLapses
<1> QED BY <1>1, <1>5, <1>6 DEF vars

\* A worker learns of a candidate from its operation or from the store, and
\* records the one it knows.
LEMMA CandidateWorker ==
  ASSUME TypeOK, workerStep PROVE candidateMoves
<1>0. operation \in [Runs -> OperationRecord] /\ worker \in [Workers -> WorkerRecord]
  BY DEF TypeOK
<1> PICK w \in Workers : processOperation(w) \/ prepareFails(w) \/ renewProcessingClaim(w) \/ crash(w)
  BY DEF workerStep
<1> DEFINE r == worker[w].run
<1>1. worker[w].step # "idle" => r \in Runs
  BY DEF TypeOK
<1>2. ASSUME workerQuiet \/ giveUp(w),
             \A q \in Runs : operation'[q].candidate = operation[q].candidate
      PROVE  candidateMoves
  BY <1>2, WorkerForgets DEF workerQuiet, candidateMoves
<1>3. CASE startProcessing(w)
  <2>1. r \in Runs /\ UNCHANGED operation
    BY <1>1, <1>3 DEF startProcessing, at, catalog
  <2>2. CASE giveUp(w)
    BY <1>2, <2>1, <2>2
  <2>3. CASE worker' = [worker EXCEPT ![w] = [@ EXCEPT !.step = "authorize",
                          !.version = operation[r].version, !.candidate = operation[r].candidate]]
    <3>1. /\ worker'[w].candidate = operation[r].candidate /\ worker'[w].run = r
          /\ \A v \in Workers \ {w} : worker'[v] = worker[v]
      BY <1>0, <2>3 DEF WorkerRecord
    <3> QED BY <2>1, <3>1 DEF candidateMoves
  <2> QED BY <1>3, <2>2, <2>3 DEF startProcessing
<1>4. CASE authorize(w) \/ readSource(w) \/ acceptRefused(w)
  <2>1. workerQuiet
    <3>1. authorizeError(r) \in Codes /\ acceptError(w) \in Codes
      BY DEF authorizeError, acceptError, finalizerError, Codes
    <3> QED BY <1>4, <3>1, WorkerQuiet DEF authorize, readSource, acceptRefused, Steps, Codes
  <2> QED BY <1>2, <1>4, <2>1 DEF authorize, readSource, acceptRefused, catalog
<1>5. CASE prepare(w)
  <2>1. r \in Runs /\ UNCHANGED operation
    BY <1>1, <1>5 DEF prepare, at, catalog
  <2>2. CASE raise(w, "RECEIPT_MISMATCH")
    BY <1>2, <2>1, <2>2, WorkerQuiet DEF Codes
  <2>3. CASE worker' = [worker EXCEPT ![w].step = "record", ![w].candidate = prepared'[r]]
    <3>1. /\ worker'[w].candidate = prepared'[r] /\ worker'[w].run = r
          /\ \A v \in Workers \ {w} : worker'[v] = worker[v]
      BY <1>0, <2>3 DEF WorkerRecord
    <3> QED BY <2>1, <3>1 DEF candidateMoves
  <2> QED BY <1>5, <2>2, <2>3 DEF prepare
<1>6. CASE prepareFails(w)
  <2>1. \E c \in Codes : raise(w, c)
    BY <1>6 DEF prepareFails, Codes
  <2> QED BY <1>2, <1>6, <2>1, WorkerQuiet DEF prepareFails, catalog
<1>7. CASE renewProcessingClaim(w)
  <2>1. \A q \in Runs : operation'[q].candidate = operation[q].candidate
    BY <1>0, <1>7 DEF renewProcessingClaim, OperationRecord
  <2>2. workerQuiet
    <3>1. CASE worker' = [worker EXCEPT ![w].version = @ + 1]
      BY <1>0, <3>1 DEF workerQuiet, WorkerRecord
    <3> QED BY <1>7, <3>1, WorkerQuiet DEF renewProcessingClaim, Codes
  <2> QED BY <1>2, <2>1, <2>2
<1>8. CASE recordPreparedRevision(w)
  <2>1. r \in Runs
    BY <1>1, <1>8 DEF recordPreparedRevision, at
  <2>2. CASE recordError(w) # "none"
    <3>1. recordError(w) \in Codes
      BY DEF recordError, Codes
    <3> QED BY <1>2, <1>8, <2>2, <3>1, WorkerQuiet DEF recordPreparedRevision
  <2>3. CASE recordError(w) = "none"
    <3>1. workerQuiet
      BY <1>0, <1>8, <2>3 DEF recordPreparedRevision, workerQuiet, WorkerRecord
    <3>2. \A q \in Runs : \/ operation'[q].candidate = operation[q].candidate
                          \/ q = r /\ operation'[q].candidate = worker[w].candidate
      BY <1>0, <1>8, <2>1, <2>3 DEF recordPreparedRevision, OperationRecord
    <3> QED BY <3>1, <3>2 DEF workerQuiet, candidateMoves
  <2> QED BY <2>2, <2>3
<1>9. CASE bindRun(w)
  <2>1. workerQuiet
    <3>1. CASE raise(w, authorizeError(r))
      BY <3>1, WorkerQuiet DEF authorizeError, Codes
    <3>2. CASE worker' = [worker EXCEPT ![w].step = "accept", ![w].runVersion = run[r].version]
      BY <1>0, <3>2 DEF workerQuiet, WorkerRecord
    <3> QED BY <1>9, <3>1, <3>2 DEF bindRun
  <2> QED BY <1>2, <1>9, <2>1 DEF bindRun, catalog
<1>10. CASE acceptRevision(w) \/ completeReadOnly(w)
  <2>1. r \in Runs /\ completeFinalization(w, r)
    BY <1>1, <1>10 DEF acceptRevision, completeReadOnly, at
  <2>2. \A q \in Runs : operation'[q].candidate = operation[q].candidate
    BY <1>0, <2>1 DEF completeFinalization, OperationRecord
  <2> QED BY <1>2, <2>1, <2>2 DEF completeFinalization
<1>11. CASE reconcile(w) \/ crash(w)
  <2>1. workerQuiet \/ giveUp(w)
    BY <1>0, <1>11 DEF reconcile, crash, workerQuiet, WorkerRecord
  <2> QED BY <1>2, <1>11, <2>1 DEF reconcile, crash, catalog
<1>12. CASE failFinalization(w)
  <2>1. \A q \in Runs : operation'[q].candidate = operation[q].candidate
    BY <1>0, <1>12 DEF failFinalization, OperationRecord
  <2> QED BY <1>2, <1>12, <2>1 DEF failFinalization
<1> QED BY <1>3, <1>4, <1>5, <1>6, <1>7, <1>8, <1>9, <1>10, <1>11, <1>12 DEF processOperation

\* Every step keeps known candidates durable.
LEMMA CandidateStoredNext ==
  TypeOK /\ OutcomeAgreement /\ CandidateStored /\ [Next]_vars => CandidateStored'
  BY CandidateFrame, CandidateOthers, CandidateWorker, DecidedStays DEF Next

\* What a worker or an operation holds as its candidate is durable in the store.
LEMMA CandidatesAreStored == Spec => []CandidateStored
  BY TypeCorrect, OutcomesAgree, CandidateStoredInit, CandidateStoredNext, PTL DEF Spec

\* Nothing but the initial revision is accepted initially.
LEMMA AcceptedContentInit == Init => AcceptedContent
  BY IdentityAssumption DEF Init, AcceptedContent

\* A publication takes the candidate that is the sealed digest, differs from the
\* base and is durable.
LEMMA AcceptEffect ==
  ASSUME TypeOK, OutcomeAgreement, CandidateStored, [Next]_vars,
         NEW r \in Runs, r \in accepted', r \notin accepted
  PROVE  \E w \in Workers :
           /\ at(w, "accept") /\ worker[w].run = r /\ acceptError(w) = "none"
           /\ run[r].mode = "read-write"
           /\ changed(r, worker[w].candidate) /\ publish(r, worker[w].candidate)
           /\ completeFinalization(w, r) /\ UNCHANGED prepared
<1>1. ~quiet
  BY DEF quiet
<1>2. PICK w \in Workers : acceptRevision(w) \/ completeReadOnly(w) \/ failFinalization(w)
  BY <1>1, Effects, OpenRunEffect, DropRunEffect, ClaimFinalizationEffect
  DEF transitionWorkspaceStatus
<1>3. acceptRevision(w)
  BY <1>2 DEF completeReadOnly, failFinalization
<1>4. worker[w].run = r
  BY <1>3 DEF acceptRevision, publish
<1> QED BY <1>3, <1>4 DEF acceptRevision, publish

\* Every step keeps accepted content: an accepted run is decided, so nothing of
\* it moves, its base is accepted too, and a new acceptance is a publication.
LEMMA AcceptedContentNext ==
  /\ TypeOK /\ OutcomeAgreement /\ LinearHistory /\ SourceRetained
  /\ CandidateStored /\ AcceptedContent /\ [Next]_vars
  => AcceptedContent'
<1> SUFFICES ASSUME TypeOK, OutcomeAgreement, LinearHistory, SourceRetained, CandidateStored,
                    AcceptedContent, [Next]_vars, NEW r \in Runs, r \in accepted'
             PROVE  /\ revision'[r] = [parent |-> run'[r].base, digest |-> operation'[r].digest]
                    /\ prepared'[r] = operation'[r].digest
                    /\ revision'[r].digest # revision'[run'[r].base].digest
  BY DEF AcceptedContent
<1>1. decided
  BY DecidedStays
<1>2. CASE r \in accepted
  <2>1. run'[r] = run[r] /\ operation'[r] = operation[r]
    BY <1>1, <1>2 DEF decided, OutcomeAgreement, TerminalStates
  <2>2. /\ revision[r] = [parent |-> run[r].base, digest |-> operation[r].digest]
        /\ prepared[r] = operation[r].digest
        /\ revision[r].digest # revision[run[r].base].digest
    BY <1>2 DEF AcceptedContent
  <2>3. run[r].base \in accepted
    BY <1>2, <2>2, IdentityAssumption DEF LinearHistory
  <2>4. revision'[r] = revision[r] /\ revision'[run[r].base] = revision[run[r].base]
    BY <1>1, <1>2, <2>3 DEF decided
  <2>5. operation[r].digest # NoDigest
    BY <2>2, DigestAssumption DEF TypeOK, Revisions, RevisionRecord
  <2>6. prepared'[r] = prepared[r]
    BY <1>1, <2>2, <2>5 DEF decided
  <2> QED BY <2>1, <2>2, <2>4, <2>6
<1>3. CASE r \notin accepted
  <2>1. PICK w \in Workers :
           /\ at(w, "accept") /\ worker[w].run = r /\ acceptError(w) = "none"
           /\ run[r].mode = "read-write"
           /\ changed(r, worker[w].candidate) /\ publish(r, worker[w].candidate)
           /\ completeFinalization(w, r) /\ UNCHANGED prepared
    BY <1>3, AcceptEffect
  <2>2. /\ finalizerError(w) = "none" /\ ~headMoved(r) /\ sourceMatches(r)
        /\ worker[w].candidate = operation[r].digest
    BY <2>1 DEF acceptError
  <2>3. operation[r].digest # NoDigest
    BY <2>2, DigestAssumption DEF sourceMatches, TypeOK
  <2>4. prepared[r] = operation[r].digest
    BY <2>1, <2>2, <2>3 DEF CandidateStored
  <2>5. run[r].base \in accepted /\ run[r].base # r
    BY <1>3, <2>2 DEF headMoved, LinearHistory
  <2>6. run'[r].base = run[r].base /\ operation'[r].digest = operation[r].digest
    <3>1. run \in [Runs -> RunRecord] /\ operation \in [Runs -> OperationRecord]
      BY DEF TypeOK
    <3> QED BY <2>1, <3>1 DEF completeFinalization, endRun, RunRecord, OperationRecord
  <2>7. /\ revision'[r] = [parent |-> run[r].base, digest |-> worker[w].candidate]
        /\ revision'[run[r].base] = revision[run[r].base]
    BY <2>1, <2>5 DEF publish, TypeOK, Revisions
  <2> QED BY <2>1, <2>2, <2>4, <2>6, <2>7 DEF changed
<1> QED BY <1>2, <1>3

\* A published revision is durable with the digest the client sealed, on the base
\* its run pinned, and differs from that base.
THEOREM AcceptedIsSealed == Spec => []AcceptedContent
  BY TypeCorrect, OutcomesAgree, HistoryIsLinear, SourcesAreRetained, CandidatesAreStored,
     AcceptedContentInit, AcceptedContentNext, PTL DEF Spec

-----------------------------------------------------------------------------
(* The head moves under current authority *)

underAuthority ==
  workspace'.head # workspace.head =>
    \E r \in Runs :
       /\ workspace'.head = r
       /\ permit(r) /\ workspace.status = "active"
       /\ run[r].base = workspace.head
       /\ \E w \in Workers : /\ worker[w].run = r /\ worker[w].step = "accept"
                             /\ worker[w].fence = operation[r].fence
                             /\ worker'[w].step = "idle"

\* A step that moves the head is an acceptance whose every check holds in the
\* state it commits in, whatever the worker read before.
LEMMA HeadMoves == TypeOK /\ [Next]_vars => underAuthority
<1> SUFFICES ASSUME TypeOK, [Next]_vars, workspace'.head # workspace.head PROVE underAuthority
  BY DEF underAuthority
<1>1. ~quiet /\ ~(\E to \in {"active", "suspended", "deleted"} : transitionWorkspaceStatus(to))
  BY DEF quiet, transitionWorkspaceStatus, TypeOK, WorkspaceRecord
<1>2. PICK w \in Workers : acceptRevision(w) \/ completeReadOnly(w) \/ failFinalization(w)
  BY <1>1, Effects, OpenRunEffect, DropRunEffect, ClaimFinalizationEffect
<1>3. acceptRevision(w)
  BY <1>2 DEF completeReadOnly, failFinalization
<1> DEFINE r == worker[w].run
<1>4. r \in Runs
  BY <1>3 DEF acceptRevision, at, TypeOK
<1>5. publish(r, worker[w].candidate) /\ run[r].mode = "read-write"
  BY <1>3 DEF acceptRevision
<1>6. finalizerError(w) = "none" /\ ~headMoved(r)
  BY <1>3, <1>5 DEF acceptRevision, acceptError
<1>7. /\ permit(r) /\ workspace.status = "active" /\ worker[w].fence = operation[r].fence
      /\ run[r].base = workspace.head
  BY <1>6 DEF finalizerError, headMoved, processing
<1>8. workspace'.head = r
  BY <1>5 DEF publish, TypeOK, WorkspaceRecord
<1>9. worker[w].step = "accept" /\ worker'[w].step = "idle"
  BY <1>3 DEF acceptRevision, at, completeFinalization, giveUp, IdleWorker, TypeOK
<1> QED BY <1>4, <1>7, <1>8, <1>9 DEF underAuthority

\* A head is only ever published by the owner of the claim, while its credential
\* and its workspace are current.
THEOREM HeadMovesUnderAuthority == Spec => PublishedUnderAuthority
<1>1. underAuthority =>
        (workspace'.head # workspace.head =>
          \E r \in Runs :
             /\ workspace'.head = r
             /\ permit(r) /\ workspace.status = "active"
             /\ run[r].base = workspace.head
             /\ \E w \in Workers : /\ worker[w].run = r /\ worker[w].step = "accept"
                                   /\ worker[w].fence = operation[r].fence
                                   /\ worker'[w].step = "idle")
  BY DEF underAuthority
<1> QED BY <1>1, TypeCorrect, HeadMoves, PTL DEF Spec, PublishedUnderAuthority
=============================================================================
