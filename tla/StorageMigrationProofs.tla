------------------------- MODULE StorageMigrationProofs -------------------------
(***************************************************************************)
(* Proofs about StorageMigration for any sets of users and controllers,    *)
(* any length of history and any number of faults.                         *)
(***************************************************************************)
EXTENDS StorageMigration, TLAPS

-----------------------------------------------------------------------------
(* The inductive invariant *)

\* What is recorded as copied, or about to be, is whole in the target store.
CopiesAreWhole ==
    /\ \A r \in migration.copies : copied(r)
    /\ \A c \in Controllers : at(c, "record") => copied(controller[c].revision)

\* An open user recorded a retained revision and the binding that the workspace still has.
UsersAreBound ==
    \A u \in Users : user[u].state = "open" =>
        user[u].source \in 1 .. workspace.head /\ user[u].place = workspace.generation

\* A controller that reached the cutover has seen the whole backup of the history it read.
SwitchIsBackedUp == \A c \in Controllers : at(c, "switch") => backupVerified(c)

MigrationInvariant ==
    TypeOK /\ CopiesAreWhole /\ SwitchIsBackedUp /\ CutoverIsBackedUp /\ HistoryIsReadable /\ UsersAreBound

-----------------------------------------------------------------------------
(* Type correctness *)

\* The first revision exists, and both idle records are well typed.
LEMMA FirstType ==
    /\ 1 \in Revisions /\ Revisions \in SUBSET Nat
    /\ NoUser \in UserRecord /\ [NoUser EXCEPT !.state = "closed"] \in UserRecord
    /\ {"claim", "prepare"} \subseteq Steps
    /\ NoTransfer \in ControllerRecord /\ [NoTransfer EXCEPT !.step = "dead"] \in ControllerRecord
<1>1. 1 \in Revisions /\ Revisions \in SUBSET Nat
    BY MigrationBounds DEF Revisions
<1>2. QED BY <1>1 DEF NoUser, UserRecord, NoTransfer, ControllerRecord, Steps

\* A move of one controller keeps the types and leaves the others alone.
LEMMA GotoEffect ==
    ASSUME TypeOK, NEW c \in Controllers, NEW step \in Steps, goto(c, step)
    PROVE  /\ controller' \in [Controllers -> ControllerRecord]
           /\ controller' = [controller EXCEPT ![c] = [@ EXCEPT !.step = step]]
<1>1. [controller[c] EXCEPT !.step = step] \in ControllerRecord
    BY DEF TypeOK, ControllerRecord
<1>2. QED BY <1>1 DEF TypeOK, goto

\* The end of a call keeps the types.
LEMMA ReturnsEffect ==
    ASSUME TypeOK, NEW c \in Controllers, returns(c)
    PROVE  controller' \in [Controllers -> ControllerRecord]
BY FirstType DEF TypeOK, returns

\* A write of the migration record keeps the types of the controllers.
LEMMA SaveEffect ==
    ASSUME TypeOK, NEW c \in Controllers, NEW step \in Steps, saveMigration(c, step)
    PROVE  controller' \in [Controllers -> ControllerRecord]
<1>1. [controller[c] EXCEPT !.step = step, !.fresh = TRUE] \in ControllerRecord
    BY DEF TypeOK, ControllerRecord
<1>2. \A d \in Controllers : [controller[d] EXCEPT !.fresh = FALSE] \in ControllerRecord
    BY DEF TypeOK, ControllerRecord
<1>3. QED BY <1>1, <1>2 DEF saveMigration

\* Releasing the decided pins keeps the types of the users.
LEMMA PinsEffect ==
    ASSUME TypeOK, releasePins PROVE user' \in [Users -> UserRecord]
BY FirstType DEF TypeOK, releasePins

\* A user's end keeps the types of the users.
LEMMA EndsEffect ==
    ASSUME TypeOK, NEW u \in Users, ends(u) PROVE user' \in [Users -> UserRecord]
BY FirstType DEF TypeOK, ends

\* The initial state is well typed.
LEMMA TypeInit == ASSUME Init PROVE TypeOK
<1>1. (CHOOSE c \in Controllers : TRUE) \in Controllers
    BY MigrationBounds
<1>2. migration \in MigrationRecord
    BY <1>1, FirstType DEF Init, MigrationRecord
<1>3. backup \in BackupFiles
    BY DEF Init, BackupFiles
<1>4. workspace \in [generation: {1, 2}, head: Revisions] /\ git \in SUBSET Revisions
    BY FirstType DEF Init
<1>5. faults \in 0 .. MaxFaults
    BY MigrationBounds DEF Init
<1>6. QED BY <1>2, <1>3, <1>4, <1>5, FirstType DEF Init, TypeOK

\* A new user keeps the types.
LEMMA TypeBegins ==
    ASSUME TypeOK, NEW u \in Users, NEW kind \in {"run", "restore", "copy", "export"},
           NEW r \in Revisions, begins(u, kind, r)
    PROVE  TypeOK'
<1>1. [kind |-> kind, state |-> "open", source |-> r, place |-> location[r]] \in UserRecord
    BY DEF TypeOK, UserRecord
<1>2. user' \in [Users -> UserRecord]
    BY <1>1 DEF TypeOK, begins
<1>3. QED BY <1>2 DEF TypeOK, begins, history, store

\* The steps of users keep the types.
LEMMA TypeUser ==
    ASSUME TypeOK, NEW u \in Users,
           openRun(u) \/ maintenanceDecides(u) \/ callerDecides(u) \/ completeCopySourcePin(u)
           \/ \E r \in Revisions : claimRestore(u, r) \/ claimCopySourcePin(u, r) \/ createBundle(u, r)
    PROVE  TypeOK'
<1>1. CASE openRun(u)
    <2>1. workspace.head \in Revisions
        BY DEF TypeOK
    <2>2. QED BY <1>1, <2>1, TypeBegins DEF openRun
<1>2. ASSUME NEW r \in Revisions, claimRestore(u, r) \/ claimCopySourcePin(u, r) \/ createBundle(u, r)
      PROVE  TypeOK'
    BY <1>2, TypeBegins DEF claimRestore, claimCopySourcePin, createBundle
<1>3. CASE acceptRevision(u)
    <2>1. user' \in [Users -> UserRecord]
        BY <1>3, EndsEffect DEF acceptRevision
    <2>2. workspace.head + 1 \in Revisions
        BY <1>3, MigrationBounds DEF TypeOK, acceptRevision, publish, Revisions
    <2>3. /\ workspace' \in [generation: {1, 2}, head: Revisions]
          /\ location' \in [Revisions -> {1, 2}] /\ git' \in SUBSET Revisions
          /\ target' \in [Revisions -> SUBSET Objects]
        BY <1>3, <2>2 DEF TypeOK, acceptRevision, publish
    <2>4. QED BY <1>3, <2>1, <2>3 DEF TypeOK, acceptRevision
<1>4. CASE endsUnchanged(u) \/ completeBundle(u)
    BY <1>4, EndsEffect DEF TypeOK, endsUnchanged, completeBundle, history, store
<1>5. CASE copyDecided(u)
    <2>1. [user[u] EXCEPT !.state = "terminal"] \in UserRecord
        BY DEF TypeOK, UserRecord
    <2>2. QED BY <1>5, <2>1 DEF TypeOK, copyDecided, history, store
<1>6. CASE completeCopySourcePin(u)
    BY <1>6, EndsEffect DEF TypeOK, completeCopySourcePin, history, store
<1>7. QED BY <1>1, <1>2, <1>3, <1>4, <1>5, <1>6 DEF maintenanceDecides, callerDecides

\* Reading the workspace and taking the claim keep the types.
LEMMA TypeClaim ==
    ASSUME TypeOK, NEW c \in Controllers,
           transfer(c) \/ claimStorageMigration(c) \/ claimStorageMigrationRecovery(c) \/ checkSnapshot(c)
    PROVE  TypeOK'
<1>0. workspace.head \in Revisions
    BY DEF TypeOK
<1>1. CASE transfer(c)
    <2>1. [controller[c] EXCEPT !.step = "claim", !.head = workspace.head] \in ControllerRecord
        BY <1>0, FirstType DEF TypeOK, ControllerRecord
    <2>2. QED BY <1>1, <2>1 DEF TypeOK, transfer, history, store
<1>2. CASE claimStorageMigration(c)
    <2>1. [migration EXCEPT !.state = "draining", !.owner = c, !.live = TRUE, !.head = workspace.head]
            \in MigrationRecord
        BY <1>0 DEF TypeOK, MigrationRecord
    <2>2. migration' \in MigrationRecord
        BY <1>2, <2>1 DEF TypeOK, claimStorageMigration
    <2>3. controller' \in [Controllers -> ControllerRecord]
        BY <1>2, SaveEffect, ReturnsEffect DEF claimStorageMigration, Steps
    <2>4. QED BY <1>2, <2>2, <2>3 DEF TypeOK, claimStorageMigration, history, store
<1>3. CASE claimStorageMigrationRecovery(c)
    <2>1. [migration EXCEPT !.owner = c, !.live = TRUE] \in MigrationRecord
        BY DEF TypeOK, MigrationRecord
    <2>2. migration' \in MigrationRecord
        BY <1>3, <2>1 DEF TypeOK, claimStorageMigrationRecovery
    <2>3. controller' \in [Controllers -> ControllerRecord]
        BY <1>3, SaveEffect, ReturnsEffect DEF claimStorageMigrationRecovery, Steps
    <2>4. QED BY <1>3, <2>2, <2>3 DEF TypeOK, claimStorageMigrationRecovery, history, store
<1>4. CASE checkSnapshot(c)
    <2>1. PICK step \in Steps : goto(c, step)
        BY <1>4 DEF checkSnapshot, Steps
    <2>2. QED BY <1>4, <2>1, GotoEffect DEF TypeOK, checkSnapshot, history, store
<1>5. QED BY <1>1, <1>2, <1>3, <1>4

\* The backup keeps the types.
LEMMA TypeBackup ==
    ASSUME TypeOK, NEW c \in Controllers,
           claimMigrationBackup(c) \/ captureMigrationCatalog(c) \/ archiveRevision(c)
           \/ completeMigrationBackup(c) \/ verifyMigrationBackup(c)
    PROVE  TypeOK'
<1>1. CASE claimMigrationBackup(c)
    <2>1. [migration EXCEPT !.backup = "preparing"] \in MigrationRecord
        BY DEF TypeOK, MigrationRecord
    <2>2. migration' \in MigrationRecord
        BY <1>1, <2>1 DEF TypeOK, claimMigrationBackup
    <2>3. PICK step \in Steps : saveMigration(c, step) \/ goto(c, step)
        BY <1>1 DEF claimMigrationBackup, Steps
    <2>4. controller' \in [Controllers -> ControllerRecord]
        BY <2>3, SaveEffect, GotoEffect
    <2>5. user' \in [Users -> UserRecord]
        BY <1>1, PinsEffect DEF claimMigrationBackup, command
    <2>6. QED BY <1>1, <2>2, <2>4, <2>5 DEF TypeOK, claimMigrationBackup, history, store
<1>2. CASE captureMigrationCatalog(c)
    <2>1. PICK step \in Steps : goto(c, step)
        BY <1>2 DEF captureMigrationCatalog, Steps
    <2>2. PICK n \in Nat : backup' = [backup EXCEPT !.catalog = n]
        BY <1>2, FirstType DEF TypeOK, BackupFiles, captureMigrationCatalog
    <2>3. backup' \in BackupFiles
        BY <2>2 DEF TypeOK, BackupFiles
    <2>4. user' \in [Users -> UserRecord]
        BY <1>2, PinsEffect DEF captureMigrationCatalog, command
    <2>5. QED BY <1>2, <2>1, <2>3, <2>4, GotoEffect DEF TypeOK, captureMigrationCatalog, history, store
<1>3. CASE archiveRevision(c)
    <2>1. controller' \in [Controllers -> ControllerRecord]
        BY <1>3, GotoEffect DEF TypeOK, archiveRevision, Steps
    <2>2. \A r \in Revisions : [backup EXCEPT !.archived = @ \cup {r}] \in BackupFiles
        BY DEF TypeOK, BackupFiles
    <2>3. backup' \in BackupFiles
        BY <1>3, <2>2 DEF TypeOK, archiveRevision
    <2>4. QED BY <1>3, <2>1, <2>3 DEF TypeOK, archiveRevision, history, store
<1>4. CASE completeMigrationBackup(c)
    <2>1. migration' \in MigrationRecord
        BY <1>4 DEF TypeOK, MigrationRecord, completeMigrationBackup
    <2>2. controller' \in [Controllers -> ControllerRecord] /\ user' \in [Users -> UserRecord]
        BY <1>4, SaveEffect, PinsEffect DEF completeMigrationBackup, command, Steps
    <2>3. QED BY <1>4, <2>1, <2>2 DEF TypeOK, completeMigrationBackup, history, store
<1>5. CASE verifyMigrationBackup(c)
    <2>1. PICK step \in Steps : goto(c, step)
        BY <1>5 DEF verifyMigrationBackup, Steps
    <2>2. user' \in [Users -> UserRecord]
        BY <1>5, PinsEffect DEF verifyMigrationBackup, command
    <2>3. QED BY <1>5, <2>1, <2>2, GotoEffect DEF TypeOK, verifyMigrationBackup, history, store
<1>6. QED BY <1>1, <1>2, <1>3, <1>4, <1>5

\* Writing a candidate keeps the types.
LEMMA TypeCandidate ==
    ASSUME TypeOK, NEW c \in Controllers,
           claimMigrationCandidate(c) \/ inspectCandidate(c) \/ beginCandidateWrite(c) \/ prepareOwned(c)
           \/ verifyTarget(c) \/ recordVerifiedRevisionCopy(c) \/ recheckCopies(c)
    PROVE  TypeOK'
<1>0. controller[c].revision \in Revisions
    BY DEF TypeOK, ControllerRecord
<1>1. CASE claimMigrationCandidate(c)
    <2>1. ASSUME NEW r \in Revisions
          PROVE  [migration EXCEPT !.state = "copying", !.candidates = @ \cup {r}] \in MigrationRecord
        BY DEF TypeOK, MigrationRecord
    <2>2. migration' \in MigrationRecord
        BY <1>1, <2>1 DEF TypeOK, claimMigrationCandidate
    <2>3. ASSUME NEW r \in Revisions
          PROVE  [controller[c] EXCEPT !.step = "prepare", !.fresh = TRUE, !.revision = r] \in ControllerRecord
        BY FirstType DEF TypeOK, ControllerRecord
    <2>4. \A d \in Controllers : [controller[d] EXCEPT !.fresh = FALSE] \in ControllerRecord
        BY DEF TypeOK, ControllerRecord
    <2>5. controller' \in [Controllers -> ControllerRecord]
        <3>1. CASE goto(c, "recheck")
            BY <3>1, GotoEffect DEF Steps
        <3>2. ASSUME NEW r \in Revisions,
                     controller' = [d \in Controllers |->
                        IF d = c THEN [controller[d] EXCEPT !.step = "prepare", !.fresh = TRUE, !.revision = r]
                        ELSE [controller[d] EXCEPT !.fresh = FALSE]]
              PROVE  controller' \in [Controllers -> ControllerRecord]
            BY <3>2, <2>3, <2>4
        <3>3. QED BY <1>1, <3>1, <3>2 DEF claimMigrationCandidate
    <2>6. user' \in [Users -> UserRecord]
        BY <1>1, PinsEffect DEF claimMigrationCandidate, command
    <2>7. QED BY <1>1, <2>2, <2>5, <2>6 DEF TypeOK, claimMigrationCandidate, history, store
<1>2. CASE inspectCandidate(c) \/ beginCandidateWrite(c) \/ verifyTarget(c)
    <2>1. PICK step \in Steps : goto(c, step)
        BY <1>2 DEF inspectCandidate, beginCandidateWrite, verifyTarget, Steps
    <2>2. QED BY <1>2, <2>1, GotoEffect DEF TypeOK, inspectCandidate, beginCandidateWrite, verifyTarget, history, store
<1>3. CASE prepareOwned(c)
    <2>1. PICK step \in Steps : goto(c, step)
        BY <1>3 DEF prepareOwned, Steps
    <2>2. target' \in [Revisions -> SUBSET Objects]
        BY <1>0, <1>3 DEF TypeOK, prepareOwned, writing
    <2>3. QED BY <1>3, <2>1, <2>2, GotoEffect DEF TypeOK, prepareOwned, history
<1>4. CASE recordVerifiedRevisionCopy(c)
    <2>1. PICK state \in {"verified", "copying"} :
            migration' = [migration EXCEPT !.copies = migration.copies \cup {controller[c].revision}, !.state = state]
        BY <1>4 DEF recordVerifiedRevisionCopy
    <2>2. migration.copies \cup {controller[c].revision} \in SUBSET Revisions
        BY <1>0 DEF TypeOK, MigrationRecord
    <2>3. migration' \in MigrationRecord
        BY <2>1, <2>2 DEF TypeOK, MigrationRecord
    <2>4. controller' \in [Controllers -> ControllerRecord] /\ user' \in [Users -> UserRecord]
        BY <1>4, SaveEffect, PinsEffect DEF recordVerifiedRevisionCopy, command, Steps
    <2>5. QED BY <1>4, <2>3, <2>4 DEF TypeOK, recordVerifiedRevisionCopy, history, store
<1>5. CASE recheckCopies(c)
    <2>1. PICK step \in Steps : goto(c, step)
        BY <1>5 DEF recheckCopies, Steps
    <2>2. user' \in [Users -> UserRecord]
        BY <1>5, PinsEffect DEF recheckCopies, command
    <2>3. QED BY <1>5, <2>1, <2>2, GotoEffect DEF TypeOK, recheckCopies, history, store
<1>6. QED BY <1>1, <1>2, <1>3, <1>4, <1>5

\* The cutover, the recorded failure and the end of a call keep the types.
LEMMA TypeDecision ==
    ASSUME TypeOK, NEW c \in Controllers,
           commandRefused(c) \/ switchStorageBinding(c) \/ failStorageMigration(c) \/ releaseStorageMigrationClaim(c)
    PROVE  TypeOK'
<1>1. CASE commandRefused(c)
    BY <1>1, GotoEffect DEF TypeOK, commandRefused, history, store, Steps
<1>2. CASE switchStorageBinding(c)
    <2>1. /\ [migration EXCEPT !.state = "complete"] \in MigrationRecord
          /\ [workspace EXCEPT !.generation = 2] \in [generation: {1, 2}, head: Revisions]
        BY DEF TypeOK, MigrationRecord
    <2>2. /\ migration' \in MigrationRecord
          /\ workspace' \in [generation: {1, 2}, head: Revisions]
          /\ location' \in [Revisions -> {1, 2}]
        BY <1>2, <2>1 DEF TypeOK, switchStorageBinding
    <2>3. controller' \in [Controllers -> ControllerRecord] /\ user' \in [Users -> UserRecord]
        BY <1>2, SaveEffect, GotoEffect, PinsEffect DEF switchStorageBinding, command, Steps
    <2>4. QED BY <1>2, <2>2, <2>3 DEF TypeOK, switchStorageBinding, store
<1>3. CASE failStorageMigration(c)
    <2>1. [migration EXCEPT !.state = "failed"] \in MigrationRecord
        BY DEF TypeOK, MigrationRecord
    <2>2. controller' \in [Controllers -> ControllerRecord]
        BY <1>3, SaveEffect, GotoEffect DEF failStorageMigration, Steps
    <2>3. QED BY <1>3, <2>1, <2>2 DEF TypeOK, failStorageMigration, history, store
<1>4. CASE releaseStorageMigrationClaim(c)
    <2>1. [migration EXCEPT !.live = FALSE] \in MigrationRecord
        BY DEF TypeOK, MigrationRecord
    <2>2. \A d \in Controllers : [controller[d] EXCEPT !.fresh = FALSE] \in ControllerRecord
        BY DEF TypeOK, ControllerRecord
    <2>3. controller' \in [Controllers -> ControllerRecord]
        BY <1>4, <2>2, FirstType, ReturnsEffect DEF releaseStorageMigrationClaim
    <2>4. QED BY <1>4, <2>1, <2>3 DEF TypeOK, releaseStorageMigrationClaim, history, store
<1>5. QED BY <1>1, <1>2, <1>3, <1>4

\* Faults keep the types.
LEMMA TypeFault ==
    ASSUME TypeOK, NEW c \in Controllers,
           controllerErrs(c) \/ writeUncertain(c) \/ controllerDies(c) \/ claimLapses(c)
    PROVE  TypeOK'
<1>1. fault => faults' \in 0 .. MaxFaults
    BY MigrationBounds DEF TypeOK, fault
<1>2. CASE controllerErrs(c)
    BY <1>1, <1>2, GotoEffect DEF TypeOK, controllerErrs, history, store, Steps
<1>3. writing(c) => record(c) \in WriterRecord
    BY DEF TypeOK, ControllerRecord, writing, record, WriterRecord
<1>4. CASE writeUncertain(c)
    <2>1. controller' \in [Controllers -> ControllerRecord]
        BY <1>4, GotoEffect DEF TypeOK, writeUncertain, Steps
    <2>2. QED BY <1>1, <1>3, <1>4, <2>1 DEF TypeOK, writeUncertain, history
<1>5. CASE controllerDies(c)
    <2>1. controller' \in [Controllers -> ControllerRecord]
        BY <1>5, FirstType DEF TypeOK, controllerDies
    <2>2. late' \in SUBSET WriterRecord
        BY <1>3, <1>5 DEF TypeOK, controllerDies
    <2>3. QED BY <1>1, <1>5, <2>1, <2>2 DEF TypeOK, controllerDies, history
<1>6. CASE claimLapses(c)
    <2>1. [migration EXCEPT !.live = FALSE] \in MigrationRecord
        BY DEF TypeOK, MigrationRecord
    <2>2. QED BY <1>1, <1>6, <2>1 DEF TypeOK, claimLapses, history, store
<1>7. QED BY <1>2, <1>4, <1>5, <1>6

\* A late request keeps the types.
LEMMA TypeLate ==
    ASSUME TypeOK, NEW w \in WriterRecord, landsLate(w) PROVE TypeOK'
<1>1. w.revision \in Revisions /\ w.object \in Objects
    BY DEF WriterRecord
<1>2. target' \in [Revisions -> SUBSET Objects]
    BY <1>1 DEF TypeOK, landsLate
<1>3. QED BY <1>2 DEF TypeOK, landsLate, history

\* Every step keeps the types.
LEMMA TypeStep == ASSUME TypeOK, [Next]_vars PROVE TypeOK'
<1>1. CASE UNCHANGED vars
    BY <1>1 DEF TypeOK, vars
<1>2. QED BY <1>1, TypeUser, TypeClaim, TypeBackup, TypeCandidate, TypeDecision, TypeFault, TypeLate
          DEF Next, controllerStep

\* The state keeps its types: every record that the catalog, the stores, the backup directory
\* and the controllers keep is of the declared kind, for any number of users and controllers.
THEOREM TypeCorrect == Spec => []TypeOK
<1>1. QED BY TypeInit, TypeStep, PTL DEF Spec

-----------------------------------------------------------------------------
(* What a step does to each part of the state *)

\* The commands of controllers that only read the stores, the backup and the migration record.
Reads(c) ==
    \/ transfer(c) \/ checkSnapshot(c) \/ commandRefused(c) \/ verifyMigrationBackup(c)
    \/ inspectCandidate(c) \/ beginCandidateWrite(c) \/ verifyTarget(c) \/ recheckCopies(c)

\* The commands that write the migration record, apart from the copies and the cutover.
Writes(c) ==
    \/ claimStorageMigration(c) \/ claimStorageMigrationRecovery(c) \/ claimMigrationBackup(c)
    \/ completeMigrationBackup(c) \/ claimMigrationCandidate(c) \/ failStorageMigration(c)
    \/ releaseStorageMigrationClaim(c) \/ claimLapses(c)

\* The steps of users that use a revision and publish none.
Uses(u) ==
    \/ openRun(u) \/ endsUnchanged(u) \/ completeBundle(u) \/ copyDecided(u) \/ completeCopySourcePin(u)
    \/ \E r \in Revisions : claimRestore(u, r) \/ claimCopySourcePin(u, r) \/ createBundle(u, r)

\* Every step is of one of these kinds.
LEMMA Kinds ==
    ASSUME Next
    PROVE  \/ \E u \in Users : Uses(u) \/ acceptRevision(u)
           \/ \E c \in Controllers :
                \/ Reads(c) \/ Writes(c) \/ captureMigrationCatalog(c) \/ archiveRevision(c)
                \/ prepareOwned(c) \/ recordVerifiedRevisionCopy(c) \/ switchStorageBinding(c)
                \/ controllerErrs(c) \/ writeUncertain(c) \/ controllerDies(c)
           \/ \E w \in WriterRecord : landsLate(w)
BY DEF Next, controllerStep, maintenanceDecides, callerDecides, Uses, Reads, Writes

\* Reads change nothing that is shared but the decided pins.
LEMMA ReadsKeep ==
    ASSUME NEW c \in Controllers, Reads(c)
    PROVE  UNCHANGED <<workspace, location, git, target, late, migration, backup>>
BY DEF Reads, transfer, checkSnapshot, commandRefused, verifyMigrationBackup, inspectCandidate,
       beginCandidateWrite, verifyTarget, recheckCopies, history, store

\* Writes of the migration record leave the history, the stores and the backup alone.
LEMMA WritesKeep ==
    ASSUME NEW c \in Controllers, Writes(c)
    PROVE  UNCHANGED <<workspace, location, git, target, late, backup>>
BY DEF Writes, claimStorageMigration, claimStorageMigrationRecovery, claimMigrationBackup,
       completeMigrationBackup, claimMigrationCandidate, failStorageMigration,
       releaseStorageMigrationClaim, claimLapses, history, store

\* A use leaves everything but the users alone.
LEMMA UsesKeep ==
    ASSUME NEW u \in Users, Uses(u)
    PROVE  UNCHANGED <<workspace, location, git, target, late, migration, backup, controller>>
BY DEF Uses, openRun, claimRestore, claimCopySourcePin, createBundle, begins, endsUnchanged,
       completeBundle, copyDecided, completeCopySourcePin, history, store

\* An error, an uncertain write or a death leaves history, target, migration and backup alone.
LEMMA FaultsKeep ==
    ASSUME NEW c \in Controllers, controllerErrs(c) \/ writeUncertain(c) \/ controllerDies(c)
    PROVE  UNCHANGED <<workspace, location, git, target, user, migration, backup>>
BY DEF controllerErrs, writeUncertain, controllerDies, history, store

\* Nothing is ever deleted from the target store by a transfer.
LEMMA TargetGrows ==
    ASSUME TypeOK, [Next]_vars, NEW r \in Revisions PROVE target[r] \subseteq target'[r]
<1>1. ASSUME NEW u \in Users, acceptRevision(u) PROVE target[r] \subseteq target'[r]
    BY <1>1 DEF TypeOK, acceptRevision, publish
<1>2. ASSUME NEW c \in Controllers, prepareOwned(c) PROVE target[r] \subseteq target'[r]
    BY <1>2 DEF TypeOK, prepareOwned
<1>3. ASSUME NEW w \in WriterRecord, landsLate(w) PROVE target[r] \subseteq target'[r]
    BY <1>3 DEF TypeOK, landsLate
<1>4. ASSUME NEW c \in Controllers,
             captureMigrationCatalog(c) \/ archiveRevision(c) \/ recordVerifiedRevisionCopy(c)
             \/ switchStorageBinding(c)
      PROVE  target' = target
    BY <1>4 DEF captureMigrationCatalog, archiveRevision, recordVerifiedRevisionCopy, switchStorageBinding, store
<1>5. CASE UNCHANGED vars
    BY <1>5 DEF vars
<1>6. QED BY <1>1, <1>2, <1>3, <1>4, <1>5, Kinds, ReadsKeep, WritesKeep, UsesKeep, FaultsKeep

\* A whole copy stays whole.
LEMMA CopiedStable ==
    ASSUME TypeOK, [Next]_vars, NEW r \in Revisions, copied(r) PROVE copied(r)'
BY TargetGrows DEF copied, complete

\* The captured catalog is kept, and archives are only added.
LEMMA BackupGrows ==
    ASSUME TypeOK, [Next]_vars
    PROVE  /\ backup.catalog # 0 => backup'.catalog = backup.catalog
           /\ backup.archived \subseteq backup'.archived
<1>1. ASSUME NEW c \in Controllers, captureMigrationCatalog(c)
      PROVE  /\ backup.catalog # 0 => backup'.catalog = backup.catalog
             /\ backup.archived \subseteq backup'.archived
    BY <1>1 DEF TypeOK, BackupFiles, captureMigrationCatalog
<1>2. ASSUME NEW c \in Controllers, archiveRevision(c)
      PROVE  /\ backup.catalog # 0 => backup'.catalog = backup.catalog
             /\ backup.archived \subseteq backup'.archived
    BY <1>2 DEF TypeOK, BackupFiles, archiveRevision
<1>3. ASSUME NEW u \in Users, acceptRevision(u) PROVE backup' = backup
    BY <1>3 DEF acceptRevision
<1>4. ASSUME NEW c \in Controllers,
             prepareOwned(c) \/ recordVerifiedRevisionCopy(c) \/ switchStorageBinding(c)
      PROVE  backup' = backup
    BY <1>4 DEF prepareOwned, recordVerifiedRevisionCopy, switchStorageBinding
<1>5. ASSUME NEW w \in WriterRecord, landsLate(w) PROVE backup' = backup
    BY <1>5 DEF landsLate
<1>6. CASE UNCHANGED vars
    BY <1>6 DEF vars
<1>7. QED BY <1>1, <1>2, <1>3, <1>4, <1>5, <1>6, Kinds, ReadsKeep, WritesKeep, UsesKeep, FaultsKeep

\* A controller comes to record a copy only by comparing it, and to the cutover only by
\* the last check; otherwise its place, head and revision stay together.
Settled(d) ==
    \/ /\ controller'[d].step = controller[d].step
       /\ controller'[d].head = controller[d].head /\ controller'[d].revision = controller[d].revision
    \/ controller'[d].step \notin {"record", "switch"}

\* A move of a controller to another place settles every controller.
LEMMA GotoSettles ==
    ASSUME TypeOK, NEW c \in Controllers, NEW step \in Steps \ {"record", "switch"}, NEW d \in Controllers,
           goto(c, step) \/ saveMigration(c, step) \/ returns(c)
    PROVE  Settled(d)
<1>1. CASE goto(c, step)
    BY <1>1 DEF TypeOK, ControllerRecord, goto, Settled
<1>2. CASE saveMigration(c, step)
    BY <1>2 DEF TypeOK, ControllerRecord, saveMigration, Settled
<1>3. CASE returns(c)
    BY <1>3 DEF TypeOK, ControllerRecord, returns, NoTransfer, Settled
<1>4. QED BY <1>1, <1>2, <1>3

\* How each controller may move.
LEMMA ControllerMoves ==
    ASSUME TypeOK, [Next]_vars, NEW d \in Controllers
    PROVE  Settled(d) \/ verifyTarget(d) \/ recheckCopies(d)
<1>1. ASSUME UNCHANGED controller PROVE Settled(d)
    BY <1>1 DEF Settled
<1>2. ASSUME NEW c \in Controllers, Reads(c) PROVE Settled(d) \/ verifyTarget(d) \/ recheckCopies(d)
    <2>1. CASE transfer(c)
        BY <2>1 DEF transfer, TypeOK, ControllerRecord, Settled
    <2>2. CASE verifyTarget(c) \/ recheckCopies(c)
        <3>1. PICK step \in Steps : goto(c, step)
            BY <2>2 DEF verifyTarget, recheckCopies, Steps
        <3>2. QED BY <2>2, <3>1 DEF goto, TypeOK, Settled
    <2>3. CASE checkSnapshot(c) \/ commandRefused(c) \/ verifyMigrationBackup(c)
               \/ inspectCandidate(c) \/ beginCandidateWrite(c)
        <3>1. PICK step \in Steps \ {"record", "switch"} : goto(c, step)
            BY <2>3 DEF checkSnapshot, commandRefused, verifyMigrationBackup, inspectCandidate,
                        beginCandidateWrite, Steps
        <3>2. QED BY <3>1, GotoSettles
    <2>4. QED BY <1>2, <2>1, <2>2, <2>3 DEF Reads
<1>3. ASSUME NEW c \in Controllers, Writes(c) PROVE Settled(d)
    <2>1. CASE claimStorageMigration(c) \/ claimStorageMigrationRecovery(c) \/ claimMigrationBackup(c)
               \/ completeMigrationBackup(c) \/ failStorageMigration(c)
        <3>1. PICK step \in Steps \ {"record", "switch"} :
                goto(c, step) \/ saveMigration(c, step) \/ returns(c)
            BY <2>1 DEF claimStorageMigration, claimStorageMigrationRecovery, claimMigrationBackup,
                        completeMigrationBackup, failStorageMigration, Steps
        <3>2. QED BY <3>1, GotoSettles
    <2>2. CASE claimMigrationCandidate(c)
        <3>1. CASE goto(c, "recheck")
            BY <3>1, GotoSettles DEF Steps
        <3>2. ASSUME NEW r \in Revisions,
                     controller' = [e \in Controllers |->
                        IF e = c THEN [controller[e] EXCEPT !.step = "prepare", !.fresh = TRUE, !.revision = r]
                        ELSE [controller[e] EXCEPT !.fresh = FALSE]]
              PROVE  Settled(d)
            BY <3>2 DEF TypeOK, ControllerRecord, Settled
        <3>3. QED BY <2>2, <3>1, <3>2 DEF claimMigrationCandidate
    <2>3. CASE releaseStorageMigrationClaim(c)
        <3>1. CASE returns(c)
            BY <3>1, GotoSettles DEF Steps
        <3>2. CASE controller' = [e \in Controllers |->
                      IF e = c THEN NoTransfer ELSE [controller[e] EXCEPT !.fresh = FALSE]]
            BY <3>2 DEF TypeOK, ControllerRecord, NoTransfer, Settled
        <3>3. QED BY <2>3, <3>1, <3>2 DEF releaseStorageMigrationClaim
    <2>4. CASE claimLapses(c)
        BY <2>4, <1>1 DEF claimLapses
    <2>5. QED BY <1>3, <2>1, <2>2, <2>3, <2>4 DEF Writes
<1>4. ASSUME NEW c \in Controllers,
             captureMigrationCatalog(c) \/ archiveRevision(c) \/ prepareOwned(c)
             \/ recordVerifiedRevisionCopy(c) \/ switchStorageBinding(c) \/ controllerErrs(c)
             \/ writeUncertain(c)
      PROVE  Settled(d)
    <2>1. \/ UNCHANGED controller
          \/ \E step \in Steps \ {"record", "switch"} : goto(c, step) \/ saveMigration(c, step)
        BY <1>4 DEF captureMigrationCatalog, archiveRevision, prepareOwned, recordVerifiedRevisionCopy,
                    switchStorageBinding, controllerErrs, writeUncertain, Steps
    <2>2. QED BY <1>1, <2>1, GotoSettles
<1>5. ASSUME NEW c \in Controllers, controllerDies(c) PROVE Settled(d)
    BY <1>5 DEF controllerDies, TypeOK, NoTransfer, Settled
<1>6. ASSUME NEW u \in Users, acceptRevision(u) PROVE Settled(d)
    BY <1>6, <1>1 DEF acceptRevision
<1>7. ASSUME NEW w \in WriterRecord, landsLate(w) PROVE Settled(d)
    BY <1>7, <1>1 DEF landsLate
<1>8. CASE UNCHANGED vars
    BY <1>8, <1>1 DEF vars
<1>9. QED BY <1>1, <1>2, <1>3, <1>4, <1>5, <1>6, <1>7, <1>8, Kinds, UsesKeep

\* How the migration record may move: its copies, its head and its completion.
Undecided ==
    /\ migration'.copies = migration.copies
    /\ migration.state # "none" => migration'.head = migration.head
    /\ (migration'.state = "complete") = (migration.state = "complete")

\* Completion comes from the cutover only, and a copy from recording it only.
LEMMA MigrationMoves ==
    ASSUME TypeOK, [Next]_vars
    PROVE  \/ Undecided
           \/ \E c \in Controllers : recordVerifiedRevisionCopy(c)
           \/ \E c \in Controllers : switchStorageBinding(c) /\ mayCutOver(c)
<1>1. ASSUME UNCHANGED migration PROVE Undecided
    BY <1>1 DEF Undecided
<1>2. ASSUME NEW c \in Controllers, Writes(c) PROVE Undecided
    <2>1. CASE claimStorageMigration(c)
        BY <2>1 DEF claimStorageMigration, TypeOK, MigrationRecord, Undecided
    <2>2. CASE claimStorageMigrationRecovery(c)
        BY <2>2 DEF claimStorageMigrationRecovery, TypeOK, MigrationRecord, Undecided
    <2>3. CASE claimMigrationBackup(c)
        BY <2>3 DEF claimMigrationBackup, TypeOK, MigrationRecord, Undecided
    <2>4. CASE completeMigrationBackup(c)
        BY <2>4 DEF completeMigrationBackup, TypeOK, MigrationRecord, Undecided
    <2>5. CASE claimMigrationCandidate(c)
        <3>1. migration.state # "complete"
            BY <2>5 DEF claimMigrationCandidate, command, refused, current, migrating
        <3>2. ASSUME NEW r \in Revisions,
                     migration' = [migration EXCEPT !.state = "copying", !.candidates = @ \cup {r}]
              PROVE  Undecided
            BY <3>1, <3>2 DEF TypeOK, MigrationRecord, Undecided
        <3>3. QED BY <1>1, <2>5, <3>2 DEF claimMigrationCandidate
    <2>6. CASE failStorageMigration(c)
        BY <2>6 DEF failStorageMigration, migrating, TypeOK, MigrationRecord, Undecided
    <2>7. CASE releaseStorageMigrationClaim(c) \/ claimLapses(c)
        BY <2>7 DEF releaseStorageMigrationClaim, claimLapses, TypeOK, MigrationRecord, Undecided
    <2>8. QED BY <1>2, <2>1, <2>2, <2>3, <2>4, <2>5, <2>6, <2>7 DEF Writes
<1>3. ASSUME NEW c \in Controllers, switchStorageBinding(c) PROVE Undecided \/ mayCutOver(c)
    BY <1>1, <1>3 DEF switchStorageBinding
<1>4. ASSUME NEW c \in Controllers, captureMigrationCatalog(c) \/ archiveRevision(c) \/ prepareOwned(c)
      PROVE  Undecided
    BY <1>1, <1>4 DEF captureMigrationCatalog, archiveRevision, prepareOwned
<1>5. ASSUME NEW u \in Users, acceptRevision(u) PROVE Undecided
    BY <1>1, <1>5 DEF acceptRevision
<1>6. ASSUME NEW w \in WriterRecord, landsLate(w) PROVE Undecided
    BY <1>1, <1>6 DEF landsLate
<1>7. CASE UNCHANGED vars
    BY <1>1, <1>7 DEF vars
<1>8. QED BY <1>1, <1>2, <1>3, <1>4, <1>5, <1>6, <1>7, Kinds, ReadsKeep, UsesKeep, FaultsKeep

\* The head, the binding and the revision records move by a publication or a cutover.
LEMMA HistoryMoves ==
    ASSUME TypeOK, [Next]_vars
    PROVE  \/ UNCHANGED <<workspace, location, git>>
           \/ \E u \in Users : acceptRevision(u)
           \/ \E c \in Controllers : switchStorageBinding(c) /\ mayCutOver(c)
<1>1. ASSUME NEW c \in Controllers,
             captureMigrationCatalog(c) \/ archiveRevision(c) \/ prepareOwned(c) \/ recordVerifiedRevisionCopy(c)
      PROVE  UNCHANGED <<workspace, location, git>>
    BY <1>1 DEF captureMigrationCatalog, archiveRevision, prepareOwned, recordVerifiedRevisionCopy, history
<1>2. ASSUME NEW c \in Controllers, switchStorageBinding(c)
      PROVE  mayCutOver(c) \/ UNCHANGED <<workspace, location, git>>
    BY <1>2 DEF switchStorageBinding
<1>3. ASSUME NEW w \in WriterRecord, landsLate(w) PROVE UNCHANGED <<workspace, location, git>>
    BY <1>3 DEF landsLate, history
<1>4. CASE UNCHANGED vars
    BY <1>4 DEF vars
<1>5. QED BY <1>1, <1>2, <1>3, <1>4, Kinds, ReadsKeep, WritesKeep, UsesKeep, FaultsKeep

\* A user begins to use a revision, keeps using it, or no longer does.
LEMMA UserMoves ==
    ASSUME TypeOK, [Next]_vars, NEW u \in Users, user'[u].state = "open"
    PROVE  \/ user'[u] = user[u]
           \/ \E kind \in {"run", "restore", "copy", "export"}, r \in Revisions : begins(u, kind, r)
<1>1. ASSUME NEW v \in Users, ends(v) PROVE user'[u] = user[u]
    BY <1>1 DEF ends, NoUser, TypeOK
<1>2. ASSUME releasePins PROVE user'[u] = user[u]
    BY <1>2 DEF releasePins, NoUser, TypeOK
<1>3. ASSUME NEW v \in Users, Uses(v)
      PROVE  \/ user'[u] = user[u]
             \/ \E kind \in {"run", "restore", "copy", "export"}, r \in Revisions : begins(u, kind, r)
    <2>1. CASE endsUnchanged(v) \/ completeBundle(v) \/ completeCopySourcePin(v)
        BY <1>1, <2>1 DEF endsUnchanged, completeBundle, completeCopySourcePin
    <2>2. CASE copyDecided(v)
        BY <2>2 DEF copyDecided, TypeOK, UserRecord
    <2>3. ASSUME NEW kind \in {"run", "restore", "copy", "export"}, NEW r \in Revisions, begins(v, kind, r)
          PROVE  user'[u] = user[u] \/ begins(u, kind, r)
        BY <2>3 DEF begins, TypeOK
    <2>4. workspace.head \in Revisions
        BY DEF TypeOK
    <2>5. QED BY <1>3, <2>1, <2>2, <2>3, <2>4
              DEF Uses, openRun, claimRestore, claimCopySourcePin, createBundle
<1>4. ASSUME NEW v \in Users, acceptRevision(v) PROVE user'[u] = user[u]
    BY <1>1, <1>4 DEF acceptRevision
<1>5. ASSUME NEW c \in Controllers,
             Reads(c) \/ Writes(c) \/ captureMigrationCatalog(c) \/ archiveRevision(c) \/ prepareOwned(c)
             \/ recordVerifiedRevisionCopy(c) \/ switchStorageBinding(c)
      PROVE  user'[u] = user[u]
    <2>1. UNCHANGED user \/ releasePins
        BY <1>5 DEF Reads, Writes, transfer, checkSnapshot, commandRefused, verifyMigrationBackup,
             inspectCandidate, beginCandidateWrite, verifyTarget, recheckCopies, claimStorageMigration,
             claimStorageMigrationRecovery, claimMigrationBackup, completeMigrationBackup,
             claimMigrationCandidate, failStorageMigration, releaseStorageMigrationClaim, claimLapses,
             captureMigrationCatalog, archiveRevision, prepareOwned, recordVerifiedRevisionCopy,
             switchStorageBinding, command
    <2>2. QED BY <1>2, <2>1
<1>6. ASSUME NEW w \in WriterRecord, landsLate(w) PROVE user'[u] = user[u]
    BY <1>6 DEF landsLate
<1>7. CASE UNCHANGED vars
    BY <1>7 DEF vars
<1>8. QED BY <1>3, <1>4, <1>5, <1>6, <1>7, Kinds, FaultsKeep

-----------------------------------------------------------------------------
(* Each part of the invariant is kept *)

\* Copies are recorded only after the comparison, and nothing takes an object away.
LEMMA CopiesStep ==
    ASSUME TypeOK, CopiesAreWhole, [Next]_vars PROVE CopiesAreWhole'
<1>1. ASSUME NEW d \in Controllers, controller'[d].step = "record"
      PROVE  copied(controller[d].revision)'
    <2>1. PICK r \in Revisions : r = controller[d].revision
        BY DEF TypeOK, ControllerRecord
    <2>2. CASE Settled(d)
        <3>1. controller[d].step = "record" /\ controller'[d].revision = r
            BY <1>1, <2>1, <2>2 DEF Settled
        <3>2. copied(r)
            BY <2>1, <3>1 DEF CopiesAreWhole, at
        <3>3. copied(r)'
            BY <3>2, CopiedStable
        <3>4. QED BY <3>1, <3>3 DEF copied, complete
    <2>3. CASE verifyTarget(d)
        <3>1. copied(r) /\ controller'[d].revision = r
            BY <1>1, <2>1, <2>3 DEF verifyTarget, goto, TypeOK, ControllerRecord
        <3>2. copied(r)'
            BY <3>1, CopiedStable
        <3>3. QED BY <3>1, <3>2 DEF copied, complete
    <2>4. CASE recheckCopies(d)
        BY <1>1, <2>4 DEF recheckCopies, goto, TypeOK, ControllerRecord
    <2>5. QED BY <2>2, <2>3, <2>4, ControllerMoves
<1>2. ASSUME NEW r \in migration'.copies PROVE copied(r)'
    <2>1. migration.copies \in SUBSET Revisions
        BY DEF TypeOK, MigrationRecord
    <2>2. r \in Revisions /\ copied(r)
        <3>1. CASE r \in migration.copies
            BY <2>1, <3>1 DEF CopiesAreWhole
        <3>2. ASSUME NEW c \in Controllers, recordVerifiedRevisionCopy(c), r \notin migration.copies
              PROVE  r \in Revisions /\ copied(r)
            <4>1. r = controller[c].revision /\ at(c, "record")
                BY <1>2, <3>2 DEF recordVerifiedRevisionCopy, command, TypeOK, MigrationRecord
            <4>2. QED BY <4>1 DEF CopiesAreWhole, TypeOK, ControllerRecord
        <3>3. ASSUME NEW c \in Controllers, switchStorageBinding(c), mayCutOver(c)
              PROVE  r \in migration.copies
            BY <1>2, <3>3 DEF switchStorageBinding, TypeOK, MigrationRecord
        <3>4. QED BY <1>2, <3>1, <3>2, <3>3, MigrationMoves DEF Undecided
    <2>3. QED BY <2>2, CopiedStable
<1>3. QED BY <1>1, <1>2 DEF CopiesAreWhole, at

\* The backup that a controller found complete stays complete.
LEMMA SwitchStep ==
    ASSUME TypeOK, SwitchIsBackedUp, [Next]_vars PROVE SwitchIsBackedUp'
<1>1. SUFFICES ASSUME NEW d \in Controllers, controller'[d].step = "switch"
               PROVE  backupVerified(d)'
    BY DEF SwitchIsBackedUp, at
<1>2. controller[d].head # 0
    BY MigrationBounds DEF TypeOK, ControllerRecord, Revisions
<1>3. backupVerified(d) /\ controller'[d].head = controller[d].head
    <2>1. CASE Settled(d)
        BY <1>1, <2>1 DEF Settled, SwitchIsBackedUp, at
    <2>2. CASE recheckCopies(d)
        BY <1>1, <2>2 DEF recheckCopies, goto, TypeOK, ControllerRecord
    <2>3. CASE verifyTarget(d)
        BY <1>1, <2>3 DEF verifyTarget, goto, TypeOK, ControllerRecord
    <2>4. QED BY <2>1, <2>2, <2>3, ControllerMoves
<1>4. QED BY <1>2, <1>3, BackupGrows DEF backupVerified

\* The binding and the record are switched by the same transaction, over a complete backup.
LEMMA CutoverStep ==
    ASSUME TypeOK, SwitchIsBackedUp, CutoverIsBackedUp, [Next]_vars PROVE CutoverIsBackedUp'
<1>0. workspace.generation \in {1, 2} /\ migration.head # 0
    BY MigrationBounds DEF TypeOK, MigrationRecord, Revisions
<1>1. ASSUME NEW u \in Users, acceptRevision(u) PROVE workspace'.generation = workspace.generation
    BY <1>1 DEF acceptRevision, publish, TypeOK
<1>2. ASSUME NEW c \in Controllers, switchStorageBinding(c), mayCutOver(c) PROVE CutoverIsBackedUp'
    <2>1. workspace'.generation = 2 /\ migration'.state = "complete" /\ migration'.head = migration.head
        BY <1>2 DEF switchStorageBinding, TypeOK, MigrationRecord
    <2>2. backupVerified(c) /\ controller[c].head = migration.head
        BY <1>2 DEF switchStorageBinding, command, SwitchIsBackedUp, mayCutOver
    <2>3. backup' = backup
        BY <1>2 DEF switchStorageBinding
    <2>4. QED BY <2>1, <2>2, <2>3 DEF CutoverIsBackedUp, backupVerified
<1>3. ASSUME NEW c \in Controllers, recordVerifiedRevisionCopy(c) PROVE CutoverIsBackedUp'
    <2>1. migration.state # "complete"
        BY <1>3 DEF recordVerifiedRevisionCopy, command, refused, current, migrating
    <2>2. migration'.state # "complete" /\ workspace' = workspace
        BY <1>3 DEF recordVerifiedRevisionCopy, TypeOK, MigrationRecord, history
    <2>3. QED BY <2>1, <2>2 DEF CutoverIsBackedUp
<1>4. ASSUME Undecided, workspace'.generation = workspace.generation PROVE CutoverIsBackedUp'
    BY <1>0, <1>4, BackupGrows DEF CutoverIsBackedUp, Undecided
<1>5. QED BY <1>1, <1>2, <1>3, <1>4, HistoryMoves, MigrationMoves

\* What can be read stays readable: publications are stored before they count, and the
\* cutover moves the records to whole copies.
LEMMA ReadableStep ==
    ASSUME TypeOK, CopiesAreWhole, HistoryIsReadable, [Next]_vars PROVE HistoryIsReadable'
<1>1. workspace.head \in Revisions /\ workspace.head \in Nat /\ 1 .. workspace.head \subseteq Revisions
    BY MigrationBounds DEF TypeOK, Revisions
<1>2. ASSUME NEW r \in Revisions, copied(r) PROVE copied(r)'
    BY <1>2, CopiedStable
<1>3. CASE UNCHANGED <<workspace, location, git>>
    BY <1>1, <1>2, <1>3 DEF HistoryIsReadable, readable, retained
<1>4. ASSUME NEW u \in Users, acceptRevision(u) PROVE HistoryIsReadable'
    <2>1. PICK n \in Revisions : n = workspace.head + 1
        BY <1>1, <1>4, MigrationBounds DEF acceptRevision, publish, Revisions
    <2>2. /\ workspace'.head = n /\ workspace'.generation = workspace.generation
          /\ location' = [location EXCEPT ![n] = workspace.generation]
          /\ git \subseteq git'
        BY <1>4, <2>1 DEF acceptRevision, publish, TypeOK
    <2>3. ASSUME NEW r \in 1 .. workspace.head PROVE location'[r] = workspace'.generation /\ readable(r)'
        <3>1. location'[r] = location[r] /\ r \in Revisions
            BY <1>1, <2>1, <2>2, <2>3 DEF TypeOK
        <3>2. QED BY <1>2, <2>2, <2>3, <3>1 DEF HistoryIsReadable, readable, retained
    <2>4. location'[n] = workspace'.generation /\ readable(n)'
        <3>1. location'[n] = workspace.generation
            BY <2>1, <2>2 DEF TypeOK
        <3>2. CASE workspace.generation = 1
            BY <1>4, <2>1, <2>2, <3>1, <3>2 DEF acceptRevision, publish, readable, retained
        <3>3. CASE workspace.generation = 2
            <4>1. target'[n] = Objects
                BY <1>4, <2>1, <3>3 DEF acceptRevision, publish, TypeOK
            <4>2. copied(n)'
                BY <4>1 DEF copied, complete, Objects
            <4>3. QED BY <2>2, <3>1, <3>3, <4>2 DEF readable
        <3>4. QED BY <3>2, <3>3 DEF TypeOK
    <2>5. ASSUME NEW r \in 1 .. n PROVE r \in 1 .. workspace.head \/ r = n
        BY <1>1, <2>1
    <2>6. QED BY <2>2, <2>3, <2>4, <2>5 DEF HistoryIsReadable
<1>5. ASSUME NEW c \in Controllers, switchStorageBinding(c), mayCutOver(c) PROVE HistoryIsReadable'
    <2>1. /\ workspace'.head = workspace.head /\ workspace'.generation = 2
          /\ location' = [r \in Revisions |-> IF r \in migration.copies THEN 2 ELSE location[r]]
          /\ migration.copies = 1 .. workspace.head
        BY <1>5 DEF switchStorageBinding, mayCutOver, TypeOK
    <2>2. ASSUME NEW r \in 1 .. workspace.head PROVE location'[r] = 2 /\ copied(r)'
        BY <1>1, <1>2, <2>1, <2>2 DEF CopiesAreWhole
    <2>3. QED BY <2>1, <2>2 DEF HistoryIsReadable, readable
<1>6. QED BY <1>3, <1>4, <1>5, HistoryMoves

\* No user is left with a binding that the workspace no longer has: the cutover waits for them.
LEMMA UsersStep ==
    ASSUME TypeOK, HistoryIsReadable, UsersAreBound, [Next]_vars PROVE UsersAreBound'
<1>1. SUFFICES ASSUME NEW u \in Users, user'[u].state = "open"
               PROVE  user'[u].source \in 1 .. workspace'.head /\ user'[u].place = workspace'.generation
    BY DEF UsersAreBound
<1>2. workspace.head \in Nat
    BY MigrationBounds DEF TypeOK, Revisions
<1>3. ASSUME NEW kind \in {"run", "restore", "copy", "export"}, NEW r \in Revisions, begins(u, kind, r)
      PROVE  user'[u].source \in 1 .. workspace'.head /\ user'[u].place = workspace'.generation
    <2>1. r \in 1 .. workspace.head /\ location[r] = workspace.generation
        BY <1>2, <1>3, MigrationBounds DEF begins, HistoryIsReadable, Revisions
    <2>2. user'[u] = [kind |-> kind, state |-> "open", source |-> r, place |-> location[r]]
        BY <1>3 DEF begins, TypeOK
    <2>3. QED BY <1>3, <2>1, <2>2 DEF begins, history
<1>4. ASSUME user'[u] = user[u]
      PROVE  user'[u].source \in 1 .. workspace'.head /\ user'[u].place = workspace'.generation
    <2>1. user[u].source \in 1 .. workspace.head /\ user[u].place = workspace.generation
        BY <1>1, <1>4 DEF UsersAreBound
    <2>2. ASSUME NEW v \in Users, acceptRevision(v)
          PROVE  workspace'.head = workspace.head + 1 /\ workspace'.generation = workspace.generation
        BY <2>2 DEF acceptRevision, publish, TypeOK
    <2>3. ASSUME NEW c \in Controllers, switchStorageBinding(c) PROVE FALSE
        BY <1>1, <1>4, <2>3 DEF switchStorageBinding, command, refused, drained
    <2>4. QED BY <1>2, <1>4, <2>1, <2>2, <2>3, HistoryMoves
<1>5. QED BY <1>1, <1>3, <1>4, UserMoves

-----------------------------------------------------------------------------
(* The theorems *)

\* The invariant holds at first.
LEMMA InvariantInit == ASSUME Init PROVE MigrationInvariant
<1>1. TypeOK
    BY TypeInit
<1>2. CopiesAreWhole /\ SwitchIsBackedUp
    BY DEF Init, CopiesAreWhole, SwitchIsBackedUp, at, NoTransfer
<1>3. CutoverIsBackedUp /\ UsersAreBound
    BY DEF Init, CutoverIsBackedUp, UsersAreBound, NoUser
<1>4. HistoryIsReadable
    BY FirstType DEF Init, HistoryIsReadable, readable, retained
<1>5. QED BY <1>1, <1>2, <1>3, <1>4 DEF MigrationInvariant

\* Every step keeps the invariant.
LEMMA InvariantStep == ASSUME MigrationInvariant, [Next]_vars PROVE MigrationInvariant'
BY TypeStep, CopiesStep, SwitchStep, CutoverStep, ReadableStep, UsersStep DEF MigrationInvariant

\* The invariant holds in every reachable state.
LEMMA InvariantHolds == Spec => []MigrationInvariant
<1>1. QED BY InvariantInit, InvariantStep, PTL DEF Spec

\* Every retained revision can be read where its record points, at any moment of any number
\* of transfers (switchStorageBinding, publish, prepareOwned).
THEOREM HistoryReadable == Spec => []HistoryIsReadable
<1>1. MigrationInvariant => HistoryIsReadable
    BY DEF MigrationInvariant
<1>2. QED BY <1>1, InvariantHolds, PTL

\* An open run, restore, copy or export finds its source where it recorded it (drained).
THEOREM UsersServed == Spec => []UsersKeepTheirSource
<1>1. ASSUME MigrationInvariant PROVE UsersKeepTheirSource
    BY <1>1 DEF MigrationInvariant, UsersAreBound, HistoryIsReadable, UsersKeepTheirSource, base
<1>2. QED BY <1>1, InvariantHolds, PTL

\* A cutover has a complete backup of the history it moved, and nothing else switches the
\* binding (recheckCopies, switchStorageBinding, failStorageMigration).
THEOREM CutoverBackedUp == Spec => []CutoverIsBackedUp
<1>1. MigrationInvariant => CutoverIsBackedUp
    BY DEF MigrationInvariant
<1>2. QED BY <1>1, InvariantHolds, PTL
=============================================================================
