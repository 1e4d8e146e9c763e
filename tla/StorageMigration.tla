---------------------------- MODULE StorageMigration ----------------------------
(***************************************************************************)
(* Moving a workspace from one storage binding (generation 1) to another   *)
(* (generation 2): the migration record and its processing claim, the      *)
(* controllers that back up, copy, verify and switch, and what they race   *)
(* with: runs, restores, copies to other workspaces and exports, which use *)
(* retained revisions at the place that they recorded when they began.     *)
(* The source is a Git revision store, the target an S3 one: a candidate   *)
(* there is several objects, put one after the other under a writer        *)
(* record, and a request that failed without an answer may still land.     *)
(*                                                                         *)
(* History is linear, so the retained set is 1 .. head and the head stands *)
(* for the workspace version and the digest of the set.  Each command of a *)
(* controller names the migration version it last saw; `fresh` says that   *)
(* it is still the stored one, which also covers the fence.                *)
(***************************************************************************)
EXTENDS Naturals

CONSTANTS Users,         \* runs, restores, copies and exports
          Controllers,   \* operator processes that run the transfer
          MaxRevisions,  \* length of history
          MaxFaults      \* lapsed claims, dead processes and transient errors

ASSUME MigrationBounds == Controllers # {} /\ MaxRevisions \in Nat \ {0} /\ MaxFaults \in Nat

Revisions == 1 .. MaxRevisions

VARIABLES workspace,   \* binding generation and head
          location,    \* the binding in each revision record
          git,         \* the revisions that the source store retains
          target,      \* the objects of each candidate in the target store
          late,        \* active writer records without a process: a request that may still land
          user,        \* who uses a retained revision
          migration,   \* the migration record
          backup,      \* the files of the backup directory
          controller,  \* the transfer of each process
          faults

vars == <<workspace, location, git, target, late, user, migration, backup, controller, faults>>
history == <<workspace, location, git>>
store == <<target, late>>

-----------------------------------------------------------------------------
(* Records *)

\* intent.json with the revision alias, the files, and prepared.json of a candidate.
Objects == {"intent", "files", "prepared"}
WriterRecord == [owner: Controllers, revision: Revisions, object: Objects]
UserRecord == [kind: {"run", "restore", "copy", "export"}, state: {"none", "open", "terminal", "closed"},
               source: Revisions, place: {1, 2}]
MigrationRecord == [state: {"none", "draining", "copying", "verified", "complete", "failed"},
                    owner: Controllers, live: BOOLEAN, head: Revisions,
                    backup: {"none", "preparing", "ready"},
                    candidates: SUBSET Revisions, copies: SUBSET Revisions]
\* catalog is the head in the captured catalog, 0 if there is none.
BackupFiles == [catalog: Nat, archived: SUBSET Revisions]
Steps == {"idle", "claim", "check", "backup", "capture", "archive", "ready", "verify", "copy", "prepare",
          "begin", "intent", "files", "prepared", "compare", "record", "recheck", "switch", "fail",
          "release", "dead"}
ControllerRecord == [step: Steps, head: Revisions, fresh: BOOLEAN, revision: Revisions]

TypeOK ==
    /\ workspace \in [generation: {1, 2}, head: Revisions]
    /\ location \in [Revisions -> {1, 2}] /\ git \in SUBSET Revisions
    /\ target \in [Revisions -> SUBSET Objects] /\ late \in SUBSET WriterRecord
    /\ user \in [Users -> UserRecord] /\ migration \in MigrationRecord
    /\ backup \in BackupFiles /\ controller \in [Controllers -> ControllerRecord]
    /\ faults \in 0 .. MaxFaults

NoUser == [kind |-> "run", state |-> "none", source |-> 1, place |-> 1]
NoTransfer == [step |-> "idle", head |-> 1, fresh |-> FALSE, revision |-> 1]

Init ==
    /\ workspace = [generation |-> 1, head |-> 1]
    /\ location = [r \in Revisions |-> 1] /\ git = {1}
    /\ target = [r \in Revisions |-> {}] /\ late = {}
    /\ user = [u \in Users |-> NoUser]
    /\ migration = [state |-> "none", owner |-> CHOOSE c \in Controllers : TRUE, live |-> FALSE,
                    head |-> 1, backup |-> "none", candidates |-> {}, copies |-> {}]
    /\ backup = [catalog |-> 0, archived |-> {}]
    /\ controller = [c \in Controllers |-> NoTransfer]
    /\ faults = 0

-----------------------------------------------------------------------------
(* What the stores answer *)

\* Git retains a revision from its one reference transaction on.
retained(r) == r \in git

\* S3 takes a candidate for complete when intent and marker are there; reading it needs the files too.
complete(r) == {"intent", "prepared"} \subseteq target[r]
copied(r) == complete(r) /\ "files" \in target[r]

\* The controllers' source: the revision record as it was read before any cutover.
source(r) == retained(r)

\* A reader goes where the revision record points now.
readable(r) == IF location[r] = 1 THEN retained(r) ELSE copied(r)

-----------------------------------------------------------------------------
(* Users of retained revisions *)

migrating == migration.state \in {"draining", "copying", "verified"}

begins(u, kind, r) ==
    /\ user[u].state = "none" /\ r <= workspace.head
    /\ user' = [user EXCEPT ![u] = [kind |-> kind, state |-> "open", source |-> r,
                                    place |-> location[r]]]
    /\ UNCHANGED <<history, store, migration, backup, controller, faults>>

openRun(u) == ~migrating /\ begins(u, "run", workspace.head)
claimRestore(u, r) == ~migrating /\ begins(u, "restore", r)
claimCopySourcePin(u, r) == ~migrating /\ begins(u, "copy", r)
createBundle(u, r) == ~migrating /\ begins(u, "export", r)

\* A user gets its source: the revision is still bound where the user recorded it, and readable.
base(u) == user[u].place = location[user[u].source] /\ readable(user[u].source)

open(u, kind) == user[u].kind = kind /\ user[u].state = "open"
ends(u) == user' = [user EXCEPT ![u] = [NoUser EXCEPT !.state = "closed"]]

publish ==
    /\ workspace.head < MaxRevisions
    /\ workspace' = [workspace EXCEPT !.head = @ + 1]
    /\ location' = [location EXCEPT ![workspace.head + 1] = workspace.generation]
    /\ IF workspace.generation = 1
       THEN git' = git \cup {workspace.head + 1} /\ UNCHANGED target
       ELSE target' = [target EXCEPT ![workspace.head + 1] = Objects] /\ UNCHANGED git

\* A run or a restore publishes on the head it started from, in the binding it
\* recorded; or it ends without a new revision.
acceptRevision(u) ==
    /\ user[u].kind \in {"run", "restore"} /\ user[u].state = "open"
    /\ user[u].place = workspace.generation
    /\ user[u].kind = "run" => user[u].source = workspace.head
    /\ publish /\ ends(u)
    /\ UNCHANGED <<late, migration, backup, controller, faults>>

endsUnchanged(u) ==
    /\ open(u, "run") \/ open(u, "restore")
    /\ ends(u)
    /\ UNCHANGED <<history, store, migration, backup, controller, faults>>

\* An export ends in no other way: one that is refused or given up stays "preparing".
completeBundle(u) ==
    /\ open(u, "export") /\ ends(u)
    /\ UNCHANGED <<history, store, migration, backup, controller, faults>>

\* The restore in the other workspace, or its creation, has a recorded outcome.
copyDecided(u) ==
    /\ open(u, "copy")
    /\ user' = [user EXCEPT ![u] = [@ EXCEPT !.state = "terminal"]]
    /\ UNCHANGED <<history, store, migration, backup, controller, faults>>

completeCopySourcePin(u) ==
    /\ user[u].state = "terminal" /\ ends(u)
    /\ UNCHANGED <<history, store, migration, backup, controller, faults>>

-----------------------------------------------------------------------------
(* The catalog's commands for a controller *)

at(c, step) == controller[c].step = step
goto(c, step) == controller' = [controller EXCEPT ![c] = [@ EXCEPT !.step = step]]
returns(c) == controller' = [controller EXCEPT ![c] = NoTransfer]

\* A write by c: c has seen the new version and nobody else has.
saveMigration(c, next) ==
    controller' = [d \in Controllers |->
        IF d = c THEN [controller[d] EXCEPT !.step = next, !.fresh = TRUE]
        ELSE [controller[d] EXCEPT !.fresh = FALSE]]

\* The migration as c knows it: current version and fence, live claim, undecided.
current(c) == controller[c].fresh /\ migration.live /\ migrating

\* Mutant: only runs have to drain.
drainedOfRuns == \A u \in Users : ~open(u, "run")

\* No user has a source or destination here whose outcome is open.
drained == \A u \in Users : user[u].state # "open"

\* Pins whose copy is decided are released on the way.
releasePins ==
    user' = [u \in Users |-> IF user[u].state = "terminal" THEN [NoUser EXCEPT !.state = "closed"] ELSE user[u]]

\* transfer reads the workspace and its retained revisions; the first call also reads every file.
transfer(c) ==
    /\ at(c, "idle") /\ migration.state \in {"none", "draining", "copying", "verified"}
    /\ migration.state = "none" => \A r \in 1 .. workspace.head : source(r)
    /\ controller' = [controller EXCEPT ![c] = [@ EXCEPT !.step = "claim", !.head = workspace.head]]
    /\ UNCHANGED <<history, store, user, migration, backup, faults>>

\* The first claim requires the workspace that was read.
claimStorageMigration(c) ==
    /\ at(c, "claim") /\ migration.state = "none"
    /\ IF workspace.head = controller[c].head
       THEN /\ migration' = [migration EXCEPT !.state = "draining", !.owner = c, !.live = TRUE,
                                               !.head = workspace.head]
            /\ saveMigration(c, "check")
       ELSE UNCHANGED migration /\ returns(c)
    /\ UNCHANGED <<history, store, user, backup, faults>>

\* Mutant: only the controller that claimed the transfer resumes it.
recoverOwn(c) ==
    /\ at(c, "claim") /\ migration.state # "none"
    /\ IF migrating /\ migration.owner = c
       THEN /\ migration' = [migration EXCEPT !.live = TRUE]
            /\ saveMigration(c, "check")
       ELSE UNCHANGED migration /\ returns(c)
    /\ UNCHANGED <<history, store, user, backup, faults>>

\* Later calls with the same identity go on with their own live claim, take over an
\* expired one, or leave that of another process alone.
claimStorageMigrationRecovery(c) ==
    /\ at(c, "claim") /\ migration.state # "none"
    /\ IF migrating /\ (migration.live => migration.owner = c)
       THEN /\ migration' = [migration EXCEPT !.owner = c, !.live = TRUE]
            /\ saveMigration(c, "check")
       ELSE UNCHANGED migration /\ returns(c)
    /\ UNCHANGED <<history, store, user, backup, faults>>

\* History changed after the first claim: a terminal error.
checkSnapshot(c) ==
    /\ at(c, "check")
    /\ goto(c, IF controller[c].head = migration.head THEN "backup" ELSE "fail")
    /\ UNCHANGED <<history, store, user, migration, backup, faults>>

\* A command with a stale version or an undrained workspace is refused; the call
\* ends and gives the claim back if it is still its own.
refused(c, mustDrain) == ~current(c) \/ (mustDrain /\ ~drained)

commandRefused(c) ==
    /\ controller[c].step \in {"backup", "capture", "ready", "verify", "copy", "record", "recheck", "switch"}
    /\ refused(c, TRUE)
    /\ goto(c, "release")
    /\ UNCHANGED <<history, store, user, migration, backup, faults>>

command(c, step) == at(c, step) /\ ~refused(c, TRUE) /\ releasePins

claimMigrationBackup(c) ==
    /\ command(c, "backup")
    /\ IF migration.backup = "none"
       THEN migration' = [migration EXCEPT !.backup = "preparing"] /\ saveMigration(c, "capture")
       ELSE UNCHANGED migration /\ goto(c, IF migration.backup = "ready" THEN "verify" ELSE "capture")
    /\ UNCHANGED <<history, store, backup, faults>>

\* The first complete catalog copy is kept; it must show the selected history.
captureMigrationCatalog(c) ==
    /\ command(c, "capture")
    /\ backup' = [backup EXCEPT !.catalog = IF @ = 0 THEN workspace.head ELSE @]
    /\ goto(c, IF backup'.catalog = migration.head THEN "archive" ELSE "fail")
    /\ UNCHANGED <<history, store, migration, faults>>

first(r, S) == r \in S /\ \A q \in S : r <= q

\* archiveRevision for each revision, and the secrets.
archiveRevision(c) ==
    /\ at(c, "archive")
    /\ LET missing == (1 .. controller[c].head) \ backup.archived IN
       IF missing = {} THEN goto(c, "ready") /\ UNCHANGED backup
       ELSE \E r \in Revisions :
              /\ first(r, missing)
              /\ IF source(r)
                 THEN backup' = [backup EXCEPT !.archived = @ \cup {r}] /\ UNCHANGED controller
                 ELSE UNCHANGED backup /\ goto(c, "fail")
    /\ UNCHANGED <<history, store, user, migration, faults>>

completeMigrationBackup(c) ==
    /\ command(c, "ready")
    /\ migration' = [migration EXCEPT !.backup = "ready"] /\ saveMigration(c, "verify")
    /\ UNCHANGED <<history, store, backup, faults>>

\* verifyMigrationBackup: the receipt covers the catalog and every retained revision.
backupVerified(c) == backup.catalog = controller[c].head /\ 1 .. controller[c].head \subseteq backup.archived

verifyMigrationBackup(c) ==
    /\ command(c, "verify")
    /\ goto(c, IF backupVerified(c) THEN "copy" ELSE "fail")
    /\ UNCHANGED <<history, store, migration, backup, faults>>

\* The next revision without a verified copy gets its candidate in the target binding, or keeps it.
claimMigrationCandidate(c) ==
    /\ command(c, "copy")
    /\ LET left == (1 .. controller[c].head) \ migration.copies IN
       IF left = {} THEN UNCHANGED migration /\ goto(c, "recheck")
       ELSE \E r \in Revisions :
              /\ first(r, left)
              /\ IF r \in migration.candidates THEN UNCHANGED migration
                 ELSE migration' = [migration EXCEPT !.state = "copying", !.candidates = @ \cup {r}]
              /\ controller' = [d \in Controllers |->
                    IF d = c THEN [controller[d] EXCEPT !.step = "prepare", !.fresh = TRUE, !.revision = r]
                    ELSE [controller[d] EXCEPT !.fresh = FALSE]]
    /\ UNCHANGED <<history, store, backup, faults>>

-----------------------------------------------------------------------------
(* One candidate in the target store *)

writing(c) == controller[c].step \in Objects
record(c) == [owner |-> c, revision |-> controller[c].revision, object |-> controller[c].step]

\* A candidate that an earlier attempt completed is used as it is.
inspectCandidate(c) ==
    LET r == controller[c].revision IN
    /\ at(c, "prepare")
    /\ goto(c, IF ~source(r) THEN "fail"
               ELSE IF complete(r) THEN (IF copied(r) THEN "compare" ELSE "release")
               ELSE "begin")
    /\ UNCHANGED <<history, store, user, migration, backup, faults>>

\* The writer record needs the live claim of this process, not the latest version.
beginCandidateWrite(c) ==
    /\ at(c, "begin")
    /\ goto(c, IF migrating /\ migration.live /\ migration.owner = c THEN "intent" ELSE "release")
    /\ UNCHANGED <<history, store, user, migration, backup, faults>>

\* prepareOwned puts the objects in this order, each only if it is not there yet; the
\* writer record is finished after the last.
prepareOwned(c) ==
    LET r == controller[c].revision IN
    /\ writing(c)
    /\ target' = [target EXCEPT ![r] = @ \cup {controller[c].step}]
    /\ goto(c, IF at(c, "intent") THEN "files" ELSE IF at(c, "files") THEN "prepared" ELSE "compare")
    /\ UNCHANGED <<history, late, user, migration, backup, faults>>

\* The copy is read back and compared with the source.
verifyTarget(c) ==
    /\ at(c, "compare")
    /\ goto(c, IF copied(controller[c].revision) THEN "record" ELSE "fail")
    /\ UNCHANGED <<history, store, user, migration, backup, faults>>

recordVerifiedRevisionCopy(c) ==
    LET copies == migration.copies \cup {controller[c].revision} IN
    /\ command(c, "record")
    /\ migration' = [migration EXCEPT !.copies = copies,
                        !.state = IF copies = 1 .. workspace.head THEN "verified" ELSE "copying"]
    /\ saveMigration(c, "copy")
    /\ UNCHANGED <<history, store, backup, faults>>

\* Every copy and the backup are read once more before the cutover.
recheckCopies(c) ==
    /\ command(c, "recheck")
    /\ goto(c, IF (\A r \in migration.copies : source(r) /\ copied(r)) /\ backupVerified(c)
               THEN "switch" ELSE "fail")
    /\ UNCHANGED <<history, store, migration, backup, faults>>

mayCutOver(c) ==
    /\ migration.state = "verified" /\ migration.backup = "ready"
    /\ workspace.generation = 1
    /\ workspace.head = migration.head /\ controller[c].head = migration.head
    /\ migration.copies = 1 .. workspace.head

\* Mutant: only the head is needed in the target.
switchHeadOnly(c) ==
    /\ command(c, "switch")
    /\ IF mayCutOver(c)
       THEN /\ location' = [location EXCEPT ![workspace.head] = 2]
            /\ workspace' = [workspace EXCEPT !.generation = 2]
            /\ migration' = [migration EXCEPT !.state = "complete"]
            /\ saveMigration(c, "release")
       ELSE UNCHANGED <<location, workspace, migration>> /\ goto(c, "fail")
    /\ UNCHANGED <<git, store, backup, faults>>

\* One transaction moves every revision record and the workspace to the target.
switchStorageBinding(c) ==
    /\ command(c, "switch")
    /\ IF mayCutOver(c)
       THEN /\ location' = [r \in Revisions |-> IF r \in migration.copies THEN 2 ELSE location[r]]
            /\ workspace' = [workspace EXCEPT !.generation = 2]
            /\ migration' = [migration EXCEPT !.state = "complete"]
            /\ saveMigration(c, "release")
       ELSE UNCHANGED <<location, workspace, migration>> /\ goto(c, "fail")
    /\ UNCHANGED <<git, store, backup, faults>>

\* Mutant: a terminal error is recorded whoever has the claim.
failAnyway(c) ==
    /\ at(c, "fail")
    /\ migration' = [migration EXCEPT !.state = "failed"] /\ saveMigration(c, "release")
    /\ UNCHANGED <<history, store, user, backup, faults>>

\* A terminal error is recorded if the claim is still this controller's.
failStorageMigration(c) ==
    /\ at(c, "fail")
    /\ IF migrating /\ migration.owner = c /\ migration.live /\ workspace.generation = 1
       THEN migration' = [migration EXCEPT !.state = "failed"] /\ saveMigration(c, "release")
       ELSE UNCHANGED migration /\ goto(c, "release")
    /\ UNCHANGED <<history, store, user, backup, faults>>

\* The claim is given back unless a writer of this process may still be storing.
releaseStorageMigrationClaim(c) ==
    /\ at(c, "release")
    /\ IF migrating /\ migration.owner = c /\ migration.live /\ \A w \in late : w.owner # c
       THEN /\ migration' = [migration EXCEPT !.live = FALSE]
            /\ controller' = [d \in Controllers |->
                  IF d = c THEN NoTransfer ELSE [controller[d] EXCEPT !.fresh = FALSE]]
       ELSE UNCHANGED migration /\ returns(c)
    /\ UNCHANGED <<history, store, user, backup, faults>>

-----------------------------------------------------------------------------
(* Faults *)

fault == faults < MaxFaults /\ faults' = faults + 1

\* Time passes for the claim of a process that is not working on it too.  A renewal only postpones
\* this: whoever can renew is the only one that knows the current version, so nobody else is refused
\* because of it.
claimLapses(c) ==
    /\ migration.owner = c /\ migrating /\ migration.live
    /\ fault \/ (controller[c].step \in {"idle", "dead"} /\ UNCHANGED faults)
    /\ migration' = [migration EXCEPT !.live = FALSE]
    /\ UNCHANGED <<history, store, user, backup, controller>>

\* Refused authority is terminal, anything else is left to a later call.
controllerErrs(c) ==
    /\ fault /\ controller[c].step \notin {"idle", "claim", "fail", "release", "dead"}
    /\ goto(c, "fail") \/ goto(c, "release")
    /\ UNCHANGED <<history, store, user, migration, backup>>

\* A put without an answer: its writer record stays active, whether a retry succeeds or the call ends.
writeUncertain(c) ==
    /\ fault /\ writing(c)
    /\ late' = late \cup {record(c)}
    /\ UNCHANGED controller \/ goto(c, "release")
    /\ UNCHANGED <<history, target, user, migration, backup>>

\* The request was on its way.
landsLate(w) ==
    /\ w \in late /\ w.object \notin target[w.revision]
    /\ target' = [target EXCEPT ![w.revision] = @ \cup {w.object}]
    /\ UNCHANGED <<history, late, user, migration, backup, controller, faults>>

controllerDies(c) ==
    /\ fault /\ ~at(c, "dead") /\ \E d \in Controllers \ {c} : ~at(d, "dead")
    /\ late' = IF writing(c) THEN late \cup {record(c)} ELSE late
    /\ controller' = [controller EXCEPT ![c] = [NoTransfer EXCEPT !.step = "dead"]]
    /\ UNCHANGED <<history, target, user, migration, backup>>

-----------------------------------------------------------------------------

controllerStep(c) ==
    \/ claimStorageMigration(c) \/ claimStorageMigrationRecovery(c) \/ checkSnapshot(c)
    \/ commandRefused(c) \/ claimMigrationBackup(c) \/ captureMigrationCatalog(c) \/ archiveRevision(c)
    \/ completeMigrationBackup(c) \/ verifyMigrationBackup(c) \/ claimMigrationCandidate(c)
    \/ inspectCandidate(c) \/ beginCandidateWrite(c) \/ prepareOwned(c) \/ verifyTarget(c)
    \/ recordVerifiedRevisionCopy(c) \/ recheckCopies(c)
    \/ switchStorageBinding(c) \/ failStorageMigration(c) \/ releaseStorageMigrationClaim(c)

\* Maintenance expires a run and recovers its finalization or a restore.
maintenanceDecides(u) == acceptRevision(u) \/ endsUnchanged(u)

\* Only their caller settles a copy or an export.
callerDecides(u) == copyDecided(u) \/ completeBundle(u)

Next ==
    \/ \E u \in Users : openRun(u) \/ maintenanceDecides(u) \/ callerDecides(u)
                          \/ completeCopySourcePin(u)
    \/ \E u \in Users, r \in Revisions : claimRestore(u, r) \/ claimCopySourcePin(u, r) \/ createBundle(u, r)
    \/ \E c \in Controllers : transfer(c) \/ controllerStep(c) \/ controllerErrs(c)
                              \/ writeUncertain(c) \/ controllerDies(c) \/ claimLapses(c)
    \/ \E w \in WriterRecord : landsLate(w)

Spec == Init /\ [][Next]_vars

\* Maintenance runs, the operator repeats the transfer, abandoned claims expire.  No caller
\* need ever settle its copy or its export.
Fairness ==
    /\ \A u \in Users : WF_vars(maintenanceDecides(u))
    /\ \A c \in Controllers : WF_vars(transfer(c)) /\ WF_vars(controllerStep(c))
    /\ \A c \in Controllers : WF_vars(controller[c].step \in {"idle", "dead"} /\ claimLapses(c))

FairSpec == Spec /\ Fairness

-----------------------------------------------------------------------------
(* Properties *)

\* No copy or export waits for its caller; none begins while a transfer is under way.
settledByCallers == \A u \in Users : ~open(u, "copy") /\ ~open(u, "export")

\* At every moment each retained revision can be read where its record says, in the
\* workspace's own binding: the cutover loses none, not even one that a draining run
\* published after the claim, and every copy is whole although writers were interrupted
\* between its objects (switchStorageBinding, drained, verifyTarget).
HistoryIsReadable ==
    \A r \in 1 .. workspace.head : location[r] = workspace.generation /\ readable(r)

\* Whoever uses a retained revision gets it where it was recorded: the binding does
\* not switch under a run, a restore, a copy or an export (drained, migrating).
UsersKeepTheirSource == \A u \in Users : user[u].state = "open" => base(u)

\* A completed transfer has a backup of exactly the history it moved, however many
\* controllers, claims and attempts it took; a failed one has moved nothing
\* (captureMigrationCatalog, completeMigrationBackup, failStorageMigration).
CutoverIsBackedUp ==
    /\ (migration.state = "complete") = (workspace.generation = 2)
    /\ migration.state = "complete" =>
         backup.catalog = migration.head /\ 1 .. migration.head \subseteq backup.archived

\* A claimed transfer is decided in the end by repeating the same command, although runs
\* and restores drain late, claims lapse and controllers die or fail between any two steps:
\* at once when it is claimed, or from the moment on when the callers have settled the
\* copies and exports that began before the claim (drained), whom nobody can hurry.
TransferIsDecided == migration.state = "draining" /\ settledByCallers ~> ~migrating
=============================================================================
