-------------------------- MODULE LegacyAdoptionProofs --------------------------
(***************************************************************************)
(* Proofs about LegacyAdoption for any set of controllers, any number of   *)
(* commits, writes to the source and faults.                               *)
(***************************************************************************)
EXTENDS LegacyAdoption, TLAPS

-----------------------------------------------------------------------------
(* The inductive invariant *)

Installed(f) == backup[f].bytes # NoBytes

\* If the source still has the bytes of the backup, the backup is the reviewed content.  A write to
\* the source makes this true for good, because bytes never return.
SeenReviewed(f) == backup[f].bytes = source[f].bytes => backup[f].reviewed

\* Where a call has been through the backup.
BackedUp == {"ready", "prepare", "write", "record", "readback", "reinspect", "reinspected", "rebackup",
             "rebackup2", "accept"}

\* A backup file is a state that the source went through.
BackupIsPast ==
    \A f \in Files :
        /\ source[f].bytes <= MaxWrites
        /\ Installed(f) => backup[f].bytes <= source[f].bytes
        /\ backup[f].bytes = source[f].bytes => backup[f].reviewed = source[f].reviewed

\* What a call knows at each of its steps.
CallKnows(c) ==
    /\ controller[c].step \in BackedUp \cup {"backup2"} => Installed("repository")
    /\ controller[c].step \in BackedUp => Installed("metadata")
    /\ controller[c].step \in {"reinspected", "rebackup", "rebackup2"} => SeenReviewed("metadata")
    /\ controller[c].step = "rebackup" => SeenReviewed("repository")
    /\ controller[c].step \in {"rebackup2", "accept"} => backup["repository"].reviewed
    /\ controller[c].step = "accept" => backup["metadata"].reviewed

CopiesAreStored == adoption.copies \subseteq target

AdoptionInvariant ==
    TypeOK /\ BackupIsPast /\ CopiesAreStored /\ AdoptedIsReviewed /\ \A c \in Controllers : CallKnows(c)

-----------------------------------------------------------------------------
(* Type correctness *)

\* The idle call is well typed, and the numbers of the bounds are.
LEMMA Basics ==
    /\ NoBytes \in Nat /\ MaxWrites < NoBytes /\ 1 \in Commits
    /\ NoCall \in ControllerRecord /\ [NoCall EXCEPT !.step = "dead"] \in ControllerRecord
    /\ {"repository", "metadata"} = Files
<1>1. NoBytes \in Nat /\ MaxWrites < NoBytes /\ 1 \in Commits
    BY AdoptionBounds DEF NoBytes, Commits
<1>2. QED BY <1>1 DEF NoCall, ControllerRecord, Steps, Files

\* The moves of one call keep the types of all.
LEMMA MoveType ==
    ASSUME TypeOK, NEW c \in Controllers, NEW step \in Steps,
           goto(c, step) \/ saveAdoption(c, step) \/ returns(c)
    PROVE  controller' \in [Controllers -> ControllerRecord]
<1>1. CASE goto(c, step)
    <2>1. [controller[c] EXCEPT !.step = step] \in ControllerRecord
        BY DEF TypeOK, ControllerRecord
    <2>2. QED BY <1>1, <2>1 DEF goto, TypeOK
<1>2. CASE saveAdoption(c, step)
    <2>1. [controller[c] EXCEPT !.step = step, !.fresh = TRUE] \in ControllerRecord
        BY DEF TypeOK, ControllerRecord
    <2>2. \A d \in Controllers : [controller[d] EXCEPT !.fresh = FALSE] \in ControllerRecord
        BY DEF TypeOK, ControllerRecord
    <2>3. QED BY <1>2, <2>1, <2>2 DEF saveAdoption
<1>3. CASE returns(c)
    BY <1>3, Basics DEF returns, TypeOK
<1>4. QED BY <1>1, <1>2, <1>3

\* The initial state is well typed.
LEMMA TypeInit == ASSUME Init PROVE TypeOK
<1>1. (CHOOSE c \in Controllers : TRUE) \in Controllers
    BY AdoptionBounds
<1>2. NoReceipt \in Receipt
    BY Basics DEF NoReceipt, Receipt
<1>3. adoption \in AdoptionRecord
    BY <1>1, <1>2 DEF Init, AdoptionRecord
<1>4. source \in [Files -> FileRecord] /\ backup \in [Files -> FileRecord]
    BY Basics DEF Init, FileRecord
<1>5. faults \in 0 .. MaxFaults
    BY AdoptionBounds DEF Init
<1>6. QED BY <1>3, <1>4, <1>5, Basics DEF Init, TypeOK

\* A write to the source keeps the types and stays within its bound.
LEMMA TypeSource ==
    ASSUME TypeOK, NEW f \in Files, NEW reviewed \in BOOLEAN, legacyWrites(f, reviewed)
    PROVE  TypeOK' /\ source[f].bytes + 1 <= MaxWrites
<1>1. source["repository"].bytes \in Nat /\ source["metadata"].bytes \in Nat
    BY Basics DEF TypeOK, FileRecord
<1>2. f = "repository" \/ f = "metadata"
    BY DEF Files
<1>3. source[f].bytes \in Nat /\ source[f].bytes + 1 <= MaxWrites
    BY <1>1, <1>2, AdoptionBounds DEF legacyWrites
<1>4. source[f].bytes + 1 \in 0 .. NoBytes
    BY <1>3, Basics, AdoptionBounds
<1>5. [bytes |-> source[f].bytes + 1, reviewed |-> reviewed] \in FileRecord
    BY <1>4 DEF FileRecord
<1>6. source' \in [Files -> FileRecord]
    BY <1>5 DEF TypeOK, legacyWrites
<1>7. QED BY <1>3, <1>6 DEF TypeOK, legacyWrites

\* The steps of a call that only read keep the types.
LEMMA TypeReads ==
    ASSUME TypeOK, NEW c \in Controllers,
           adopt(c) \/ inspect(c) \/ readback(c) \/ reinspect(c) \/ commandRefused(c)
    PROVE  TypeOK'
<1>1. PICK step \in Steps : goto(c, step)
    BY DEF adopt, inspect, readback, reinspect, commandRefused, readMetadata, readRepository, Steps
<1>2. controller' \in [Controllers -> ControllerRecord]
    BY <1>1, MoveType
<1>3. QED BY <1>2 DEF TypeOK, adopt, inspect, readback, reinspect, commandRefused, readMetadata, readRepository

\* A backup keeps the types.
LEMMA TypeBackup ==
    ASSUME TypeOK, NEW c \in Controllers, backupSource(c) PROVE TypeOK'
<1>1. PICK step \in Steps, next \in Steps, f \in Files : copy(c, step, f, next)
    BY DEF backupSource, Steps, Files
<1>2. backup' \in [Files -> FileRecord]
    BY <1>1 DEF TypeOK, copy
<1>3. PICK to \in Steps : goto(c, to)
    BY <1>1 DEF copy, Steps
<1>4. controller' \in [Controllers -> ControllerRecord]
    BY <1>3, MoveType
<1>5. QED BY <1>1, <1>2, <1>4 DEF TypeOK, copy

\* The commands that write the adoption record keep the types.
LEMMA TypeCommands ==
    ASSUME TypeOK, NEW c \in Controllers,
           claimLegacyAdoption(c) \/ claimLegacyAdoptionRecovery(c) \/ recordLegacyAdoptionBackup(c)
           \/ recordLegacyAdoptionCopy(c) \/ acceptLegacyAdoption(c) \/ releaseLegacyAdoptionClaim(c)
    PROVE  TypeOK'
<1>1. CASE claimLegacyAdoption(c)
    <2>1. [adoption EXCEPT !.state = "preparing", !.owner = c, !.live = TRUE] \in AdoptionRecord
        BY DEF TypeOK, AdoptionRecord
    <2>2. controller' \in [Controllers -> ControllerRecord]
        BY <1>1, MoveType DEF claimLegacyAdoption, Steps
    <2>3. QED BY <1>1, <2>1, <2>2 DEF TypeOK, claimLegacyAdoption
<1>2. CASE claimLegacyAdoptionRecovery(c)
    <2>1. [adoption EXCEPT !.owner = c, !.live = TRUE] \in AdoptionRecord
        BY DEF TypeOK, AdoptionRecord
    <2>2. controller' \in [Controllers -> ControllerRecord]
        BY <1>2, MoveType DEF claimLegacyAdoptionRecovery, Steps
    <2>3. QED BY <1>2, <2>1, <2>2 DEF TypeOK, claimLegacyAdoptionRecovery
<1>3. CASE recordLegacyAdoptionBackup(c)
    <2>1. receiptDigest \in Receipt
        BY DEF TypeOK, FileRecord, receiptDigest, Receipt
    <2>2. [adoption EXCEPT !.receipt = receiptDigest] \in AdoptionRecord
        BY <2>1 DEF TypeOK, AdoptionRecord
    <2>3. controller' \in [Controllers -> ControllerRecord]
        BY <1>3, MoveType DEF recordLegacyAdoptionBackup, Steps
    <2>4. QED BY <1>3, <2>2, <2>3 DEF TypeOK, recordLegacyAdoptionBackup
<1>4. CASE recordLegacyAdoptionCopy(c)
    <2>1. adoption.copies \cup {controller[c].commit} \in SUBSET Commits
        BY DEF TypeOK, AdoptionRecord, ControllerRecord
    <2>2. [adoption EXCEPT !.copies = @ \cup {controller[c].commit}] \in AdoptionRecord
        BY <2>1 DEF TypeOK, AdoptionRecord
    <2>3. controller' \in [Controllers -> ControllerRecord]
        BY <1>4, MoveType DEF recordLegacyAdoptionCopy, Steps
    <2>4. QED BY <1>4, <2>2, <2>3 DEF TypeOK, recordLegacyAdoptionCopy
<1>5. CASE acceptLegacyAdoption(c)
    <2>1. [adoption EXCEPT !.state = "complete", !.live = FALSE] \in AdoptionRecord
        BY DEF TypeOK, AdoptionRecord
    <2>2. controller' \in [Controllers -> ControllerRecord]
        BY <1>5, MoveType DEF acceptLegacyAdoption, Steps
    <2>3. QED BY <1>5, <2>1, <2>2 DEF TypeOK, acceptLegacyAdoption
<1>6. CASE releaseLegacyAdoptionClaim(c)
    <2>1. [adoption EXCEPT !.live = FALSE] \in AdoptionRecord
        BY DEF TypeOK, AdoptionRecord
    <2>2. \A d \in Controllers : [controller[d] EXCEPT !.fresh = FALSE] \in ControllerRecord
        BY DEF TypeOK, ControllerRecord
    <2>3. controller' \in [Controllers -> ControllerRecord]
        BY <1>6, <2>2, Basics, MoveType DEF releaseLegacyAdoptionClaim, Steps
    <2>4. QED BY <1>6, <2>1, <2>3 DEF TypeOK, releaseLegacyAdoptionClaim
<1>7. QED BY <1>1, <1>2, <1>3, <1>4, <1>5, <1>6

\* Writing a candidate keeps the types.
LEMMA TypeCandidate ==
    ASSUME TypeOK, NEW c \in Controllers, beginCandidateWrite(c) \/ openRevision(c) PROVE TypeOK'
<1>1. CASE beginCandidateWrite(c)
    <2>1. PICK r \in Commits, step \in Steps :
            /\ controller' = [controller EXCEPT ![c] = [@ EXCEPT !.step = step, !.commit = r]]
            /\ writer' \in {writer, writer \cup {c}}
        BY <1>1 DEF beginCandidateWrite, Steps
    <2>2. [controller[c] EXCEPT !.step = step, !.commit = r] \in ControllerRecord
        BY DEF TypeOK, ControllerRecord
    <2>3. controller' \in [Controllers -> ControllerRecord]
        BY <2>1, <2>2 DEF TypeOK
    <2>4. QED BY <1>1, <2>1, <2>3 DEF TypeOK, beginCandidateWrite
<1>2. CASE openRevision(c)
    <2>1. controller[c].commit \in Commits
        BY DEF TypeOK, ControllerRecord
    <2>2. controller' \in [Controllers -> ControllerRecord]
        BY <1>2, MoveType DEF openRevision, Steps
    <2>3. QED BY <1>2, <2>1, <2>2 DEF TypeOK, openRevision
<1>3. QED BY <1>1, <1>2

\* Faults keep the types.
LEMMA TypeFaults ==
    ASSUME TypeOK, NEW c \in Controllers, claimLapses(c) \/ controllerErrs(c) \/ controllerDies(c)
    PROVE  TypeOK'
<1>1. fault => faults' \in 0 .. MaxFaults
    BY AdoptionBounds DEF TypeOK, fault
<1>2. CASE claimLapses(c)
    <2>1. [adoption EXCEPT !.live = FALSE] \in AdoptionRecord
        BY DEF TypeOK, AdoptionRecord
    <2>2. QED BY <1>1, <1>2, <2>1 DEF TypeOK, claimLapses
<1>3. CASE controllerErrs(c)
    <2>1. controller' \in [Controllers -> ControllerRecord]
        BY <1>3, MoveType DEF controllerErrs, Steps
    <2>2. QED BY <1>1, <1>3, <2>1 DEF TypeOK, controllerErrs
<1>4. CASE controllerDies(c)
    BY <1>1, <1>4, Basics DEF TypeOK, controllerDies
<1>5. QED BY <1>2, <1>3, <1>4

\* Every step keeps the types.
LEMMA TypeStep == ASSUME TypeOK, [Next]_vars PROVE TypeOK'
<1>1. CASE UNCHANGED vars
    BY <1>1 DEF TypeOK, vars
<1>2. CASE claimWorkspaceCreation \/ acceptWorkspace
    BY <1>2 DEF TypeOK, claimWorkspaceCreation, acceptWorkspace
<1>3. QED BY <1>1, <1>2, TypeSource, TypeReads, TypeBackup, TypeCommands, TypeCandidate, TypeFaults
          DEF Next, controllerStep

\* The state of an adoption keeps its types, for any number of controllers and commits.
THEOREM TypeCorrect == Spec => []TypeOK
<1>1. QED BY TypeInit, TypeStep, PTL DEF Spec

-----------------------------------------------------------------------------
(* What a step does to each part of the state *)

\* The source changes by a legacy write only, and the backup by a backup only.
LEMMA FileMoves ==
    ASSUME [Next]_vars
    PROVE  \/ UNCHANGED <<source, backup>>
           \/ UNCHANGED backup /\ \E f \in Files, reviewed \in BOOLEAN : legacyWrites(f, reviewed)
           \/ UNCHANGED source /\ \E c \in Controllers : backupSource(c)
<1>1. CASE UNCHANGED vars
    BY <1>1 DEF vars
<1>2. CASE claimWorkspaceCreation \/ acceptWorkspace
    BY <1>2 DEF claimWorkspaceCreation, acceptWorkspace
<1>3. ASSUME NEW f \in Files, NEW reviewed \in BOOLEAN, legacyWrites(f, reviewed) PROVE UNCHANGED backup
    BY <1>3 DEF legacyWrites
<1>4. ASSUME NEW c \in Controllers, backupSource(c) PROVE UNCHANGED source
    BY <1>4 DEF backupSource, copy
<1>5. ASSUME NEW c \in Controllers,
             adopt(c) \/ inspect(c) \/ readback(c) \/ reinspect(c) \/ commandRefused(c) \/ beginCandidateWrite(c)
             \/ openRevision(c) \/ claimLapses(c) \/ controllerErrs(c) \/ controllerDies(c)
      PROVE  UNCHANGED <<source, backup>>
    BY <1>5 DEF adopt, inspect, readback, reinspect, commandRefused, readMetadata, readRepository,
                beginCandidateWrite, openRevision, claimLapses, controllerErrs, controllerDies
<1>6. ASSUME NEW c \in Controllers,
             claimLegacyAdoption(c) \/ claimLegacyAdoptionRecovery(c) \/ recordLegacyAdoptionBackup(c)
             \/ recordLegacyAdoptionCopy(c) \/ acceptLegacyAdoption(c) \/ releaseLegacyAdoptionClaim(c)
      PROVE  UNCHANGED <<source, backup>>
    BY <1>6 DEF claimLegacyAdoption, claimLegacyAdoptionRecovery, recordLegacyAdoptionBackup,
                recordLegacyAdoptionCopy, acceptLegacyAdoption, releaseLegacyAdoptionClaim
<1>7. QED BY <1>1, <1>2, <1>3, <1>4, <1>5, <1>6 DEF Next, controllerStep

\* What a legacy write does to one file.
LEMMA WriteEffect ==
    ASSUME TypeOK, NEW f \in Files, NEW reviewed \in BOOLEAN, legacyWrites(f, reviewed), NEW g \in Files
    PROVE  \/ source'[g] = source[g]
           \/ source'[g].bytes = source[g].bytes + 1 /\ source'[g].bytes <= MaxWrites
<1>1. CASE g = f
    BY <1>1, TypeSource DEF legacyWrites, TypeOK
<1>2. CASE g # f
    BY <1>2 DEF legacyWrites, TypeOK
<1>3. QED BY <1>1, <1>2

\* What a backup does to one file: it installs the source where there was nothing.
LEMMA CopyEffect ==
    ASSUME TypeOK, NEW c \in Controllers, backupSource(c), NEW g \in Files
    PROVE  \/ backup'[g] = backup[g]
           \/ ~Installed(g) /\ backup'[g] = source[g]
<1>1. PICK step \in Steps, next \in Steps, f \in Files : copy(c, step, f, next)
    BY DEF backupSource, Steps, Files
<1>2. QED BY <1>1 DEF copy, TypeOK, Installed

\* The backup stays a past state of the source.
LEMMA PastStep ==
    ASSUME TypeOK, BackupIsPast, [Next]_vars PROVE BackupIsPast'
<1>1. SUFFICES ASSUME NEW g \in Files
               PROVE  /\ source'[g].bytes <= MaxWrites
                      /\ backup'[g].bytes # NoBytes => backup'[g].bytes <= source'[g].bytes
                      /\ backup'[g].bytes = source'[g].bytes => backup'[g].reviewed = source'[g].reviewed
    BY DEF BackupIsPast, Installed
<1>2. /\ source[g].bytes <= MaxWrites
      /\ backup[g].bytes # NoBytes => backup[g].bytes <= source[g].bytes
      /\ backup[g].bytes = source[g].bytes => backup[g].reviewed = source[g].reviewed
      /\ source[g].bytes \in Nat /\ backup[g].bytes \in Nat
    BY Basics DEF BackupIsPast, Installed, TypeOK, FileRecord
<1>3. CASE UNCHANGED <<source, backup>>
    BY <1>2, <1>3
<1>4. ASSUME UNCHANGED backup, NEW f \in Files, NEW reviewed \in BOOLEAN, legacyWrites(f, reviewed)
      PROVE  /\ source'[g].bytes <= MaxWrites
             /\ backup'[g].bytes # NoBytes => backup'[g].bytes <= source'[g].bytes
             /\ backup'[g].bytes = source'[g].bytes => backup'[g].reviewed = source'[g].reviewed
    <2>1. CASE source'[g] = source[g]
        BY <1>2, <1>4, <2>1
    <2>2. CASE source'[g].bytes = source[g].bytes + 1 /\ source'[g].bytes <= MaxWrites
        BY <1>2, <1>4, <2>2, Basics, AdoptionBounds
    <2>3. QED BY <1>4, <2>1, <2>2, WriteEffect
<1>5. ASSUME UNCHANGED source, NEW c \in Controllers, backupSource(c)
      PROVE  /\ source'[g].bytes <= MaxWrites
             /\ backup'[g].bytes # NoBytes => backup'[g].bytes <= source'[g].bytes
             /\ backup'[g].bytes = source'[g].bytes => backup'[g].reviewed = source'[g].reviewed
    BY <1>2, <1>5, CopyEffect
<1>6. QED BY <1>3, <1>4, <1>5, FileMoves

\* An installed file is never replaced, and what is known of it stays true.
LEMMA KnownStays ==
    ASSUME TypeOK, BackupIsPast, [Next]_vars, NEW g \in Files, Installed(g)
    PROVE  /\ Installed(g)' /\ backup'[g] = backup[g]
           /\ SeenReviewed(g) => SeenReviewed(g)'
<1>1. /\ backup[g].bytes <= source[g].bytes
      /\ source[g].bytes \in Nat /\ backup[g].bytes \in Nat
    BY Basics DEF BackupIsPast, Installed, TypeOK, FileRecord
<1>2. backup'[g] = backup[g]
    BY FileMoves, CopyEffect DEF Installed
<1>3. source'[g] = source[g] \/ source'[g].bytes = source[g].bytes + 1
    BY FileMoves, WriteEffect
<1>4. QED BY <1>1, <1>2, <1>3 DEF Installed, SeenReviewed

-----------------------------------------------------------------------------
(* What each call knows *)

\* A call that stays where it is, or goes where nothing is known, knows as much as before.
NoNews(d) ==
    controller'[d].step = controller[d].step \/ controller'[d].step \notin BackedUp \cup {"backup2"}

\* A call that has been through the backup goes on to a step before the second inspection.
GoesOn(d) ==
    controller[d].step \in BackedUp /\ controller'[d].step \in {"prepare", "write", "record", "readback", "reinspect"}

\* Where each call goes in a step.
LEMMA CallMoves ==
    ASSUME TypeOK, [Next]_vars, NEW d \in Controllers
    PROVE  NoNews(d) \/ GoesOn(d) \/ backupSource(d) \/ reinspect(d)
<1>1. ASSUME UNCHANGED controller PROVE NoNews(d)
    BY <1>1 DEF NoNews
<1>2. ASSUME NEW c \in Controllers, NEW step \in Steps,
             goto(c, step) \/ saveAdoption(c, step) \/ returns(c)
      PROVE  /\ d # c => NoNews(d)
             /\ step \notin BackedUp \cup {"backup2"} => NoNews(d)
             /\ goto(c, step) \/ saveAdoption(c, step) => controller'[c].step = step
    <2>1. CASE goto(c, step)
        BY <2>1 DEF goto, NoNews, TypeOK, ControllerRecord, saveAdoption
    <2>2. CASE saveAdoption(c, step)
        BY <2>2 DEF saveAdoption, NoNews, TypeOK, ControllerRecord, goto
    <2>3. CASE returns(c)
        BY <2>3 DEF returns, NoNews, TypeOK, ControllerRecord, NoCall, BackedUp, goto, saveAdoption
    <2>4. QED BY <1>2, <2>1, <2>2, <2>3
<1>3. ASSUME NEW c \in Controllers,
             adopt(c) \/ inspect(c) \/ claimLegacyAdoption(c) \/ claimLegacyAdoptionRecovery(c)
             \/ acceptLegacyAdoption(c) \/ commandRefused(c) \/ controllerErrs(c)
      PROVE  NoNews(d)
    <2>1. PICK step \in Steps \ (BackedUp \cup {"backup2"}) :
            goto(c, step) \/ saveAdoption(c, step) \/ returns(c)
        BY <1>3 DEF adopt, inspect, readMetadata, readRepository, claimLegacyAdoption,
                    claimLegacyAdoptionRecovery, acceptLegacyAdoption, commandRefused, controllerErrs,
                    Steps, BackedUp
    <2>2. QED BY <1>2, <2>1
<1>4. ASSUME NEW c \in Controllers, recordLegacyAdoptionBackup(c) \/ recordLegacyAdoptionCopy(c) \/ readback(c)
             \/ openRevision(c)
      PROVE  NoNews(d) \/ GoesOn(d)
    <2>1. PICK step \in {"prepare", "record", "readback", "reinspect", "release"} :
            /\ step \in Steps
            /\ goto(c, step) \/ saveAdoption(c, step)
        BY <1>4 DEF recordLegacyAdoptionBackup, recordLegacyAdoptionCopy, readback, openRevision, Steps
    <2>2. controller[c].step \in BackedUp
        BY <1>4 DEF recordLegacyAdoptionBackup, recordLegacyAdoptionCopy, readback, openRevision, at, BackedUp
    <2>3. (d # c => NoNews(d)) /\ controller'[c].step = step
        BY <1>2, <2>1
    <2>4. QED BY <2>2, <2>3 DEF NoNews, GoesOn, BackedUp
<1>5. ASSUME NEW c \in Controllers, beginCandidateWrite(c) PROVE NoNews(d) \/ GoesOn(d)
    <2>1. PICK r \in Commits, step \in {"record", "write", "release"} :
            controller' = [controller EXCEPT ![c] = [@ EXCEPT !.step = step, !.commit = r]]
        BY <1>5 DEF beginCandidateWrite
    <2>2. controller[c].step \in BackedUp
        BY <1>5 DEF beginCandidateWrite, at, BackedUp
    <2>3. QED BY <2>1, <2>2 DEF NoNews, GoesOn, BackedUp, TypeOK, ControllerRecord
<1>6. ASSUME NEW c \in Controllers, backupSource(c) \/ reinspect(c) PROVE d # c => NoNews(d)
    <2>1. PICK step \in Steps : goto(c, step)
        BY <1>6 DEF backupSource, copy, reinspect, readMetadata, readRepository, Steps
    <2>2. QED BY <1>2, <2>1
<1>7. ASSUME NEW c \in Controllers, releaseLegacyAdoptionClaim(c) \/ controllerDies(c) PROVE NoNews(d)
    BY <1>7 DEF releaseLegacyAdoptionClaim, controllerDies, returns, NoNews, TypeOK, ControllerRecord,
                NoCall, BackedUp
<1>8. ASSUME NEW c \in Controllers, claimLapses(c) PROVE NoNews(d)
    BY <1>1, <1>8 DEF claimLapses
<1>9. ASSUME \/ claimWorkspaceCreation \/ acceptWorkspace \/ UNCHANGED vars
             \/ \E f \in Files, reviewed \in BOOLEAN : legacyWrites(f, reviewed)
      PROVE  NoNews(d)
    BY <1>1, <1>9 DEF claimWorkspaceCreation, acceptWorkspace, legacyWrites, vars
<1>10. QED BY <1>3, <1>4, <1>5, <1>6, <1>7, <1>8, <1>9 DEF Next, controllerStep

\* One file of a backup: afterwards it is installed, or the call gives up; an earlier installation
\* is passed only if the source still has its bytes.
LEMMA CopyOutcome ==
    ASSUME TypeOK, BackupIsPast, NEW d \in Controllers, NEW f \in Files, NEW step \in Steps, NEW next \in Steps,
           copy(d, step, f, next)
    PROVE  \/ controller'[d].step = "release"
           \/ /\ controller'[d].step = next
              /\ Installed(f)'
              /\ Installed(f) => backup[f].bytes = source[f].bytes
<1>1. source[f].bytes # NoBytes
    BY Basics, AdoptionBounds DEF BackupIsPast, TypeOK, FileRecord
<1>2. CASE ~Installed(f)
    <2>1. backup' = [backup EXCEPT ![f] = source[f]] /\ goto(d, next)
        BY <1>2 DEF copy, Installed
    <2>2. backup'[f] = source[f] /\ controller'[d].step = next
        BY <2>1 DEF TypeOK, ControllerRecord, goto
    <2>3. QED BY <1>1, <1>2, <2>2 DEF Installed
<1>3. CASE Installed(f)
    <2>1. UNCHANGED backup /\ goto(d, IF backup[f].bytes = source[f].bytes THEN next ELSE "release")
        BY <1>3 DEF copy, Installed
    <2>2. QED BY <1>3, <2>1 DEF Installed, TypeOK, ControllerRecord, goto
<1>4. QED BY <1>2, <1>3

\* What a call knows is true after every step.
LEMMA KnowsStep ==
    ASSUME TypeOK, BackupIsPast, NEW d \in Controllers, CallKnows(d), [Next]_vars
    PROVE  CallKnows(d)'
<1>1. "repository" \in Files /\ "metadata" \in Files
    BY Basics
<1>2. CASE NoNews(d)
    <2>1. CASE controller'[d].step = controller[d].step
        BY <1>1, <2>1, KnownStays DEF CallKnows, BackedUp
    <2>2. CASE controller'[d].step \notin BackedUp \cup {"backup2"}
        BY <2>2 DEF CallKnows, BackedUp
    <2>3. QED BY <1>2, <2>1, <2>2 DEF NoNews
<1>3. CASE GoesOn(d)
    BY <1>1, <1>3, KnownStays DEF GoesOn, CallKnows, BackedUp
<1>4. CASE backupSource(d)
    <2>1. CASE copy(d, "backup", "repository", "backup2")
        <3>1. \/ controller'[d].step = "release"
              \/ controller'[d].step = "backup2" /\ Installed("repository")'
            BY <1>1, <2>1, CopyOutcome DEF Steps
        <3>2. QED BY <3>1 DEF CallKnows, BackedUp
    <2>2. CASE copy(d, "backup2", "metadata", "ready")
        <3>1. Installed("repository")'
            BY <1>1, <2>2, KnownStays DEF copy, at, CallKnows
        <3>2. \/ controller'[d].step = "release"
              \/ controller'[d].step = "ready" /\ Installed("metadata")'
            BY <1>1, <2>2, CopyOutcome DEF Steps
        <3>3. QED BY <3>1, <3>2 DEF CallKnows, BackedUp
    <2>3. CASE copy(d, "rebackup", "repository", "rebackup2")
        <3>1. Installed("repository") /\ Installed("metadata") /\ SeenReviewed("repository") /\ SeenReviewed("metadata")
            BY <2>3 DEF copy, at, CallKnows, BackedUp
        <3>2. /\ Installed("repository")' /\ Installed("metadata")' /\ SeenReviewed("metadata")'
              /\ backup'["repository"] = backup["repository"]
            BY <1>1, <3>1, KnownStays
        <3>3. \/ controller'[d].step = "release"
              \/ controller'[d].step = "rebackup2" /\ backup["repository"].reviewed
            BY <1>1, <2>3, <3>1, CopyOutcome DEF Steps, SeenReviewed
        <3>4. QED BY <3>2, <3>3 DEF CallKnows, BackedUp
    <2>4. CASE copy(d, "rebackup2", "metadata", "accept")
        <3>1. Installed("repository") /\ Installed("metadata") /\ SeenReviewed("metadata") /\ backup["repository"].reviewed
            BY <2>4 DEF copy, at, CallKnows, BackedUp
        <3>2. /\ Installed("repository")' /\ Installed("metadata")'
              /\ backup'["repository"] = backup["repository"] /\ backup'["metadata"] = backup["metadata"]
            BY <1>1, <3>1, KnownStays
        <3>3. \/ controller'[d].step = "release"
              \/ controller'[d].step = "accept" /\ backup["metadata"].reviewed
            BY <1>1, <2>4, <3>1, CopyOutcome DEF Steps, SeenReviewed
        <3>4. QED BY <3>1, <3>2, <3>3 DEF CallKnows, BackedUp
    <2>5. QED BY <1>4, <2>1, <2>2, <2>3, <2>4 DEF backupSource
<1>5. CASE reinspect(d)
    <2>1. UNCHANGED <<source, backup>>
        BY <1>5 DEF reinspect, readMetadata, readRepository
    <2>2. \A f \in Files : source[f].reviewed => SeenReviewed(f)'
        BY <2>1 DEF BackupIsPast, SeenReviewed
    <2>3. Installed("repository")' /\ Installed("metadata")'
        BY <1>5, <2>1 DEF reinspect, readMetadata, readRepository, at, CallKnows, BackedUp, Installed
    <2>4. \/ controller'[d].step = "release"
          \/ controller'[d].step = "reinspected" /\ source["metadata"].reviewed
          \/ /\ controller'[d].step = "rebackup" /\ source["repository"].reviewed
             /\ controller[d].step = "reinspected"
        BY <1>5 DEF reinspect, readMetadata, readRepository, at, goto, TypeOK, ControllerRecord
    <2>5. controller[d].step = "reinspected" => SeenReviewed("metadata")'
        BY <2>1 DEF CallKnows, SeenReviewed
    <2>6. QED BY <1>1, <2>2, <2>3, <2>4, <2>5 DEF CallKnows, BackedUp
<1>6. QED BY <1>2, <1>3, <1>4, <1>5, CallMoves

-----------------------------------------------------------------------------
(* Copies and acceptance *)

\* Recorded copies are in the store, from which an adoption takes nothing away.
LEMMA CopiesStep ==
    ASSUME TypeOK, CopiesAreStored, [Next]_vars
    PROVE  CopiesAreStored' /\ adoption.copies \subseteq adoption'.copies /\ target \subseteq target'
<1>1. ASSUME UNCHANGED <<adoption, target>>
      PROVE  CopiesAreStored' /\ adoption.copies \subseteq adoption'.copies /\ target \subseteq target'
    BY <1>1 DEF CopiesAreStored
<1>2. ASSUME adoption'.copies = adoption.copies, UNCHANGED target
      PROVE  CopiesAreStored' /\ adoption.copies \subseteq adoption'.copies /\ target \subseteq target'
    BY <1>2 DEF CopiesAreStored
<1>3. ASSUME NEW c \in Controllers, openRevision(c)
      PROVE  CopiesAreStored' /\ adoption.copies \subseteq adoption'.copies /\ target \subseteq target'
    BY <1>3 DEF openRevision, CopiesAreStored
<1>4. ASSUME NEW c \in Controllers, recordLegacyAdoptionCopy(c)
      PROVE  CopiesAreStored' /\ adoption.copies \subseteq adoption'.copies /\ target \subseteq target'
    BY <1>4 DEF recordLegacyAdoptionCopy, CopiesAreStored, TypeOK, AdoptionRecord
<1>5. ASSUME NEW c \in Controllers,
             claimLegacyAdoption(c) \/ claimLegacyAdoptionRecovery(c) \/ recordLegacyAdoptionBackup(c)
             \/ acceptLegacyAdoption(c) \/ releaseLegacyAdoptionClaim(c) \/ claimLapses(c)
      PROVE  adoption'.copies = adoption.copies /\ UNCHANGED target
    BY <1>5 DEF claimLegacyAdoption, claimLegacyAdoptionRecovery, recordLegacyAdoptionBackup,
                acceptLegacyAdoption, releaseLegacyAdoptionClaim, claimLapses, TypeOK, AdoptionRecord
<1>6. ASSUME NEW c \in Controllers,
             adopt(c) \/ inspect(c) \/ readback(c) \/ reinspect(c) \/ commandRefused(c) \/ backupSource(c)
             \/ beginCandidateWrite(c) \/ controllerErrs(c) \/ controllerDies(c)
      PROVE  UNCHANGED <<adoption, target>>
    BY <1>6 DEF adopt, inspect, readback, reinspect, commandRefused, readMetadata, readRepository,
                backupSource, copy, beginCandidateWrite, controllerErrs, controllerDies
<1>7. ASSUME \/ claimWorkspaceCreation \/ acceptWorkspace \/ UNCHANGED vars
             \/ \E f \in Files, reviewed \in BOOLEAN : legacyWrites(f, reviewed)
      PROVE  UNCHANGED <<adoption, target>>
    BY <1>7 DEF claimWorkspaceCreation, acceptWorkspace, legacyWrites, vars
<1>8. QED BY <1>1, <1>2, <1>3, <1>4, <1>5, <1>6, <1>7 DEF Next, controllerStep

\* Only the acceptance installs an adopted workspace.
LEMMA WorkspaceMoves ==
    ASSUME [Next]_vars, workspace' = "adopted"
    PROVE  workspace = "adopted" \/ \E c \in Controllers : acceptLegacyAdoption(c) /\ adoption.copies = Commits
<1>1. CASE UNCHANGED vars
    BY <1>1 DEF vars
<1>2. CASE claimWorkspaceCreation \/ acceptWorkspace
    BY <1>2 DEF claimWorkspaceCreation, acceptWorkspace
<1>3. ASSUME NEW f \in Files, NEW reviewed \in BOOLEAN, legacyWrites(f, reviewed) PROVE UNCHANGED workspace
    BY <1>3 DEF legacyWrites
<1>4. ASSUME NEW c \in Controllers, acceptLegacyAdoption(c) PROVE workspace = "adopted" \/ adoption.copies = Commits
    BY <1>4 DEF acceptLegacyAdoption
<1>5. ASSUME NEW c \in Controllers,
             adopt(c) \/ inspect(c) \/ readback(c) \/ reinspect(c) \/ commandRefused(c) \/ backupSource(c)
             \/ beginCandidateWrite(c) \/ openRevision(c) \/ claimLapses(c) \/ controllerErrs(c) \/ controllerDies(c)
      PROVE  UNCHANGED workspace
    BY <1>5 DEF adopt, inspect, readback, reinspect, commandRefused, readMetadata, readRepository, backupSource,
                copy, beginCandidateWrite, openRevision, claimLapses, controllerErrs, controllerDies
<1>6. ASSUME NEW c \in Controllers,
             claimLegacyAdoption(c) \/ claimLegacyAdoptionRecovery(c) \/ recordLegacyAdoptionBackup(c)
             \/ recordLegacyAdoptionCopy(c) \/ releaseLegacyAdoptionClaim(c)
      PROVE  UNCHANGED workspace
    BY <1>6 DEF claimLegacyAdoption, claimLegacyAdoptionRecovery, recordLegacyAdoptionBackup,
                recordLegacyAdoptionCopy, releaseLegacyAdoptionClaim
<1>7. QED BY <1>1, <1>2, <1>3, <1>4, <1>5, <1>6 DEF Next, controllerStep

\* What was adopted stays reviewed, and the acceptance adopts nothing else.
LEMMA AdoptedStep ==
    ASSUME TypeOK, BackupIsPast, CopiesAreStored, AdoptedIsReviewed,
           \A c \in Controllers : CallKnows(c), [Next]_vars, TypeOK'
    PROVE  AdoptedIsReviewed'
<1>1. SUFFICES ASSUME workspace' = "adopted" PROVE AdoptedIsReviewed'
    BY DEF AdoptedIsReviewed
<1>2. /\ \A f \in Files : Installed(f) /\ backup[f].reviewed
      /\ adoption.copies = Commits
    <2>1. CASE workspace = "adopted"
        BY <2>1 DEF AdoptedIsReviewed, Installed
    <2>2. ASSUME NEW c \in Controllers, acceptLegacyAdoption(c), adoption.copies = Commits
          PROVE  /\ \A f \in Files : Installed(f) /\ backup[f].reviewed
                 /\ adoption.copies = Commits
        BY <2>2 DEF acceptLegacyAdoption, at, CallKnows, BackedUp, Files
    <2>3. QED BY <1>1, <2>1, <2>2, WorkspaceMoves
<1>3. \A f \in Files : Installed(f)' /\ backup'[f].reviewed
    BY <1>2, KnownStays
<1>4. adoption'.copies = Commits
    BY <1>2, CopiesStep DEF TypeOK, AdoptionRecord
<1>5. CopiesAreStored'
    BY CopiesStep
<1>6. QED BY <1>3, <1>4, <1>5 DEF AdoptedIsReviewed, CopiesAreStored, Installed

-----------------------------------------------------------------------------
(* The theorem *)

\* The invariant holds at first.
LEMMA InvariantInit == ASSUME Init PROVE AdoptionInvariant
<1>1. TypeOK
    BY TypeInit
<1>2. BackupIsPast
    BY Basics, AdoptionBounds DEF Init, BackupIsPast, Installed
<1>3. CopiesAreStored /\ AdoptedIsReviewed
    BY DEF Init, CopiesAreStored, AdoptedIsReviewed
<1>4. \A c \in Controllers : CallKnows(c)
    BY DEF Init, CallKnows, NoCall, BackedUp
<1>5. QED BY <1>1, <1>2, <1>3, <1>4 DEF AdoptionInvariant

\* Every step keeps the invariant.
LEMMA InvariantStep == ASSUME AdoptionInvariant, [Next]_vars PROVE AdoptionInvariant'
<1>1. TypeOK'
    BY TypeStep DEF AdoptionInvariant
<1>2. BackupIsPast' /\ CopiesAreStored' /\ AdoptedIsReviewed'
    BY <1>1, PastStep, CopiesStep, AdoptedStep DEF AdoptionInvariant
<1>3. \A c \in Controllers : CallKnows(c)'
    BY KnowsStep DEF AdoptionInvariant
<1>4. QED BY <1>1, <1>2, <1>3 DEF AdoptionInvariant

\* An adopted workspace has the reviewed content in its backup and every retained commit in its
\* store, however the source changed between the inventories and the backups
\* (adopt: reinspect, backupSource, acceptLegacyAdoption).
THEOREM AdoptionReviewed == Spec => []AdoptedIsReviewed
<1>1. AdoptionInvariant => AdoptedIsReviewed
    BY DEF AdoptionInvariant
<1>2. QED BY <1>1, InvariantInit, InvariantStep, PTL DEF Spec
=============================================================================
